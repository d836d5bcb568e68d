------------------------------ MODULE MCKVIter ------------------------------
\* Values for the constants of KVIterate.tla that a .cfg file cannot write down.
EXTENDS KVIterate, TLC

CONSTANTS k1, k2, v1, v2, big

LenMixed == [v \in Val \cup {NoVal} |-> CASE v = v1 -> 2 [] v = v2 -> 3 [] OTHER -> Cap + 1]
LenThree == [v \in Val \cup {NoVal} |-> 3]
NoDefaults == <<>>
\* `raced' never goes back to FALSE: what a property asks of the steps before
\* the first such race is settled by the states where it is FALSE.
NotRaced == ~raced
KeySymmetry == Permutations(Key)
=============================================================================
