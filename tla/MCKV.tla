-------------------------------- MODULE MCKV --------------------------------
\* Values for the constants of KVDB.tla that a .cfg file cannot write down.
EXTENDS KVProps, StatusTable

CONSTANTS k1, k2, v1, v2, big   \* `big' does not fit in a sector

LenUniform == [v \in Val \cup {NoVal} |-> IF v = big THEN Cap + 1 ELSE 2]
LenMixed == [v \in Val \cup {NoVal} |-> CASE v = v1 -> 2 [] v = v2 -> 3 [] OTHER -> Cap + 1]
NoDefaults == <<>>
TwoDefaults == << <<k1, v1>>, <<k2, big>> >>
\* WriteStatus is what the status tables of the flash do, for up to 8 statuses.
ASSUME StatusTableAssumption ==
    \A num \in 1 .. 8 : \A n \in 0 .. num - 1, table \in SUBSET (0 .. num) :
        GetStatus(Programmed(table, n), num) = WriteStatus(GetStatus(table, num), n)

OneDefault == << <<k1, v1>> >>
=============================================================================
