------------------------------ MODULE MCSystem ------------------------------
\* A KV and a TS database of two blocks each, the tasks of an application,
\* and one lock for both databases or one for each.
EXTENDS System

MCDb == {"kv", "ts"}
MCOffset == [kv |-> 0, ts |-> 4]
MCPartLen == [d \in MCDb |-> 4]
MCTask == {"main", "log", "web"}
MCMaxCalls == [main |-> 2, log |-> 1, web |-> 1]
MCSecSize == [kv |-> 0, ts |-> 2]
MCLockMaps == {[d \in MCDb |-> "kv"], [d \in MCDb |-> d]}
=============================================================================
