-------------------------------- MODULE MCTS --------------------------------
\* Values for the constants of TSQuery.tla that a .cfg file cannot write down.
EXTENDS TSQuery

\* Data that starts with a zero byte, and is older than any log.
OldData == [st |-> TSL_USER_STATUS2, time |-> 0]
=============================================================================
