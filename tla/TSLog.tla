-------------------------------- MODULE TSLog --------------------------------
(***************************************************************************)
(* What a user of the time series database is promised: a set of logs,     *)
(* named by their timestamps.  An append adds one log later than all the   *)
(* others, or none; while it runs the earliest logs may go, never all of   *)
(* them.  Clean takes them all away.  Nothing else changes the set, and a  *)
(* call that returns success has done its work.                            *)
(***************************************************************************)
EXTENDS Integers

CONSTANT Time

VARIABLES log, req, ack

None == [kind |-> "none", time |-> 0]
Requests == [kind : {"append"}, time : Time] \cup [kind : {"clean"}, time : {0}]

Init == log = {} /\ req = None /\ ack = FALSE

Begin == /\ req = None
         /\ req' \in Requests
         /\ ack' = FALSE
         /\ UNCHANGED log

\* An append ends with the step that makes the log count.
Add == /\ req.kind = "append"
       /\ \A t \in log : t < req.time
       /\ log' = log \cup {req.time}
       /\ req' = None
       /\ ack' = TRUE

Drop == /\ req.kind = "append"
        /\ \E from \in log : log' = {t \in log : t >= from}
        /\ UNCHANGED <<req, ack>>

Clear == /\ req.kind = "clean"
         /\ log' \in SUBSET log
         /\ UNCHANGED <<req, ack>>

\* An append that did nothing failed, or the power did.
End == /\ req # None
       /\ req' = None
       /\ ack' \in IF req.kind = "clean" /\ log = {} THEN BOOLEAN ELSE {FALSE}
       /\ UNCHANGED log

\* The acknowledgement of the last request is forgotten.
Forget == ack /\ ack' = FALSE /\ UNCHANGED <<log, req>>

Next == Begin \/ Add \/ Drop \/ Clear \/ End \/ Forget

Spec == Init /\ [][Next]_<<log, req, ack>>
=============================================================================
