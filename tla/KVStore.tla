------------------------------- MODULE KVStore -------------------------------
(***************************************************************************)
(* What a user of the KV database is promised: a map from names to values, *)
(* one request at a time.  A request takes effect in one step or, when the *)
(* power fails before that, not at all; when it returns success it has     *)
(* taken effect; and nothing else ever changes the map.                    *)
(***************************************************************************)
CONSTANTS Key, Val, NoKey, NoVal, DefaultPairs

VARIABLES db, req, ack

None == [kind |-> "none", key |-> NoKey, val |-> NoVal]
Requests ==
    [kind : {"set"}, key : Key, val : Val]
    \cup [kind : {"del"}, key : Key, val : {NoVal}]
    \* "boot" writes the defaults on a blank device, "reset" erases all first.
    \cup [kind : {"boot", "reset"}, key : {NoKey}, val : {NoVal}]

Init == /\ db = [k \in Key |-> NoVal]
        /\ req = None
        /\ ack = FALSE

Begin == /\ req = None
         /\ req' \in Requests
         /\ ack' = FALSE
         /\ UNCHANGED db

Update(k, v) == db' = [db EXCEPT ![k] = v]

\* The one step in which a request takes effect; set_default is the only one
\* that is made of many such steps.
Apply ==
    /\ \/ req.kind = "set" /\ Update(req.key, req.val)
       \/ req.kind = "del" /\ Update(req.key, NoVal)
       \/ req.kind \in {"boot", "reset"} /\ \E p \in DefaultPairs : Update(p[1], p[2])
       \/ req.kind = "reset" /\ \E K \in SUBSET Key :
              db' = [k \in Key |-> IF k \in K THEN NoVal ELSE db[k]]
    /\ UNCHANGED <<req, ack>>

Done == CASE req.kind = "set" -> db[req.key] = req.val
          [] req.kind = "del" -> db[req.key] = NoVal
          [] OTHER -> TRUE

\* A request returns: with success only when it is done, else with an error
\* or, when the power failed, not at all.
End == /\ req # None
       /\ req' = None
       /\ ack' \in IF Done THEN BOOLEAN ELSE {FALSE}
       /\ UNCHANGED db

\* The acknowledgement of the last request is forgotten.
Forget == ack /\ ack' = FALSE /\ UNCHANGED <<db, req>>

Next == Begin \/ Apply \/ End \/ Forget

Spec == Init /\ [][Next]_<<db, req, ack>>
=============================================================================
