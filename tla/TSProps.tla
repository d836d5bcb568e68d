------------------------------- MODULE TSProps -------------------------------
(***************************************************************************)
(* The properties of the time series database TSDB.tla.                    *)
(***************************************************************************)
EXTENDS TSDB

-----------------------------------------------------------------------------
(* Types *)

PC == {"off", "down", "hung", "failed", "fmtErase", "fmtHdr", "fmtDone", "idle", "refuse",
       "end", "endWrite", "full", "erase", "format", "using", "startTime",
       "preWrite", "commit", "stray"}

Store == UNUSED .. FULL
TslStatus == TSL_UNUSED .. TSL_USER_STATUS2
Tsl == [st : TslStatus, time : Time, len : Nat]
End == [st : TslStatus, time : Int, slot : Int]
CurType == [sec : Sector \cup {NoSec}, status : Store, start : Int,
            st : TslStatus \X TslStatus, endTime : Int,
            end : (Sector \cup {NoSec}) \X Int, n : Nat, room : Nat]
OpType == [kind : {"none", "append", "clean"}, len : Nat, time : Int]

\* Every variable keeps its type: the addresses stay inside the partition,
\* but for FDB_DATA_UNUSED, and a write always has a sector to go to.
TypeOK ==
    /\ magic \in [Sector -> BOOLEAN]
    /\ store \in [Sector -> Store]
    /\ start \in [Sector -> Int]
    /\ ends \in [Sector -> End \X End]
    /\ logs \in [Sector -> Seq(Tsl)]
    /\ oldest \in Sector \cup {NoSec}
    /\ cur \in CurType
    /\ last \in Int /\ rollover \in BOOLEAN
    /\ pc \in PC /\ op \in OpType /\ ack \in BOOLEAN
    /\ fmt \in Sector
    /\ crashes \in 0 .. MaxCrash /\ cleans \in 0 .. MaxClean
    /\ pc \in {"end", "endWrite", "full", "erase", "format", "using",
               "startTime", "preWrite", "commit"} => cur.sec \in Sector

-----------------------------------------------------------------------------
(* What the flash alone says *)

Idle == pc = "idle"
Ready == Idle /\ oldest \in Sector /\ cur.sec \in Sector

Done(s) == {i \in DOMAIN logs[s] : magic[s] /\ Complete(logs[s][i])}
StoredIn(s) == {logs[s][i].time : i \in Done(s)}
Stored == UNION {StoredIn(s) : s \in Sector}

Rank(base, s) == IF base <= s THEN s - base ELSE s + SecNum - base

-----------------------------------------------------------------------------
(* Refinement *)

Promise == INSTANCE TSLog WITH
    log <- Stored,
    req <- [kind |-> op.kind, time |-> op.time]

\* Appending, rolling over, cleaning and starting up implement the set of
\* TSLog: a log that was acknowledged stays until a later append takes the
\* sector of the earliest logs, or all is cleaned.
Atomic == Promise!Spec

-----------------------------------------------------------------------------
(* Safety *)

\* Between calls the sectors from the oldest on hold the logs in the order of
\* their timestamps: what the iterators and the search rely on.
Ordered ==
    Ready =>
        /\ \A s \in Sector : \A i, j \in Done(s) : i < j => logs[s][i].time < logs[s][j].time
        /\ \A s, t \in Sector : Rank(oldest, s) < Rank(oldest, t) =>
             \A x \in StoredIn(s), y \in StoredIn(t) : x < y

\* Between calls db->cur_sec and db->last_time are what a fresh start would
\* read from the flash.
CurAgrees ==
    Ready =>
        /\ cur.status = store[cur.sec]
        /\ cur.status = USING =>
             /\ cur.n = Len(logs[cur.sec])
             /\ cur.room = Room(cur.sec)
             /\ cur.n > 0 => cur.end = <<cur.sec, cur.n - 1>>
        /\ Stored # {} => last = Max(Stored)

\* A full sector has an end node, and it is that of its last log: what
\* fdb_tsl_iter and the search take for the end of the sector.
EndNodesRight ==
    \A s \in Sector : magic[s] /\ store[s] = FULL =>
        \E e \in EndInfo(s) :
            /\ e.slot = Len(logs[s]) - 1
            /\ Done(s) # {} => e.time = logs[s][Max(Done(s))].time

\* A database that is ready has a current and an oldest sector
\* (fdb_tsdb.c:972 "db->cur_sec is the latest sector, and the next is the
\* oldest sector").
HasCurrent == Idle => cur.sec \in Sector /\ oldest \in Sector

\* Whenever the power may fail there is one sector in use at most: with two
\* of them the next start formats the whole database.
OneUsing == Cardinality({s \in Sector : magic[s] /\ store[s] = USING}) <= 1

\* The index entries from the top and the data from the bottom of a sector
\* never meet.
LogsFit ==
    \A s \in Sector : Total([i \in DOMAIN logs[s] |-> 1 + logs[s][i].len]) <= Cap

-----------------------------------------------------------------------------
(* What a step may not do *)

\* A log is accepted only when it is later than all that are stored
\* (fdb_tsdb.c:399 "MUST more than the last save timestamp").
LaterOnly == [][pc = "commit" /\ pc' = "idle" => \A t \in Stored : t < op.time]_vars

\* With rollover switched off no append erases a log (fdb_tsdb.c:355
\* "not rollover").
NoRollover == [][~rollover /\ pc = "erase" => Stored' = Stored]_vars

\* The start formats the sectors only when they hold no log
\* (fdb_def.h:328 "the oldest data will rollover by newest data").
FormatsBlankOnly == [][(pc \in {"off", "down"} /\ pc' = "fmtErase") => Stored = {}]_vars

\* While sectors are left, or may be taken, an append that comes in time and
\* fits is not refused.
RefusedForReason ==
    [][pc = "refuse" => \/ \E t \in Stored : t >= op.time
                        \/ \A s \in Sector : store[s] = FULL]_vars

-----------------------------------------------------------------------------
(* Liveness *)

\* Every call, fdb_tsdb_init included, returns.
InCall == pc \notin {"idle", "off", "down"}
CallsReturn == InCall ~> ~InCall
=============================================================================
