----------------------------- MODULE KVCache_proofs -----------------------------
(***************************************************************************)
(* The sector cache of the KV database tells what the flash holds, a       *)
(* collection never moves a record into the sector it collects, and the    *)
(* sector a collection needs is always left: for all values of the         *)
(* constants and any number of power losses.                               *)
(***************************************************************************)
EXTENDS KVDB_proofs, FiniteSetTheorems

-----------------------------------------------------------------------------
(* The inductive invariant, on top of the types and of NeverFull *)

Writing == pc \in {"preWrite", "magic", "header", "body"}
\* A collection walks through its victim, or move_kv runs for it.
InVictim == pc = "gcScan" \/ mv = "gc"
InGc == InVictim \/ pc \in {"gc", "gcVisit", "gcFormat", "gcNext"}
\* What set_kv still has to do before the record cur is complete: mark the old
\* record (mv = "no"), then write the new one.
Owed == \/ pc = "status" \/ Writing
        \/ mv = "no" /\ (pc \in {"preDel", "preDirty"} \/ (pc = "find" /\ op.kind = "set"))
Moving == pc \in {"preDel", "preDirty", "mvAlloc", "status", "preWrite", "magic", "header",
                  "body", "commit", "delete", "delDirty"}

\* The frames: where a move or a collection is under way, and what it holds.
FrameInv ==
    /\ mv # "no" => Moving /\ old.rec.len >= HdrLen
    /\ pc = "mvAlloc" => mv # "no"
    /\ gc.then = "new" => InGc
    /\ pc = "new" \/ gc.then = "new" => op.val \in Val
    /\ pc \in {"fmtErase", "fmtHdr"} => scan.n \in Sector

\* The request to collect is up while a collection runs, and between a
\* recovery that found no room and the collection it asks for.
RequestInv ==
    /\ InGc => gcReq
    /\ gcReq => InGc \/ pc = "recEnd"
    /\ ~cur.full

\* A record is as long as its header at least, the one being written too.
RecsLong ==
    \A s \in Sector : \A i \in DOMAIN recs[s] : CrcOk(recs[s][i]) => recs[s][i].len >= HdrLen
LengthInv ==
    /\ RecsLong
    /\ Owed => cur.len >= HdrLen
    /\ Owed /\ ~Writing => cur.store = store[cur.sec]
    /\ pc \in {"magic", "header", "body", "commit"} =>
         recs[cur.sec] # <<>> /\ CurRec.at = cur.at /\ (pc = "body" => CurRec.len = cur.len)

\* The victim keeps its mark, and move_kv does not write into it.
VictimInv ==
    /\ pc \in {"preDirty", "delDirty"} => dirty[old.sec] = DIRTY_FALSE
    /\ InVictim => dirty[Victim] = DIRTY_GC
    /\ mv = "gc" /\ (pc = "status" \/ Writing) => cur.sec # Victim

\* What the cache says of a header is what the header says, but for the mark
\* do_gc has just put there; its free address is where the records end.
Told(c, s) ==
    Cached(c, s) => /\ magic[s] /\ c[s].store = store[s]
                    /\ \/ c[s].dirty = dirty[s]
                       \/ InVictim /\ s = Victim /\ c[s].dirty = DIRTY_TRUE
FreeTold(c, s) == Cached(c, s) => c[s].empty \in {FailedAddr, Fill(store[s], recs[s])}
\* A sector that was erased and has no header yet may still be in the cache.
JustErased(s) == \/ pc = "fmtHdr" /\ s = scan.n
                 \/ pc = "gcFormat" /\ s = Victim
CacheInv ==
    \A s \in Sector : ~JustErased(s) =>
        /\ Told(secCache, s)
        /\ FreeTold(secCache, s) \/ (Writing /\ s = cur.sec)

\* A sector is left for the next collection, or there is something it can
\* collect without one.
Spare(s) == magic[s] /\ store[s] = STORE_EMPTY
SomeSpare == \E s \in Sector : Spare(s)
SpareInv ==
    /\ SomeSpare \/ \E s \in Sector : ~magic[s] \/ dirty[s] = DIRTY_GC
    /\ pc \in {"recKv", "recEnd", "retry", "nextDef", "idle", "new", "find", "preDel", "preDirty",
               "delete", "delDirty", "status", "preWrite", "magic", "header", "body", "commit",
               "postGc", "mvAlloc", "gcNext"} /\ mv # "gc" => SomeSpare
    /\ Owed /\ ~Writing /\ mv # "gc" /\ cur.store = STORE_EMPTY => \E s \in Sector : s # cur.sec /\ Spare(s)
    /\ pc = "hdr" => \A s \in Sector : Rank(scan.base, s) < scan.n => magic[s]
    /\ pc = "recGc" => SomeSpare \/ GcMarked # {}
    /\ pc = "gc" => SomeSpare \/ \E s \in Sector : HdrInfo(s).dirty \in {DIRTY_TRUE, DIRTY_GC}
    /\ pc = "gcVisit" => SomeSpare \/ GcVictims # {}

SafeInv == FrameInv /\ RequestInv /\ LengthInv /\ VictimInv /\ CacheInv /\ SpareInv

-----------------------------------------------------------------------------
(* The frames *)

\* The record that recovery takes next, and the one the collection moves next.
LEMMA ToRecoverFirst ==
    ASSUME TypeInv, ToRecover # {}
    PROVE  LET a == FirstOf(scan.base, ToRecover) IN
           /\ a \in ToRecover /\ a[1] \in Sector /\ a[2] \in DOMAIN recs[a[1]]
           /\ recs[a[1]][a[2]] \in Rec
<1>1. \A b \in ToRecover : b \in UNION {{s} \X DOMAIN recs[s] : s \in Sector}
  BY DEF ToRecover, Ahead
<1>2. \A b \in ToRecover : /\ b \in Sector \X Nat /\ b[2] \in DOMAIN recs[b[1]]
                           /\ recs[b[1]][b[2]] \in Rec
  BY <1>1, PairIn DEF TypeInv, TypeOK
<1>3. scan.base \in Sector
  BY DEF TypeInv, TypeOK, FrameType, ScanType
<1>4. FirstOf(scan.base, ToRecover) \in ToRecover
  BY <1>2, <1>3, FirstOfIn
<1> QED BY <1>2, <1>4

\* Recovery either starts to move that record or marks it KV_ERR_HDR.
Recovers(s, i) ==
    /\ i \in DOMAIN recs[s] /\ Unfinished(recs[s][i])
    /\ \/ /\ recs[s][i].st = KV_PRE_DELETE /\ UNCHANGED flash
          /\ old' = [sec |-> s, idx |-> i, rec |-> recs[s][i]]
          /\ mv' = "rec" /\ pc' = "mvAlloc"
       \/ /\ SetKvStatus(s, i, KV_ERR_HDR)
          /\ pc' = "recEnd" /\ UNCHANGED <<old, mv>>
    /\ secCache' = FillCache(secCache, scan.base,
          {t \in Sector : Rank(scan.base, t) \in scan.n .. Rank(scan.base, s)})

LEMMA RecoverKvForm ==
    ASSUME TypeInv, RecoverKv
    PROVE  \E s \in Sector, i \in Nat : Recovers(s, i)
<1> DEFINE a == FirstOf(scan.base, ToRecover)
<1>1. /\ a \in ToRecover /\ a[1] \in Sector /\ a[2] \in DOMAIN recs[a[1]]
      /\ recs[a[1]][a[2]] \in Rec
  BY ToRecoverFirst DEF RecoverKv
<1>2. /\ secCache' = FillCache(secCache, scan.base,
               {t \in Sector : Rank(scan.base, t) \in scan.n .. Rank(scan.base, a[1])})
      /\ IF recs[a[1]][a[2]].st = KV_PRE_DELETE
         THEN Move("rec", a[1], a[2]) /\ UNCHANGED flash
         ELSE /\ SetKvStatus(a[1], a[2], KV_ERR_HDR)
              /\ pc' = "recEnd"
              /\ UNCHANGED <<old, mv>>
  BY DEF RecoverKv
<1> HIDE DEF a
<1> DEFINE s == a[1]
           i == a[2]
<1>3. s \in Sector /\ i \in Nat /\ i \in DOMAIN recs[s] /\ Unfinished(recs[s][i])
  BY <1>1 DEF ToRecover, TypeInv, TypeOK, FlashType
<1>4. ASSUME recs[s][i].st = KV_PRE_DELETE PROVE Recovers(s, i)
  <2>1. Move("rec", s, i) /\ UNCHANGED flash
    BY <1>2, <1>4
  <2>2. /\ old' = [sec |-> s, idx |-> i, rec |-> recs[s][i]]
        /\ mv' = "rec" /\ pc' = "mvAlloc"
    BY <1>4, <2>1 DEF Move, KV_WRITE, KV_PRE_DELETE
  <2> QED BY <1>2, <1>3, <1>4, <2>1, <2>2 DEF Recovers
<1>5. ASSUME recs[s][i].st # KV_PRE_DELETE PROVE Recovers(s, i)
  BY <1>2, <1>3, <1>5 DEF Recovers
<1>6. Recovers(s, i)
  BY <1>4, <1>5
<1> HIDE DEF s, i
<1> QED BY <1>3, <1>6

\* The sector of a rank is the one that has it.
LEMMA AtRank ==
    ASSUME NEW base \in Sector, NEW s \in Sector
    PROVE  At(base, Rank(base, s)) = s
<1>1. CASE base <= s
  BY <1>1, SecNumAssumption DEF At, Rank, Sector
<1>2. CASE ~(base <= s)
  <2>1. Rank(base, s) = s + SecNum - base
    BY <1>2 DEF Rank
  <2>2. base + (s + SecNum - base) = s + SecNum
    BY SecNumAssumption DEF Sector
  <2>3. (s + SecNum) % SecNum = s
    BY SecNumAssumption DEF Sector
  <2> QED BY <2>1, <2>2, <2>3 DEF At
<1> QED BY <1>1, <1>2

LEMMA VictimType == ASSUME TypeInv PROVE Victim \in Sector
BY AtType DEF Victim, TypeInv, TypeOK, FrameType, GcType

LEMMA ToMoveFirst ==
    ASSUME TypeInv, ToMove # {}
    PROVE  /\ Victim \in Sector /\ Min(ToMove) \in DOMAIN recs[Victim]
           /\ Live(recs[Victim][Min(ToMove)])
<1>1. Victim \in Sector
  BY VictimType
<1>2. DOMAIN recs[Victim] \subseteq Nat
  BY <1>1 DEF TypeInv, TypeOK, FlashType
<1>3. Min(ToMove) \in ToMove
  BY <1>2, MinIn DEF ToMove
<1> QED BY <1>1, <1>3 DEF ToMove

\* An end of a call or of a collection leaves no move behind.
LEMMA GcReturnFrame ==
    ASSUME TypeInv, FrameInv, GcReturn, mv = "no", UNCHANGED scan
    PROVE  FrameInv'
BY DEF FrameInv, GcReturn, EndOp, NoGc, NoOld, InGc, InVictim, Moving,
       TypeInv, TypeOK, FrameType, GcType

LEMMA FrameStep == TypeInv /\ FrameInv /\ LengthInv /\ [Next]_vars => FrameInv'
<1> SUFFICES ASSUME TypeInv, FrameInv, LengthInv, [Next]_vars PROVE FrameInv'
  OBVIOUS
<1> USE DEF FrameInv, InGc, InVictim, Moving
<1>1. CASE CheckHdr \/ HdrDone \/ FindOldest
  <2>1. 0 \in Sector
    BY NothingType
  <2> QED BY <1>1, <2>1 DEF CheckHdr, HdrDone, FindOldest, NoOp, NoScan
<1>2. CASE ResumeGc \/ ResumeGcDone \/ RecoverKvDone \/ LoadEnd \/ LoadRetry
  BY <1>2 DEF ResumeGc, ResumeGcDone, RecoverKvDone, LoadEnd, LoadRetry, StartGc, NoGc, frame, ram
\* A record that is moved has its CRC right, so it is as long as its header.
<1>3. CASE RecoverKv
  <2>1. PICK s \in Sector, i \in Nat : Recovers(s, i)
    BY <1>3, RecoverKvForm
  <2>2. recs[s][i].st = KV_PRE_DELETE => recs[s][i].len >= HdrLen
    BY <2>1 DEF Recovers, LengthInv, RecsLong, Unfinished, KV_PRE_DELETE, KV_PRE_WRITE
  <2>3. UNCHANGED <<op, gc>> /\ pc = "recKv"
    BY <1>3 DEF RecoverKv
  <2>4. \/ old'.rec.len >= HdrLen /\ mv' = "rec" /\ pc' = "mvAlloc"
        \/ pc' = "recEnd" /\ UNCHANGED mv
    BY <2>1, <2>2 DEF Recovers
  <2> QED BY <2>3, <2>4
<1>4. CASE Reset
  <2>1. 0 \in Sector
    BY NothingType
  <2>2. CASE FmtErase
    BY <2>2 DEF FmtErase, frame
  <2>3. CASE FmtHdr
    <3>1. scan.n + 1 < SecNum => scan.n + 1 \in Sector
      BY SecNumAssumption DEF TypeInv, TypeOK, FrameType, ScanType, Sector
    <3>2. pc' \in {"fmtErase", "fmtHdr"} => scan'.n \in Sector
      BY <2>3, <3>1 DEF FmtHdr, TypeInv, TypeOK, FrameType, ScanType
    <3> QED BY <2>3, <3>2 DEF FmtHdr
  <2>4. CASE NextDefault
    <3>1. op.i + 1 \in DOMAIN Defaults
      BY <2>4, DefaultsAssumption DEF NextDefault, TypeInv, TypeOK, FrameType, OpType
    <3>2. Defaults[op.i + 1][2] \in Val
      BY <3>1, DefaultsAssumption
    <3>3. op'.val = Defaults[op.i + 1][2]
      BY <2>4 DEF NextDefault, TypeInv, TypeOK, FrameType, OpType
    <3> QED BY <2>4, <3>2, <3>3 DEF NextDefault
  <2>5. CASE DefaultsDone
    BY <2>5 DEF DefaultsDone, EndOp, NoGc
  <2> QED BY <1>4, <2>2, <2>3, <2>4, <2>5 DEF Reset
<1>5. CASE New
  <2>1. op'.val = op.val \/ pc' = "idle"
    BY <1>5 DEF New, NewKv, NewKvGc, NewKvFull, EndOp, TypeInv, TypeOK, FrameType, OpType
  <2>2. CASE NewKv
    BY <2>1, <2>2 DEF NewKv
  <2>3. CASE NewKvGc
    BY <2>1, <2>3 DEF NewKvGc, StartGc, NoGc
  <2>4. CASE NewKvFull
    BY <2>1, <2>4 DEF NewKvFull, EndOp, NoGc
  <2> QED BY <1>5, <2>2, <2>3, <2>4 DEF New
<1>6. CASE DeleteKv
  <2>1. CASE FindOld
    BY <2>1 DEF FindOld, EndOp, NoGc
  <2>2. CASE PreDelete
    BY <2>2 DEF PreDelete, frame, AfterPreDel
  <2>3. CASE Delete
    BY <2>3 DEF Delete, AfterDelete
  <2>4. CASE MarkDirty
    BY <2>4 DEF MarkDirty, AfterPreDel, AfterDelete
  <2> QED BY <1>6, <2>1, <2>2, <2>3, <2>4 DEF DeleteKv
<1>7. CASE Write
  <2>1. UNCHANGED <<op, old, mv, gc, scan>>
    BY <1>7 DEF Write, UpdateSecStatus, PreWrite, WriteMagic, WriteHdr, WriteBody, Commit, frame
  <2>2. pc \in {"status", "preWrite", "magic", "header", "body", "commit"}
    BY <1>7 DEF Write, UpdateSecStatus, PreWrite, WriteMagic, WriteHdr, WriteBody, Commit
  <2>3. \/ pc' \in {"preWrite", "magic", "header", "body", "commit"}
        \/ pc' \in {"delete", "postGc", "nextDef"} /\ (mv # "no" => pc' = "delete")
    BY <1>7 DEF Write, UpdateSecStatus, PreWrite, WriteMagic, WriteHdr, WriteBody, Commit
  <2> QED BY <2>1, <2>2, <2>3
<1>8. CASE MvAlloc \/ MvFull
  BY <1>8 DEF MvAlloc, MvFull
<1>9. CASE GcBegin \/ GcDone \/ GcNext
  <2>1. mv = "no" /\ UNCHANGED scan
    BY <1>9 DEF GcBegin, GcDone, GcNext
  <2>2. CASE GcReturn
    BY <2>1, <2>2, GcReturnFrame
  <2>3. CASE ~GcReturn
    <3>1. gc'.then = gc.then /\ pc' = "gcVisit" /\ UNCHANGED <<op, mv>>
      BY <1>9, <2>3 DEF GcBegin, GcDone, GcNext, TypeInv, TypeOK, FrameType, GcType
    <3> QED BY <1>9, <2>1, <3>1 DEF GcBegin, GcDone, GcNext
  <2> QED BY <2>2, <2>3
<1>10. CASE GcVisit \/ GcErase \/ GcFormat
  <2>1. gc'.then = gc.then
    BY <1>10 DEF GcVisit, GcErase, GcFormat, frame, TypeInv, TypeOK, FrameType, GcType
  <2> QED BY <1>10, <2>1 DEF GcVisit, GcErase, GcFormat, frame
<1>11. CASE GcMove
  <2> DEFINE r == recs[Victim][Min(ToMove)]
  <2>1. Victim \in Sector /\ Min(ToMove) \in DOMAIN recs[Victim] /\ Live(r)
    BY <1>11, ToMoveFirst DEF GcMove
  <2>2. r.len >= HdrLen
    BY <2>1 DEF LengthInv, RecsLong, Live
  <2>3. gc'.then = gc.then
    BY <1>11 DEF GcMove, TypeInv, TypeOK, FrameType, GcType
  <2>4. old'.rec = r /\ mv' = "gc" /\ pc' \in {"preDel", "mvAlloc"} /\ UNCHANGED op
        /\ pc = "gcScan"
    BY <1>11 DEF GcMove, Move
  <2> HIDE DEF r
  <2> QED BY <2>2, <2>3, <2>4
<1>12. CASE PostGc
  <2>1. CASE op.kind = "set" /\ gcReq
    BY <1>12, <2>1 DEF PostGc, StartGc, NoGc
  <2>2. CASE ~(op.kind = "set" /\ gcReq)
    BY <1>12, <2>2 DEF PostGc, EndOp, NoGc
  <2> QED BY <2>1, <2>2
<1>13. CASE Call \/ Crash
  <2>1. ASSUME NEW k \in Key, NEW v \in Val, Set(k, v) PROVE FrameInv'
    BY <2>1 DEF Set
  <2>2. ASSUME NEW k \in Key, Del(k) \/ Get(k) PROVE FrameInv'
    BY <2>2 DEF Del, Get, frame
  <2>3. CASE SetDefault
    BY <2>3, NothingType DEF SetDefault, NoScan
  <2>4. CASE Deinit
    BY <2>4 DEF Deinit
  <2>5. CASE Crash
    BY <2>5 DEF Crash, NoGc
  <2> QED BY <1>1, <1>13, <2>1, <2>2, <2>3, <2>4, <2>5 DEF Call
<1>14. CASE UNCHANGED vars
  BY <1>14 DEF vars, frame
<1> QED BY <1>1, <1>2, <1>3, <1>4, <1>5, <1>6, <1>7, <1>8, <1>9, <1>10, <1>11, <1>12, <1>13, <1>14
        DEF Next, Step, Load, MoveKv, Gc

-----------------------------------------------------------------------------
(* The request to collect *)

LEMMA GcReturnRequest ==
    ASSUME TypeInv, RequestInv, GcReturn, mv = "no"
    PROVE  RequestInv'
<1>1. pc' \in {"idle", "new", "recGc", "retry"} /\ mv' = "no" /\ gcReq' = FALSE
  BY DEF GcReturn, EndOp, TypeInv, TypeOK, FrameType, GcType
<1>2. ~cur'.full
  BY DEF GcReturn, EndOp, NoCur, RequestInv
<1> QED BY <1>1, <1>2 DEF RequestInv, InGc, InVictim

LEMMA RequestStep ==
    TypeInv /\ FullInv /\ FrameInv /\ RequestInv /\ [Next]_vars => RequestInv'
<1> SUFFICES ASSUME TypeInv, FullInv, FrameInv, RequestInv, [Next]_vars PROVE RequestInv'
  OBVIOUS
<1> gcReq \in BOOLEAN /\ cur.full = FALSE
  BY DEF TypeInv, TypeOK, RamType, FrameType, CurType, RequestInv
<1> USE DEF RequestInv, InGc, InVictim
<1>2. CASE CheckHdr \/ HdrDone \/ FindOldest
  BY <1>2 DEF CheckHdr, HdrDone, FindOldest, FrameInv, Moving
<1>3. CASE ResumeGc
  BY <1>3 DEF ResumeGc, StartGc
<1>4. CASE ResumeGcDone \/ RecoverKvDone \/ LoadRetry
  BY <1>4 DEF ResumeGcDone, RecoverKvDone, LoadRetry, frame, ram
<1>5. CASE RecoverKv
  <2>1. PICK s \in Sector, i \in Nat : Recovers(s, i)
    BY <1>5, RecoverKvForm
  <2>2. UNCHANGED <<gcReq, cur>> /\ pc = "recKv"
    BY <1>5 DEF RecoverKv
  <2>3. mv = "no"
    BY <2>2 DEF FrameInv, Moving
  <2> QED BY <2>1, <2>2, <2>3 DEF Recovers
<1>6. CASE LoadEnd
  BY <1>6 DEF LoadEnd, FrameInv, Moving
<1>7. CASE Reset
  BY <1>7 DEF Reset, FmtErase, FmtHdr, NextDefault, DefaultsDone, EndOp, NoCur, frame, ram,
              FrameInv, Moving
<1>8. CASE NewKv
  BY <1>8 DEF NewKv, Allocated, FrameInv, Moving
<1>9. CASE NewKvGc
  BY <1>9 DEF NewKvGc, StartGc
<1>10. CASE NewKvFull
  <2>1. gcReq = FALSE /\ mv = "no"
    BY <1>10 DEF NewKvFull, FrameInv, Moving
  <2>2. gcReq' = FALSE
    BY <1>10, <2>1 DEF NewKvFull
  <2> QED BY <1>10, <2>1, <2>2 DEF NewKvFull, EndOp, NoCur
<1>11. CASE FindOld
  BY <1>11 DEF FindOld, EndOp, NoCur, FrameInv, Moving
<1>12. CASE PreDelete \/ Delete \/ MarkDirty
  BY <1>12 DEF PreDelete, Delete, MarkDirty, AfterPreDel, AfterDelete, frame
<1>13. CASE UpdateSecStatus
  <2>1. cur'.full = FALSE
    BY <1>13, StatusNotFull DEF UpdateSecStatus, TypeInv, TypeOK, FrameType, CurType
  <2> QED BY <1>13, <2>1 DEF UpdateSecStatus
<1>14. CASE PreWrite \/ WriteMagic \/ WriteHdr \/ WriteBody
  BY <1>14 DEF PreWrite, WriteMagic, WriteHdr, WriteBody, frame, ram
<1>15. CASE Commit
  BY <1>15 DEF Commit, NoCur
<1>16. CASE MvAlloc
  <2>1. ~cur'.full
    BY <1>16 DEF MvAlloc, Allocated
  <2> QED BY <1>16, <2>1 DEF MvAlloc
<1>17. CASE MvFull
  <2>1. mv \in {"gc", "rec"} /\ mv' = "no" /\ UNCHANGED cur
    BY <1>17 DEF MvFull, FrameInv, TypeInv, TypeOK, FrameType
  <2>2. CASE mv = "gc"
    BY <1>17, <2>1, <2>2 DEF MvFull
  <2>3. CASE mv = "rec"
    BY <1>17, <2>1, <2>3 DEF MvFull
  <2> QED BY <2>1, <2>2, <2>3
<1>18. CASE GcBegin \/ GcDone \/ GcNext
  <2>1. mv = "no" /\ gcReq
    BY <1>18 DEF GcBegin, GcDone, GcNext, FrameInv, Moving
  <2>2. CASE GcReturn
    BY <2>1, <2>2, GcReturnRequest
  <2>3. CASE ~GcReturn
    BY <1>18, <2>1, <2>3 DEF GcBegin, GcDone, GcNext
  <2> QED BY <2>2, <2>3
<1>19. CASE GcVisit \/ GcErase \/ GcFormat
  BY <1>19 DEF GcVisit, GcErase, GcFormat, frame, ram
<1>20. CASE GcMove
  <2>1. mv' = "gc" /\ UNCHANGED <<gcReq, cur>> /\ pc = "gcScan"
    BY <1>20 DEF GcMove, Move, ram
  <2> QED BY <2>1
<1>21. CASE PostGc
  <2>1. gcReq = FALSE /\ mv = "no"
    BY <1>21 DEF PostGc, FrameInv, Moving
  <2> QED BY <1>21, <2>1 DEF PostGc, EndOp, NoCur, ram
<1>22. CASE Call
  <2>1. ASSUME NEW k \in Key, NEW v \in Val, Set(k, v) PROVE RequestInv'
    BY <2>1 DEF Set, ram, FrameInv, Moving
  <2>2. ASSUME NEW k \in Key, Del(k) \/ Get(k) PROVE RequestInv'
    BY <2>2 DEF Del, Get, frame, ram, FrameInv, Moving
  <2>3. CASE SetDefault \/ Deinit
    BY <2>3 DEF SetDefault, Deinit, ram, FrameInv, Moving
  <2> QED BY <1>2, <1>22, <2>1, <2>2, <2>3 DEF Call
<1>23. CASE Crash
  BY <1>23 DEF Crash, NoCur
<1>24. CASE UNCHANGED vars
  BY <1>24 DEF vars, frame, ram
<1> QED BY <1>2, <1>3, <1>4, <1>5, <1>6, <1>7, <1>8, <1>9, <1>10, <1>11, <1>12, <1>13, <1>14, <1>15,
           <1>16, <1>17, <1>18, <1>19, <1>20, <1>21, <1>22, <1>23, <1>24
        DEF Next, Step, Load, New, DeleteKv, Write, MoveKv, Gc

-----------------------------------------------------------------------------
(* Reading a sector keeps the cache right *)

CacheOk(c) == \A s \in Sector : Told(c, s) /\ FreeTold(c, s)

\* Where no header is missing and no record half written, all of it is right.
LEMMA CalmCache ==
    ASSUME CacheInv, ~Writing, pc \notin {"fmtHdr", "gcFormat"}
    PROVE  CacheOk(secCache)
BY DEF CacheInv, CacheOk, JustErased

\* FillCache and Traverse keep an entry or take a new one from the flash.
LEMMA FillCacheKeeps ==
    ASSUME NEW c, NEW base, NEW S, NEW s \in Sector
    PROVE  \/ FillCache(c, base, S)[s] = c[s]
           \/ /\ s \in S /\ magic[s] /\ ~Cached(c, s)
              /\ FillCache(c, base, S)[s] = FlashInfo(s, FailedAddr)
BY DEF FillCache

LEMMA FillCacheOk ==
    ASSUME NEW c, CacheOk(c), NEW base, NEW S
    PROVE  CacheOk(FillCache(c, base, S))
<1> DEFINE d == FillCache(c, base, S)
<1> SUFFICES ASSUME NEW s \in Sector PROVE Told(d, s) /\ FreeTold(d, s)
  BY DEF CacheOk
<1>1. \/ d[s] = c[s]
      \/ magic[s] /\ d[s] = FlashInfo(s, FailedAddr)
  BY FillCacheKeeps
<1> HIDE DEF d
<1> QED BY <1>1 DEF CacheOk, Told, FreeTold, Cached, FlashInfo

LEMMA TraverseOk ==
    ASSUME NEW c, CacheOk(c), NEW S
    PROVE  CacheOk(Traverse(c, S))
<1> DEFINE d == Traverse(c, S)
<1> SUFFICES ASSUME NEW s \in Sector PROVE Told(d, s) /\ FreeTold(d, s)
  BY DEF CacheOk
<1>1. \/ d[s] = c[s]
      \/ c[s].empty = FailedAddr /\ d[s] = FlashInfo(s, Fill(store[s], recs[s]))
  BY DEF Traverse
<1>2. c[s].empty = FailedAddr => magic[s]
  BY DEF CacheOk, Told, Cached, FailedAddr, NotCached
<1> HIDE DEF d
<1> QED BY <1>1, <1>2 DEF CacheOk, Told, FreeTold, Cached, FlashInfo

LEMMA AllocCacheOk ==
    ASSUME CacheOk(secCache), NEW len
    PROVE  CacheOk(AllocCache(len))
<1>1. CacheOk(FillCache(secCache, oldest, Sector))
  BY FillCacheOk
<1> QED BY <1>1, TraverseOk DEF AllocCache

LEMMA FindCachesOk ==
    ASSUME CacheOk(secCache), NEW k, FindCaches(k)
    PROVE  CacheOk(secCache')
BY FillCacheOk DEF FindCaches

\* What read_sector_info says agrees with the flash.
LEMMA InfoTold ==
    ASSUME CacheOk(secCache), ~InVictim, NEW s \in Sector
    PROVE  /\ magic[s] => HdrInfo(s).store = store[s] /\ HdrInfo(s).dirty = dirty[s]
           /\ ~magic[s] => HdrInfo(s) = NoInfo
           /\ FullInfo(s).store = HdrInfo(s).store
           /\ FullInfo(s).dirty = HdrInfo(s).dirty
BY DEF CacheOk, Told, FreeTold, HdrInfo, FullInfo, FlashInfo, Cached

\* alloc_kv finds a sector with a header that is EMPTY or USING.
LEMMA AllocStore ==
    ASSUME TypeInv, CacheOk(secCache), NEW len \in Nat, CanAlloc(len)
    PROVE  LET s == AllocSec(len) IN
           /\ s \in Sector /\ magic[s]
           /\ HdrInfo(s).store = store[s] /\ store[s] \in {STORE_EMPTY, STORE_USING}
           /\ FullInfo(s).empty = Fill(store[s], recs[s])
<1> DEFINE s == AllocSec(len)
<1>1. s \in Sector /\ Fits(s, len)
  BY AllocFits DEF TypeInv, TypeOK
<1> HIDE DEF s
<1>2. Remain(s) > 0
  BY <1>1, FullInfoType, LenAssumption DEF Fits, TypeInv, TypeOK
<1>3. FullInfo(s).store \in {STORE_EMPTY, STORE_USING}
  BY <1>2 DEF Remain
<1>4. FullInfo(s) # NoInfo
  BY <1>3 DEF NoInfo, STORE_UNUSED, STORE_EMPTY, STORE_USING
<1>5. magic[s] /\ FullInfo(s).store = store[s] /\ HdrInfo(s).store = store[s]
      /\ FullInfo(s).empty = Fill(store[s], recs[s])
  BY <1>1, <1>4 DEF CacheOk, Told, FreeTold, Cached, FullInfo, HdrInfo, FlashInfo
<1> QED BY <1>1, <1>3, <1>5 DEF s

-----------------------------------------------------------------------------
(* Steps that leave headers and the ends of the records where they were *)

SameEnds == /\ UNCHANGED <<magic, store, dirty>>
            /\ \A s \in Sector : Fill(store[s], recs'[s]) = Fill(store[s], recs[s])
SameVictim == InVictim => InVictim' /\ Victim' = Victim

LEMMA QuietCache ==
    ASSUME CacheOk(secCache'), SameEnds, SameVictim
    PROVE  CacheInv'
<1> SUFFICES ASSUME NEW s \in Sector PROVE Told(secCache, s)' /\ FreeTold(secCache, s)'
  BY DEF CacheInv
<1> QED BY DEF CacheOk, Told, FreeTold, Cached, SameEnds, SameVictim

\* Fill looks at the places of the last record only.
LEMMA FillSame ==
    ASSUME NEW st, NEW q \in Seq(Rec), NEW i \in Nat, NEW r \in Rec,
           i \in DOMAIN q => r.at = q[i].at /\ r.len = q[i].len
    PROVE  Fill(st, [q EXCEPT ![i] = r]) = Fill(st, q)
<1> DEFINE p == [q EXCEPT ![i] = r]
<1>1. CASE i \in DOMAIN q
  <2>1. p \in Seq(Rec) /\ Len(p) = Len(q)
        /\ \A j \in 1 .. Len(q) : p[j] = IF j = i THEN r ELSE q[j]
    BY <1>1, ExceptSeq
  <2>2. Len(q) \in 1 .. Len(q) /\ q # <<>> /\ p # <<>>
    <3>1. DOMAIN q = 1 .. Len(q) /\ Len(q) \in Nat
      BY LenProperties
    <3>2. Len(<<>>) = 0
      OBVIOUS
    <3> HIDE DEF p
    <3> QED BY <1>1, <2>1, <3>1, <3>2
  <2>3. p[Len(q)].at = q[Len(q)].at /\ p[Len(q)].len = q[Len(q)].len
    BY <1>1, <2>1, <2>2
  <2> HIDE DEF p
  <2>4. Fill(st, p) = Fill(st, q)
    BY <2>1, <2>2, <2>3 DEF Fill
  <2> QED BY <2>4 DEF p
<1>2. CASE i \notin DOMAIN q
  <2>1. p = q
    BY <1>2
  <2> QED BY <2>1
<1> QED BY <1>1, <1>2

LEMMA SetKvStatusEnds ==
    ASSUME TypeInv, NEW s \in Sector, NEW i \in Nat, NEW st \in KvStatus, SetKvStatus(s, i, st)
    PROVE  SameEnds
<1> DEFINE e == [recs[s][i] EXCEPT !.st = WriteStatus(@, st)]
           q == [recs[s] EXCEPT ![i] = e]
<1>1. recs[s] \in Seq(Rec) /\ recs \in [Sector -> Seq(Rec)]
  BY DEF TypeInv, TypeOK, FlashType
<1>2. i \in DOMAIN recs[s] => e \in Rec /\ e.at = recs[s][i].at /\ e.len = recs[s][i].len
  <2>1. SUFFICES ASSUME i \in DOMAIN recs[s]
                 PROVE  e \in Rec /\ e.at = recs[s][i].at /\ e.len = recs[s][i].len
    OBVIOUS
  <2>2. recs[s][i] \in Rec
    BY <1>1, <2>1
  <2>3. recs[s][i].st \in KvStatus
    BY <2>2 DEF Rec
  <2>4. WriteStatus(recs[s][i].st, st) \in KvStatus
    BY <2>3 DEF WriteStatus
  <2> QED BY <2>2, <2>4 DEF Rec
<1>3. recs' = [recs EXCEPT ![s] = q]
  BY DEF SetKvStatus
<1> HIDE DEF e
<1>4. Fill(store[s], q) = Fill(store[s], recs[s])
  <2>1. CASE i \in DOMAIN recs[s]
    BY <1>1, <1>2, <2>1, FillSame
  <2>2. CASE i \notin DOMAIN recs[s]
    <3>1. q = recs[s]
      BY <1>1, <2>2
    <3> QED BY <3>1
  <2> QED BY <2>1, <2>2
<1> HIDE DEF q
<1> QED BY <1>1, <1>3, <1>4 DEF SameEnds, SetKvStatus

\* The same for the last record of the sector of cur.
LEMMA LastRecEnds ==
    ASSUME TypeInv, NEW r \in Rec, recs[cur.sec] # <<>>, LastRec(r),
           r.at = CurRec.at, r.len = CurRec.len, UNCHANGED <<magic, store, dirty>>
    PROVE  SameEnds
<1> DEFINE q == [recs[cur.sec] EXCEPT ![Len(recs[cur.sec])] = r]
<1>1. cur.sec \in Sector /\ recs[cur.sec] \in Seq(Rec) /\ recs \in [Sector -> Seq(Rec)]
  BY DEF TypeInv, TypeOK, FlashType, FrameType, CurType
<1>2. Fill(store[cur.sec], q) = Fill(store[cur.sec], recs[cur.sec])
  <2>1. Len(recs[cur.sec]) \in Nat
    BY <1>1, LenProperties
  <2> QED BY <1>1, <2>1, FillSame DEF CurRec
<1>3. recs' = [recs EXCEPT ![cur.sec] = q]
  BY DEF LastRec
<1> HIDE DEF q
<1> QED BY <1>1, <1>2, <1>3 DEF SameEnds

\* Where the new last record ends, the sector's free space begins.
LEMMA LastRecFill ==
    ASSUME TypeInv, NEW r \in Rec, recs[cur.sec] # <<>>, LastRec(r), r.len >= HdrLen, NEW st
    PROVE  /\ Fill(st, recs'[cur.sec]) = r.at + r.len
           /\ \A s \in Sector : s # cur.sec => recs'[s] = recs[s]
<1> DEFINE q == [recs[cur.sec] EXCEPT ![Len(recs[cur.sec])] = r]
<1>1. cur.sec \in Sector /\ recs[cur.sec] \in Seq(Rec) /\ recs \in [Sector -> Seq(Rec)]
  BY DEF TypeInv, TypeOK, FlashType, FrameType, CurType
<1>2. Len(recs[cur.sec]) \in 1 .. Len(recs[cur.sec])
  BY <1>1, EmptySeq
<1>3. q \in Seq(Rec) /\ Len(q) = Len(recs[cur.sec]) /\ q[Len(recs[cur.sec])] = r
  BY <1>1, <1>2, ExceptSeq
<1>4. recs' = [recs EXCEPT ![cur.sec] = q]
  BY DEF LastRec
<1> HIDE DEF q
<1>5. recs'[cur.sec] = q /\ \A s \in Sector : s # cur.sec => recs'[s] = recs[s]
  BY <1>1, <1>4
<1>6. q # <<>>
  <2>1. Len(<<>>) = 0
    OBVIOUS
  <2> QED BY <1>2, <1>3, <2>1
<1>7. Fill(st, q) = r.at + r.len
  <2>1. ~(r.len < HdrLen)
    BY LenAssumption DEF Rec
  <2> QED BY <1>3, <1>6, <2>1 DEF Fill
<1> QED BY <1>5, <1>7

LEMMA CacheStep ==
    TypeInv /\ FullInv /\ FrameInv /\ RequestInv /\ LengthInv /\ VictimInv /\ CacheInv /\ [Next]_vars
    => CacheInv'
<1> SUFFICES ASSUME TypeInv, FullInv, FrameInv, RequestInv, LengthInv, VictimInv, CacheInv, [Next]_vars
             PROVE  CacheInv'
  OBVIOUS
<1>a. ~Moving => mv = "no"
  BY DEF FrameInv, Moving
<1>b. pc \notin {"preWrite", "magic", "header", "body", "fmtHdr", "gcFormat"} => CacheOk(secCache)
  BY CalmCache DEF Writing
<1>c. UNCHANGED flash => SameEnds
  BY DEF flash, SameEnds
<1>1. CASE (\A s \in Sector : secCache'[s] = NoInfo)
  BY <1>1 DEF CacheInv, Told, FreeTold, Cached, NoInfo
<1>2. CASE CheckHdr
  <2> DEFINE s == FirstFrom(scan.base, BadHeaders)
             T == {t \in Sector : Rank(scan.base, t) \in scan.n .. Rank(scan.base, s) - 1}
  <2>1. CacheOk(secCache) /\ ~InVictim
    BY <1>2, <1>a, <1>b DEF CheckHdr, InVictim, Moving
  <2>2. CASE NotFormatable
    BY <1>2, <1>c, <2>1, <2>2, QuietCache DEF CheckHdr, SameVictim
  <2>3. CASE ~NotFormatable
    <3>1. s \in BadHeaders /\ s \in Sector
      <4>1. BadHeaders \in SUBSET Sector /\ BadHeaders # {} /\ scan.base \in Sector
        BY <1>2 DEF CheckHdr, BadHeaders, TypeInv, TypeOK, FrameType, ScanType
      <4> QED BY <4>1, FirstFromLeast
    <3>2. WriteSectorHdr(s) /\ secCache' = FillCache(secCache, scan.base, T)
      BY <1>2, <2>3 DEF CheckHdr
    <3>3. s \notin T
      <4>1. Rank(scan.base, s) \in Int
        BY <3>1, RankType DEF Sector, TypeInv, TypeOK, FrameType, ScanType
      <4> QED BY <4>1
    <3>4. secCache'[s] = secCache[s]
      BY <3>1, <3>2, <3>3, FillCacheKeeps
    <3>5. CacheOk(secCache')
      BY <2>1, <3>2, FillCacheOk
    <3> HIDE DEF T, s
    <3>6. ~Cached(secCache', s)
      BY <2>1, <3>1, <3>4 DEF CacheOk, Told, Cached, BadHeaders
    <3>7. ASSUME NEW t \in Sector PROVE Told(secCache, t)' /\ FreeTold(secCache, t)'
      <4>1. CASE t = s
        BY <3>6, <4>1 DEF Told, FreeTold, Cached
      <4>2. CASE t # s
        <5>1. magic'[t] = magic[t] /\ store'[t] = store[t] /\ dirty'[t] = dirty[t] /\ recs'[t] = recs[t]
          BY <3>2, <4>2 DEF WriteSectorHdr, TypeInv, TypeOK, FlashType
        <5> QED BY <2>1, <3>5, <5>1 DEF CacheOk, Told, FreeTold, Cached
      <4> QED BY <4>1, <4>2
    <3> QED BY <3>7 DEF CacheInv
  <2> QED BY <2>2, <2>3
\* Steps that read sectors, and write nothing to the flash.
<1>3. CASE HdrDone \/ ResumeGc \/ ResumeGcDone \/ RecoverKvDone
  <2>1. UNCHANGED flash /\ pc \in {"hdr", "recGc", "recKv"}
    BY <1>3 DEF HdrDone, ResumeGc, ResumeGcDone, RecoverKvDone
  <2>2. CacheOk(secCache) /\ ~InVictim
    BY <2>1, <1>a, <1>b DEF InVictim, Moving
  <2>3. CacheOk(secCache')
    BY <1>3, <2>2, FillCacheOk DEF HdrDone, ResumeGc, ResumeGcDone, RecoverKvDone
  <2> QED BY <1>c, <2>1, <2>2, <2>3, QuietCache DEF SameVictim
<1>4. CASE RecoverKv
  <2>1. pc = "recKv" /\ CacheOk(secCache) /\ ~InVictim
    BY <1>4, <1>a, <1>b DEF RecoverKv, InVictim, Moving
  <2>2. PICK s \in Sector, i \in Nat : Recovers(s, i)
    BY <1>4, RecoverKvForm
  <2>3. SameEnds
    BY <1>c, <2>2, SetKvStatusEnds, StatusTypes DEF Recovers
  <2>4. CacheOk(secCache')
    BY <2>1, <2>2, FillCacheOk DEF Recovers
  <2> QED BY <2>1, <2>3, <2>4, QuietCache DEF SameVictim
<1>5. CASE NewKv \/ NewKvGc \/ NewKvFull
  <2>1. UNCHANGED flash /\ pc = "new"
    BY <1>5 DEF NewKv, NewKvGc, NewKvFull
  <2>2. CacheOk(secCache) /\ ~InVictim
    BY <2>1, <1>a, <1>b DEF InVictim, Moving
  <2>3. CacheOk(secCache')
    BY <1>5, <2>2, AllocCacheOk DEF NewKv, NewKvGc, NewKvFull
  <2> QED BY <1>c, <2>1, <2>2, <2>3, QuietCache DEF SameVictim
<1>6. CASE MvAlloc \/ MvFull
  <2>1. UNCHANGED <<flash, gc>> /\ pc = "mvAlloc"
    BY <1>6 DEF MvAlloc, MvFull
  <2>2. CacheOk(secCache')
    BY <1>6, <2>1, <1>b, AllocCacheOk DEF MvAlloc, MvFull
  <2>3. SameVictim
    BY <1>6, <2>1 DEF MvAlloc, MvFull, SameVictim, InVictim, Victim
  <2> QED BY <1>c, <2>1, <2>2, <2>3, QuietCache
<1>7. CASE FindOld \/ (\E k \in Key : Get(k))
  <2>1. UNCHANGED flash /\ pc \in {"find", "idle"}
    BY <1>7 DEF FindOld, Get
  <2>2. CacheOk(secCache) /\ ~InVictim
    BY <2>1, <1>a, <1>b DEF InVictim, Moving
  <2>3. PICK k : FindCaches(k)
    BY <1>7 DEF FindOld, Get
  <2>4. CacheOk(secCache')
    BY <2>2, <2>3, FindCachesOk
  <2> QED BY <1>c, <2>1, <2>2, <2>4, QuietCache DEF SameVictim
<1>8. CASE GcBegin \/ GcDone \/ GcNext
  <2>1. UNCHANGED flash /\ pc \in {"gc", "gcVisit", "gcNext"}
    BY <1>8 DEF GcBegin, GcDone, GcNext
  <2>2. CacheOk(secCache) /\ ~InVictim
    BY <2>1, <1>a, <1>b DEF InVictim, Moving
  <2>3. CacheOk(secCache')
    <3>1. CacheOk(FillCache(secCache, oldest, {gc.last}))
      BY <2>2, FillCacheOk
    <3> QED BY <1>8, <2>2, <3>1, FillCacheOk, TraverseOk DEF GcBegin, GcDone, GcNext
  <2> QED BY <1>c, <2>1, <2>2, <2>3, QuietCache DEF SameVictim
\* Steps that touch neither the sector cache nor the flash ...
<1>9. CASE UNCHANGED <<flash, secCache>> /\ SameVictim /\ CacheOk(secCache)
  BY <1>c, <1>9, QuietCache
<1>10. CASE LoadEnd \/ LoadRetry \/ NextDefault \/ DefaultsDone \/ PostGc
  <2>1. UNCHANGED <<flash, secCache>> /\ pc \in {"recEnd", "retry", "nextDef", "postGc"}
    BY <1>10 DEF LoadEnd, LoadRetry, NextDefault, DefaultsDone, PostGc, ram
  <2> QED BY <2>1, <1>a, <1>b, <1>9 DEF SameVictim, InVictim, Moving
<1>11. CASE Call
  <2>1. CASE FindOldest
    BY <1>1, <2>1 DEF FindOldest
  <2>2. CASE ~FindOldest /\ ~(\E k \in Key : Get(k))
    <3>1. \/ \E k \in Key, v \in Val : Set(k, v)
          \/ \E k \in Key : Del(k)
          \/ SetDefault \/ Deinit
      BY <1>11, <2>2 DEF Call
    <3>2. UNCHANGED <<flash, secCache>> /\ pc = "idle"
      <4>1. ASSUME NEW k \in Key, NEW v \in Val, Set(k, v)
            PROVE  UNCHANGED <<flash, secCache>> /\ pc = "idle"
        BY <4>1 DEF Set, ram
      <4>2. ASSUME NEW k \in Key, Del(k)
            PROVE  UNCHANGED <<flash, secCache>> /\ pc = "idle"
        BY <4>2 DEF Del, ram
      <4>3. CASE SetDefault \/ Deinit
        BY <4>3 DEF SetDefault, Deinit, ram
      <4> QED BY <3>1, <4>1, <4>2, <4>3
    <3> QED BY <3>2, <1>a, <1>b, <1>9 DEF SameVictim, InVictim, Moving
  <2> QED BY <1>7, <2>1, <2>2
<1>12. CASE Crash
  BY <1>1, <1>12 DEF Crash
<1>13. CASE GcMove
  <2>1. pc = "gcScan" /\ mv' = "gc" /\ UNCHANGED <<flash, secCache>>
    BY <1>13 DEF GcMove, Move, ram
  <2>2. Victim' = Victim
    BY <1>13 DEF GcMove, Victim, TypeInv, TypeOK, FrameType, GcType
  <2> QED BY <2>1, <2>2, <1>b, <1>9 DEF SameVictim, InVictim
\* ... and those that change the status of a record only.
<1>14. CASE PreDelete \/ Delete
  <2>1. old.sec \in Sector /\ old.idx \in Nat
    BY DEF TypeInv, TypeOK, FrameType, OldType
  <2>2. SameEnds
    BY <1>14, <2>1, SetKvStatusEnds, StatusTypes DEF PreDelete, Delete
  <2>3. CacheOk(secCache')
    BY <1>14, <1>b DEF PreDelete, Delete
  <2>4. SameVictim
    BY <1>14 DEF PreDelete, Delete, SameVictim, InVictim, Victim, frame, AfterDelete
  <2> QED BY <2>2, <2>3, <2>4, QuietCache
<1>15. CASE Commit
  <2>1. pc = "commit" /\ CacheOk(secCache) /\ UNCHANGED secCache
    BY <1>15, <1>b DEF Commit
  <2>2. recs[cur.sec] # <<>>
    BY <2>1 DEF LengthInv
  <2>3. CurRec \in Rec /\ CurRec.st \in KvStatus
    BY <2>2, CurRecType DEF TypeInv, TypeOK, FrameType, CurType, Rec
  <2>4. WriteStatus(CurRec.st, KV_WRITE) \in KvStatus
    BY <2>3, StatusTypes DEF WriteStatus
  <2>5. SameEnds
    <3> DEFINE r == [CurRec EXCEPT !.st = WriteStatus(@, KV_WRITE)]
    <3>1. r \in Rec /\ r.at = CurRec.at /\ r.len = CurRec.len
      BY <2>3, <2>4 DEF Rec
    <3>2. LastRec(r) /\ UNCHANGED <<magic, store, dirty>>
      BY <1>15 DEF Commit
    <3> HIDE DEF r
    <3> QED BY <2>2, <3>1, <3>2, LastRecEnds
  <2>6. SameVictim
    BY <1>15 DEF Commit, SameVictim, InVictim, Victim
  <2> QED BY <2>1, <2>5, <2>6, QuietCache
\* Sectors that are erased and formatted ...
<1>16. CASE FmtErase \/ GcErase
  <2>1. \/ pc = "fmtErase" /\ EraseSector(scan.n) /\ pc' = "fmtHdr"
        \/ pc = "gcScan" /\ EraseSector(Victim) /\ pc' = "gcFormat"
    BY <1>16 DEF FmtErase, GcErase
  <2>2. CacheOk(secCache) /\ UNCHANGED <<secCache, scan, gc, mv>>
    BY <1>16, <1>b DEF FmtErase, GcErase, ram, frame
  <2>3. Victim' = Victim
    BY <2>2 DEF Victim
  <2>4. ASSUME NEW s \in Sector, ~JustErased(s)' PROVE Told(secCache, s)' /\ FreeTold(secCache, s)'
    <3>1. \/ s # scan.n /\ pc = "fmtErase"
          \/ s # Victim /\ pc = "gcScan"
      BY <2>1, <2>2, <2>3, <2>4 DEF JustErased
    <3>2. magic'[s] = magic[s] /\ store'[s] = store[s] /\ dirty'[s] = dirty[s] /\ recs'[s] = recs[s]
      BY <2>1, <3>1 DEF EraseSector, TypeInv, TypeOK, FlashType
    <3>3. ~(InVictim /\ s = Victim)
      BY <2>1, <3>1, <1>a DEF InVictim, Moving
    <3> QED BY <2>2, <3>2, <3>3 DEF CacheOk, Told, FreeTold, Cached
  <2> QED BY <2>4 DEF CacheInv
<1>17. CASE FmtHdr \/ GcFormat
  <2>1. PICK e : /\ \/ e = scan.n /\ pc = "fmtHdr"
                    \/ e = Victim /\ pc = "gcFormat"
                 /\ WriteSectorHdr(e) /\ secCache' = Uncache(secCache, e)
    BY <1>17 DEF FmtHdr, GcFormat
  <2>2. ~InVictim
    BY <2>1, <1>a DEF InVictim, Moving
  <2>3. ASSUME NEW s \in Sector PROVE Told(secCache, s)' /\ FreeTold(secCache, s)'
    <3>1. CASE s = e
      <4>1. secCache'[s] = NoInfo
        BY <2>1, <3>1 DEF Uncache, TypeInv, TypeOK, RamType
      <4> QED BY <4>1 DEF Told, FreeTold, Cached, NoInfo
    <3>2. CASE s # e
      <4>1. magic'[s] = magic[s] /\ store'[s] = store[s] /\ dirty'[s] = dirty[s] /\ recs'[s] = recs[s]
        BY <2>1, <3>2 DEF WriteSectorHdr, TypeInv, TypeOK, FlashType
      <4>2. secCache'[s] = secCache[s]
        BY <2>1, <3>2 DEF Uncache, TypeInv, TypeOK, RamType
      <4>3. Told(secCache, s) /\ FreeTold(secCache, s)
        BY <2>1, <3>2 DEF CacheInv, JustErased, Writing
      <4> QED BY <2>2, <4>1, <4>2, <4>3 DEF Told, FreeTold, Cached
    <3> QED BY <3>1, <3>2
  <2> QED BY <2>3 DEF CacheInv
\* ... marks on sectors, which the code repeats in the cache, but for the mark
\* of do_gc ...
<1>18. CASE MarkDirty
  <2>1. CacheOk(secCache)
    BY <1>18, <1>b DEF MarkDirty
  <2>2. dirty[old.sec] = DIRTY_FALSE /\ old.sec \in Sector
    BY <1>18 DEF MarkDirty, VictimInv, TypeInv, TypeOK, FrameType, OldType
  <2>3. InVictim => old.sec # Victim
    BY <2>2 DEF VictimInv, DIRTY_FALSE, DIRTY_GC
  <2>4. SameVictim
    BY <1>18 DEF MarkDirty, SameVictim, InVictim, Victim, AfterDelete
  <2>5. ASSUME NEW s \in Sector PROVE Told(secCache, s)' /\ FreeTold(secCache, s)'
    <3>1. UNCHANGED <<magic, store, recs>>
          /\ dirty'[s] = IF s = old.sec THEN DIRTY_TRUE ELSE dirty[s]
      BY <1>18, <2>2 DEF MarkDirty, TypeInv, TypeOK, FlashType, WriteStatus, DIRTY_FALSE, DIRTY_TRUE
    <3>2. /\ secCache'[s].store = secCache[s].store /\ secCache'[s].empty = secCache[s].empty
          /\ secCache'[s].dirty = IF s = old.sec /\ Cached(secCache, s) THEN DIRTY_TRUE
                                  ELSE secCache[s].dirty
      BY <1>18, <2>2 DEF MarkDirty, TypeInv, TypeOK, RamType, InfoType
    <3> QED BY <2>1, <2>3, <2>4, <3>1, <3>2 DEF CacheOk, Told, FreeTold, Cached, SameVictim
  <2> QED BY <2>5 DEF CacheInv
<1>19. CASE GcVisit
  <2> DEFINE v == FirstFrom(gc.base, GcVictims)
  <2>1. v \in Sector /\ HdrInfo(v).dirty \in {DIRTY_TRUE, DIRTY_GC} /\ gc.base \in Sector
    <3>1. GcVictims \in SUBSET Sector /\ GcVictims # {} /\ gc.base \in Sector
      BY <1>19 DEF GcVisit, GcVictims, TypeInv, TypeOK, FrameType, GcType
    <3>2. v \in GcVictims
      BY <3>1, FirstFromLeast
    <3> HIDE DEF v
    <3> QED BY <3>1, <3>2 DEF GcVictims
  <2>2. /\ dirty' = [dirty EXCEPT ![v] = WriteStatus(@, DIRTY_GC)]
        /\ gc' = [gc EXCEPT !.n = Rank(gc.base, v), !.idx = 1]
        /\ secCache' = FillCache(secCache, gc.base,
                         {t \in Sector : Rank(gc.base, t) \in gc.n .. Rank(gc.base, v)})
        /\ UNCHANGED <<magic, store, recs>> /\ pc = "gcVisit" /\ pc' = "gcScan"
    BY <1>19 DEF GcVisit
  <2> HIDE DEF v
  <2>3. CacheOk(secCache) /\ ~InVictim
    BY <2>2, <1>a, <1>b DEF InVictim, Moving
  <2>4. CacheOk(secCache')
    BY <2>2, <2>3, FillCacheOk
  <2>5. InVictim' /\ Victim' = v
    <3>1. gc'.base = gc.base /\ gc'.n = Rank(gc.base, v)
      BY <2>2 DEF TypeInv, TypeOK, FrameType, GcType
    <3> QED BY <2>1, <2>2, <3>1, AtRank DEF InVictim, Victim
  <2>6. dirty'[v] = DIRTY_GC /\ \A s \in Sector : s # v => dirty'[s] = dirty[s]
    <3>1. dirty[v] \in Dirty
      BY <2>1 DEF TypeInv, TypeOK, FlashType
    <3> QED BY <2>1, <2>2, <3>1 DEF TypeInv, TypeOK, FlashType, WriteStatus, Dirty,
                                    DIRTY_UNUSED, DIRTY_GC
  <2>7. secCache'[v] = secCache[v] \/ (~Cached(secCache, v) /\ secCache'[v].dirty = dirty[v] /\ magic[v])
    <3>1. PICK S : secCache' = FillCache(secCache, gc.base, S)
      BY <2>2
    <3>2. \/ secCache'[v] = secCache[v]
          \/ ~Cached(secCache, v) /\ magic[v] /\ secCache'[v] = FlashInfo(v, FailedAddr)
      BY <2>1, <3>1, FillCacheKeeps
    <3> QED BY <3>2 DEF FlashInfo
  <2>8. Cached(secCache', v) => secCache'[v].dirty \in {DIRTY_TRUE, DIRTY_GC}
    BY <2>1, <2>7 DEF Cached, HdrInfo, FlashInfo
  <2>9. ASSUME NEW s \in Sector PROVE Told(secCache, s)' /\ FreeTold(secCache, s)'
    BY <2>2, <2>3, <2>4, <2>5, <2>6, <2>8 DEF CacheOk, Told, FreeTold, Cached
  <2> QED BY <2>9 DEF CacheInv
<1>20. CASE UpdateSecStatus
  <2>1. CacheOk(secCache) /\ pc = "status" /\ pc' = "preWrite" /\ cur.sec \in Sector /\ cur'.sec = cur.sec
    BY <1>20, <1>b DEF UpdateSecStatus, TypeInv, TypeOK, FrameType, CurType
  <2>2. cur.store = store[cur.sec] /\ cur.store \in Store
    BY <2>1 DEF LengthInv, Owed, Writing, TypeInv, TypeOK, FrameType, CurType
  <2>3. WriteStatus(cur.store, SectorStatus) = SectorStatus
    <3>1. SectorStatus # STORE_FULL /\ cur.store # STORE_FULL
      BY StatusNotFull DEF FullInv, RoomBehind
    <3> QED BY <3>1 DEF SectorStatus, WriteStatus, STORE_EMPTY, STORE_USING
  <2>4. SameVictim
    BY <1>20 DEF UpdateSecStatus, SameVictim, InVictim, Victim
  <2>5. ASSUME NEW s \in Sector
        PROVE  Told(secCache, s)' /\ (FreeTold(secCache, s)' \/ s = cur.sec)
    <3>1. UNCHANGED <<magic, dirty, recs>>
          /\ store'[s] = IF s = cur.sec THEN SectorStatus ELSE store[s]
      BY <1>20, <2>1, <2>2, <2>3 DEF UpdateSecStatus, TypeInv, TypeOK, FlashType
    <3>2. /\ secCache'[s].dirty = secCache[s].dirty /\ secCache'[s].empty = secCache[s].empty
          /\ secCache'[s].store = IF s = cur.sec /\ Cached(secCache, s) /\ cur.store # SectorStatus
                                  THEN SectorStatus ELSE secCache[s].store
      BY <1>20, <2>1 DEF UpdateSecStatus, TypeInv, TypeOK, RamType, InfoType
    <3>3. Told(secCache, s) /\ FreeTold(secCache, s)
      BY <2>1 DEF CacheOk
    <3> QED BY <2>2, <2>4, <3>1, <3>2, <3>3 DEF Told, FreeTold, Cached, SameVictim
  <2> QED BY <2>1, <2>5 DEF CacheInv, Writing
\* ... and the record: its sector's free address is right again when the body
\* is written.
<1>21. ASSUME Writing, UNCHANGED <<magic, store, dirty, secCache, cur, mv, gc>>, Writing',
              \A s \in Sector : s # cur.sec => recs'[s] = recs[s]
       PROVE  CacheInv'
  <2>1. ASSUME NEW s \in Sector
        PROVE  Told(secCache, s)' /\ (FreeTold(secCache, s)' \/ s = cur.sec)
    <3>1. Told(secCache, s) /\ (FreeTold(secCache, s) \/ s = cur.sec)
      BY <1>21 DEF CacheInv, JustErased, Writing
    <3>2. InVictim => InVictim' /\ Victim' = Victim
      BY <1>21 DEF InVictim, Victim, Writing
    <3> QED BY <1>21, <3>1, <3>2 DEF Told, FreeTold, Cached
  <2> QED BY <1>21, <2>1 DEF CacheInv
<1>22. CASE PreWrite \/ WriteMagic \/ WriteHdr
  <2>1. Writing /\ Writing' /\ UNCHANGED <<magic, store, dirty, secCache, cur, mv, gc>>
    BY <1>22 DEF PreWrite, WriteMagic, WriteHdr, Writing, ram, frame
  <2>2. \A s \in Sector : s # cur.sec => recs'[s] = recs[s]
    BY <1>22 DEF PreWrite, WriteMagic, WriteHdr, LastRec, TypeInv, TypeOK, FlashType
  <2> QED BY <1>21, <2>1, <2>2
<1>23. CASE WriteBody
  <2>1. /\ pc = "body" /\ pc' = "commit" /\ UNCHANGED <<magic, store, dirty, cur, mv, gc>>
        /\ LastRec([CurRec EXCEPT !.key = cur.key, !.val = cur.val])
    BY <1>23 DEF WriteBody, frame
  <2>2. recs[cur.sec] # <<>> /\ CurRec.at = cur.at /\ CurRec.len = cur.len /\ cur.len >= HdrLen
    BY <2>1 DEF LengthInv, Owed, Writing
  <2>3. CurRec \in Rec /\ cur \in CurType
    BY <2>2, CurRecType DEF TypeInv, TypeOK, FrameType, CurType
  <2> DEFINE r == [CurRec EXCEPT !.key = cur.key, !.val = cur.val]
  <2>4. r \in Rec /\ r.at = cur.at /\ r.len = cur.len
    BY <2>2, <2>3 DEF Rec, CurType
  <2> HIDE DEF r
  <2>5. /\ \A st : Fill(st, recs'[cur.sec]) = cur.at + cur.len
        /\ \A s \in Sector : s # cur.sec => recs'[s] = recs[s]
    BY <2>1, <2>2, <2>4, LastRecFill DEF r
  <2>6. ASSUME NEW s \in Sector PROVE Told(secCache, s)' /\ FreeTold(secCache, s)'
    <3>1. /\ secCache'[s].store = secCache[s].store /\ secCache'[s].dirty = secCache[s].dirty
          /\ secCache'[s].empty = IF s = cur.sec /\ Cached(secCache, s) THEN cur.at + cur.len
                                  ELSE secCache[s].empty
      BY <1>23, <2>3 DEF WriteBody, RequestInv, TypeInv, TypeOK, RamType, InfoType, CurType
    <3>2. Told(secCache, s) /\ (FreeTold(secCache, s) \/ s = cur.sec)
      BY <2>1 DEF CacheInv, JustErased, Writing
    <3>3. InVictim => InVictim' /\ Victim' = Victim
      BY <2>1 DEF InVictim, Victim
    <3>4. Cached(secCache', s) => Cached(secCache, s)
      BY <3>1 DEF Cached
    <3> QED BY <2>1, <2>5, <3>1, <3>2, <3>3, <3>4 DEF Told, FreeTold, Cached
  <2> QED BY <2>6 DEF CacheInv
<1>24. CASE UNCHANGED vars
  BY <1>24 DEF vars, flash, ram, frame, CacheInv, Told, FreeTold, JustErased, InVictim, Victim, Writing
<1> QED BY <1>2, <1>3, <1>4, <1>5, <1>6, <1>7, <1>8, <1>10, <1>11, <1>12, <1>13, <1>14, <1>15, <1>16,
           <1>17, <1>18, <1>19, <1>20, <1>22, <1>23, <1>24
        DEF Next, Step, Load, Reset, New, DeleteKv, Write, MoveKv, Gc

-----------------------------------------------------------------------------
(* The record being written *)

LEMMA SetKvStatusLong ==
    ASSUME TypeInv, RecsLong, NEW s \in Sector, NEW i, NEW st, SetKvStatus(s, i, st)
    PROVE  RecsLong'
<1> DEFINE q == [recs[s] EXCEPT ![i] = [recs[s][i] EXCEPT !.st = WriteStatus(@, st)]]
<1>1. recs \in [Sector -> Seq(Rec)] /\ \A t \in Sector : recs[t] \in Seq(Rec)
  BY DEF TypeInv, TypeOK, FlashType
<1>2. recs' = [recs EXCEPT ![s] = q]
  BY DEF SetKvStatus
<1>3. DOMAIN q = DOMAIN recs[s]
  BY <1>1
<1>4. ASSUME NEW j \in DOMAIN recs[s] PROVE q[j].key = recs[s][j].key /\ q[j].len = recs[s][j].len
  <2>1. recs[s][j] \in Rec
    BY <1>1
  <2>2. CASE j = i
    <3>1. q[j] = [recs[s][j] EXCEPT !.st = WriteStatus(@, st)]
      BY <1>1, <2>2
    <3> HIDE DEF q
    <3> QED BY <2>1, <3>1 DEF Rec
  <2>3. CASE j # i
    <3>1. q[j] = recs[s][j]
      BY <1>1, <2>3
    <3> QED BY <3>1
  <2> QED BY <2>2, <2>3
<1> HIDE DEF q
<1>5. ASSUME NEW t \in Sector, NEW j \in DOMAIN recs'[t], CrcOk(recs'[t][j])
      PROVE  recs'[t][j].len >= HdrLen
  <2>1. CASE t = s
    BY <1>1, <1>2, <1>3, <1>4, <1>5, <2>1 DEF RecsLong, CrcOk
  <2>2. CASE t # s
    BY <1>1, <1>2, <1>5, <2>2 DEF RecsLong
  <2> QED BY <2>1, <2>2
<1> QED BY <1>5 DEF RecsLong

LEMMA LastRecLong ==
    ASSUME TypeInv, RecsLong, NEW r \in Rec, recs[cur.sec] # <<>>, LastRec(r),
           CrcOk(r) => r.len >= HdrLen
    PROVE  /\ RecsLong'
           /\ recs'[cur.sec] # <<>> /\ recs'[cur.sec][Len(recs'[cur.sec])] = r
<1> DEFINE n == Len(recs[cur.sec])
           q == [recs[cur.sec] EXCEPT ![n] = r]
<1>1. /\ cur.sec \in Sector
      /\ recs \in [Sector -> Seq(Rec)] /\ \A t \in Sector : recs[t] \in Seq(Rec)
  BY DEF TypeInv, TypeOK, FlashType, FrameType, CurType
<1>2. n \in 1 .. n /\ DOMAIN recs[cur.sec] = 1 .. n
  BY <1>1, EmptySeq, LenProperties
<1>3. /\ q \in Seq(Rec) /\ Len(q) = n
      /\ \A j \in 1 .. n : q[j] = IF j = n THEN r ELSE recs[cur.sec][j]
  BY <1>1, <1>2, ExceptSeq
<1>4. recs' = [recs EXCEPT ![cur.sec] = q]
  BY DEF LastRec
<1> HIDE DEF q, n
<1>5. recs'[cur.sec] = q /\ \A t \in Sector : t # cur.sec => recs'[t] = recs[t]
  BY <1>1, <1>4
<1>6. DOMAIN q = 1 .. n
  BY <1>3, LenProperties
<1>7. ASSUME NEW t \in Sector, NEW j \in DOMAIN recs'[t], CrcOk(recs'[t][j])
      PROVE  recs'[t][j].len >= HdrLen
  <2>1. CASE t = cur.sec
    <3>1. j \in 1 .. n /\ recs'[t][j] = q[j]
      BY <1>5, <1>6, <1>7, <2>1
    <3>2. CASE j = n
      BY <1>3, <1>7, <3>1, <3>2
    <3>3. CASE j # n
      BY <1>2, <1>3, <1>7, <2>1, <3>1, <3>3 DEF RecsLong
    <3> QED BY <3>2, <3>3
  <2>2. CASE t # cur.sec
    BY <1>5, <1>7, <2>2 DEF RecsLong
  <2> QED BY <2>1, <2>2
<1>8. q # <<>>
  <2>1. Len(<<>>) = 0
    OBVIOUS
  <2> QED BY <1>2, <1>3, <2>1
<1> QED BY <1>2, <1>3, <1>5, <1>7, <1>8 DEF RecsLong

\* The record that alloc_kv found a place for.
LEMMA AllocatedLength ==
    ASSUME TypeInv, CacheOk(secCache), NEW len \in Nat, CanAlloc(len), len >= HdrLen,
           NEW k, NEW v, cur' = Allocated(len, k, v), UNCHANGED store
    PROVE  cur'.len >= HdrLen /\ cur'.store = store'[cur'.sec]
BY AllocStore DEF Allocated

LEMMA LengthStep ==
    TypeInv /\ FrameInv /\ LengthInv /\ CacheInv /\ [Next]_vars => LengthInv'
<1> SUFFICES ASSUME TypeInv, FrameInv, LengthInv, CacheInv, [Next]_vars PROVE LengthInv'
  OBVIOUS
<1> RecsLong
  BY DEF LengthInv
<1>a. ~Moving => mv = "no"
  BY DEF FrameInv, Moving
<1>b. UNCHANGED recs => RecsLong'
  BY DEF RecsLong
\* Where no record is being written afterwards that was not before ...
<1>c. ASSUME RecsLong', pc' \notin {"preWrite", "magic", "header", "body", "commit"},
             Owed' => Owed /\ ~Writing /\ UNCHANGED <<cur, store>>
      PROVE  LengthInv'
  BY <1>c DEF LengthInv, Writing
<1>d. ASSUME NEW s, EraseSector(s) \/ WriteSectorHdr(s) PROVE RecsLong'
  <2>1. \A t \in Sector : recs'[t] = recs[t] \/ recs'[t] = <<>>
    BY <1>d DEF EraseSector, WriteSectorHdr, TypeInv, TypeOK, FlashType
  <2> QED BY <2>1 DEF RecsLong
<1>1. CASE CheckHdr
  <2>1. RecsLong'
    BY <1>1, <1>b, <1>d DEF CheckHdr, flash
  <2>2. pc' \in {"hdr", "down"}
    BY <1>1 DEF CheckHdr
  <2> QED BY <1>c, <2>1, <2>2 DEF Owed, Writing
<1>2. CASE HdrDone \/ ResumeGc \/ ResumeGcDone \/ RecoverKvDone \/ LoadEnd \/ LoadRetry
  <2>1. UNCHANGED recs /\ pc' \in {"fmtErase", "recGc", "gc", "recKv", "recEnd", "idle"}
    BY <1>2 DEF HdrDone, ResumeGc, StartGc, ResumeGcDone, RecoverKvDone, LoadEnd, LoadRetry, flash
  <2> QED BY <1>b, <1>c, <2>1 DEF Owed, Writing
<1>3. CASE RecoverKv
  <2>1. PICK s \in Sector, i \in Nat : Recovers(s, i)
    BY <1>3, RecoverKvForm
  <2>2. RecsLong'
    BY <1>b, <2>1, SetKvStatusLong DEF Recovers, flash
  <2>3. pc' \in {"mvAlloc", "recEnd"}
    BY <2>1 DEF Recovers
  <2> QED BY <1>c, <2>2, <2>3 DEF Owed, Writing
<1>4. CASE Reset
  <2>1. RecsLong'
    BY <1>4, <1>b, <1>d DEF Reset, FmtErase, FmtHdr, NextDefault, DefaultsDone, flash
  <2>2. pc' \in {"fmtHdr", "fmtErase", "nextDef", "new", "idle", "recGc"}
    BY <1>4 DEF Reset, FmtErase, FmtHdr, NextDefault, DefaultsDone, EndOp
  <2> QED BY <1>c, <2>1, <2>2 DEF Owed, Writing
<1>5. CASE NewKvGc \/ NewKvFull \/ MvFull \/ PostGc
  <2>1. UNCHANGED recs /\ pc' \in {"gc", "idle", "nextDef", "gcScan", "recEnd"}
    BY <1>5 DEF NewKvGc, NewKvFull, MvFull, PostGc, StartGc, EndOp, flash
  <2> QED BY <1>b, <1>c, <2>1 DEF Owed, Writing
<1>6. CASE Gc
  <2>1. RecsLong'
    <3>1. CASE GcErase \/ GcFormat
      BY <3>1, <1>d DEF GcErase, GcFormat
    <3>2. CASE ~(GcErase \/ GcFormat)
      BY <1>6, <3>2, <1>b DEF Gc, GcBegin, GcVisit, GcDone, GcMove, GcNext, flash
    <3> QED BY <3>1, <3>2
  <2>2. \/ pc' \in {"gcVisit", "gcScan", "gcFormat", "gcNext", "idle", "new", "recGc", "retry"}
        \/ pc' \in {"preDel", "mvAlloc"} /\ mv' = "gc"
    <3>1. GcReturn => pc' \in {"idle", "new", "recGc", "retry"}
      BY DEF GcReturn, EndOp, TypeInv, TypeOK, FrameType, GcType
    <3> QED BY <1>6, <3>1 DEF Gc, GcBegin, GcVisit, GcDone, GcMove, GcErase, GcFormat, GcNext, Move
  <2> QED BY <1>c, <2>1, <2>2 DEF Owed, Writing
<1>7. CASE Call \/ Crash
  <2>1. UNCHANGED recs /\ (pc' \in {"new", "fmtErase", "idle", "down", "hdr", "off"}
                           \/ (pc' = "find" /\ op'.kind = "del"))
    <3>1. ASSUME NEW k \in Key, NEW v \in Val, Set(k, v) PROVE UNCHANGED recs /\ pc' = "new"
      BY <3>1 DEF Set, flash
    <3>2. ASSUME NEW k \in Key, Del(k) PROVE UNCHANGED recs /\ pc' = "find" /\ op'.kind = "del"
      BY <3>2 DEF Del, flash, NoOp
    <3>3. ASSUME NEW k \in Key, Get(k) PROVE UNCHANGED recs /\ pc' = "idle"
      BY <3>3 DEF Get, flash
    <3>4. CASE SetDefault \/ Deinit \/ FindOldest \/ Crash
      BY <3>4 DEF SetDefault, Deinit, FindOldest, Crash, flash
    <3> QED BY <1>7, <3>1, <3>2, <3>3, <3>4 DEF Call
  <2> QED BY <1>b, <1>c, <2>1 DEF Owed, Writing
\* ... where it is the same that was to be written ...
<1>8. CASE FindOld
  <2>1. UNCHANGED <<recs, store>> /\ pc = "find" /\ mv = "no"
    BY <1>8, <1>a DEF FindOld, flash, Moving
  <2>2. \/ pc' \in {"preDel", "status"} /\ op.kind = "set" /\ UNCHANGED cur
        \/ pc' \in {"delete", "idle"}
    BY <1>8 DEF FindOld, EndOp
  <2> QED BY <1>b, <1>c, <2>1, <2>2 DEF Owed, Writing
<1>9. CASE PreDelete \/ MarkDirty \/ Delete
  <2>1. RecsLong'
    <3>1. old.sec \in Sector
      BY DEF TypeInv, TypeOK, FrameType, OldType
    <3> QED BY <1>9, <1>b, <3>1, SetKvStatusLong DEF PreDelete, MarkDirty, Delete
  <2>2. \/ /\ pc \in {"preDel", "preDirty"} /\ pc' \in {"preDirty", "status", "mvAlloc"}
           /\ pc' = "status" => mv = "no"
           /\ UNCHANGED <<cur, store, mv>>
        \/ pc' \in {"delDirty", "gcScan", "recKv", "postGc"}
    BY <1>9 DEF PreDelete, MarkDirty, Delete, SetKvStatus, AfterPreDel, AfterDelete, frame
  <2> QED BY <1>c, <2>1, <2>2 DEF Owed, Writing
\* ... and where there is a new one.
<1>10. CASE NewKv
  <2>1. CacheOk(secCache) /\ mv = "no" /\ UNCHANGED mv
    BY <1>10, <1>a, CalmCache DEF NewKv, Writing, Moving
  <2>2. KvLen[op.val] \in Nat /\ KvLen[op.val] >= HdrLen
    BY <1>10, LenAssumption DEF NewKv, FrameInv
  <2>3. cur'.len >= HdrLen /\ cur'.store = store'[cur'.sec]
    BY <1>10, <2>1, <2>2, AllocatedLength DEF NewKv, flash
  <2> QED BY <1>10, <1>b, <2>3 DEF NewKv, flash, LengthInv, Writing
<1>11. CASE MvAlloc
  <2>1. CacheOk(secCache) /\ mv # "no" /\ UNCHANGED <<mv, recs, store>>
    BY <1>11, CalmCache DEF MvAlloc, Writing, FrameInv, flash
  <2>2. old.rec.len \in Nat /\ old.rec.len >= HdrLen
    BY <2>1 DEF FrameInv, TypeInv, TypeOK, FrameType, OldType, Rec
  <2>3. CASE pc' = "delete"
    BY <1>b, <1>c, <2>1, <2>3 DEF Owed, Writing
  <2>4. CASE pc' # "delete"
    <3>1. pc' = "status" /\ cur' = Allocated(old.rec.len, old.rec.key, old.rec.val) /\ CanAlloc(old.rec.len)
      BY <1>11, <2>4 DEF MvAlloc
    <3>2. cur'.len >= HdrLen /\ cur'.store = store'[cur'.sec]
      BY <2>1, <2>2, <3>1, AllocatedLength
    <3> QED BY <1>b, <2>1, <3>1, <3>2 DEF LengthInv, Writing
  <2> QED BY <2>3, <2>4
<1>12. CASE UpdateSecStatus
  <2>1. cur'.len = cur.len /\ UNCHANGED recs /\ pc = "status" /\ pc' = "preWrite"
    BY <1>12 DEF UpdateSecStatus, TypeInv, TypeOK, FrameType, CurType
  <2> QED BY <1>b, <2>1 DEF LengthInv, Owed, Writing
<1>13. CASE PreWrite
  <2> DEFINE r == [at |-> cur.at, len |-> GapLen, st |-> KV_PRE_WRITE, key |-> NoKey, val |-> NoVal]
             q == Append(recs[cur.sec], r)
             n == Len(recs[cur.sec])
  <2>1. /\ cur.sec \in Sector /\ cur.at \in Nat
        /\ recs \in [Sector -> Seq(Rec)] /\ \A t \in Sector : recs[t] \in Seq(Rec)
    BY DEF TypeInv, TypeOK, FlashType, FrameType, CurType
  <2>2. r \in Rec
    <3>1. GapLen \in Nat
      BY LenAssumption
    <3> QED BY <2>1, <3>1, StatusTypes DEF Rec
  <2>3. recs' = [recs EXCEPT ![cur.sec] = q] /\ pc = "preWrite" /\ pc' = "magic" /\ UNCHANGED cur
    BY <1>13 DEF PreWrite, frame
  <2>4. r.at = cur.at /\ ~CrcOk(r)
    BY DEF CrcOk
  <2> HIDE DEF r
  <2>5. /\ n \in Nat /\ q \in Seq(Rec) /\ Len(q) = n + 1 /\ q[n + 1] = r
        /\ DOMAIN q = 1 .. n + 1
        /\ \A j \in 1 .. n : q[j] = recs[cur.sec][j]
    BY <2>1, <2>2, AppendProperties, LenProperties
  <2>6. DOMAIN recs[cur.sec] = 1 .. n
    BY <2>1, LenProperties
  <2>7. q # <<>>
    <3>1. Len(<<>>) = 0
      OBVIOUS
    <3> HIDE DEF q
    <3> QED BY <2>5, <3>1
  <2> HIDE DEF q, n
  <2>8. recs'[cur.sec] = q /\ \A t \in Sector : t # cur.sec => recs'[t] = recs[t]
    BY <2>1, <2>3
  <2>9. ASSUME NEW t \in Sector, NEW j \in DOMAIN recs'[t], CrcOk(recs'[t][j])
        PROVE  recs'[t][j].len >= HdrLen
    <3>1. CASE t = cur.sec
      <4>1. j \in 1 .. n
        <5>1. j # n + 1
          BY <2>4, <2>5, <2>8, <2>9, <3>1
        <5> QED BY <2>5, <2>8, <2>9, <3>1, <5>1
      <4> QED BY <2>5, <2>6, <2>8, <2>9, <3>1, <4>1 DEF RecsLong
    <3>2. CASE t # cur.sec
      BY <2>8, <2>9, <3>2 DEF RecsLong
    <3> QED BY <3>1, <3>2
  <2>10. RecsLong'
    BY <2>9 DEF RecsLong
  <2>11. (recs[cur.sec] # <<>> /\ CurRec.at = cur.at)'
    BY <2>3, <2>4, <2>5, <2>7, <2>8 DEF CurRec
  <2>12. cur'.len >= HdrLen
    BY <2>3 DEF LengthInv, Owed, Writing
  <2> QED BY <2>3, <2>10, <2>11, <2>12 DEF LengthInv, Writing
<1>14. ASSUME NEW r \in Rec, LastRec(r), recs[cur.sec] # <<>>, UNCHANGED cur, CrcOk(r) => r.len >= HdrLen,
              r.at = cur.at, pc' \in {"header", "body", "commit"}, pc' = "body" => r.len = cur.len,
              cur.len >= HdrLen
       PROVE  LengthInv'
  <2>1. RecsLong' /\ recs'[cur.sec] # <<>> /\ recs'[cur.sec][Len(recs'[cur.sec])] = r
    BY <1>14, LastRecLong
  <2>2. (recs[cur.sec] # <<>> /\ CurRec = r)'
    BY <1>14, <2>1 DEF CurRec
  <2> QED BY <1>14, <2>1, <2>2 DEF LengthInv, Writing, Owed
<1>15. CASE WriteMagic \/ WriteHdr \/ WriteBody
  <2>1. pc \in {"magic", "header", "body"} /\ UNCHANGED cur
    BY <1>15 DEF WriteMagic, WriteHdr, WriteBody, frame
  <2>2. recs[cur.sec] # <<>> /\ CurRec.at = cur.at /\ cur.len >= HdrLen
    BY <2>1 DEF LengthInv, Owed, Writing
  <2>3. CurRec \in Rec /\ cur \in CurType
    BY <2>2, CurRecType DEF TypeInv, TypeOK, FrameType, CurType
  <2>4. CASE WriteMagic
    <3> DEFINE r == [CurRec EXCEPT !.len = HdrLen]
    <3>1. r \in Rec /\ r.at = cur.at /\ r.len = HdrLen
      BY <2>2, <2>3, LenAssumption DEF Rec
    <3>2. LastRec(r) /\ pc' = "header"
      BY <2>4 DEF WriteMagic
    <3> HIDE DEF r
    <3> QED BY <1>14, <2>1, <2>2, <3>1, <3>2, LenAssumption
  <2>5. CASE WriteHdr
    <3> DEFINE r == [CurRec EXCEPT !.len = cur.len]
    <3>1. r \in Rec /\ r.at = cur.at /\ r.len = cur.len
      BY <2>2, <2>3 DEF Rec, CurType
    <3>2. LastRec(r) /\ pc' = "body"
      BY <2>5 DEF WriteHdr
    <3> HIDE DEF r
    <3> QED BY <1>14, <2>1, <2>2, <3>1, <3>2
  <2>6. CASE WriteBody
    <3> DEFINE r == [CurRec EXCEPT !.key = cur.key, !.val = cur.val]
    <3>1. CurRec.len = cur.len
      BY <2>6 DEF WriteBody, LengthInv
    <3>2. r \in Rec /\ r.at = cur.at /\ r.len = cur.len
      BY <2>2, <2>3, <3>1 DEF Rec, CurType
    <3>3. LastRec(r) /\ pc' = "commit"
      BY <2>6 DEF WriteBody
    <3> HIDE DEF r
    <3> QED BY <1>14, <2>1, <2>2, <3>2, <3>3
  <2> QED BY <1>15, <2>4, <2>5, <2>6
<1>16. CASE Commit
  <2>1. pc = "commit" /\ recs[cur.sec] # <<>>
    BY <1>16 DEF Commit, LengthInv
  <2>2. CurRec \in Rec /\ CurRec.st \in KvStatus
    BY <2>1, CurRecType DEF TypeInv, TypeOK, FrameType, CurType, Rec
  <2> DEFINE r == [CurRec EXCEPT !.st = WriteStatus(@, KV_WRITE)]
  <2>3. r \in Rec /\ r.key = CurRec.key /\ r.len = CurRec.len
    <3>1. WriteStatus(CurRec.st, KV_WRITE) \in KvStatus
      BY <2>2, StatusTypes DEF WriteStatus
    <3> QED BY <2>2, <3>1 DEF Rec
  <2>4. LastRec(r) /\ pc' \in {"delete", "postGc", "nextDef"}
    BY <1>16 DEF Commit
  <2>5. CrcOk(CurRec) => CurRec.len >= HdrLen
    <3>1. cur.sec \in Sector /\ Len(recs[cur.sec]) \in DOMAIN recs[cur.sec]
      BY <2>1, EmptySeq, LenProperties DEF TypeInv, TypeOK, FlashType, FrameType, CurType
    <3> QED BY <3>1 DEF RecsLong, CurRec
  <2>6. CrcOk(r) => r.len >= HdrLen
    BY <2>3, <2>5 DEF CrcOk
  <2> HIDE DEF r
  <2>7. RecsLong'
    BY <2>1, <2>3, <2>4, <2>6, LastRecLong
  <2> QED BY <1>c, <2>4, <2>7 DEF Owed, Writing
<1>17. CASE UNCHANGED vars
  BY <1>17 DEF vars, flash, ram, frame, LengthInv, RecsLong, Owed, Writing, CurRec
<1> QED BY <1>1, <1>2, <1>3, <1>4, <1>5, <1>6, <1>7, <1>8, <1>9, <1>10, <1>11, <1>12, <1>13, <1>15,
           <1>16, <1>17 DEF Next, Step, Load, New, DeleteKv, Write, MoveKv

-----------------------------------------------------------------------------
(* The victim of the collection *)

\* alloc_kv with a request to collect takes a sector that is not dirty.
LEMMA AllocNotDirty ==
    ASSUME TypeInv, CacheOk(secCache), gcReq, NEW len \in Nat, CanAlloc(len),
           NEW v \in Sector, dirty[v] = DIRTY_GC
    PROVE  AllocSec(len) # v
<1> DEFINE s == AllocSec(len)
<1>1. s \in Sector /\ Fits(s, len)
  BY AllocFits DEF TypeInv, TypeOK
<1> HIDE DEF s
<1>2. FullInfo(s).dirty = DIRTY_FALSE
  BY <1>1 DEF Fits
<1>3. FullInfo(v).dirty \in {DIRTY_TRUE, DIRTY_GC, DIRTY_UNUSED}
  BY DEF CacheOk, Told, FullInfo, FlashInfo, NoInfo
<1> QED BY <1>2, <1>3 DEF s, DIRTY_UNUSED, DIRTY_FALSE, DIRTY_TRUE, DIRTY_GC

\* What GcVisit does to the sector it visits.
LEMMA GcVisitForm ==
    ASSUME TypeInv, GcVisit
    PROVE  LET v == FirstFrom(gc.base, GcVictims) IN
           /\ v \in Sector /\ HdrInfo(v).dirty \in {DIRTY_TRUE, DIRTY_GC}
           /\ Victim' = v /\ dirty'[v] = DIRTY_GC
           /\ \A s \in Sector : s # v => dirty'[s] = dirty[s]
<1> DEFINE v == FirstFrom(gc.base, GcVictims)
<1>1. v \in Sector /\ HdrInfo(v).dirty \in {DIRTY_TRUE, DIRTY_GC} /\ gc.base \in Sector
  <2>1. GcVictims \in SUBSET Sector /\ GcVictims # {} /\ gc.base \in Sector
    BY DEF GcVisit, GcVictims, TypeInv, TypeOK, FrameType, GcType
  <2>2. v \in GcVictims
    BY <2>1, FirstFromLeast
  <2> HIDE DEF v
  <2> QED BY <2>1, <2>2 DEF GcVictims
<1>2. /\ dirty' = [dirty EXCEPT ![v] = WriteStatus(@, DIRTY_GC)]
      /\ gc' = [gc EXCEPT !.n = Rank(gc.base, v), !.idx = 1]
  BY DEF GcVisit
<1> HIDE DEF v
<1>3. gc'.base = gc.base /\ gc'.n = Rank(gc.base, v)
  BY <1>2 DEF TypeInv, TypeOK, FrameType, GcType
<1>4. Victim' = v
  BY <1>1, <1>3, AtRank DEF Victim
<1>5. dirty'[v] = DIRTY_GC /\ \A s \in Sector : s # v => dirty'[s] = dirty[s]
  <2>1. dirty[v] \in Dirty
    BY <1>1 DEF TypeInv, TypeOK, FlashType
  <2> QED BY <1>1, <1>2, <2>1 DEF TypeInv, TypeOK, FlashType, WriteStatus, Dirty,
                                  DIRTY_UNUSED, DIRTY_GC
<1> QED BY <1>1, <1>4, <1>5 DEF v

LEMMA VictimStep ==
    TypeInv /\ FrameInv /\ RequestInv /\ VictimInv /\ CacheInv /\ [Next]_vars => VictimInv'
<1> SUFFICES ASSUME TypeInv, FrameInv, RequestInv, VictimInv, CacheInv, [Next]_vars PROVE VictimInv'
  OBVIOUS
<1>a. ~Moving => mv = "no"
  BY DEF FrameInv, Moving
\* Outside a collection's move there is nothing to keep ...
<1>b. ASSUME ~InVictim', pc' \notin {"preDirty", "delDirty"} PROVE VictimInv'
  BY <1>b DEF VictimInv, InVictim
\* ... and in it mostly nothing moves.
<1>c. ASSUME InVictim' => InVictim, UNCHANGED <<gc, dirty>>, pc' \notin {"preDirty", "delDirty"},
             mv' = "gc" /\ (pc' = "status" \/ Writing')
                => mv = "gc" /\ (pc = "status" \/ Writing) /\ cur'.sec = cur.sec
      PROVE  VictimInv'
  BY <1>c DEF VictimInv, Victim
<1>1. CASE Load \/ Reset \/ New \/ FindOld \/ PostGc
  <2>1. mv' \in {"no", "rec"} /\ pc' \notin {"gcScan", "preDirty", "delDirty"}
    <3>1. CASE Load
      <4>1. CASE RecoverKv
        <5>1. PICK s \in Sector, i \in Nat : Recovers(s, i)
          BY <4>1, RecoverKvForm
        <5>2. mv = "no"
          BY <4>1, <1>a DEF RecoverKv, Moving
        <5> QED BY <5>1, <5>2 DEF Recovers
      <4>2. CASE CheckHdr \/ HdrDone \/ ResumeGc \/ ResumeGcDone
        BY <4>2, <1>a DEF CheckHdr, HdrDone, ResumeGc, ResumeGcDone, StartGc, Moving
      <4>3. CASE RecoverKvDone \/ LoadEnd \/ LoadRetry
        BY <4>3, <1>a DEF RecoverKvDone, LoadEnd, LoadRetry, Moving, frame
      <4> QED BY <3>1, <4>1, <4>2, <4>3 DEF Load
    <3>2. CASE Reset
      BY <3>2, <1>a DEF Reset, FmtErase, FmtHdr, NextDefault, DefaultsDone, EndOp, Moving, frame
    <3>3. CASE New
      BY <3>3, <1>a DEF New, NewKv, NewKvGc, NewKvFull, StartGc, EndOp, Moving
    <3>4. CASE FindOld
      BY <3>4, <1>a DEF FindOld, EndOp, Moving
    <3>5. CASE PostGc
      BY <3>5, <1>a DEF PostGc, StartGc, EndOp, Moving
    <3> QED BY <1>1, <3>1, <3>2, <3>3, <3>4, <3>5
  <2> QED BY <1>b, <2>1 DEF InVictim
<1>2. CASE Call \/ Crash
  <2>1. mv' = "no" /\ pc' \in {"new", "find", "fmtErase", "idle", "down", "hdr", "off"}
    <3>1. ASSUME NEW k \in Key, NEW v \in Val, Set(k, v) PROVE mv' = "no" /\ pc' = "new"
      BY <3>1, <1>a DEF Set, Moving
    <3>2. ASSUME NEW k \in Key, Del(k) PROVE mv' = "no" /\ pc' = "find"
      BY <3>2, <1>a DEF Del, Moving
    <3>3. ASSUME NEW k \in Key, Get(k) PROVE mv' = "no" /\ pc' = "idle"
      BY <3>3, <1>a DEF Get, Moving, frame
    <3>4. CASE SetDefault \/ Deinit \/ FindOldest \/ Crash
      BY <3>4, <1>a DEF SetDefault, Deinit, FindOldest, Crash, Moving
    <3> QED BY <1>2, <3>1, <3>2, <3>3, <3>4 DEF Call
  <2> QED BY <1>b, <2>1 DEF InVictim
\* del_kv asks whether the sector is marked before it marks it.
<1>3. CASE PreDelete \/ Delete
  <2>1. /\ UNCHANGED <<dirty, gc, cur>>
        /\ mv' = "gc" => mv = "gc"
        /\ pc' = "gcScan" => mv = "gc"
        /\ pc' \in {"preDirty", "delDirty"} => dirty[old.sec] = DIRTY_FALSE /\ UNCHANGED old
        /\ pc' = "status" => mv' # "gc"
        /\ pc' \notin {"preWrite", "magic", "header", "body"}
    BY <1>3 DEF PreDelete, Delete, SetKvStatus, AfterPreDel, AfterDelete, frame
  <2> QED BY <2>1 DEF VictimInv, InVictim, Victim, Writing
\* It marks a sector that was not marked yet, so not the victim.
<1>4. CASE MarkDirty
  <2>1. /\ UNCHANGED <<gc, cur>>
        /\ mv' = "gc" => mv = "gc"
        /\ pc' = "gcScan" => mv = "gc"
        /\ pc' = "status" => mv' # "gc"
        /\ pc' \notin {"preWrite", "magic", "header", "body", "preDirty", "delDirty"}
    BY <1>4 DEF MarkDirty, AfterPreDel, AfterDelete
  <2>2. old.sec \in Sector /\ dirty[old.sec] = DIRTY_FALSE
    BY <1>4 DEF MarkDirty, VictimInv, TypeInv, TypeOK, FrameType, OldType
  <2>3. Victim \in Sector
    BY VictimType
  <2>4. InVictim => dirty'[Victim] = DIRTY_GC
    BY <1>4, <2>2, <2>3 DEF MarkDirty, VictimInv, TypeInv, TypeOK, FlashType, DIRTY_FALSE, DIRTY_GC
  <2> QED BY <2>1, <2>4 DEF VictimInv, InVictim, Victim, Writing
<1>5. CASE Write
  <2>1. UNCHANGED <<gc, dirty, mv>> /\ pc' \notin {"gcScan", "preDirty", "delDirty"}
    BY <1>5 DEF Write, UpdateSecStatus, PreWrite, WriteMagic, WriteHdr, WriteBody, Commit, frame
  <2>2. pc' = "status" \/ Writing' => (pc = "status" \/ Writing) /\ cur'.sec = cur.sec
    BY <1>5 DEF Write, UpdateSecStatus, PreWrite, WriteMagic, WriteHdr, WriteBody, Commit, Writing,
                frame, TypeInv, TypeOK, FrameType, CurType
  <2> QED BY <1>c, <2>1, <2>2 DEF InVictim
<1>6. CASE MvAlloc
  <2>1. CacheOk(secCache)
    BY <1>6, CalmCache DEF MvAlloc, Writing
  <2>2. UNCHANGED <<gc, dirty, mv>> /\ pc' \in {"delete", "status"} /\ CanAlloc(old.rec.len)
        /\ (pc' = "status" => cur'.sec = AllocSec(old.rec.len))
    BY <1>6 DEF MvAlloc, Allocated, flash
  <2>3. mv = "gc" => gcReq /\ dirty[Victim] = DIRTY_GC
    BY DEF RequestInv, InGc, InVictim, VictimInv
  <2>4. old.rec.len \in Nat /\ Victim \in Sector
    BY VictimType DEF TypeInv, TypeOK, FrameType, OldType, Rec
  <2>5. mv = "gc" => AllocSec(old.rec.len) # Victim
    BY <2>1, <2>2, <2>3, <2>4, AllocNotDirty
  <2> QED BY <2>2, <2>3, <2>5 DEF VictimInv, InVictim, Victim, Writing
<1>7. CASE MvFull
  <2>1. UNCHANGED <<gc, dirty>> /\ mv' = "no" /\ pc' \in {"gcScan", "recEnd"}
        /\ (pc' = "gcScan" => mv = "gc")
    BY <1>7 DEF MvFull, flash
  <2> QED BY <1>c, <2>1 DEF InVictim
<1>8. CASE GcVisit
  <2>1. dirty'[Victim'] = DIRTY_GC
    BY <1>8, GcVisitForm
  <2>2. pc' = "gcScan" /\ mv' = "no"
    BY <1>8, <1>a DEF GcVisit, Moving
  <2> QED BY <2>1, <2>2 DEF VictimInv
<1>9. CASE GcMove
  <2>1. pc = "gcScan" /\ pc' \in {"preDel", "mvAlloc"} /\ UNCHANGED dirty
    BY <1>9 DEF GcMove, Move, flash
  <2>2. Victim' = Victim
    BY <1>9 DEF GcMove, Victim, TypeInv, TypeOK, FrameType, GcType
  <2> QED BY <2>1, <2>2 DEF VictimInv, InVictim, Writing
<1>10. CASE GcBegin \/ GcDone \/ GcErase \/ GcFormat \/ GcNext
  <2>1. mv' = "no" /\ pc' \in {"gcVisit", "gcFormat", "gcNext", "idle", "new", "recGc", "retry"}
    <3>1. mv = "no"
      BY <1>10, <1>a DEF GcBegin, GcDone, GcErase, GcFormat, GcNext, Moving
    <3>2. GcReturn => mv' = "no" /\ pc' \in {"idle", "new", "recGc", "retry"}
      BY <3>1 DEF GcReturn, EndOp, TypeInv, TypeOK, FrameType, GcType
    <3> QED BY <1>10, <3>1, <3>2 DEF GcBegin, GcDone, GcErase, GcFormat, GcNext, frame
  <2> QED BY <1>b, <2>1 DEF InVictim
<1>11. CASE UNCHANGED vars
  BY <1>11 DEF vars, flash, ram, frame, VictimInv, InVictim, Victim, Writing
<1> QED BY <1>1, <1>2, <1>3, <1>4, <1>5, <1>6, <1>7, <1>8, <1>9, <1>10, <1>11
        DEF Next, Step, DeleteKv, MoveKv, Gc

-----------------------------------------------------------------------------
(* The sector that is left for the next collection *)

\* read_sector_info says the same of a header before and after its caching.
LEMMA HdrInfoKept ==
    ASSUME UNCHANGED flash, NEW base, NEW S, secCache' = FillCache(secCache, base, S),
           NEW s \in Sector
    PROVE  HdrInfo(s)' = HdrInfo(s)
<1>1. \/ secCache'[s] = secCache[s]
      \/ magic[s] /\ ~Cached(secCache, s) /\ secCache'[s] = FlashInfo(s, FailedAddr)
  BY FillCacheKeeps
<1> QED BY <1>1 DEF HdrInfo, FlashInfo, Cached, flash, FailedAddr, NotCached

LEMMA EmptySpare ==
    ASSUME CacheOk(secCache), ~InVictim, NEW s \in EmptySecs
    PROVE  s \in Sector /\ Spare(s)
<1>1. s \in Sector /\ HdrInfo(s).store = STORE_EMPTY
  BY DEF EmptySecs
<1>2. magic[s]
  BY <1>1, InfoTold DEF NoInfo, STORE_UNUSED, STORE_EMPTY
<1> QED BY <1>1, <1>2, InfoTold DEF Spare

LEMMA EmptyFinite == IsFiniteSet(EmptySecs)
<1>1. IsFiniteSet(Sector)
  BY FS_Interval, SecNumAssumption DEF Sector
<1> QED BY <1>1, FS_Subset DEF EmptySecs

\* Above the threshold there is an empty sector besides any given one.
LEMMA AnotherEmpty ==
    ASSUME Cardinality(EmptySecs) > GcThreshold, NEW x
    PROVE  \E s \in EmptySecs : s # x
<1> SUFFICES ASSUME EmptySecs \in SUBSET {x} PROVE FALSE
  OBVIOUS
<1>1. IsFiniteSet({x}) /\ Cardinality({x}) = 1
  BY FS_Singleton
<1>2. Cardinality(EmptySecs) <= 1
  BY <1>1, FS_Subset
<1>3. Cardinality(EmptySecs) \in Nat
  BY EmptyFinite, FS_CardinalityType
<1> QED BY <1>2, <1>3, GcThresholdAssumption

\* An empty sector is taken for a record only if another one is left.
LEMMA AllocSpare ==
    ASSUME TypeInv, CacheOk(secCache), ~InVictim, gcReq = FALSE, NEW len \in Nat, CanAlloc(len),
           HdrInfo(AllocSec(len)).store = STORE_EMPTY
    PROVE  \E s \in Sector : s # AllocSec(len) /\ Spare(s)
<1>1. CASE UsingFit(len) # {}
  <2>1. UsingFit(len) \in SUBSET Sector /\ oldest \in Sector
    BY DEF UsingFit, UsingSecs, TypeInv, TypeOK, RamType
  <2>2. FirstFrom(oldest, UsingFit(len)) \in UsingFit(len)
    BY <1>1, <2>1, FirstFromLeast
  <2>3. AllocSec(len) \in UsingSecs
    BY <1>1, <2>2 DEF AllocSec, UsingFit
  <2> QED BY <2>3 DEF UsingSecs, STORE_EMPTY, STORE_USING
<1>2. CASE UsingFit(len) = {}
  <2>1. Cardinality(EmptySecs) > GcThreshold
    BY <1>2 DEF CanAlloc, EmptyFit, MayUseEmpty
  <2>2. PICK s \in EmptySecs : s # AllocSec(len)
    BY <2>1, AnotherEmpty
  <2> QED BY <2>2, EmptySpare
<1> QED BY <1>1, <1>2

LEMMA SpareStep ==
    TypeInv /\ TypeInv' /\ FullInv /\ FrameInv /\ RequestInv /\ LengthInv /\ VictimInv
    /\ CacheInv /\ SpareInv /\ [Next]_vars => SpareInv'
<1> SUFFICES ASSUME TypeInv, TypeInv', FullInv, FrameInv, RequestInv, LengthInv, VictimInv,
                    CacheInv, SpareInv, [Next]_vars
             PROVE  SpareInv'
  OBVIOUS
<1> DEFINE Loose == \E s \in Sector : ~magic[s] \/ dirty[s] = DIRTY_GC
           Safe == {"recKv", "recEnd", "retry", "nextDef", "idle", "new", "find", "preDel",
                    "preDirty", "delete", "delDirty", "status", "preWrite", "magic", "header",
                    "body", "commit", "postGc", "mvAlloc", "gcNext"}
<1>a. ~Moving => mv = "no"
  BY DEF FrameInv, Moving
<1>b. pc \notin {"preWrite", "magic", "header", "body", "fmtHdr", "gcFormat"} => CacheOk(secCache)
  BY CalmCache DEF Writing
\* With a spare sector, and none to be taken, the rest follows ...
<1>c. ASSUME SomeSpare', pc' # "hdr",
             Owed' /\ ~Writing' /\ mv' # "gc" /\ cur'.store = STORE_EMPTY
                => \E s \in Sector : s # cur'.sec /\ Spare(s)'
      PROVE  SpareInv'
  BY <1>c DEF SpareInv
\* ... and where none is promised, anything to collect will do.
<1>d. ASSUME SomeSpare' \/ Loose', pc' \notin Safe \/ mv' = "gc",
             pc' \notin {"hdr", "recGc", "gc", "gcVisit"}
      PROVE  SpareInv'
  BY <1>d DEF SpareInv, Owed, Writing
<1>e. ASSUME UNCHANGED <<magic, store>> PROVE /\ SomeSpare => SomeSpare'
                                              /\ \A s \in Sector : Spare(s) => Spare(s)'
  BY <1>e DEF SomeSpare, Spare
<1>f. SomeSpare \/ Loose
  BY DEF SpareInv
<1>g. pc \in Safe /\ mv # "gc" => SomeSpare
  BY DEF SpareInv
<1>h. ASSUME NEW s \in Sector, WriteSectorHdr(s) PROVE SomeSpare'
  BY <1>h DEF WriteSectorHdr, SomeSpare, Spare, TypeInv, TypeOK, FlashType
<1>i. ASSUME NEW s \in Sector, EraseSector(s) PROVE Loose'
  BY <1>i DEF EraseSector, TypeInv, TypeOK, FlashType
<1>j. UNCHANGED flash => (SomeSpare => SomeSpare') /\ (Loose => Loose')
  BY DEF flash, SomeSpare, Spare
<1> HIDE DEF Loose
\* The boot ...
<1>1. CASE FindOldest
  <2>1. UNCHANGED flash /\ pc' = "hdr" /\ scan'.n = 0 /\ scan'.base \in Sector
    BY <1>1 DEF FindOldest, NoScan, TypeInv, TypeOK, FrameType, ScanType
  <2>2. \A s \in Sector : ~(Rank(scan'.base, s) < 0)
    BY <2>1, RankType DEF Sector
  <2> QED BY <1>f, <1>j, <2>1, <2>2 DEF SpareInv, Owed, Writing, Loose
<1>2. CASE CheckHdr
  <2> DEFINE s == FirstFrom(scan.base, BadHeaders)
  <2>1. scan.base \in Sector /\ pc = "hdr" /\ mv = "no"
    BY <1>2, <1>a DEF CheckHdr, Moving, TypeInv, TypeOK, FrameType, ScanType
  <2>2. s \in BadHeaders /\ s \in Sector /\ \A t \in BadHeaders : Rank(scan.base, s) <= Rank(scan.base, t)
    <3>1. BadHeaders \in SUBSET Sector /\ BadHeaders # {}
      BY <1>2 DEF CheckHdr, BadHeaders
    <3> QED BY <2>1, <3>1, FirstFromLeast
  <2>3. CASE NotFormatable
    <3>1. pc' = "down" /\ UNCHANGED <<flash, mv>>
      BY <1>2, <2>3 DEF CheckHdr
    <3> QED BY <1>d, <1>f, <1>j, <3>1
  <2>4. CASE ~NotFormatable
    <3>1. /\ WriteSectorHdr(s) /\ pc' = "hdr" /\ UNCHANGED mv
          /\ scan'.n = Rank(scan.base, s) + 1 /\ scan'.base = scan.base
      BY <1>2, <2>1, <2>4 DEF CheckHdr, TypeInv, TypeOK, FrameType, ScanType
    <3> HIDE DEF s
    <3>2. SomeSpare'
      BY <1>h, <2>2, <3>1
    <3>3. ASSUME NEW t \in Sector, Rank(scan.base, t) < Rank(scan.base, s) + 1 PROVE magic'[t]
      <4>1. Rank(scan.base, t) \in Int /\ Rank(scan.base, s) \in Int /\ scan.n \in Int
        BY <2>1, <2>2, RankType DEF Sector, TypeInv, TypeOK, FrameType, ScanType
      <4>2. CASE t = s
        BY <3>1, <4>2 DEF WriteSectorHdr, TypeInv, TypeOK, FlashType
      <4>3. CASE t # s
        <5>1. Rank(scan.base, t) # Rank(scan.base, s)
          BY <2>1, <2>2, <4>3, RankInjective
        <5>2. t \notin BadHeaders
          BY <2>2, <3>3, <4>1, <5>1
        <5>3. magic[t]
          BY <2>1, <4>1, <5>2 DEF BadHeaders, SpareInv
        <5> QED BY <3>1, <4>3, <5>3 DEF WriteSectorHdr, TypeInv, TypeOK, FlashType
      <4> QED BY <4>2, <4>3
    <3> QED BY <3>1, <3>2, <3>3 DEF SpareInv, Owed, Writing
  <2> QED BY <2>3, <2>4
<1>3. CASE HdrDone
  <2>1. /\ pc = "hdr" /\ BadHeaders = {} /\ UNCHANGED <<flash, mv>> /\ mv = "no" /\ ~InVictim
        /\ secCache' = FillCache(secCache, scan.base, {t \in Sector : Rank(scan.base, t) >= scan.n})
    BY <1>3, <1>a DEF HdrDone, Moving, InVictim
  <2>2. CASE pc' = "fmtErase"
    BY <1>d, <1>f, <1>j, <2>1, <2>2
  <2>3. CASE pc' # "fmtErase"
    <3>1. pc' = "recGc" /\ scan'.n = 0 /\ scan'.base \in Sector
      BY <1>3, <2>3 DEF HdrDone, NoScan, TypeInv, TypeOK, FrameType, ScanType
    <3>2. CASE SomeSpare
      BY <1>c, <1>j, <2>1, <3>1, <3>2 DEF Owed, Writing
    <3>3. CASE ~SomeSpare
      <4>1. \A s \in Sector : magic[s]
        <5>1. ASSUME NEW s \in Sector PROVE magic[s]
          <6>1. Rank(scan.base, s) \in Int /\ scan.n \in Int
            BY RankType DEF Sector, TypeInv, TypeOK, FrameType, ScanType
          <6>2. ~(Rank(scan.base, s) >= scan.n) => magic[s]
            BY <2>1, <6>1 DEF SpareInv
          <6> QED BY <2>1, <6>2 DEF BadHeaders
        <5> QED BY <5>1
      <4>2. PICK s \in Sector : dirty[s] = DIRTY_GC
        BY <1>f, <3>3, <4>1 DEF Loose
      <4>3. CacheOk(secCache)
        BY <1>b, <2>1
      <4>4. HdrInfo(s).dirty = DIRTY_GC
        BY <2>1, <4>1, <4>2, <4>3, InfoTold
      <4>5. HdrInfo(s)' = HdrInfo(s)
        BY <2>1, HdrInfoKept
      <4>6. Rank(scan'.base, s) >= 0
        BY <3>1, RankType DEF Sector
      <4>7. GcMarked' # {}
        BY <3>1, <4>4, <4>5, <4>6 DEF GcMarked
      <4> QED BY <1>f, <1>j, <2>1, <3>1, <4>7 DEF SpareInv, Owed, Writing, Loose
    <3> QED BY <3>2, <3>3
  <2> QED BY <2>2, <2>3
<1>4. CASE ResumeGc
  <2>1. /\ pc = "recGc" /\ pc' = "gc" /\ GcMarked # {} /\ UNCHANGED <<flash, mv>>
        /\ \E S : secCache' = FillCache(secCache, scan.base, S)
    BY <1>4 DEF ResumeGc, StartGc
  <2>2. PICK s \in Sector : HdrInfo(s).dirty = DIRTY_GC
    BY <2>1 DEF GcMarked
  <2>3. HdrInfo(s)' = HdrInfo(s)
    BY <2>1, HdrInfoKept
  <2> QED BY <1>f, <1>j, <2>1, <2>2, <2>3 DEF SpareInv, Owed, Writing, Loose
<1>5. CASE ResumeGcDone \/ RecoverKvDone \/ LoadRetry
  <2>1. UNCHANGED <<flash, mv>> /\ pc' \in {"recKv", "recEnd"} /\ mv = "no"
    BY <1>5, <1>a DEF ResumeGcDone, RecoverKvDone, LoadRetry, Moving, frame
  <2>2. SomeSpare
    BY <1>5, <1>g, <2>1 DEF ResumeGcDone, RecoverKvDone, LoadRetry, SpareInv
  <2> QED BY <1>c, <1>j, <2>1, <2>2 DEF Owed, Writing
<1>6. CASE RecoverKv
  <2>1. PICK s \in Sector, i \in Nat : Recovers(s, i)
    BY <1>6, RecoverKvForm
  <2>2. pc = "recKv" /\ mv = "no"
    BY <1>6, <1>a DEF RecoverKv, Moving
  <2>3. UNCHANGED <<magic, store>> /\ pc' \in {"mvAlloc", "recEnd"}
    BY <2>1 DEF Recovers, SetKvStatus, flash
  <2> QED BY <1>c, <1>e, <1>g, <2>2, <2>3 DEF Owed, Writing
<1>7. CASE LoadEnd
  <2>1. pc = "recEnd" /\ mv = "no" /\ UNCHANGED <<flash, mv>> /\ pc' \in {"gc", "idle"}
    BY <1>7, <1>a DEF LoadEnd, Moving
  <2> QED BY <1>c, <1>g, <1>j, <2>1 DEF Owed, Writing
\* ... the defaults ...
<1>8. CASE FmtErase
  <2>1. EraseSector(scan.n) /\ scan.n \in Sector /\ pc' = "fmtHdr"
    BY <1>8 DEF FmtErase, FrameInv
  <2> QED BY <1>d, <1>i, <2>1
<1>9. CASE FmtHdr
  <2>1. WriteSectorHdr(scan.n) /\ scan.n \in Sector /\ pc' \in {"fmtErase", "nextDef"}
    BY <1>9 DEF FmtHdr, FrameInv
  <2> QED BY <1>c, <1>h, <2>1 DEF Owed, Writing
<1>10. CASE NextDefault \/ DefaultsDone
  <2>1. pc = "nextDef" /\ mv = "no" /\ UNCHANGED flash /\ pc' \in {"new", "idle", "recGc"}
    BY <1>10, <1>a DEF NextDefault, DefaultsDone, EndOp, Moving
  <2> QED BY <1>c, <1>g, <1>j, <2>1 DEF Owed, Writing
\* ... allocation, which takes an empty sector only if another one is left ...
<1>11. ASSUME NEW len \in Nat, CanAlloc(len), CacheOk(secCache), pc \in {"new", "mvAlloc"}, mv # "gc",
              NEW k, NEW v, cur' = Allocated(len, k, v), UNCHANGED flash, pc' # "hdr"
       PROVE  SpareInv'
  <2>1. ~InVictim /\ gcReq = FALSE
    BY <1>11 DEF RequestInv, InGc, InVictim, TypeInv, TypeOK, RamType
  <2>2. cur'.sec = AllocSec(len) /\ cur'.store = HdrInfo(AllocSec(len)).store
    BY <1>11 DEF Allocated
  <2>3. cur'.store = STORE_EMPTY => \E s \in Sector : s # cur'.sec /\ Spare(s)
    BY <1>11, <2>1, <2>2, AllocSpare
  <2>4. cur'.store = STORE_EMPTY => \E s \in Sector : s # cur'.sec /\ Spare(s)'
    BY <1>11, <1>e, <2>3 DEF flash
  <2> QED BY <1>c, <1>g, <1>j, <1>11, <2>4
<1>12. CASE NewKv
  <2>1. KvLen[op.val] \in Nat
    BY KvLenType DEF TypeInv, TypeOK
  <2>2. pc = "new" /\ mv = "no" /\ CanAlloc(KvLen[op.val]) /\ UNCHANGED flash /\ pc' # "hdr"
        /\ cur' = Allocated(KvLen[op.val], op.key, op.val)
    BY <1>12, <1>a DEF NewKv, Moving
  <2> QED BY <1>b, <1>11, <2>1, <2>2
<1>13. CASE NewKvGc \/ NewKvFull
  <2>1. pc = "new" /\ mv = "no" /\ UNCHANGED flash /\ pc' \in {"gc", "idle", "nextDef"}
    BY <1>13, <1>a DEF NewKvGc, NewKvFull, StartGc, EndOp, Moving
  <2> QED BY <1>c, <1>g, <1>j, <2>1 DEF Owed, Writing
<1>14. CASE MvAlloc
  <2>1. pc = "mvAlloc" /\ CanAlloc(old.rec.len) /\ UNCHANGED <<flash, mv>> /\ pc' \in {"delete", "status"}
    BY <1>14 DEF MvAlloc
  <2>2. CASE mv = "gc"
    BY <1>d, <1>f, <1>j, <2>1, <2>2
  <2>3. CASE mv # "gc" /\ pc' = "delete"
    BY <1>c, <1>g, <1>j, <2>1, <2>3 DEF Owed, Writing
  <2>4. CASE mv # "gc" /\ pc' = "status"
    <3>1. cur' = Allocated(old.rec.len, old.rec.key, old.rec.val)
      BY <1>14, <2>4 DEF MvAlloc
    <3>2. old.rec.len \in Nat
      BY DEF TypeInv, TypeOK, FrameType, OldType, Rec
    <3> QED BY <1>b, <1>11, <2>1, <2>4, <3>1, <3>2
  <2> QED BY <2>1, <2>2, <2>3, <2>4
<1>15. CASE MvFull
  <2>1. pc = "mvAlloc" /\ UNCHANGED flash /\ (pc' = "gcScan" \/ (pc' = "recEnd" /\ mv # "gc"))
    BY <1>15 DEF MvFull
  <2> QED BY <1>c, <1>d, <1>f, <1>g, <1>j, <2>1 DEF Owed, Writing
\* ... find_kv and del_kv ...
<1>16. CASE FindOld
  <2>1. pc = "find" /\ mv = "no" /\ UNCHANGED flash
    BY <1>16, <1>a DEF FindOld, Moving
  <2>2. \/ pc' \in {"preDel", "status"} /\ op.kind = "set" /\ UNCHANGED <<cur, mv>>
        \/ pc' \in {"delete", "idle"}
    BY <1>16 DEF FindOld, EndOp
  <2>3. pc' \in {"preDel", "status"} /\ cur'.store = STORE_EMPTY
          => \E s \in Sector : s # cur'.sec /\ Spare(s)'
    BY <1>e, <2>1, <2>2 DEF SpareInv, Owed, Writing, flash
  <2> QED BY <1>c, <1>g, <1>j, <2>1, <2>2, <2>3 DEF Owed, Writing
<1>17. CASE PreDelete \/ Delete \/ MarkDirty
  <2>1. /\ pc \in {"preDel", "delete", "preDirty", "delDirty"} /\ UNCHANGED <<magic, store, cur>>
        /\ \/ /\ pc \in {"preDel", "preDirty"} /\ pc' \in {"preDirty", "status", "mvAlloc"}
              /\ (pc' = "status" => mv = "no") /\ UNCHANGED mv
           \/ pc' = "delDirty" /\ UNCHANGED mv
           \/ mv = "gc" /\ pc' = "gcScan"
           \/ mv # "gc" /\ pc' \in {"recKv", "postGc"}
    BY <1>17 DEF PreDelete, Delete, MarkDirty, SetKvStatus, AfterPreDel, AfterDelete, frame
  <2>2. Loose => Loose'
    BY <1>17 DEF PreDelete, Delete, MarkDirty, SetKvStatus, Loose, TypeInv, TypeOK, FlashType,
                 WriteStatus, DIRTY_TRUE, DIRTY_GC
  <2>3. CASE mv = "gc"
    BY <1>d, <1>e, <1>f, <2>1, <2>2, <2>3
  <2>4. CASE mv # "gc"
    <3>1. SomeSpare'
      BY <1>e, <1>g, <2>1, <2>4
    <3>2. Owed' /\ ~Writing' /\ cur'.store = STORE_EMPTY => \E s \in Sector : s # cur'.sec /\ Spare(s)'
      BY <1>e, <2>1, <2>4 DEF SpareInv, Owed, Writing
    <3> QED BY <1>c, <2>1, <3>1, <3>2
  <2> QED BY <2>3, <2>4
\* ... the record, whose sector is no longer spare ...
<1>18. CASE UpdateSecStatus
  <2>1. /\ pc = "status" /\ pc' = "preWrite" /\ UNCHANGED <<magic, dirty, gc, mv>>
        /\ \A s \in Sector : s # cur.sec => store'[s] = store[s]
    BY <1>18 DEF UpdateSecStatus, TypeInv, TypeOK, FlashType
  <2>2. CASE mv = "gc"
    <3>1. Loose'
      BY <2>1, <2>2, VictimType DEF VictimInv, InVictim, Loose
    <3> QED BY <1>d, <2>1, <2>2, <3>1
  <2>3. CASE mv # "gc"
    <3>1. cur.store = store[cur.sec]
      BY <2>1 DEF LengthInv, Owed, Writing
    <3>2. \E s \in Sector : s # cur.sec /\ Spare(s)
      BY <1>g, <2>1, <2>3, <3>1 DEF SpareInv, SomeSpare, Spare, Owed, Writing
    <3>3. SomeSpare'
      BY <2>1, <3>2 DEF SomeSpare, Spare
    <3> QED BY <1>c, <2>1, <3>3 DEF Owed, Writing
  <2> QED BY <2>2, <2>3
<1>19. CASE PreWrite \/ WriteMagic \/ WriteHdr \/ WriteBody \/ Commit
  <2>1. /\ pc \in {"preWrite", "magic", "header", "body", "commit"} /\ UNCHANGED <<magic, store, dirty, mv>>
        /\ \/ pc' \in {"magic", "header", "body", "commit"}
           \/ pc' \in {"delete", "postGc", "nextDef"}
    BY <1>19 DEF PreWrite, WriteMagic, WriteHdr, WriteBody, Commit, frame
  <2>2. Loose => Loose'
    BY <2>1 DEF Loose
  <2>3. CASE mv = "gc"
    BY <1>d, <1>e, <1>f, <2>1, <2>2, <2>3
  <2>4. CASE mv # "gc"
    BY <1>c, <1>e, <1>g, <2>1, <2>4 DEF Owed, Writing
  <2> QED BY <2>3, <2>4
<1>20. CASE PostGc
  <2>1. pc = "postGc" /\ mv = "no" /\ UNCHANGED flash /\ pc' \in {"gc", "idle"}
    BY <1>20, <1>a DEF PostGc, StartGc, EndOp, Moving
  <2> QED BY <1>c, <1>g, <1>j, <2>1 DEF Owed, Writing
\* ... the collection, which ends with a spare sector ...
<1>21. ASSUME GcReturn, mv = "no", SomeSpare' PROVE SpareInv'
  <2>1. pc' \in {"idle", "new", "recGc", "retry"}
    BY <1>21 DEF GcReturn, EndOp, TypeInv, TypeOK, FrameType, GcType
  <2> QED BY <1>c, <1>21, <2>1 DEF Owed, Writing
<1>22. CASE GcBegin
  <2>1. pc = "gc" /\ mv = "no" /\ UNCHANGED flash /\ secCache' = FillCache(secCache, oldest, Sector)
    BY <1>22, <1>a DEF GcBegin, Moving
  <2>2. CacheOk(secCache) /\ ~InVictim
    BY <1>b, <2>1 DEF InVictim
  <2>3. CASE Cardinality(EmptySecs) > GcThreshold
    <3>1. SomeSpare
      BY <2>2, <2>3, AnotherEmpty, EmptySpare DEF SomeSpare
    <3>2. GcReturn
      BY <1>22, <2>3 DEF GcBegin
    <3> QED BY <1>21, <1>j, <2>1, <3>1, <3>2
  <2>4. CASE ~(Cardinality(EmptySecs) > GcThreshold)
    <3>1. pc' = "gcVisit" /\ gc'.n = 0 /\ gc'.base \in Sector /\ UNCHANGED mv
      BY <1>22, <2>4 DEF GcBegin, TypeInv, TypeOK, FrameType, GcType
    <3>2. CASE SomeSpare
      BY <1>c, <1>j, <2>1, <3>1, <3>2 DEF Owed, Writing
    <3>3. CASE ~SomeSpare
      <4>1. PICK s \in Sector : HdrInfo(s).dirty \in {DIRTY_TRUE, DIRTY_GC}
        BY <2>1, <3>3 DEF SpareInv
      <4>2. HdrInfo(s)' = HdrInfo(s)
        BY <2>1, HdrInfoKept
      <4>3. Rank(gc'.base, s) >= 0
        BY <3>1, RankType DEF Sector
      <4>4. GcVictims' # {}
        BY <3>1, <4>1, <4>2, <4>3 DEF GcVictims
      <4> QED BY <1>f, <1>j, <2>1, <3>1, <4>4 DEF SpareInv, Owed, Writing, Loose
    <3> QED BY <3>2, <3>3
  <2> QED BY <2>3, <2>4
<1>23. CASE GcVisit
  <2>1. Loose'
    BY <1>23, GcVisitForm DEF Loose
  <2>2. pc' = "gcScan"
    BY <1>23 DEF GcVisit
  <2> QED BY <1>d, <2>1, <2>2
<1>24. CASE GcDone
  <2>1. pc = "gcVisit" /\ mv = "no" /\ UNCHANGED flash /\ GcReturn /\ SomeSpare
    BY <1>24, <1>a DEF GcDone, Moving, SpareInv
  <2> QED BY <1>21, <1>j, <2>1
<1>25. CASE GcMove
  <2>1. UNCHANGED flash /\ mv' = "gc" /\ pc' \in {"preDel", "mvAlloc"}
    BY <1>25 DEF GcMove, Move
  <2> QED BY <1>d, <1>f, <1>j, <2>1
<1>26. CASE GcErase
  <2>1. EraseSector(Victim) /\ pc' = "gcFormat"
    BY <1>26 DEF GcErase
  <2> QED BY <1>d, <1>i, <2>1, VictimType
<1>27. CASE GcFormat
  <2>1. WriteSectorHdr(Victim) /\ pc' = "gcNext"
    BY <1>27 DEF GcFormat
  <2> QED BY <1>c, <1>h, <2>1, VictimType DEF Owed, Writing
<1>28. CASE GcNext
  <2>1. pc = "gcNext" /\ mv = "no" /\ UNCHANGED flash
    BY <1>28, <1>a DEF GcNext, Moving
  <2>2. SomeSpare'
    BY <1>g, <1>j, <2>1
  <2>3. GcReturn \/ pc' = "gcVisit"
    BY <1>28 DEF GcNext
  <2> QED BY <1>c, <1>21, <2>1, <2>2, <2>3 DEF Owed, Writing
\* ... and the calls.
<1>29. CASE Call /\ ~FindOldest
  <2>1. pc = "idle" /\ mv = "no" /\ UNCHANGED flash
        /\ (pc' \in {"new", "fmtErase", "idle", "down"} \/ (pc' = "find" /\ op'.kind = "del"))
    <3>1. ASSUME NEW k \in Key, NEW v \in Val, Set(k, v)
          PROVE  pc = "idle" /\ UNCHANGED flash /\ pc' = "new"
      BY <3>1 DEF Set
    <3>2. ASSUME NEW k \in Key, Del(k)
          PROVE  pc = "idle" /\ UNCHANGED flash /\ pc' = "find" /\ op'.kind = "del"
      BY <3>2 DEF Del, NoOp
    <3>3. ASSUME NEW k \in Key, Get(k) PROVE pc = "idle" /\ UNCHANGED flash /\ pc' = "idle"
      BY <3>3 DEF Get
    <3>4. CASE SetDefault \/ Deinit
      BY <3>4, <1>a DEF SetDefault, Deinit, Moving
    <3> QED BY <1>29, <1>a, <3>1, <3>2, <3>3, <3>4 DEF Call, Moving
  <2> QED BY <1>c, <1>g, <1>j, <2>1 DEF Owed, Writing
<1>30. CASE Crash
  <2>1. UNCHANGED flash /\ pc' = "off"
    BY <1>30 DEF Crash
  <2> QED BY <1>d, <1>f, <1>j, <2>1
<1>31. CASE UNCHANGED vars
  BY <1>31 DEF vars, flash, ram, frame, SpareInv, SomeSpare, Spare, Owed, Writing, GcMarked, GcVictims,
               HdrInfo, FlashInfo
<1> QED BY <1>1, <1>2, <1>3, <1>4, <1>5, <1>6, <1>7, <1>8, <1>9, <1>10, <1>12, <1>13, <1>14, <1>15,
           <1>16, <1>17, <1>18, <1>19, <1>20, <1>22, <1>23, <1>24, <1>25, <1>26, <1>27, <1>28, <1>29,
           <1>30, <1>31 DEF Next, Step, Load, Reset, New, DeleteKv, Write, MoveKv, Gc

-----------------------------------------------------------------------------
(* What follows *)

LEMMA SafeInit == Init => SafeInv
<1> SUFFICES ASSUME Init PROVE SafeInv
  OBVIOUS
<1> USE DEF Init
<1>1. FrameInv
  BY DEF FrameInv, NoGc, InGc, InVictim
<1>2. RequestInv
  BY DEF RequestInv, InGc, InVictim, NoCur
<1>3. LengthInv
  BY DEF LengthInv, RecsLong, Owed, Writing
<1>4. VictimInv
  BY DEF VictimInv, InVictim, Writing
<1>5. CacheInv
  BY DEF CacheInv, Told, FreeTold, Cached, NoInfo
<1>6. SpareInv
  <2>1. 0 \in Sector /\ ~magic[0]
    BY NothingType
  <2> QED BY <2>1 DEF SpareInv, Owed, Writing
<1> QED BY <1>1, <1>2, <1>3, <1>4, <1>5, <1>6 DEF SafeInv

LEMMA SafeStep == TypeInv /\ FullInv /\ SafeInv /\ [Next]_vars => SafeInv'
BY TypeStep, FrameStep, RequestStep, LengthStep, VictimStep, CacheStep, SpareStep DEF SafeInv

LEMMA SafeAlways == Spec => [](TypeInv /\ FullInv /\ SafeInv)
BY TypeInit, TypeStep, FullInit, FullStep, SafeInit, SafeStep, PTL DEF Spec

LEMMA SafeCoherent == SafeInv => CacheCoherent
<1> SUFFICES ASSUME SafeInv, pc = "idle", NEW s \in Sector, Cached(secCache, s)
             PROVE  /\ magic[s]
                    /\ secCache[s].store = store[s]
                    /\ secCache[s].dirty = dirty[s]
                    /\ secCache[s].empty \in {FailedAddr, Fill(store[s], recs[s])}
  BY DEF CacheCoherent, Idle
<1>1. ~InVictim /\ ~Writing /\ ~JustErased(s)
  BY DEF SafeInv, FrameInv, Moving, InVictim, Writing, JustErased
<1>2. Told(secCache, s) /\ FreeTold(secCache, s)
  BY <1>1 DEF SafeInv, CacheInv
<1> QED BY <1>1, <1>2 DEF Told, FreeTold

LEMMA SafeSpare == SafeInv => OneEmpty
<1> SUFFICES ASSUME SafeInv, pc = "idle" PROVE \E s \in Sector : store[s] = STORE_EMPTY
  BY DEF OneEmpty, Idle
<1>1. mv = "no"
  BY DEF SafeInv, FrameInv, Moving
<1>2. SomeSpare
  BY <1>1 DEF SafeInv, SpareInv
<1> QED BY <1>2 DEF SomeSpare, Spare

\* Between calls the sector cache says of every sector it holds what the flash
\* says (get_sector_from_cache, update_sector_cache), whatever was formatted,
\* collected or cut short by a loss of power before.
THEOREM CacheTellsFlash == Spec => []CacheCoherent
BY SafeCoherent, SafeAlways, PTL

\* move_kv never allocates the copy in the sector do_gc is about to erase: the
\* victim keeps its mark, and alloc_kv_cb takes no sector so marked.
THEOREM VictimLeft == Spec => []MoveLeavesVictim
<1>1. SafeInv => MoveLeavesVictim
  BY DEF SafeInv, VictimInv, Writing, MoveLeavesVictim
<1> QED BY <1>1, SafeAlways, PTL

\* Between calls an empty sector is left for the next collection (alloc_kv,
\* fdb_kvdb.c "there is at least one empty sector for GC"), after any number
\* of power losses, in the middle of a collection too.
THEOREM EmptyLeft == Spec => []OneEmpty
BY SafeSpare, SafeAlways, PTL
=============================================================================
