----------------------------- MODULE KVMap_proofs -----------------------------
(***************************************************************************)
(* While no power is lost the KV database is a map: every name has one     *)
(* written record at most, reading finds it through the name cache and     *)
(* without it, a collection finds room for all that it has to keep, and    *)
(* the whole implements KVStore.tla.  For all values of the constants but  *)
(* MaxCrash, and for every table of defaults that names no name twice.     *)
(***************************************************************************)
EXTENDS KVCache_proofs

-----------------------------------------------------------------------------
(* The inductive invariant, on top of SafeInv *)

\* No power is lost, and no name is among the defaults twice.
Steady == /\ MaxCrash = 0
          /\ \A i, j \in DOMAIN Defaults : Defaults[i][1] = Defaults[j][1] => i = j

Adding    == {"magic", "header", "body", "commit"}
Replacing == {"preDirty", "mvAlloc", "status", "preWrite", "magic", "header", "body"}
Resetting == {"fmtErase", "fmtHdr", "nextDef"}
NoCall    == {"off", "down", "hdr", "recGc", "recKv", "recEnd", "idle"}

\* The record that is being written.
IsNew(s, i) == pc \in Adding /\ s = cur.sec /\ i = Len(recs[s])
\* The record that is being replaced, deleted or moved, and its status by now.
IsOld(s, i) == HasOld /\ s = old.sec /\ i = old.idx
OldStatus == IF pc = "preDel" \/ (pc = "delete" /\ mv = "no" /\ op.kind = "del") THEN KV_WRITE
             ELSE IF pc = "delDirty" THEN KV_DELETED ELSE KV_PRE_DELETE

\* A name has a record that find_kv accepts; it has one with the value v.
Held(k) == \E s \in Sector : \E i \in DOMAIN recs[s] :
              recs[s][i].key = k /\ recs[s][i].st = KV_WRITE
HeldAs(k, v) == \E s \in Sector : \E i \in DOMAIN recs[s] :
                   recs[s][i].key = k /\ recs[s][i].st = KV_WRITE /\ recs[s][i].val = v

\* Which call is under way at which step; recovery has nothing to do.
CallInv ==
    /\ op.kind = "none" <=> pc \in NoCall
    /\ pc \in Resetting => op.kind \in {"boot", "reset"}
    /\ pc \in {"find", "postGc"} => op.kind \in {"set", "del"}
    /\ pc = "new" \/ InGc => op.kind \in {"set", "boot", "reset"}
    /\ HasOld /\ mv = "no" =>
         op.kind = "set" \/ (op.kind = "del" /\ pc \in {"delete", "delDirty"})
    /\ Moving /\ ~HasOld => op.kind \in {"set", "boot", "reset"}
    /\ InGc => gc.then = "new"
    /\ mv # "rec" /\ pc # "retry" /\ (pc = "recEnd" => ~gcReq)
    /\ ack => pc = "idle"

\* Which sectors have records, and what the headers say of them.
SectorInv ==
    /\ \A s \in Sector : recs[s] # <<>> => magic[s] /\ store[s] = STORE_USING
    /\ \A s \in Sector : dirty[s] = DIRTY_GC => InVictim /\ s = Victim
    /\ \A s \in Sector : magic[s] /\ store[s] = STORE_EMPTY => dirty[s] = DIRTY_FALSE
    /\ Owed => /\ magic[cur.sec]
               /\ store[cur.sec] = STORE_USING \/ (~Writing /\ store[cur.sec] = STORE_EMPTY)
    /\ pc \in {"gc", "gcVisit"} => SomeSpare
    /\ pc = "gcFormat" => recs[Victim] = <<>>
    /\ pc = "hdr" => /\ scan.bad <= scan.n /\ scan.n <= SecNum
                     /\ scan.bad = scan.n =>
                          \A s \in Sector : Rank(scan.base, s) < scan.n => recs[s] = <<>>

\* What db->cur_kv, or the record move_kv works on, is.
OldInv ==
    /\ HasOld => Moving
    /\ pc \in {"preDel", "preDirty", "mvAlloc", "delete", "delDirty"} \/ mv # "no" => HasOld
    /\ HasOld => /\ old.idx \in DOMAIN recs[old.sec]
                 /\ recs[old.sec][old.idx] = [old.rec EXCEPT !.st = OldStatus]
                 /\ CrcOk(old.rec) /\ old.rec.st = KV_WRITE
                 /\ mv = "no" => old.rec.key = op.key
                 /\ mv = "gc" => old.sec = Victim /\ gc.idx = old.idx + 1
    /\ lastDel <=> HasOld /\ OldStatus = KV_PRE_DELETE

\* Every record is complete, but for the one that is being written; it is
\* marked PRE_DELETE only while it is the one that is being replaced.
RecordInv ==
    \A s \in Sector : \A i \in DOMAIN recs[s] :
        IF IsNew(s, i)
        THEN /\ recs[s][i].st = KV_PRE_WRITE
             /\ pc # "commit" => recs[s][i].key = NoKey
             /\ pc = "commit" => recs[s][i].key = cur.key /\ recs[s][i].val = cur.val
                                 /\ recs[s][i].len = cur.len
        ELSE /\ CrcOk(recs[s][i])
             /\ \/ recs[s][i].st \in {KV_WRITE, KV_DELETED}
                \/ recs[s][i].st = KV_PRE_DELETE /\ IsOld(s, i)

\* What is going to be written, and where.
CurInv ==
    /\ Owed \/ pc = "commit" =>
         IF mv = "no" THEN cur.key = op.key /\ cur.val = op.val /\ cur.key \in Key
         ELSE cur.key = old.rec.key /\ cur.val = old.rec.val /\ cur.len = old.rec.len
    /\ Owed => cur.at + cur.len + Threshold < Cap
    /\ Owed /\ pc \notin Adding => \A i \in DOMAIN recs[cur.sec] :
          recs[cur.sec][i].at + recs[cur.sec][i].len <= cur.at

\* The records of a sector lie one behind the other and leave the threshold.
PackInv ==
    \A s \in Sector : \A i \in DOMAIN recs[s] :
       /\ CrcOk(recs[s][i]) => recs[s][i].at + recs[s][i].len + Threshold < Cap
       /\ \A j \in DOMAIN recs[s] : i < j => recs[s][i].at + recs[s][i].len <= recs[s][j].at

\* Where free space begins in a sector, once the record under way is written.
FreeFrom(s) == IF Owed /\ mv # "no" /\ s = cur.sec THEN cur.at + cur.len
               ELSE Fill(store[s], recs[s])
\* do_gc has still to copy the record i of its victim.
Uncopied(i) == /\ Live(recs[Victim][i])
               /\ i >= gc.idx \/ (IsOld(Victim, i) /\ pc \in {"preDel", "preDirty", "mvAlloc"})
\* What the walk has passed is garbage, but for the record it moves; and a
\* sector takes what is left, each record where it is now or before that.
TakesAll(t) == /\ t # Victim /\ magic[t] /\ dirty[t] = DIRTY_FALSE
               /\ store[t] \in {STORE_EMPTY, STORE_USING}
               /\ \A i \in DOMAIN recs[Victim] :
                     Uncopied(i) => FreeFrom(t) <= recs[Victim][i].at
RoomInv ==
    InVictim =>
        /\ \A i \in DOMAIN recs[Victim] :
             i < gc.idx /\ Live(recs[Victim][i]) => mv = "gc" /\ IsOld(Victim, i)
        /\ \E t \in Sector : TakesAll(t)
        /\ pc = "commit" => cur.sec # Victim

\* A name has one written record at most, and none while it is replaced.
OneWritten ==
    \A s, t \in Sector : \A i \in DOMAIN recs[s], j \in DOMAIN recs[t] :
       recs[s][i].st = KV_WRITE /\ recs[t][j].st = KV_WRITE /\ recs[s][i].key = recs[t][j].key
       => s = t /\ i = j
HeldInv ==
    /\ HasOld /\ (pc \in Replacing \/ pc = "commit") => ~Held(old.rec.key)
    /\ ~HasOld /\ (pc \in {"status", "preWrite"} \/ pc \in Adding) => ~Held(op.key)
    /\ pc = "delete" /\ mv = "gc" => HeldAs(old.rec.key, old.rec.val)
    /\ pc \in {"delete", "delDirty", "postGc"} /\ mv = "no" =>
         IF op.kind = "set" THEN HeldAs(op.key, op.val)
         ELSE pc \in {"delDirty", "postGc"} => ~Held(op.key)
UniqueInv == OneWritten /\ HeldInv

\* fdb_kv_set_default: what is erased by now, and that no default has a record
\* before it is written.
DefaultInv ==
    /\ pc \in {"fmtErase", "fmtHdr"} =>
         /\ op.i = 0
         /\ \A s \in Sector : s < scan.n \/ op.kind = "boot" => recs[s] = <<>>
         /\ pc = "fmtHdr" => recs[scan.n] = <<>>
    /\ op.kind \in {"boot", "reset"} /\ pc \notin Resetting =>
         op.i \in DOMAIN Defaults /\ op.key = Defaults[op.i][1] /\ op.val = Defaults[op.i][2]
    /\ op.kind \in {"boot", "reset"} /\ pc \notin {"fmtErase", "fmtHdr"} =>
         /\ op.i <= Len(Defaults)
         /\ \A j \in DOMAIN Defaults : j > op.i \/ (j = op.i /\ pc # "nextDef") =>
              \A s \in Sector : \A i \in DOMAIN recs[s] :
                 recs[s][i].key = Defaults[j][1] => j = op.i /\ mv = "no" /\ IsNew(s, i)

\* The name cache leads to the written record, or to none with that name.
NameInv ==
    \A k \in Key : \A a \in CacheHits(k) :
        \/ RecAt(a).st = KV_WRITE
        \/ pc = "commit" /\ IsNew(a[1], a[2])
        \/ pc \in Replacing /\ IsOld(a[1], a[2])

MapInv == CallInv /\ SectorInv /\ OldInv /\ RecordInv /\ CurInv /\ PackInv /\ RoomInv
          /\ UniqueInv /\ DefaultInv /\ NameInv

-----------------------------------------------------------------------------
(* What the writes do to the records *)

\* The record i of sector s is the only one that changes.
OnlyAt(s, i) ==
    /\ \A t \in Sector : DOMAIN recs'[t] = DOMAIN recs[t] /\ Len(recs'[t]) = Len(recs[t])
    /\ \A t \in Sector : \A j \in DOMAIN recs[t] : t # s \/ j # i => recs'[t][j] = recs[t][j]

LEMMA PutEffect ==
    ASSUME TypeInv, NEW s \in Sector, NEW i \in DOMAIN recs[s], NEW r,
           recs' = [recs EXCEPT ![s] = [recs[s] EXCEPT ![i] = r]]
    PROVE  OnlyAt(s, i) /\ recs'[s][i] = r
<1> DEFINE q == [recs[s] EXCEPT ![i] = r]
<1>1. recs \in [Sector -> Seq(Rec)] /\ recs[s] \in Seq(Rec)
  BY DEF TypeInv, TypeOK, FlashType
<1>2. DOMAIN q = DOMAIN recs[s] /\ Len(q) = Len(recs[s]) /\ q[i] = r
      /\ \A j \in DOMAIN recs[s] : j # i => q[j] = recs[s][j]
  BY <1>1
<1> HIDE DEF q
<1>3. recs' = [recs EXCEPT ![s] = q]
  BY DEF q
<1>4. \A t \in Sector : recs'[t] = IF t = s THEN q ELSE recs[t]
  BY <1>1, <1>3
<1>5. OnlyAt(s, i)
  BY <1>2, <1>4 DEF OnlyAt
<1> QED BY <1>2, <1>4, <1>5

LEMMA SetKvEffect ==
    ASSUME TypeInv, NEW s \in Sector, NEW i \in DOMAIN recs[s], NEW st, SetKvStatus(s, i, st)
    PROVE  /\ OnlyAt(s, i)
           /\ recs'[s][i] = [recs[s][i] EXCEPT !.st = WriteStatus(recs[s][i].st, st)]
<1> DEFINE r == [recs[s][i] EXCEPT !.st = WriteStatus(@, st)]
<1>1. recs' = [recs EXCEPT ![s] = [recs[s] EXCEPT ![i] = r]]
  BY DEF SetKvStatus
<1> HIDE DEF r
<1>2. OnlyAt(s, i) /\ recs'[s][i] = r
  BY <1>1, PutEffect
<1> QED BY <1>2 DEF r

LEMMA LastRecEffect ==
    ASSUME TypeInv, recs[cur.sec] # <<>>, NEW r, LastRec(r)
    PROVE  LET n == Len(recs[cur.sec]) IN
           /\ cur.sec \in Sector /\ n \in DOMAIN recs[cur.sec]
           /\ OnlyAt(cur.sec, n) /\ recs'[cur.sec][n] = r
<1> DEFINE n == Len(recs[cur.sec])
<1>1. cur.sec \in Sector /\ recs[cur.sec] \in Seq(Rec)
  BY DEF TypeInv, TypeOK, FlashType, FrameType, CurType
<1>2. n \in DOMAIN recs[cur.sec]
  BY <1>1
<1>3. recs' = [recs EXCEPT ![cur.sec] = [recs[cur.sec] EXCEPT ![n] = r]]
  BY DEF LastRec
<1> HIDE DEF n
<1>4. OnlyAt(cur.sec, n) /\ recs'[cur.sec][n] = r
  BY <1>1, <1>2, <1>3, PutEffect
<1> QED BY <1>1, <1>2, <1>4 DEF n

\* The status byte of a new record was written behind the others.
Blank == [at |-> cur.at, len |-> GapLen, st |-> KV_PRE_WRITE, key |-> NoKey, val |-> NoVal]
LEMMA AppendEffect ==
    ASSUME TypeInv, PreWrite
    PROVE  LET s == cur.sec
               n == Len(recs[s]) + 1
           IN /\ s \in Sector /\ n \in Nat
              /\ DOMAIN recs'[s] = DOMAIN recs[s] \cup {n} /\ Len(recs'[s]) = n
              /\ \A j \in DOMAIN recs[s] : j \in Nat /\ j < n /\ recs'[s][j] = recs[s][j]
              /\ recs'[s][n] = Blank
              /\ \A t \in Sector : t # s => recs'[t] = recs[t]
<1> DEFINE s == cur.sec
           n == Len(recs[s]) + 1
           q == Append(recs[s], Blank)
<1>1. s \in Sector /\ recs \in [Sector -> Seq(Rec)] /\ recs[s] \in Seq(Rec)
  BY DEF TypeInv, TypeOK, FlashType, FrameType, CurType
<1>2. recs' = [recs EXCEPT ![s] = q]
  BY DEF PreWrite, Blank
<1>3. /\ n \in Nat /\ DOMAIN q = DOMAIN recs[s] \cup {n} /\ Len(q) = n
      /\ \A j \in DOMAIN recs[s] : j \in Nat /\ j < n /\ q[j] = recs[s][j]
      /\ q[n] = Blank
  BY <1>1
<1> HIDE DEF q
<1>4. recs'[s] = q /\ \A t \in Sector : t # s => recs'[t] = recs[t]
  BY <1>1, <1>2
<1> QED BY <1>1, <1>3, <1>4

\* A sector without a record stays as it is when it is erased or formatted.
LEMMA EraseEffect ==
    ASSUME TypeInv, NEW s \in Sector, EraseSector(s) \/ WriteSectorHdr(s)
    PROVE  /\ recs'[s] = <<>> /\ \A t \in Sector : t # s => recs'[t] = recs[t]
           /\ recs[s] = <<>> => recs' = recs
<1>1. recs \in [Sector -> Seq(Rec)] /\ recs' = [recs EXCEPT ![s] = <<>>]
  BY DEF TypeInv, TypeOK, FlashType, EraseSector, WriteSectorHdr
<1>2. recs[s] = <<>> => recs' = recs
  BY <1>1
<1> QED BY <1>1, <1>2
-----------------------------------------------------------------------------
(* What never happens without a loss of power *)

Base == TypeInv /\ FullInv /\ SafeInv

LEMMA Quietly ==
    ASSUME Base, OldInv
    PROVE  /\ ~Moving => mv = "no" /\ ~HasOld
           /\ pc = "gcScan" => mv = "no" /\ ~HasOld
           /\ ~Writing /\ pc \notin {"fmtHdr", "gcFormat"} => CacheOk(secCache)
BY CalmCache DEF Base, SafeInv, FrameInv, OldInv, Moving

\* InfoTold, for the sectors besides the victim of a collection.
LEMMA InfoToldAt ==
    ASSUME CacheOk(secCache), NEW s \in Sector, ~InVictim \/ s # Victim, magic[s]
    PROVE  /\ HdrInfo(s).store = store[s] /\ HdrInfo(s).dirty = dirty[s]
           /\ FullInfo(s).store = store[s] /\ FullInfo(s).dirty = dirty[s]
           /\ FullInfo(s).empty = Fill(store[s], recs[s])
BY DEF CacheOk, Told, FreeTold, HdrInfo, FullInfo, FlashInfo, Cached

\* The sector that takes all has room for the next record move_kv allocates.
LEMMA MoveFits ==
    ASSUME Base, CallInv, OldInv, PackInv, RoomInv, pc = "mvAlloc"
    PROVE  mv = "gc" /\ CanAlloc(old.rec.len)
<1>1. mv = "gc" /\ InVictim /\ gcReq /\ HasOld
  BY DEF Base, TypeInv, TypeOK, FrameType, SafeInv, FrameInv, RequestInv, CallInv, OldInv, InVictim, InGc
<1>2. PICK t \in Sector : TakesAll(t)
  BY <1>1 DEF RoomInv
<1> DEFINE i == old.idx
           r == recs[Victim][i]
<1>3. /\ Victim \in Sector /\ old.sec = Victim /\ i \in DOMAIN recs[Victim]
      /\ r = [old.rec EXCEPT !.st = OldStatus] /\ OldStatus = KV_PRE_DELETE
      /\ CrcOk(old.rec) /\ old.rec \in Rec
  BY <1>1, VictimType DEF OldInv, OldStatus, Base, TypeInv, TypeOK, FrameType, OldType
<1>4. r.at = old.rec.at /\ r.len = old.rec.len /\ CrcOk(r) /\ r.st = KV_PRE_DELETE
      /\ r.at \in Nat /\ r.len \in Nat
  BY <1>3 DEF Rec, CrcOk
<1>5. r.at + r.len + Threshold < Cap
  BY <1>3, <1>4 DEF PackInv
<1>6. Fill(store[t], recs[t]) <= r.at
  <2>1. Uncopied(i)
    BY <1>1, <1>3, <1>4 DEF Uncopied, IsOld, Live
  <2>2. FreeFrom(t) = Fill(store[t], recs[t])
    BY <1>1 DEF FreeFrom, Owed, Writing
  <2> QED BY <1>2, <1>3, <2>1, <2>2 DEF TakesAll
<1>7. CacheOk(secCache)
  BY Quietly DEF Writing
<1>8. t # Victim /\ magic[t] /\ dirty[t] = DIRTY_FALSE /\ store[t] \in {STORE_EMPTY, STORE_USING}
  BY <1>2 DEF TakesAll
<1>9. Fits(t, old.rec.len)
  <2>1. /\ FullInfo(t).store \in {STORE_EMPTY, STORE_USING} /\ FullInfo(t).dirty = DIRTY_FALSE
        /\ FullInfo(t).empty = Fill(store[t], recs[t])
    BY <1>7, <1>8, InfoToldAt
  <2>2. Fill(store[t], recs[t]) \in Nat
    BY FillType DEF Base, TypeInv, TypeOK, FlashType
  <2>3. Remain(t) = Cap - Fill(store[t], recs[t])
    BY <2>1 DEF Remain
  <2>4. Remain(t) > old.rec.len + Threshold
    BY <1>4, <1>5, <1>6, <2>2, <2>3, LenAssumption
  <2> QED BY <2>1, <2>4 DEF Fits
<1>10. HdrInfo(t).store = store[t]
  BY <1>7, <1>8, InfoToldAt
<1>11. CASE store[t] = STORE_USING
  BY <1>1, <1>9, <1>10, <1>11 DEF CanAlloc, UsingFit, UsingSecs
<1>12. CASE store[t] = STORE_EMPTY
  BY <1>1, <1>9, <1>10, <1>12 DEF CanAlloc, EmptyFit, EmptySecs, MayUseEmpty
<1> QED BY <1>1, <1>8, <1>11, <1>12

LEMMA Never ==
    ASSUME Steady, Base, MapInv
    PROVE  ~Crash /\ ~ResumeGc /\ ~RecoverKv /\ ~LoadRetry /\ ~MvFull
<1>1. ~Crash
  BY DEF Steady, Crash, Base, TypeInv, TypeOK, FrameType
<1>2. ASSUME ResumeGc PROVE FALSE
  <2>1. pc = "recGc" /\ ~InVictim /\ CacheOk(secCache)
    BY <1>2, Quietly DEF ResumeGc, MapInv, Moving, InVictim, Writing
  <2>2. PICK s \in Sector : HdrInfo(s).dirty = DIRTY_GC
    BY <1>2 DEF ResumeGc, GcMarked
  <2>3. dirty[s] = DIRTY_GC
    BY <2>1, <2>2, InfoTold DEF NoInfo, DIRTY_GC, DIRTY_UNUSED
  <2> QED BY <2>1, <2>3 DEF MapInv, SectorInv
<1>3. ASSUME RecoverKv PROVE FALSE
  <2>1. PICK s \in Sector, i \in Nat : Recovers(s, i)
    BY <1>3, RecoverKvForm DEF Base
  <2>2. pc = "recKv" /\ ~HasOld
    BY <1>3, Quietly DEF RecoverKv, MapInv, Moving
  <2>3. i \in DOMAIN recs[s] /\ Unfinished(recs[s][i])
    BY <2>1 DEF Recovers
  <2>4. recs[s][i].st \in {KV_WRITE, KV_DELETED}
    BY <2>2, <2>3 DEF MapInv, RecordInv, IsNew, IsOld, Adding
  <2> QED BY <2>3, <2>4 DEF Unfinished, KV_WRITE, KV_DELETED, KV_PRE_WRITE, KV_PRE_DELETE
<1>4. ~LoadRetry
  BY DEF LoadRetry, MapInv, CallInv
<1>5. ~MvFull
  BY MoveFits DEF MvFull, MapInv
<1> QED BY <1>1, <1>2, <1>3, <1>4, <1>5
-----------------------------------------------------------------------------
(* The steps that leave the records alone, and the others *)

Booting == FindOldest \/ CheckHdr \/ HdrDone \/ ResumeGcDone \/ RecoverKvDone \/ LoadEnd
Filling == FmtHdr \/ NextDefault \/ DefaultsDone
Collecting == GcBegin \/ GcVisit \/ GcDone \/ GcMove \/ GcFormat \/ GcNext
Calling == \/ \E k \in Key, v \in Val : Set(k, v)
           \/ \E k \in Key : Del(k) \/ Get(k)
           \/ SetDefault \/ Deinit
Quiet == Booting \/ Filling \/ Collecting \/ Calling \/ New \/ FindOld \/ MarkDirty
         \/ UpdateSecStatus \/ MvAlloc \/ PostGc
Loud == PreDelete \/ Delete \/ PreWrite \/ WriteMagic \/ WriteHdr \/ WriteBody \/ Commit
        \/ FmtErase \/ GcErase

LEMMA StepCases ==
    ASSUME Steady, Base, MapInv, Next
    PROVE  Quiet \/ Loud
<1>1. ~Crash /\ ~ResumeGc /\ ~RecoverKv /\ ~LoadRetry /\ ~MvFull
  BY Never
<1> QED BY <1>1 DEF Next, Step, Load, Reset, DeleteKv, Write, MoveKv, Gc, Call,
                    Quiet, Loud, Booting, Filling, Collecting, Calling

LEMMA QuietRecs ==
    ASSUME Base, SectorInv, DefaultInv, Quiet
    PROVE  recs' = recs /\ pc \notin Adding /\ pc' \notin Adding
<1> USE DEF Adding
<1>1. CASE CheckHdr
  <2> DEFINE s == FirstFrom(scan.base, BadHeaders)
  <2>1. UNCHANGED flash \/ WriteSectorHdr(s)
    BY <1>1 DEF CheckHdr
  <2>2. s \in Sector /\ ~magic[s]
    <3>1. scan.base \in Sector /\ BadHeaders \in SUBSET Sector /\ BadHeaders # {}
      BY <1>1 DEF CheckHdr, BadHeaders, Base, TypeInv, TypeOK, FrameType, ScanType
    <3>2. s \in BadHeaders
      BY <3>1, FirstFromLeast
    <3> QED BY <3>2 DEF BadHeaders
  <2>3. recs[s] = <<>>
    BY <2>2 DEF SectorInv
  <2> HIDE DEF s
  <2>4. recs' = recs
    BY <2>1, <2>2, <2>3, EraseEffect DEF flash, Base
  <2>5. pc = "hdr" /\ pc' \in {"hdr", "down"}
    BY <1>1 DEF CheckHdr
  <2> QED BY <2>4, <2>5
<1>2. CASE FmtHdr
  <2>1. scan.n \in Sector /\ recs[scan.n] = <<>> /\ WriteSectorHdr(scan.n)
    BY <1>2 DEF FmtHdr, DefaultInv, Base, SafeInv, FrameInv
  <2>2. recs' = recs
    BY <2>1, EraseEffect DEF Base
  <2> QED BY <1>2, <2>2 DEF FmtHdr
<1>3. CASE GcFormat
  <2>1. Victim \in Sector /\ recs[Victim] = <<>> /\ WriteSectorHdr(Victim)
    BY <1>3, VictimType DEF GcFormat, SectorInv, Base
  <2>2. recs' = recs
    BY <2>1, EraseEffect DEF Base
  <2> QED BY <1>3, <2>2 DEF GcFormat
<1>4. CASE FindOldest \/ HdrDone \/ ResumeGcDone \/ RecoverKvDone \/ LoadEnd
  BY <1>4 DEF FindOldest, HdrDone, ResumeGcDone, RecoverKvDone, LoadEnd, flash
<1>5. CASE NextDefault \/ DefaultsDone \/ New
  BY <1>5 DEF NextDefault, DefaultsDone, New, NewKv, NewKvGc, NewKvFull, StartGc, EndOp, flash
<1>6. CASE GcBegin \/ GcVisit \/ GcDone \/ GcNext
  <2>1. GcReturn => pc' \in {"idle", "new", "recGc", "retry"}
    BY DEF GcReturn, EndOp, Base, TypeInv, TypeOK, FrameType, GcType
  <2> QED BY <1>6, <2>1 DEF GcBegin, GcVisit, GcDone, GcNext, flash
<1>7. CASE GcMove
  BY <1>7 DEF GcMove, Move, flash
<1>8. CASE Calling
  BY <1>8 DEF Calling, Set, Del, Get, SetDefault, Deinit, flash
<1>9. CASE FindOld \/ MarkDirty \/ UpdateSecStatus \/ MvAlloc \/ PostGc
  BY <1>9 DEF FindOld, MarkDirty, UpdateSecStatus, MvAlloc, PostGc, AfterPreDel, AfterDelete,
              StartGc, EndOp, flash
<1> QED BY <1>1, <1>2, <1>3, <1>4, <1>5, <1>6, <1>7, <1>8, <1>9 DEF Quiet, Booting, Filling, Collecting
-----------------------------------------------------------------------------
(* find_kv, and which record a move takes *)

LEMMA HitForm ==
    ASSUME Base, NEW k \in Key, NEW a \in CacheHits(k)
    PROVE  /\ a[1] \in Sector /\ a[2] \in DOMAIN recs[a[1]] /\ a = <<a[1], a[2]>>
           /\ recs[a[1]][a[2]] = RecAt(a) /\ RecAt(a) \in Rec /\ RecAt(a).key = k
           /\ kvCache[k] = <<a[1], RecAt(a).at>>
<1>1. kvCache[k] # NoAddr /\ kvCache[k] \in Addr
  BY DEF CacheHits, Base, TypeInv, TypeOK, RamType
<1>2. PICK i \in DOMAIN recs[kvCache[k][1]] :
         a = <<kvCache[k][1], i>> /\ recs[kvCache[k][1]][i].at = kvCache[k][2]
         /\ recs[kvCache[k][1]][i].key = k
  BY <1>1 DEF CacheHits
<1>3. kvCache[k][1] \in Sector /\ kvCache[k] = <<kvCache[k][1], kvCache[k][2]>>
  BY <1>1 DEF Addr
<1>4. a[1] = kvCache[k][1] /\ a[2] = i
  BY <1>2
<1> QED BY <1>2, <1>3, <1>4, RecTyped DEF RecAt, Base, TypeInv, TypeOK

LEMMA WrittenForm ==
    ASSUME Base, NEW k, NEW a \in Written(k)
    PROVE  /\ a[1] \in Sector /\ a[2] \in DOMAIN recs[a[1]] /\ a = <<a[1], a[2]>>
           /\ recs[a[1]][a[2]] = RecAt(a) /\ RecAt(a) \in Rec
           /\ RecAt(a).key = k /\ RecAt(a).st = KV_WRITE
<1>1. a \in UNION {{s} \X DOMAIN recs[s] : s \in Sector} /\ recs[a[1]][a[2]].key = k
      /\ recs[a[1]][a[2]].st = KV_WRITE
  BY DEF Written
<1>2. a \in Sector \X Nat /\ a[2] \in DOMAIN recs[a[1]] /\ recs[a[1]][a[2]] \in Rec
  BY <1>1, PairIn DEF Base, TypeInv, TypeOK
<1> QED BY <1>1, <1>2 DEF RecAt

\* No record that find_kv_cb accepts escapes find_kv_no_cache.
LEMMA WrittenAll ==
    ASSUME Base, SectorInv, CacheOk(secCache), ~InVictim, NEW s \in Sector, NEW i \in DOMAIN recs[s],
           recs[s][i].st = KV_WRITE
    PROVE  <<s, i>> \in Written(recs[s][i].key)
<1>1. recs[s] # <<>>
  BY DEF Base, TypeInv, TypeOK, FlashType
<1>2. HdrInfo(s).store = STORE_USING
  BY <1>1, InfoToldAt DEF SectorInv
<1>3. <<s, i>> \in UNION {{t} \X DOMAIN recs[t] : t \in Sector}
  OBVIOUS
<1> QED BY <1>2, <1>3 DEF Written

LEMMA FindForm ==
    ASSUME Base, OldInv, NameInv, pc \in {"idle", "find"}, NEW k \in Key, Found(k)
    PROVE  LET a == Find(k) IN
           /\ a[1] \in Sector /\ a[2] \in DOMAIN recs[a[1]] /\ a = <<a[1], a[2]>>
           /\ recs[a[1]][a[2]] = RecAt(a) /\ RecAt(a) \in Rec
           /\ RecAt(a).key = k /\ RecAt(a).st = KV_WRITE
<1>1. CASE CacheHits(k) # {}
  <2>1. Find(k) \in CacheHits(k)
    BY <1>1 DEF Find
  <2>2. RecAt(Find(k)).st = KV_WRITE
    BY <2>1 DEF NameInv, Replacing
  <2> QED BY <2>1, <2>2, HitForm
<1>2. CASE CacheHits(k) = {}
  <2>1. Written(k) # {} /\ Find(k) = FirstOf(oldest, Written(k))
    BY <1>2 DEF Found, Find
  <2>2. Written(k) \in SUBSET (Sector \X Nat)
    BY PairIn DEF Written, Base, TypeInv, TypeOK
  <2>3. Find(k) \in Written(k)
    BY <2>1, <2>2, FirstOfIn DEF Base, TypeInv, TypeOK, RamType
  <2> QED BY <2>3, WrittenForm
<1> QED BY <1>1, <1>2

\* The call finds the record i of sector s and goes on with it.
Finds(s, i) ==
    /\ i \in DOMAIN recs[s] /\ recs[s][i] \in Rec
    /\ recs[s][i].key = op.key /\ recs[s][i].st = KV_WRITE
    /\ old' = [sec |-> s, idx |-> i, rec |-> recs[s][i]]
    /\ pc' = IF op.kind = "set" THEN "preDel" ELSE "delete"
    /\ UNCHANGED <<op, ack, cur, mv, gc>>
FindsNothing ==
    /\ ~Held(op.key)
    /\ IF op.kind = "set" THEN pc' = "status" /\ UNCHANGED <<op, ack, cur, old, mv, gc>>
       ELSE EndOp(FALSE)

LEMMA FindOldForm ==
    ASSUME Base, SectorInv, OldInv, NameInv, FindOld
    PROVE  /\ op.key \in Key /\ op.kind \in {"set", "del"}
           /\ FindsNothing \/ \E s \in Sector, i \in Nat : Finds(s, i)
<1>1. op.key \in Key /\ op.kind \in {"set", "del"} /\ pc = "find"
  BY DEF FindOld, Base, TypeInv, Named
<1>2. ASSUME Found(op.key) PROVE \E s \in Sector, i \in Nat : Finds(s, i)
  <2> DEFINE a == Find(op.key)
  <2>1. /\ a[1] \in Sector /\ a[2] \in DOMAIN recs[a[1]] /\ recs[a[1]][a[2]] \in Rec
        /\ recs[a[1]][a[2]].key = op.key /\ recs[a[1]][a[2]].st = KV_WRITE
    BY <1>1, <1>2, FindForm
  <2>2. a[2] \in Nat
    BY <2>1, RecTyped DEF Base, TypeInv, TypeOK
  <2>3. /\ old' = [sec |-> a[1], idx |-> a[2], rec |-> recs[a[1]][a[2]]]
        /\ pc' = IF op.kind = "set" THEN "preDel" ELSE "delete"
        /\ UNCHANGED <<op, ack, cur, mv, gc>>
    BY <1>2 DEF FindOld
  <2> HIDE DEF a
  <2>4. Finds(a[1], a[2])
    BY <2>1, <2>3 DEF Finds
  <2> QED BY <2>1, <2>2, <2>4
<1>3. ASSUME ~Found(op.key) PROVE FindsNothing
  <2>1. Written(op.key) = {}
    BY <1>3 DEF Found
  <2>2. CacheOk(secCache) /\ ~InVictim
    BY <1>1, Quietly DEF Moving, Writing, InVictim
  <2>3. ~Held(op.key)
    BY <2>1, <2>2, WrittenAll DEF Held
  <2> QED BY <1>3, <2>3 DEF FindOld, FindsNothing
<1> QED BY <1>1, <1>2, <1>3

\* do_gc takes the record i of its victim.
Takes(i) ==
    /\ i \in DOMAIN recs[Victim] /\ recs[Victim][i] \in Rec
    /\ i >= gc.idx /\ CrcOk(recs[Victim][i]) /\ recs[Victim][i].st = KV_WRITE
    /\ \A j \in DOMAIN recs[Victim] : j >= gc.idx /\ Live(recs[Victim][j]) => i <= j
    /\ old' = [sec |-> Victim, idx |-> i, rec |-> recs[Victim][i]]
    /\ gc' = [gc EXCEPT !.idx = i + 1]
    /\ mv' = "gc" /\ pc' = "preDel"
LEMMA GcMoveForm ==
    ASSUME Base, OldInv, RecordInv, GcMove
    PROVE  Victim \in Sector /\ \E i \in Nat : Takes(i)
<1> DEFINE i == Min(ToMove)
<1>1. Victim \in Sector /\ recs[Victim] \in Seq(Rec) /\ pc = "gcScan" /\ ~HasOld
  BY VictimType, Quietly DEF GcMove, Base, TypeInv, TypeOK, FlashType
<1>2. ToMove \in SUBSET Nat /\ ToMove # {}
  BY <1>1 DEF ToMove, GcMove
<1>3. i \in ToMove /\ \A j \in ToMove : i <= j
  <2>1. PICK m \in ToMove : \A j \in ToMove : m <= j
    BY <1>2, LeastNat
  <2> QED BY <2>1 DEF Min
<1>4. i \in DOMAIN recs[Victim] /\ i >= gc.idx /\ Live(recs[Victim][i]) /\ i \in Nat
  BY <1>2, <1>3 DEF ToMove
<1> HIDE DEF i
<1>5. recs[Victim][i].st = KV_WRITE
  BY <1>1, <1>4 DEF RecordInv, IsNew, IsOld, Adding, Live, KV_DELETED, KV_WRITE, KV_PRE_DELETE
<1>6. \A j \in DOMAIN recs[Victim] : j >= gc.idx /\ Live(recs[Victim][j]) => i <= j
  BY <1>3 DEF ToMove
<1>7. Move("gc", Victim, i) /\ gc' = [gc EXCEPT !.idx = i + 1]
  BY DEF GcMove, i
<1>8. recs[Victim][i] \in Rec
  BY <1>1, <1>4
<1>9. Takes(i)
  BY <1>4, <1>5, <1>6, <1>7, <1>8 DEF Takes, Move, Live
<1> QED BY <1>1, <1>4, <1>9
-----------------------------------------------------------------------------
(* Which call is under way, and the record it works on *)

LEMMA EndCall ==
    ASSUME NEW ok, EndOp(ok)
    PROVE  /\ ~HasOld' /\ pc' = "idle" /\ mv' = "no" /\ op' = NoOp /\ ~InGc' /\ ~Moving'
           /\ CallInv'
<1>1. pc' = "idle" /\ mv' = "no" /\ op' = NoOp /\ old' = NoOld
  BY DEF EndOp
<1>2. ~HasOld' /\ ~InGc' /\ ~Moving'
  BY <1>1 DEF NoOld, HasOld, InGc, InVictim, Moving
<1> QED BY <1>1, <1>2 DEF CallInv, NoCall, Resetting, NoOp

\* A collection returns to new_kv.
LEMMA GcReturnForm ==
    ASSUME Base, CallInv, OldInv, GcReturn, pc \in {"gc", "gcVisit", "gcNext"}
    PROVE  /\ pc' = "new" /\ gc' = NoGc /\ gcReq' = FALSE /\ mv = "no" /\ ~HasOld
           /\ UNCHANGED <<op, ack, cur, old, mv>>
<1>1. gc.then = "new" /\ mv = "no" /\ ~HasOld
  BY Quietly DEF CallInv, InGc, Moving
<1> QED BY <1>1 DEF GcReturn

LEMMA CallStep ==
    ASSUME Steady, Base, MapInv, Next
    PROVE  CallInv'
<1> CallInv /\ OldInv /\ SectorInv /\ RecordInv /\ NameInv
  BY DEF MapInv
<1>a. Quiet \/ Loud
  BY StepCases
<1>b. /\ ~Moving => mv = "no" /\ ~HasOld
      /\ pc = "gcScan" => mv = "no" /\ ~HasOld
      /\ gcReq => InGc \/ pc = "recEnd"
  BY Quietly DEF Base, SafeInv, RequestInv
<1>c. /\ \/ mv = "no" /\ AfterDelete = "postGc"
         \/ mv = "gc" /\ AfterDelete = "gcScan"
      /\ NoOld.rec = NoRec
  <2>1. mv \in {"no", "gc"}
    BY DEF CallInv, Base, TypeInv, TypeOK, FrameType
  <2>2. CASE mv = "no"
    BY <2>2 DEF AfterDelete, NoOld
  <2>3. CASE mv = "gc"
    BY <2>3 DEF AfterDelete, NoOld
  <2> QED BY <2>1, <2>2, <2>3
<1> USE DEF CallInv, InGc, InVictim, Moving, HasOld, NoCall, Resetting
<1>1. CASE Booting
  BY <1>1, <1>b DEF Booting, FindOldest, CheckHdr, HdrDone, ResumeGcDone, RecoverKvDone, LoadEnd,
                    NoOp, frame
<1>2. CASE FmtHdr \/ NextDefault
  <2>1. CASE FmtHdr
    BY <2>1, <1>b DEF FmtHdr
  <2>2. CASE NextDefault
    <3>1. op'.kind = op.kind
      BY <2>2 DEF NextDefault, Base, TypeInv, TypeOK, FrameType, OpType
    <3> QED BY <2>2, <3>1, <1>b DEF NextDefault
  <2> QED BY <1>2, <2>1, <2>2
<1>3. CASE DefaultsDone
  <2>1. CASE op.kind = "reset"
    BY <1>3, <2>1, EndCall DEF DefaultsDone
  <2>2. CASE op.kind # "reset"
    BY <1>3, <2>2, <1>b DEF DefaultsDone, NoOp
  <2> QED BY <2>1, <2>2
<1>4. CASE GcBegin \/ GcDone \/ GcNext
  <2>1. CASE GcReturn
    <3>1. /\ pc' = "new" /\ mv = "no" /\ ~HasOld /\ UNCHANGED <<op, ack, cur, old, mv>>
      BY <1>4, <2>1, GcReturnForm DEF GcBegin, GcDone, GcNext
    <3> QED BY <1>4, <3>1 DEF GcBegin, GcDone, GcNext
  <2>2. CASE ~GcReturn
    <3>1. gc'.then = gc.then
      BY <1>4, <2>2 DEF GcBegin, GcDone, GcNext, Base, TypeInv, TypeOK, FrameType, GcType
    <3> QED BY <1>4, <1>b, <2>2, <3>1 DEF GcBegin, GcDone, GcNext
  <2> QED BY <2>1, <2>2
<1>5. CASE GcVisit \/ GcFormat \/ GcErase
  <2>1. gc'.then = gc.then
    BY <1>5 DEF GcVisit, GcFormat, GcErase, frame, Base, TypeInv, TypeOK, FrameType, GcType
  <2> QED BY <1>5, <1>b, <2>1 DEF GcVisit, GcFormat, GcErase, frame
<1>6. CASE GcMove
  <2>1. PICK i \in Nat : Takes(i)
    BY <1>6, GcMoveForm
  <2>2. gc'.then = gc.then /\ old'.rec # NoRec /\ mv' = "gc" /\ pc' = "preDel"
    BY <2>1 DEF Takes, CrcOk, NoRec, Base, TypeInv, TypeOK, FrameType, GcType
  <2>3. UNCHANGED <<op, ack>> /\ pc = "gcScan"
    BY <1>6 DEF GcMove
  <2> QED BY <2>2, <2>3
<1>7. CASE Calling
  BY <1>7, <1>b DEF Calling, Set, Del, Get, SetDefault, Deinit, NoOp, frame, ram
<1>8. CASE NewKv
  BY <1>8, <1>b DEF NewKv
<1>9. CASE NewKvGc
  BY <1>9, <1>b DEF NewKvGc, StartGc, Base, TypeInv, TypeOK, FrameType, OpType
<1>10. CASE NewKvFull
  <2>1. CASE op.kind = "set"
    BY <1>10, <2>1, EndCall DEF NewKvFull
  <2>2. CASE op.kind # "set"
    BY <1>10, <2>2, <1>b DEF NewKvFull
  <2> QED BY <2>1, <2>2
<1>11. CASE FindOld
  <2>1. pc = "find" /\ op.kind \in {"set", "del"} /\ op.key \in Key
    BY <1>11, FindOldForm DEF FindOld
  <2>2. CASE FindsNothing /\ op.kind = "del"
    BY <2>2, EndCall DEF FindsNothing
  <2>3. CASE FindsNothing /\ op.kind = "set"
    BY <1>b, <2>1, <2>3 DEF FindsNothing
  <2>4. ASSUME NEW s \in Sector, NEW i \in Nat, Finds(s, i) PROVE CallInv'
    <3>1. old'.rec # NoRec
      BY <2>1, <2>4, KeyAssumption DEF Finds, NoRec
    <3> QED BY <1>b, <2>1, <2>4, <3>1 DEF Finds
  <2> QED BY <1>11, <2>1, <2>2, <2>3, <2>4, FindOldForm
<1>12. CASE MarkDirty
  BY <1>12, <1>c DEF MarkDirty, AfterPreDel, OldInv
<1>13. CASE UpdateSecStatus \/ MvAlloc
  BY <1>13 DEF UpdateSecStatus, MvAlloc
<1>14. CASE PostGc
  <2>1. EndOp(TRUE)
    BY <1>14, <1>b DEF PostGc
  <2> QED BY <2>1, EndCall
<1>15. CASE PreDelete
  BY <1>15 DEF PreDelete, AfterPreDel, frame
<1>16. CASE Delete
  BY <1>16, <1>c DEF Delete, OldInv
<1>17. CASE PreWrite \/ WriteMagic \/ WriteHdr \/ WriteBody
  BY <1>17 DEF PreWrite, WriteMagic, WriteHdr, WriteBody, frame
<1>18. CASE Commit
  BY <1>18 DEF Commit, OldInv
<1>19. CASE FmtErase
  BY <1>19, <1>b DEF FmtErase, frame
<1> QED BY <1>a, <1>1, <1>2, <1>3, <1>4, <1>5, <1>6, <1>7, <1>8, <1>9, <1>10, <1>11, <1>12, <1>13, <1>14,
           <1>15, <1>16, <1>17, <1>18, <1>19 DEF Quiet, Loud, Filling, Collecting, New
LEMMA OldNone ==
    ASSUME ~HasOld', mv' = "no", lastDel' = FALSE,
           pc' \notin {"preDel", "preDirty", "mvAlloc", "delete", "delDirty"}
    PROVE  OldInv'
BY DEF OldInv

LEMMA OldKept ==
    ASSUME Base, OldInv, HasOld, Moving', OldStatus' = OldStatus, UNCHANGED <<old, mv, op, gc, lastDel>>,
           recs'[old.sec][old.idx] = recs[old.sec][old.idx], DOMAIN recs[old.sec] \subseteq DOMAIN recs'[old.sec]
    PROVE  OldInv'
<1>1. HasOld' /\ Victim' = Victim
  BY DEF HasOld, Victim
<1> QED BY <1>1 DEF OldInv

\* The old record is not the one that is being written.
LEMMA OldNotNew ==
    ASSUME Base, OldInv, RecordInv, HasOld, pc \in Adding \cup {"preWrite", "status"}
    PROVE  OldStatus = KV_PRE_DELETE /\ old.idx \in DOMAIN recs[old.sec] /\ ~IsNew(old.sec, old.idx)
<1>1. OldStatus = KV_PRE_DELETE
  BY DEF OldStatus, Adding
<1>2. /\ old.sec \in Sector /\ old.idx \in DOMAIN recs[old.sec] /\ old.rec \in Rec
      /\ recs[old.sec][old.idx] = [old.rec EXCEPT !.st = OldStatus]
  BY DEF OldInv, Base, TypeInv, TypeOK, FrameType, OldType
<1>3. recs[old.sec][old.idx].st = KV_PRE_DELETE
  BY <1>1, <1>2 DEF Rec
<1>4. ASSUME IsNew(old.sec, old.idx) PROVE recs[old.sec][old.idx].st = KV_PRE_WRITE
  BY <1>2, <1>4 DEF RecordInv
<1> QED BY <1>1, <1>2, <1>3, <1>4 DEF KV_PRE_DELETE, KV_PRE_WRITE

\* What a step of the writer changes, and that the old record stays.
LEMMA WriterEffect ==
    ASSUME Base, LengthInv, WriteMagic \/ WriteHdr \/ WriteBody \/ Commit
    PROVE  LET s == cur.sec
               n == Len(recs[s])
           IN /\ s \in Sector /\ n \in DOMAIN recs[s] /\ recs[s] # <<>> /\ IsNew(s, n)
              /\ recs[s][n] \in Rec /\ recs[s][n].at = cur.at /\ OnlyAt(s, n)
              /\ recs'[s][n] = CASE pc = "magic" -> [recs[s][n] EXCEPT !.len = HdrLen]
                                 [] pc = "header" -> [recs[s][n] EXCEPT !.len = cur.len]
                                 [] pc = "body" -> [recs[s][n] EXCEPT !.key = cur.key, !.val = cur.val]
                                 [] pc = "commit" -> [recs[s][n] EXCEPT
                                      !.st = WriteStatus(recs[s][n].st, KV_WRITE)]
<1> DEFINE s == cur.sec
           n == Len(recs[s])
<1>1. pc \in {"magic", "header", "body", "commit"}
  BY DEF WriteMagic, WriteHdr, WriteBody, Commit
<1>2. recs[s] # <<>> /\ CurRec.at = cur.at /\ CurRec = recs[s][n]
  BY <1>1 DEF LengthInv, CurRec
<1>3. s \in Sector /\ recs[s] \in Seq(Rec) /\ n \in DOMAIN recs[s] /\ recs[s][n] \in Rec
  BY <1>2 DEF Base, TypeInv, TypeOK, FlashType, FrameType, CurType
<1>4. IsNew(s, n)
  BY <1>1 DEF IsNew, Adding
<1>5. CASE WriteMagic
  <2>1. pc = "magic" /\ LastRec([CurRec EXCEPT !.len = HdrLen])
    BY <1>5 DEF WriteMagic
  <2> QED BY <1>2, <1>3, <1>4, <2>1, LastRecEffect DEF Base
<1>6. CASE WriteHdr
  <2>1. pc = "header" /\ LastRec([CurRec EXCEPT !.len = cur.len])
    BY <1>6 DEF WriteHdr
  <2> QED BY <1>2, <1>3, <1>4, <2>1, LastRecEffect DEF Base
<1>7. CASE WriteBody
  <2>1. pc = "body" /\ LastRec([CurRec EXCEPT !.key = cur.key, !.val = cur.val])
    BY <1>7 DEF WriteBody
  <2> QED BY <1>2, <1>3, <1>4, <2>1, LastRecEffect DEF Base
<1>8. CASE Commit
  <2>1. pc = "commit" /\ LastRec([CurRec EXCEPT !.st = WriteStatus(@, KV_WRITE)])
    BY <1>8 DEF Commit
  <2> QED BY <1>2, <1>3, <1>4, <2>1, LastRecEffect DEF Base
<1> QED BY <1>5, <1>6, <1>7, <1>8

\* del_kv sets the status of the old record.
LEMMA OldEffect ==
    ASSUME Base, OldInv, PreDelete \/ Delete
    PROVE  LET s == old.sec
               i == old.idx
           IN /\ HasOld /\ s \in Sector /\ i \in DOMAIN recs[s] /\ old.rec \in Rec
              /\ recs[s][i] = [old.rec EXCEPT !.st = OldStatus] /\ CrcOk(old.rec) /\ OnlyAt(s, i)
              /\ PreDelete => /\ OldStatus = KV_WRITE
                              /\ recs'[s][i] = [old.rec EXCEPT !.st = KV_PRE_DELETE]
              /\ Delete => /\ OldStatus \in {KV_WRITE, KV_PRE_DELETE}
                           /\ recs'[s][i] = [old.rec EXCEPT !.st = KV_DELETED]
<1> DEFINE s == old.sec
           i == old.idx
<1>1. pc \in {"preDel", "delete"} /\ HasOld
  BY DEF PreDelete, Delete, OldInv
<1>2. /\ s \in Sector /\ i \in DOMAIN recs[s] /\ old.rec \in Rec /\ CrcOk(old.rec)
      /\ recs[s][i] = [old.rec EXCEPT !.st = OldStatus]
  BY <1>1 DEF OldInv, Base, TypeInv, TypeOK, FrameType, OldType
<1>3. recs[s][i].st = OldStatus
  BY <1>2 DEF Rec
<1>a. ASSUME NEW st, SetKvStatus(s, i, st)
      PROVE  OnlyAt(s, i) /\ recs'[s][i] = [recs[s][i] EXCEPT !.st = WriteStatus(recs[s][i].st, st)]
  <2>1. TypeInv /\ s \in Sector /\ i \in DOMAIN recs[s] /\ SetKvStatus(s, i, st)
    BY <1>2, <1>a DEF Base
  <2> HIDE DEF s, i
  <2> QED BY <2>1, SetKvEffect
<1>4. CASE PreDelete
  <2>1. pc = "preDel" /\ SetKvStatus(s, i, KV_PRE_DELETE)
    BY <1>4 DEF PreDelete
  <2>2. OldStatus = KV_WRITE /\ WriteStatus(OldStatus, KV_PRE_DELETE) = KV_PRE_DELETE
    BY <2>1 DEF OldStatus, WriteStatus, KV_WRITE, KV_PRE_DELETE
  <2>3. /\ OnlyAt(s, i)
        /\ recs'[s][i] = [recs[s][i] EXCEPT !.st = WriteStatus(recs[s][i].st, KV_PRE_DELETE)]
    BY <1>a, <2>1
  <2>4. ~Delete
    BY <2>1 DEF Delete
  <2> QED BY <1>1, <1>2, <1>3, <2>2, <2>3, <2>4
<1>5. CASE Delete
  <2>1. pc = "delete" /\ SetKvStatus(s, i, KV_DELETED)
    BY <1>5 DEF Delete
  <2>2. OldStatus \in {KV_WRITE, KV_PRE_DELETE} /\ WriteStatus(OldStatus, KV_DELETED) = KV_DELETED
    BY <2>1 DEF OldStatus, WriteStatus, KV_WRITE, KV_PRE_DELETE, KV_DELETED
  <2>3. /\ OnlyAt(s, i)
        /\ recs'[s][i] = [recs[s][i] EXCEPT !.st = WriteStatus(recs[s][i].st, KV_DELETED)]
    BY <1>a, <2>1
  <2>4. ~PreDelete
    BY <2>1 DEF PreDelete
  <2> QED BY <1>1, <1>2, <1>3, <2>2, <2>3, <2>4
<1> QED BY <1>4, <1>5
LEMMA OldStep ==
    ASSUME Steady, Base, MapInv, Next
    PROVE  OldInv'
<1> /\ CallInv /\ OldInv /\ SectorInv /\ RecordInv /\ NameInv /\ DefaultInv
  BY DEF MapInv
<1>a. Quiet \/ Loud
  BY StepCases
<1>b. /\ ~Moving => mv = "no" /\ ~HasOld
      /\ pc = "gcScan" => mv = "no" /\ ~HasOld
      /\ gcReq => InGc \/ pc = "recEnd"
      /\ ~HasOld => lastDel = FALSE
      /\ NoOld.rec = NoRec
  <2>1. lastDel \in BOOLEAN
    BY DEF Base, TypeInv, TypeOK, RamType
  <2> QED BY <2>1, Quietly DEF Base, SafeInv, RequestInv, OldInv, NoOld
<1>q. Quiet => recs' = recs
  BY QuietRecs
\* Outside set_kv, fdb_kv_del and move_kv there is no old record, before or after.
<1>1. CASE Booting \/ Filling \/ Calling \/ New \/ PostGc \/ FmtErase
  <2>1. /\ ~Moving /\ (UNCHANGED old \/ old' = NoOld) /\ (UNCHANGED mv \/ mv' = "no") /\ UNCHANGED lastDel
        /\ pc' \notin {"preDel", "preDirty", "mvAlloc", "delete", "delDirty"}
    BY <1>1, <1>b DEF Booting, Filling, Calling, New, FindOldest, CheckHdr, HdrDone, ResumeGcDone,
            RecoverKvDone, LoadEnd, FmtHdr, NextDefault, DefaultsDone, Set, Del, Get, SetDefault,
            Deinit, NewKv, NewKvGc, NewKvFull, PostGc, FmtErase, StartGc, EndOp, frame, ram, Moving
  <2> QED BY <1>b, <2>1, OldNone DEF HasOld
<1>2. CASE GcBegin \/ GcVisit \/ GcDone \/ GcFormat \/ GcNext \/ GcErase
  <2>1. GcReturn /\ (GcBegin \/ GcDone \/ GcNext) => pc' = "new" /\ UNCHANGED <<old, mv>>
    BY GcReturnForm DEF GcBegin, GcDone, GcNext
  <2>2. /\ mv = "no" /\ ~HasOld /\ UNCHANGED <<old, mv, lastDel>>
        /\ pc' \notin {"preDel", "preDirty", "mvAlloc", "delete", "delDirty"}
    BY <1>2, <1>b, <2>1 DEF GcBegin, GcVisit, GcDone, GcFormat, GcNext, GcErase, frame, ram, Moving
  <2> QED BY <1>b, <2>2, OldNone DEF HasOld
\* A call or a collection has found the record.
<1>3. CASE FindOld
  <2>1. pc = "find" /\ op.kind \in {"set", "del"} /\ op.key \in Key /\ UNCHANGED lastDel
    BY <1>3, FindOldForm DEF FindOld
  <2>2. mv = "no" /\ ~HasOld /\ lastDel = FALSE
    BY <1>b, <2>1 DEF Moving
  <2>3. CASE FindsNothing
    <3>1. ~HasOld' /\ mv' = "no" /\ pc' \in {"idle", "status"}
      BY <2>1, <2>2, <2>3, <1>b DEF FindsNothing, EndOp, HasOld
    <3> QED BY <2>1, <2>2, <3>1, OldNone
  <2>4. ASSUME NEW s \in Sector, NEW i \in Nat, Finds(s, i) PROVE OldInv'
    <3>1. /\ old'.sec = s /\ old'.idx = i /\ old'.rec = recs[s][i] /\ i \in DOMAIN recs'[s]
          /\ recs'[s][i] = old'.rec
      BY <1>3, <1>q, <2>4 DEF Finds, Quiet
    <3>2. old'.rec.key = op.key /\ old'.rec.st = KV_WRITE /\ old'.rec \in Rec /\ UNCHANGED <<op, mv>>
          /\ pc' = IF op.kind = "set" THEN "preDel" ELSE "delete"
      BY <2>4, <3>1 DEF Finds
    <3>3. CrcOk(old'.rec) /\ old'.rec # NoRec
      BY <2>1, <3>2, KeyAssumption DEF CrcOk, NoRec
    <3>4. OldStatus' = KV_WRITE
      BY <2>1, <2>2, <3>2 DEF OldStatus
    <3>5. recs'[s][i] = [old'.rec EXCEPT !.st = KV_WRITE]
      BY <3>1, <3>2 DEF Rec
    <3> QED BY <2>1, <2>2, <3>1, <3>2, <3>3, <3>4, <3>5
            DEF OldInv, HasOld, CrcOk, Moving, KV_WRITE, KV_PRE_DELETE
  <2> QED BY <1>3, <2>3, <2>4, FindOldForm
<1>4. CASE GcMove
  <2>1. PICK i \in Nat : Takes(i)
    BY <1>4, GcMoveForm
  <2>2. /\ old'.sec = Victim /\ old'.idx = i /\ old'.rec = recs[Victim][i]
        /\ i \in DOMAIN recs'[Victim] /\ recs'[Victim][i] = old'.rec
    BY <1>4, <1>q, <2>1 DEF Takes, Quiet, Collecting
  <2>3. /\ CrcOk(old'.rec) /\ old'.rec.st = KV_WRITE /\ old'.rec \in Rec
        /\ mv' = "gc" /\ pc' = "preDel"
    BY <2>1, <2>2 DEF Takes
  <2>4. Victim' = Victim /\ gc'.idx = i + 1
    BY <2>1 DEF Takes, Victim, Base, TypeInv, TypeOK, FrameType, GcType
  <2>5. OldStatus' = KV_WRITE /\ old'.rec # NoRec
    BY <2>3 DEF OldStatus, CrcOk, NoRec
  <2>6. recs'[Victim][i] = [old'.rec EXCEPT !.st = KV_WRITE]
    BY <2>2, <2>3 DEF Rec
  <2>7. lastDel' = FALSE
    BY <1>4, <1>b DEF GcMove, ram
  <2> QED BY <2>2, <2>3, <2>4, <2>5, <2>6, <2>7
          DEF OldInv, HasOld, CrcOk, Moving, KV_WRITE, KV_PRE_DELETE
\* The record is marked, and marked as deleted in the end.
<1>5. CASE PreDelete
  <2>1. /\ HasOld /\ old.sec \in Sector /\ old.idx \in DOMAIN recs[old.sec] /\ OnlyAt(old.sec, old.idx)
        /\ recs'[old.sec][old.idx] = [old.rec EXCEPT !.st = KV_PRE_DELETE]
    BY <1>5, OldEffect
  <2>2. UNCHANGED <<op, old, mv, gc>> /\ lastDel' = TRUE
    BY <1>5 DEF PreDelete, frame
  <2>3. pc' \in {"preDirty", "status", "mvAlloc"}
    BY <1>5 DEF PreDelete, AfterPreDel
  <2>4. old.idx \in DOMAIN recs'[old.sec] /\ OldStatus' = KV_PRE_DELETE /\ HasOld' /\ Victim' = Victim
    BY <2>1, <2>2, <2>3 DEF OnlyAt, OldStatus, HasOld, Victim
  <2> QED BY <2>1, <2>2, <2>3, <2>4 DEF OldInv, Moving
<1>6. CASE Delete
  <2>1. /\ HasOld /\ old.sec \in Sector /\ old.idx \in DOMAIN recs[old.sec] /\ OnlyAt(old.sec, old.idx)
        /\ recs'[old.sec][old.idx] = [old.rec EXCEPT !.st = KV_DELETED]
    BY <1>6, OldEffect
  <2>2. UNCHANGED <<op, gc>> /\ lastDel' = FALSE
    BY <1>6 DEF Delete
  <2>3. CASE pc' = "delDirty"
    <3>1. UNCHANGED <<old, mv>>
      <4>1. AfterDelete # "delDirty"
        <5>1. mv \in {"no", "gc"}
          BY DEF CallInv, Base, TypeInv, TypeOK, FrameType
        <5> QED BY <5>1 DEF AfterDelete
      <4> QED BY <1>6, <2>3, <4>1 DEF Delete
    <3>2. old.idx \in DOMAIN recs'[old.sec] /\ OldStatus' = KV_DELETED /\ HasOld' /\ Victim' = Victim
      BY <2>1, <2>2, <2>3, <3>1 DEF OnlyAt, OldStatus, HasOld, Victim
    <3> QED BY <2>1, <2>2, <2>3, <3>1, <3>2 DEF OldInv, Moving, KV_DELETED, KV_PRE_DELETE
  <2>4. CASE pc' # "delDirty"
    <3>1. ~HasOld' /\ mv' = "no" /\ pc' = AfterDelete
      BY <1>6, <1>b, <2>4 DEF Delete, HasOld
    <3>2. AfterDelete \in {"gcScan", "postGc"}
      <4>1. mv \in {"no", "gc"}
        BY DEF CallInv, Base, TypeInv, TypeOK, FrameType
      <4> QED BY <4>1 DEF AfterDelete
    <3> QED BY <2>2, <3>1, <3>2, OldNone
  <2> QED BY <2>3, <2>4
<1>7. CASE MarkDirty
  <2>1. mv \in {"no", "gc"} /\ pc \in {"preDirty", "delDirty"} /\ HasOld
    BY <1>7 DEF MarkDirty, CallInv, OldInv, Base, TypeInv, TypeOK, FrameType
  <2>2. CASE pc = "preDirty"
    <3>1. UNCHANGED <<old, mv, op, gc, lastDel>> /\ pc' \in {"status", "mvAlloc"}
      BY <1>7, <2>2 DEF MarkDirty, AfterPreDel
    <3>2. OldStatus' = OldStatus
      BY <2>2, <3>1 DEF OldStatus
    <3> QED BY <1>7, <1>q, <2>1, <3>1, <3>2, OldKept DEF Moving, Quiet
  <2>3. CASE pc = "delDirty"
    <3>1. ~HasOld' /\ mv' = "no" /\ pc' = AfterDelete /\ UNCHANGED lastDel
      BY <1>7, <1>b, <2>3 DEF MarkDirty, HasOld
    <3>2. AfterDelete \in {"gcScan", "postGc"}
      BY <2>1 DEF AfterDelete
    <3>3. lastDel = FALSE
      <4>1. OldStatus # KV_PRE_DELETE /\ lastDel \in BOOLEAN
        BY <2>3 DEF OldStatus, KV_DELETED, KV_PRE_DELETE, Base, TypeInv, TypeOK, RamType
      <4> QED BY <4>1 DEF OldInv
    <3> QED BY <3>1, <3>2, <3>3, OldNone
  <2> QED BY <2>1, <2>2, <2>3
\* The new record is written somewhere else.
<1>8. CASE UpdateSecStatus \/ MvAlloc \/ PreWrite \/ WriteMagic \/ WriteHdr \/ WriteBody \/ Commit
  <2>1. /\ UNCHANGED <<old, mv, op, gc, lastDel>>
        /\ pc \in {"status", "mvAlloc", "preWrite", "magic", "header", "body", "commit"}
    BY <1>8 DEF UpdateSecStatus, MvAlloc, PreWrite, WriteMagic, WriteHdr, WriteBody, Commit, frame, ram
  <2>2. /\ HasOld => pc' \in {"status", "preWrite", "magic", "header", "body", "commit", "delete"}
        /\ ~HasOld => pc' \in {"status", "preWrite", "magic", "header", "body", "commit", "postGc", "nextDef"}
    <3>1. ~(inRec /\ old.rec.st = KV_PRE_DELETE /\ Written(old.rec.key) # {}) \/ ~HasOld
      BY DEF OldInv, KV_WRITE, KV_PRE_DELETE
    <3>2. MvAlloc => pc' = "status"
      BY <3>1 DEF OldInv, MvAlloc
    <3> QED BY <1>8, <3>2 DEF OldInv, UpdateSecStatus, PreWrite, WriteMagic, WriteHdr, WriteBody, Commit
  <2>3. CASE ~HasOld
    <3>1. ~HasOld' /\ mv = "no" /\ lastDel = FALSE
      BY <1>b, <2>1, <2>3 DEF HasOld, OldInv
    <3> QED BY <2>1, <2>2, <2>3, <3>1, OldNone
  <2>4. CASE HasOld
    <3>1. /\ pc' = "delete" => mv # "no" \/ op.kind # "del"
      BY <2>1, <2>4 DEF CallInv
    <3>2. OldStatus' = OldStatus /\ Moving'
      BY <2>1, <2>2, <2>4, <3>1 DEF OldStatus, Moving
    <3>3. recs'[old.sec][old.idx] = recs[old.sec][old.idx] /\ DOMAIN recs[old.sec] \subseteq DOMAIN recs'[old.sec]
      <4>1. old.sec \in Sector /\ old.idx \in DOMAIN recs[old.sec]
        BY <2>4 DEF OldInv, Base, TypeInv, TypeOK, FrameType, OldType
      <4>2. CASE UpdateSecStatus \/ MvAlloc
        BY <1>q, <4>2 DEF Quiet
      <4>3. CASE PreWrite
        BY <4>1, <4>3, AppendEffect DEF Base
      <4>4. CASE WriteMagic \/ WriteHdr \/ WriteBody \/ Commit
        <5>1. /\ cur.sec \in Sector /\ OnlyAt(cur.sec, Len(recs[cur.sec]))
              /\ IsNew(cur.sec, Len(recs[cur.sec]))
          BY <4>4, WriterEffect DEF Base, SafeInv
        <5>2. ~IsNew(old.sec, old.idx) /\ pc \in Adding
          BY <2>4, <5>1, OldNotNew DEF IsNew
        <5> QED BY <4>1, <5>1, <5>2 DEF OnlyAt, IsNew
      <4> QED BY <1>8, <4>2, <4>3, <4>4
    <3> QED BY <2>1, <2>4, <3>2, <3>3, OldKept
  <2> QED BY <2>3, <2>4
<1> QED BY <1>a, <1>1, <1>2, <1>3, <1>4, <1>5, <1>6, <1>7, <1>8 DEF Quiet, Loud, Collecting
-----------------------------------------------------------------------------
(* The sectors *)

\* Erasing or formatting sector s.
LEMMA SectorWritten ==
    ASSUME TypeInv, NEW s \in Sector, EraseSector(s) \/ WriteSectorHdr(s)
    PROVE  /\ recs'[s] = <<>> /\ dirty'[s] # DIRTY_GC
           /\ magic'[s] /\ store'[s] = STORE_EMPTY => dirty'[s] = DIRTY_FALSE
           /\ \A t \in Sector : t # s => /\ recs'[t] = recs[t] /\ magic'[t] = magic[t]
                                         /\ store'[t] = store[t] /\ dirty'[t] = dirty[t]
<1> magic \in [Sector -> BOOLEAN] /\ store \in [Sector -> Store] /\ dirty \in [Sector -> Dirty]
    /\ recs \in [Sector -> Seq(Rec)]
  BY DEF TypeInv, TypeOK, FlashType
<1>1. CASE EraseSector(s)
  BY <1>1 DEF EraseSector, DIRTY_UNUSED, DIRTY_GC, STORE_UNUSED, STORE_EMPTY
<1>2. CASE WriteSectorHdr(s)
  BY <1>2 DEF WriteSectorHdr, DIRTY_FALSE, DIRTY_GC
<1> QED BY <1>1, <1>2

\* update_sec_status leaves the sector USING.
LEMMA StatusUsing ==
    ASSUME Base, SectorInv, UpdateSecStatus
    PROVE  /\ cur.sec \in Sector /\ cur'.sec = cur.sec /\ store'[cur.sec] = STORE_USING /\ magic[cur.sec]
           /\ \A t \in Sector : t # cur.sec => store'[t] = store[t]
<1>1. /\ pc = "status" /\ Owed /\ ~Writing /\ store \in [Sector -> Store]
      /\ store' = [store EXCEPT ![cur.sec] = WriteStatus(@, SectorStatus)]
      /\ cur' = [cur EXCEPT !.full = (mv = "no" /\ SectorStatus = STORE_FULL)]
      /\ cur.sec \in Sector /\ cur \in CurType
  BY DEF UpdateSecStatus, Owed, Writing, Base, TypeInv, TypeOK, FlashType, FrameType, CurType
<1>2. /\ store[cur.sec] \in {STORE_USING, STORE_EMPTY} /\ magic[cur.sec] /\ cur.store = store[cur.sec]
  BY <1>1 DEF SectorInv, Base, SafeInv, LengthInv
<1>3. SectorStatus = STORE_USING
  <2>1. SectorStatus # STORE_FULL
    BY StatusNotFull DEF Base
  <2> QED BY <1>2, <2>1 DEF SectorStatus
<1>4. WriteStatus(store[cur.sec], SectorStatus) = STORE_USING
  BY <1>2, <1>3 DEF WriteStatus, STORE_USING, STORE_EMPTY
<1>5. store' = [store EXCEPT ![cur.sec] = STORE_USING]
  BY <1>1, <1>4
<1>6. cur'.sec = cur.sec
  BY <1>1 DEF CurType
<1> QED BY <1>1, <1>2, <1>5, <1>6

HeadersKept ==
    /\ \A s \in Sector : recs[s] # <<>> => magic[s] /\ store[s] = STORE_USING
    /\ \A s \in Sector : magic[s] /\ store[s] = STORE_EMPTY => dirty[s] = DIRTY_FALSE
    /\ \A s \in Sector : dirty[s] = DIRTY_GC => InVictim /\ s = Victim

LEMMA HeadersStep ==
    ASSUME Steady, Base, MapInv, Next
    PROVE  HeadersKept'
<1> CallInv /\ OldInv /\ SectorInv /\ RecordInv /\ DefaultInv /\ HeadersKept
  BY DEF MapInv, SectorInv, HeadersKept
<1>a. Quiet \/ Loud
  BY StepCases
<1>b. ~Moving => mv = "no" /\ ~HasOld
  BY Quietly
<1>c. FlashType /\ recs \in [Sector -> Seq(Rec)] /\ \A s \in Sector : recs[s] \in Seq(Rec)
  BY DEF Base, TypeInv, TypeOK, FlashType
\* Where a collection ends or starts no sector carries its mark.
<1>d. ~InVictim => \A s \in Sector : dirty[s] # DIRTY_GC
  BY DEF HeadersKept
<1>1. ASSUME UNCHANGED flash, ~InVictim \/ (InVictim' /\ Victim' = Victim) PROVE HeadersKept'
  BY <1>1, <1>d DEF HeadersKept, flash
\* A sector is erased or formatted.
<1>2. ASSUME NEW s \in Sector, EraseSector(s) \/ WriteSectorHdr(s), ~InVictim \/ s = Victim
      PROVE  HeadersKept'
  BY <1>2, <1>d, SectorWritten DEF HeadersKept, Base
\* Only what a record says changes.
<1>3. ASSUME UNCHANGED <<magic, store, dirty>>, ~InVictim \/ (InVictim' /\ Victim' = Victim),
             NEW s \in Sector, NEW i \in DOMAIN recs[s], OnlyAt(s, i)
      PROVE  HeadersKept'
  <2>1. recs[s] # <<>>
    BY <1>c
  <2>2. \A t \in Sector : recs'[t] # <<>> => t = s \/ recs[t] # <<>>
    <3> SUFFICES ASSUME NEW t \in Sector, recs[t] = <<>>, recs'[t] # <<>> PROVE FALSE
      BY <2>1
    <3>1. recs'[t] \in Seq(Rec) \/ ~TypeInv'
      BY DEF TypeInv, TypeOK, FlashType
    <3>2. TypeInv'
      BY TypeStep DEF Base
    <3>3. Len(recs'[t]) = 0
      BY <1>3 DEF OnlyAt
    <3> QED BY <3>1, <3>2, <3>3
  <2> QED BY <1>3, <1>d, <2>1, <2>2 DEF HeadersKept
<1>4. CASE FindOldest \/ HdrDone \/ ResumeGcDone \/ RecoverKvDone \/ LoadEnd \/ NextDefault
           \/ DefaultsDone \/ New \/ Calling \/ FindOld \/ PostGc
  <2>1. UNCHANGED flash /\ ~Moving /\ pc # "gcScan"
    BY <1>4 DEF FindOldest, HdrDone, ResumeGcDone, RecoverKvDone, LoadEnd, NextDefault, DefaultsDone,
            New, NewKv, NewKvGc, NewKvFull, Calling, Set, Del, Get, SetDefault, Deinit, FindOld, PostGc, Moving
  <2> QED BY <1>1, <1>b, <2>1 DEF InVictim
<1>5. CASE GcBegin \/ GcDone \/ GcNext
  <2>1. UNCHANGED flash /\ ~Moving /\ pc # "gcScan"
    BY <1>5 DEF GcBegin, GcDone, GcNext, Moving
  <2> QED BY <1>1, <1>b, <2>1 DEF InVictim
<1>6. CASE GcMove
  <2>1. UNCHANGED flash
    BY <1>6 DEF GcMove
  <2>2. PICK i \in Nat : Takes(i)
    BY <1>6, GcMoveForm
  <2>3. InVictim' /\ Victim' = Victim
    BY <2>2 DEF Takes, InVictim, Victim, Base, TypeInv, TypeOK, FrameType, GcType
  <2> QED BY <1>1, <2>1, <2>3
<1>7. CASE MvAlloc
  <2>1. UNCHANGED <<flash, mv, gc>> /\ mv = "gc"
    BY <1>7, MoveFits DEF MvAlloc, MapInv
  <2> QED BY <1>1, <2>1 DEF InVictim, Victim
<1>8. CASE CheckHdr
  <2>1. ~InVictim
    BY <1>8, <1>b DEF CheckHdr, Moving, InVictim
  <2> DEFINE s == FirstFrom(scan.base, BadHeaders)
  <2>2. UNCHANGED flash \/ WriteSectorHdr(s)
    BY <1>8 DEF CheckHdr
  <2>3. s \in Sector
    <3>1. scan.base \in Sector /\ BadHeaders \in SUBSET Sector /\ BadHeaders # {}
      BY <1>8 DEF CheckHdr, BadHeaders, Base, TypeInv, TypeOK, FrameType, ScanType
    <3>2. s \in BadHeaders
      BY <3>1, FirstFromLeast
    <3> QED BY <3>2 DEF BadHeaders
  <2> HIDE DEF s
  <2> QED BY <1>1, <1>2, <2>1, <2>2, <2>3
<1>9. CASE FmtErase \/ FmtHdr
  <2>1. ~InVictim
    BY <1>9, <1>b DEF FmtErase, FmtHdr, Moving, InVictim
  <2>2. scan.n \in Sector /\ (EraseSector(scan.n) \/ WriteSectorHdr(scan.n))
    BY <1>9 DEF FmtErase, FmtHdr, Base, SafeInv, FrameInv
  <2> QED BY <1>2, <2>1, <2>2
<1>10. CASE GcErase \/ GcFormat
  <2>1. Victim \in Sector /\ (EraseSector(Victim) \/ WriteSectorHdr(Victim))
    BY <1>10, VictimType DEF GcErase, GcFormat, Base
  <2> QED BY <1>2, <2>1
<1>11. CASE GcVisit
  <2> DEFINE v == FirstFrom(gc.base, GcVictims)
  <2>1. /\ v \in Sector /\ HdrInfo(v).dirty \in {DIRTY_TRUE, DIRTY_GC}
        /\ Victim' = v /\ dirty'[v] = DIRTY_GC /\ \A s \in Sector : s # v => dirty'[s] = dirty[s]
    BY <1>11, GcVisitForm DEF Base
  <2> HIDE DEF v
  <2>2. ~InVictim /\ CacheOk(secCache) /\ InVictim' /\ UNCHANGED <<magic, store, recs>>
    BY <1>11, <1>b, Quietly DEF GcVisit, Moving, InVictim, Writing
  <2>3. magic[v] /\ dirty[v] = HdrInfo(v).dirty
    BY <2>1, <2>2, InfoTold DEF NoInfo, DIRTY_UNUSED, DIRTY_TRUE, DIRTY_GC
  <2>4. store[v] # STORE_EMPTY
    BY <2>1, <2>3 DEF HeadersKept, DIRTY_FALSE, DIRTY_TRUE, DIRTY_GC
  <2> QED BY <1>d, <2>1, <2>2, <2>4 DEF HeadersKept
<1>12. CASE MarkDirty
  <2>1. /\ dirty' = [dirty EXCEPT ![old.sec] = WriteStatus(@, DIRTY_TRUE)] /\ HasOld
        /\ dirty[old.sec] = DIRTY_FALSE /\ old.sec \in Sector /\ old.idx \in DOMAIN recs[old.sec]
        /\ UNCHANGED <<magic, store, recs, gc>> /\ mv \in {"no", "gc"} /\ pc # "gcScan"
    BY <1>12 DEF MarkDirty, OldInv, CallInv, Base, SafeInv, VictimInv, TypeInv, TypeOK, FrameType, OldType
  <2>2. dirty'[old.sec] = DIRTY_TRUE /\ \A t \in Sector : t # old.sec => dirty'[t] = dirty[t]
    BY <1>c, <2>1 DEF WriteStatus, DIRTY_FALSE, DIRTY_TRUE, FlashType
  <2>3. ~InVictim
    <3>1. mv = "gc" => old.sec = Victim /\ dirty[Victim] = DIRTY_GC
      BY <2>1 DEF OldInv, Base, SafeInv, VictimInv, InVictim
    <3> QED BY <2>1, <3>1 DEF InVictim, DIRTY_FALSE, DIRTY_GC
  <2>4. store[old.sec] = STORE_USING
    <3>1. recs[old.sec] # <<>>
      BY <1>c, <2>1
    <3> QED BY <2>1, <3>1 DEF HeadersKept
  <2> QED BY <1>d, <2>1, <2>2, <2>3, <2>4 DEF HeadersKept, DIRTY_TRUE, DIRTY_GC, STORE_USING, STORE_EMPTY
<1>13. CASE UpdateSecStatus
  <2>1. UNCHANGED <<magic, dirty, recs, mv, gc>> /\ pc # "gcScan"
    BY <1>13 DEF UpdateSecStatus
  <2> QED BY <1>13, <2>1, StatusUsing DEF HeadersKept, InVictim, Victim, STORE_USING, STORE_EMPTY
<1>14. CASE PreWrite
  <2>1. UNCHANGED <<magic, store, dirty, mv, gc>> /\ pc # "gcScan" /\ Owed /\ Writing
    BY <1>14 DEF PreWrite, frame, Owed, Writing
  <2>2. magic[cur.sec] /\ store[cur.sec] = STORE_USING
    BY <2>1 DEF SectorInv
  <2> QED BY <1>14, <2>1, <2>2, AppendEffect DEF HeadersKept, InVictim, Victim, STORE_USING, STORE_EMPTY, Base
<1>15. CASE WriteMagic \/ WriteHdr \/ WriteBody \/ Commit
  <2>1. UNCHANGED <<magic, store, dirty, mv, gc>> /\ pc # "gcScan"
    BY <1>15 DEF WriteMagic, WriteHdr, WriteBody, Commit, frame
  <2>2. /\ cur.sec \in Sector /\ Len(recs[cur.sec]) \in DOMAIN recs[cur.sec]
        /\ OnlyAt(cur.sec, Len(recs[cur.sec]))
    BY <1>15, WriterEffect DEF Base, SafeInv
  <2> QED BY <1>3, <2>1, <2>2 DEF InVictim, Victim
<1>16. CASE PreDelete \/ Delete
  <2>1. UNCHANGED <<magic, store, dirty, gc>> /\ mv \in {"no", "gc"} /\ pc # "gcScan"
        /\ (mv' = mv \/ pc' = AfterDelete)
    BY <1>16 DEF PreDelete, Delete, SetKvStatus, frame, CallInv, Base, TypeInv, TypeOK, FrameType
  <2>2. mv = "gc" => AfterDelete = "gcScan"
    BY DEF AfterDelete
  <2>3. old.sec \in Sector /\ old.idx \in DOMAIN recs[old.sec] /\ OnlyAt(old.sec, old.idx)
    BY <1>16, OldEffect
  <2> QED BY <1>3, <2>1, <2>2, <2>3 DEF InVictim, Victim
<1> QED BY <1>a, <1>4, <1>5, <1>6, <1>7, <1>8, <1>9, <1>10, <1>11, <1>12, <1>13, <1>14, <1>15, <1>16
        DEF Quiet, Loud, Booting, Filling, Collecting
\* set_kv and move_kv write where alloc_kv said.
LEMMA PlaceStep ==
    ASSUME Steady, Base, MapInv, Next, Owed'
    PROVE  /\ magic'[cur'.sec]
           /\ store'[cur'.sec] = STORE_USING \/ (~Writing' /\ store'[cur'.sec] = STORE_EMPTY)
<1> CallInv /\ OldInv /\ SectorInv
  BY DEF MapInv
<1>a. Quiet \/ Loud
  BY StepCases
<1>b. /\ ~Moving => mv = "no" /\ ~HasOld
      /\ pc = "gcScan" => mv = "no"
      /\ gcReq => InGc \/ pc = "recEnd"
  BY Quietly DEF Base, SafeInv, RequestInv
<1> USE DEF Owed, Writing
<1>1. CASE NewKv
  <2>1. pc = "new" /\ CanAlloc(KvLen[op.val]) /\ UNCHANGED flash /\ pc' \in {"find", "status"}
        /\ cur' = Allocated(KvLen[op.val], op.key, op.val) /\ KvLen[op.val] \in Nat
    BY <1>1, KvLenType DEF NewKv, Base, TypeInv, TypeOK
  <2>2. CacheOk(secCache)
    BY <2>1, Quietly
  <2>3. cur'.sec = AllocSec(KvLen[op.val])
    BY <2>1 DEF Allocated
  <2> QED BY <2>1, <2>2, <2>3, AllocStore DEF Base, flash
<1>2. CASE MvAlloc
  <2>1. pc = "mvAlloc" /\ CanAlloc(old.rec.len) /\ UNCHANGED flash /\ HasOld /\ old.rec.len \in Nat
    BY <1>2 DEF MvAlloc, OldInv, Base, TypeInv, TypeOK, FrameType, OldType, Rec
  <2>2. pc' = "status" /\ cur' = Allocated(old.rec.len, old.rec.key, old.rec.val)
    BY <1>2, <2>1 DEF MvAlloc, OldInv, KV_WRITE, KV_PRE_DELETE
  <2>3. CacheOk(secCache)
    BY <2>1, Quietly
  <2>4. cur'.sec = AllocSec(old.rec.len)
    BY <2>2 DEF Allocated
  <2> QED BY <2>1, <2>2, <2>3, <2>4, AllocStore DEF Base, flash
<1>3. CASE UpdateSecStatus
  BY <1>3, StatusUsing DEF UpdateSecStatus, Base
<1>4. ASSUME Owed, UNCHANGED <<magic, store, cur>>, Writing' => Writing PROVE magic'[cur'.sec]
           /\ (store'[cur'.sec] = STORE_USING \/ (~Writing' /\ store'[cur'.sec] = STORE_EMPTY))
  BY <1>4 DEF SectorInv
<1>5. CASE FindOld
  <2>1. pc = "find" /\ UNCHANGED flash /\ op.kind \in {"set", "del"}
    BY <1>5, FindOldForm DEF FindOld, MapInv
  <2>2. CASE EndOp(FALSE)
    BY <2>2 DEF EndOp
  <2>3. CASE ~EndOp(FALSE)
    <3>1. UNCHANGED <<op, cur, mv>> /\ pc' \in {"preDel", "delete", "status"}
          /\ (pc' # "delete" => op.kind = "set")
      BY <1>5, <2>1, <2>3 DEF FindOld
    <3> QED BY <1>4, <1>b, <2>1, <3>1 DEF flash, Moving
  <2> QED BY <2>2, <2>3
<1>6. CASE PreDelete \/ MarkDirty \/ Delete
  <2>1. UNCHANGED <<magic, store, cur, op>> /\ mv \in {"no", "gc"}
        /\ pc \in {"preDel", "preDirty", "delete", "delDirty"}
    BY <1>6 DEF PreDelete, MarkDirty, Delete, SetKvStatus, frame, CallInv, Base, TypeInv, TypeOK, FrameType
  <2>2. \/ /\ pc \in {"preDel", "preDirty"} /\ pc' \in {"preDirty", "status", "mvAlloc"}
           /\ UNCHANGED mv
           /\ pc' = "status" => mv = "no"
        \/ pc' \in {"delDirty", "gcScan", "postGc"}
    <3>1. AfterDelete \in {"gcScan", "postGc"}
      BY <2>1 DEF AfterDelete
    <3> QED BY <1>6, <3>1 DEF PreDelete, MarkDirty, Delete, AfterPreDel, frame
  <2> QED BY <1>4, <2>1, <2>2
<1>7. CASE PreWrite \/ WriteMagic \/ WriteHdr \/ WriteBody \/ Commit
  BY <1>4, <1>7 DEF PreWrite, WriteMagic, WriteHdr, WriteBody, Commit, frame
<1>8. CASE Booting \/ Filling \/ NewKvGc \/ NewKvFull \/ PostGc \/ FmtErase
  BY <1>8, <1>b DEF Booting, Filling, FindOldest, CheckHdr, HdrDone, ResumeGcDone, RecoverKvDone, LoadEnd,
            FmtHdr, NextDefault, DefaultsDone, NewKvGc, NewKvFull, StartGc, EndOp, PostGc, FmtErase
<1>9. CASE Calling
  BY <1>9, <1>b DEF Calling, Set, Del, Get, SetDefault, Deinit, NoOp
<1>10. CASE Collecting \/ GcErase
  <2>1. GcReturn /\ (GcBegin \/ GcDone \/ GcNext) => pc' = "new"
    BY GcReturnForm DEF GcBegin, GcDone, GcNext
  <2>2. \/ pc' \in {"new", "gcVisit", "gcScan", "gcNext", "gcFormat"}
        \/ mv' = "gc" /\ pc' \in {"preDel", "mvAlloc"}
    BY <1>10, <2>1 DEF Collecting, GcErase, GcBegin, GcVisit, GcDone, GcMove, GcFormat, GcNext, Move
  <2> QED BY <2>2
<1> QED BY <1>a, <1>1, <1>2, <1>3, <1>5, <1>6, <1>7, <1>8, <1>9, <1>10 DEF Quiet, Loud, New

LEMMA SectorStep ==
    ASSUME Steady, Base, Base', MapInv, Next
    PROVE  SectorInv'
<1> CallInv /\ OldInv /\ SectorInv
  BY DEF MapInv
<1>a. Quiet \/ Loud
  BY StepCases
<1>b. /\ ~Moving => mv = "no" /\ ~HasOld
      /\ gcReq => InGc \/ pc = "recEnd"
  BY Quietly DEF Base, SafeInv, RequestInv
<1>1. HeadersKept'
  BY HeadersStep
<1>2. Owed' => /\ magic'[cur'.sec]
               /\ store'[cur'.sec] = STORE_USING \/ (~Writing' /\ store'[cur'.sec] = STORE_EMPTY)
  BY PlaceStep
\* A collection starts with an empty sector and goes on with the one it has
\* just formatted.
<1>3. ASSUME pc' \in {"gc", "gcVisit"} PROVE SomeSpare'
  <2>1. NewKvGc \/ GcBegin \/ GcNext
    <3>1. GcReturn /\ (GcBegin \/ GcDone \/ GcNext) => pc' = "new"
      BY GcReturnForm DEF GcBegin, GcDone, GcNext
    <3>2. ~PostGc \/ pc' = "idle"
      BY <1>b DEF PostGc, EndOp, InGc, InVictim, Moving
    <3>3. ~LoadEnd \/ pc' = "idle"
      BY DEF LoadEnd, CallInv
    <3>4. AfterDelete \in {"gcScan", "postGc"}
      <4>1. mv \in {"no", "gc"}
        BY DEF CallInv, Base, TypeInv, TypeOK, FrameType
      <4> QED BY <4>1 DEF AfterDelete
    <3>5. CASE Booting \/ Filling \/ Calling
      BY <1>3, <3>3, <3>5 DEF Booting, Filling, Calling, FindOldest, CheckHdr, HdrDone, ResumeGcDone,
            RecoverKvDone, FmtHdr, NextDefault, DefaultsDone, Set, Del, Get, SetDefault, Deinit, EndOp
    <3>6. CASE Collecting \/ GcErase
      BY <1>3, <3>1, <3>6 DEF Collecting, GcErase, GcVisit, GcDone, GcMove, GcFormat, Move
    <3>7. CASE NewKv \/ NewKvFull \/ FindOld \/ MarkDirty \/ UpdateSecStatus \/ MvAlloc \/ PostGc
      BY <1>3, <3>2, <3>4, <3>7 DEF NewKv, NewKvFull, FindOld, MarkDirty, UpdateSecStatus, MvAlloc,
            AfterPreDel, EndOp
    <3>8. CASE Loud
      BY <1>3, <3>4, <3>6, <3>8 DEF Loud, PreDelete, Delete, PreWrite, WriteMagic, WriteHdr, WriteBody,
            Commit, FmtErase, AfterPreDel
    <3> QED BY <1>a, <3>5, <3>6, <3>7, <3>8 DEF Quiet, New
  <2>2. UNCHANGED flash /\ pc \in {"new", "gc", "gcNext"}
    BY <2>1 DEF NewKvGc, GcBegin, GcNext
  <2>3. SomeSpare
    BY <1>b, <2>2 DEF SectorInv, Base, SafeInv, SpareInv, Moving
  <2> QED BY <2>2, <2>3 DEF SomeSpare, Spare, flash
<1>4. ASSUME pc' = "gcFormat" PROVE recs'[Victim'] = <<>>
  <2>1. GcErase
    <3>1. GcReturn /\ (GcBegin \/ GcDone \/ GcNext) => pc' = "new"
      BY GcReturnForm DEF GcBegin, GcDone, GcNext
    <3>2. AfterDelete \in {"gcScan", "postGc"}
      <4>1. mv \in {"no", "gc"}
        BY DEF CallInv, Base, TypeInv, TypeOK, FrameType
      <4> QED BY <4>1 DEF AfterDelete
    <3>3. CASE Booting \/ Filling \/ Calling
      BY <1>4, <3>3 DEF Booting, Filling, Calling, FindOldest, CheckHdr, HdrDone, ResumeGcDone,
            RecoverKvDone, LoadEnd, FmtHdr, NextDefault, DefaultsDone, Set, Del, Get, SetDefault,
            Deinit, EndOp
    <3>4. CASE Collecting
      BY <1>4, <3>1, <3>4 DEF Collecting, GcBegin, GcVisit, GcDone, GcNext, GcMove, GcFormat, Move
    <3>5. CASE New \/ FindOld \/ MarkDirty \/ UpdateSecStatus \/ MvAlloc \/ PostGc
      BY <1>4, <3>2, <3>5 DEF New, NewKv, NewKvGc, NewKvFull, FindOld, MarkDirty, UpdateSecStatus, MvAlloc,
            PostGc, StartGc, AfterPreDel, EndOp
    <3>6. CASE Loud /\ ~GcErase
      BY <1>4, <3>2, <3>6 DEF Loud, PreDelete, Delete, PreWrite, WriteMagic, WriteHdr, WriteBody,
            Commit, FmtErase, AfterPreDel
    <3> QED BY <1>a, <3>3, <3>4, <3>5, <3>6 DEF Quiet
  <2>2. Victim \in Sector /\ EraseSector(Victim) /\ Victim' = Victim
    BY <2>1, VictimType DEF GcErase, Base, frame, Victim
  <2> QED BY <2>2, EraseEffect DEF Base
\* A start that formats every sector finds no record.
<1>5. ASSUME pc' = "hdr"
      PROVE  /\ scan'.bad <= scan'.n /\ scan'.n <= SecNum
             /\ scan'.bad = scan'.n =>
                  \A s \in Sector : Rank(scan'.base, s) < scan'.n => recs'[s] = <<>>
  <2> scan \in ScanType /\ scan.base \in Sector /\ scan.n \in Nat /\ scan.bad \in Nat
    BY DEF Base, TypeInv, TypeOK, FrameType, ScanType
  <2>1. FindOldest \/ CheckHdr
    <3>1. GcReturn /\ (GcBegin \/ GcDone \/ GcNext) => pc' = "new"
      BY GcReturnForm DEF GcBegin, GcDone, GcNext
    <3>2. AfterDelete \in {"gcScan", "postGc"}
      <4>1. mv \in {"no", "gc"}
        BY DEF CallInv, Base, TypeInv, TypeOK, FrameType
      <4> QED BY <4>1 DEF AfterDelete
    <3>3. CASE Booting \/ Filling \/ Calling
      BY <1>5, <3>3 DEF Booting, Filling, Calling, HdrDone, ResumeGcDone,
            RecoverKvDone, LoadEnd, FmtHdr, NextDefault, DefaultsDone, Set, Del, Get, SetDefault,
            Deinit, EndOp
    <3>4. CASE Collecting
      BY <1>5, <3>1, <3>4 DEF Collecting, GcBegin, GcVisit, GcDone, GcNext, GcMove, GcFormat, Move
    <3>5. CASE New \/ FindOld \/ MarkDirty \/ UpdateSecStatus \/ MvAlloc \/ PostGc
      BY <1>5, <3>2, <3>5 DEF New, NewKv, NewKvGc, NewKvFull, FindOld, MarkDirty, UpdateSecStatus, MvAlloc,
            PostGc, StartGc, AfterPreDel, EndOp
    <3>6. CASE Loud
      BY <1>5, <3>2, <3>6 DEF Loud, PreDelete, Delete, PreWrite, WriteMagic, WriteHdr, WriteBody,
            Commit, FmtErase, GcErase, AfterPreDel
    <3> QED BY <1>a, <3>3, <3>4, <3>5, <3>6 DEF Quiet
  <2>2. CASE FindOldest
    <3>1. oldest' \in Sector /\ scan' = [NoScan EXCEPT !.base = oldest'] /\ UNCHANGED flash
      BY <2>2 DEF FindOldest, Base, TypeInv, TypeOK, RamType
    <3>2. scan'.n = 0 /\ scan'.bad = 0 /\ scan'.base \in Sector
      BY <3>1 DEF NoScan
    <3>3. \A s \in Sector : ~(Rank(scan'.base, s) < 0)
      <4> SUFFICES ASSUME NEW s \in Sector PROVE ~(Rank(scan'.base, s) < 0)
        OBVIOUS
      <4>1. Rank(scan'.base, s) \in Nat
        BY <3>2, RankType DEF Sector
      <4> QED BY <4>1
    <3> QED BY <3>2, <3>3, SecNumAssumption
  <2>3. CASE CheckHdr
    <3> DEFINE s == FirstFrom(scan.base, BadHeaders)
               r == Rank(scan.base, s)
    <3>1. pc = "hdr" /\ BadHeaders # {}
      BY <2>3 DEF CheckHdr
    <3>2. s \in Sector /\ r \in Sector /\ r \in Nat /\ r >= scan.n /\ r < SecNum
      <4>1. BadHeaders \in SUBSET Sector
        BY DEF BadHeaders
      <4>2. s \in BadHeaders
        BY <3>1, <4>1, FirstFromLeast
      <4>3. s \in Sector /\ r >= scan.n
        BY <4>2 DEF BadHeaders
      <4>4. r \in Sector
        BY <4>3, RankType
      <4> QED BY <4>3, <4>4, SecNumAssumption DEF Sector
    <3>3. WriteSectorHdr(s) /\ scan' = [scan EXCEPT !.n = r + 1, !.bad = @ + 1]
      BY <1>5, <2>3 DEF CheckHdr
    <3>4. scan'.base = scan.base /\ scan'.n = r + 1 /\ scan'.bad = scan.bad + 1
      BY <3>3 DEF ScanType
    <3>5. recs'[s] = <<>> /\ \A t \in Sector : t # s => recs'[t] = recs[t]
      BY <3>2, <3>3, EraseEffect DEF Base
    <3>6. scan.bad <= scan.n /\ scan.n <= SecNum
          /\ (scan.bad = scan.n => \A t \in Sector : Rank(scan.base, t) < scan.n => recs[t] = <<>>)
      BY <3>1 DEF SectorInv
    <3>7. ASSUME scan'.bad = scan'.n, NEW t \in Sector, Rank(scan'.base, t) < scan'.n
          PROVE  recs'[t] = <<>>
      <4>1. scan.bad = scan.n /\ scan.n = r
        BY <3>2, <3>4, <3>6, <3>7
      <4>2. Rank(scan.base, t) \in Nat /\ Rank(scan.base, t) < r + 1
        BY <3>4, <3>7, RankType DEF Sector
      <4>3. CASE Rank(scan.base, t) = r
        <5>1. t = s
          BY <3>2, <4>3, RankInjective
        <5> QED BY <3>5, <5>1
      <4>4. CASE Rank(scan.base, t) # r
        <5>1. Rank(scan.base, t) < scan.n
          BY <3>2, <4>1, <4>2, <4>4
        <5>2. recs[t] = <<>>
          BY <3>6, <4>1, <5>1
        <5> QED BY <3>5, <5>2
      <4> QED BY <4>3, <4>4
    <3>8. scan'.bad <= scan'.n /\ scan'.n <= SecNum
      BY <3>2, <3>4, <3>6, SecNumAssumption
    <3> QED BY <3>7, <3>8
  <2> QED BY <2>1, <2>2, <2>3
<1> QED BY <1>1, <1>2, <1>3, <1>4, <1>5 DEF SectorInv, HeadersKept
-----------------------------------------------------------------------------
(* The records *)

\* The old record outlives a quiet step, or it is deleted by now.
LEMMA QuietOld ==
    ASSUME Base, CallInv, OldInv, Quiet
    PROVE  \/ ~HasOld
           \/ pc \in {"preDirty", "status", "mvAlloc"} /\ UNCHANGED <<old, mv, op, gc>>
           \/ pc = "delDirty" /\ OldStatus = KV_DELETED /\ old' = NoOld /\ mv' = "no" /\ UNCHANGED <<op, gc>>
<1>1. ~Moving => ~HasOld
  BY Quietly
<1>2. CASE MarkDirty \/ UpdateSecStatus \/ MvAlloc
  BY <1>2 DEF MarkDirty, UpdateSecStatus, MvAlloc, OldStatus
<1>3. CASE ~(MarkDirty \/ UpdateSecStatus \/ MvAlloc)
  <2>1. ~Moving
    BY <1>3 DEF Quiet, Booting, Filling, Collecting, Calling, FindOldest, CheckHdr, HdrDone, ResumeGcDone,
            RecoverKvDone, LoadEnd, FmtHdr, NextDefault, DefaultsDone, Set, Del, Get, SetDefault, Deinit,
            New, NewKv, NewKvGc, NewKvFull, FindOld, PostGc, GcBegin, GcVisit, GcDone, GcMove, GcFormat,
            GcNext, Moving
  <2> QED BY <1>1, <2>1
<1> QED BY <1>2, <1>3

LEMMA RecordStep ==
    ASSUME Steady, Base, MapInv, Next
    PROVE  RecordInv'
<1> /\ CallInv /\ OldInv /\ SectorInv /\ RecordInv /\ CurInv /\ DefaultInv
  BY DEF MapInv
<1>a. Quiet \/ Loud
  BY StepCases
<1>b. (~Moving \/ pc = "gcScan") => ~HasOld
  BY Quietly
<1>s. KV_PRE_DELETE \notin {KV_WRITE, KV_DELETED, KV_PRE_WRITE}
  BY DEF KV_PRE_DELETE, KV_WRITE, KV_DELETED, KV_PRE_WRITE
<1>1. CASE Quiet
  <2>1. recs' = recs /\ pc \notin Adding /\ pc' \notin Adding
    BY <1>1, QuietRecs
  <2>2. ASSUME NEW s \in Sector, NEW i \in DOMAIN recs[s], recs[s][i].st = KV_PRE_DELETE
        PROVE  IsOld(s, i)'
    <3>1. IsOld(s, i)
      BY <1>s, <2>1, <2>2 DEF RecordInv, IsNew
    <3>2. OldStatus = KV_PRE_DELETE
      BY <2>2, <3>1 DEF IsOld, OldInv, Base, TypeInv, TypeOK, FrameType, OldType, Rec
    <3>3. UNCHANGED old
      BY <1>1, <1>s, <3>1, <3>2, QuietOld DEF IsOld
    <3> QED BY <3>1, <3>3 DEF IsOld, HasOld
  <2> QED BY <2>1, <2>2 DEF RecordInv, IsNew
<1>2. CASE PreDelete
  <2>1. /\ HasOld /\ old.sec \in Sector /\ old.idx \in DOMAIN recs[old.sec] /\ old.rec \in Rec
        /\ OnlyAt(old.sec, old.idx) /\ CrcOk(old.rec)
        /\ recs'[old.sec][old.idx] = [old.rec EXCEPT !.st = KV_PRE_DELETE]
    BY <1>2, OldEffect
  <2>2. recs'[old.sec][old.idx].st = KV_PRE_DELETE /\ CrcOk(recs'[old.sec][old.idx])
    BY <2>1 DEF Rec, CrcOk
  <2>3. pc \notin Adding /\ pc' \notin Adding /\ UNCHANGED old
    BY <1>2 DEF PreDelete, AfterPreDel, Adding, frame
  <2>4. ASSUME NEW t \in Sector, NEW i \in DOMAIN recs'[t]
        PROVE  /\ CrcOk(recs'[t][i])
               /\ \/ recs'[t][i].st \in {KV_WRITE, KV_DELETED}
                  \/ recs'[t][i].st = KV_PRE_DELETE /\ IsOld(t, i)'
    <3>1. CASE t = old.sec /\ i = old.idx
      BY <2>1, <2>2, <2>3, <3>1 DEF IsOld, HasOld
    <3>2. CASE t # old.sec \/ i # old.idx
      <4>1. i \in DOMAIN recs[t] /\ recs'[t][i] = recs[t][i] /\ ~IsOld(t, i) /\ ~IsNew(t, i)
        BY <2>1, <2>3, <3>2 DEF OnlyAt, IsOld, IsNew
      <4> QED BY <4>1 DEF RecordInv
    <3> QED BY <3>1, <3>2
  <2> QED BY <2>3, <2>4 DEF RecordInv, IsNew
<1>3. CASE Delete
  <2>1. /\ HasOld /\ old.sec \in Sector /\ old.idx \in DOMAIN recs[old.sec] /\ old.rec \in Rec
        /\ OnlyAt(old.sec, old.idx) /\ CrcOk(old.rec)
        /\ recs'[old.sec][old.idx] = [old.rec EXCEPT !.st = KV_DELETED]
    BY <1>3, OldEffect
  <2>2. recs'[old.sec][old.idx].st = KV_DELETED /\ CrcOk(recs'[old.sec][old.idx])
    BY <2>1 DEF Rec, CrcOk
  <2>3. pc \notin Adding /\ pc' \notin Adding
    <3>1. mv \in {"no", "gc"}
      BY DEF CallInv, Base, TypeInv, TypeOK, FrameType
    <3> QED BY <1>3, <3>1 DEF Delete, AfterDelete, Adding
  <2>4. ASSUME NEW t \in Sector, NEW i \in DOMAIN recs'[t]
        PROVE  CrcOk(recs'[t][i]) /\ recs'[t][i].st \in {KV_WRITE, KV_DELETED}
    <3>1. CASE t = old.sec /\ i = old.idx
      BY <2>2, <3>1
    <3>2. CASE t # old.sec \/ i # old.idx
      <4>1. i \in DOMAIN recs[t] /\ recs'[t][i] = recs[t][i] /\ ~IsOld(t, i) /\ ~IsNew(t, i)
        BY <2>1, <2>3, <3>2 DEF OnlyAt, IsOld, IsNew
      <4> QED BY <4>1 DEF RecordInv
    <3> QED BY <3>1, <3>2
  <2> QED BY <2>3, <2>4 DEF RecordInv, IsNew
<1>4. CASE PreWrite
  <2>1. LET s == cur.sec
            n == Len(recs[s]) + 1
        IN /\ s \in Sector /\ n \in Nat
           /\ DOMAIN recs'[s] = DOMAIN recs[s] \cup {n} /\ Len(recs'[s]) = n
           /\ \A j \in DOMAIN recs[s] : j \in Nat /\ j < n /\ recs'[s][j] = recs[s][j]
           /\ recs'[s][n] = Blank
           /\ \A t \in Sector : t # s => recs'[t] = recs[t]
    BY <1>4, AppendEffect DEF Base
  <2>2. pc = "preWrite" /\ pc' = "magic" /\ UNCHANGED <<cur, old>>
    BY <1>4 DEF PreWrite, frame
  <2>3. Blank.st = KV_PRE_WRITE /\ Blank.key = NoKey
    BY DEF Blank
  <2>4. ASSUME NEW s \in Sector, NEW i \in DOMAIN recs'[s], ~IsNew(s, i)'
        PROVE  i \in DOMAIN recs[s] /\ recs'[s][i] = recs[s][i] /\ ~IsNew(s, i) /\ (IsOld(s, i) => IsOld(s, i)')
    BY <2>1, <2>2, <2>4 DEF IsNew, IsOld, HasOld, Adding
  <2>5. ASSUME NEW s \in Sector, NEW i \in DOMAIN recs'[s], IsNew(s, i)' PROVE recs'[s][i] = Blank
    BY <2>1, <2>2, <2>5 DEF IsNew
  <2> QED BY <2>2, <2>3, <2>4, <2>5 DEF RecordInv
<1>5. CASE WriteMagic \/ WriteHdr \/ WriteBody \/ Commit
  <2> DEFINE s == cur.sec
             n == Len(recs[s])
  <2>1. /\ s \in Sector /\ n \in DOMAIN recs[s] /\ IsNew(s, n) /\ recs[s][n] \in Rec /\ OnlyAt(s, n)
    BY <1>5, WriterEffect DEF Base, SafeInv
  <2>2. UNCHANGED <<old, op>>
    BY <1>5 DEF WriteMagic, WriteHdr, WriteBody, Commit, frame
  <2>3. ASSUME NEW t \in Sector, NEW i \in DOMAIN recs[t], t # s \/ i # n
        PROVE  recs'[t][i] = recs[t][i] /\ ~IsNew(t, i) /\ (IsOld(t, i) => IsOld(t, i)')
    BY <2>1, <2>2, <2>3 DEF OnlyAt, IsNew, IsOld, HasOld
  <2>4. recs[s][n].st = KV_PRE_WRITE /\ (pc # "commit" => recs[s][n].key = NoKey)
        /\ (pc = "commit" => recs[s][n].key = cur.key)
    BY <2>1 DEF RecordInv
  <2>5. CASE Commit
    <3>1. pc = "commit" /\ pc' \notin Adding
      BY <2>5 DEF Commit, Adding
    <3>2. recs'[s][n] = [recs[s][n] EXCEPT !.st = WriteStatus(recs[s][n].st, KV_WRITE)]
      BY <2>5, <3>1, WriterEffect DEF Base, SafeInv
    <3>3. recs'[s][n].st = KV_WRITE /\ recs'[s][n].key = cur.key
      BY <2>1, <2>4, <3>1, <3>2 DEF Rec, WriteStatus, KV_WRITE, KV_PRE_WRITE
    <3>4. cur.key # NoKey
      BY <3>1, KeyAssumption DEF CurInv, OldInv, CrcOk
    <3> HIDE DEF s, n
    <3>5. ASSUME NEW t \in Sector, NEW i \in DOMAIN recs'[t]
          PROVE  /\ ~IsNew(t, i)' /\ CrcOk(recs'[t][i])
                 /\ \/ recs'[t][i].st \in {KV_WRITE, KV_DELETED}
                    \/ recs'[t][i].st = KV_PRE_DELETE /\ IsOld(t, i)'
      <4>1. i \in DOMAIN recs[t] /\ ~IsNew(t, i)'
        BY <2>1, <3>1 DEF OnlyAt, IsNew
      <4>2. CASE t = s /\ i = n
        BY <3>3, <3>4, <4>1, <4>2 DEF CrcOk
      <4>3. CASE t # s \/ i # n
        BY <2>3, <4>1, <4>3 DEF RecordInv
      <4> QED BY <4>2, <4>3
    <3> QED BY <3>5 DEF RecordInv
  <2>6. CASE WriteMagic \/ WriteHdr \/ WriteBody
    <3>1. /\ UNCHANGED cur /\ pc \in {"magic", "header", "body"} /\ pc' \in Adding
          /\ pc' = "commit" <=> pc = "body"
      BY <2>6 DEF WriteMagic, WriteHdr, WriteBody, frame, Adding
    <3>2. recs'[s][n] = CASE pc = "magic" -> [recs[s][n] EXCEPT !.len = HdrLen]
                          [] pc = "header" -> [recs[s][n] EXCEPT !.len = cur.len]
                          [] pc = "body" -> [recs[s][n] EXCEPT !.key = cur.key, !.val = cur.val]
                          [] pc = "commit" -> [recs[s][n] EXCEPT
                                  !.st = WriteStatus(recs[s][n].st, KV_WRITE)]
      BY <2>6, WriterEffect DEF Base, SafeInv
    <3>3. pc = "body" => recs[s][n].len = cur.len
      BY DEF Base, SafeInv, LengthInv, CurRec
    <3>4. /\ recs'[s][n].st = KV_PRE_WRITE
          /\ pc # "body" => recs'[s][n].key = NoKey
          /\ pc = "body" => recs'[s][n].key = cur.key /\ recs'[s][n].val = cur.val /\ recs'[s][n].len = cur.len
      BY <2>1, <2>4, <3>1, <3>2, <3>3 DEF Rec
    <3>5. ASSUME NEW t \in Sector, NEW i \in DOMAIN recs'[t]
          PROVE  i \in DOMAIN recs[t] /\ (IsNew(t, i)' <=> t = s /\ i = n)
      BY <2>1, <3>1 DEF OnlyAt, IsNew
    <3> HIDE DEF s, n
    <3>6. ASSUME NEW t \in Sector, NEW i \in DOMAIN recs'[t], IsNew(t, i)'
          PROVE  recs'[t][i] = recs'[s][n]
      BY <3>5, <3>6
    <3>7. ASSUME NEW t \in Sector, NEW i \in DOMAIN recs'[t], ~IsNew(t, i)'
          PROVE  /\ CrcOk(recs'[t][i])
                 /\ \/ recs'[t][i].st \in {KV_WRITE, KV_DELETED}
                    \/ recs'[t][i].st = KV_PRE_DELETE /\ IsOld(t, i)'
      BY <2>3, <3>5, <3>7 DEF RecordInv
    <3> QED BY <3>1, <3>4, <3>6, <3>7 DEF RecordInv
  <2> QED BY <1>5, <2>5, <2>6
<1>6. CASE FmtErase \/ GcErase
  <2>1. ~HasOld /\ pc \notin Adding /\ pc' \notin Adding
    BY <1>6, <1>b DEF FmtErase, GcErase, Moving, Adding
  <2>2. PICK v \in Sector : EraseSector(v)
    BY <1>6, VictimType DEF FmtErase, GcErase, Base, SafeInv, FrameInv
  <2>3. recs'[v] = <<>> /\ \A t \in Sector : t # v => recs'[t] = recs[t]
    BY <2>2, EraseEffect DEF Base
  <2> QED BY <2>1, <2>3 DEF RecordInv, IsNew, IsOld
<1> QED BY <1>a, <1>1, <1>2, <1>3, <1>4, <1>5, <1>6 DEF Loud
-----------------------------------------------------------------------------
(* What is going to be written, and where *)

LEMMA FillEnd ==
    ASSUME Base, PackInv, NEW s \in Sector, NEW i \in DOMAIN recs[s], \A j \in DOMAIN recs[s] : CrcOk(recs[s][j])
    PROVE  recs[s][i].at + recs[s][i].len <= Fill(store[s], recs[s])
<1> DEFINE q == recs[s]
           n == Len(q)
<1>1. q \in Seq(Rec) /\ \A j \in DOMAIN q : q[j].at \in Nat /\ q[j].len \in Nat
  <2>1. q \in Seq(Rec)
    BY DEF Base, TypeInv, TypeOK, FlashType
  <2>2. \A j \in DOMAIN q : q[j] \in Rec
    BY <2>1
  <2> QED BY <2>1, <2>2 DEF Rec
<1>2. n \in DOMAIN q /\ i \in Nat /\ n \in Nat /\ i <= n /\ q # <<>>
  BY <1>1
<1>3. q[n].len >= HdrLen
  BY <1>2 DEF Base, SafeInv, LengthInv, RecsLong
<1>4. Fill(store[s], q) = q[n].at + q[n].len
  BY <1>1, <1>2, <1>3, LenAssumption DEF Fill
<1>5. i < n => q[i].at + q[i].len <= q[n].at
  BY <1>2 DEF PackInv
<1>6. i = n => q[i].at + q[i].len = q[n].at + q[n].len
  OBVIOUS
<1>7. /\ q[i].at \in Nat /\ q[i].len \in Nat /\ q[n].at \in Nat /\ q[n].len \in Nat
  BY <1>1, <1>2
<1> HIDE DEF n
<1> QED BY <1>2, <1>4, <1>5, <1>6, <1>7

\* alloc_kv returns the end of the records, with room behind.
LEMMA AllocPlace ==
    ASSUME Base, RecordInv, PackInv, pc \notin Adding, CacheOk(secCache), NEW len \in Nat, CanAlloc(len)
    PROVE  LET s == AllocSec(len) IN
           /\ s \in Sector /\ FullInfo(s).empty = Fill(store[s], recs[s]) /\ FullInfo(s).empty \in Nat
           /\ FullInfo(s).empty + len + Threshold < Cap
           /\ \A i \in DOMAIN recs[s] : recs[s][i].at + recs[s][i].len <= FullInfo(s).empty
<1> DEFINE s == AllocSec(len)
<1>1. s \in Sector /\ Fits(s, len)
  BY AllocFits DEF Base, TypeInv, TypeOK
<1>2. FullInfo(s).empty = Fill(store[s], recs[s])
  BY AllocStore DEF Base
<1> HIDE DEF s
<1>3. Fill(store[s], recs[s]) \in Nat
  BY <1>1, FillType DEF Base, TypeInv, TypeOK, FlashType
<1>4. Remain(s) > len + Threshold
  BY <1>1 DEF Fits
<1>5. FullInfo(s).store \in {STORE_EMPTY, STORE_USING}
  BY <1>4, LenAssumption DEF Remain
<1>6. Remain(s) = Cap - Fill(store[s], recs[s])
  BY <1>2, <1>5 DEF Remain
<1>7. Fill(store[s], recs[s]) + len + Threshold < Cap
  BY <1>3, <1>4, <1>6, LenAssumption
<1>8. \A i \in DOMAIN recs[s] : recs[s][i].at + recs[s][i].len <= Fill(store[s], recs[s])
  BY <1>1, FillEnd DEF RecordInv, IsNew
<1> QED BY <1>1, <1>2, <1>3, <1>7, <1>8 DEF s

\* What is to be written was so before, or it has just been allocated.
CurKept ==
    /\ Owed /\ UNCHANGED <<mv, op>> /\ (mv # "no" => UNCHANGED old)
    /\ cur'.sec = cur.sec /\ cur'.at = cur.at /\ cur'.len = cur.len
    /\ cur'.key = cur.key /\ cur'.val = cur.val
    /\ pc' \notin Adding =>
         /\ pc \notin Adding /\ (Owed' /\ Writing => Writing')
         /\ \A i \in DOMAIN recs'[cur.sec] :
              i \in DOMAIN recs[cur.sec] /\ recs'[cur.sec][i].at = recs[cur.sec][i].at
              /\ recs'[cur.sec][i].len = recs[cur.sec][i].len
LEMMA OwedForm ==
    ASSUME Steady, Base, MapInv, Next, Owed' \/ pc' = "commit"
    PROVE  \/ NewKv
           \/ MvAlloc /\ pc' = "status" /\ cur' = Allocated(old.rec.len, old.rec.key, old.rec.val)
           \/ CurKept
<1> CallInv /\ OldInv /\ SectorInv /\ DefaultInv /\ RecordInv /\ NameInv
  BY DEF MapInv
<1>a. Quiet \/ Loud
  BY StepCases
<1>b. /\ ~Moving => mv = "no" /\ ~HasOld
      /\ pc = "gcScan" => mv = "no"
      /\ gcReq => InGc \/ pc = "recEnd"
  BY Quietly DEF Base, SafeInv, RequestInv
<1>c. cur \in CurType /\ mv \in {"no", "gc"}
  BY DEF CallInv, Base, TypeInv, TypeOK, FrameType
<1> USE DEF Owed, Writing, Adding
<1>1. CASE MvAlloc
  BY <1>1 DEF MvAlloc, OldInv, KV_WRITE, KV_PRE_DELETE
<1>2. CASE UpdateSecStatus
  <2>1. cur'.sec = cur.sec /\ cur'.at = cur.at /\ cur'.len = cur.len /\ cur'.key = cur.key /\ cur'.val = cur.val
    BY <1>2, <1>c DEF UpdateSecStatus, CurType
  <2> QED BY <1>2, <2>1 DEF UpdateSecStatus, CurKept
<1>3. CASE FindOld
  <2>1. pc = "find" /\ UNCHANGED flash /\ op.kind \in {"set", "del"} /\ mv = "no"
    BY <1>3, <1>b, FindOldForm DEF FindOld, Moving
  <2>2. ~EndOp(FALSE)
    BY DEF EndOp
  <2>3. UNCHANGED <<op, cur, mv>> /\ pc' \in {"preDel", "delete", "status"}
        /\ (pc' # "delete" => op.kind = "set")
    BY <1>3, <2>1, <2>2 DEF FindOld
  <2> QED BY <2>1, <2>3 DEF CurKept, flash
<1>4. CASE PreDelete \/ MarkDirty \/ Delete
  <2>1. AfterDelete \in {"gcScan", "postGc"}
    BY <1>c DEF AfterDelete
  <2>2. ~Delete /\ pc \in {"preDel", "preDirty"} /\ UNCHANGED <<cur, op, mv, old>> /\ pc' \in {"preDirty", "status", "mvAlloc"}
        /\ (pc' = "status" => mv = "no")
    BY <1>4, <2>1 DEF PreDelete, MarkDirty, Delete, AfterPreDel, frame
  <2>3. ASSUME NEW i \in DOMAIN recs'[cur.sec]
        PROVE  i \in DOMAIN recs[cur.sec] /\ recs'[cur.sec][i].at = recs[cur.sec][i].at
               /\ recs'[cur.sec][i].len = recs[cur.sec][i].len
    <3>1. CASE MarkDirty
      BY <2>3, <3>1 DEF MarkDirty
    <3>2. CASE PreDelete
      <4>1. /\ OnlyAt(old.sec, old.idx) /\ cur.sec \in Sector /\ old.rec \in Rec
            /\ recs[old.sec][old.idx] = [old.rec EXCEPT !.st = OldStatus]
            /\ recs'[old.sec][old.idx] = [old.rec EXCEPT !.st = KV_PRE_DELETE]
        BY <3>2, <1>c, OldEffect DEF CurType
      <4>2. i \in DOMAIN recs[cur.sec]
        BY <2>3, <4>1 DEF OnlyAt
      <4>3. /\ recs[old.sec][old.idx].at = old.rec.at /\ recs[old.sec][old.idx].len = old.rec.len
            /\ recs'[old.sec][old.idx].at = old.rec.at /\ recs'[old.sec][old.idx].len = old.rec.len
        BY <4>1 DEF Rec
      <4>4. CASE cur.sec = old.sec /\ i = old.idx
        BY <4>2, <4>3, <4>4
      <4>5. CASE cur.sec # old.sec \/ i # old.idx
        <5>1. recs'[cur.sec][i] = recs[cur.sec][i]
          BY <4>1, <4>2, <4>5 DEF OnlyAt
        <5> QED BY <4>2, <5>1
      <4> QED BY <4>4, <4>5
    <3> QED BY <1>4, <2>2, <3>1, <3>2
  <2> QED BY <2>2, <2>3 DEF CurKept
<1>5. CASE PreWrite \/ WriteMagic \/ WriteHdr \/ WriteBody
  <2>1. Owed /\ UNCHANGED frame /\ pc' \in Adding
    BY <1>5 DEF PreWrite, WriteMagic, WriteHdr, WriteBody
  <2> QED BY <2>1 DEF CurKept, frame
<1>6. CASE Commit
  BY <1>6 DEF Commit
<1>7. CASE Booting \/ Filling \/ NewKvGc \/ NewKvFull \/ PostGc \/ FmtErase
  BY <1>7, <1>b DEF Booting, Filling, FindOldest, CheckHdr, HdrDone, ResumeGcDone, RecoverKvDone, LoadEnd,
            FmtHdr, NextDefault, DefaultsDone, NewKvGc, NewKvFull, StartGc, EndOp, PostGc, FmtErase
<1>8. CASE Calling
  BY <1>8, <1>b DEF Calling, Set, Del, Get, SetDefault, Deinit, NoOp
<1>9. CASE Collecting \/ GcErase
  <2>1. GcReturn /\ (GcBegin \/ GcDone \/ GcNext) => pc' = "new"
    BY GcReturnForm DEF GcBegin, GcDone, GcNext
  <2>2. \/ pc' \in {"new", "gcVisit", "gcScan", "gcNext", "gcFormat"}
        \/ mv' = "gc" /\ pc' \in {"preDel", "mvAlloc"}
    BY <1>9, <2>1 DEF Collecting, GcErase, GcBegin, GcVisit, GcDone, GcMove, GcFormat, GcNext, Move
  <2> QED BY <2>2
<1> QED BY <1>a, <1>1, <1>2, <1>3, <1>4, <1>5, <1>6, <1>7, <1>8, <1>9 DEF Quiet, Loud, New

LEMMA CurStep ==
    ASSUME Steady, Base, MapInv, Next
    PROVE  CurInv'
<1> /\ CallInv /\ OldInv /\ RecordInv /\ CurInv /\ PackInv /\ DefaultInv
  BY DEF MapInv
<1>1. CASE ~(Owed' \/ pc' = "commit")
  BY <1>1 DEF CurInv
<1>2. CASE NewKv
  <2>1. /\ pc = "new" /\ CanAlloc(KvLen[op.val]) /\ UNCHANGED <<flash, op, mv>> /\ pc' \in {"find", "status"}
        /\ cur' = Allocated(KvLen[op.val], op.key, op.val) /\ KvLen[op.val] \in Nat
    BY <1>2, KvLenType DEF NewKv, Base, TypeInv, TypeOK
  <2>2. CacheOk(secCache) /\ pc \notin Adding /\ mv = "no"
    BY <2>1, Quietly DEF Moving, Writing, Adding
  <2>3. op.key \in Key
    <3>1. CASE op.kind = "set"
      BY <3>1 DEF Base, TypeInv, Named
    <3>2. CASE op.kind # "set"
      <4>1. op.i \in DOMAIN Defaults /\ op.key = Defaults[op.i][1]
        BY <2>1, <3>2 DEF CallInv, DefaultInv, Resetting
      <4>2. Defaults[op.i] \in Key \X Val
        BY <4>1, DefaultsAssumption
      <4> QED BY <4>1, <4>2
    <3> QED BY <3>1, <3>2
  <2> DEFINE s == AllocSec(KvLen[op.val])
  <2>4. /\ cur'.sec = s /\ cur'.at = FullInfo(s).empty /\ cur'.len = KvLen[op.val]
        /\ cur'.key = op.key /\ cur'.val = op.val
    BY <2>1 DEF Allocated
  <2>5. /\ FullInfo(s).empty + KvLen[op.val] + Threshold < Cap
        /\ \A i \in DOMAIN recs[s] : recs[s][i].at + recs[s][i].len <= FullInfo(s).empty
    BY <2>1, <2>2, AllocPlace
  <2> HIDE DEF s
  <2> QED BY <2>1, <2>2, <2>3, <2>4, <2>5 DEF CurInv, flash
<1>3. CASE MvAlloc /\ pc' = "status" /\ cur' = Allocated(old.rec.len, old.rec.key, old.rec.val)
  <2>1. /\ pc = "mvAlloc" /\ CanAlloc(old.rec.len) /\ UNCHANGED <<flash, old, mv>> /\ old.rec.len \in Nat
        /\ mv = "gc"
    BY <1>3, MoveFits DEF MvAlloc, MapInv, Base, TypeInv, TypeOK, FrameType, OldType, Rec
  <2>2. CacheOk(secCache) /\ pc \notin Adding
    BY <2>1, Quietly DEF Writing, Adding
  <2> DEFINE s == AllocSec(old.rec.len)
  <2>3. /\ cur'.sec = s /\ cur'.at = FullInfo(s).empty /\ cur'.len = old.rec.len
        /\ cur'.key = old.rec.key /\ cur'.val = old.rec.val
    BY <1>3 DEF Allocated
  <2>4. /\ FullInfo(s).empty + old.rec.len + Threshold < Cap
        /\ \A i \in DOMAIN recs[s] : recs[s][i].at + recs[s][i].len <= FullInfo(s).empty
    BY <2>1, <2>2, AllocPlace
  <2> HIDE DEF s
  <2> QED BY <2>1, <2>3, <2>4 DEF CurInv, flash
<1>4. CASE CurKept
  <2>1. Owed' \/ pc' = "commit" =>
         IF mv' = "no" THEN cur'.key = op'.key /\ cur'.val = op'.val /\ cur'.key \in Key
         ELSE cur'.key = old'.rec.key /\ cur'.val = old'.rec.val /\ cur'.len = old'.rec.len
    BY <1>4 DEF CurKept, CurInv
  <2>2. cur'.at + cur'.len + Threshold < Cap
    BY <1>4 DEF CurKept, CurInv
  <2>3. pc' \notin Adding => \A i \in DOMAIN recs'[cur'.sec] :
          recs'[cur'.sec][i].at + recs'[cur'.sec][i].len <= cur'.at
    BY <1>4 DEF CurKept, CurInv
  <2> QED BY <2>1, <2>2, <2>3 DEF CurInv
<1> QED BY <1>1, <1>2, <1>3, <1>4, OwedForm
-----------------------------------------------------------------------------
(* The records lie one behind the other *)

LEMMA PackPut ==
    ASSUME Base, PackInv, NEW s \in Sector, NEW n \in DOMAIN recs[s], OnlyAt(s, n), recs'[s][n].at = recs[s][n].at,
           recs'[s][n].len = recs[s][n].len \/ n = Len(recs[s]),
           CrcOk(recs'[s][n]) => recs'[s][n].at + recs'[s][n].len + Threshold < Cap
    PROVE  PackInv'
<1>1. ASSUME NEW t \in Sector, NEW i \in DOMAIN recs'[t], CrcOk(recs'[t][i])
      PROVE  recs'[t][i].at + recs'[t][i].len + Threshold < Cap
  BY <1>1 DEF OnlyAt, PackInv
<1>2. ASSUME NEW t \in Sector, NEW i \in DOMAIN recs'[t], NEW j \in DOMAIN recs'[t], i < j
      PROVE  recs'[t][i].at + recs'[t][i].len <= recs'[t][j].at
  <2>1. i \in DOMAIN recs[t] /\ j \in DOMAIN recs[t] /\ recs[t] \in Seq(Rec)
    BY DEF OnlyAt, Base, TypeInv, TypeOK, FlashType
  <2>2. recs'[t][j].at = recs[t][j].at /\ recs'[t][i].at = recs[t][i].at
    BY <2>1 DEF OnlyAt
  <2>3. recs'[t][i].len = recs[t][i].len
    <3>1. i # Len(recs[t])
      BY <1>2, <2>1
    <3> QED BY <2>1, <3>1 DEF OnlyAt
  <2> QED BY <1>2, <2>1, <2>2, <2>3 DEF PackInv
<1> QED BY <1>1, <1>2 DEF PackInv

LEMMA PackStep ==
    ASSUME Steady, Base, MapInv, Next
    PROVE  PackInv'
<1> /\ CallInv /\ OldInv /\ SectorInv /\ RecordInv /\ CurInv /\ PackInv /\ DefaultInv
  BY DEF MapInv
<1>a. Quiet \/ Loud
  BY StepCases
<1>1. CASE Quiet
  BY <1>1, QuietRecs DEF PackInv
<1>2. CASE PreDelete \/ Delete
  <2> DEFINE s == old.sec
             i == old.idx
  <2>1. /\ s \in Sector /\ i \in DOMAIN recs[s] /\ old.rec \in Rec /\ OnlyAt(s, i) /\ CrcOk(old.rec)
        /\ recs[s][i] = [old.rec EXCEPT !.st = OldStatus]
        /\ \E st \in KvStatus : recs'[s][i] = [old.rec EXCEPT !.st = st]
    BY <1>2, OldEffect, StatusTypes
  <2>2. /\ recs[s][i].at = old.rec.at /\ recs[s][i].len = old.rec.len /\ recs[s][i].key = old.rec.key
        /\ recs'[s][i].at = old.rec.at /\ recs'[s][i].len = old.rec.len /\ recs'[s][i].key = old.rec.key
    BY <2>1 DEF Rec
  <2> HIDE DEF s, i
  <2>3. recs[s][i].at + recs[s][i].len + Threshold < Cap
    BY <2>1, <2>2 DEF PackInv, CrcOk
  <2> QED BY <2>1, <2>2, <2>3, PackPut
<1>3. CASE PreWrite
  <2> DEFINE s == cur.sec
             n == Len(recs[s]) + 1
  <2>1. /\ s \in Sector /\ n \in Nat
        /\ DOMAIN recs'[s] = DOMAIN recs[s] \cup {n} /\ Len(recs'[s]) = n
        /\ \A j \in DOMAIN recs[s] : j \in Nat /\ j < n /\ recs'[s][j] = recs[s][j]
        /\ recs'[s][n] = Blank
        /\ \A t \in Sector : t # s => recs'[t] = recs[t]
    BY <1>3, AppendEffect DEF Base
  <2>2. ~CrcOk(Blank) /\ Blank.at = cur.at
    BY DEF Blank, CrcOk
  <2>3. \A i \in DOMAIN recs[s] : recs[s][i].at + recs[s][i].len <= cur.at
    BY <1>3 DEF PreWrite, CurInv, Owed, Writing, Adding
  <2> HIDE DEF s, n
  <2>4. ASSUME NEW t \in Sector, NEW i \in DOMAIN recs'[t], CrcOk(recs'[t][i])
        PROVE  recs'[t][i].at + recs'[t][i].len + Threshold < Cap
    <3>1. t # s \/ i # n
      BY <2>1, <2>2, <2>4
    <3>2. i \in DOMAIN recs[t] /\ recs'[t][i] = recs[t][i]
      BY <2>1, <3>1
    <3> QED BY <2>4, <3>2 DEF PackInv
  <2>5. ASSUME NEW t \in Sector, NEW i \in DOMAIN recs'[t], NEW j \in DOMAIN recs'[t], i < j
        PROVE  recs'[t][i].at + recs'[t][i].len <= recs'[t][j].at
    <3>1. CASE t # s
      BY <2>1, <2>5, <3>1 DEF PackInv
    <3>2. CASE t = s /\ j = n
      <4>1. i \in DOMAIN recs[s]
        BY <2>1, <2>5, <3>2
      <4> QED BY <2>1, <2>2, <2>3, <3>2, <4>1
    <3>3. CASE t = s /\ j # n
      <4>1. j \in DOMAIN recs[s] /\ j < n /\ j \in Nat
        BY <2>1, <2>5, <3>3
      <4>2. i \in DOMAIN recs[s]
        BY <2>1, <2>5, <3>3, <4>1
      <4> QED BY <2>1, <2>5, <3>3, <4>1, <4>2 DEF PackInv
    <3> QED BY <3>1, <3>2, <3>3
  <2> QED BY <2>4, <2>5 DEF PackInv
<1>4. CASE WriteMagic \/ WriteHdr \/ WriteBody \/ Commit
  <2> DEFINE s == cur.sec
             n == Len(recs[s])
  <2>1. /\ s \in Sector /\ n \in DOMAIN recs[s] /\ IsNew(s, n) /\ recs[s][n] \in Rec /\ OnlyAt(s, n)
        /\ recs[s][n].at = cur.at
        /\ recs'[s][n] = CASE pc = "magic" -> [recs[s][n] EXCEPT !.len = HdrLen]
                           [] pc = "header" -> [recs[s][n] EXCEPT !.len = cur.len]
                           [] pc = "body" -> [recs[s][n] EXCEPT !.key = cur.key, !.val = cur.val]
                           [] pc = "commit" -> [recs[s][n] EXCEPT
                                !.st = WriteStatus(recs[s][n].st, KV_WRITE)]
    BY <1>4, WriterEffect DEF Base, SafeInv
  <2>2. pc \in {"magic", "header", "body", "commit"}
    BY <1>4 DEF WriteMagic, WriteHdr, WriteBody, Commit
  <2>3. recs'[s][n].at = recs[s][n].at
    BY <2>1, <2>2 DEF Rec
  <2>4. CASE pc \in {"magic", "header"}
    <3>1. recs[s][n].key = NoKey
      BY <2>1, <2>4 DEF RecordInv
    <3>2. recs'[s][n].key = NoKey
      BY <2>1, <2>4, <3>1 DEF Rec
    <3> HIDE DEF s
    <3> QED BY <2>1, <2>3, <3>2, PackPut DEF CrcOk
  <2>5. CASE pc = "body"
    <3>1. recs[s][n].len = cur.len
      BY <2>5 DEF Base, SafeInv, LengthInv, CurRec
    <3>2. recs'[s][n].len = cur.len
      BY <2>1, <2>5, <3>1 DEF Rec
    <3>3. cur.at + cur.len + Threshold < Cap
      BY <2>5 DEF CurInv, Owed, Writing
    <3> HIDE DEF s
    <3> QED BY <2>1, <2>3, <3>2, <3>3, PackPut
  <2>6. CASE pc = "commit"
    <3>1. recs'[s][n].len = recs[s][n].len /\ recs'[s][n].key = recs[s][n].key
      BY <2>1, <2>6 DEF Rec
    <3>2. CrcOk(recs[s][n]) => recs[s][n].at + recs[s][n].len + Threshold < Cap
      BY <2>1 DEF PackInv
    <3> HIDE DEF s
    <3> QED BY <2>1, <2>3, <3>1, <3>2, PackPut DEF CrcOk
  <2> QED BY <2>2, <2>4, <2>5, <2>6
<1>5. CASE FmtErase \/ GcErase
  <2>1. PICK v \in Sector : EraseSector(v)
    BY <1>5, VictimType DEF FmtErase, GcErase, Base, SafeInv, FrameInv
  <2>2. recs'[v] = <<>> /\ \A t \in Sector : t # v => recs'[t] = recs[t]
    BY <2>1, EraseEffect DEF Base
  <2> QED BY <2>2 DEF PackInv
<1> QED BY <1>a, <1>1, <1>2, <1>3, <1>4, <1>5 DEF Loud
-----------------------------------------------------------------------------
(* A sector takes what the collection has still to copy *)

LEMMA RoomKept ==
    ASSUME RoomInv, InVictim, Victim' = Victim, UNCHANGED <<magic, dirty>>,
           \A t \in Sector : t # Victim => /\ FreeFrom(t)' = FreeFrom(t)
                                           /\ store'[t] \in {store[t], STORE_EMPTY, STORE_USING},
           \A i \in DOMAIN recs'[Victim] : Uncopied(i)' =>
              i \in DOMAIN recs[Victim] /\ Uncopied(i) /\ recs'[Victim][i].at = recs[Victim][i].at,
           \A i \in DOMAIN recs'[Victim] :
              i < gc'.idx /\ Live(recs'[Victim][i]) => mv' = "gc" /\ IsOld(Victim, i)',
           pc' = "commit" => cur'.sec # Victim
    PROVE  RoomInv'
<1>1. PICK t \in Sector : TakesAll(t)
  BY DEF RoomInv
<1>2. t # Victim /\ store'[t] \in {STORE_EMPTY, STORE_USING} /\ FreeFrom(t)' = FreeFrom(t)
  BY <1>1 DEF TakesAll
<1>3. ASSUME NEW i \in DOMAIN recs'[Victim], Uncopied(i)' PROVE FreeFrom(t)' <= recs'[Victim][i].at
  BY <1>1, <1>2, <1>3 DEF TakesAll
<1>4. TakesAll(t)'
  BY <1>1, <1>2, <1>3 DEF TakesAll
<1> HIDE DEF IsOld
<1> QED BY <1>4 DEF RoomInv

\* A collection that marks a sector finds an empty one.
LEMMA RoomVisit ==
    ASSUME Base, SectorInv, OldInv, GcVisit
    PROVE  RoomInv'
<1> DEFINE v == FirstFrom(gc.base, GcVictims)
<1>1. /\ v \in Sector /\ HdrInfo(v).dirty \in {DIRTY_TRUE, DIRTY_GC}
      /\ Victim' = v /\ dirty'[v] = DIRTY_GC /\ \A s \in Sector : s # v => dirty'[s] = dirty[s]
  BY GcVisitForm DEF Base
<1> HIDE DEF v
<1>2. /\ pc = "gcVisit" /\ pc' = "gcScan" /\ UNCHANGED <<magic, store, recs, mv>> /\ gc'.idx = 1
      /\ mv = "no" /\ ~InVictim /\ CacheOk(secCache)
  BY Quietly DEF GcVisit, Moving, InVictim, Writing, Base, TypeInv, TypeOK, FrameType, GcType
<1>3. PICK t \in Sector : magic[t] /\ store[t] = STORE_EMPTY
  BY <1>2 DEF SectorInv, SomeSpare, Spare
<1>4. dirty[t] = DIRTY_FALSE /\ recs[t] = <<>>
  BY <1>3 DEF SectorInv, STORE_EMPTY, STORE_USING
<1>5. t # v
  BY <1>1, <1>2, <1>3, <1>4, InfoTold DEF DIRTY_FALSE, DIRTY_TRUE, DIRTY_GC
<1>6. FreeFrom(t)' = 0
  <2>1. ~(Owed /\ mv # "no")'
    BY <1>2
  <2>2. Fill(STORE_EMPTY, <<>>) = 0
    BY DEF Fill, STORE_EMPTY, STORE_USING
  <2> QED BY <1>2, <1>3, <1>4, <2>1, <2>2 DEF FreeFrom
<1>7. \A i \in DOMAIN recs'[v] : i >= 1 /\ recs'[v][i].at >= 0
  <2> SUFFICES ASSUME NEW i \in DOMAIN recs[v] PROVE i >= 1 /\ recs[v][i].at >= 0
    BY <1>2
  <2>1. recs[v] \in Seq(Rec)
    BY <1>1 DEF Base, TypeInv, TypeOK, FlashType
  <2>2. i \in Nat /\ i >= 1 /\ recs[v][i] \in Rec
    BY <2>1
  <2> QED BY <2>2 DEF Rec
<1>8. TakesAll(t)'
  BY <1>1, <1>2, <1>3, <1>4, <1>5, <1>6, <1>7 DEF TakesAll
<1>9. \A i \in DOMAIN recs'[v] : ~(i < gc'.idx)
  <2> SUFFICES ASSUME NEW i \in DOMAIN recs[v] PROVE ~(i < 1)
    BY <1>2
  <2>1. recs[v] \in Seq(Rec)
    BY <1>1 DEF Base, TypeInv, TypeOK, FlashType
  <2> QED BY <2>1
<1> QED BY <1>1, <1>2, <1>8, <1>9 DEF RoomInv

\* The walk goes on to the next record.
LEMMA RoomMove ==
    ASSUME Base, OldInv, RecordInv, RoomInv, GcMove
    PROVE  RoomInv'
<1>1. PICK i \in Nat : Takes(i)
  BY GcMoveForm
<1>2. /\ pc = "gcScan" /\ mv = "no" /\ UNCHANGED flash /\ pc' = "preDel" /\ mv' = "gc"
      /\ Victim \in Sector
  BY <1>1, Quietly, VictimType DEF GcMove, Takes, Base
<1>3. Victim' = Victim /\ gc'.idx = i + 1 /\ gc.idx \in Nat /\ old'.sec = Victim /\ old'.idx = i
      /\ old'.rec # NoRec /\ i >= gc.idx
  BY <1>1 DEF Takes, Victim, CrcOk, NoRec, Base, TypeInv, TypeOK, FrameType, GcType
<1>4. \A t \in Sector : FreeFrom(t)' = FreeFrom(t)
  BY <1>2 DEF FreeFrom, Owed, Writing, flash
<1>5. ASSUME NEW j \in DOMAIN recs[Victim], Live(recs[Victim][j]) PROVE j \in Nat /\ j >= i
  <2>1. j \in Nat
    BY <1>2, RecTyped DEF Base, TypeInv, TypeOK
  <2>2. ~(j < gc.idx)
    BY <1>2, <1>5 DEF RoomInv, InVictim
  <2>3. j >= gc.idx
    BY <1>3, <2>1, <2>2
  <2> QED BY <1>1, <1>5, <2>1, <2>3 DEF Takes
<1>6. \A j \in DOMAIN recs'[Victim] : Uncopied(j)' => Uncopied(j)
  <2> SUFFICES ASSUME NEW j \in DOMAIN recs[Victim], Live(recs[Victim][j]) PROVE j >= gc.idx
    BY <1>2, <1>3 DEF Uncopied, flash
  <2>1. j \in Nat /\ j >= i
    BY <1>5
  <2> QED BY <1>3, <2>1
<1>7. \A j \in DOMAIN recs'[Victim] : j < gc'.idx /\ Live(recs'[Victim][j]) => IsOld(Victim, j)'
  <2> SUFFICES ASSUME NEW j \in DOMAIN recs[Victim], j < i + 1, Live(recs[Victim][j]) PROVE j = i
    BY <1>2, <1>3 DEF IsOld, HasOld, flash
  <2>1. j \in Nat /\ j >= i
    BY <1>5
  <2> QED BY <2>1
<1>8. InVictim
  BY <1>2 DEF InVictim
<1> QED BY <1>2, <1>3, <1>4, <1>6, <1>7, <1>8, RoomKept DEF flash

\* alloc_kv takes a place for the record: no later one comes to lie before it.
LEMMA RoomAlloc ==
    ASSUME Base, CallInv, OldInv, PackInv, RoomInv, MvAlloc
    PROVE  RoomInv'
<1>1. /\ pc = "mvAlloc" /\ mv = "gc" /\ InVictim /\ HasOld /\ CanAlloc(old.rec.len) /\ old.rec.len \in Nat
      /\ UNCHANGED <<flash, mv, old, gc>>
  BY MoveFits DEF MvAlloc, OldInv, InVictim, Base, TypeInv, TypeOK, FrameType, OldType, Rec
<1>2. pc' = "status" /\ cur' = Allocated(old.rec.len, old.rec.key, old.rec.val)
  BY <1>1 DEF MvAlloc, OldInv, KV_WRITE, KV_PRE_DELETE
<1> DEFINE s == AllocSec(old.rec.len)
           i == old.idx
<1>3. s \in Sector /\ cur'.sec = s /\ cur'.len = old.rec.len /\ cur'.at = Fill(store[s], recs[s])
  <2>1. CacheOk(secCache)
    BY <1>1, Quietly DEF Writing
  <2>2. s \in Sector /\ FullInfo(s).empty = Fill(store[s], recs[s])
    BY <1>1, <2>1, AllocStore DEF Base
  <2> QED BY <1>2, <2>2 DEF Allocated
<1>4. /\ Victim \in Sector /\ old.sec = Victim /\ gc.idx = i + 1 /\ i \in DOMAIN recs[Victim]
      /\ recs[Victim][i] = [old.rec EXCEPT !.st = KV_PRE_DELETE] /\ old.rec \in Rec /\ CrcOk(old.rec)
  BY <1>1, VictimType DEF OldInv, OldStatus, Base, TypeInv, TypeOK, FrameType, OldType
<1>5. /\ recs[Victim][i].at = old.rec.at /\ recs[Victim][i].len = old.rec.len /\ Live(recs[Victim][i])
      /\ old.rec.at \in Nat
  BY <1>4 DEF Rec, Live, CrcOk
<1>6. Uncopied(i)
  BY <1>1, <1>4, <1>5 DEF Uncopied, IsOld
<1>7. PICK t \in Sector : TakesAll(t)
  BY <1>1 DEF RoomInv
<1> HIDE DEF s, i
<1>8. ASSUME NEW j \in DOMAIN recs[Victim], Uncopied(j)'
      PROVE  /\ Uncopied(j)
             /\ recs[Victim][i].at + recs[Victim][i].len <= recs[Victim][j].at /\ recs[Victim][j].at \in Nat
  <2>1. Live(recs[Victim][j]) /\ j >= gc.idx /\ Victim' = Victim
    BY <1>1, <1>2, <1>8 DEF Uncopied, flash, Victim
  <2>2. recs[Victim] \in Seq(Rec) /\ j \in Nat /\ i \in Nat /\ recs[Victim][j] \in Rec
    BY <1>4, RecTyped DEF Base, TypeInv, TypeOK, FlashType
  <2>3. i < j
    BY <1>4, <2>1, <2>2
  <2>4. recs[Victim][i].at + recs[Victim][i].len <= recs[Victim][j].at
    BY <1>4, <2>3 DEF PackInv
  <2>5. recs[Victim][j].at \in Nat
    BY <2>2 DEF Rec
  <2> QED BY <2>1, <2>4, <2>5 DEF Uncopied
<1>9. FreeFrom(t) = Fill(store[t], recs[t]) /\ Fill(store[t], recs[t]) \in Nat
  BY <1>1, FillType DEF FreeFrom, Owed, Writing, Base, TypeInv, TypeOK, FlashType
<1>10. Fill(store[t], recs[t]) <= old.rec.at
  BY <1>4, <1>5, <1>6, <1>7, <1>9 DEF TakesAll
<1>11. FreeFrom(t)' \in {Fill(store[t], recs[t]), Fill(store[t], recs[t]) + old.rec.len}
  BY <1>1, <1>2, <1>3 DEF FreeFrom, flash
<1>12. ASSUME NEW j \in DOMAIN recs[Victim], Uncopied(j)' PROVE FreeFrom(t)' <= recs[Victim][j].at
  BY <1>1, <1>5, <1>8, <1>9, <1>10, <1>11, <1>12
<1>13. Victim' = Victim
  BY <1>1 DEF Victim
<1>14. TakesAll(t)'
  BY <1>1, <1>7, <1>12, <1>13 DEF TakesAll, flash
<1>15. \A j \in DOMAIN recs'[Victim] : j < gc'.idx /\ Live(recs'[Victim][j]) => IsOld(Victim, j)'
  <2>1. \A j \in DOMAIN recs[Victim] : j < gc.idx /\ Live(recs[Victim][j]) => IsOld(Victim, j)
    BY <1>1 DEF RoomInv
  <2>2. UNCHANGED <<recs, old, gc>>
    BY <1>1 DEF flash
  <2> QED BY <1>13, <2>1, <2>2 DEF IsOld, HasOld
<1> QED BY <1>1, <1>2, <1>13, <1>14, <1>15 DEF RoomInv

\* The copy is written into a sector that is not the victim, as long as was said.
LEMMA RoomWrite ==
    ASSUME Base, SectorInv, CurInv, OldInv, RecordInv, RoomInv, mv = "gc",
           UpdateSecStatus \/ PreWrite \/ WriteMagic \/ WriteHdr \/ WriteBody \/ Commit
    PROVE  RoomInv'
<1>1. /\ UNCHANGED <<mv, gc, old, magic, dirty>> /\ Victim \in Sector /\ HasOld /\ cur.sec \in Sector
      /\ pc \in {"status", "preWrite", "magic", "header", "body", "commit"} /\ InVictim /\ Victim' = Victim
      /\ pc' \notin {"preDel", "preDirty", "mvAlloc"}
  BY VictimType DEF UpdateSecStatus, PreWrite, WriteMagic, WriteHdr, WriteBody, Commit, frame, OldInv, InVictim,
     Victim, Base, TypeInv, TypeOK, FrameType, CurType
<1>2. CASE UpdateSecStatus
  <2>1. /\ cur'.sec = cur.sec /\ store'[cur.sec] = STORE_USING
        /\ \A t \in Sector : t # cur.sec => store'[t] = store[t]
    BY <1>2, StatusUsing
  <2>2. cur'.at = cur.at /\ cur'.len = cur.len /\ UNCHANGED recs /\ pc = "status" /\ pc' = "preWrite"
    BY <1>2 DEF UpdateSecStatus, Base, TypeInv, TypeOK, FrameType, CurType
  <2>3. \A t \in Sector : FreeFrom(t)' = FreeFrom(t)
    BY <1>1, <2>1, <2>2 DEF FreeFrom, Owed, Writing
  <2>4. \A t \in Sector : store'[t] \in {store[t], STORE_EMPTY, STORE_USING}
    BY <2>1
  <2>5. \A i \in DOMAIN recs'[Victim] : Uncopied(i)' => Uncopied(i)
    BY <1>1, <2>2 DEF Uncopied, IsOld
  <2>6. \A i \in DOMAIN recs'[Victim] :
           i < gc'.idx /\ Live(recs'[Victim][i]) => mv' = "gc" /\ IsOld(Victim, i)'
    BY <1>1, <2>2 DEF RoomInv, IsOld, HasOld
  <2> QED BY <1>1, <2>2, <2>3, <2>4, <2>5, <2>6, RoomKept
<1>3. CASE PreWrite \/ WriteMagic \/ WriteHdr \/ WriteBody \/ Commit
  <2>1. UNCHANGED store /\ pc # "status"
    BY <1>3 DEF PreWrite, WriteMagic, WriteHdr, WriteBody, Commit
  <2>2. \A t \in Sector : t # cur.sec => recs'[t] = recs[t]
    <3>1. CASE PreWrite
      BY <3>1, AppendEffect DEF Base
    <3>2. CASE ~PreWrite
      <4>1. \E r : LastRec(r)
        BY <1>3, <3>2 DEF WriteMagic, WriteHdr, WriteBody, Commit
      <4> QED BY <4>1 DEF LastRec, Base, TypeInv, TypeOK, FlashType
    <3> QED BY <3>1, <3>2
  <2>3. cur.sec # Victim
    BY <1>1, <2>1 DEF RoomInv, Base, SafeInv, VictimInv, Writing
  <2>4. \A t \in Sector : t # Victim => FreeFrom(t)' = FreeFrom(t)
    <3>1. CASE PreWrite \/ WriteMagic \/ WriteHdr
      <4>1. Owed /\ Owed' /\ UNCHANGED cur
        BY <3>1 DEF PreWrite, WriteMagic, WriteHdr, Owed, Writing, frame
      <4> QED BY <1>1, <2>1, <2>2, <4>1 DEF FreeFrom
    <3>2. CASE WriteBody
      <4> DEFINE r == [CurRec EXCEPT !.key = cur.key, !.val = cur.val]
      <4>1. LastRec(r) /\ pc = "body" /\ pc' = "commit"
        BY <3>2 DEF WriteBody
      <4>2. Owed /\ ~Owed' /\ cur.len >= HdrLen
        BY <4>1 DEF Owed, Writing, Base, SafeInv, LengthInv
      <4>3. recs[cur.sec] # <<>> /\ CurRec.at = cur.at /\ CurRec.len = cur.len
        BY <4>1 DEF Base, SafeInv, LengthInv
      <4>4. CurRec \in Rec /\ cur \in CurType
        BY <1>1, <4>3, CurRecType DEF Base, TypeInv, TypeOK, FrameType
      <4>5. r \in Rec /\ r.at = cur.at /\ r.len = cur.len
        BY <4>3, <4>4 DEF Rec, CurType
      <4> HIDE DEF r
      <4>6. Fill(store[cur.sec], recs'[cur.sec]) = cur.at + cur.len
        BY <4>1, <4>2, <4>3, <4>5, LastRecFill DEF Base
      <4> QED BY <1>1, <2>1, <2>2, <4>2, <4>6 DEF FreeFrom
    <3>3. CASE Commit
      <4> DEFINE r == [CurRec EXCEPT !.st = WriteStatus(@, KV_WRITE)]
      <4>1. LastRec(r) /\ pc = "commit" /\ pc' = "delete" /\ UNCHANGED <<magic, store, dirty>>
        BY <1>1, <3>3 DEF Commit
      <4>2. ~Owed /\ ~Owed'
        BY <1>1, <4>1 DEF Owed, Writing
      <4>3. recs[cur.sec] # <<>>
        BY <4>1 DEF Base, SafeInv, LengthInv
      <4>4. CurRec \in Rec
        BY <1>1, <4>3, CurRecType DEF Base, TypeInv, TypeOK
      <4>5. r \in Rec /\ r.at = CurRec.at /\ r.len = CurRec.len
        <5>1. CurRec.st \in KvStatus
          BY <4>4 DEF Rec
        <5>2. WriteStatus(CurRec.st, KV_WRITE) \in KvStatus
          BY <5>1, StatusTypes DEF WriteStatus
        <5> QED BY <4>4, <5>2 DEF Rec
      <4> HIDE DEF r
      <4>6. SameEnds
        BY <4>1, <4>3, <4>5, LastRecEnds DEF Base
      <4> QED BY <1>1, <4>2, <4>6 DEF FreeFrom, SameEnds
    <3> QED BY <1>3, <3>1, <3>2, <3>3
  <2>5. \A i \in DOMAIN recs'[Victim] : Uncopied(i)' => Uncopied(i)
    BY <1>1, <2>2, <2>3 DEF Uncopied, IsOld
  <2>6. \A i \in DOMAIN recs'[Victim] :
           i < gc'.idx /\ Live(recs'[Victim][i]) => mv' = "gc" /\ IsOld(Victim, i)'
    BY <1>1, <2>2, <2>3 DEF RoomInv, IsOld, HasOld
  <2>7. pc' = "commit" => cur'.sec # Victim
    BY <1>3, <2>3 DEF PreWrite, WriteMagic, WriteHdr, WriteBody, Commit, frame
  <2> QED BY <1>1, <2>1, <2>2, <2>3, <2>4, <2>5, <2>6, <2>7, RoomKept
<1> QED BY <1>2, <1>3

\* The record is marked, and it is garbage once it is copied.
LEMMA RoomDelete ==
    ASSUME Base, OldInv, RoomInv, mv = "gc", PreDelete \/ Delete
    PROVE  RoomInv'
<1> DEFINE i == old.idx
<1>1. /\ HasOld /\ Victim \in Sector /\ old.sec = Victim /\ i \in DOMAIN recs[Victim] /\ old.rec \in Rec
      /\ OnlyAt(Victim, i) /\ CrcOk(old.rec) /\ recs[Victim][i] = [old.rec EXCEPT !.st = OldStatus]
      /\ PreDelete => OldStatus = KV_WRITE /\ recs'[Victim][i] = [old.rec EXCEPT !.st = KV_PRE_DELETE]
      /\ Delete => recs'[Victim][i] = [old.rec EXCEPT !.st = KV_DELETED]
  BY OldEffect, VictimType DEF OldInv, Base
<1> HIDE DEF i
<1>2. dirty[Victim] = DIRTY_GC /\ InVictim
  BY DEF Base, SafeInv, VictimInv, InVictim
<1>3. /\ UNCHANGED <<magic, store, dirty, gc, cur>> /\ Victim' = Victim
      /\ PreDelete => pc = "preDel" /\ pc' = "mvAlloc" /\ UNCHANGED <<mv, old>>
      /\ Delete => pc = "delete" /\ pc' = "gcScan" /\ mv' = "no" /\ old' = NoOld
  BY <1>1, <1>2 DEF PreDelete, Delete, SetKvStatus, AfterPreDel, AfterDelete, frame, Victim, DIRTY_FALSE, DIRTY_GC
<1>4. SameEnds
  <2>1. old.sec \in Sector /\ old.idx \in Nat /\ \E st \in KvStatus : SetKvStatus(old.sec, old.idx, st)
    BY StatusTypes DEF PreDelete, Delete, Base, TypeInv, TypeOK, FrameType, OldType
  <2> QED BY <2>1, SetKvStatusEnds DEF Base
<1>5. \A t \in Sector : FreeFrom(t)' = FreeFrom(t)
  BY <1>3, <1>4 DEF FreeFrom, SameEnds, Owed, Writing
<1>6. /\ recs[Victim][i].at = old.rec.at /\ recs'[Victim][i].at = old.rec.at
      /\ PreDelete => Live(recs[Victim][i])
      /\ Delete => ~Live(recs'[Victim][i])
  BY <1>1 DEF Rec, Live, CrcOk, KV_WRITE, KV_PRE_DELETE, KV_DELETED
<1>7. ASSUME NEW j \in DOMAIN recs'[Victim], j # i
      PROVE  j \in DOMAIN recs[Victim] /\ recs'[Victim][j] = recs[Victim][j] /\ ~IsOld(Victim, j)
  BY <1>1, <1>7 DEF OnlyAt, IsOld, i
<1>8. ASSUME NEW j \in DOMAIN recs'[Victim], Uncopied(j)'
      PROVE  j \in DOMAIN recs[Victim] /\ Uncopied(j) /\ recs'[Victim][j].at = recs[Victim][j].at
  <2>1. CASE j = i
    <3>1. PreDelete
      BY <1>3, <1>6, <1>8, <2>1 DEF Uncopied
    <3> QED BY <1>1, <1>3, <1>6, <2>1, <3>1 DEF Uncopied, IsOld, i
  <2>2. CASE j # i
    <3>1. ~IsOld(Victim, j)'
      BY <1>1, <1>3, <2>2 DEF IsOld, HasOld, NoOld, i
    <3> QED BY <1>3, <1>7, <1>8, <2>2, <3>1 DEF Uncopied
  <2> QED BY <2>1, <2>2
<1>9. ASSUME NEW j \in DOMAIN recs'[Victim], j < gc'.idx, Live(recs'[Victim][j])
      PROVE  mv' = "gc" /\ IsOld(Victim, j)'
  <2>1. j = i
    BY <1>2, <1>3, <1>7, <1>9 DEF RoomInv
  <2>2. PreDelete
    BY <1>6, <1>9, <2>1
  <2> QED BY <1>1, <1>3, <2>1, <2>2 DEF IsOld, HasOld, i
<1> QED BY <1>2, <1>3, <1>5, <1>8, <1>9, RoomKept

LEMMA RoomStep ==
    ASSUME Steady, Base, MapInv, Next
    PROVE  RoomInv'
<1> /\ CallInv /\ OldInv /\ SectorInv /\ RecordInv /\ CurInv /\ PackInv /\ RoomInv /\ NameInv
  BY DEF MapInv
<1>a. Quiet \/ Loud
  BY StepCases
<1>b. /\ ~Moving => mv = "no"
      /\ pc = "gcScan" => mv = "no"
  BY Quietly
<1>c. mv \in {"no", "gc"}
  BY DEF CallInv, Base, TypeInv, TypeOK, FrameType
<1>1. CASE GcVisit
  BY <1>1, RoomVisit
<1>2. CASE GcMove
  BY <1>2, RoomMove
<1>3. CASE MvAlloc
  BY <1>3, RoomAlloc
<1>4. CASE UpdateSecStatus \/ PreWrite \/ WriteMagic \/ WriteHdr \/ WriteBody \/ Commit
  <2>1. CASE mv = "gc"
    BY <1>4, <2>1, RoomWrite
  <2>2. CASE mv = "no"
    BY <1>4, <2>2 DEF UpdateSecStatus, PreWrite, WriteMagic, WriteHdr, WriteBody, Commit, frame, RoomInv, InVictim
  <2> QED BY <1>c, <2>1, <2>2
<1>5. CASE PreDelete \/ Delete
  <2>1. CASE mv = "gc"
    BY <1>5, <2>1, RoomDelete
  <2>2. CASE mv = "no"
    BY <1>5, <2>2 DEF PreDelete, Delete, AfterPreDel, AfterDelete, frame, RoomInv, InVictim
  <2> QED BY <1>c, <2>1, <2>2
<1>6. CASE MarkDirty
  <2>1. mv = "gc" => old.sec = Victim /\ dirty[Victim] = DIRTY_GC
    BY <1>6 DEF MarkDirty, OldInv, Base, SafeInv, VictimInv, InVictim
  <2>2. dirty[old.sec] = DIRTY_FALSE
    BY <1>6 DEF MarkDirty, Base, SafeInv, VictimInv
  <2>3. mv = "no"
    BY <1>c, <2>1, <2>2 DEF DIRTY_FALSE, DIRTY_GC
  <2> QED BY <1>6, <2>3 DEF MarkDirty, AfterPreDel, AfterDelete, RoomInv, InVictim
<1>7. CASE Booting \/ Filling \/ Calling \/ New \/ PostGc \/ FmtErase \/ FindOld
  <2>1. ~Moving /\ (UNCHANGED mv \/ mv' = "no") /\ pc' # "gcScan"
    BY <1>7 DEF Booting, Filling, Calling, New, FindOldest, CheckHdr, HdrDone, ResumeGcDone,
            RecoverKvDone, LoadEnd, FmtHdr, NextDefault, DefaultsDone, Set, Del, Get, SetDefault,
            Deinit, NewKv, NewKvGc, NewKvFull, PostGc, FmtErase, FindOld, StartGc, EndOp, frame, Moving
  <2> QED BY <1>b, <2>1 DEF RoomInv, InVictim
<1>8. CASE GcBegin \/ GcDone \/ GcFormat \/ GcNext \/ GcErase
  <2>1. GcReturn /\ (GcBegin \/ GcDone \/ GcNext) => pc' = "new" /\ UNCHANGED mv
    BY GcReturnForm DEF GcBegin, GcDone, GcNext
  <2>2. mv = "no" /\ mv' = "no" /\ pc' # "gcScan"
    BY <1>8, <1>b, <2>1 DEF GcBegin, GcDone, GcFormat, GcNext, GcErase, frame, Moving
  <2> QED BY <2>2 DEF RoomInv, InVictim
<1> QED BY <1>a, <1>1, <1>2, <1>3, <1>4, <1>5, <1>6, <1>7, <1>8 DEF Quiet, Loud, Collecting
-----------------------------------------------------------------------------
(* A name has one written record at most *)

\* No record becomes written, or stops being so.
NoneNew == \A s \in Sector : \A i \in DOMAIN recs'[s] : recs'[s][i].st = KV_WRITE =>
              i \in DOMAIN recs[s] /\ recs'[s][i] = recs[s][i]
NoneLost == \A s \in Sector : \A i \in DOMAIN recs[s] : recs[s][i].st = KV_WRITE =>
              i \in DOMAIN recs'[s] /\ recs'[s][i] = recs[s][i]

LEMMA NoneNewKeeps ==
    ASSUME NoneNew
    PROVE  /\ OneWritten => OneWritten'
           /\ \A k : ~Held(k) => ~Held(k)'
<1>1. OneWritten => OneWritten'
  BY DEF NoneNew, OneWritten
<1>2. \A k : ~Held(k) => ~Held(k)'
  BY DEF NoneNew, Held
<1> QED BY <1>1, <1>2

LEMMA NoneLostKeeps ==
    ASSUME NoneLost
    PROVE  \A k, v : HeldAs(k, v) => HeldAs(k, v)'
BY DEF NoneLost, HeldAs

\* Only the last write of a record makes it written, and only the marks on the
\* old one and the erasure make it stop.
LEMMA WritesForm ==
    ASSUME Base, CallInv, OldInv, RecordInv, SectorInv, DefaultInv, Quiet \/ Loud
    PROVE  /\ ~Commit => NoneNew
           /\ Quiet => NoneLost
           /\ Delete /\ OldStatus = KV_PRE_DELETE => NoneLost
<1>1. CASE Quiet
  <2>1. recs' = recs /\ ~Commit /\ ~Delete
    <3>1. recs' = recs /\ pc \notin Adding
      BY <1>1, QuietRecs
    <3>2. ASSUME Delete PROVE FALSE
      <4>1. pc = "delete"
        BY <3>2 DEF Delete
      <4> QED BY <1>1, <4>1 DEF Quiet, Booting, Filling, Collecting, Calling, FindOldest, CheckHdr, HdrDone,
            ResumeGcDone, RecoverKvDone, LoadEnd, FmtHdr, NextDefault, DefaultsDone, Set, Del, Get,
            SetDefault, Deinit, New, NewKv, NewKvGc, NewKvFull, FindOld, PostGc, GcBegin, GcVisit, GcDone,
            GcMove, GcFormat, GcNext, MarkDirty, UpdateSecStatus, MvAlloc
    <3> QED BY <3>1, <3>2 DEF Commit, Adding
  <2> QED BY <2>1 DEF NoneNew, NoneLost
<1>2. ASSUME NEW s \in Sector, NEW i \in DOMAIN recs[s], OnlyAt(s, i)
      PROVE  /\ recs'[s][i].st # KV_WRITE => NoneNew
             /\ recs[s][i].st # KV_WRITE => NoneLost
  BY <1>2 DEF OnlyAt, NoneNew, NoneLost
<1>3. CASE PreDelete \/ Delete
  <2>1. /\ old.sec \in Sector /\ old.idx \in DOMAIN recs[old.sec] /\ OnlyAt(old.sec, old.idx) /\ old.rec \in Rec
        /\ recs[old.sec][old.idx] = [old.rec EXCEPT !.st = OldStatus]
        /\ \E st \in {KV_PRE_DELETE, KV_DELETED} : recs'[old.sec][old.idx] = [old.rec EXCEPT !.st = st]
    BY <1>3, OldEffect
  <2>2. recs[old.sec][old.idx].st = OldStatus /\ recs'[old.sec][old.idx].st \in {KV_PRE_DELETE, KV_DELETED}
    BY <2>1 DEF Rec
  <2>3. KV_WRITE \notin {KV_PRE_DELETE, KV_DELETED}
    BY DEF KV_WRITE, KV_PRE_DELETE, KV_DELETED
  <2>4. NoneNew /\ (OldStatus = KV_PRE_DELETE => NoneLost)
    BY <1>2, <2>1, <2>2, <2>3
  <2>5. ~Quiet \/ NoneLost
    BY <1>1, <2>4, QuietRecs DEF NoneLost
  <2> QED BY <2>4, <2>5
<1>4. CASE PreWrite
  <2>1. LET s == cur.sec
            n == Len(recs[s]) + 1
        IN /\ s \in Sector /\ n \in Nat
           /\ DOMAIN recs'[s] = DOMAIN recs[s] \cup {n}
           /\ \A j \in DOMAIN recs[s] : recs'[s][j] = recs[s][j]
           /\ recs'[s][n] = Blank
           /\ \A t \in Sector : t # s => recs'[t] = recs[t]
    BY <1>4, AppendEffect DEF Base
  <2>2. Blank.st # KV_WRITE
    BY DEF Blank, KV_WRITE, KV_PRE_WRITE
  <2> HIDE DEF Blank
  <2>3. ASSUME NEW t \in Sector, NEW i \in DOMAIN recs'[t], recs'[t][i].st = KV_WRITE
        PROVE  i \in DOMAIN recs[t] /\ recs'[t][i] = recs[t][i]
    <3>1. CASE t = cur.sec
      BY <2>1, <2>2, <2>3, <3>1
    <3>2. CASE t # cur.sec
      BY <2>1, <3>2
    <3> QED BY <3>1, <3>2
  <2>4. ASSUME NEW t \in Sector, NEW i \in DOMAIN recs[t]
        PROVE  i \in DOMAIN recs'[t] /\ recs'[t][i] = recs[t][i]
    <3>1. CASE t = cur.sec
      BY <2>1, <3>1
    <3>2. CASE t # cur.sec
      BY <2>1, <3>2
    <3> QED BY <3>1, <3>2
  <2>5. NoneNew
    BY <2>3 DEF NoneNew
  <2>6. NoneLost
    BY <2>4 DEF NoneLost
  <2> QED BY <2>5, <2>6
<1>5. CASE WriteMagic \/ WriteHdr \/ WriteBody
  <2>1. pc \in {"magic", "header", "body"}
    BY <1>5 DEF WriteMagic, WriteHdr, WriteBody
  <2> DEFINE s == cur.sec
             n == Len(recs[s])
  <2>2. /\ s \in Sector /\ n \in DOMAIN recs[s] /\ IsNew(s, n) /\ recs[s][n] \in Rec /\ OnlyAt(s, n)
        /\ recs'[s][n] = CASE pc = "magic" -> [recs[s][n] EXCEPT !.len = HdrLen]
                           [] pc = "header" -> [recs[s][n] EXCEPT !.len = cur.len]
                           [] pc = "body" -> [recs[s][n] EXCEPT !.key = cur.key, !.val = cur.val]
                           [] pc = "commit" -> [recs[s][n] EXCEPT
                                !.st = WriteStatus(recs[s][n].st, KV_WRITE)]
    BY <1>5, WriterEffect DEF Base, SafeInv
  <2>3. recs[s][n].st = KV_PRE_WRITE
    BY <2>2 DEF RecordInv
  <2>4. recs'[s][n].st = recs[s][n].st
    BY <2>1, <2>2 DEF Rec
  <2> HIDE DEF s, n
  <2>5. recs'[s][n].st # KV_WRITE /\ recs[s][n].st # KV_WRITE
    BY <2>3, <2>4 DEF KV_WRITE, KV_PRE_WRITE
  <2>6. s \in Sector /\ n \in DOMAIN recs[s] /\ OnlyAt(s, n)
    BY <2>2
  <2>7. NoneNew /\ NoneLost
    BY <1>2, <2>5, <2>6
  <2> QED BY <2>7
<1>6. CASE Commit
  <2>1. pc = "commit" /\ ~Delete
    BY <1>6 DEF Commit, Delete
  <2>2. ~Quiet
    BY <2>1, QuietRecs DEF Adding
  <2> QED BY <1>6, <2>1, <2>2
<1>7. CASE FmtErase \/ GcErase
  <2>1. PICK v \in Sector : EraseSector(v)
    BY <1>7, VictimType DEF FmtErase, GcErase, Base, SafeInv, FrameInv
  <2>2. recs'[v] = <<>> /\ \A t \in Sector : t # v => recs'[t] = recs[t]
    BY <2>1, EraseEffect DEF Base
  <2>3. NoneNew
    BY <2>2 DEF NoneNew
  <2>4. ~Delete
    BY <1>7 DEF FmtErase, GcErase, Delete
  <2>5. ~Quiet \/ NoneLost
    BY QuietRecs DEF NoneLost
  <2> QED BY <2>3, <2>4, <2>5
<1> QED BY <1>1, <1>3, <1>4, <1>5, <1>6, <1>7 DEF Loud

\* The written record of a name was its only one.
LEMMA OldGone ==
    ASSUME Base, OldInv, OneWritten, NoneNew, PreDelete \/ Delete, OldStatus = KV_WRITE, NEW k, k = old.rec.key
    PROVE  ~Held(k)'
<1>1. /\ old.sec \in Sector /\ old.idx \in DOMAIN recs[old.sec] /\ old.rec \in Rec
      /\ recs[old.sec][old.idx] = [old.rec EXCEPT !.st = OldStatus]
      /\ \E st \in {KV_PRE_DELETE, KV_DELETED} : recs'[old.sec][old.idx] = [old.rec EXCEPT !.st = st]
  BY OldEffect
<1>2. /\ recs[old.sec][old.idx].st = KV_WRITE /\ recs[old.sec][old.idx].key = k
      /\ recs'[old.sec][old.idx].st \in {KV_PRE_DELETE, KV_DELETED}
  BY <1>1 DEF Rec
<1>3. ASSUME NEW s \in Sector, NEW i \in DOMAIN recs'[s], recs'[s][i].key = k, recs'[s][i].st = KV_WRITE
      PROVE  FALSE
  <2>1. i \in DOMAIN recs[s] /\ recs[s][i] = recs'[s][i]
    BY <1>3 DEF NoneNew
  <2>2. s = old.sec /\ i = old.idx
    <3>1. recs[s][i].st = KV_WRITE /\ recs[s][i].key = recs[old.sec][old.idx].key
      BY <1>2, <1>3, <2>1
    <3>2. old.sec \in Sector /\ old.idx \in DOMAIN recs[old.sec]
      BY <1>1
    <3> QED BY <1>2, <2>1, <3>1, <3>2 DEF OneWritten
  <2> QED BY <1>2, <1>3, <2>2 DEF KV_WRITE, KV_PRE_DELETE, KV_DELETED
<1> QED BY <1>3 DEF Held

\* The last write of a record makes it the one of its name.
LEMMA CommitHolds ==
    ASSUME Base, CallInv, OldInv, RecordInv, CurInv, UniqueInv, Commit
    PROVE  /\ OneWritten'
           /\ \A k, v : k = cur.key /\ v = cur.val => HeldAs(k, v)'
<1> DEFINE s == cur.sec
           n == Len(recs[s])
<1>1. pc = "commit"
  BY DEF Commit
<1>2. /\ s \in Sector /\ n \in DOMAIN recs[s] /\ IsNew(s, n) /\ recs[s][n] \in Rec /\ OnlyAt(s, n)
      /\ recs'[s][n] = [recs[s][n] EXCEPT !.st = WriteStatus(recs[s][n].st, KV_WRITE)]
  BY <1>1, WriterEffect DEF Base, SafeInv
<1>3. recs[s][n].st = KV_PRE_WRITE /\ recs[s][n].key = cur.key /\ recs[s][n].val = cur.val
  BY <1>1, <1>2 DEF RecordInv
<1>4. recs'[s][n].st = KV_WRITE /\ recs'[s][n].key = cur.key /\ recs'[s][n].val = cur.val
  BY <1>2, <1>3 DEF Rec, WriteStatus, KV_WRITE, KV_PRE_WRITE
<1>5. ~Held(cur.key)
  <2>1. mv \in {"no", "gc"} /\ (mv = "gc" => HasOld)
    BY DEF CallInv, OldInv, Base, TypeInv, TypeOK, FrameType
  <2>2. CASE HasOld
    <3>1. ~Held(old.rec.key)
      BY <1>1, <2>2 DEF UniqueInv, HeldInv
    <3>2. cur.key = old.rec.key
      BY <1>1, <2>2 DEF CurInv, OldInv
    <3> QED BY <3>1, <3>2
  <2>3. CASE ~HasOld
    <3>1. ~Held(op.key)
      BY <1>1, <2>3 DEF UniqueInv, HeldInv, Adding
    <3>2. cur.key = op.key
      BY <1>1, <2>1, <2>3 DEF CurInv
    <3> QED BY <3>1, <3>2
  <2> QED BY <2>2, <2>3
<1> HIDE DEF s, n
<1>6. \A k, v : k = cur.key /\ v = cur.val => HeldAs(k, v)'
  <2>1. n \in DOMAIN recs'[s]
    BY <1>2 DEF OnlyAt
  <2> QED BY <1>2, <1>4, <2>1 DEF HeldAs
<1>7. ASSUME NEW t \in Sector, NEW i \in DOMAIN recs'[t], recs'[t][i].st = KV_WRITE
      PROVE  \/ t = s /\ i = n
             \/ i \in DOMAIN recs[t] /\ recs'[t][i] = recs[t][i] /\ recs[t][i].st = KV_WRITE
                /\ recs[t][i].key # cur.key
  <2>1. i \in DOMAIN recs[t]
    BY <1>2 DEF OnlyAt
  <2>2. CASE t = s /\ i = n
    BY <2>2
  <2>3. CASE t # s \/ i # n
    <3>1. recs'[t][i] = recs[t][i]
      BY <1>2, <2>1, <2>3 DEF OnlyAt
    <3>2. recs[t][i].st = KV_WRITE
      BY <1>7, <3>1
    <3>3. recs[t][i].key # cur.key
      BY <1>5, <2>1, <3>2 DEF Held
    <3> QED BY <2>1, <3>1, <3>2, <3>3
  <2> QED BY <2>2, <2>3
<1>8. ASSUME NEW t \in Sector, NEW u \in Sector, NEW i \in DOMAIN recs'[t], NEW j \in DOMAIN recs'[u],
             recs'[t][i].st = KV_WRITE, recs'[u][j].st = KV_WRITE, recs'[t][i].key = recs'[u][j].key
      PROVE  t = u /\ i = j
  <2>1. \/ t = s /\ i = n
        \/ i \in DOMAIN recs[t] /\ recs'[t][i] = recs[t][i] /\ recs[t][i].st = KV_WRITE
           /\ recs[t][i].key # cur.key
    BY <1>7, <1>8
  <2>2. \/ u = s /\ j = n
        \/ j \in DOMAIN recs[u] /\ recs'[u][j] = recs[u][j] /\ recs[u][j].st = KV_WRITE
           /\ recs[u][j].key # cur.key
    BY <1>7, <1>8
  <2> QED BY <1>4, <1>8, <2>1, <2>2 DEF UniqueInv, OneWritten
<1>9. OneWritten'
  BY <1>8 DEF OneWritten
<1> QED BY <1>6, <1>9

LEMMA UniqueStep ==
    ASSUME Steady, Base, MapInv, Next
    PROVE  UniqueInv'
<1> /\ CallInv /\ OldInv /\ SectorInv /\ RecordInv /\ CurInv /\ NameInv /\ DefaultInv /\ UniqueInv
    /\ OneWritten /\ HeldInv
  BY DEF MapInv, UniqueInv
<1>a. Quiet \/ Loud
  BY StepCases
<1>b. /\ ~Moving => mv = "no" /\ ~HasOld
      /\ mv \in {"no", "gc"}
  BY Quietly DEF CallInv, Base, TypeInv, TypeOK, FrameType
<1>c. /\ ~Commit => NoneNew
      /\ Quiet => NoneLost
      /\ Delete /\ OldStatus = KV_PRE_DELETE => NoneLost
  BY <1>a, WritesForm
<1>d. /\ ~Commit => OneWritten'
      /\ ~Commit => \A k : ~Held(k) => ~Held(k)'
  BY <1>c, NoneNewKeeps
<1>e. NoneLost => \A k, v : HeldAs(k, v) => HeldAs(k, v)'
  BY NoneLostKeeps
<1>o. OneWritten'
  BY <1>d, CommitHolds
<1> SUFFICES HeldInv'
  BY <1>o DEF UniqueInv
<1>n. ASSUME pc' \notin Replacing \cup {"commit", "delete", "delDirty", "postGc"} PROVE HeldInv'
  BY <1>n DEF HeldInv, Replacing, Adding
<1> USE DEF Replacing, Adding
<1>1. CASE NewKv
  <2>1. pc = "new" /\ UNCHANGED <<op, old, mv>> /\ ~Commit /\ pc' = IF op.kind = "set" THEN "find" ELSE "status"
    BY <1>1 DEF NewKv, Commit
  <2>2. CASE op.kind = "set"
    BY <1>n, <2>1, <2>2
  <2>3. CASE op.kind # "set"
    <3>1. op.kind \in {"boot", "reset"} /\ ~HasOld
      BY <1>b, <2>1, <2>3 DEF CallInv, Moving
    <3>2. op.i \in DOMAIN Defaults /\ op.key = Defaults[op.i][1]
      BY <2>1, <3>1 DEF DefaultInv, Resetting
    <3>3. \A s \in Sector : \A i \in DOMAIN recs[s] : recs[s][i].key # op.key
      BY <2>1, <3>1, <3>2 DEF DefaultInv, IsNew
    <3>4. ~Held(op.key)
      BY <3>3 DEF Held
    <3>5. ~Held(op.key)'
      BY <1>d, <2>1, <3>4 DEF Held
    <3>6. ~HasOld'
      BY <2>1, <3>1 DEF HasOld
    <3> QED BY <2>1, <2>3, <3>5, <3>6 DEF HeldInv
  <2> QED BY <2>2, <2>3
<1>2. CASE FindOld
  <2>1. pc = "find" /\ op.kind \in {"set", "del"} /\ mv = "no" /\ ~HasOld /\ ~Commit
    BY <1>2, <1>b, FindOldForm DEF FindOld, Moving, Commit
  <2>2. CASE FindsNothing
    <3>1. CASE op.kind = "set"
      <4>1. UNCHANGED <<op, old, mv>> /\ pc' = "status" /\ ~Held(op.key)
        BY <2>2, <3>1 DEF FindsNothing
      <4>2. ~Held(op.key)' /\ ~HasOld'
        BY <1>d, <2>1, <4>1 DEF Held, HasOld
      <4> QED BY <4>1, <4>2 DEF HeldInv
    <3>2. CASE op.kind # "set"
      BY <1>n, <2>2, <3>2 DEF FindsNothing, EndOp
    <3> QED BY <3>1, <3>2
  <2>3. ASSUME NEW s \in Sector, NEW i \in Nat, Finds(s, i) PROVE HeldInv'
    <3>1. UNCHANGED <<op, mv>> /\ pc' = IF op.kind = "set" THEN "preDel" ELSE "delete"
      BY <2>3 DEF Finds
    <3> QED BY <2>1, <3>1 DEF HeldInv
  <2> QED BY <1>2, <2>2, <2>3, FindOldForm
<1>3. CASE PreDelete
  <2>1. OldStatus = KV_WRITE /\ HasOld /\ ~Commit
    BY <1>3, OldEffect DEF PreDelete, Commit
  <2>2. UNCHANGED <<op, old, mv>> /\ pc' \in {"preDirty", "status", "mvAlloc"}
    BY <1>3 DEF PreDelete, AfterPreDel, frame
  <2>3. \A k : k = old.rec.key => ~Held(k)'
    BY <1>3, <1>c, <2>1, OldGone
  <2>4. ~Held(old.rec.key)' /\ HasOld'
    BY <2>1, <2>2, <2>3 DEF Held, HasOld
  <2> QED BY <2>2, <2>4 DEF HeldInv
<1>4. CASE MarkDirty
  <2>1. HasOld /\ pc \in {"preDirty", "delDirty"} /\ UNCHANGED op /\ ~Commit /\ Quiet
    BY <1>4 DEF MarkDirty, OldInv, Commit, Quiet
  <2>2. CASE pc = "preDirty"
    <3>1. UNCHANGED <<old, mv>> /\ pc' \in {"status", "mvAlloc"}
      BY <1>4, <2>2 DEF MarkDirty, AfterPreDel
    <3>2. ~Held(old.rec.key)
      BY <2>1, <2>2 DEF HeldInv
    <3>3. ~Held(old.rec.key)' /\ HasOld'
      BY <1>d, <2>1, <3>1, <3>2 DEF Held, HasOld
    <3> QED BY <3>1, <3>3 DEF HeldInv
  <2>3. CASE pc = "delDirty"
    <3>1. pc' = AfterDelete /\ mv' = "no"
      BY <1>4, <2>3 DEF MarkDirty
    <3>2. CASE mv = "gc"
      BY <1>n, <3>1, <3>2 DEF AfterDelete
    <3>3. CASE mv = "no"
      <4>1. pc' = "postGc"
        BY <3>1, <3>3 DEF AfterDelete
      <4>2. CASE op.kind = "set"
        <5>1. HeldAs(op.key, op.val)
          BY <2>3, <3>3, <4>2 DEF HeldInv
        <5>2. HeldAs(op.key, op.val)'
          BY <1>c, <1>e, <2>1, <5>1 DEF HeldAs
        <5> QED BY <2>1, <4>1, <4>2, <5>2 DEF HeldInv
      <4>3. CASE op.kind # "set"
        <5>1. ~Held(op.key)
          BY <2>3, <3>3, <4>3 DEF HeldInv
        <5>2. ~Held(op.key)'
          BY <1>d, <2>1, <5>1 DEF Held
        <5> QED BY <2>1, <4>1, <4>3, <5>2 DEF HeldInv
      <4> QED BY <4>2, <4>3
    <3> QED BY <1>b, <3>2, <3>3
  <2> QED BY <2>1, <2>2, <2>3
<1>5. CASE UpdateSecStatus \/ MvAlloc \/ PreWrite \/ WriteMagic \/ WriteHdr \/ WriteBody
  <2>1. /\ UNCHANGED <<old, mv, op>> /\ ~Commit
        /\ pc \in {"status", "mvAlloc", "preWrite", "magic", "header", "body"}
        /\ pc = "mvAlloc" => HasOld
    BY <1>5 DEF UpdateSecStatus, MvAlloc, PreWrite, WriteMagic, WriteHdr, WriteBody, Commit, frame, OldInv
  <2>2. pc' \in {"status", "preWrite", "magic", "header", "body", "commit"}
    <3>1. ~(inRec /\ old.rec.st = KV_PRE_DELETE /\ Written(old.rec.key) # {}) \/ ~HasOld
      BY DEF OldInv, KV_WRITE, KV_PRE_DELETE
    <3>2. MvAlloc => pc' = "status"
      BY <3>1 DEF OldInv, MvAlloc
    <3> QED BY <1>5, <3>2 DEF UpdateSecStatus, PreWrite, WriteMagic, WriteHdr, WriteBody
  <2>3. HasOld' <=> HasOld
    BY <2>1 DEF HasOld
  <2>4. HasOld => ~Held(old.rec.key)'
    <3>1. HasOld => ~Held(old.rec.key)
      BY <2>1 DEF HeldInv
    <3> QED BY <1>d, <2>1, <3>1 DEF Held
  <2>5. ~HasOld => ~Held(op.key)'
    <3>1. ~HasOld => ~Held(op.key)
      BY <2>1 DEF HeldInv
    <3> QED BY <1>d, <2>1, <3>1 DEF Held
  <2> QED BY <2>1, <2>2, <2>3, <2>4, <2>5 DEF HeldInv
<1>6. CASE Commit
  <2>1. /\ pc = "commit" /\ UNCHANGED <<old, mv, op>>
        /\ pc' = IF mv # "no" \/ HasOld THEN "delete" ELSE IF op.kind = "set" THEN "postGc" ELSE "nextDef"
    BY <1>6 DEF Commit
  <2>2. \A k, v : k = cur.key /\ v = cur.val => HeldAs(k, v)'
    BY <1>6, CommitHolds
  <2>3. CASE mv = "gc"
    <3>1. cur.key = old.rec.key /\ cur.val = old.rec.val
      BY <2>1, <2>3 DEF CurInv
    <3>2. HeldAs(old.rec.key, old.rec.val)'
      BY <2>1, <2>2, <3>1 DEF HeldAs
    <3> QED BY <2>1, <2>3, <3>2 DEF HeldInv
  <2>4. CASE mv = "no"
    <3>1. cur.key = op.key /\ cur.val = op.val
      BY <2>1, <2>4 DEF CurInv
    <3>2. HeldAs(op.key, op.val)'
      BY <2>1, <2>2, <3>1 DEF HeldAs
    <3>3. pc' = "nextDef" \/ op.kind = "set"
      BY <2>1, <2>4 DEF CallInv
    <3> QED BY <2>1, <2>4, <3>2, <3>3 DEF HeldInv
  <2> QED BY <1>b, <2>3, <2>4
<1>7. CASE Delete
  <2>1. /\ pc = "delete" /\ UNCHANGED op /\ HasOld /\ ~Commit
        /\ \/ pc' = "delDirty" /\ UNCHANGED <<old, mv>>
           \/ pc' = AfterDelete /\ mv' = "no"
    BY <1>7 DEF Delete, OldInv, Commit
  <2>2. CASE mv = "gc"
    BY <2>1, <2>2 DEF HeldInv, AfterDelete
  <2>3. CASE mv = "no"
    <3>1. pc' \in {"delDirty", "postGc"} /\ mv' = "no"
      BY <2>1, <2>3 DEF AfterDelete
    <3>2. CASE op.kind = "set"
      <4>1. HeldAs(op.key, op.val)
        BY <2>1, <2>3, <3>2 DEF HeldInv
      <4>2. OldStatus = KV_PRE_DELETE
        BY <2>1, <3>2 DEF OldStatus
      <4>3. HeldAs(op.key, op.val)'
        BY <1>7, <1>c, <1>e, <2>1, <4>1, <4>2 DEF HeldAs
      <4> QED BY <2>1, <3>1, <3>2, <4>3 DEF HeldInv
    <3>3. CASE op.kind # "set"
      <4>1. op.kind = "del" /\ old.rec.key = op.key
        BY <2>1, <2>3, <3>3 DEF CallInv, OldInv
      <4>2. OldStatus = KV_WRITE
        BY <2>1, <2>3, <4>1 DEF OldStatus
      <4>3. \A k : k = old.rec.key => ~Held(k)'
        BY <1>7, <1>c, <2>1, <4>2, OldGone
      <4>4. ~Held(op.key)'
        BY <2>1, <4>1, <4>3 DEF Held
      <4> QED BY <2>1, <3>1, <3>3, <4>4 DEF HeldInv
    <3> QED BY <3>2, <3>3
  <2> QED BY <1>b, <2>2, <2>3
\* The other steps end where nothing is said of a name.
<1>8. CASE Booting \/ Filling \/ Calling \/ NewKvGc \/ NewKvFull \/ PostGc
  <2>1. pc' \notin {"preDirty", "mvAlloc", "status", "preWrite", "magic", "header", "body",
                    "commit", "delete", "delDirty", "postGc"}
    <3>1. CASE Booting \/ Filling
      BY <3>1 DEF Booting, Filling, FindOldest, CheckHdr, HdrDone,
        ResumeGcDone, RecoverKvDone, LoadEnd, FmtHdr, NextDefault, DefaultsDone, EndOp
    <3>2. CASE Calling
      <4>1. ASSUME NEW k \in Key, NEW v \in Val, Set(k, v) \/ Del(k) \/ Get(k)
            PROVE  pc' \in {"new", "find", "idle"}
        BY <4>1 DEF Set, Del, Get
      <4>2. ASSUME NEW k \in Key, Del(k) \/ Get(k) PROVE pc' \in {"find", "idle"}
        BY <4>2 DEF Del, Get
      <4>3. SetDefault \/ Deinit => pc' \in {"fmtErase", "down"}
        BY DEF SetDefault, Deinit
      <4> QED BY <3>2, <4>1, <4>2, <4>3 DEF Calling
    <3>3. CASE NewKvGc \/ NewKvFull \/ PostGc
      BY <3>3 DEF NewKvGc, NewKvFull, PostGc, StartGc, EndOp
    <3> QED BY <1>8, <3>1, <3>2, <3>3
  <2> QED BY <1>n, <2>1
<1>9. CASE Collecting \/ FmtErase \/ GcErase
  <2>1. GcReturn /\ (GcBegin \/ GcDone \/ GcNext) => pc' = "new"
    BY GcReturnForm DEF GcBegin, GcDone, GcNext
  <2>2. CASE GcBegin \/ GcDone \/ GcNext
    BY <1>n, <2>1, <2>2 DEF GcBegin, GcDone, GcNext
  <2>3. CASE ~(GcBegin \/ GcDone \/ GcNext)
    <3>1. pc' \in {"gcScan", "preDel", "gcNext", "fmtHdr", "gcFormat"}
      <4>1. GcMove => pc' = "preDel"
        BY GcMoveForm DEF Takes
      <4> QED BY <1>9, <2>3, <4>1 DEF Collecting, GcVisit, GcFormat, FmtErase, GcErase
    <3> QED BY <1>n, <3>1
  <2> QED BY <2>2, <2>3
<1> QED BY <1>a, <1>1, <1>2, <1>3, <1>4, <1>5, <1>6, <1>7, <1>8, <1>9 DEF Quiet, Loud, New
-----------------------------------------------------------------------------
(* The defaults *)

\* No record gets a name, but for the one whose name is written.
KeysKept == \A s \in Sector : \A i \in DOMAIN recs'[s] :
               \/ recs'[s][i].key = NoKey
               \/ i \in DOMAIN recs[s] /\ recs[s][i].key = recs'[s][i].key
LEMMA KeysForm ==
    ASSUME Base, OldInv, SectorInv, DefaultInv, Quiet \/ Loud, ~WriteBody
    PROVE  KeysKept
<1>1. CASE Quiet
  BY <1>1, QuietRecs DEF KeysKept
<1>2. ASSUME NEW s \in Sector, NEW i \in DOMAIN recs[s], OnlyAt(s, i), recs'[s][i].key = recs[s][i].key
      PROVE  KeysKept
  BY <1>2 DEF OnlyAt, KeysKept
<1>3. CASE PreDelete \/ Delete
  <2>1. /\ old.sec \in Sector /\ old.idx \in DOMAIN recs[old.sec] /\ OnlyAt(old.sec, old.idx) /\ old.rec \in Rec
        /\ recs[old.sec][old.idx] = [old.rec EXCEPT !.st = OldStatus]
        /\ \E st \in {KV_PRE_DELETE, KV_DELETED} : recs'[old.sec][old.idx] = [old.rec EXCEPT !.st = st]
    BY <1>3, OldEffect
  <2>2. recs[old.sec][old.idx].key = old.rec.key /\ recs'[old.sec][old.idx].key = old.rec.key
    BY <2>1 DEF Rec
  <2> QED BY <1>2, <2>1, <2>2
<1>4. CASE PreWrite
  <2>1. LET s == cur.sec
            n == Len(recs[s]) + 1
        IN /\ s \in Sector /\ n \in Nat
           /\ DOMAIN recs'[s] = DOMAIN recs[s] \cup {n}
           /\ \A j \in DOMAIN recs[s] : recs'[s][j] = recs[s][j]
           /\ recs'[s][n] = Blank
           /\ \A t \in Sector : t # s => recs'[t] = recs[t]
    BY <1>4, AppendEffect DEF Base
  <2>2. Blank.key = NoKey
    BY DEF Blank
  <2>3. ASSUME NEW t \in Sector, NEW i \in DOMAIN recs'[t], recs'[t][i].key # NoKey
        PROVE  i \in DOMAIN recs[t] /\ recs[t][i].key = recs'[t][i].key
    <3>1. CASE t = cur.sec
      BY <2>1, <2>2, <2>3, <3>1
    <3>2. CASE t # cur.sec
      BY <2>1, <3>2
    <3> QED BY <3>1, <3>2
  <2> QED BY <2>3 DEF KeysKept
<1>5. CASE WriteMagic \/ WriteHdr \/ Commit
  <2> DEFINE s == cur.sec
             n == Len(recs[s])
  <2>1. pc \in {"magic", "header", "commit"}
    BY <1>5 DEF WriteMagic, WriteHdr, Commit
  <2>2. /\ s \in Sector /\ n \in DOMAIN recs[s] /\ recs[s][n] \in Rec /\ OnlyAt(s, n)
        /\ recs'[s][n] = CASE pc = "magic" -> [recs[s][n] EXCEPT !.len = HdrLen]
                           [] pc = "header" -> [recs[s][n] EXCEPT !.len = cur.len]
                           [] pc = "body" -> [recs[s][n] EXCEPT !.key = cur.key, !.val = cur.val]
                           [] pc = "commit" -> [recs[s][n] EXCEPT
                                !.st = WriteStatus(recs[s][n].st, KV_WRITE)]
    BY <1>5, WriterEffect DEF Base, SafeInv
  <2>3. recs'[s][n].key = recs[s][n].key
    BY <2>1, <2>2 DEF Rec
  <2> HIDE DEF s, n
  <2>4. s \in Sector /\ n \in DOMAIN recs[s] /\ OnlyAt(s, n)
    BY <2>2
  <2> QED BY <1>2, <2>3, <2>4
<1>6. CASE FmtErase \/ GcErase
  <2>1. PICK v \in Sector : EraseSector(v)
    BY <1>6, VictimType DEF FmtErase, GcErase, Base, SafeInv, FrameInv
  <2>2. recs'[v] = <<>> /\ \A t \in Sector : t # v => recs'[t] = recs[t]
    BY <2>1, EraseEffect DEF Base
  <2> QED BY <2>2 DEF KeysKept
<1> QED BY <1>1, <1>3, <1>4, <1>5, <1>6 DEF Loud

\* While fdb_kv_set_default runs, its own frame changes in its own loops only.
LEMMA DefaultFrame ==
    ASSUME Base, CallInv, OldInv, Quiet \/ Loud, ~HdrDone, ~SetDefault, ~Filling, ~FmtErase,
           op'.kind \in {"boot", "reset"}
    PROVE  /\ op.kind \in {"boot", "reset"}
           /\ op'.i = op.i /\ op'.key = op.key /\ op'.val = op.val
           /\ pc \notin Resetting /\ pc' \notin {"fmtErase", "fmtHdr"}
<1> USE DEF NoCall, Resetting
<1>1. NoOp.kind = "none"
  BY DEF NoOp
<1>2. ~Booting
  BY <1>1 DEF Booting, CallInv, FindOldest, CheckHdr, ResumeGcDone, RecoverKvDone, LoadEnd, frame
<1>3. ~Calling
  <2>1. ASSUME NEW k \in Key, NEW v, Set(k, v) \/ Del(k) PROVE FALSE
    BY <2>1 DEF Set, Del, NoOp
  <2>2. ASSUME NEW k \in Key, Get(k) \/ Deinit PROVE FALSE
    BY <2>2 DEF Get, Deinit, CallInv, frame
  <2>3. Deinit => FALSE
    BY DEF Deinit, CallInv
  <2> QED BY <2>1, <2>2, <2>3 DEF Calling
<1>4. ~FindOld /\ ~PostGc
  <2>1. \A ok : EndOp(ok) => op'.kind = "none"
    BY <1>1 DEF EndOp
  <2> QED BY <2>1 DEF FindOld, PostGc, CallInv, StartGc
<1>5. CASE New
  <2>1. UNCHANGED op \/ op' = [op EXCEPT !.again = TRUE]
    BY <1>1, <1>5 DEF New, NewKv, NewKvGc, NewKvFull, EndOp
  <2>2. op'.kind = op.kind /\ op'.i = op.i /\ op'.key = op.key /\ op'.val = op.val
    BY <2>1 DEF Base, TypeInv, TypeOK, FrameType, OpType
  <2>3. pc = "new" /\ pc' \notin {"fmtErase", "fmtHdr"}
    BY <1>5 DEF New, NewKv, NewKvGc, NewKvFull, EndOp, StartGc
  <2> QED BY <2>2, <2>3
<1>6. CASE Collecting \/ GcErase
  <2>1. GcReturn /\ (GcBegin \/ GcDone \/ GcNext) => pc' = "new" /\ UNCHANGED op
    BY GcReturnForm DEF GcBegin, GcDone, GcNext
  <2>2. UNCHANGED op /\ pc \notin Resetting /\ pc' \notin {"fmtErase", "fmtHdr"}
    <3>1. CASE GcBegin \/ GcDone \/ GcNext
      BY <2>1, <3>1 DEF GcBegin, GcDone, GcNext
    <3>2. CASE GcVisit \/ GcMove \/ GcFormat \/ GcErase
      BY <3>2 DEF GcVisit, GcMove, Move, GcFormat, GcErase, frame
    <3> QED BY <1>6, <3>1, <3>2 DEF Collecting
  <2> QED BY <2>2
<1>7. CASE MarkDirty \/ UpdateSecStatus \/ MvAlloc \/ PreDelete \/ Delete
  <2>1. AfterDelete \in {"gcScan", "recKv", "postGc"}
    BY DEF AfterDelete
  <2>2. UNCHANGED op /\ pc \notin Resetting /\ pc' \notin {"fmtErase", "fmtHdr"}
    BY <1>7, <2>1 DEF MarkDirty, UpdateSecStatus, MvAlloc, PreDelete, Delete, AfterPreDel, frame
  <2> QED BY <2>2
<1>8. CASE PreWrite \/ WriteMagic \/ WriteHdr \/ WriteBody \/ Commit
  <2>1. UNCHANGED op /\ pc \notin Resetting /\ pc' \notin {"fmtErase", "fmtHdr"}
    BY <1>8 DEF PreWrite, WriteMagic, WriteHdr, WriteBody, Commit, frame
  <2> QED BY <2>1
<1> QED BY <1>2, <1>3, <1>4, <1>5, <1>6, <1>7, <1>8 DEF Quiet, Loud

LEMMA DefaultStep ==
    ASSUME Steady, Base, MapInv, Next
    PROVE  DefaultInv'
<1> /\ CallInv /\ OldInv /\ SectorInv /\ RecordInv /\ CurInv /\ DefaultInv
  BY DEF MapInv
<1>a. Quiet \/ Loud
  BY StepCases
<1>c. CallInv'
  BY CallStep
<1>k. /\ \A j \in DOMAIN Defaults : Defaults[j][1] \in Key
      /\ DOMAIN Defaults = 1 .. Len(Defaults) /\ Len(Defaults) \in Nat
  BY DefaultsAssumption
<1>t. /\ recs \in [Sector -> Seq(Rec)] /\ op \in OpType /\ scan \in ScanType
  BY DEF Base, TypeInv, TypeOK, FlashType, FrameType
<1>1. CASE op'.kind \notin {"boot", "reset"}
  <2>1. pc' \notin Resetting
    BY <1>1, <1>c DEF CallInv
  <2> QED BY <1>1, <2>1 DEF DefaultInv, Resetting
<1>2. CASE op'.kind \in {"boot", "reset"} /\ HdrDone
  <2>1. pc = "hdr" /\ UNCHANGED flash
    BY <1>2 DEF HdrDone
  <2>2. scan.bad = SecNum
    BY <1>2, <2>1 DEF HdrDone, CallInv, NoCall
  <2>3. pc' = "fmtErase" /\ op' = [NoOp EXCEPT !.kind = "boot"]
    BY <1>2, <2>2 DEF HdrDone
  <2>4. scan.n = SecNum
    <3>1. scan.bad <= scan.n /\ scan.n <= SecNum /\ scan.n \in Nat
      BY <1>t, <2>1 DEF SectorInv, ScanType
    <3> QED BY <2>2, <3>1, SecNumAssumption
  <2>5. \A s \in Sector : recs'[s] = <<>>
    <3> SUFFICES ASSUME NEW s \in Sector PROVE recs'[s] = <<>>
      OBVIOUS
    <3>1. Rank(scan.base, s) \in 0 .. SecNum - 1
      BY <1>t, RankType DEF ScanType, Sector
    <3>2. Rank(scan.base, s) < scan.n
      BY <2>4, <3>1, SecNumAssumption
    <3> QED BY <2>1, <2>2, <2>4, <3>2 DEF SectorInv, flash
  <2>6. op'.i = 0
    BY <2>3 DEF NoOp
  <2> QED BY <2>3, <2>5, <2>6 DEF DefaultInv, Resetting
<1>3. CASE SetDefault
  <2>1. pc' = "fmtErase" /\ scan'.n = 0 /\ op'.i = 0 /\ op'.kind = "reset"
    BY <1>3 DEF SetDefault, NoScan, NoOp
  <2>2. \A s \in Sector : ~(s < scan'.n)
    BY <2>1 DEF Sector
  <2> QED BY <2>1, <2>2 DEF DefaultInv, Resetting
<1>4. CASE FmtErase
  <2>1. scan.n \in Sector /\ EraseSector(scan.n) /\ pc = "fmtErase" /\ pc' = "fmtHdr" /\ UNCHANGED <<op, scan>>
    BY <1>4 DEF FmtErase, Base, SafeInv, FrameInv, frame
  <2>2. recs'[scan.n] = <<>> /\ \A t \in Sector : t # scan.n => recs'[t] = recs[t]
    BY <2>1, EraseEffect DEF Base
  <2> QED BY <2>1, <2>2 DEF DefaultInv, Resetting
<1>5. CASE FmtHdr
  <2>1. scan.n \in Sector /\ pc = "fmtHdr" /\ UNCHANGED op /\ recs' = recs /\ op.i = 0
    BY <1>5, <1>a, QuietRecs DEF FmtHdr, Base, SafeInv, FrameInv, Quiet, Filling, DefaultInv
  <2>2. \A s \in Sector : s < scan.n + 1 => recs'[s] = <<>>
    <3> SUFFICES ASSUME NEW s \in Sector, s < scan.n + 1 PROVE recs[s] = <<>>
      BY <2>1
    <3>1. s < scan.n \/ s = scan.n
      BY <2>1 DEF Sector
    <3> QED BY <2>1, <3>1 DEF DefaultInv
  <2>3. CASE scan.n + 1 < SecNum
    <3>1. pc' = "fmtErase" /\ scan'.n = scan.n + 1
      BY <1>5, <1>t, <2>3 DEF FmtHdr, ScanType
    <3>2. op.kind = "boot" => \A s \in Sector : recs[s] = <<>>
      BY <2>1 DEF DefaultInv
    <3> QED BY <2>1, <2>2, <3>1, <3>2 DEF DefaultInv, Resetting
  <2>4. CASE ~(scan.n + 1 < SecNum)
    <3>1. pc' = "nextDef"
      BY <1>5, <2>4 DEF FmtHdr
    <3>2. \A s \in Sector : s < scan.n + 1
      BY <2>1, <2>4, SecNumAssumption DEF Sector
    <3>3. \A s \in Sector : recs'[s] = <<>>
      BY <2>2, <3>2
    <3>4. op'.i <= Len(Defaults)
      BY <1>k, <2>1
    <3> QED BY <3>1, <3>3, <3>4 DEF DefaultInv, Resetting
  <2> QED BY <2>3, <2>4
<1>6. CASE NextDefault
  <2>1. /\ pc = "nextDef" /\ pc' = "new" /\ op.i < Len(Defaults) /\ recs' = recs /\ op'.kind = op.kind
        /\ op'.i = op.i + 1 /\ op'.key = Defaults[op.i + 1][1] /\ op'.val = Defaults[op.i + 1][2]
    BY <1>6, <1>t DEF NextDefault, OpType, flash
  <2>2. op.i \in Nat /\ op'.i \in DOMAIN Defaults /\ op'.i <= Len(Defaults)
    BY <1>k, <1>t, <2>1 DEF OpType
  <2>3. op.kind \in {"boot", "reset"}
    BY <2>1 DEF CallInv, Resetting
  <2>4. ASSUME NEW j \in DOMAIN Defaults, j > op'.i \/ j = op'.i, NEW s \in Sector, NEW i \in DOMAIN recs'[s]
        PROVE  recs'[s][i].key # Defaults[j][1]
    <3>1. j > op.i /\ j # op.i
      BY <1>k, <2>1, <2>2, <2>4
    <3> QED BY <2>1, <2>3, <2>4, <3>1 DEF DefaultInv
  <2> QED BY <2>1, <2>2, <2>4 DEF DefaultInv, Resetting
<1>7. CASE op'.kind \in {"boot", "reset"} /\ ~HdrDone /\ ~SetDefault /\ ~FmtErase /\ ~Filling
  <2>1. /\ op.kind \in {"boot", "reset"} /\ op'.i = op.i /\ op'.key = op.key /\ op'.val = op.val
        /\ pc \notin Resetting /\ pc' \notin {"fmtErase", "fmtHdr"}
    BY <1>7, <1>a, DefaultFrame
  <2>2. /\ op.i \in DOMAIN Defaults /\ op.key = Defaults[op.i][1] /\ op.val = Defaults[op.i][2]
        /\ op.i <= Len(Defaults)
    BY <2>1 DEF DefaultInv, Resetting
  <2>3. ASSUME NEW j \in DOMAIN Defaults, j > op.i \/ j = op.i, NEW s \in Sector, NEW i \in DOMAIN recs[s],
               recs[s][i].key = Defaults[j][1]
        PROVE  j = op.i /\ mv = "no" /\ pc = "commit" /\ IsNew(s, i)
    <3>1. j = op.i /\ mv = "no" /\ IsNew(s, i)
      BY <2>1, <2>3 DEF DefaultInv, Resetting
    <3>2. pc = "commit"
      <4>1. recs[s][i].key # NoKey
        BY <1>k, <2>3, KeyAssumption
      <4> QED BY <3>1, <4>1 DEF RecordInv
    <3> QED BY <3>1, <3>2
  <2>4. ASSUME NEW j \in DOMAIN Defaults, j > op.i \/ (j = op.i /\ pc' # "nextDef"),
               NEW s \in Sector, NEW i \in DOMAIN recs'[s], recs'[s][i].key = Defaults[j][1]
        PROVE  j = op.i /\ mv' = "no" /\ IsNew(s, i)'
    <3>1. CASE ~WriteBody
      <4>1. recs'[s][i].key # NoKey
        BY <1>k, <2>4, KeyAssumption
      <4>2. i \in DOMAIN recs[s] /\ recs[s][i].key = Defaults[j][1]
        BY <1>a, <2>4, <3>1, <4>1, KeysForm DEF KeysKept
      <4>3. j = op.i /\ mv = "no" /\ pc = "commit"
        BY <2>3, <2>4, <4>2
      <4>4. Commit
        <5>1. ~Quiet
          BY <4>3, QuietRecs DEF Adding
        <5> QED BY <1>7, <4>3, <5>1, <1>a DEF Loud, PreDelete, Delete, PreWrite, WriteMagic, WriteHdr, WriteBody, GcErase
      <4>5. pc' = "nextDef"
        BY <2>1, <4>3, <4>4 DEF Commit, CallInv
      <4> QED BY <1>k, <2>4, <4>3, <4>5
    <3>2. CASE WriteBody
      <4> DEFINE t == cur.sec
                 n == Len(recs[t])
      <4>1. pc = "body" /\ pc' = "commit" /\ UNCHANGED <<mv, cur>>
        BY <3>2 DEF WriteBody, frame
      <4>2. /\ t \in Sector /\ n \in DOMAIN recs[t] /\ recs[t][n] \in Rec /\ OnlyAt(t, n)
            /\ recs'[t][n] = [recs[t][n] EXCEPT !.key = cur.key, !.val = cur.val]
        BY <3>2, <4>1, WriterEffect DEF Base, SafeInv
      <4>3. recs'[t][n].key = cur.key
        BY <4>2 DEF Rec
      <4>4. s = t /\ i = n
        <5>1. ASSUME s # t \/ i # n PROVE FALSE
          <6>1. i \in DOMAIN recs[s] /\ recs'[s][i] = recs[s][i]
            BY <4>2, <5>1 DEF OnlyAt
          <6> QED BY <2>3, <2>4, <4>1, <6>1
        <5> QED BY <5>1
      <4>5. IsNew(s, i)'
        BY <4>1, <4>2, <4>4 DEF IsNew, OnlyAt, Adding
      <4>6. cur.key = Defaults[j][1]
        BY <2>4, <4>3, <4>4
      <4>7. mv = "no"
        <5>1. ASSUME mv # "no" PROVE FALSE
          <6>1. HasOld /\ cur.key = old.rec.key
            BY <4>1, <5>1 DEF OldInv, CurInv, Owed, Writing
          <6>2. old.sec \in Sector /\ old.idx \in DOMAIN recs[old.sec] /\ old.rec \in Rec
                /\ recs[old.sec][old.idx] = [old.rec EXCEPT !.st = OldStatus]
            BY <6>1 DEF OldInv, Base, TypeInv, TypeOK, FrameType, OldType
          <6>3. recs[old.sec][old.idx].key = Defaults[j][1]
            BY <4>6, <6>1, <6>2 DEF Rec
          <6> QED BY <2>3, <2>4, <4>1, <6>2, <6>3
        <5> QED BY <5>1
      <4>8. j = op.i
        <5>1. Defaults[j][1] = Defaults[op.i][1]
          BY <2>2, <4>1, <4>6, <4>7 DEF CurInv, Owed, Writing
        <5> QED BY <2>2, <5>1 DEF Steady
      <4> QED BY <4>1, <4>5, <4>7, <4>8
    <3> QED BY <3>1, <3>2
  <2> QED BY <2>1, <2>2, <2>4 DEF DefaultInv
<1>8. CASE DefaultsDone
  <2>1. op' = NoOp
    BY <1>8 DEF DefaultsDone, EndOp
  <2> QED BY <1>1, <2>1 DEF NoOp
<1> QED BY <1>1, <1>2, <1>3, <1>4, <1>5, <1>6, <1>7, <1>8 DEF Filling
-----------------------------------------------------------------------------
(* The name cache *)

\* The name cache has record i of sector s for the name k, and may have it.
Entry(k, s, i) == kvCache[k] = <<s, recs[s][i].at>> /\ recs[s][i].key = k
MayBeCached(s, i) == \/ recs[s][i].st = KV_WRITE
                     \/ pc = "commit" /\ IsNew(s, i)
                     \/ pc \in Replacing /\ IsOld(s, i)
Entries == \A k \in Key, s \in Sector : \A i \in DOMAIN recs[s] : Entry(k, s, i) => MayBeCached(s, i)

LEMMA EntriesForm ==
    ASSUME NameInv
    PROVE  Entries
<1> SUFFICES ASSUME NEW k \in Key, NEW s \in Sector, NEW i \in DOMAIN recs[s], Entry(k, s, i)
             PROVE  MayBeCached(s, i)
  BY DEF Entries
<1>1. kvCache[k] # NoAddr /\ kvCache[k][1] = s /\ kvCache[k][2] = recs[s][i].at /\ recs[s][i].key = k
  BY SecNumAssumption DEF Entry, NoAddr, Sector
<1>2. <<s, i>> \in CacheHits(k)
  BY <1>1 DEF CacheHits
<1>3. <<s, i>>[1] = s /\ <<s, i>>[2] = i /\ RecAt(<<s, i>>) = recs[s][i]
  BY DEF RecAt
<1> QED BY <1>2, <1>3 DEF NameInv, MayBeCached

LEMMA EntriesIntro ==
    ASSUME TypeInv', Entries'
    PROVE  NameInv'
<1> SUFFICES ASSUME NEW k \in Key, NEW a \in CacheHits(k)'
             PROVE  \/ RecAt(a)'.st = KV_WRITE
                    \/ (pc = "commit" /\ IsNew(a[1], a[2]))'
                    \/ (pc \in Replacing /\ IsOld(a[1], a[2]))'
  BY DEF NameInv
<1>1. kvCache'[k] # NoAddr /\ kvCache'[k] \in Addr
  BY DEF CacheHits, TypeInv, TypeOK, RamType
<1>2. PICK i \in DOMAIN recs'[kvCache'[k][1]] :
         a = <<kvCache'[k][1], i>> /\ recs'[kvCache'[k][1]][i].at = kvCache'[k][2]
         /\ recs'[kvCache'[k][1]][i].key = k
  BY <1>1 DEF CacheHits
<1>3. kvCache'[k][1] \in Sector /\ kvCache'[k] = <<kvCache'[k][1], kvCache'[k][2]>>
  BY <1>1 DEF Addr
<1>4. a[1] = kvCache'[k][1] /\ a[2] = i
  BY <1>2
<1>5. Entry(k, a[1], a[2])'
  BY <1>2, <1>3, <1>4 DEF Entry
<1>6. MayBeCached(a[1], a[2])'
  BY <1>2, <1>3, <1>4, <1>5 DEF Entries
<1> QED BY <1>6 DEF MayBeCached, RecAt

\* No two complete records of a sector begin at the same place.
LEMMA SameAt ==
    ASSUME Base, PackInv, NEW s \in Sector, NEW i \in DOMAIN recs[s], NEW j \in DOMAIN recs[s],
           CrcOk(recs[s][i]), recs[s][i].at = recs[s][j].at
    PROVE  ~(i < j)
<1>1. recs[s][i] \in Rec /\ recs[s][j] \in Rec
  BY RecTyped DEF Base, TypeInv, TypeOK
<1>2. recs[s][i].len >= HdrLen
  BY DEF Base, SafeInv, LengthInv, RecsLong
<1>3. recs[s][i].at \in Nat /\ recs[s][i].len \in Nat /\ HdrLen \in Nat /\ HdrLen > 0
  BY <1>1, LenAssumption DEF Rec
<1>4. i < j => recs[s][i].at + recs[s][i].len <= recs[s][j].at
  BY DEF PackInv
<1> QED BY <1>2, <1>3, <1>4

\* Each entry is left, dropped, or replaced by the written record of its name.
FromWritten(d) ==
    \A k \in Key : \/ d[k] \in {kvCache[k], NoAddr}
                   \/ \E s \in Sector : \E i \in DOMAIN recs[s] :
                         d[k] = <<s, recs[s][i].at>> /\ recs[s][i].key = k /\ recs[s][i].st = KV_WRITE

LEMMA CachePutForm ==
    ASSUME kvCache \in [Key -> Addr \cup {NoAddr}], NEW k \in Key, NEW a, NEW d \in CachePut(kvCache, k, a)
    PROVE  d[k] = a /\ \A x \in Key : x # k => d[x] \in {kvCache[x], NoAddr}
<1> DEFINE e == [kvCache EXCEPT ![k] = a]
<1>1. e[k] = a /\ DOMAIN e = Key /\ \A x \in Key : x # k => e[x] = kvCache[x]
  OBVIOUS
<1>2. d = e \/ \E x \in Key \ {k} : d = [e EXCEPT ![x] = NoAddr]
  BY DEF CachePut
<1> HIDE DEF e
<1> QED BY <1>1, <1>2

LEMMA FindFills ==
    ASSUME Base, OldInv, NameInv, pc \in {"idle", "find"}, NEW k \in Key, FindCaches(k)
    PROVE  FromWritten(kvCache')
<1>1. CASE CacheHits(k) # {} \/ Written(k) = {}
  BY <1>1 DEF FindCaches, FromWritten
<1>2. CASE CacheHits(k) = {} /\ Written(k) # {}
  <2> DEFINE a == Find(k)
  <2>1. Found(k) /\ kvCache' \in CachePut(kvCache, k, AddrOf(a))
    BY <1>2 DEF Found, FindCaches
  <2>2. /\ a[1] \in Sector /\ a[2] \in DOMAIN recs[a[1]]
        /\ recs[a[1]][a[2]].key = k /\ recs[a[1]][a[2]].st = KV_WRITE
    BY <2>1, FindForm
  <2>3. kvCache \in [Key -> Addr \cup {NoAddr}]
    BY DEF Base, TypeInv, TypeOK, RamType
  <2> HIDE DEF a
  <2>4. kvCache'[k] = AddrOf(a) /\ \A x \in Key : x # k => kvCache'[x] \in {kvCache[x], NoAddr}
    BY <2>1, <2>3, CachePutForm
  <2>5. AddrOf(a) = <<a[1], recs[a[1]][a[2]].at>>
    BY DEF AddrOf
  <2> QED BY <2>2, <2>4, <2>5 DEF FromWritten
<1> QED BY <1>1, <1>2

LEMMA LoadFills ==
    ASSUME Base, NEW P \in SUBSET Ahead, NEW d \in LoadCaches(P)
    PROVE  FromWritten(d)
<1> DEFINE w(k) == {a \in P : recs[a[1]][a[2]].key = k /\ Loadable(recs[a[1]][a[2]])}
           e == [k \in Key |-> IF w(k) = {} THEN kvCache[k] ELSE AddrOf(LastOf(scan.base, w(k)))]
           bound == [s \in Sector |-> Len(recs[s])]
<1>1. \A a \in P : /\ a \in UNION {{s} \X DOMAIN recs[s] : s \in Sector}
                   /\ a \in Sector \X Nat /\ a[2] \in DOMAIN recs[a[1]]
  BY PairIn DEF Ahead, Base, TypeInv, TypeOK
<1>2. bound \in [Sector -> Nat] /\ \A a \in P : a[2] <= bound[a[1]]
  <2>1. \A s \in Sector : recs[s] \in Seq(Rec) /\ Len(recs[s]) \in Nat
    BY DEF Base, TypeInv, TypeOK, FlashType
  <2> QED BY <1>1, <2>1
<1>3. scan.base \in Sector
  BY DEF Base, TypeInv, TypeOK, FrameType, ScanType
<1>4. ASSUME NEW k \in Key, w(k) # {}
      PROVE  LastOf(scan.base, w(k)) \in w(k)
  <2>1. w(k) \in SUBSET (Sector \X Nat) /\ \A a \in w(k) : a[2] <= bound[a[1]]
    BY <1>1, <1>2
  <2> HIDE DEF w, bound
  <2> QED BY <1>2, <1>3, <1>4, <2>1, LastOfIn
<1>5. \A k \in Key : d[k] = e[k] \/ d[k] = NoAddr
  BY DEF LoadCaches
<1>6. ASSUME NEW k \in Key
      PROVE  \/ d[k] \in {kvCache[k], NoAddr}
             \/ \E s \in Sector : \E i \in DOMAIN recs[s] :
                   d[k] = <<s, recs[s][i].at>> /\ recs[s][i].key = k /\ recs[s][i].st = KV_WRITE
  <2> DEFINE a == LastOf(scan.base, w(k))
  <2>1. CASE w(k) = {}
    BY <1>5, <2>1
  <2>2. CASE w(k) # {}
    <3>1. e[k] = <<a[1], recs[a[1]][a[2]].at>>
      BY <2>2 DEF AddrOf
    <3>2. a \in w(k)
      BY <1>4, <2>2
    <3>3. /\ a[1] \in Sector /\ a[2] \in DOMAIN recs[a[1]]
          /\ recs[a[1]][a[2]].key = k /\ recs[a[1]][a[2]].st = KV_WRITE
      BY <1>1, <3>2 DEF Loadable
    <3>4. d[k] = e[k] \/ d[k] = NoAddr
      BY <1>5
    <3> HIDE DEF a, e, w
    <3> QED BY <3>1, <3>3, <3>4
  <2> QED BY <2>1, <2>2
<1> QED BY <1>6 DEF FromWritten

\* The steps that fill the cache come when no record is being replaced.
LEMMA FilledStep ==
    ASSUME Base, TypeInv', PackInv, NameInv, recs' = recs, pc \notin Replacing, pc # "commit",
           FromWritten(kvCache')
    PROVE  NameInv'
<1> SUFFICES ASSUME NEW k \in Key, NEW s \in Sector, NEW i \in DOMAIN recs[s], Entry(k, s, i)'
             PROVE  recs[s][i].st = KV_WRITE
  BY EntriesIntro DEF Entries, MayBeCached
<1>1. kvCache'[k] = <<s, recs[s][i].at>> /\ recs[s][i].key = k /\ CrcOk(recs[s][i])
  BY KeyAssumption DEF Entry, CrcOk
<1>2. kvCache'[k] # NoAddr
  BY <1>1, SecNumAssumption DEF NoAddr, Sector
<1>3. CASE kvCache'[k] = kvCache[k]
  <2>1. Entry(k, s, i)
    BY <1>1, <1>3 DEF Entry
  <2> QED BY <2>1, EntriesForm DEF Entries, MayBeCached
<1>4. CASE kvCache'[k] # kvCache[k]
  <2>a. PICK t \in Sector : \E j \in DOMAIN recs[t] :
           kvCache'[k] = <<t, recs[t][j].at>> /\ recs[t][j].key = k /\ recs[t][j].st = KV_WRITE
    BY <1>2, <1>4 DEF FromWritten
  <2>1. PICK j \in DOMAIN recs[t] :
           kvCache'[k] = <<t, recs[t][j].at>> /\ recs[t][j].key = k /\ recs[t][j].st = KV_WRITE
    BY <2>a
  <2>2. t = s /\ recs[t][j].at = recs[s][i].at
    BY <1>1, <2>1
  <2>3. CrcOk(recs[s][j])
    BY <2>1, <2>2, KeyAssumption DEF CrcOk
  <2>4. ~(i < j) /\ ~(j < i)
    BY <1>1, <2>1, <2>2, <2>3, SameAt
  <2>5. i \in Nat /\ j \in Nat
    BY <2>1, RecTyped DEF Base, TypeInv, TypeOK
  <2> QED BY <2>1, <2>2, <2>4, <2>5
<1> QED BY <1>3, <1>4

\* A quiet step that leaves the name cache leaves what it says.
LEMMA QuietNames ==
    ASSUME Base, TypeInv', CallInv, OldInv, SectorInv, DefaultInv, NameInv, Quiet, kvCache' = kvCache
    PROVE  NameInv'
<1>1. recs' = recs /\ pc \notin Adding
  BY QuietRecs
<1> SUFFICES ASSUME NEW k \in Key, NEW s \in Sector, NEW i \in DOMAIN recs[s], Entry(k, s, i)'
             PROVE  MayBeCached(s, i)'
  BY <1>1, EntriesIntro DEF Entries
<1>2. Entry(k, s, i)
  BY <1>1 DEF Entry
<1>3. MayBeCached(s, i)
  BY <1>2, EntriesForm DEF Entries
<1>4. CASE recs[s][i].st = KV_WRITE
  BY <1>1, <1>4 DEF MayBeCached
<1>5. CASE pc \in Replacing /\ IsOld(s, i)
  <2>1. HasOld /\ pc \in {"preDirty", "status", "mvAlloc"} /\ UNCHANGED old
    BY <1>5, QuietOld DEF Replacing, IsOld
  <2>2. MarkDirty \/ UpdateSecStatus \/ MvAlloc
    BY <2>1 DEF Quiet, Booting, Filling, Collecting, Calling, FindOldest, CheckHdr, HdrDone,
          ResumeGcDone, RecoverKvDone, LoadEnd, FmtHdr, NextDefault, DefaultsDone, Set, Del, Get,
          SetDefault, Deinit, New, NewKv, NewKvGc, NewKvFull, FindOld, PostGc, GcBegin, GcVisit, GcDone,
          GcMove, GcFormat, GcNext
  <2>3. pc' \in {"status", "mvAlloc", "preWrite"}
    <3>1. ~(inRec /\ old.rec.st = KV_PRE_DELETE /\ Written(old.rec.key) # {})
      BY <2>1 DEF OldInv, KV_WRITE, KV_PRE_DELETE
    <3>2. MvAlloc => pc' = "status"
      BY <3>1 DEF MvAlloc
    <3>3. MarkDirty => pc' \in {"status", "mvAlloc"}
      BY <2>1 DEF MarkDirty, AfterPreDel
    <3> QED BY <2>2, <3>2, <3>3 DEF UpdateSecStatus
  <2> QED BY <1>5, <2>1, <2>3 DEF MayBeCached, IsOld, HasOld, Replacing
<1> QED BY <1>1, <1>3, <1>4, <1>5 DEF MayBeCached, Adding

LEMMA NameStep ==
    ASSUME Steady, Base, TypeInv', MapInv, Next
    PROVE  NameInv'
<1> /\ CallInv /\ OldInv /\ SectorInv /\ RecordInv /\ CurInv /\ PackInv /\ DefaultInv /\ NameInv
  BY DEF MapInv
<1>a. Quiet \/ Loud
  BY StepCases
<1>e. Entries
  BY EntriesForm
<1>n. \A s \in Sector : \A n : NoAddr # <<s, n>>
  BY SecNumAssumption DEF NoAddr, Sector
<1>1. CASE kvCache' = [k \in Key |-> NoAddr]
  <2>1. Entries'
    BY <1>1, <1>n DEF Entries, Entry
  <2> QED BY <2>1, EntriesIntro
<1>2. CASE FindOld \/ RecoverKvDone \/ \E k \in Key : Get(k)
  <2>1. Quiet /\ pc \in {"find", "recKv", "idle"}
    BY <1>2 DEF Quiet, Booting, Calling, FindOld, RecoverKvDone, Get
  <2>2. recs' = recs
    BY <2>1, QuietRecs
  <2>3. FromWritten(kvCache')
    <3>1. CASE FindOld
      <4>1. op.key \in Key /\ FindCaches(op.key) /\ pc = "find"
        BY <3>1, FindOldForm DEF FindOld
      <4> QED BY <4>1, FindFills
    <3>2. CASE RecoverKvDone
      <4>1. kvCache' \in LoadCaches(Ahead) /\ Ahead \in SUBSET Ahead
        BY <3>2 DEF RecoverKvDone
      <4> QED BY <4>1, LoadFills
    <3>3. ASSUME NEW k \in Key, Get(k) PROVE FromWritten(kvCache')
      <4>1. FindCaches(k) /\ pc = "idle"
        BY <3>3 DEF Get
      <4> QED BY <4>1, FindFills
    <3> QED BY <1>2, <3>1, <3>2, <3>3
  <2>4. pc \notin Replacing /\ pc # "commit"
    BY <2>1 DEF Replacing
  <2> QED BY <2>2, <2>3, <2>4, FilledStep
<1>3. CASE Quiet /\ ~(FindOld \/ RecoverKvDone \/ \E k \in Key : Get(k))
  <2>1. kvCache' = kvCache \/ kvCache' = [k \in Key |-> NoAddr]
    <3>1. CASE Booting \/ Filling
      BY <1>3, <3>1 DEF Booting, Filling, FindOldest, CheckHdr, HdrDone,
            ResumeGcDone, LoadEnd, FmtHdr, NextDefault, DefaultsDone, ram
    <3>2. CASE Collecting
      BY <3>2 DEF Collecting, GcBegin, GcVisit, GcDone, GcMove, GcFormat, GcNext, ram
    <3>3. CASE Calling
      BY <1>3, <3>3 DEF Calling, Set, Del, SetDefault, Deinit, ram
    <3>4. CASE New \/ MarkDirty \/ UpdateSecStatus \/ MvAlloc \/ PostGc
      BY <3>4 DEF New, NewKv, NewKvGc, NewKvFull, MarkDirty, UpdateSecStatus, MvAlloc, PostGc, ram
    <3> QED BY <1>3, <3>1, <3>2, <3>3, <3>4 DEF Quiet
  <2> QED BY <1>1, <1>3, <2>1, QuietNames
<1>4. CASE PreDelete \/ Delete
  <2>1. /\ old.sec \in Sector /\ old.idx \in DOMAIN recs[old.sec] /\ OnlyAt(old.sec, old.idx) /\ HasOld
        /\ old.rec \in Rec /\ recs[old.sec][old.idx] = [old.rec EXCEPT !.st = OldStatus]
        /\ \E st \in {KV_PRE_DELETE, KV_DELETED} : recs'[old.sec][old.idx] = [old.rec EXCEPT !.st = st]
    BY <1>4, OldEffect
  <2>2. /\ recs'[old.sec][old.idx].key = old.rec.key /\ recs[old.sec][old.idx].key = old.rec.key
        /\ recs'[old.sec][old.idx].at = recs[old.sec][old.idx].at
        /\ recs[old.sec][old.idx].st = OldStatus
    BY <2>1 DEF Rec
  <2>3. pc \in {"preDel", "delete"}
    BY <1>4 DEF PreDelete, Delete
  <2>4. \A k \in Key : kvCache'[k] \in {kvCache[k], NoAddr}
    BY <1>4 DEF PreDelete, Delete, Forget, Base, TypeInv, TypeOK, RamType
  <2> SUFFICES ASSUME NEW k \in Key, NEW s \in Sector, NEW i \in DOMAIN recs'[s], Entry(k, s, i)'
               PROVE  MayBeCached(s, i)'
    BY EntriesIntro DEF Entries
  <2>5. i \in DOMAIN recs[s]
    BY <2>1 DEF OnlyAt
  <2>6. kvCache'[k] = kvCache[k]
    BY <1>n, <2>4 DEF Entry
  <2>7. CASE s # old.sec \/ i # old.idx
    <3>1. recs'[s][i] = recs[s][i]
      BY <2>1, <2>5, <2>7 DEF OnlyAt
    <3>2. Entry(k, s, i)
      BY <2>6, <3>1 DEF Entry
    <3>3. recs[s][i].st = KV_WRITE
      BY <1>e, <2>3, <2>5, <3>2 DEF Entries, MayBeCached, Replacing
    <3> QED BY <3>1, <3>3 DEF MayBeCached
  <2>8. CASE s = old.sec /\ i = old.idx
    <3>1. Entry(k, s, i) /\ k = old.rec.key
      BY <2>2, <2>6, <2>8 DEF Entry
    <3>2. OldStatus = KV_WRITE
      BY <1>e, <2>2, <2>3, <2>5, <2>8, <3>1 DEF Entries, MayBeCached, Replacing
    <3>3. CASE PreDelete
      <4>1. pc' \in {"preDirty", "status", "mvAlloc"} /\ UNCHANGED old
        BY <3>3 DEF PreDelete, AfterPreDel, frame
      <4> QED BY <2>1, <2>8, <4>1 DEF MayBeCached, IsOld, HasOld, Replacing
    <3>4. CASE Delete
      <4>1. lastDel = FALSE
        BY <3>2 DEF OldInv, KV_WRITE, KV_PRE_DELETE, Base, TypeInv, TypeOK, RamType
      <4>2. kvCache'[k] = NoAddr
        BY <3>1, <3>4, <4>1 DEF Delete, Forget, Base, TypeInv, TypeOK, RamType
      <4> QED BY <1>n, <4>2 DEF Entry
    <3> QED BY <1>4, <3>3, <3>4
  <2> QED BY <2>7, <2>8
<1>5. CASE PreWrite
  <2>1. LET s == cur.sec
            n == Len(recs[s]) + 1
        IN /\ s \in Sector /\ n \in Nat
           /\ DOMAIN recs'[s] = DOMAIN recs[s] \cup {n}
           /\ \A j \in DOMAIN recs[s] : recs'[s][j] = recs[s][j]
           /\ recs'[s][n] = Blank
           /\ \A t \in Sector : t # s => recs'[t] = recs[t]
    BY <1>5, AppendEffect DEF Base
  <2>2. pc = "preWrite" /\ pc' = "magic" /\ UNCHANGED <<old, kvCache>>
    BY <1>5 DEF PreWrite, frame, ram
  <2>3. Blank.key = NoKey
    BY DEF Blank
  <2>4. ASSUME NEW k \in Key, NEW s \in Sector, NEW i \in DOMAIN recs'[s], Entry(k, s, i)'
        PROVE  MayBeCached(s, i)'
    <3>1. recs'[s][i].key # NoKey
      BY <2>4, KeyAssumption DEF Entry
    <3>2. i \in DOMAIN recs[s] /\ recs'[s][i] = recs[s][i]
      <4>1. CASE s = cur.sec
        BY <2>1, <2>3, <3>1, <4>1
      <4>2. CASE s # cur.sec
        BY <2>1, <4>2
      <4> QED BY <4>1, <4>2
    <3>3. Entry(k, s, i)
      BY <2>2, <2>4, <3>2 DEF Entry
    <3>4. recs[s][i].st = KV_WRITE \/ IsOld(s, i)
      BY <1>e, <2>2, <3>2, <3>3 DEF Entries, MayBeCached
    <3> QED BY <2>2, <3>2, <3>4 DEF MayBeCached, IsOld, HasOld, Replacing
  <2> QED BY <2>4, EntriesIntro DEF Entries
<1>6. CASE WriteMagic \/ WriteHdr \/ WriteBody \/ Commit
  <2> DEFINE s == cur.sec
             n == Len(recs[s])
  <2>1. /\ s \in Sector /\ n \in DOMAIN recs[s] /\ IsNew(s, n) /\ recs[s][n] \in Rec /\ OnlyAt(s, n)
        /\ recs[s][n].at = cur.at
        /\ recs'[s][n] = CASE pc = "magic" -> [recs[s][n] EXCEPT !.len = HdrLen]
                           [] pc = "header" -> [recs[s][n] EXCEPT !.len = cur.len]
                           [] pc = "body" -> [recs[s][n] EXCEPT !.key = cur.key, !.val = cur.val]
                           [] pc = "commit" -> [recs[s][n] EXCEPT
                                !.st = WriteStatus(recs[s][n].st, KV_WRITE)]
    BY <1>6, WriterEffect DEF Base, SafeInv
  <2>2. UNCHANGED old /\ pc \in {"magic", "header", "body", "commit"}
    BY <1>6 DEF WriteMagic, WriteHdr, WriteBody, Commit, frame
  <2>3. recs[s][n].st = KV_PRE_WRITE /\ (pc # "commit" => recs[s][n].key = NoKey)
    BY <2>1 DEF RecordInv
  <2>4. \A k \in Key : kvCache'[k] \in {kvCache[k], NoAddr} \/ (WriteBody /\ k = cur.key /\ kvCache'[k] = <<s, cur.at>>)
    <3>1. CASE WriteBody
      <4>1. kvCache' \in CachePut(kvCache, cur.key, <<s, cur.at>>) /\ cur.key \in Key
        <5>1. pc = "body" /\ cur.key = (IF mv = "no" THEN op.key ELSE old.rec.key)
              /\ (mv = "no" => cur.key \in Key) /\ (mv # "no" => CrcOk(old.rec) /\ old.rec \in Rec)
          BY <3>1 DEF WriteBody, CurInv, Owed, Writing, OldInv, Base, TypeInv, TypeOK, FrameType, OldType
        <5> QED BY <3>1, <5>1 DEF WriteBody, CrcOk, Rec
      <4>2. kvCache \in [Key -> Addr \cup {NoAddr}]
        BY DEF Base, TypeInv, TypeOK, RamType
      <4> HIDE DEF s
      <4>3. kvCache'[cur.key] = <<s, cur.at>> /\ \A x \in Key : x # cur.key => kvCache'[x] \in {kvCache[x], NoAddr}
        BY <4>1, <4>2, CachePutForm
      <4> QED BY <3>1, <4>3
    <3>2. CASE ~WriteBody
      BY <1>6, <3>2 DEF WriteMagic, WriteHdr, Commit, ram
    <3> QED BY <3>1, <3>2
  <2>5. ASSUME NEW k \in Key, NEW t \in Sector, NEW i \in DOMAIN recs[t], t # s \/ i # n, Entry(k, t, i)'
        PROVE  MayBeCached(t, i)'
    <3>1. recs'[t][i] = recs[t][i] /\ ~IsNew(t, i)
      BY <2>1, <2>5 DEF OnlyAt, IsNew
    <3>2. kvCache'[k] = <<t, recs[t][i].at>> /\ recs[t][i].key = k
      BY <2>5, <3>1 DEF Entry
    <3>3. kvCache'[k] = kvCache[k]
      <4>1. ASSUME kvCache'[k] # kvCache[k] PROVE FALSE
        <5>1. t = s /\ recs[t][i].at = recs[s][n].at
          <6>1. kvCache'[k] # NoAddr
            BY <1>n, <3>2
          <6>2. kvCache'[k] = <<s, cur.at>>
            BY <2>4, <4>1, <6>1
          <6> QED BY <2>1, <3>2, <6>2
        <5>2. CrcOk(recs[t][i])
          BY <3>2, KeyAssumption DEF CrcOk
        <5>3. i < n
          <6>1. recs[s] \in Seq(Rec) /\ i \in DOMAIN recs[s] /\ i # n
            BY <2>1, <2>5, <5>1 DEF Base, TypeInv, TypeOK, FlashType
          <6> QED BY <6>1
        <5> QED BY <2>1, <5>1, <5>2, <5>3, SameAt
      <4> QED BY <4>1
    <3>4. Entry(k, t, i)
      BY <3>2, <3>3 DEF Entry
    <3>5. recs[t][i].st = KV_WRITE \/ (pc \in Replacing /\ IsOld(t, i))
      BY <1>e, <3>1, <3>4 DEF Entries, MayBeCached
    <3>6. CASE recs[t][i].st = KV_WRITE
      BY <3>1, <3>6 DEF MayBeCached
    <3>7. CASE pc \in Replacing /\ IsOld(t, i)
      <4>1. ~WriteBody
        <5>1. ASSUME WriteBody PROVE FALSE
          <6>1. HasOld /\ pc = "body" /\ t = old.sec /\ i = old.idx /\ old.rec \in Rec
            BY <3>7, <5>1 DEF WriteBody, IsOld, Base, TypeInv, TypeOK, FrameType, OldType
          <6>2. recs[t][i] = [old.rec EXCEPT !.st = OldStatus] /\ cur.key = old.rec.key
            BY <6>1 DEF OldInv, CurInv, Owed, Writing
          <6>3. k = cur.key
            BY <3>2, <6>1, <6>2 DEF Rec
          <6>4. kvCache'[k] = <<s, cur.at>>
            <7>1. cur.key \in Key /\ kvCache \in [Key -> Addr \cup {NoAddr}]
              BY <6>3 DEF Base, TypeInv, TypeOK, RamType
            <7>2. kvCache' \in CachePut(kvCache, cur.key, <<s, cur.at>>)
              BY <5>1 DEF WriteBody
            <7> HIDE DEF s
            <7> QED BY <6>3, <7>1, <7>2, CachePutForm
          <6>5. t = s /\ recs[t][i].at = recs[s][n].at
            BY <2>1, <3>2, <6>4
          <6>6. CrcOk(recs[t][i])
            BY <3>2, KeyAssumption DEF CrcOk
          <6>7. i < n
            <7>1. recs[s] \in Seq(Rec) /\ i \in DOMAIN recs[s] /\ i # n
              BY <2>1, <2>5, <6>5 DEF Base, TypeInv, TypeOK, FlashType
            <7> QED BY <7>1
          <6> QED BY <2>1, <6>5, <6>6, <6>7, SameAt
        <5> QED BY <5>1
      <4>2. ~Commit
        BY <3>7 DEF Commit, Replacing
      <4>3. pc' \in {"header", "body"}
        BY <1>6, <4>1, <4>2 DEF WriteMagic, WriteHdr
      <4> QED BY <2>2, <3>7, <4>3 DEF MayBeCached, IsOld, HasOld, Replacing
    <3> QED BY <3>5, <3>6, <3>7
  <2>6. ASSUME NEW k \in Key, NEW t \in Sector, NEW i \in DOMAIN recs[t], t = s, i = n, Entry(k, t, i)'
        PROVE  MayBeCached(t, i)'
    <3>1. CASE Commit
      <4>1. recs'[t][i].st = KV_WRITE
        BY <2>1, <2>3, <2>6, <3>1 DEF Commit, Rec, WriteStatus, KV_WRITE, KV_PRE_WRITE
      <4> QED BY <4>1 DEF MayBeCached
    <3>2. CASE WriteBody
      <4>1. pc' = "commit" /\ UNCHANGED cur
        BY <3>2 DEF WriteBody, frame
      <4>2. IsNew(t, i)'
        BY <2>1, <2>6, <4>1 DEF IsNew, OnlyAt, Adding
      <4> QED BY <4>1, <4>2 DEF MayBeCached
    <3>3. CASE WriteMagic \/ WriteHdr
      <4>1. recs'[t][i].key = NoKey
        BY <2>1, <2>3, <2>6, <3>3 DEF WriteMagic, WriteHdr, Rec
      <4> QED BY <2>6, <4>1, KeyAssumption DEF Entry
    <3> QED BY <1>6, <3>1, <3>2, <3>3
  <2> HIDE DEF s, n
  <2>7. ASSUME NEW k \in Key, NEW t \in Sector, NEW i \in DOMAIN recs'[t], Entry(k, t, i)'
        PROVE  MayBeCached(t, i)'
    <3>1. i \in DOMAIN recs[t]
      BY <2>1 DEF OnlyAt
    <3> QED BY <2>5, <2>6, <2>7, <3>1
  <2> QED BY <2>7, EntriesIntro DEF Entries
<1>7. CASE FmtErase \/ GcErase
  <2>1. PICK v \in Sector : EraseSector(v)
    BY <1>7, VictimType DEF FmtErase, GcErase, Base, SafeInv, FrameInv
  <2>2. recs'[v] = <<>> /\ \A t \in Sector : t # v => recs'[t] = recs[t]
    BY <2>1, EraseEffect DEF Base
  <2>3. kvCache' = kvCache /\ pc \notin Replacing /\ pc # "commit"
    BY <1>7 DEF FmtErase, GcErase, ram, Replacing
  <2>4. ASSUME NEW k \in Key, NEW s \in Sector, NEW i \in DOMAIN recs'[s], Entry(k, s, i)'
        PROVE  MayBeCached(s, i)'
    <3>1. recs'[s] = recs[s] /\ i \in DOMAIN recs[s]
      BY <2>2, <2>4
    <3>2. recs[s][i].st = KV_WRITE
      BY <1>e, <2>3, <2>4, <3>1 DEF Entries, Entry, MayBeCached
    <3> QED BY <3>1, <3>2 DEF MayBeCached
  <2> QED BY <2>4, EntriesIntro DEF Entries
<1> QED BY <1>a, <1>2, <1>3, <1>4, <1>5, <1>6, <1>7 DEF Loud
-----------------------------------------------------------------------------
(* The invariant holds *)

LEMMA MapInit == Init => MapInv
<1> SUFFICES ASSUME Init PROVE MapInv
  OBVIOUS
<1>1. /\ pc = "off" /\ op = NoOp /\ old = NoOld /\ mv = "no" /\ ~HasOld /\ lastDel = FALSE /\ ~ack /\ ~gcReq
      /\ \A s \in Sector : recs[s] = <<>> /\ ~magic[s] /\ dirty[s] # DIRTY_GC
      /\ \A k \in Key : kvCache[k] = NoAddr
  BY DEF Init, HasOld, NoOld, DIRTY_UNUSED, DIRTY_GC
<1>2. op.kind = "none"
  BY <1>1 DEF NoOp
<1>3. ~InVictim /\ ~InGc /\ ~Moving /\ ~Owed
  BY <1>1 DEF InVictim, InGc, Moving, Owed, Writing
<1>4. CallInv
  BY <1>1, <1>2, <1>3 DEF CallInv, NoCall, Resetting
<1>5. SectorInv
  BY <1>1, <1>3 DEF SectorInv
<1>6. OldInv
  BY <1>1, <1>3 DEF OldInv
<1>7. RecordInv /\ PackInv /\ OneWritten
  BY <1>1 DEF RecordInv, PackInv, OneWritten
<1>8. CurInv /\ RoomInv /\ HeldInv
  BY <1>1, <1>3 DEF CurInv, RoomInv, HeldInv, Replacing, Adding
<1>9. DefaultInv
  BY <1>1, <1>2 DEF DefaultInv
<1>10. NameInv
  BY <1>1 DEF NameInv, CacheHits
<1> QED BY <1>4, <1>5, <1>6, <1>7, <1>8, <1>9, <1>10 DEF MapInv, UniqueInv

\* What the invariant says does not depend on anything but the variables.
LEMMA MapStutter ==
    ASSUME MapInv, UNCHANGED vars
    PROVE  MapInv'
<1> USE DEF vars, flash, ram, frame
<1>1. CallInv'
  BY DEF MapInv, CallInv, HasOld, InGc, InVictim, Moving
<1>2. SectorInv'
  BY DEF MapInv, SectorInv, InVictim, Victim, Owed, Writing, SomeSpare, Spare
<1>3. OldInv'
  BY DEF MapInv, OldInv, HasOld, Moving, OldStatus, Victim
<1>4. RecordInv'
  BY DEF MapInv, RecordInv, IsNew, IsOld, HasOld
<1>5. CurInv' /\ PackInv'
  BY DEF MapInv, CurInv, PackInv, Owed, Writing
<1>6. RoomInv'
  BY DEF MapInv, RoomInv, InVictim, Victim, IsOld, HasOld, TakesAll, Uncopied, FreeFrom, Owed, Writing
<1>7. UniqueInv'
  BY DEF MapInv, UniqueInv, OneWritten, HeldInv, HasOld, Held, HeldAs
<1>8. DefaultInv'
  BY DEF MapInv, DefaultInv, IsNew
<1>9. NameInv'
  BY DEF MapInv, NameInv, CacheHits, RecAt, IsNew, IsOld, HasOld
<1> QED BY <1>1, <1>2, <1>3, <1>4, <1>5, <1>6, <1>7, <1>8, <1>9 DEF MapInv

LEMMA MapStep ==
    ASSUME Steady
    PROVE  Base /\ MapInv /\ [Next]_vars => Base' /\ MapInv'
<1> SUFFICES ASSUME Base, MapInv, [Next]_vars PROVE Base' /\ MapInv'
  OBVIOUS
<1>1. Base'
  BY TypeStep, FullStep, SafeStep DEF Base
<1>2. CASE UNCHANGED vars
  BY <1>1, <1>2, MapStutter
<1>3. CASE Next
  <2>1. TypeInv'
    BY <1>1 DEF Base
  <2>2. CallInv' /\ OldInv' /\ SectorInv' /\ RecordInv'
    BY <1>1, <1>3, CallStep, OldStep, SectorStep, RecordStep
  <2>3. CurInv' /\ PackInv' /\ RoomInv'
    BY <1>1, <1>3, CurStep, PackStep, RoomStep
  <2>4. UniqueInv' /\ DefaultInv' /\ NameInv'
    BY <1>3, <2>1, UniqueStep, DefaultStep, NameStep
  <2> QED BY <1>1, <2>2, <2>3, <2>4 DEF MapInv
<1> QED BY <1>2, <1>3

LEMMA MapAlways ==
    ASSUME Steady
    PROVE  Spec => [](Base /\ MapInv)
<1>1. Init => Base /\ MapInv
  BY TypeInit, FullInit, SafeInit, MapInit DEF Base
<1>2. Base /\ MapInv /\ [Next]_vars => (Base /\ MapInv)'
  BY MapStep
<1> QED BY <1>1, <1>2, PTL DEF Spec
-----------------------------------------------------------------------------
(* What follows for a user of the database *)

\* Between calls all records are written or deleted, and the places of the
\* written ones of a name are one place at most.
LEMMA IdleRecs ==
    ASSUME Base, MapInv, pc = "idle"
    PROVE  /\ \A s \in Sector : \A i \in DOMAIN recs[s] : recs[s][i].st \in {KV_WRITE, KV_DELETED}
           /\ CacheOk(secCache) /\ ~InVictim
<1>1. mv = "no" /\ ~HasOld
  BY Quietly DEF MapInv, Moving
<1>2. CacheOk(secCache)
  BY Quietly DEF MapInv, Writing
<1>3. ASSUME NEW s \in Sector, NEW i \in DOMAIN recs[s] PROVE ~IsNew(s, i) /\ ~IsOld(s, i)
  BY <1>1 DEF IsNew, IsOld, Adding
<1>4. ASSUME NEW s \in Sector, NEW i \in DOMAIN recs[s] PROVE recs[s][i].st \in {KV_WRITE, KV_DELETED}
  BY <1>3 DEF MapInv, RecordInv
<1> QED BY <1>1, <1>2, <1>4 DEF InVictim

LEMMA OfStatusForm ==
    ASSUME Base, NEW k, NEW st, NEW a \in OfStatus(k, st)
    PROVE  /\ a[1] \in Sector /\ a[2] \in DOMAIN recs[a[1]] /\ a = <<a[1], a[2]>>
           /\ RecAt(a) = recs[a[1]][a[2]] /\ RecAt(a).key = k /\ RecAt(a).st = st
<1>1. a \in UNION {{s} \X DOMAIN recs[s] : s \in Sector} /\ RecAt(a).key = k /\ RecAt(a).st = st
  BY DEF OfStatus, AllRecs
<1>2. a \in Sector \X Nat /\ a[2] \in DOMAIN recs[a[1]]
  BY <1>1, PairIn DEF Base, TypeInv, TypeOK
<1> QED BY <1>1, <1>2 DEF RecAt

LEMMA OfStatusIn ==
    ASSUME NEW s \in Sector, NEW i \in DOMAIN recs[s]
    PROVE  <<s, i>> \in OfStatus(recs[s][i].key, recs[s][i].st)
<1>1. <<s, i>> \in AllRecs
  BY DEF AllRecs
<1>2. RecAt(<<s, i>>) = recs[s][i]
  BY DEF RecAt
<1> QED BY <1>1, <1>2 DEF OfStatus

LEMMA OneOf ==
    ASSUME Base, MapInv, NEW k, NEW a \in OfStatus(k, KV_WRITE), NEW b \in OfStatus(k, KV_WRITE)
    PROVE  a = b
<1>1. /\ a[1] \in Sector /\ a[2] \in DOMAIN recs[a[1]] /\ a = <<a[1], a[2]>>
      /\ recs[a[1]][a[2]].key = k /\ recs[a[1]][a[2]].st = KV_WRITE
  BY OfStatusForm
<1>2. /\ b[1] \in Sector /\ b[2] \in DOMAIN recs[b[1]] /\ b = <<b[1], b[2]>>
      /\ recs[b[1]][b[2]].key = k /\ recs[b[1]][b[2]].st = KV_WRITE
  BY OfStatusForm
<1>3. a[1] = b[1] /\ a[2] = b[2]
  BY <1>1, <1>2 DEF MapInv, UniqueInv, OneWritten
<1> QED BY <1>1, <1>2, <1>3

\* As long as no power is lost, no name gets a second written record: not by
\* set_kv, which marks the old one before it writes the new one, not by the
\* copies of do_gc, and not by the defaults, which nothing looks up.
THEOREM OneRecord ==
    ASSUME Steady
    PROVE  Spec => []NoDuplicate
<1>1. Base /\ MapInv => NoDuplicate
  <2> SUFFICES ASSUME Base, MapInv, NEW k \in Key PROVE Cardinality(OfStatus(k, KV_WRITE)) <= 1
    BY DEF NoDuplicate
  <2>1. CASE OfStatus(k, KV_WRITE) = {}
    BY <2>1, FS_EmptySet
  <2>2. CASE OfStatus(k, KV_WRITE) # {}
    <3>1. PICK a \in OfStatus(k, KV_WRITE) : TRUE
      BY <2>2
    <3>2. OfStatus(k, KV_WRITE) = {a}
      BY OneOf
    <3>3. Cardinality({a}) = 1
      BY FS_Singleton
    <3> QED BY <3>2, <3>3
  <2> QED BY <2>1, <2>2
<1> QED BY <1>1, MapAlways, PTL

\* As long as no power is lost, no call returns with a record still marked
\* PRE_DELETE, which fdb_kv_get would pass over.
THEOREM NoneLeftMarked ==
    ASSUME Steady
    PROVE  Spec => []AllRecovered
<1>1. Base /\ MapInv => AllRecovered
  <2> SUFFICES ASSUME Base, MapInv, pc = "idle", NEW k \in Key, NEW a \in OfStatus(k, KV_PRE_DELETE) PROVE FALSE
    BY DEF AllRecovered, Idle
  <2>1. a[1] \in Sector /\ a[2] \in DOMAIN recs[a[1]] /\ recs[a[1]][a[2]].st = KV_PRE_DELETE
    BY OfStatusForm
  <2>2. recs[a[1]][a[2]].st \in {KV_WRITE, KV_DELETED}
    BY <2>1, IdleRecs
  <2> QED BY <2>1, <2>2 DEF KV_WRITE, KV_DELETED, KV_PRE_DELETE
<1> QED BY <1>1, MapAlways, PTL

\* As long as no power is lost, fdb_kv_get returns the stored value of every
\* name: the name cache never leads to a record that was replaced, moved or
\* deleted, and the scan of the flash misses no record.
THEOREM ReadingFinds ==
    ASSUME Steady
    PROVE  Spec => []ReadsAgree
<1>1. Base /\ MapInv => ReadsAgree
  <2> SUFFICES ASSUME Base, MapInv, pc = "idle", NEW k \in Key PROVE Visible(k) = Stored(k)
    BY DEF ReadsAgree, Idle
  <2> DEFINE w == OfStatus(k, KV_WRITE)
             p == OfStatus(k, KV_PRE_DELETE)
  <2>1. CASE Found(k)
    <3> DEFINE a == Find(k)
    <3>1. /\ a[1] \in Sector /\ a[2] \in DOMAIN recs[a[1]] /\ a = <<a[1], a[2]>>
          /\ recs[a[1]][a[2]].key = k /\ recs[a[1]][a[2]].st = KV_WRITE
      BY <2>1, FindForm DEF MapInv
    <3>2. Visible(k) = RecAt(a).val
      BY <2>1 DEF Visible
    <3> HIDE DEF a
    <3>3. a \in w
      BY <3>1, OfStatusIn
    <3>4. (CHOOSE b \in w : TRUE) = a
      <4>1. (CHOOSE b \in w : TRUE) \in w
        BY <3>3
      <4> QED BY <3>3, <4>1, OneOf
    <3>5. Stored(k) = RecAt(a).val
      BY <3>3, <3>4 DEF Stored
    <3> QED BY <3>2, <3>5
  <2>2. CASE ~Found(k)
    <3>1. Written(k) = {}
      BY <2>2 DEF Found
    <3>2. w = {}
      <4>1. ASSUME NEW a \in w PROVE FALSE
        <5>1. a[1] \in Sector /\ a[2] \in DOMAIN recs[a[1]]
              /\ recs[a[1]][a[2]].key = k /\ recs[a[1]][a[2]].st = KV_WRITE
          BY <4>1, OfStatusForm
        <5>2. <<a[1], a[2]>> \in Written(k)
          BY <5>1, IdleRecs, WrittenAll DEF MapInv
        <5> QED BY <3>1, <5>2
      <4> QED BY <4>1
    <3>3. p = {}
      <4>1. ASSUME NEW a \in p PROVE FALSE
        <5>1. a[1] \in Sector /\ a[2] \in DOMAIN recs[a[1]] /\ recs[a[1]][a[2]].st = KV_PRE_DELETE
          BY <4>1, OfStatusForm
        <5>2. recs[a[1]][a[2]].st \in {KV_WRITE, KV_DELETED}
          BY <5>1, IdleRecs
        <5> QED BY <5>1, <5>2 DEF KV_WRITE, KV_DELETED, KV_PRE_DELETE
      <4> QED BY <4>1
    <3> QED BY <2>2, <3>2, <3>3 DEF Visible, Stored
  <2> QED BY <2>1, <2>2
<1> QED BY <1>1, MapAlways, PTL

\* As long as no power is lost, do_gc never erases a sector with a record in it
\* that is neither deleted nor copied: move_kv, whose failure do_gc does not
\* look at, always finds room for the copy.
THEOREM GarbageOnly ==
    ASSUME Steady
    PROVE  Spec => OnlyGarbageErased
<1> DEFINE Spared == \A i \in DOMAIN recs[Victim] :
                        recs[Victim][i].key = NoKey \/ recs[Victim][i].st \notin {KV_WRITE, KV_PRE_DELETE}
<1>1. Base /\ MapInv /\ [Next]_vars => [pc = "gcScan" /\ pc' = "gcFormat" => Spared]_vars
  <2> SUFFICES ASSUME Base, MapInv, Next, pc = "gcScan", pc' = "gcFormat" PROVE Spared
    OBVIOUS
  <2>1. GcErase
    <3>1. Quiet \/ Loud
      BY StepCases
    <3>2. ~Quiet
      BY GcMoveForm DEF Quiet, Booting, Filling, Collecting, Calling, FindOldest, CheckHdr, HdrDone,
            ResumeGcDone, RecoverKvDone, LoadEnd, FmtHdr, NextDefault, DefaultsDone, Set, Del, Get,
            SetDefault, Deinit, New, NewKv, NewKvGc, NewKvFull, FindOld, MarkDirty, UpdateSecStatus,
            MvAlloc, PostGc, GcBegin, GcVisit, GcDone, GcMove, Move, GcFormat, GcNext
    <3> QED BY <3>1, <3>2 DEF Loud, PreDelete, Delete, PreWrite, WriteMagic, WriteHdr, WriteBody, Commit,
                              FmtErase
  <2>2. ToMove = {} /\ mv = "no" /\ InVictim
    BY <2>1, Quietly DEF GcErase, MapInv, InVictim
  <2> SUFFICES ASSUME NEW i \in DOMAIN recs[Victim] PROVE ~Live(recs[Victim][i])
    BY DEF Live, CrcOk
  <2>3. i >= gc.idx => ~Live(recs[Victim][i])
    BY <2>2 DEF ToMove
  <2>4. i < gc.idx => ~Live(recs[Victim][i])
    BY <2>2 DEF MapInv, RoomInv
  <2>5. i \in Nat /\ gc.idx \in Nat
    BY RecTyped, VictimType DEF Base, TypeInv, TypeOK, FrameType, GcType
  <2> QED BY <2>3, <2>4, <2>5
<1> QED BY <1>1, MapAlways, PTL DEF OnlyGarbageErased, Spec
-----------------------------------------------------------------------------
(* The database implements KVStore.tla *)

\* The record of a name that the next find_kv or the move under way counts on.
Holds(k, v) ==
    \/ HeldAs(k, v)
    \/ /\ ~Held(k)
       /\ \E s \in Sector : \E i \in DOMAIN recs[s] :
             recs[s][i].key = k /\ recs[s][i].st = KV_PRE_DELETE /\ recs[s][i].val = v
    \/ /\ ~Held(k) /\ v = NoVal
       /\ ~ \E s \in Sector : \E i \in DOMAIN recs[s] :
               recs[s][i].key = k /\ recs[s][i].st = KV_PRE_DELETE

\* Two records that are marked PRE_DELETE are one and the same.
LEMMA OneMarked ==
    ASSUME Base, MapInv, NEW k \in Key, NEW a \in OfStatus(k, KV_PRE_DELETE), NEW b \in OfStatus(k, KV_PRE_DELETE)
    PROVE  a = b
<1>1. \A c \in OfStatus(k, KV_PRE_DELETE) :
        /\ c[1] \in Sector /\ c[2] \in DOMAIN recs[c[1]] /\ c = <<c[1], c[2]>>
        /\ recs[c[1]][c[2]].key = k /\ recs[c[1]][c[2]].st = KV_PRE_DELETE
  BY OfStatusForm
<1>2. ASSUME NEW c \in OfStatus(k, KV_PRE_DELETE) PROVE c = <<old.sec, old.idx>>
  <2>1. /\ c[1] \in Sector /\ c[2] \in DOMAIN recs[c[1]] /\ c = <<c[1], c[2]>>
        /\ recs[c[1]][c[2]].st = KV_PRE_DELETE
    BY <1>1, <1>2
  <2>2. IsOld(c[1], c[2])
    BY <2>1 DEF MapInv, RecordInv, KV_WRITE, KV_DELETED, KV_PRE_DELETE, KV_PRE_WRITE
  <2> QED BY <2>1, <2>2 DEF IsOld
<1> QED BY <1>2

LEMMA StoredIs == Base /\ MapInv => \A k \in Key : \A v : Holds(k, v) <=> Stored(k) = v
<1> SUFFICES ASSUME Base, MapInv, NEW k \in Key PROVE \A v : Holds(k, v) <=> Stored(k) = v
  OBVIOUS
<1> DEFINE w == OfStatus(k, KV_WRITE)
           p == OfStatus(k, KV_PRE_DELETE)
<1>1. ASSUME NEW st, NEW v
      PROVE  (\E a \in OfStatus(k, st) : RecAt(a).val = v)
             <=> \E s \in Sector : \E i \in DOMAIN recs[s] :
                    recs[s][i].key = k /\ recs[s][i].st = st /\ recs[s][i].val = v
  <2>1. ASSUME NEW a \in OfStatus(k, st), RecAt(a).val = v
        PROVE  \E s \in Sector : \E i \in DOMAIN recs[s] :
                  recs[s][i].key = k /\ recs[s][i].st = st /\ recs[s][i].val = v
    BY <2>1, OfStatusForm
  <2>2. ASSUME NEW s \in Sector, NEW i \in DOMAIN recs[s],
               recs[s][i].key = k, recs[s][i].st = st, recs[s][i].val = v
        PROVE  <<s, i>> \in OfStatus(k, st) /\ RecAt(<<s, i>>).val = v
    BY <2>2, OfStatusIn DEF RecAt
  <2> QED BY <2>1, <2>2
<1>2. ASSUME NEW st
      PROVE  OfStatus(k, st) # {} <=> \E s \in Sector : \E i \in DOMAIN recs[s] :
                                         recs[s][i].key = k /\ recs[s][i].st = st
  <2>1. ASSUME NEW a \in OfStatus(k, st)
        PROVE  \E s \in Sector : \E i \in DOMAIN recs[s] : recs[s][i].key = k /\ recs[s][i].st = st
    BY OfStatusForm
  <2>2. ASSUME NEW s \in Sector, NEW i \in DOMAIN recs[s], recs[s][i].key = k, recs[s][i].st = st
        PROVE  <<s, i>> \in OfStatus(k, st)
    BY <2>2, OfStatusIn
  <2> QED BY <2>1, <2>2
<1>3. Held(k) <=> w # {}
  BY <1>2 DEF Held
<1>4. \A v : HeldAs(k, v) <=> \E a \in w : RecAt(a).val = v
  BY <1>1 DEF HeldAs
<1> DEFINE a == CHOOSE b \in w : TRUE
           c == CHOOSE b \in p : TRUE
<1>5. w # {} => a \in w /\ \A b \in w : b = a
  <2>1. w # {} => a \in w
    OBVIOUS
  <2> QED BY <2>1, OneOf
<1>6. p # {} => c \in p /\ \A b \in p : b = c
  <2>1. p # {} => c \in p
    OBVIOUS
  <2> QED BY <2>1, OneMarked
<1>7. Stored(k) = IF w # {} THEN RecAt(a).val ELSE IF p # {} THEN RecAt(c).val ELSE NoVal
  BY DEF Stored
<1>8. \A v : Holds(k, v) <=> \/ \E b \in w : RecAt(b).val = v
                             \/ w = {} /\ \E b \in p : RecAt(b).val = v
                             \/ w = {} /\ p = {} /\ v = NoVal
  <2>1. \A v : (\E b \in p : RecAt(b).val = v)
               <=> \E s \in Sector : \E i \in DOMAIN recs[s] :
                      recs[s][i].key = k /\ recs[s][i].st = KV_PRE_DELETE /\ recs[s][i].val = v
    BY <1>1
  <2>2. p # {} <=> \E s \in Sector : \E i \in DOMAIN recs[s] :
                      recs[s][i].key = k /\ recs[s][i].st = KV_PRE_DELETE
    BY <1>2
  <2> HIDE DEF w, p
  <2> QED BY <1>3, <1>4, <2>1, <2>2 DEF Holds
<1> HIDE DEF w, p, a, c
<1> QED BY <1>5, <1>6, <1>7, <1>8

LEMMA StoredNext == (Base /\ MapInv)' => (\A k \in Key : \A v : Holds(k, v) <=> Stored(k) = v)'
BY StoredIs, PTL

LEMMA StoredKept ==
    ASSUME Base, MapInv, Base', MapInv', NEW k \in Key, NEW v, Holds(k, v), Holds(k, v)'
    PROVE  Stored(k)' = Stored(k)
<1>1. Stored(k) = v
  BY StoredIs
<1>2. (Stored(k) = v)'
  BY StoredNext
<1> QED BY <1>1, <1>2

\* The step leaves every record of k that counts, and makes none.
Counts(r, k) == r.key = k /\ r.st \in {KV_WRITE, KV_PRE_DELETE}
SameOf(k) ==
    /\ \A s \in Sector : \A i \in DOMAIN recs[s] : Counts(recs[s][i], k) =>
          i \in DOMAIN recs'[s] /\ recs'[s][i] = recs[s][i]
    /\ \A s \in Sector : \A i \in DOMAIN recs'[s] : Counts(recs'[s][i], k) =>
          i \in DOMAIN recs[s] /\ recs'[s][i] = recs[s][i]

LEMMA SameKeeps ==
    ASSUME Base, MapInv, Base', MapInv', NEW k \in Key, SameOf(k)
    PROVE  Stored(k)' = Stored(k)
<1>1. ASSUME NEW st \in {KV_WRITE, KV_PRE_DELETE}, NEW v
      PROVE  (\E s \in Sector : \E i \in DOMAIN recs[s] :
                 recs[s][i].key = k /\ recs[s][i].st = st /\ recs[s][i].val = v)
             <=> (\E s \in Sector : \E i \in DOMAIN recs'[s] :
                    recs'[s][i].key = k /\ recs'[s][i].st = st /\ recs'[s][i].val = v)
  BY DEF SameOf, Counts
<1>2. ASSUME NEW st \in {KV_WRITE, KV_PRE_DELETE}
      PROVE  (\E s \in Sector : \E i \in DOMAIN recs[s] : recs[s][i].key = k /\ recs[s][i].st = st)
             <=> (\E s \in Sector : \E i \in DOMAIN recs'[s] : recs'[s][i].key = k /\ recs'[s][i].st = st)
  BY DEF SameOf, Counts
<1>3. \A v : HeldAs(k, v) <=> HeldAs(k, v)'
  BY <1>1 DEF HeldAs
<1>4. Held(k) <=> Held(k)'
  BY <1>2 DEF Held
<1>5. \A v : Holds(k, v) => Holds(k, v)'
  <2>1. \A v : (\E s \in Sector : \E i \in DOMAIN recs[s] :
                 recs[s][i].key = k /\ recs[s][i].st = KV_PRE_DELETE /\ recs[s][i].val = v)
             <=> (\E s \in Sector : \E i \in DOMAIN recs'[s] :
                    recs'[s][i].key = k /\ recs'[s][i].st = KV_PRE_DELETE /\ recs'[s][i].val = v)
    BY <1>1
  <2>2. (\E s \in Sector : \E i \in DOMAIN recs[s] : recs[s][i].key = k /\ recs[s][i].st = KV_PRE_DELETE)
             <=> (\E s \in Sector : \E i \in DOMAIN recs'[s] :
                    recs'[s][i].key = k /\ recs'[s][i].st = KV_PRE_DELETE)
    BY <1>2
  <2> QED BY <1>3, <1>4, <2>1, <2>2 DEF Holds
<1>6. Holds(k, Stored(k))
  BY StoredIs
<1>7. PICK v : v = Stored(k)
  OBVIOUS
<1> QED BY <1>5, <1>6, <1>7, StoredKept

LEMMA OnlyAtSame ==
    ASSUME NEW k, NEW s \in Sector, NEW i \in DOMAIN recs[s], OnlyAt(s, i),
           ~Counts(recs[s][i], k), ~Counts(recs'[s][i], k)
    PROVE  SameOf(k)
BY DEF OnlyAt, SameOf

\* What a step does to the values: nothing, or what its call is for.
SetsValue == /\ Commit /\ mv = "no" /\ op.key \in Key
             /\ \A k \in Key : Stored(k)' = IF k = op.key THEN op.val ELSE Stored(k)
Removes == /\ Delete /\ op.kind = "del" /\ op.key \in Key
           /\ \A k \in Key : Stored(k)' = IF k = op.key THEN NoVal ELSE Stored(k)
Resets == /\ FmtErase /\ op.kind = "reset"
          /\ \A k \in Key : Stored(k)' \in {NoVal, Stored(k)}

LEMMA CommitStores ==
    ASSUME Steady, Base, MapInv, Base', MapInv', Commit
    PROVE  SetsValue \/ \A k \in Key : Stored(k)' = Stored(k)
<1> /\ CallInv /\ OldInv /\ RecordInv /\ CurInv /\ UniqueInv /\ HeldInv
  BY DEF MapInv, UniqueInv
<1> DEFINE s == cur.sec
           n == Len(recs[s])
<1>1. pc = "commit" /\ mv \in {"no", "gc"}
  BY DEF Commit, CallInv, Base, TypeInv, TypeOK, FrameType
<1>2. /\ s \in Sector /\ n \in DOMAIN recs[s] /\ IsNew(s, n) /\ recs[s][n] \in Rec /\ OnlyAt(s, n)
      /\ recs'[s][n] = [recs[s][n] EXCEPT !.st = WriteStatus(recs[s][n].st, KV_WRITE)]
  BY <1>1, WriterEffect DEF Base, SafeInv
<1>3. recs[s][n].key = cur.key /\ recs'[s][n].key = cur.key
  <2>1. recs[s][n].key = cur.key
    BY <1>1, <1>2 DEF RecordInv
  <2> QED BY <1>2, <2>1 DEF Rec
<1>4. \A k, v : k = cur.key /\ v = cur.val => HeldAs(k, v)'
  BY CommitHolds
<1> HIDE DEF s, n
<1>5. ASSUME NEW k \in Key, k # cur.key PROVE Stored(k)' = Stored(k)
  <2>1. ~Counts(recs[s][n], k) /\ ~Counts(recs'[s][n], k)
    BY <1>3, <1>5 DEF Counts
  <2>2. SameOf(k)
    BY <1>2, <2>1, OnlyAtSame
  <2> QED BY <2>2, SameKeeps
<1>6. CASE mv = "no"
  <2>1. cur.key = op.key /\ cur.val = op.val /\ op.key \in Key
    BY <1>1, <1>6 DEF CurInv
  <2>2. ASSUME NEW k \in Key, k = op.key, NEW v, v = op.val PROVE Stored(k)' = v
    <3>1. Holds(k, v)'
      BY <1>4, <2>1, <2>2 DEF Holds
    <3>2. (Holds(k, v) <=> Stored(k) = v)'
      BY StoredNext
    <3> QED BY <3>1, <3>2
  <2>3. \A k \in Key : Stored(k)' = IF k = op.key THEN op.val ELSE Stored(k)
    BY <1>5, <2>1, <2>2
  <2> QED BY <1>6, <2>1, <2>3 DEF SetsValue
<1>7. CASE mv = "gc"
  <2>1. /\ HasOld /\ old.sec \in Sector /\ old.idx \in DOMAIN recs[old.sec] /\ old.rec \in Rec
        /\ recs[old.sec][old.idx] = [old.rec EXCEPT !.st = OldStatus] /\ CrcOk(old.rec)
    BY <1>7 DEF OldInv, Base, TypeInv, TypeOK, FrameType, OldType
  <2>2. OldStatus = KV_PRE_DELETE
    BY <1>1 DEF OldStatus
  <2>3. recs[old.sec][old.idx].st = KV_PRE_DELETE /\ recs[old.sec][old.idx].key = old.rec.key
        /\ recs[old.sec][old.idx].val = old.rec.val /\ old.rec.key \in Key
    BY <2>1, <2>2 DEF Rec, CrcOk
  <2>4. ~Held(old.rec.key)
    BY <1>1, <2>1 DEF HeldInv
  <2>5. Holds(old.rec.key, old.rec.val)
    BY <2>1, <2>3, <2>4 DEF Holds
  <2>6. cur.key = old.rec.key /\ cur.val = old.rec.val
    BY <1>1, <1>7 DEF CurInv
  <2>7. ASSUME NEW k \in Key, k = cur.key, NEW v, v = cur.val PROVE Stored(k)' = Stored(k)
    <3>1. Holds(k, v)'
      BY <1>4, <2>7 DEF Holds
    <3>2. Holds(k, v)
      BY <2>5, <2>6, <2>7
    <3> QED BY <3>1, <3>2, StoredKept
  <2> QED BY <1>5, <2>7
<1> QED BY <1>1, <1>6, <1>7

LEMMA OldStores ==
    ASSUME Steady, Base, MapInv, Base', MapInv', PreDelete \/ Delete
    PROVE  Removes \/ \A k \in Key : Stored(k)' = Stored(k)
<1> /\ CallInv /\ OldInv /\ RecordInv /\ CurInv /\ UniqueInv /\ HeldInv /\ OneWritten
    /\ SectorInv /\ DefaultInv
  BY DEF MapInv, UniqueInv
<1>1. /\ HasOld /\ old.sec \in Sector /\ old.idx \in DOMAIN recs[old.sec] /\ OnlyAt(old.sec, old.idx)
      /\ old.rec \in Rec /\ CrcOk(old.rec)
      /\ recs[old.sec][old.idx] = [old.rec EXCEPT !.st = OldStatus]
      /\ PreDelete => /\ OldStatus = KV_WRITE
                      /\ recs'[old.sec][old.idx] = [old.rec EXCEPT !.st = KV_PRE_DELETE]
      /\ Delete => /\ OldStatus \in {KV_WRITE, KV_PRE_DELETE}
                   /\ recs'[old.sec][old.idx] = [old.rec EXCEPT !.st = KV_DELETED]
  BY OldEffect
<1>2. /\ recs[old.sec][old.idx].key = old.rec.key /\ recs'[old.sec][old.idx].key = old.rec.key
      /\ recs[old.sec][old.idx].st = OldStatus /\ recs[old.sec][old.idx].val = old.rec.val
      /\ PreDelete => recs'[old.sec][old.idx].st = KV_PRE_DELETE /\ recs'[old.sec][old.idx].val = old.rec.val
      /\ Delete => recs'[old.sec][old.idx].st = KV_DELETED
      /\ old.rec.key \in Key
  BY <1>1 DEF Rec, CrcOk
<1>3. ASSUME NEW k \in Key, k # old.rec.key PROVE Stored(k)' = Stored(k)
  <2>1. ~Counts(recs[old.sec][old.idx], k) /\ ~Counts(recs'[old.sec][old.idx], k)
    BY <1>2, <1>3 DEF Counts
  <2>2. SameOf(k)
    BY <1>1, <2>1, OnlyAtSame
  <2> QED BY <2>2, SameKeeps
<1>4. /\ NoneNew
      /\ Delete /\ OldStatus = KV_PRE_DELETE => NoneLost
  <2>1. Quiet \/ Loud
    BY DEF Loud
  <2>2. ~Commit
    BY DEF Commit, PreDelete, Delete
  <2> QED BY <2>1, <2>2, WritesForm
<1>5. CASE PreDelete
  <2>1. ASSUME NEW k \in Key, k = old.rec.key, NEW v, v = old.rec.val PROVE Stored(k)' = Stored(k)
    <3>1. Holds(k, v)
      BY <1>1, <1>2, <1>5, <2>1 DEF Holds, HeldAs
    <3>2. ~Held(k)'
      BY <1>1, <1>4, <1>5, <2>1, OldGone
    <3>3. old.idx \in DOMAIN recs'[old.sec]
      BY <1>1 DEF OnlyAt
    <3>4. Holds(k, v)'
      BY <1>1, <1>2, <1>5, <2>1, <3>2, <3>3 DEF Holds
    <3> QED BY <3>1, <3>4, StoredKept
  <2> QED BY <1>3, <2>1
<1>6. CASE Delete /\ OldStatus = KV_PRE_DELETE
  <2>1. PICK v : HeldAs(old.rec.key, v)
    <3>1. pc = "delete" /\ mv \in {"no", "gc"}
      BY <1>6 DEF Delete, CallInv, Base, TypeInv, TypeOK, FrameType
    <3>2. CASE mv = "gc"
      BY <3>1, <3>2 DEF HeldInv
    <3>3. CASE mv = "no"
      <4>1. op.kind = "set" /\ old.rec.key = op.key
        BY <1>1, <1>6, <3>1, <3>3 DEF OldStatus, CallInv, OldInv, KV_WRITE, KV_PRE_DELETE
      <4>2. HeldAs(op.key, op.val)
        BY <3>1, <3>3, <4>1 DEF HeldInv
      <4> QED BY <4>1, <4>2
    <3> QED BY <3>1, <3>2, <3>3
  <2>2. ASSUME NEW k \in Key, k = old.rec.key PROVE Stored(k)' = Stored(k)
    <3>1. HeldAs(k, v)
      BY <2>1, <2>2
    <3>2. HeldAs(k, v)'
      BY <1>4, <1>6, <3>1, NoneLostKeeps
    <3>3. Holds(k, v) /\ Holds(k, v)'
      BY <3>1, <3>2 DEF Holds
    <3> QED BY <3>3, StoredKept
  <2> QED BY <1>3, <2>2
<1>7. CASE Delete /\ OldStatus = KV_WRITE
  <2>1. op.kind = "del" /\ old.rec.key = op.key /\ op.key \in Key
    <3>1. pc = "delete" /\ mv = "no" /\ op.kind = "del"
      BY <1>7 DEF Delete, OldStatus, KV_WRITE, KV_PRE_DELETE
    <3> QED BY <1>1, <1>2, <3>1 DEF OldInv
  <2>2. ASSUME NEW k \in Key, k = op.key PROVE Stored(k)' = NoVal
    <3>1. ~Held(k)'
      BY <1>1, <1>4, <1>7, <2>1, <2>2, OldGone
    <3>2. ASSUME NEW t \in Sector, NEW i \in DOMAIN recs'[t], recs'[t][i].key = k, recs'[t][i].st = KV_PRE_DELETE
          PROVE  FALSE
      <4>1. ~(t = old.sec /\ i = old.idx)
        BY <1>2, <1>7, <3>2 DEF KV_PRE_DELETE, KV_DELETED
      <4>2. i \in DOMAIN recs[t] /\ recs[t][i] = recs'[t][i]
        BY <1>1, <3>2, <4>1 DEF OnlyAt
      <4>3. IsOld(t, i)
        BY <3>2, <4>2 DEF RecordInv, KV_WRITE, KV_DELETED, KV_PRE_DELETE, KV_PRE_WRITE
      <4> QED BY <4>1, <4>3 DEF IsOld
    <3>3. Holds(k, NoVal)'
      BY <3>1, <3>2 DEF Holds
    <3>4. (Holds(k, NoVal) <=> Stored(k) = NoVal)'
      BY StoredNext
    <3> QED BY <3>3, <3>4
  <2>3. \A k \in Key : Stored(k)' = IF k = op.key THEN NoVal ELSE Stored(k)
    BY <1>3, <2>1, <2>2
  <2> QED BY <1>7, <2>1, <2>3 DEF Removes
<1> QED BY <1>1, <1>5, <1>6, <1>7
\* A sector that do_gc erases has no record that counts.
LEMMA VictimCounts ==
    ASSUME Base, MapInv, GcErase, NEW k \in Key, NEW i \in DOMAIN recs[Victim]
    PROVE  ~Counts(recs[Victim][i], k)
<1>1. ToMove = {} /\ pc = "gcScan" /\ InVictim
  BY DEF GcErase, InVictim
<1>2. mv = "no"
  BY <1>1, Quietly DEF MapInv
<1>3. i >= gc.idx => ~Live(recs[Victim][i])
  BY <1>1 DEF ToMove
<1>4. i < gc.idx => ~Live(recs[Victim][i])
  BY <1>1, <1>2 DEF MapInv, RoomInv
<1>5. Victim \in Sector /\ i \in Nat /\ gc.idx \in Nat
  BY RecTyped, VictimType DEF Base, TypeInv, TypeOK, FrameType, GcType
<1>6. ~Live(recs[Victim][i])
  BY <1>3, <1>4, <1>5
<1>7. CrcOk(recs[Victim][i])
  BY <1>1, <1>5 DEF MapInv, RecordInv, IsNew, Adding
<1> QED BY <1>6, <1>7 DEF Live, Counts

LEMMA EraseStores ==
    ASSUME Steady, Base, MapInv, Base', MapInv', FmtErase \/ GcErase
    PROVE  Resets \/ \A k \in Key : Stored(k)' = Stored(k)
<1> /\ CallInv /\ OldInv /\ RecordInv /\ DefaultInv
  BY DEF MapInv
<1>1. CASE GcErase
  <2>1. /\ Victim \in Sector /\ recs'[Victim] = <<>>
        /\ \A t \in Sector : t # Victim => recs'[t] = recs[t]
    BY <1>1, VictimType, EraseEffect DEF GcErase, Base
  <2>2. ASSUME NEW k \in Key PROVE Stored(k)' = Stored(k)
    <3>1. SameOf(k)
      BY <1>1, <2>1, VictimCounts DEF SameOf
    <3> QED BY <3>1, SameKeeps
  <2> QED BY <2>2
<1>2. CASE FmtErase
  <2>1. scan.n \in Sector /\ EraseSector(scan.n) /\ pc = "fmtErase" /\ pc' = "fmtHdr"
    BY <1>2 DEF FmtErase, Base, SafeInv, FrameInv
  <2>2. recs'[scan.n] = <<>> /\ \A t \in Sector : t # scan.n => recs'[t] = recs[t]
    BY <2>1, EraseEffect DEF Base
  <2>3. CASE op.kind = "boot"
    <3>1. recs' = recs
      BY <2>1, <2>3, EraseEffect DEF DefaultInv, Base
    <3>2. ASSUME NEW k \in Key PROVE Stored(k)' = Stored(k)
      <4>1. SameOf(k)
        BY <3>1 DEF SameOf
      <4> QED BY <4>1, SameKeeps
    <3> QED BY <3>2
  <2>4. CASE op.kind = "reset"
    <3>1. ~HasOld
      BY <2>1 DEF OldInv, Moving
    <3>2. \A s \in Sector : \A i \in DOMAIN recs[s] : recs[s][i].st # KV_PRE_DELETE
      BY <2>1, <3>1 DEF RecordInv, IsNew, IsOld, Adding, KV_WRITE, KV_DELETED, KV_PRE_DELETE
    <3>3. \A s \in Sector : \A i \in DOMAIN recs'[s] : i \in DOMAIN recs[s] /\ recs'[s][i] = recs[s][i]
      BY <2>2
    <3>4. ASSUME NEW k \in Key PROVE Stored(k)' \in {NoVal, Stored(k)}
      <4>1. CASE Held(k)'
        <5>1. PICK s \in Sector : \E i \in DOMAIN recs'[s] : recs'[s][i].key = k /\ recs'[s][i].st = KV_WRITE
          BY <4>1 DEF Held
        <5>2. PICK i \in DOMAIN recs'[s] : recs'[s][i].key = k /\ recs'[s][i].st = KV_WRITE
          BY <5>1
        <5>3. PICK v : v = recs'[s][i].val
          OBVIOUS
        <5>4. HeldAs(k, v) /\ HeldAs(k, v)'
          BY <3>3, <5>2, <5>3 DEF HeldAs
        <5>5. Holds(k, v) /\ Holds(k, v)'
          BY <5>4 DEF Holds
        <5> QED BY <5>5, StoredKept
      <4>2. CASE ~Held(k)'
        <5>1. Holds(k, NoVal)'
          BY <3>2, <3>3, <4>2 DEF Holds
        <5>2. (Holds(k, NoVal) <=> Stored(k) = NoVal)'
          BY StoredNext
        <5> QED BY <5>1, <5>2
      <4> QED BY <4>1, <4>2
    <3> QED BY <1>2, <2>4, <3>4 DEF Resets
  <2> QED BY <2>1, <2>3, <2>4 DEF CallInv, Resetting
<1> QED BY <1>1, <1>2

\* What is written before the last byte of the status counts for nothing.
LEMMA WriteStores ==
    ASSUME Steady, Base, MapInv, Base', MapInv', PreWrite \/ WriteMagic \/ WriteHdr \/ WriteBody
    PROVE  \A k \in Key : Stored(k)' = Stored(k)
<1> SUFFICES ASSUME NEW k \in Key PROVE SameOf(k)
  BY SameKeeps
<1> RecordInv /\ CallInv
  BY DEF MapInv
<1>1. CASE PreWrite
  <2>1. LET s == cur.sec
            n == Len(recs[s]) + 1
        IN /\ s \in Sector /\ n \in Nat
           /\ DOMAIN recs'[s] = DOMAIN recs[s] \cup {n}
           /\ \A j \in DOMAIN recs[s] : recs'[s][j] = recs[s][j]
           /\ recs'[s][n] = Blank
           /\ \A t \in Sector : t # s => recs'[t] = recs[t]
    BY <1>1, AppendEffect DEF Base
  <2>2. ~Counts(Blank, k)
    BY DEF Counts, Blank, KV_WRITE, KV_PRE_WRITE, KV_PRE_DELETE
  <2> HIDE DEF Blank
  <2>3. ASSUME NEW t \in Sector, NEW i \in DOMAIN recs'[t], Counts(recs'[t][i], k)
        PROVE  i \in DOMAIN recs[t] /\ recs'[t][i] = recs[t][i]
    <3>1. CASE t = cur.sec
      BY <2>1, <2>2, <2>3, <3>1
    <3>2. CASE t # cur.sec
      BY <2>1, <3>2
    <3> QED BY <3>1, <3>2
  <2>4. ASSUME NEW t \in Sector, NEW i \in DOMAIN recs[t]
        PROVE  i \in DOMAIN recs'[t] /\ recs'[t][i] = recs[t][i]
    <3>1. CASE t = cur.sec
      BY <2>1, <3>1
    <3>2. CASE t # cur.sec
      BY <2>1, <3>2
    <3> QED BY <3>1, <3>2
  <2> QED BY <2>3, <2>4 DEF SameOf
<1>2. CASE WriteMagic \/ WriteHdr \/ WriteBody
  <2>1. pc \in {"magic", "header", "body"}
    BY <1>2 DEF WriteMagic, WriteHdr, WriteBody
  <2> DEFINE s == cur.sec
             n == Len(recs[s])
  <2>2. /\ s \in Sector /\ n \in DOMAIN recs[s] /\ IsNew(s, n) /\ recs[s][n] \in Rec /\ OnlyAt(s, n)
        /\ recs'[s][n] = CASE pc = "magic" -> [recs[s][n] EXCEPT !.len = HdrLen]
                           [] pc = "header" -> [recs[s][n] EXCEPT !.len = cur.len]
                           [] pc = "body" -> [recs[s][n] EXCEPT !.key = cur.key, !.val = cur.val]
                           [] pc = "commit" -> [recs[s][n] EXCEPT
                                !.st = WriteStatus(recs[s][n].st, KV_WRITE)]
    BY <1>2, WriterEffect DEF Base, SafeInv
  <2>3. recs[s][n].st = KV_PRE_WRITE
    BY <2>2 DEF RecordInv
  <2>4. recs'[s][n].st = recs[s][n].st
    BY <2>1, <2>2 DEF Rec
  <2> HIDE DEF s, n
  <2>5. ~Counts(recs[s][n], k) /\ ~Counts(recs'[s][n], k)
    BY <2>3, <2>4 DEF Counts, KV_WRITE, KV_PRE_WRITE, KV_PRE_DELETE
  <2> QED BY <2>2, <2>5, OnlyAtSame
<1> QED BY <1>1, <1>2

LEMMA StoreStep ==
    ASSUME Steady, Base, MapInv, Base', MapInv', Next
    PROVE  /\ Quiet \/ Loud
           /\ SetsValue \/ Removes \/ Resets \/ \A k \in Key : Stored(k)' = Stored(k)
           /\ Quiet => \A k \in Key : Stored(k)' = Stored(k)
<1>1. Quiet \/ Loud
  BY StepCases
<1>2. ASSUME Quiet, NEW k \in Key PROVE Stored(k)' = Stored(k)
  <2>1. recs' = recs
    BY <1>2, QuietRecs DEF MapInv
  <2>2. SameOf(k)
    BY <2>1 DEF SameOf
  <2> QED BY <2>2, SameKeeps
<1>3. ASSUME Loud
      PROVE  SetsValue \/ Removes \/ Resets \/ \A k \in Key : Stored(k)' = Stored(k)
  BY <1>3, CommitStores, OldStores, EraseStores, WriteStores DEF Loud
<1> QED BY <1>1, <1>2, <1>3
\* What a user of the database is shown.
Shown == <<[k \in Key |-> Stored(k)], Request, ack>>

LEMMA RequestIs ==
    /\ op.kind \in {"boot", "reset"} => Request = [kind |-> op.kind, key |-> NoKey, val |-> NoVal]
    /\ op.kind \in {"set", "del"} => Request = [kind |-> op.kind, key |-> op.key, val |-> op.val]
    /\ op.kind = "none" => Request = Promise!None
BY DEF Request, Promise!None

LEMMA RequestNext ==
    /\ op'.kind \in {"boot", "reset"} => Request' = [kind |-> op'.kind, key |-> NoKey, val |-> NoVal]
    /\ op'.kind \in {"set", "del"} => Request' = [kind |-> op'.kind, key |-> op'.key, val |-> op'.val]
    /\ op'.kind = "none" => Request' = Promise!None
BY DEF Request, Promise!None

\* A request is made; one returns, with success only when it is done; the
\* acknowledgement of the last one is forgotten.
Served == op.kind \in {"set", "del"} =>
             op.key \in Key /\ Stored(op.key) = IF op.kind = "set" THEN op.val ELSE NoVal
Asks == op.kind = "none" /\ Request' \in Promise!Requests /\ ack' = FALSE
Ends == op.kind # "none" /\ op'.kind = "none" /\ ack' \in BOOLEAN /\ (ack' => Served)
Forgets == ack /\ ack' = FALSE /\ Request' = Request
Waits == Request' = Request /\ ack' = ack

LEMMA LoudWaits ==
    ASSUME Loud
    PROVE  Waits
<1>1. UNCHANGED <<op, ack>>
  BY DEF Loud, PreDelete, Delete, PreWrite, WriteMagic, WriteHdr, WriteBody, Commit, FmtErase, GcErase, frame
<1> QED BY <1>1 DEF Waits, Request

\* When set_kv and fdb_kv_del return with success the value is there, or gone.
LEMMA PostServes ==
    ASSUME Base, MapInv, pc = "postGc"
    PROVE  Served
<1> CallInv /\ OldInv /\ RecordInv /\ HeldInv
  BY DEF MapInv, UniqueInv
<1>1. op.kind \in {"set", "del"} /\ op.key \in Key
  BY DEF CallInv, Base, TypeInv, Named
<1>2. mv = "no" /\ ~HasOld
  BY Quietly DEF Moving
<1>3. ASSUME op.kind = "set" PROVE Stored(op.key) = op.val
  <2>1. HeldAs(op.key, op.val)
    BY <1>2, <1>3 DEF HeldInv
  <2>2. Holds(op.key, op.val)
    BY <2>1 DEF Holds
  <2> QED BY <1>1, <2>2, StoredIs
<1>4. ASSUME op.kind = "del" PROVE Stored(op.key) = NoVal
  <2>1. ~Held(op.key)
    BY <1>2, <1>4 DEF HeldInv
  <2>2. \A s \in Sector : \A i \in DOMAIN recs[s] : recs[s][i].st # KV_PRE_DELETE
    BY <1>2 DEF RecordInv, IsNew, IsOld, Adding, KV_WRITE, KV_DELETED, KV_PRE_DELETE
  <2>3. Holds(op.key, NoVal)
    BY <2>1, <2>2 DEF Holds
  <2> QED BY <1>1, <2>3, StoredIs
<1> QED BY <1>1, <1>3, <1>4 DEF Served

LEMMA QuietShows ==
    ASSUME Steady, Base, MapInv, Quiet
    PROVE  Asks \/ Ends \/ Forgets \/ Waits
<1> CallInv /\ OldInv
  BY DEF MapInv
<1>1. /\ ack \in BOOLEAN /\ op \in OpType
      /\ op.kind \in {"set", "del"} => op.key \in Key
      /\ ack => pc = "idle"
  BY DEF CallInv, Base, TypeInv, TypeOK, FrameType, Named
<1>2. UNCHANGED <<op, ack>> => Waits
  BY DEF Waits, Request
<1>3. NoOp.kind = "none" /\ NoOp.key = NoKey /\ NoOp.val = NoVal
  BY DEF NoOp
<1>4. ASSUME NEW ok, EndOp(ok) PROVE op'.kind = "none" /\ ack' = ok
  BY <1>3, <1>4 DEF EndOp
<1> DEFINE boot == [NoOp EXCEPT !.kind = "boot"]
           reset == [NoOp EXCEPT !.kind = "reset"]
<1>5. boot.kind = "boot" /\ reset.kind = "reset"
  BY DEF NoOp
<1>6. \A r : r = [kind |-> "boot", key |-> NoKey, val |-> NoVal] => r \in Promise!Requests
  BY DEF Promise!Requests
<1>7. \A r : r = [kind |-> "reset", key |-> NoKey, val |-> NoVal] => r \in Promise!Requests
  BY DEF Promise!Requests
<1>8. CASE Booting
  <2>1. CASE HdrDone /\ scan.bad = SecNum
    <3>1. pc = "hdr" /\ op' = boot /\ ack' = ack
      BY <2>1 DEF HdrDone
    <3>2. op.kind = "none" /\ ack' = FALSE
      BY <1>1, <3>1 DEF CallInv, NoCall
    <3>3. Request' = [kind |-> "boot", key |-> NoKey, val |-> NoVal]
      BY <1>5, <3>1, RequestNext
    <3> QED BY <1>6, <3>2, <3>3 DEF Asks
  <2>2. CASE ~(HdrDone /\ scan.bad = SecNum)
    <3>1. UNCHANGED <<op, ack>>
      BY <1>8, <2>2 DEF Booting, FindOldest, CheckHdr, HdrDone, ResumeGcDone, RecoverKvDone, LoadEnd, frame
    <3> QED BY <1>2, <3>1
  <2> QED BY <2>1, <2>2
<1>9. CASE FmtHdr
  BY <1>2, <1>9 DEF FmtHdr
<1>10. CASE NextDefault
  <2>1. op.kind \in {"boot", "reset"} /\ op'.kind = op.kind /\ ack' = ack
    BY <1>1, <1>10 DEF NextDefault, CallInv, Resetting, OpType
  <2> QED BY <2>1, RequestIs, RequestNext DEF Waits
<1>11. CASE DefaultsDone
  <2>1. op.kind \in {"boot", "reset"} /\ ~ack
    BY <1>1, <1>11 DEF DefaultsDone, CallInv, Resetting
  <2>2. op'.kind = "none" /\ ack' \in BOOLEAN
    BY <1>1, <1>3, <1>4, <1>11 DEF DefaultsDone
  <2> QED BY <2>1, <2>2 DEF Ends, Served
<1>12. CASE GcBegin \/ GcDone \/ GcNext
  <2>1. GcReturn => UNCHANGED <<op, ack>>
    BY <1>12, GcReturnForm DEF GcBegin, GcDone, GcNext
  <2>2. UNCHANGED <<op, ack>>
    BY <1>12, <2>1 DEF GcBegin, GcDone, GcNext
  <2> QED BY <1>2, <2>2
<1>13. CASE GcVisit \/ GcMove \/ GcFormat \/ NewKv \/ MarkDirty \/ UpdateSecStatus \/ MvAlloc
  BY <1>2, <1>13 DEF GcVisit, GcMove, GcFormat, NewKv, MarkDirty, UpdateSecStatus, MvAlloc, frame
<1>14. CASE Calling
  <2>1. pc = "idle" /\ op.kind = "none"
    BY <1>14 DEF Calling, Set, Del, Get, SetDefault, Deinit, CallInv, NoCall
  <2>2. ASSUME NEW k \in Key, NEW v \in Val, Set(k, v) PROVE Asks
    <3>1. op'.kind = "set" /\ op'.key = k /\ op'.val = v /\ ack' = FALSE
      BY <2>2 DEF Set, NoOp
    <3>2. Request' \in Promise!Requests
      BY <3>1, RequestNext DEF Promise!Requests
    <3> QED BY <2>1, <3>1, <3>2 DEF Asks
  <2>3. ASSUME NEW k \in Key, Del(k) PROVE Asks
    <3>1. op'.kind = "del" /\ op'.key = k /\ op'.val = NoVal /\ ack' = FALSE
      BY <2>3 DEF Del, NoOp
    <3>2. Request' \in Promise!Requests
      BY <3>1, RequestNext DEF Promise!Requests
    <3> QED BY <2>1, <3>1, <3>2 DEF Asks
  <2>4. CASE SetDefault
    <3>1. op' = reset /\ ack' = FALSE
      BY <2>4 DEF SetDefault
    <3>2. Request' = [kind |-> "reset", key |-> NoKey, val |-> NoVal]
      BY <1>5, <3>1, RequestNext
    <3> QED BY <1>7, <2>1, <3>1, <3>2 DEF Asks
  <2>5. ASSUME NEW k \in Key, Get(k) PROVE Waits
    BY <1>2, <2>5 DEF Get, frame
  <2>6. CASE Deinit
    <3>1. op' = op /\ ack' = FALSE
      BY <2>6 DEF Deinit
    <3>2. Request' = Request
      BY <3>1 DEF Request
    <3> QED BY <1>1, <3>1, <3>2 DEF Forgets, Waits
  <2> QED BY <1>14, <2>2, <2>3, <2>4, <2>5, <2>6 DEF Calling
<1>15. CASE NewKvGc
  <2>1. op'.kind = op.kind /\ op'.key = op.key /\ op'.val = op.val /\ ack' = ack
    BY <1>1, <1>15 DEF NewKvGc, OpType
  <2>2. Request' = Request
    BY <2>1 DEF Request
  <2> QED BY <2>1, <2>2 DEF Waits
<1>16. CASE NewKvFull
  <2>1. CASE op.kind = "set"
    <3>1. op'.kind = "none" /\ ack' = FALSE
      BY <1>4, <1>16, <2>1 DEF NewKvFull
    <3> QED BY <2>1, <3>1 DEF Ends
  <2>2. CASE op.kind # "set"
    BY <1>2, <1>16, <2>2 DEF NewKvFull
  <2> QED BY <2>1, <2>2
<1>17. CASE FindOld
  <2>1. op.kind \in {"set", "del"}
    BY <1>17 DEF FindOld, CallInv
  <2>2. EndOp(FALSE) \/ UNCHANGED <<op, ack>>
    BY <1>17 DEF FindOld
  <2>3. CASE EndOp(FALSE)
    <3>1. op'.kind = "none" /\ ack' = FALSE
      BY <1>4, <2>3
    <3> QED BY <2>1, <3>1 DEF Ends
  <2> QED BY <1>2, <2>2, <2>3
<1>18. CASE PostGc
  <2>1. pc = "postGc" /\ op.kind \in {"set", "del"}
    BY <1>18 DEF PostGc, CallInv
  <2>2. EndOp(TRUE) \/ UNCHANGED <<op, ack>>
    BY <1>18 DEF PostGc
  <2>3. CASE EndOp(TRUE)
    <3>1. op'.kind = "none" /\ ack' = TRUE
      BY <1>4, <2>3
    <3> QED BY <2>1, <3>1, PostServes DEF Ends
  <2> QED BY <1>2, <2>2, <2>3
<1> QED BY <1>8, <1>9, <1>10, <1>11, <1>12, <1>13, <1>14, <1>15, <1>16, <1>17, <1>18
        DEF Quiet, Filling, Collecting, New
\* The map, before and after, where one name changes.
LEMMA MapPut ==
    ASSUME NEW k \in Key, NEW v, \A j \in Key : Stored(j)' = IF j = k THEN v ELSE Stored(j)
    PROVE  [j \in Key |-> Stored(j)]' = [[j \in Key |-> Stored(j)] EXCEPT ![k] = v]
<1> DEFINE d == [j \in Key |-> Stored(j)]
           e == [d EXCEPT ![k] = v]
<1>1. \A j \in Key : e[j] = IF j = k THEN v ELSE Stored(j)
  OBVIOUS
<1>2. e = [j \in Key |-> e[j]]
  OBVIOUS
<1>3. [j \in Key |-> Stored(j)]' = [j \in Key |-> Stored(j)']
  OBVIOUS
<1> HIDE DEF e
<1>4. [j \in Key |-> Stored(j)'] = [j \in Key |-> e[j]]
  BY <1>1
<1> QED BY <1>2, <1>3, <1>4 DEF e

\* The step in which a call takes effect.
LEMMA ApplySteps ==
    ASSUME Steady, Base, MapInv, Waits, SetsValue \/ Removes \/ Resets
    PROVE  Promise!Next
<1> CallInv /\ OldInv /\ DefaultInv
  BY DEF MapInv
<1> SUFFICES Promise!Apply
  BY DEF Promise!Next
<1>1. Request' = Request /\ ack' = ack
  BY DEF Waits
<1>2. CASE SetsValue
  <2>1. /\ pc = "commit" /\ mv = "no" /\ op.key \in Key
        /\ \A k \in Key : Stored(k)' = IF k = op.key THEN op.val ELSE Stored(k)
    BY <1>2 DEF SetsValue, Commit
  <2>2. op.kind \in {"set", "boot", "reset"}
    BY <2>1 DEF CallInv, Moving
  <2>3. Promise!Update(op.key, op.val)
    BY <2>1, MapPut DEF Promise!Update
  <2>4. CASE op.kind = "set"
    <3>1. Request.kind = "set" /\ Request.key = op.key /\ Request.val = op.val
      BY <2>4, RequestIs
    <3> QED BY <1>1, <2>3, <3>1 DEF Promise!Apply
  <2>5. CASE op.kind \in {"boot", "reset"}
    <3>1. op.i \in DOMAIN Defaults /\ op.key = Defaults[op.i][1] /\ op.val = Defaults[op.i][2]
      BY <2>1, <2>5 DEF DefaultInv, Resetting
    <3>2. Request.kind \in {"boot", "reset"}
      BY <2>5, RequestIs
    <3>3. \E p \in {Defaults[i] : i \in DOMAIN Defaults} : Promise!Update(p[1], p[2])
      BY <2>3, <3>1
    <3> QED BY <1>1, <3>2, <3>3 DEF Promise!Apply
  <2> QED BY <2>2, <2>4, <2>5
<1>3. CASE Removes
  <2>1. /\ op.kind = "del" /\ op.key \in Key
        /\ \A k \in Key : Stored(k)' = IF k = op.key THEN NoVal ELSE Stored(k)
    BY <1>3 DEF Removes
  <2>2. Promise!Update(op.key, NoVal)
    BY <2>1, MapPut DEF Promise!Update
  <2>3. Request.kind = "del" /\ Request.key = op.key
    BY <2>1, RequestIs
  <2> QED BY <1>1, <2>2, <2>3 DEF Promise!Apply
<1>4. CASE Resets
  <2> DEFINE K == {k \in Key : Stored(k)' # Stored(k)}
             d == [k \in Key |-> Stored(k)]
             e == [k \in Key |-> IF k \in K THEN NoVal ELSE d[k]]
  <2>1. op.kind = "reset" /\ \A k \in Key : Stored(k)' \in {NoVal, Stored(k)}
    BY <1>4 DEF Resets
  <2>2. Request.kind = "reset"
    BY <2>1, RequestIs
  <2>3. \A k \in Key : Stored(k)' = IF k \in K THEN NoVal ELSE d[k]
    BY <2>1
  <2>4. [k \in Key |-> Stored(k)'] = e
    BY <2>3
  <2>5. K \in SUBSET Key
    OBVIOUS
  <2>6. [k \in Key |-> Stored(k)]' = [k \in Key |-> Stored(k)']
    OBVIOUS
  <2>7. \E L \in SUBSET Key : [k \in Key |-> Stored(k)]' = [k \in Key |-> IF k \in L THEN NoVal ELSE d[k]]
    BY <2>4, <2>5, <2>6
  <2> QED BY <1>1, <2>2, <2>7 DEF Promise!Apply
<1> QED BY <1>2, <1>3, <1>4

\* The steps that leave the map alone.
LEMMA FrameSteps ==
    ASSUME Base, MapInv, \A k \in Key : Stored(k)' = Stored(k), Asks \/ Ends \/ Forgets \/ Waits
    PROVE  Promise!Next \/ UNCHANGED Shown
<1> DEFINE d == [k \in Key |-> Stored(k)]
<1>1. d' = d
  <2>1. d' = [k \in Key |-> Stored(k)']
    OBVIOUS
  <2> QED BY <2>1
<1>2. op.kind = "none" => Request = Promise!None
  BY RequestIs
<1>3. op.kind # "none" => Request # Promise!None
  <2>1. op.kind \in {"set", "del", "boot", "reset"} \/ op.kind = "none"
    BY DEF Base, TypeInv, TypeOK, FrameType, OpType
  <2>2. op.kind \in {"set", "del", "boot", "reset"} => Request.kind = op.kind
    BY RequestIs
  <2>3. Promise!None.kind = "none"
    BY DEF Promise!None
  <2> QED BY <2>1, <2>2, <2>3
<1>4. CASE Asks
  BY <1>1, <1>2, <1>4 DEF Asks, Promise!Next, Promise!Begin
<1>5. CASE Ends
  <2>1. Request # Promise!None /\ Request' = Promise!None /\ ack' \in BOOLEAN /\ (ack' => Served)
    BY <1>3, <1>5, RequestNext DEF Ends
  <2>2. Served => Promise!Done
    <3>1. CASE op.kind = "set"
      BY <3>1, RequestIs DEF Served, Promise!Done
    <3>2. CASE op.kind = "del"
      BY <3>2, RequestIs DEF Served, Promise!Done
    <3>3. CASE op.kind \in {"boot", "reset"}
      BY <3>3, RequestIs DEF Promise!Done
    <3> QED BY <1>5, <3>1, <3>2, <3>3 DEF Ends, Base, TypeInv, TypeOK, FrameType, OpType
  <2>3. ack' \in IF Promise!Done THEN BOOLEAN ELSE {FALSE}
    BY <2>1, <2>2
  <2> QED BY <1>1, <2>1, <2>3 DEF Promise!Next, Promise!End
<1>6. CASE Forgets
  BY <1>1, <1>6 DEF Forgets, Promise!Next, Promise!Forget
<1>7. CASE Waits
  BY <1>1, <1>7 DEF Waits, Shown
<1> QED BY <1>4, <1>5, <1>6, <1>7

LEMMA PromiseInit == Init => Promise!Init
<1> SUFFICES ASSUME Init PROVE Promise!Init
  OBVIOUS
<1>1. \A s \in Sector : recs[s] = <<>>
  BY DEF Init
<1>2. Base /\ MapInv
  BY TypeInit, FullInit, SafeInit, MapInit DEF Base
<1>3. ASSUME NEW k \in Key PROVE Stored(k) = NoVal
  <2>1. Holds(k, NoVal)
    BY <1>1 DEF Holds, Held
  <2> QED BY <1>2, <2>1, StoredIs
<1>4. op.kind = "none" /\ ack = FALSE
  BY DEF Init, NoOp
<1> QED BY <1>3, <1>4, RequestIs DEF Promise!Init

LEMMA PromiseStep ==
    ASSUME Steady
    PROVE  (Base /\ MapInv) /\ (Base /\ MapInv)' /\ [Next]_vars => [Promise!Next]_Shown
<1> SUFFICES ASSUME Base, MapInv, Base', MapInv', [Next]_vars PROVE Promise!Next \/ UNCHANGED Shown
  OBVIOUS
<1>1. CASE UNCHANGED vars
  <2>1. UNCHANGED <<recs, op, ack>>
    BY <1>1 DEF vars, flash, frame
  <2>2. Waits
    BY <2>1 DEF Waits, Request
  <2>3. ASSUME NEW k \in Key PROVE Stored(k)' = Stored(k)
    <3>1. SameOf(k)
      BY <2>1 DEF SameOf
    <3> QED BY <3>1, SameKeeps
  <2> QED BY <2>2, <2>3, FrameSteps
<1>2. CASE Next
  <2>1. /\ Quiet \/ Loud
        /\ SetsValue \/ Removes \/ Resets \/ \A k \in Key : Stored(k)' = Stored(k)
        /\ Quiet => \A k \in Key : Stored(k)' = Stored(k)
    BY <1>2, StoreStep
  <2>2. CASE Quiet
    BY <2>1, <2>2, QuietShows, FrameSteps
  <2>3. CASE Loud
    <3>1. Waits
      BY <2>3, LoudWaits
    <3> QED BY <2>1, <3>1, ApplySteps, FrameSteps
  <2> QED BY <2>1, <2>2, <2>3
<1> QED BY <1>1, <1>2

\* As long as no power is lost, fdb_kv_set, fdb_kv_del, fdb_kv_set_default and
\* the start-up implement the map of KVStore: each takes effect in one write
\* and none before success is returned, and a collection changes no value.
THEOREM CallsAtomic ==
    ASSUME Steady
    PROVE  Spec => Atomic
<1>1. (Base /\ MapInv) /\ (Base /\ MapInv)' /\ [Next]_vars => [Promise!Next]_Shown
  BY PromiseStep
<1> QED BY <1>1, PromiseInit, MapAlways, PTL DEF Spec, Atomic, Promise!Spec, Shown
================================================================================
