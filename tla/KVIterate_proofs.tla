--------------------------- MODULE KVIterate_proofs ---------------------------
(***************************************************************************)
(* An iteration reports every record that nothing touched while it ran,    *)
(* once, and what the iterator writes without the lock leaves the sector   *)
(* cache and the spare sector of the database as they should be: for all   *)
(* values of the constants, in every behaviour up to the first header that *)
(* is written between the iterator's read of it and the entry it makes in  *)
(* the cache (`raced'; the run kv_iter_stale shows what happens then).     *)
(***************************************************************************)
EXTENDS KVIterate, KVMap_proofs

-----------------------------------------------------------------------------
(* The inductive invariant, on top of Base *)

\* The record to be written, and the one that is moved, have a name and a
\* value; no record is shorter than that.
DueInv ==
    /\ pc = "new" \/ gc.then = "new" => op.key # NoKey
    /\ Owed => cur.len > HdrLen /\ cur.key # NoKey
    /\ mv # "no" => old.rec.len > HdrLen /\ CrcOk(old.rec)

\* Every record is complete but for the one that is being written, which is
\* the last of its sector.  What its status says does not matter: the iterator
\* may have marked it.
WholeInv ==
    \A s \in Sector : \A i \in DOMAIN recs[s] :
       /\ CrcOk(recs[s][i]) => recs[s][i].len > HdrLen
       /\ recs[s][i].st = KV_WRITE => CrcOk(recs[s][i])
       /\ CrcOk(recs[s][i]) <=> ~(IsNew(s, i) /\ pc # "commit")

\* The records of a sector lie one behind the other.
ApartInv ==
    \A s \in Sector : \A i, j \in DOMAIN recs[s] :
       i < j => recs[s][i].at + recs[s][i].len <= recs[s][j].at

\* Records are where the headers say that there are some, and gone from a
\* sector that was erased.
HeaderInv ==
    /\ \A s \in Sector : recs[s] # <<>> => magic[s] /\ store[s] = STORE_USING
    /\ Owed => /\ magic[cur.sec]
               /\ store[cur.sec] = STORE_USING \/ (~Writing /\ store[cur.sec] = STORE_EMPTY)
    /\ \A s \in Sector : JustErased(s) => recs[s] = <<>>

\* The new record goes behind the others, to the free address in the cache.
PlaceInv ==
    /\ Owed /\ ~Writing => cur.at = Fill(store[cur.sec], recs[cur.sec])
    /\ pc = "preWrite" => \A i \in DOMAIN recs[cur.sec] :
                             recs[cur.sec][i].at + recs[cur.sec][i].len <= cur.at
    /\ Writing /\ Cached(secCache, cur.sec) => secCache[cur.sec].empty \in {FailedAddr, cur.at}

DbInv == DueInv /\ WholeInv /\ ApartInv /\ HeaderInv /\ PlaceInv

\* A place has a record with status WRITE.
WrittenAt(p) == \E s \in Sector : \E i \in DOMAIN recs[s] :
                   p = <<s, recs[s][i].at>> /\ recs[s][i].st = KV_WRITE

\* The iterator has been in all sectors but the SecNum - n ones from itr.sec
\* on, and in that one up to itr.from: what is still to be reported is ahead
\* of it, what was reported is behind.
Passed(p) == \/ Rank(itr.sec, p[1]) >= SecNum - itr.n
             \/ p[1] = itr.sec /\ p[2] < itr.from
IterType == [phase : {"off", "sector", "fill", "record", "mark", "end"}, sec : Sector,
             n : 0 .. SecNum, from : Nat \cup {First}, info : InfoType]
\* The entry of a sector in the cache, if there is one, says of the header what
\* the flash says.
SeenAs(c, s) == Cached(c, s) => c[s].store = store[s] /\ c[s].dirty = dirty[s]
\* What the iterator is about to enter is still what the header says.
FillInv == /\ magic[itr.sec] /\ SeenAs(secCache, itr.sec)
           /\ itr.info = FlashInfo(itr.sec, FailedAddr)
WalkInv ==
    /\ itr \in IterType
    /\ itr.phase = "end" => itr.n = SecNum
    /\ itr.phase \in {"sector", "fill", "record", "mark"} => itr.n < SecNum
    /\ itr.phase = "fill" => FillInv
    /\ itr.phase = "mark" => itr.from = First
    /\ \A p \in want : WrittenAt(p) /\ ~Passed(p)
    /\ \A p \in seen : WrittenAt(p) /\ Passed(p)
    /\ ~twice

\* The steps of the database that run next to an iteration.
DbNext == Step \/ FindOldest \/ SetDefault
          \/ \E k \in Key : Del(k) \/ Get(k) \/ \E v \in Val : Set(k, v)

-----------------------------------------------------------------------------
(* Records whose status changes, and nothing else *)

ShapeAt(s) ==
    /\ recs'[s] \in Seq(Rec) /\ DOMAIN recs'[s] = DOMAIN recs[s] /\ Len(recs'[s]) = Len(recs[s])
    /\ \A i \in DOMAIN recs[s] :
         /\ recs'[s][i].at = recs[s][i].at /\ recs'[s][i].len = recs[s][i].len
         /\ recs'[s][i].key = recs[s][i].key
         /\ recs'[s][i].st = KV_WRITE => recs[s][i].st = KV_WRITE
SameShape == \A s \in Sector : ShapeAt(s)

LEMMA ShapeFill ==
    ASSUME TypeInv, NEW s \in Sector, ShapeAt(s), NEW st
    PROVE  Fill(st, recs'[s]) = Fill(st, recs[s]) /\ (recs'[s] = <<>> <=> recs[s] = <<>>)
<1> DEFINE q == recs[s]
           p == recs'[s]
<1>1. p \in Seq(Rec) /\ q \in Seq(Rec) /\ Len(p) = Len(q)
  BY DEF ShapeAt, TypeInv, TypeOK, FlashType
<1>2. p = <<>> <=> q = <<>>
  BY <1>1, EmptySeq
<1>3. CASE q = <<>>
  BY <1>2, <1>3 DEF Fill
<1>4. CASE q # <<>>
  <2>1. Len(q) \in DOMAIN q
    BY <1>1, <1>4
  <2>2. p[Len(p)].at = q[Len(q)].at /\ p[Len(p)].len = q[Len(q)].len
    BY <1>1, <2>1 DEF ShapeAt
  <2> HIDE DEF p, q
  <2>3. Fill(st, p) = Fill(st, q)
    BY <1>2, <1>4, <2>2 DEF Fill
  <2> QED BY <1>2, <2>3 DEF p, q
<1> QED BY <1>3, <1>4

\* The status of one record was written.
LEMMA KvStatusShape ==
    ASSUME Base, NEW s \in Sector, NEW i \in Nat, NEW st \in KvStatus, st > KV_WRITE, SetKvStatus(s, i, st)
    PROVE  SameShape
<1>1. recs \in [Sector -> Seq(Rec)] /\ recs'[s] \in Seq(Rec) /\ \A t \in Sector : recs'[t] \in Seq(Rec)
  BY SetKvStatusType DEF Base, TypeInv, TypeOK, FlashType
<1>2. CASE i \in DOMAIN recs[s]
  <2>1. OnlyAt(s, i) /\ recs'[s][i] = [recs[s][i] EXCEPT !.st = WriteStatus(recs[s][i].st, st)]
    BY <1>2, SetKvEffect DEF Base
  <2>2. recs[s][i] \in Rec /\ recs[s][i].st \in KvStatus
    BY <1>2, RecTyped DEF Rec, Base, TypeInv, TypeOK
  <2>3. /\ recs'[s][i].at = recs[s][i].at /\ recs'[s][i].len = recs[s][i].len
        /\ recs'[s][i].key = recs[s][i].key
        /\ recs'[s][i].st = KV_WRITE => recs[s][i].st = KV_WRITE
    BY <2>1, <2>2 DEF Rec, WriteStatus, KvStatus, KV_WRITE
  <2> QED BY <1>1, <2>1, <2>3 DEF OnlyAt, SameShape, ShapeAt
<1>3. CASE i \notin DOMAIN recs[s]
  <2> DEFINE q == [recs[s] EXCEPT ![i].st = WriteStatus(@, st)]
  <2>1. q = recs[s]
    BY <1>1, <1>3
  <2>2. recs' = [recs EXCEPT ![s] = q]
    BY DEF SetKvStatus
  <2> HIDE DEF q
  <2>3. recs' = recs
    BY <1>1, <2>1, <2>2
  <2> QED BY <1>1, <2>3 DEF SameShape, ShapeAt
<1> QED BY <1>2, <1>3

-----------------------------------------------------------------------------
(* Which steps do what to the records *)

\* Records go, or their status changes.
Tame == /\ pc \notin Adding /\ pc' \notin Adding
        /\ \A s \in Sector : recs'[s] = <<>> \/ ShapeAt(s)

LEMMA StillTame ==
    ASSUME Base, recs' = recs, pc \notin Adding, pc' \notin Adding
    PROVE  Tame
BY DEF Tame, ShapeAt, Base, TypeInv, TypeOK, FlashType

LEMMA EmptiedTame ==
    ASSUME Base, NEW s \in Sector, EraseSector(s) \/ WriteSectorHdr(s), pc \notin Adding, pc' \notin Adding
    PROVE  Tame
<1>1. recs'[s] = <<>> /\ \A t \in Sector : t # s => recs'[t] = recs[t]
  BY EraseEffect DEF Base
<1> QED BY <1>1 DEF Tame, ShapeAt, Base, TypeInv, TypeOK, FlashType

LEMMA DbForm ==
    ASSUME Base, DbNext
    PROVE  Tame \/ PreWrite \/ WriteMagic \/ WriteHdr \/ WriteBody \/ Commit
<1> USE DEF Adding
<1>1. CASE CheckHdr
  <2> DEFINE s == FirstFrom(scan.base, BadHeaders)
  <2>1. UNCHANGED flash \/ WriteSectorHdr(s)
    BY <1>1 DEF CheckHdr
  <2>2. s \in Sector
    <3>1. scan.base \in Sector /\ BadHeaders \in SUBSET Sector /\ BadHeaders # {}
      BY <1>1 DEF CheckHdr, BadHeaders, Base, TypeInv, TypeOK, FrameType, ScanType
    <3> QED BY <3>1, FirstFromLeast
  <2> HIDE DEF s
  <2>3. pc = "hdr" /\ pc' \in {"hdr", "down"}
    BY <1>1 DEF CheckHdr
  <2> QED BY <2>1, <2>2, <2>3, StillTame, EmptiedTame DEF flash
<1>2. CASE FmtErase \/ FmtHdr
  <2>1. /\ scan.n \in Sector
        /\ EraseSector(scan.n) \/ WriteSectorHdr(scan.n)
        /\ pc \notin Adding /\ pc' \notin Adding
    BY <1>2 DEF FmtErase, FmtHdr, Base, SafeInv, FrameInv
  <2> QED BY <2>1, EmptiedTame
<1>3. CASE GcErase \/ GcFormat
  <2>1. EraseSector(Victim) \/ WriteSectorHdr(Victim)
    BY <1>3 DEF GcErase, GcFormat
  <2>2. pc \notin Adding /\ pc' \notin Adding
    BY <1>3 DEF GcErase, GcFormat
  <2> QED BY <2>1, <2>2, VictimType, EmptiedTame DEF Base
<1>4. CASE PreDelete \/ Delete
  <2>1. \E st \in {KV_PRE_DELETE, KV_DELETED} : SetKvStatus(old.sec, old.idx, st)
    BY <1>4 DEF PreDelete, Delete
  <2>2. old.sec \in Sector /\ old.idx \in Nat
    BY DEF Base, TypeInv, TypeOK, FrameType, OldType
  <2>3. SameShape
    BY <2>1, <2>2, KvStatusShape DEF KV_PRE_DELETE, KV_DELETED, KvStatus, KV_WRITE, KV_UNUSED, KV_ERR_HDR
  <2>4. pc \notin Adding /\ pc' \notin Adding
    BY <1>4 DEF PreDelete, Delete, AfterPreDel, AfterDelete
  <2> QED BY <2>3, <2>4 DEF Tame, SameShape
<1>5. CASE RecoverKv
  <2>1. PICK s \in Sector, i \in Nat : Recovers(s, i)
    BY <1>5, RecoverKvForm DEF Base
  <2>2. pc = "recKv" /\ pc' \in {"mvAlloc", "recEnd"}
    BY <1>5, <2>1 DEF RecoverKv, Recovers
  <2>3. CASE UNCHANGED flash
    BY <2>2, <2>3, StillTame DEF flash
  <2>4. CASE SetKvStatus(s, i, KV_ERR_HDR)
    <3>1. SameShape
      BY <2>4, KvStatusShape DEF KvStatus, KV_WRITE, KV_UNUSED, KV_ERR_HDR
    <3> QED BY <2>2, <3>1 DEF Tame, SameShape
  <2> QED BY <2>1, <2>3, <2>4 DEF Recovers
<1>6. CASE FindOldest \/ HdrDone \/ ResumeGc \/ ResumeGcDone \/ RecoverKvDone \/ LoadEnd \/ LoadRetry
  BY <1>6, StillTame DEF FindOldest, HdrDone, ResumeGc, ResumeGcDone, RecoverKvDone, LoadEnd, LoadRetry,
                         StartGc, flash
<1>7. CASE NextDefault \/ DefaultsDone \/ New
  BY <1>7, StillTame DEF NextDefault, DefaultsDone, New, NewKv, NewKvGc, NewKvFull, StartGc, EndOp, flash
<1>8. CASE GcBegin \/ GcVisit \/ GcDone \/ GcNext \/ GcMove
  <2>1. GcReturn => pc' \in {"idle", "new", "recGc", "retry"}
    BY DEF GcReturn, EndOp, Base, TypeInv, TypeOK, FrameType, GcType
  <2> QED BY <1>8, <2>1, StillTame DEF GcBegin, GcVisit, GcDone, GcNext, GcMove, Move, flash
<1>9. CASE FindOld \/ MarkDirty \/ UpdateSecStatus \/ MvAlloc \/ MvFull \/ PostGc
  BY <1>9, StillTame DEF FindOld, MarkDirty, UpdateSecStatus, MvAlloc, MvFull, PostGc, AfterPreDel, AfterDelete,
              StartGc, EndOp, flash
<1>10. CASE SetDefault \/ \E k \in Key : Del(k) \/ Get(k) \/ \E v \in Val : Set(k, v)
  BY <1>10, StillTame DEF Set, Del, Get, SetDefault, flash
<1> QED BY <1>1, <1>2, <1>3, <1>4, <1>5, <1>6, <1>7, <1>8, <1>9, <1>10
        DEF DbNext, Step, Load, Reset, DeleteKv, Write, MoveKv, Gc

-----------------------------------------------------------------------------
(* The records of the database *)

LEMMA WholeStep ==
    ASSUME Base, DbInv, DbNext
    PROVE  WholeInv'
<1> DueInv /\ WholeInv
  BY DEF DbInv
<1> USE DEF Adding
<1>1. CASE Tame
  <2>1. ~IsNew(0, 0)' /\ \A s, i : ~IsNew(s, i) /\ ~IsNew(s, i)'
    BY <1>1 DEF Tame, IsNew
  <2> SUFFICES ASSUME NEW s \in Sector, NEW i \in DOMAIN recs'[s]
               PROVE  /\ CrcOk(recs'[s][i]) /\ recs'[s][i].len > HdrLen
    BY <2>1 DEF WholeInv
  <2>2. ShapeAt(s)
    <3>1. recs'[s] # <<>>
      OBVIOUS
    <3> QED BY <1>1, <3>1 DEF Tame
  <2>3. i \in DOMAIN recs[s] /\ CrcOk(recs[s][i]) /\ recs[s][i].len > HdrLen
    BY <2>1, <2>2 DEF ShapeAt, WholeInv
  <2> QED BY <2>2, <2>3 DEF ShapeAt, CrcOk
<1>2. CASE PreWrite
  <2> DEFINE s == cur.sec
             n == Len(recs[s]) + 1
  <2>1. /\ s \in Sector /\ n \in Nat
        /\ DOMAIN recs'[s] = DOMAIN recs[s] \cup {n} /\ Len(recs'[s]) = n
        /\ \A j \in DOMAIN recs[s] : j \in Nat /\ j < n /\ recs'[s][j] = recs[s][j]
        /\ recs'[s][n] = Blank
        /\ \A t \in Sector : t # s => recs'[t] = recs[t]
    BY <1>2, AppendEffect DEF Base
  <2>2. ~CrcOk(Blank) /\ Blank.st # KV_WRITE
    BY DEF Blank, CrcOk, KV_WRITE, KV_PRE_WRITE
  <2>3. pc = "preWrite" /\ pc' = "magic" /\ cur' = cur
    BY <1>2 DEF PreWrite, frame
  <2> HIDE DEF n, s
  <2>4. cur'.sec = s
    BY <2>3 DEF s
  <2> SUFFICES ASSUME NEW t \in Sector, NEW i \in DOMAIN recs'[t]
               PROVE  /\ CrcOk(recs'[t][i]) => recs'[t][i].len > HdrLen
                      /\ recs'[t][i].st = KV_WRITE => CrcOk(recs'[t][i])
                      /\ CrcOk(recs'[t][i]) <=> ~(IsNew(t, i)' /\ pc' # "commit")
    BY DEF WholeInv
  <2>5. CASE t = s /\ i = n
    BY <2>1, <2>2, <2>3, <2>4, <2>5 DEF IsNew
  <2>6. CASE ~(t = s /\ i = n)
    <3>1. i \in DOMAIN recs[t] /\ recs'[t][i] = recs[t][i]
      BY <2>1, <2>6
    <3>2. ~IsNew(t, i)'
      BY <2>1, <2>4, <2>6 DEF IsNew
    <3>3. ~IsNew(t, i)
      BY <2>3 DEF IsNew
    <3> QED BY <3>1, <3>2, <3>3 DEF WholeInv
  <2> QED BY <2>5, <2>6
<1>3. CASE WriteMagic \/ WriteHdr \/ WriteBody \/ Commit
  <2> DEFINE s == cur.sec
             n == Len(recs[s])
             r == recs[s][n]
  <2>1. /\ s \in Sector /\ n \in DOMAIN recs[s] /\ IsNew(s, n)
        /\ r \in Rec /\ OnlyAt(s, n)
        /\ recs'[s][n] = CASE pc = "magic" -> [r EXCEPT !.len = HdrLen]
                           [] pc = "header" -> [r EXCEPT !.len = cur.len]
                           [] pc = "body" -> [r EXCEPT !.key = cur.key, !.val = cur.val]
                           [] pc = "commit" -> [r EXCEPT !.st = WriteStatus(r.st, KV_WRITE)]
    BY <1>3, WriterEffect DEF Base, SafeInv
  <2>2. \/ pc \in {"magic", "header", "body"} /\ cur' = cur
           /\ pc' = (CASE pc = "magic" -> "header" [] pc = "header" -> "body" [] pc = "body" -> "commit")
        \/ pc = "commit" /\ pc' \notin Adding
    BY <1>3 DEF WriteMagic, WriteHdr, WriteBody, Commit, frame
  <2>3. pc = "body" => r.len = cur.len /\ cur.len > HdrLen /\ cur.key # NoKey
    BY DEF Base, SafeInv, LengthInv, CurRec, DueInv, Owed, Writing
  <2>4. Len(recs'[s]) = n
    BY <2>1 DEF OnlyAt
  <2> SUFFICES ASSUME NEW t \in Sector, NEW i \in DOMAIN recs'[t]
               PROVE  /\ CrcOk(recs'[t][i]) => recs'[t][i].len > HdrLen
                      /\ recs'[t][i].st = KV_WRITE => CrcOk(recs'[t][i])
                      /\ CrcOk(recs'[t][i]) <=> ~(IsNew(t, i)' /\ pc' # "commit")
    BY DEF WholeInv
  <2>5. i \in DOMAIN recs[t]
    BY <2>1 DEF OnlyAt
  <2>6. CASE t = s /\ i = n
    <3>1. /\ CrcOk(r) => r.len > HdrLen
          /\ r.st = KV_WRITE => CrcOk(r)
          /\ CrcOk(r) <=> pc = "commit"
      BY <2>1 DEF WholeInv
    <3>2. IsNew(t, i)' <=> pc' \in Adding
      BY <2>2, <2>4, <2>6 DEF IsNew
    <3> DEFINE q == recs'[s][n]
    <3>3. CASE pc \in {"magic", "header"}
      <4>1. q.key = r.key /\ q.st = r.st
        BY <2>1, <3>3 DEF Rec
      <4> QED BY <2>2, <2>6, <3>1, <3>2, <3>3, <4>1 DEF CrcOk
    <3>4. CASE pc = "body"
      <4>1. q.key = cur.key /\ q.len = r.len
        BY <2>1, <3>4 DEF Rec
      <4> QED BY <2>2, <2>3, <2>6, <3>4, <4>1 DEF CrcOk
    <3>5. CASE pc = "commit"
      <4>1. q.key = r.key /\ q.len = r.len
        BY <2>1, <3>5 DEF Rec
      <4> QED BY <2>2, <2>6, <3>1, <3>2, <3>5, <4>1 DEF CrcOk
    <3> QED BY <2>2, <3>3, <3>4, <3>5
  <2>7. CASE ~(t = s /\ i = n)
    <3>1. recs'[t][i] = recs[t][i]
      BY <2>1, <2>5, <2>7 DEF OnlyAt
    <3>2. ~IsNew(t, i) /\ ~IsNew(t, i)'
      BY <2>2, <2>4, <2>7 DEF IsNew
    <3> QED BY <2>5, <3>1, <3>2 DEF WholeInv
  <2> QED BY <2>6, <2>7
<1> QED BY <1>1, <1>2, <1>3, DbForm

\* A record begins where the one before it ends or behind.
LEMMA ApartStep ==
    ASSUME Base, DbInv, DbNext
    PROVE  ApartInv'
<1> ApartInv /\ PlaceInv
  BY DEF DbInv
<1>1. CASE Tame
  <2> SUFFICES ASSUME NEW s \in Sector, NEW i \in DOMAIN recs'[s], NEW j \in DOMAIN recs'[s], i < j
               PROVE  recs'[s][i].at + recs'[s][i].len <= recs'[s][j].at
    BY DEF ApartInv
  <2>1. ShapeAt(s)
    <3>1. recs'[s] # <<>>
      OBVIOUS
    <3> QED BY <1>1, <3>1 DEF Tame
  <2> QED BY <2>1 DEF ShapeAt, ApartInv
<1>2. CASE PreWrite
  <2> DEFINE s == cur.sec
             n == Len(recs[s]) + 1
  <2>1. /\ s \in Sector /\ n \in Nat
        /\ DOMAIN recs'[s] = DOMAIN recs[s] \cup {n}
        /\ \A j \in DOMAIN recs[s] : j \in Nat /\ j < n /\ recs'[s][j] = recs[s][j]
        /\ recs'[s][n] = Blank
        /\ \A t \in Sector : t # s => recs'[t] = recs[t]
    BY <1>2, AppendEffect DEF Base
  <2>2. Blank.at = cur.at /\ \A i \in DOMAIN recs[s] : recs[s][i].at + recs[s][i].len <= cur.at
    BY <1>2 DEF Blank, PlaceInv, PreWrite
  <2> HIDE DEF n, s
  <2> SUFFICES ASSUME NEW t \in Sector, NEW i \in DOMAIN recs'[t], NEW j \in DOMAIN recs'[t], i < j
               PROVE  recs'[t][i].at + recs'[t][i].len <= recs'[t][j].at
    BY DEF ApartInv
  <2>3. CASE t # s
    BY <2>1, <2>3 DEF ApartInv
  <2>4. CASE t = s
    <3>1. i \in DOMAIN recs[s]
      BY <2>1, <2>4
    <3>2. CASE j = n
      BY <2>1, <2>2, <2>4, <3>1, <3>2
    <3>3. CASE j # n
      BY <2>1, <2>4, <3>1, <3>3 DEF ApartInv
    <3> QED BY <3>2, <3>3
  <2> QED BY <2>3, <2>4
<1>3. CASE WriteMagic \/ WriteHdr \/ WriteBody \/ Commit
  <2> DEFINE s == cur.sec
             n == Len(recs[s])
             r == recs[s][n]
  <2>1. /\ s \in Sector /\ n \in DOMAIN recs[s] /\ r \in Rec /\ OnlyAt(s, n)
        /\ recs'[s][n] = CASE pc = "magic" -> [r EXCEPT !.len = HdrLen]
                           [] pc = "header" -> [r EXCEPT !.len = cur.len]
                           [] pc = "body" -> [r EXCEPT !.key = cur.key, !.val = cur.val]
                           [] pc = "commit" -> [r EXCEPT !.st = WriteStatus(r.st, KV_WRITE)]
    BY <1>3, WriterEffect DEF Base, SafeInv
  <2>2. pc \in {"magic", "header", "body", "commit"}
    BY <1>3 DEF WriteMagic, WriteHdr, WriteBody, Commit
  <2>3. recs'[s][n].at = r.at
    BY <2>1, <2>2 DEF Rec
  <2>4. \A j \in DOMAIN recs[s] : j \in Nat /\ j <= n
    <3>1. recs[s] \in Seq(Rec)
      BY <2>1 DEF Base, TypeInv, TypeOK, FlashType
    <3> QED BY <3>1
  <2> HIDE DEF n, s
  <2> SUFFICES ASSUME NEW t \in Sector, NEW i \in DOMAIN recs'[t], NEW j \in DOMAIN recs'[t], i < j
               PROVE  recs'[t][i].at + recs'[t][i].len <= recs'[t][j].at
    BY DEF ApartInv
  <2>5. i \in DOMAIN recs[t] /\ j \in DOMAIN recs[t]
    BY <2>1 DEF OnlyAt
  <2>6. recs'[t][i] = recs[t][i]
    <3>1. t # s \/ i # n
      BY <2>1, <2>4, <2>5
    <3> QED BY <2>1, <2>5, <3>1 DEF OnlyAt
  <2>7. recs'[t][j].at = recs[t][j].at
    <3>1. CASE t = s /\ j = n
      BY <2>3, <3>1
    <3>2. CASE ~(t = s /\ j = n)
      BY <2>1, <2>5, <3>2 DEF OnlyAt
    <3> QED BY <3>1, <3>2
  <2> QED BY <2>5, <2>6, <2>7 DEF ApartInv
<1> QED BY <1>1, <1>2, <1>3, DbForm

LEMMA DbIsNext == DbNext => Next
<1> SUFFICES ASSUME DbNext PROVE Next
  OBVIOUS
<1>1. CASE Step \/ FindOldest \/ SetDefault
  BY <1>1 DEF Next, Call
<1>2. ASSUME NEW k \in Key, Del(k) \/ Get(k) \/ \E v \in Val : Set(k, v) PROVE Next
  BY <1>2 DEF Next, Call
<1> QED BY <1>1, <1>2 DEF DbNext

-----------------------------------------------------------------------------
(* What is going to be written *)

LEMMA DueStep ==
    ASSUME Base, DbInv, DbNext
    PROVE  DueInv'
<1> TypeInv /\ FrameInv /\ DueInv /\ WholeInv
  BY DEF Base, SafeInv, DbInv
<1> USE DEF FrameInv, InGc, InVictim, Moving, DueInv, Owed, Writing
<1>1. CASE CheckHdr \/ HdrDone \/ FindOldest
  BY <1>1 DEF CheckHdr, HdrDone, FindOldest
<1>2. CASE ResumeGc \/ ResumeGcDone \/ RecoverKvDone \/ LoadEnd \/ LoadRetry
  BY <1>2 DEF ResumeGc, ResumeGcDone, RecoverKvDone, LoadEnd, LoadRetry, StartGc, NoGc, frame, ram
<1>3. CASE RecoverKv
  <2>1. PICK s \in Sector, i \in Nat : Recovers(s, i)
    BY <1>3, RecoverKvForm
  <2>2. recs[s][i].st = KV_PRE_DELETE => CrcOk(recs[s][i]) /\ recs[s][i].len > HdrLen
    BY <2>1 DEF Recovers, WholeInv, Unfinished, KV_PRE_DELETE, KV_PRE_WRITE
  <2>3. UNCHANGED <<op, gc>> /\ pc = "recKv"
    BY <1>3 DEF RecoverKv
  <2>4. \/ old'.rec.len > HdrLen /\ CrcOk(old'.rec) /\ mv' = "rec" /\ pc' = "mvAlloc"
        \/ pc' = "recEnd" /\ UNCHANGED mv
    BY <2>1, <2>2 DEF Recovers
  <2> QED BY <2>3, <2>4
<1>4. CASE Reset
  <2>1. CASE FmtErase \/ FmtHdr \/ DefaultsDone
    BY <2>1 DEF FmtErase, FmtHdr, DefaultsDone, EndOp, NoGc, frame
  <2>2. CASE NextDefault
    <3>1. op.i + 1 \in DOMAIN Defaults
      BY <2>2, DefaultsAssumption DEF NextDefault, TypeInv, TypeOK, FrameType, OpType
    <3>2. Defaults[op.i + 1][1] # NoKey
      BY <3>1, DefaultsAssumption, KeyAssumption
    <3>3. op'.key = Defaults[op.i + 1][1]
      BY <2>2 DEF NextDefault, TypeInv, TypeOK, FrameType, OpType
    <3> QED BY <2>2, <3>2, <3>3 DEF NextDefault
  <2> QED BY <1>4, <2>1, <2>2 DEF Reset
<1>5. CASE New
  <2>1. op'.key = op.key \/ pc' = "idle"
    BY <1>5 DEF New, NewKv, NewKvGc, NewKvFull, EndOp, TypeInv, TypeOK, FrameType, OpType
  <2>2. CASE NewKv
    <3>1. KvLen[op.val] > HdrLen
      BY <2>2, LenAssumption DEF NewKv
    <3> QED BY <2>1, <2>2, <3>1 DEF NewKv, Allocated
  <2>3. CASE NewKvGc
    BY <2>1, <2>3 DEF NewKvGc, StartGc, NoGc
  <2>4. CASE NewKvFull
    BY <2>1, <2>4 DEF NewKvFull, EndOp, NoGc
  <2> QED BY <1>5, <2>2, <2>3, <2>4 DEF New
<1>6. CASE DeleteKv
  <2>1. CASE FindOld
    BY <2>1 DEF FindOld, EndOp, NoGc
  <2>2. CASE PreDelete
    BY <2>2 DEF PreDelete, frame, AfterPreDel
  <2>3. CASE Delete
    BY <2>3 DEF Delete, AfterDelete
  <2>4. CASE MarkDirty
    BY <2>4 DEF MarkDirty, AfterPreDel, AfterDelete
  <2> QED BY <1>6, <2>1, <2>2, <2>3, <2>4 DEF DeleteKv
<1>7. CASE Write
  <2>1. UNCHANGED <<op, old, mv, gc>>
    BY <1>7 DEF Write, UpdateSecStatus, PreWrite, WriteMagic, WriteHdr, WriteBody, Commit, frame
  <2>2. pc \in {"status", "preWrite", "magic", "header", "body", "commit"}
    BY <1>7 DEF Write, UpdateSecStatus, PreWrite, WriteMagic, WriteHdr, WriteBody, Commit
  <2>3. \/ pc' \in {"preWrite", "magic", "header", "body"} /\ cur'.len = cur.len /\ cur'.key = cur.key
           /\ pc # "commit"
        \/ pc' \in {"commit", "delete", "postGc", "nextDef"}
    BY <1>7 DEF Write, UpdateSecStatus, PreWrite, WriteMagic, WriteHdr, WriteBody, Commit, frame,
                TypeInv, TypeOK, FrameType, CurType
  <2> QED BY <2>1, <2>2, <2>3
<1>8. CASE MvAlloc \/ MvFull
  BY <1>8 DEF MvAlloc, MvFull, Allocated, CrcOk
<1>9. CASE GcBegin \/ GcDone \/ GcNext
  <2>1. mv = "no" /\ ~Owed
    BY <1>9 DEF GcBegin, GcDone, GcNext
  <2>2. CASE GcReturn
    BY <2>1, <2>2 DEF GcReturn, EndOp, NoGc, TypeInv, TypeOK, FrameType, GcType
  <2>3. CASE ~GcReturn
    <3>1. gc'.then = gc.then /\ pc' = "gcVisit" /\ UNCHANGED <<op, mv>>
      BY <1>9, <2>3 DEF GcBegin, GcDone, GcNext, TypeInv, TypeOK, FrameType, GcType
    <3> QED BY <2>1, <3>1
  <2> QED BY <2>2, <2>3
<1>10. CASE GcVisit \/ GcErase \/ GcFormat
  <2>1. gc'.then = gc.then
    BY <1>10 DEF GcVisit, GcErase, GcFormat, frame, TypeInv, TypeOK, FrameType, GcType
  <2> QED BY <1>10, <2>1 DEF GcVisit, GcErase, GcFormat, frame
<1>11. CASE GcMove
  <2> DEFINE r == recs[Victim][Min(ToMove)]
  <2>1. Victim \in Sector /\ Min(ToMove) \in DOMAIN recs[Victim] /\ Live(r)
    BY <1>11, ToMoveFirst DEF GcMove
  <2>2. CrcOk(r) /\ r.len > HdrLen
    BY <2>1 DEF WholeInv, Live
  <2>3. gc'.then = gc.then
    BY <1>11 DEF GcMove, TypeInv, TypeOK, FrameType, GcType
  <2>4. old'.rec = r /\ mv' = "gc" /\ pc' \in {"preDel", "mvAlloc"} /\ UNCHANGED op
        /\ pc = "gcScan"
    BY <1>11 DEF GcMove, Move
  <2> HIDE DEF r
  <2> QED BY <2>2, <2>3, <2>4
<1>12. CASE PostGc
  <2>1. CASE op.kind = "set" /\ gcReq
    BY <1>12, <2>1 DEF PostGc, StartGc, NoGc
  <2>2. CASE ~(op.kind = "set" /\ gcReq)
    BY <1>12, <2>2 DEF PostGc, EndOp, NoGc
  <2> QED BY <2>1, <2>2
<1>13. CASE SetDefault \/ \E k \in Key : Del(k) \/ Get(k) \/ \E v \in Val : Set(k, v)
  <2>1. ASSUME NEW k \in Key, NEW v \in Val, Set(k, v) PROVE DueInv'
    <3>1. op'.key = k /\ k # NoKey
      BY <2>1, KeyAssumption DEF Set, NoOp
    <3> QED BY <2>1, <3>1 DEF Set
  <2>2. ASSUME NEW k \in Key, Del(k) \/ Get(k) PROVE DueInv'
    BY <2>2 DEF Del, Get, frame, NoOp
  <2>3. CASE SetDefault
    BY <2>3 DEF SetDefault
  <2> QED BY <1>13, <2>1, <2>2, <2>3
<1> QED BY <1>1, <1>2, <1>3, <1>4, <1>5, <1>6, <1>7, <1>8, <1>9, <1>10, <1>11, <1>12, <1>13
        DEF DbNext, Step, Load, MoveKv, Gc

-----------------------------------------------------------------------------
(* The place of the new record *)

\* It has just been allocated; or a step does not come near it.
Taken == /\ UNCHANGED flash /\ ~Writing' /\ CacheOk(secCache) /\ pc \notin Adding
         /\ \E len \in Nat : /\ CanAlloc(len) /\ cur'.sec = AllocSec(len)
                             /\ cur'.at = FullInfo(AllocSec(len)).empty
Waiting == /\ Owed /\ ~Writing /\ ~Writing' /\ UNCHANGED <<magic, store, cur>> /\ SameShape

LEMMA StillShape == ASSUME Base, recs' = recs PROVE SameShape
BY DEF SameShape, ShapeAt, Base, TypeInv, TypeOK, FlashType

LEMMA OwedDb ==
    ASSUME Base, DbInv, DbNext, Owed'
    PROVE  Taken \/ Waiting \/ UpdateSecStatus \/ PreWrite \/ WriteMagic \/ WriteHdr
<1> TypeInv /\ FrameInv /\ CacheInv
  BY DEF Base, SafeInv
<1>a. ~Moving => mv = "no"
  BY DEF FrameInv
<1>b. pc \in {"new", "mvAlloc"} => CacheOk(secCache)
  BY CalmCache DEF Writing
<1> USE DEF Owed, Writing, Adding
<1>1. CASE NewKv
  <2>1. /\ UNCHANGED flash /\ pc = "new" /\ pc' \in {"find", "status"} /\ CanAlloc(KvLen[op.val])
        /\ KvLen[op.val] \in Nat /\ cur' = Allocated(KvLen[op.val], op.key, op.val)
    BY <1>1, KvLenType DEF NewKv, TypeInv, TypeOK
  <2>2. cur'.sec = AllocSec(KvLen[op.val]) /\ cur'.at = FullInfo(AllocSec(KvLen[op.val])).empty
    BY <2>1 DEF Allocated
  <2> QED BY <1>b, <2>1, <2>2 DEF Taken
<1>2. CASE MvAlloc
  <2>1. /\ UNCHANGED flash /\ pc = "mvAlloc" /\ pc' = "status" /\ CanAlloc(old.rec.len)
        /\ old.rec.len \in Nat /\ cur' = Allocated(old.rec.len, old.rec.key, old.rec.val)
    BY <1>2 DEF MvAlloc, TypeInv, TypeOK, FrameType, OldType, Rec
  <2>2. cur'.sec = AllocSec(old.rec.len) /\ cur'.at = FullInfo(AllocSec(old.rec.len)).empty
    BY <2>1 DEF Allocated
  <2> QED BY <1>b, <2>1, <2>2 DEF Taken
<1>3. CASE FindOld
  <2>1. UNCHANGED flash /\ pc = "find" /\ mv = "no" /\ ~EndOp(FALSE)
    BY <1>3, <1>a DEF FindOld, Moving, EndOp
  <2>2. UNCHANGED <<op, cur, mv>> /\ op.kind = "set" /\ pc' \in {"preDel", "status"}
    BY <1>3, <2>1 DEF FindOld
  <2> QED BY <2>1, <2>2, StillShape DEF Waiting, flash
<1>4. CASE PreDelete
  <2>1. /\ pc = "preDel" /\ UNCHANGED frame /\ mv = "no" /\ pc' \in {"preDirty", "status"}
        /\ SetKvStatus(old.sec, old.idx, KV_PRE_DELETE)
    BY <1>4 DEF PreDelete, AfterPreDel, frame
  <2>2. SameShape
    BY <2>1, KvStatusShape DEF KV_PRE_DELETE, KvStatus, KV_WRITE, KV_UNUSED, KV_ERR_HDR,
                               TypeInv, TypeOK, FrameType, OldType
  <2> QED BY <2>1, <2>2 DEF Waiting, SetKvStatus, frame
<1>5. CASE MarkDirty
  <2>1. pc = "preDirty" /\ UNCHANGED <<magic, store, recs, cur, mv>> /\ mv = "no" /\ pc' = "status"
    BY <1>5 DEF MarkDirty, AfterPreDel, AfterDelete
  <2> QED BY <2>1, StillShape DEF Waiting
<1>6. CASE Delete \/ WriteBody \/ Commit \/ MvFull
  BY <1>6 DEF Delete, AfterDelete, WriteBody, Commit, MvFull
<1>7. CASE NewKvGc \/ NewKvFull \/ PostGc \/ Reset
  BY <1>7, <1>a DEF NewKvGc, NewKvFull, PostGc, Reset, FmtErase, FmtHdr, NextDefault, DefaultsDone, StartGc,
                    EndOp
<1>8. CASE CheckHdr \/ HdrDone \/ FindOldest \/ ResumeGc \/ ResumeGcDone \/ RecoverKvDone \/ LoadEnd \/ LoadRetry
  BY <1>8 DEF CheckHdr, HdrDone, FindOldest, ResumeGc, ResumeGcDone, RecoverKvDone, LoadEnd, LoadRetry, StartGc
<1>9. CASE RecoverKv
  <2>1. PICK s \in Sector, i \in Nat : Recovers(s, i)
    BY <1>9, RecoverKvForm
  <2> QED BY <2>1 DEF Recovers
<1>10. CASE Gc
  <2>1. GcReturn => pc' \in {"idle", "new", "recGc", "retry"}
    BY DEF GcReturn, EndOp, TypeInv, TypeOK, FrameType, GcType
  <2>2. \/ pc' \in {"idle", "new", "recGc", "retry", "gcVisit", "gcScan", "gcNext", "gcFormat"}
        \/ mv' = "gc" /\ pc' \in {"preDel", "mvAlloc"}
    BY <1>10, <2>1 DEF Gc, GcBegin, GcVisit, GcDone, GcMove, GcErase, GcFormat, GcNext, Move
  <2> QED BY <2>2
<1>11. CASE SetDefault \/ \E k \in Key : Del(k) \/ Get(k) \/ \E v \in Val : Set(k, v)
  BY <1>11 DEF Set, Del, Get, SetDefault, NoOp
<1> QED BY <1>1, <1>2, <1>3, <1>4, <1>5, <1>6, <1>7, <1>8, <1>9, <1>10, <1>11
        DEF DbNext, Step, Load, New, DeleteKv, Write, MoveKv

\* update_sec_status leaves the sector USING.
LEMMA NowUsing ==
    ASSUME Base, HeaderInv, UpdateSecStatus
    PROVE  /\ cur.sec \in Sector /\ cur'.sec = cur.sec /\ cur'.at = cur.at
           /\ magic[cur.sec] /\ store'[cur.sec] = STORE_USING
           /\ \A t \in Sector : t # cur.sec => store'[t] = store[t]
<1>1. /\ pc = "status" /\ Owed /\ ~Writing /\ store \in [Sector -> Store]
      /\ store' = [store EXCEPT ![cur.sec] = WriteStatus(@, SectorStatus)]
      /\ cur' = [cur EXCEPT !.full = (mv = "no" /\ SectorStatus = STORE_FULL)]
      /\ cur.sec \in Sector /\ cur \in CurType
  BY DEF UpdateSecStatus, Owed, Writing, Base, TypeInv, TypeOK, FlashType, FrameType, CurType
<1>2. /\ store[cur.sec] \in {STORE_USING, STORE_EMPTY} /\ magic[cur.sec] /\ cur.store = store[cur.sec]
  BY <1>1 DEF HeaderInv, Base, SafeInv, LengthInv
<1>3. SectorStatus = STORE_USING
  <2>1. SectorStatus # STORE_FULL
    BY StatusNotFull DEF Base
  <2> QED BY <1>2, <2>1 DEF SectorStatus
<1>4. WriteStatus(store[cur.sec], SectorStatus) = STORE_USING
  BY <1>2, <1>3 DEF WriteStatus, STORE_USING, STORE_EMPTY
<1>5. store' = [store EXCEPT ![cur.sec] = STORE_USING]
  BY <1>1, <1>4
<1>6. cur'.sec = cur.sec /\ cur'.at = cur.at
  BY <1>1 DEF CurType
<1> QED BY <1>1, <1>2, <1>5, <1>6

-----------------------------------------------------------------------------
(* The headers of the sectors with records *)

HeadKept(s) == (magic[s] => magic'[s]) /\ (store[s] = STORE_USING => store'[s] = STORE_USING)

\* Only what empties a sector takes its header away.
LEMMA HeadsKept ==
    ASSUME Base, DbInv, DbNext, NEW s \in Sector
    PROVE  recs'[s] = <<>> \/ HeadKept(s)
<1> TypeInv /\ FrameInv /\ HeaderInv
  BY DEF Base, SafeInv, DbInv
<1>1. CASE UNCHANGED <<magic, store>>
  BY <1>1 DEF HeadKept
<1>2. ASSUME NEW t \in Sector, EraseSector(t) \/ WriteSectorHdr(t) PROVE recs'[s] = <<>> \/ HeadKept(s)
  BY <1>2, SectorWritten DEF HeadKept
<1>3. CASE CheckHdr
  <2> DEFINE t == FirstFrom(scan.base, BadHeaders)
  <2>1. UNCHANGED flash \/ WriteSectorHdr(t)
    BY <1>3 DEF CheckHdr
  <2>2. t \in Sector
    <3>1. scan.base \in Sector /\ BadHeaders \in SUBSET Sector /\ BadHeaders # {}
      BY <1>3 DEF CheckHdr, BadHeaders, TypeInv, TypeOK, FrameType, ScanType
    <3> QED BY <3>1, FirstFromLeast
  <2> HIDE DEF t
  <2> QED BY <1>1, <1>2, <2>1, <2>2 DEF flash
<1>4. CASE FmtErase \/ FmtHdr
  BY <1>2, <1>4 DEF FmtErase, FmtHdr, FrameInv
<1>5. CASE GcErase \/ GcFormat
  BY <1>2, <1>5, VictimType DEF GcErase, GcFormat
<1>6. CASE UpdateSecStatus
  BY <1>6, NowUsing DEF UpdateSecStatus, HeadKept
<1>7. CASE RecoverKv
  <2>1. PICK t \in Sector, i \in Nat : Recovers(t, i)
    BY <1>7, RecoverKvForm
  <2> QED BY <1>1, <2>1 DEF Recovers, SetKvStatus, flash
<1>8. CASE FindOldest \/ HdrDone \/ ResumeGc \/ ResumeGcDone \/ RecoverKvDone \/ LoadEnd \/ LoadRetry
  BY <1>1, <1>8 DEF FindOldest, HdrDone, ResumeGc, ResumeGcDone, RecoverKvDone, LoadEnd, LoadRetry, flash
<1>9. CASE NextDefault \/ DefaultsDone \/ New
  BY <1>1, <1>9 DEF NextDefault, DefaultsDone, New, NewKv, NewKvGc, NewKvFull, flash
<1>10. CASE GcBegin \/ GcVisit \/ GcDone \/ GcNext \/ GcMove
  BY <1>1, <1>10 DEF GcBegin, GcVisit, GcDone, GcNext, GcMove, flash
<1>11. CASE DeleteKv \/ MvAlloc \/ MvFull \/ PostGc
  BY <1>1, <1>11 DEF DeleteKv, FindOld, PreDelete, Delete, MarkDirty, MvAlloc, MvFull, PostGc, SetKvStatus, flash
<1>12. CASE PreWrite \/ WriteMagic \/ WriteHdr \/ WriteBody \/ Commit
  BY <1>1, <1>12 DEF PreWrite, WriteMagic, WriteHdr, WriteBody, Commit
<1>13. CASE SetDefault \/ \E k \in Key : Del(k) \/ Get(k) \/ \E v \in Val : Set(k, v)
  BY <1>1, <1>13 DEF Set, Del, Get, SetDefault, flash
<1> QED BY <1>3, <1>4, <1>5, <1>6, <1>7, <1>8, <1>9, <1>10, <1>11, <1>12, <1>13
        DEF DbNext, Step, Load, Reset, Write, MoveKv, Gc

\* A sector without a header is one that was erased in the step before.
LEMMA ErasedBy ==
    ASSUME Base, DbNext, pc' \in {"fmtHdr", "gcFormat"}
    PROVE  FmtErase \/ GcErase
<1> TypeInv /\ FrameInv
  BY DEF Base, SafeInv
<1>1. ~(Load \/ FindOldest)
  <2>1. RecoverKv => pc' \in {"mvAlloc", "recEnd"}
    BY RecoverKvForm DEF Recovers
  <2> QED BY <2>1 DEF Load, FindOldest, CheckHdr, HdrDone, ResumeGc, ResumeGcDone, RecoverKvDone, LoadEnd, LoadRetry,
             StartGc
<1>2. ~(FmtHdr \/ NextDefault \/ DefaultsDone \/ New)
  BY DEF FmtHdr, NextDefault, DefaultsDone, New, NewKv, NewKvGc, NewKvFull, StartGc, EndOp
<1>3. ~(DeleteKv \/ MoveKv \/ PostGc)
  BY DEF DeleteKv, FindOld, PreDelete, Delete, MarkDirty, AfterPreDel, AfterDelete, MoveKv, MvAlloc, MvFull, PostGc,
         StartGc, EndOp
<1>4. ~Write
  BY DEF Write, UpdateSecStatus, PreWrite, WriteMagic, WriteHdr, WriteBody, Commit
<1>5. ~(GcBegin \/ GcVisit \/ GcDone \/ GcMove \/ GcFormat \/ GcNext)
  <2>1. GcReturn => pc' \in {"idle", "new", "recGc", "retry"}
    BY DEF GcReturn, EndOp, TypeInv, TypeOK, FrameType, GcType
  <2> QED BY <2>1 DEF GcBegin, GcVisit, GcDone, GcMove, GcFormat, GcNext, Move
<1>6. ~(SetDefault \/ \E k \in Key : Del(k) \/ Get(k) \/ \E v \in Val : Set(k, v))
  BY DEF Set, Del, Get, SetDefault
<1> QED BY <1>1, <1>2, <1>3, <1>4, <1>5, <1>6 DEF DbNext, Step, Reset, Gc

LEMMA HeaderStep ==
    ASSUME Base, DbInv, DbNext
    PROVE  HeaderInv'
<1> TypeInv /\ HeaderInv
  BY DEF Base, DbInv
<1> USE DEF Owed, Writing, Adding
<1>1. ASSUME NEW s \in Sector, recs'[s] # <<>> PROVE magic'[s] /\ store'[s] = STORE_USING
  <2>1. HeadKept(s)
    BY <1>1, HeadsKept
  <2>2. CASE recs[s] # <<>>
    BY <2>1, <2>2 DEF HeadKept, HeaderInv
  <2>3. CASE recs[s] = <<>>
    <3>1. ~ShapeAt(s)
      BY <1>1, <2>3 DEF ShapeAt
    <3>2. ~Tame
      BY <1>1, <3>1 DEF Tame
    <3>3. ~(WriteMagic \/ WriteHdr \/ WriteBody \/ Commit)
      <4> SUFFICES ASSUME WriteMagic \/ WriteHdr \/ WriteBody \/ Commit PROVE FALSE
        OBVIOUS
      <4>1. OnlyAt(cur.sec, Len(recs[cur.sec]))
        BY WriterEffect DEF Base, SafeInv
      <4>2. Len(recs'[s]) = 0
        BY <2>3, <4>1 DEF OnlyAt
      <4>3. recs'[s] \in Seq(Rec)
        BY DbIsNext, TypeStep DEF TypeInv, TypeOK, FlashType
      <4> QED BY <1>1, <4>2, <4>3
    <3>4. PreWrite
      BY <3>2, <3>3, DbForm
    <3>5. s = cur.sec
      BY <1>1, <2>3, <3>4, AppendEffect DEF Base
    <3> QED BY <3>4, <3>5 DEF PreWrite, HeaderInv
  <2> QED BY <2>2, <2>3
<1>2. ASSUME Owed'
      PROVE  /\ magic'[cur'.sec]
             /\ store'[cur'.sec] = STORE_USING \/ (~Writing' /\ store'[cur'.sec] = STORE_EMPTY)
  <2>1. CASE Taken
    BY <2>1, AllocStore DEF Taken, flash
  <2>2. CASE Waiting
    BY <2>2 DEF Waiting, HeaderInv
  <2>3. CASE UpdateSecStatus
    BY <2>3, NowUsing DEF UpdateSecStatus
  <2>4. CASE PreWrite \/ WriteMagic \/ WriteHdr
    BY <2>4 DEF PreWrite, WriteMagic, WriteHdr, frame, HeaderInv
  <2> QED BY <1>2, <2>1, <2>2, <2>3, <2>4, OwedDb
<1>3. ASSUME NEW s \in Sector, JustErased(s)' PROVE recs'[s] = <<>>
  <2>1. CASE FmtErase
    BY <1>3, <2>1, EraseEffect DEF FmtErase, frame, JustErased, FrameInv, Base, SafeInv
  <2>2. CASE GcErase
    BY <1>3, <2>2, EraseEffect, VictimType DEF GcErase, frame, JustErased, Victim
  <2>3. CASE ~FmtErase /\ ~GcErase
    BY <1>3, <2>3, ErasedBy DEF JustErased
  <2> QED BY <2>1, <2>2, <2>3
<1> QED BY <1>1, <1>2, <1>3 DEF HeaderInv

-----------------------------------------------------------------------------
(* Where it is written, and that the cache does not hide it *)

LEMMA EndsAtFill ==
    ASSUME Base, WholeInv, ApartInv, NEW s \in Sector, ~(Writing /\ s = cur.sec), NEW i \in DOMAIN recs[s]
    PROVE  recs[s][i].at + recs[s][i].len <= Fill(store[s], recs[s])
<1> DEFINE q == recs[s]
           n == Len(q)
<1>1. q \in Seq(Rec) /\ \A j \in DOMAIN q : q[j].at \in Nat /\ q[j].len \in Nat
  <2>1. q \in Seq(Rec)
    BY DEF Base, TypeInv, TypeOK, FlashType
  <2>2. \A j \in DOMAIN q : q[j] \in Rec
    BY <2>1
  <2> QED BY <2>1, <2>2 DEF Rec
<1>2. n \in DOMAIN q /\ i \in Nat /\ n \in Nat /\ i <= n /\ q # <<>>
  BY <1>1
<1>3. q[n].len > HdrLen
  BY <1>2 DEF WholeInv, IsNew, Adding, Writing
<1>4. Fill(store[s], q) = q[n].at + q[n].len
  BY <1>1, <1>2, <1>3, LenAssumption DEF Fill
<1>5. i < n => q[i].at + q[i].len <= q[n].at
  BY <1>2 DEF ApartInv
<1>6. i = n => q[i].at + q[i].len = q[n].at + q[n].len
  OBVIOUS
<1>7. /\ q[i].at \in Nat /\ q[i].len \in Nat /\ q[n].at \in Nat /\ q[n].len \in Nat
  BY <1>1, <1>2
<1> HIDE DEF n
<1> QED BY <1>2, <1>4, <1>5, <1>6, <1>7

LEMMA FreeStep ==
    ASSUME Base, DbInv, DbNext
    PROVE  PlaceInv'
<1> TypeInv /\ HeaderInv /\ PlaceInv /\ WholeInv /\ ApartInv /\ CacheInv
  BY DEF Base, SafeInv, DbInv
<1> USE DEF Owed, Writing, Adding
<1>a. UpdateSecStatus => /\ cur.sec \in Sector /\ pc = "status" /\ recs' = recs
                         /\ cur'.sec = cur.sec /\ cur'.at = cur.at
                         /\ cur.at = Fill(store[cur.sec], recs[cur.sec])
  BY NowUsing DEF UpdateSecStatus, PlaceInv
<1>1. ASSUME Owed', ~Writing' PROVE cur'.at = Fill(store'[cur'.sec], recs'[cur'.sec])
  <2>1. CASE Taken
    BY <2>1, AllocStore DEF Taken, flash
  <2>2. CASE Waiting
    <3>1. cur.sec \in Sector /\ ShapeAt(cur.sec)
      BY <2>2 DEF Waiting, SameShape, TypeInv, TypeOK, FrameType, CurType
    <3> QED BY <2>2, <3>1, ShapeFill DEF Waiting, PlaceInv
  <2>3. ~(UpdateSecStatus \/ PreWrite \/ WriteMagic \/ WriteHdr)
    BY <1>1 DEF UpdateSecStatus, PreWrite, WriteMagic, WriteHdr
  <2> QED BY <1>1, <2>1, <2>2, <2>3, OwedDb
<1>2. ASSUME pc' = "preWrite", NEW i \in DOMAIN recs'[cur'.sec]
      PROVE  recs'[cur'.sec][i].at + recs'[cur'.sec][i].len <= cur'.at
  <2>1. UpdateSecStatus
    BY <1>2, OwedDb DEF Taken, Waiting, PreWrite, WriteMagic, WriteHdr
  <2> QED BY <1>2, <1>a, <2>1, EndsAtFill
<1>3. ASSUME Writing', Cached(secCache', cur'.sec) PROVE secCache'[cur'.sec].empty \in {FailedAddr, cur'.at}
  <2>1. CASE UpdateSecStatus
    <3>1. FreeTold(secCache, cur.sec)
      BY <1>a, <2>1 DEF CacheInv, JustErased
    <3>2. secCache'[cur.sec].empty = secCache[cur.sec].empty
      BY <1>a, <2>1 DEF UpdateSecStatus, TypeInv, TypeOK, RamType, InfoType
    <3> QED BY <1>3, <1>a, <2>1, <3>1, <3>2 DEF FreeTold, Cached
  <2>2. CASE PreWrite \/ WriteMagic \/ WriteHdr
    BY <1>3, <2>2 DEF PreWrite, WriteMagic, WriteHdr, frame, ram, PlaceInv
  <2> QED BY <1>3, <2>1, <2>2, OwedDb DEF Taken, Waiting
<1> QED BY <1>1, <1>2, <1>3 DEF PlaceInv

LEMMA DbStepKeeps ==
    ASSUME Base, DbInv, DbNext
    PROVE  (Base /\ DbInv)'
<1>1. Base'
  BY DbIsNext, TypeStep, FullStep, SafeStep DEF Base
<1> QED BY <1>1, DueStep, WholeStep, ApartStep, HeaderStep, FreeStep DEF DbInv

LEMMA DbInit == Init => Base /\ DbInv
<1> SUFFICES ASSUME Init PROVE Base /\ DbInv
  OBVIOUS
<1>1. Base
  BY TypeInit, FullInit, SafeInit DEF Base
<1>2. /\ pc = "off" /\ mv = "no" /\ gc = NoGc /\ \A s \in Sector : recs[s] = <<>>
  BY DEF Init
<1> QED BY <1>1, <1>2 DEF DbInv, DueInv, WholeInv, ApartInv, HeaderInv, JustErased, PlaceInv, Owed, Writing, NoGc

-----------------------------------------------------------------------------
(* What the iterator writes itself *)

\* The parts of SafeInv that look at the headers and at the call only.
LEMMA CallUndisturbed ==
    ASSUME Base, UNCHANGED <<magic, store, dirty, gcReq, pc, frame>>,
           \A s \in Sector : HdrInfo(s)'.store = HdrInfo(s).store /\ HdrInfo(s)'.dirty = HdrInfo(s).dirty
    PROVE  (FrameInv /\ RequestInv /\ VictimInv /\ SpareInv)'
<1> FrameInv /\ RequestInv /\ VictimInv /\ SpareInv
  BY DEF Base, SafeInv
<1>1. FrameInv' /\ RequestInv' /\ VictimInv'
  BY DEF FrameInv, RequestInv, VictimInv, InGc, InVictim, Moving, Writing, Victim, frame
<1>2. /\ (SomeSpare <=> SomeSpare') /\ GcMarked' = GcMarked /\ GcVictims' = GcVictims
      /\ \A s \in Sector : Spare(s) <=> Spare(s)'
  BY DEF SomeSpare, Spare, GcMarked, GcVictims, frame
<1>3. SpareInv'
  BY <1>2 DEF SpareInv, Owed, Writing, frame
<1> QED BY <1>1, <1>3

\* update_sector_cache takes what was just read of the header.
LEMMA FillKeeps ==
    ASSUME Base, DbInv, IterFill, itr.sec \in Sector, FillInv
    PROVE  (Base /\ DbInv)'
<1>1. UNCHANGED <<flash, oldest, gcReq, inRec, lastDel, kvCache, pc, frame, crashes>>
  BY DEF IterFill
<1>2. TypeInv /\ FullInv /\ SafeInv /\ DbInv /\ secCache \in [Sector -> InfoType]
  BY DEF Base, TypeInv, TypeOK, RamType
<1> DEFINE e == FlashInfo(itr.sec, FailedAddr)
<1>3. \A s \in Sector : secCache'[s] = secCache[s] \/ (s = itr.sec /\ secCache'[s] = e)
  BY <1>2 DEF IterFill, Put, FillInv
<1>4. secCache' \in [Sector -> InfoType]
  <2>1. e \in InfoType
    BY <1>2, FlashInfoType DEF TypeInv, TypeOK, FailedAddr
  <2>2. secCache' = secCache \/ secCache' = [secCache EXCEPT ![itr.sec] = e]
    BY DEF IterFill, Put, FillInv
  <2> HIDE DEF e
  <2> QED BY <1>2, <2>1, <2>2
<1>5. \A s \in Sector : HdrInfo(s)'.store = HdrInfo(s).store /\ HdrInfo(s)'.dirty = HdrInfo(s).dirty
  BY <1>1, <1>3 DEF HdrInfo, FillInv, SeenAs, FlashInfo, Cached, flash, FailedAddr, NotCached
<1>6. TypeInv'
  BY <1>1, <1>2, <1>4 DEF TypeInv, TypeOK, FlashType, RamType, FrameType, Named, flash, frame
<1>7. FullInv'
  <2>1. e.store # STORE_FULL
    BY <1>2 DEF FlashInfo, FullInv, NeverFull
  <2>2. NoFullCached(secCache')
    BY <1>2, <1>3, <2>1 DEF FullInv, NoFullCached
  <2> QED BY <1>1, <1>2, <2>2 DEF FullInv, NeverFull, RoomBehind, flash, frame
<1>8. (FrameInv /\ RequestInv /\ VictimInv /\ SpareInv)'
  BY <1>1, <1>5, CallUndisturbed DEF flash
<1>9. LengthInv'
  BY <1>1, <1>2 DEF SafeInv, LengthInv, RecsLong, CurRec, Owed, Writing, flash, frame
<1>10. CacheInv'
  <2> SUFFICES ASSUME NEW s \in Sector, ~JustErased(s)'
               PROVE  Told(secCache, s)' /\ (FreeTold(secCache, s)' \/ (Writing' /\ s = cur'.sec))
    BY DEF CacheInv
  <2>1. ~JustErased(s)
    BY <1>1 DEF JustErased, Victim, frame
  <2>2. Told(secCache, s) /\ (FreeTold(secCache, s) \/ (Writing /\ s = cur.sec))
    BY <1>2, <2>1 DEF SafeInv, CacheInv
  <2> QED BY <1>1, <1>3, <2>2 DEF Told, FreeTold, Cached, FlashInfo, FillInv, InVictim, Victim, Writing, flash, frame
<1>11. DbInv'
  <2>1. DueInv' /\ ApartInv' /\ HeaderInv' /\ WholeInv'
    BY <1>1, <1>2 DEF DbInv, DueInv, ApartInv, HeaderInv, JustErased, Victim, WholeInv, IsNew, Owed, Writing, flash, frame
  <2>2. PlaceInv'
    BY <1>1, <1>2, <1>3 DEF DbInv, PlaceInv, Owed, Writing, Cached, FlashInfo, flash, frame, TypeInv, TypeOK,
                            FrameType, CurType
  <2> QED BY <2>1, <2>2 DEF DbInv
<1> QED BY <1>6, <1>7, <1>8, <1>9, <1>10, <1>11 DEF Base, SafeInv

\* read_kv writes KV_ERR_HDR at the first record of a sector.
LEMMA MarkForm ==
    ASSUME Base, IterMark, itr.sec \in Sector
    PROVE  /\ SameShape /\ recs' \in [Sector -> Seq(Rec)]
           /\ \A s \in Sector : \A i \in DOMAIN recs[s] :
                recs'[s][i].st = recs[s][i].st \/ (s = itr.sec /\ recs[s][i].at = 0)
<1> DEFINE s == itr.sec
           q == recs[s]
           p == [i \in DOMAIN q |-> IF q[i].at = 0 THEN [q[i] EXCEPT !.st = KV_ERR_HDR] ELSE q[i]]
<1>1. recs \in [Sector -> Seq(Rec)] /\ q \in Seq(Rec) /\ \A t \in Sector : recs[t] \in Seq(Rec)
  BY DEF Base, TypeInv, TypeOK, FlashType
<1>2. recs' = [recs EXCEPT ![s] = p]
  BY DEF IterMark
<1>3. \A i \in DOMAIN q : p[i] \in Rec /\ p[i].at = q[i].at /\ p[i].len = q[i].len /\ p[i].key = q[i].key
                          /\ (p[i].st = KV_WRITE => q[i].st = KV_WRITE)
                          /\ (p[i].st = q[i].st \/ q[i].at = 0)
  <2> SUFFICES ASSUME NEW i \in DOMAIN q
               PROVE  p[i] \in Rec /\ p[i].at = q[i].at /\ p[i].len = q[i].len /\ p[i].key = q[i].key
                          /\ (p[i].st = KV_WRITE => q[i].st = KV_WRITE)
                          /\ (p[i].st = q[i].st \/ q[i].at = 0)
    OBVIOUS
  <2>1. q[i] \in Rec
    BY <1>1
  <2>2. p[i] = IF q[i].at = 0 THEN [q[i] EXCEPT !.st = KV_ERR_HDR] ELSE q[i]
    OBVIOUS
  <2> HIDE DEF p, q
  <2> QED BY <2>1, <2>2 DEF Rec, KvStatus, KV_ERR_HDR, KV_UNUSED, KV_WRITE
<1>4. p \in Seq(Rec) /\ DOMAIN p = DOMAIN q /\ Len(p) = Len(q)
  <2>1. Len(q) \in Nat /\ DOMAIN q = 1 .. Len(q)
    BY <1>1, LenProperties
  <2>2. p \in [1 .. Len(q) -> Rec]
    BY <1>3, <2>1
  <2>3. p \in Seq(Rec)
    BY <2>1, <2>2, SeqDef
  <2> HIDE DEF p, q
  <2> QED BY <2>1, <2>2, <2>3, LenProperties
<1> HIDE DEF p
<1>5. recs' \in [Sector -> Seq(Rec)] /\ recs'[s] = p /\ \A t \in Sector : t # s => recs'[t] = recs[t]
  BY <1>1, <1>2, <1>4
<1> QED BY <1>1, <1>3, <1>4, <1>5 DEF SameShape, ShapeAt

\* The mark changes no place and no name.
LEMMA MarkKeeps ==
    ASSUME Base, DbInv, IterMark, itr.sec \in Sector
    PROVE  (Base /\ DbInv)'
<1>1. UNCHANGED <<magic, store, dirty, ram, pc, frame, crashes>>
  BY DEF IterMark
<1>2. TypeInv /\ FullInv /\ SafeInv /\ DbInv /\ cur.sec \in Sector
  BY DEF Base, TypeInv, TypeOK, FrameType, CurType
<1>3. /\ \A s \in Sector : ShapeAt(s)
      /\ recs' \in [Sector -> Seq(Rec)]
  BY MarkForm DEF SameShape
<1>4. \A s \in Sector : /\ \A st : Fill(st, recs'[s]) = Fill(st, recs[s])
                        /\ recs'[s] = <<>> <=> recs[s] = <<>>
  BY <1>2, <1>3, ShapeFill
<1>5. \A s \in Sector : HdrInfo(s)' = HdrInfo(s)
  BY <1>1 DEF HdrInfo, FlashInfo, ram
<1>6. TypeInv'
  BY <1>1, <1>2, <1>3 DEF TypeInv, TypeOK, FlashType, RamType, FrameType, Named, ram, frame
<1>7. FullInv'
  BY <1>1, <1>2 DEF FullInv, NeverFull, NoFullCached, RoomBehind, ram, frame
<1>8. (FrameInv /\ RequestInv /\ VictimInv /\ SpareInv)'
  BY <1>1, <1>5, CallUndisturbed DEF ram
<1>9. LengthInv'
  <2>1. RecsLong'
    BY <1>2, <1>3 DEF SafeInv, LengthInv, RecsLong, ShapeAt, CrcOk
  <2>2. recs[cur.sec] # <<>> => CurRec'.at = CurRec.at /\ CurRec'.len = CurRec.len
    <3> SUFFICES ASSUME recs[cur.sec] # <<>> PROVE CurRec'.at = CurRec.at /\ CurRec'.len = CurRec.len
      OBVIOUS
    <3>1. Len(recs[cur.sec]) \in DOMAIN recs[cur.sec]
      <4>1. recs[cur.sec] \in Seq(Rec)
        BY <1>2 DEF TypeInv, TypeOK, FlashType
      <4> QED BY <4>1
    <3>2. cur' = cur
      BY <1>1 DEF frame
    <3> QED BY <1>2, <1>3, <3>1, <3>2 DEF CurRec, ShapeAt
  <2> QED BY <1>1, <1>2, <1>4, <2>1, <2>2 DEF SafeInv, LengthInv, Owed, Writing, frame
<1>10. CacheInv'
  <2> SUFFICES ASSUME NEW s \in Sector, ~JustErased(s)'
               PROVE  Told(secCache, s)' /\ (FreeTold(secCache, s)' \/ (Writing' /\ s = cur'.sec))
    BY DEF CacheInv
  <2>1. ~JustErased(s)
    BY <1>1 DEF JustErased, Victim, frame
  <2>2. Told(secCache, s) /\ (FreeTold(secCache, s) \/ (Writing /\ s = cur.sec))
    BY <1>2, <2>1 DEF SafeInv, CacheInv
  <2> QED BY <1>1, <1>4, <2>2 DEF Told, FreeTold, Cached, InVictim, Victim, Writing, ram, frame
<1>11. DbInv'
  <2>1. DueInv' /\ HeaderInv'
    BY <1>1, <1>2, <1>4 DEF DbInv, DueInv, HeaderInv, JustErased, Victim, Owed, Writing, frame
  <2>2. WholeInv'
    BY <1>1, <1>2, <1>3 DEF DbInv, WholeInv, IsNew, CrcOk, ShapeAt, frame
  <2>3. ApartInv'
    BY <1>2, <1>3 DEF DbInv, ApartInv, ShapeAt
  <2>4. PlaceInv'
    BY <1>1, <1>2, <1>3, <1>4 DEF DbInv, PlaceInv, ShapeAt, Owed, Writing, Cached, ram, frame
  <2> QED BY <2>1, <2>2, <2>3, <2>4 DEF DbInv
<1> QED BY <1>6, <1>7, <1>8, <1>9, <1>10, <1>11 DEF Base, SafeInv

\* create_kv_blob puts its status byte over the mark.
MarkedBlank == [at |-> 0, len |-> GapLen, st |-> WriteStatus(KV_ERR_HDR, KV_PRE_WRITE),
                key |-> NoKey, val |-> NoVal]
LEMMA HurtForm ==
    ASSUME TypeInv, PreWriteHurt
    PROVE  LET s == cur.sec
               n == Len(recs[s]) + 1
           IN /\ s \in Sector /\ n \in Nat /\ recs' \in [Sector -> Seq(Rec)]
              /\ DOMAIN recs'[s] = DOMAIN recs[s] \cup {n} /\ Len(recs'[s]) = n
              /\ \A j \in DOMAIN recs[s] : j \in Nat /\ j < n /\ recs'[s][j] = recs[s][j]
              /\ recs'[s][n] = MarkedBlank
              /\ \A t \in Sector : t # s => recs'[t] = recs[t]
<1> DEFINE s == cur.sec
           n == Len(recs[s]) + 1
           q == Append(recs[s], MarkedBlank)
<1>1. s \in Sector /\ recs \in [Sector -> Seq(Rec)] /\ recs[s] \in Seq(Rec)
  BY DEF TypeInv, TypeOK, FlashType, FrameType, CurType
<1>2. recs' = [recs EXCEPT ![s] = q]
  BY DEF PreWriteHurt, MarkedBlank
<1>3. MarkedBlank \in Rec
  <2>1. WriteStatus(KV_ERR_HDR, KV_PRE_WRITE) \in KvStatus
    BY DEF WriteStatus, KvStatus, KV_ERR_HDR, KV_PRE_WRITE, KV_UNUSED
  <2>2. GapLen \in Nat
    BY LenAssumption
  <2> QED BY <2>1, <2>2 DEF MarkedBlank, Rec
<1>4. /\ n \in Nat /\ DOMAIN q = DOMAIN recs[s] \cup {n} /\ Len(q) = n
      /\ \A j \in DOMAIN recs[s] : j \in Nat /\ j < n /\ q[j] = recs[s][j]
      /\ q[n] = MarkedBlank /\ q \in Seq(Rec)
  BY <1>1, <1>3
<1> HIDE DEF q
<1>5. recs'[s] = q /\ (\A t \in Sector : t # s => recs'[t] = recs[t]) /\ recs' \in [Sector -> Seq(Rec)]
  BY <1>1, <1>2, <1>4
<1> QED BY <1>1, <1>4, <1>5

LEMMA HurtKeeps ==
    ASSUME Base, DbInv, PreWriteHurt
    PROVE  (Base /\ DbInv)'
<1> DEFINE c == cur.sec
           n == Len(recs[c]) + 1
<1>1. /\ UNCHANGED <<magic, store, dirty, ram, frame, crashes>> /\ pc = "preWrite" /\ pc' = "magic"
      /\ cur.at = 0 /\ cur' = cur
  BY DEF PreWriteHurt, frame
<1>2. TypeInv /\ FullInv /\ FrameInv /\ RequestInv /\ LengthInv /\ VictimInv /\ CacheInv /\ SpareInv
      /\ DueInv /\ WholeInv /\ ApartInv /\ HeaderInv /\ PlaceInv
  BY DEF Base, SafeInv, DbInv
<1>3. /\ c \in Sector /\ n \in Nat /\ recs' \in [Sector -> Seq(Rec)]
      /\ DOMAIN recs'[c] = DOMAIN recs[c] \cup {n} /\ Len(recs'[c]) = n
      /\ \A j \in DOMAIN recs[c] : j \in Nat /\ j < n /\ recs'[c][j] = recs[c][j]
      /\ recs'[c][n] = MarkedBlank
      /\ \A t \in Sector : t # c => recs'[t] = recs[t]
  BY <1>2, HurtForm
<1>4. MarkedBlank.at = 0 /\ MarkedBlank.st # KV_WRITE /\ ~CrcOk(MarkedBlank)
  BY DEF MarkedBlank, CrcOk, WriteStatus, KV_ERR_HDR, KV_PRE_WRITE, KV_WRITE
<1> HIDE DEF n
<1>5. TypeInv'
  BY <1>1, <1>2, <1>3 DEF TypeInv, TypeOK, FlashType, RamType, FrameType, Named, PC, ram, frame
<1>6. FullInv'
  BY <1>1, <1>2 DEF FullInv, NeverFull, NoFullCached, RoomBehind, ram, frame
<1>7. FrameInv' /\ RequestInv' /\ VictimInv'
  BY <1>1, <1>2 DEF FrameInv, RequestInv, VictimInv, InGc, InVictim, Moving, Writing, Victim, ram, frame
<1>8. SpareInv'
  <2>1. (SomeSpare <=> SomeSpare') /\ (\E s \in Sector : ~magic[s] \/ dirty[s] = DIRTY_GC)
                                      = (\E s \in Sector : ~magic[s] \/ dirty[s] = DIRTY_GC)'
    BY <1>1 DEF SomeSpare, Spare
  <2> QED BY <1>1, <1>2, <2>1 DEF SpareInv, Owed, Writing, frame
<1>9. LengthInv'
  <2>1. RecsLong'
    BY <1>2, <1>3, <1>4 DEF LengthInv, RecsLong
  <2>2. recs'[c] # <<>> /\ CurRec'.at = cur.at
    <3>1. n \in DOMAIN recs'[c]
      BY <1>3
    <3>2. recs'[c] # <<>>
      BY <3>1
    <3> QED BY <1>1, <1>3, <1>4, <3>2 DEF CurRec
  <2> QED BY <1>1, <1>2, <2>1, <2>2 DEF LengthInv, Owed, Writing, frame
<1>10. CacheInv'
  <2> SUFFICES ASSUME NEW s \in Sector PROVE Told(secCache, s)' /\ (FreeTold(secCache, s)' \/ s = cur.sec)
    BY <1>1 DEF CacheInv, Writing
  <2>1. Told(secCache, s) /\ (FreeTold(secCache, s) \/ s = cur.sec)
    BY <1>1, <1>2 DEF CacheInv, JustErased
  <2> QED BY <1>1, <1>3, <2>1 DEF Told, FreeTold, Cached, InVictim, Victim, ram, frame
<1>11. DueInv'
  BY <1>1, <1>2 DEF DueInv, Owed, Writing, frame
<1>12. HeaderInv'
  <2>1. magic[c] /\ store[c] = STORE_USING
    BY <1>1, <1>2 DEF HeaderInv, Owed, Writing
  <2> QED BY <1>1, <1>2, <1>3, <2>1 DEF HeaderInv, JustErased, Owed, Writing, frame
<1>13. PlaceInv'
  BY <1>1, <1>2 DEF PlaceInv, Owed, Writing, Cached, ram, frame
<1>14. WholeInv'
  <2> SUFFICES ASSUME NEW t \in Sector, NEW i \in DOMAIN recs'[t]
               PROVE  /\ CrcOk(recs'[t][i]) => recs'[t][i].len > HdrLen
                      /\ recs'[t][i].st = KV_WRITE => CrcOk(recs'[t][i])
                      /\ CrcOk(recs'[t][i]) <=> ~(IsNew(t, i)' /\ pc' # "commit")
    BY DEF WholeInv
  <2>1. CASE t = c /\ i = n
    BY <1>1, <1>3, <1>4, <2>1 DEF IsNew, Adding
  <2>2. CASE ~(t = c /\ i = n)
    <3>1. i \in DOMAIN recs[t] /\ recs'[t][i] = recs[t][i]
      BY <1>3, <2>2
    <3>2. ~IsNew(t, i)'
      BY <1>1, <1>3, <2>2 DEF IsNew
    <3>3. ~IsNew(t, i)
      BY <1>1 DEF IsNew, Adding
    <3> QED BY <1>2, <3>1, <3>2, <3>3 DEF WholeInv
  <2> QED BY <2>1, <2>2
<1>15. ApartInv'
  <2> SUFFICES ASSUME NEW t \in Sector, NEW i \in DOMAIN recs'[t], NEW j \in DOMAIN recs'[t], i < j
               PROVE  recs'[t][i].at + recs'[t][i].len <= recs'[t][j].at
    BY DEF ApartInv
  <2>1. CASE t # c
    BY <1>2, <1>3, <2>1 DEF ApartInv
  <2>2. CASE t = c
    <3>1. i \in DOMAIN recs[c]
      BY <1>3, <2>2
    <3>2. CASE j = n
      BY <1>1, <1>2, <1>3, <1>4, <2>2, <3>1, <3>2 DEF PlaceInv
    <3>3. CASE j # n
      BY <1>2, <1>3, <2>2, <3>1, <3>3 DEF ApartInv
    <3> QED BY <3>2, <3>3
  <2> QED BY <2>1, <2>2
<1> QED BY <1>5, <1>6, <1>7, <1>8, <1>9, <1>10, <1>11, <1>12, <1>13, <1>14, <1>15 DEF Base, SafeInv, DbInv

-----------------------------------------------------------------------------
(* The walk *)

LEMMA Undisturbed ==
    ASSUME Base, DbInv, UNCHANGED vars
    PROVE  (Base /\ DbInv)'
<1>1. Base'
  BY TypeStep, FullStep, SafeStep DEF Base
<1>2. DbInv'
  BY DEF DbInv, DueInv, WholeInv, ApartInv, HeaderInv, PlaceInv, IsNew, JustErased, Victim, Owed, Writing,
         Cached, vars, flash, ram, frame
<1> QED BY <1>1, <1>2

\* Where a sector's free space begins in the cache, its records have ended.
LEMMA FreeBehind ==
    ASSUME Base, DbInv, NEW s \in Sector, NEW i \in DOMAIN recs[s], CrcOk(recs[s][i]),
           Cached(secCache, s), secCache[s].empty # FailedAddr
    PROVE  recs[s][i].at + recs[s][i].len <= secCache[s].empty
<1> WholeInv /\ ApartInv /\ HeaderInv /\ PlaceInv /\ CacheInv /\ LengthInv
  BY DEF Base, SafeInv, DbInv
<1>1. recs[s] \in Seq(Rec) /\ i \in Nat /\ recs[s] # <<>>
  BY DEF Base, TypeInv, TypeOK, FlashType
<1>2. ~JustErased(s)
  BY <1>1 DEF HeaderInv
<1>3. CASE Writing /\ s = cur.sec
  <2>1. secCache[s].empty = cur.at
    BY <1>3 DEF PlaceInv
  <2>2. CASE pc = "preWrite"
    BY <1>3, <2>1, <2>2 DEF PlaceInv
  <2>3. CASE pc # "preWrite"
    <3> DEFINE n == Len(recs[s])
    <3>1. n \in DOMAIN recs[s] /\ n \in Nat /\ i <= n
      BY <1>1
    <3>2. IsNew(s, n) /\ pc # "commit" /\ recs[s][n].at = cur.at
      BY <1>3, <2>3 DEF IsNew, Writing, Adding, LengthInv, CurRec
    <3>3. i # n
      BY <3>1, <3>2 DEF WholeInv
    <3> HIDE DEF n
    <3> QED BY <1>1, <2>1, <3>1, <3>2, <3>3 DEF ApartInv
  <2> QED BY <2>2, <2>3
<1>4. CASE ~(Writing /\ s = cur.sec)
  <2>1. secCache[s].empty = Fill(store[s], recs[s])
    BY <1>2, <1>4 DEF CacheInv, FreeTold
  <2> QED BY <1>4, <2>1, EndsAtFill
<1> QED BY <1>3, <1>4

\* A record that is not the last of its sector is complete.
LEMMA InnerWhole ==
    ASSUME Base, WholeInv, NEW s \in Sector, NEW i \in DOMAIN recs[s], NEW j \in DOMAIN recs[s], i < j
    PROVE  CrcOk(recs[s][i])
<1>1. i # Len(recs[s])
  <2>1. recs[s] \in Seq(Rec)
    BY DEF Base, TypeInv, TypeOK, FlashType
  <2> QED BY <2>1
<1> QED BY <1>1 DEF WholeInv, IsNew

\* What a record is that has status WRITE.
LEMMA WrittenPlace ==
    ASSUME Base, WholeInv, NEW p, WrittenAt(p)
    PROVE  /\ p[1] \in Sector /\ p[2] \in Nat /\ p = <<p[1], p[2]>>
           /\ \E i \in DOMAIN recs[p[1]] : /\ recs[p[1]][i].at = p[2] /\ recs[p[1]][i].st = KV_WRITE
                                           /\ CrcOk(recs[p[1]][i]) /\ recs[p[1]][i].len > HdrLen
                                           /\ recs[p[1]][i] \in Rec
<1>0. PICK s \in Sector : \E i \in DOMAIN recs[s] : p = <<s, recs[s][i].at>> /\ recs[s][i].st = KV_WRITE
  BY DEF WrittenAt
<1>1. PICK i \in DOMAIN recs[s] : p = <<s, recs[s][i].at>> /\ recs[s][i].st = KV_WRITE
  BY <1>0
<1>2. recs[s][i] \in Rec
  BY RecTyped DEF Base, TypeInv, TypeOK
<1>3. CrcOk(recs[s][i]) /\ recs[s][i].len > HdrLen
  BY <1>1 DEF WholeInv
<1>4. p[1] = s /\ p[2] = recs[s][i].at /\ p = <<p[1], p[2]>>
  BY <1>1
<1> HIDE DEF CrcOk
<1> QED BY <1>1, <1>2, <1>3, <1>4 DEF Rec

\* The next sector is one nearer to all the others.
LEMMA NextRank ==
    ASSUME NEW s \in Sector, NEW t \in Sector
    PROVE  /\ NextSector(s) \in Sector /\ Rank(s, t) \in Nat
           /\ t # s => Rank(NextSector(s), t) = Rank(s, t) - 1
           /\ Rank(NextSector(s), s) = SecNum - 1 /\ Rank(s, s) = 0
BY SecNumAssumption DEF Sector, NextSector, Rank

\* The walk goes on to the next sector when nothing is left in this one.
LEMMA WalkOn ==
    ASSUME Base, DbInv, WalkInv, itr.n < SecNum, itr' = NextSec, UNCHANGED <<recs, want, seen, twice>>,
           \A p \in want : p[1] # itr.sec
    PROVE  WalkInv'
<1>1. itr \in IterType /\ itr.n \in Nat /\ itr.n + 1 <= SecNum /\ SecNum \in Nat
  BY SecNumAssumption DEF WalkInv, IterType
<1>2. /\ itr'.n = itr.n + 1 /\ itr'.sec = NextSector(itr.sec) /\ itr'.from = First
      /\ itr'.phase = (IF itr.n + 1 < SecNum THEN "sector" ELSE "end") /\ itr' \in IterType
  <2>1. NextSector(itr.sec) \in Sector /\ itr.n + 1 \in 0 .. SecNum
    BY <1>1, NextRank DEF IterType
  <2> QED BY <1>1, <2>1, NothingType DEF NextSec, IterType
<1>3. ASSUME NEW p, WrittenAt(p)
      PROVE  /\ WrittenAt(p)'
             /\ Passed(p)' <=> Rank(NextSector(itr.sec), p[1]) >= SecNum - (itr.n + 1)
             /\ p[1] # itr.sec => (Passed(p) <=> Passed(p)')
             /\ p[1] = itr.sec => Passed(p)'
  <2>1. p[1] \in Sector /\ p[2] \in Nat
    BY <1>3, WrittenPlace DEF DbInv
  <2>2. WrittenAt(p)'
    BY <1>3 DEF WrittenAt
  <2>3. Passed(p)' <=> Rank(NextSector(itr.sec), p[1]) >= SecNum - (itr.n + 1)
    BY <1>2, <2>1 DEF Passed, First
  <2>4. /\ Rank(itr.sec, p[1]) \in Nat
        /\ p[1] # itr.sec => Rank(NextSector(itr.sec), p[1]) = Rank(itr.sec, p[1]) - 1
        /\ Rank(NextSector(itr.sec), itr.sec) = SecNum - 1
    BY <1>1, <2>1, NextRank DEF IterType
  <2>5. p[1] = itr.sec => Passed(p)'
    BY <1>1, <2>3, <2>4
  <2>6. p[1] # itr.sec => (Passed(p) <=> Rank(itr.sec, p[1]) >= SecNum - itr.n)
    BY DEF Passed
  <2>7. p[1] # itr.sec => (Passed(p) <=> Passed(p)')
    BY <1>1, <2>3, <2>4, <2>6
  <2> QED BY <2>2, <2>3, <2>5, <2>7
<1>4. \A p \in want : WrittenAt(p)' /\ ~Passed(p)'
  BY <1>3 DEF WalkInv
<1>5. \A p \in seen : WrittenAt(p)' /\ Passed(p)'
  BY <1>3 DEF WalkInv
<1>6. /\ itr'.phase = "end" => itr'.n = SecNum
      /\ itr'.phase \in {"sector", "fill", "record", "mark"} => itr'.n < SecNum
      /\ itr'.phase # "fill" /\ itr'.phase # "mark"
  BY <1>1, <1>2
<1> QED BY <1>2, <1>4, <1>5, <1>6 DEF WalkInv

LEMMA WalkStart ==
    ASSUME Base, DbInv, WalkInv, IterStart
    PROVE  WalkInv'
<1>0. oldest \in Sector /\ SecNum \in Nat /\ SecNum > 0
  BY SecNumAssumption DEF Base, TypeInv, TypeOK, RamType
<1>1. /\ itr' = [phase |-> "sector", sec |-> oldest, n |-> 0, from |-> First, info |-> NoInfo]
      /\ want' = Readable /\ seen' = {} /\ twice' = FALSE /\ recs' = recs
  BY DEF IterStart, NoIter, vars, flash
<1>2. itr' \in IterType
  <2>1. 0 \in 0 .. SecNum /\ NoInfo \in InfoType
    BY <1>0, NothingType
  <2> QED BY <1>0, <1>1, <2>1 DEF IterType
<1>3. \A p \in want' : WrittenAt(p)' /\ ~Passed(p)'
  <2> SUFFICES ASSUME NEW p \in Readable PROVE WrittenAt(p)' /\ ~Passed(p)'
    BY <1>1
  <2>1. PICK a \in AllRecs : p = Place(a) /\ RecAt(a).st = KV_WRITE
    BY DEF Readable
  <2>2. PICK s \in Sector : a \in {s} \X DOMAIN recs[s]
    BY DEF AllRecs
  <2>3. WrittenAt(p)
    BY <2>1, <2>2 DEF WrittenAt, Place, RecAt
  <2>4. p[1] \in Sector /\ p[2] \in Nat
    BY <2>3, WrittenPlace DEF DbInv
  <2>5. Rank(oldest, p[1]) \in Sector
    BY <1>0, <2>4, RankType
  <2>6. ~Passed(p)'
    BY <1>0, <1>1, <2>4, <2>5 DEF Passed, First, Sector
  <2>7. WrittenAt(p)'
    BY <1>1, <2>3 DEF WrittenAt
  <2> QED BY <2>6, <2>7
<1> QED BY <1>0, <1>1, <1>2, <1>3 DEF WalkInv

\* The records of a sector are looked at unless its header says that it has
\* none.
LEMMA WalkEnter ==
    ASSUME Base, DbInv, WalkInv, NEW i, itr.phase \in {"sector", "fill"}, itr' = Enter(i),
           UNCHANGED <<recs, want, seen, twice>>, recs[itr.sec] # <<>> => HasKvs(i)
    PROVE  WalkInv'
<1>1. itr \in IterType /\ itr.n < SecNum
  BY DEF WalkInv
<1>2. CASE HasKvs(i)
  <2>1. /\ itr'.phase = "record" /\ itr'.sec = itr.sec /\ itr'.n = itr.n /\ itr'.from = itr.from
        /\ itr' \in IterType
    BY <1>1, <1>2, NothingType DEF Enter, IterType
  <2>2. \A p : (WrittenAt(p) <=> WrittenAt(p)') /\ (Passed(p) <=> Passed(p)')
    BY <2>1 DEF WrittenAt, Passed
  <2> QED BY <1>1, <2>1, <2>2 DEF WalkInv
<1>3. CASE ~HasKvs(i)
  <2>1. \A p \in want : p[1] # itr.sec
    <3> SUFFICES ASSUME NEW p \in want, p[1] = itr.sec PROVE FALSE
      OBVIOUS
    <3>1. \E j \in DOMAIN recs[p[1]] : recs[p[1]][j].at = p[2]
      BY WrittenPlace DEF WalkInv, DbInv
    <3> QED BY <1>3, <3>1
  <2> QED BY <1>1, <1>3, <2>1, WalkOn DEF Enter
<1> QED BY <1>2, <1>3

LEMMA WalkSector ==
    ASSUME Base, DbInv, WalkInv, IterSector
    PROVE  WalkInv'
<1> DEFINE s == itr.sec
<1>1. itr \in IterType /\ s \in Sector /\ itr.phase = "sector" /\ itr.n < SecNum
  BY DEF WalkInv, IterType, IterSector
<1>2. UNCHANGED <<vars, want, seen, twice>>
  BY DEF IterSector
<1>3. recs' = recs
  BY <1>2 DEF vars, flash
<1>4. CASE Cached(secCache, s) \/ ~magic[s]
  <2>1. recs[s] # <<>> => HasKvs(HdrInfo(s))
    <3> SUFFICES ASSUME recs[s] # <<>> PROVE HasKvs(HdrInfo(s))
      OBVIOUS
    <3>1. magic[s] /\ store[s] = STORE_USING /\ ~JustErased(s)
      BY <1>1 DEF DbInv, HeaderInv
    <3>2. Told(secCache, s)
      BY <1>1, <3>1 DEF Base, SafeInv, CacheInv
    <3> QED BY <1>4, <3>1, <3>2 DEF Told, HdrInfo, HasKvs
  <2>2. itr' = Enter(HdrInfo(s))
    BY <1>4 DEF IterSector
  <2> QED BY <1>1, <1>2, <1>3, <2>1, <2>2, WalkEnter
<1>5. CASE ~(Cached(secCache, s) \/ ~magic[s])
  <2>1. itr' = [itr EXCEPT !.phase = "fill", !.info = FlashInfo(s, FailedAddr)]
    BY <1>5 DEF IterSector, HdrInfo
  <2>2. FlashInfo(s, FailedAddr) \in InfoType
    BY <1>1, FlashInfoType DEF Base, TypeInv, TypeOK, FailedAddr
  <2> HIDE DEF s
  <2>3. /\ itr'.phase = "fill" /\ itr'.sec = itr.sec /\ itr'.n = itr.n /\ itr'.from = itr.from
        /\ itr'.info = FlashInfo(s, FailedAddr) /\ itr' \in IterType
    BY <1>1, <2>1, <2>2 DEF IterType
  <2>4. \A p : (WrittenAt(p) <=> WrittenAt(p)') /\ (Passed(p) <=> Passed(p)')
    BY <1>3, <2>3 DEF WrittenAt, Passed
  <2>5. FillInv'
    <3>1. UNCHANGED <<magic, secCache, store, dirty>> /\ itr'.sec = itr.sec
      BY <1>2, <2>3 DEF vars, flash, ram
    <3> QED BY <1>5, <2>3, <3>1 DEF FillInv, SeenAs, FlashInfo, Cached, s
  <2> QED BY <1>1, <1>2, <2>3, <2>4, <2>5 DEF WalkInv
<1> QED BY <1>4, <1>5

LEMMA WalkFill ==
    ASSUME Base, DbInv, WalkInv, IterFill
    PROVE  WalkInv'
<1>1. itr.phase = "fill" /\ itr \in IterType /\ magic[itr.sec] /\ itr.info = FlashInfo(itr.sec, FailedAddr)
  BY DEF WalkInv, FillInv, IterFill
<1>2. recs[itr.sec] # <<>> => HasKvs(itr.info)
  BY <1>1 DEF DbInv, HeaderInv, HasKvs, FlashInfo, IterType
<1>3. UNCHANGED <<recs, want, seen, twice>> /\ itr' = Enter(itr.info)
  BY DEF IterFill, flash
<1> QED BY <1>1, <1>2, <1>3, WalkEnter

LEMMA WalkStop ==
    ASSUME Base, IterStop
    PROVE  WalkInv'
<1>1. itr' = NoIter /\ want' = {} /\ seen' = {} /\ twice' = FALSE /\ SecNum \in Nat
  BY SecNumAssumption DEF IterStop
<1>2. NoIter \in IterType
  BY <1>1, NothingType DEF IterType, NoIter
<1> QED BY <1>1, <1>2 DEF WalkInv, NoIter

LEMMA WalkMark ==
    ASSUME Base, DbInv, WalkInv, IterMark
    PROVE  WalkInv'
<1>1. /\ itr \in IterType /\ itr.n < SecNum /\ itr.from = First /\ itr.sec \in Sector
      /\ itr' = [itr EXCEPT !.phase = "record", !.from = 1]
      /\ want' = want \ {<<itr.sec, 0>>} /\ seen' = seen \ {<<itr.sec, 0>>} /\ twice' = twice
  BY DEF WalkInv, IterMark, IterType
<1>2. /\ itr'.phase = "record" /\ itr'.sec = itr.sec /\ itr'.n = itr.n /\ itr'.from = 1
      /\ itr' \in IterType
  BY <1>1 DEF IterType
<1>3. ASSUME NEW p, WrittenAt(p), p # <<itr.sec, 0>>
      PROVE  WrittenAt(p)' /\ (Passed(p) <=> Passed(p)')
  <2>1. PICK s \in Sector : \E i \in DOMAIN recs[s] : p = <<s, recs[s][i].at>> /\ recs[s][i].st = KV_WRITE
    BY <1>3 DEF WrittenAt
  <2>2. PICK i \in DOMAIN recs[s] : p = <<s, recs[s][i].at>> /\ recs[s][i].st = KV_WRITE
    BY <2>1
  <2>3. /\ i \in DOMAIN recs'[s] /\ recs'[s][i].at = recs[s][i].at
        /\ recs'[s][i].st = recs[s][i].st \/ (s = itr.sec /\ recs[s][i].at = 0)
    BY <1>1, MarkForm DEF SameShape, ShapeAt
  <2>4. WrittenAt(p)'
    BY <1>3, <2>2, <2>3 DEF WrittenAt
  <2>5. p[1] \in Sector /\ p[2] \in Nat /\ p = <<p[1], p[2]>>
    BY <1>3, WrittenPlace DEF DbInv
  <2>6. p[1] = itr.sec => ~(p[2] < itr.from) /\ ~(p[2] < 1)
    BY <1>1, <1>3, <2>5 DEF First
  <2>7. Passed(p) <=> Passed(p)'
    BY <1>2, <2>6 DEF Passed
  <2> QED BY <2>4, <2>7
<1>4. \A p \in want' : WrittenAt(p)' /\ ~Passed(p)'
  BY <1>1, <1>3 DEF WalkInv
<1>5. \A p \in seen' : WrittenAt(p)' /\ Passed(p)'
  BY <1>1, <1>3 DEF WalkInv
<1> QED BY <1>1, <1>2, <1>4, <1>5 DEF WalkInv

\* What the iterator reads next: every complete record that it has not passed
\* is this one or lies behind it.
LEMMA NextRead ==
    ASSUME Base, DbInv, WalkInv, itr.phase = "record", NEW i,
           itr.from = First => ~NoLength(itr.sec),
           i \in (IF itr.from = First THEN AtFirst(itr.sec) ELSE NextRec(itr.sec))
    PROVE  LET s == itr.sec
               r == recs[s][i]
           IN /\ i \in DOMAIN recs[s] /\ r \in Rec /\ Behind(r) \in Nat /\ Behind(r) > r.at
              /\ ~(r.at < itr.from)
              /\ \A j \in DOMAIN recs[s] :
                   CrcOk(recs[s][j]) => j = i \/ recs[s][j].at >= Behind(r) \/ recs[s][j].at < itr.from
<1> DEFINE s == itr.sec
           r == recs[s][i]
<1> WholeInv /\ ApartInv
  BY DEF DbInv
<1>1. s \in Sector /\ recs[s] \in Seq(Rec) /\ itr.from \in Nat \cup {First}
  BY DEF WalkInv, IterType, Base, TypeInv, TypeOK, FlashType
<1>2. i \in DOMAIN recs[s]
  BY DEF AtFirst, NextRec, WithMagic
<1>3. r \in Rec /\ r.at \in Nat /\ r.len \in Nat
  <2>1. r \in Rec
    BY <1>1, <1>2
  <2> QED BY <2>1 DEF Rec
<1>4. Behind(r) \in Nat /\ Behind(r) > r.at
  <2>1. CrcOk(r) => r.len > HdrLen
    BY <1>1, <1>2 DEF WholeInv
  <2> QED BY <1>3, <2>1, LenAssumption DEF Behind
<1>5. ~(r.at < itr.from)
  <2>1. CASE itr.from = First
    BY <1>3, <2>1 DEF First
  <2>2. CASE itr.from # First
    BY <1>1, <1>3, <2>2 DEF NextRec, WithMagic
  <2> QED BY <2>1, <2>2
<1>6. ASSUME NEW j \in DOMAIN recs[s], CrcOk(recs[s][j]), j # i
      PROVE  recs[s][j].at >= Behind(r) \/ recs[s][j].at < itr.from
  <2>1. recs[s][j] \in Rec /\ i \in Nat /\ j \in Nat
    BY <1>1, <1>2
  <2>2. recs[s][j].len > HdrLen /\ recs[s][j].at \in Nat /\ recs[s][j].len \in Nat
    BY <1>1, <1>6, <2>1 DEF WholeInv, Rec
  <2>3. CASE i < j
    <3>1. CrcOk(r)
      BY <1>1, <1>2, <2>3, InnerWhole
    <3>2. r.at + r.len <= recs[s][j].at
      BY <1>1, <1>2, <2>3 DEF ApartInv
    <3> QED BY <1>3, <2>2, <3>1, <3>2 DEF Behind
  <2>4. CASE j < i /\ itr.from = First
    <3>1. r.at = 0
      BY <2>4 DEF AtFirst
    <3>2. recs[s][j].at + recs[s][j].len <= r.at
      BY <1>1, <1>2, <2>4 DEF ApartInv
    <3> QED BY <2>2, <3>1, <3>2, LenAssumption
  <2>5. CASE j < i /\ itr.from # First
    <3>1. j \notin WithMagic(s)
      BY <2>1, <2>5 DEF NextRec
    <3> QED BY <1>1, <2>2, <2>5, <3>1, LenAssumption DEF WithMagic
  <2> QED BY <1>6, <2>1, <2>3, <2>4, <2>5
<1> QED BY <1>2, <1>3, <1>4, <1>5, <1>6

\* Nothing is missed when the search says that there is no next record.
LEMMA NoneNext ==
    ASSUME Base, DbInv, WalkInv, itr.phase = "record", itr.from # First, NextRec(itr.sec) = {},
           NEW i \in DOMAIN recs[itr.sec], CrcOk(recs[itr.sec][i])
    PROVE  recs[itr.sec][i].at < itr.from
<1> DEFINE s == itr.sec
           r == recs[s][i]
<1>1. s \in Sector /\ recs[s] \in Seq(Rec) /\ itr.from \in Nat
  BY DEF WalkInv, IterType, Base, TypeInv, TypeOK, FlashType
<1>2. r \in Rec /\ r.len > HdrLen
  BY <1>1 DEF DbInv, WholeInv
<1>3. r.at \in Nat /\ r.len \in Nat
  BY <1>2 DEF Rec
<1>4. CASE Cached(secCache, s) /\ secCache[s].empty = itr.from
  <2>1. r.at + r.len <= itr.from
    BY <1>1, <1>4, FreeBehind DEF FailedAddr
  <2> QED BY <1>1, <1>2, <1>3, <2>1, LenAssumption
<1>5. CASE ~(Cached(secCache, s) /\ secCache[s].empty = itr.from)
  <2>1. ~\E k \in WithMagic(s) : \A j \in WithMagic(s) : k <= j
    BY <1>5 DEF NextRec
  <2>2. WithMagic(s) \in SUBSET Nat
    BY <1>1 DEF WithMagic
  <2>3. WithMagic(s) = {}
    BY <2>1, <2>2, LeastNat
  <2> QED BY <1>1, <1>2, <1>3, <2>3, LenAssumption DEF WithMagic
<1> QED BY <1>4, <1>5

LEMMA WalkRecord ==
    ASSUME Base, DbInv, WalkInv, IterRecord
    PROVE  WalkInv'
<1> DEFINE s == itr.sec
           here == IF itr.from = First THEN AtFirst(s) ELSE NextRec(s)
<1>1. /\ itr \in IterType /\ s \in Sector /\ itr.phase = "record" /\ itr.n < SecNum
      /\ itr.from \in Nat \cup {First} /\ itr.n \in Nat /\ SecNum \in Nat
  BY SecNumAssumption DEF WalkInv, IterType, IterRecord
<1>2. recs' = recs /\ \A p : WrittenAt(p)' <=> WrittenAt(p)
  BY DEF IterRecord, vars, flash, WrittenAt
<1>3. ASSUME NEW p, WrittenAt(p), p[1] = s
      PROVE  \E j \in DOMAIN recs[s] : recs[s][j].at = p[2] /\ recs[s][j].st = KV_WRITE /\ CrcOk(recs[s][j])
                                       /\ recs[s][j].len > HdrLen /\ recs[s][j] \in Rec
  BY <1>3, WrittenPlace DEF DbInv
<1>4. CASE itr.from = First /\ NoLength(s)
  <2>1. /\ itr' = [itr EXCEPT !.from = 1] \/ itr' = [itr EXCEPT !.phase = "mark"]
        /\ UNCHANGED <<want, seen, twice>>
    BY <1>4 DEF IterRecord
  <2>2. /\ itr'.sec = s /\ itr'.n = itr.n /\ itr' \in IterType
        /\ \/ itr'.phase = "record" /\ itr'.from = 1
           \/ itr'.phase = "mark" /\ itr'.from = First
    BY <1>1, <1>4, <2>1 DEF IterType
  <2>3. ASSUME NEW p, WrittenAt(p) PROVE Passed(p)' <=> Passed(p)
    <3>1. p[2] \in Nat
      BY <2>3, WrittenPlace DEF DbInv
    <3>2. CASE p[1] = s
      <4>1. p[2] # 0
        BY <1>3, <1>4, <2>3, <3>2, LenAssumption DEF NoLength, AtFirst, Rec
      <4> QED BY <1>4, <2>2, <3>1, <4>1 DEF Passed, First
    <3>3. CASE p[1] # s
      BY <2>2, <3>3 DEF Passed
    <3> QED BY <3>2, <3>3
  <2> QED BY <1>1, <1>2, <2>1, <2>2, <2>3 DEF WalkInv
<1>5. CASE ~(itr.from = First /\ NoLength(s)) /\ here = {}
  <2>1. itr' = NextSec /\ UNCHANGED <<want, seen, twice>>
    BY <1>5 DEF IterRecord
  <2>2. itr.from # First
    BY <1>5 DEF NoLength
  <2>3. \A p \in want : p[1] # s
    <3> SUFFICES ASSUME NEW p \in want, p[1] = s PROVE FALSE
      OBVIOUS
    <3>1. WrittenAt(p) /\ ~Passed(p)
      BY DEF WalkInv
    <3>2. PICK j \in DOMAIN recs[s] : recs[s][j].at = p[2] /\ CrcOk(recs[s][j])
      BY <1>3, <3>1
    <3>3. p[2] < itr.from
      BY <1>1, <1>5, <2>2, <3>2, NoneNext
    <3> QED BY <3>1, <3>3 DEF Passed
  <2> QED BY <1>1, <1>2, <2>1, <2>3, WalkOn
<1>6. CASE ~(itr.from = First /\ NoLength(s)) /\ here # {}
  <2> DEFINE i == CHOOSE j \in here : TRUE
             r == recs[s][i]
             got == IF CrcOk(r) /\ r.st = KV_WRITE THEN {<<s, r.at>>} ELSE {}
  <2>1. i \in here
    BY <1>6
  <2>2. /\ itr' = [itr EXCEPT !.from = Behind(r), !.phase = IF got = {} THEN "record" ELSE "sector"]
        /\ want' = want \ got /\ seen' = seen \cup (got \cap want)
        /\ twice' = (twice \/ got \cap seen # {})
    BY <1>6 DEF IterRecord
  <2> HIDE DEF i
  <2>3. /\ i \in DOMAIN recs[s] /\ r \in Rec /\ Behind(r) \in Nat /\ Behind(r) > r.at
        /\ ~(r.at < itr.from)
        /\ \A j \in DOMAIN recs[s] :
             CrcOk(recs[s][j]) => j = i \/ recs[s][j].at >= Behind(r) \/ recs[s][j].at < itr.from
    BY <1>1, <1>6, <2>1, NextRead
  <2>4. r.at \in Nat
    BY <2>3 DEF Rec
  <2>p. PICK h : h = <<s, r.at>>
    OBVIOUS
  <2> HIDE DEF r
  <2>5. /\ itr'.sec = s /\ itr'.n = itr.n /\ itr'.from = Behind(r) /\ itr' \in IterType
        /\ itr'.phase \in {"record", "sector"}
    BY <1>1, <2>2, <2>3 DEF IterType
  <2>6. ~Passed(h) /\ Passed(h)'
    <3>1. Rank(s, s) = 0
      BY <1>1, NextRank
    <3> QED BY <1>1, <2>p, <2>3, <2>5, <3>1 DEF Passed
  <2>7. ASSUME NEW p, WrittenAt(p), p # h PROVE Passed(p)' <=> Passed(p)
    <3>1. p[1] \in Sector /\ p[2] \in Nat /\ p = <<p[1], p[2]>>
      BY <2>7, WrittenPlace DEF DbInv
    <3>2. CASE p[1] # s
      BY <2>5, <3>2 DEF Passed
    <3>3. CASE p[1] = s
      <4>1. PICK j \in DOMAIN recs[s] : recs[s][j].at = p[2] /\ CrcOk(recs[s][j])
        BY <1>3, <2>7, <3>3
      <4>2. j # i
        BY <2>p, <2>7, <3>1, <3>3, <4>1 DEF r
      <4>3. p[2] >= Behind(r) \/ p[2] < itr.from
        BY <2>3, <4>1, <4>2
      <4>4. p[2] < itr.from <=> p[2] < Behind(r)
        <5>1. itr.from <= r.at
          BY <1>1, <2>3, <2>4 DEF First
        <5> QED BY <1>1, <2>3, <2>4, <3>1, <4>3, <5>1 DEF First
      <4> QED BY <2>5, <3>3, <4>4 DEF Passed
    <3> QED BY <3>2, <3>3
  <2>8. WrittenAt(h) => h \in got
    <3> SUFFICES ASSUME WrittenAt(h) PROVE h \in got
      OBVIOUS
    <3>1. PICK j \in DOMAIN recs[s] : recs[s][j].at = r.at /\ recs[s][j].st = KV_WRITE /\ CrcOk(recs[s][j])
      BY <1>3, <2>p
    <3>2. j = i
      BY <2>3, <2>4, <3>1
    <3> QED BY <2>p, <3>1, <3>2 DEF r
  <2>9. got \subseteq {h}
    BY <2>p
  <2> HIDE DEF got
  <2>10. \A p \in want' : WrittenAt(p)' /\ ~Passed(p)'
    <3> SUFFICES ASSUME NEW p \in want' PROVE WrittenAt(p) /\ ~Passed(p)'
      BY <1>2
    <3>1. WrittenAt(p) /\ ~Passed(p) /\ p \notin got
      BY <2>2 DEF WalkInv
    <3> QED BY <2>7, <2>8, <3>1
  <2>11. \A p \in seen' : WrittenAt(p)' /\ Passed(p)'
    <3> SUFFICES ASSUME NEW p \in seen' PROVE WrittenAt(p) /\ Passed(p)'
      BY <1>2
    <3>1. CASE p \in seen
      BY <2>6, <2>7, <3>1 DEF WalkInv
    <3>2. CASE p \in got \cap want
      BY <2>6, <2>9, <3>2 DEF WalkInv
    <3> QED BY <2>2, <3>1, <3>2
  <2>12. ~twice'
    BY <2>2, <2>6, <2>9 DEF WalkInv
  <2> QED BY <1>1, <2>5, <2>10, <2>11, <2>12 DEF WalkInv
<1> QED BY <1>4, <1>5, <1>6

\* Reading sectors makes entries of what the headers say.
LEMMA FillSeen ==
    ASSUME NEW c, NEW base, NEW S, NEW s \in Sector, SeenAs(c, s)
    PROVE  SeenAs(FillCache(c, base, S), s)
<1> DEFINE d == FillCache(c, base, S)
<1>1. d[s] = c[s] \/ d[s] = FlashInfo(s, FailedAddr)
  BY FillCacheKeeps
<1> HIDE DEF d
<1>2. SeenAs(d, s)
  BY <1>1 DEF SeenAs, Cached, FlashInfo
<1> QED BY <1>2 DEF d

LEMMA TraverseSeen ==
    ASSUME NEW c, NEW S, NEW s \in Sector, SeenAs(c, s)
    PROVE  SeenAs(Traverse(c, S), s)
BY DEF Traverse, SeenAs, Cached, FlashInfo

LEMMA AllocSeen ==
    ASSUME NEW s \in Sector, SeenAs(secCache, s), NEW len
    PROVE  SeenAs(AllocCache(len), s)
<1>1. SeenAs(FillCache(secCache, oldest, Sector), s)
  BY FillSeen
<1> QED BY <1>1, TraverseSeen DEF AllocCache

\* A step of another task that does not write the header of a sector leaves
\* that sector's entry, or makes one, as the header says.
LEMMA EntryStep ==
    ASSUME Base, DbNext, NEW s \in Sector, SeenAs(secCache, s), ~HeaderWritten(s)
    PROVE  SeenAs(secCache, s)'
<1>1. store'[s] = store[s] /\ dirty'[s] = dirty[s]
  BY DEF HeaderWritten
<1> SUFFICES SeenAs(secCache', s)
  BY <1>1 DEF SeenAs
<1>2. TypeInv /\ LengthInv /\ VictimInv /\ secCache \in [Sector -> InfoType]
  BY DEF Base, SafeInv, TypeInv, TypeOK, RamType
<1>3. CASE UNCHANGED secCache
  BY <1>3
<1>4. CASE FindOldest
  BY <1>4 DEF FindOldest, SeenAs, Cached, NoInfo
<1>5. CASE CheckHdr \/ HdrDone \/ ResumeGc \/ ResumeGcDone \/ RecoverKv \/ RecoverKvDone
  BY <1>5, FillSeen DEF CheckHdr, HdrDone, ResumeGc, ResumeGcDone, RecoverKv, RecoverKvDone
<1>6. CASE LoadEnd \/ LoadRetry \/ FmtErase \/ NextDefault \/ DefaultsDone
  BY <1>3, <1>6 DEF LoadEnd, LoadRetry, FmtErase, NextDefault, DefaultsDone, ram
<1>7. CASE FmtHdr \/ GcFormat
  <2>1. PICK u : secCache' = [secCache EXCEPT ![u] = NoInfo]
    BY <1>7 DEF FmtHdr, GcFormat, Uncache
  <2> QED BY <1>2, <2>1 DEF SeenAs, Cached, NoInfo
<1>8. CASE New \/ MoveKv
  BY <1>8, AllocSeen DEF New, NewKv, NewKvGc, NewKvFull, MoveKv, MvAlloc, MvFull
<1>9. CASE FindOld \/ \E k \in Key : Get(k)
  BY <1>9, FillSeen DEF FindOld, Get, FindCaches
<1>10. CASE MarkDirty
  <2>1. dirty[old.sec] = DIRTY_FALSE /\ old.sec \in Sector /\ dirty \in [Sector -> Dirty]
    BY <1>2, <1>10 DEF MarkDirty, VictimInv, TypeInv, TypeOK, FlashType, FrameType, OldType
  <2>2. s # old.sec
    BY <1>1, <1>10, <2>1 DEF MarkDirty, WriteStatus, DIRTY_FALSE, DIRTY_TRUE
  <2>3. secCache'[s] = secCache[s]
    BY <1>2, <1>10, <2>2 DEF MarkDirty
  <2> QED BY <2>3 DEF SeenAs, Cached
<1>11. CASE UpdateSecStatus
  <2>1. cur.store = store[cur.sec] /\ cur.sec \in Sector /\ store \in [Sector -> Store]
    BY <1>2, <1>11 DEF UpdateSecStatus, LengthInv, Owed, Writing, TypeInv, TypeOK, FlashType, FrameType, CurType
  <2>2. cur.store # SectorStatus => SectorStatus > cur.store
    BY DEF SectorStatus, STORE_EMPTY, STORE_USING, STORE_FULL
  <2>3. secCache'[s] = secCache[s]
    <3>1. CASE cur.store = SectorStatus \/ s # cur.sec
      BY <1>2, <1>11, <3>1 DEF UpdateSecStatus
    <3>2. CASE cur.store # SectorStatus /\ s = cur.sec
      BY <1>1, <1>11, <2>1, <2>2, <3>2 DEF UpdateSecStatus, WriteStatus
    <3> QED BY <3>1, <3>2
  <2> QED BY <2>3 DEF SeenAs, Cached
<1>12. CASE PreWrite \/ WriteMagic \/ WriteHdr \/ Commit
  BY <1>3, <1>12 DEF PreWrite, WriteMagic, WriteHdr, Commit, ram
<1>13. CASE WriteBody
  <2>1. CASE Cached(secCache, cur.sec) /\ ~cur.full
    <3>1. secCache' = [secCache EXCEPT ![cur.sec] = [@ EXCEPT !.empty = cur.at + cur.len]]
      BY <1>13, <2>1 DEF WriteBody
    <3>2. secCache'[s] = secCache[s] \/ (s = cur.sec /\ secCache'[s] = [secCache[s] EXCEPT !.empty = cur.at + cur.len])
      BY <1>2, <3>1
    <3>3. secCache[s] \in InfoType
      BY <1>2
    <3> QED BY <2>1, <3>2, <3>3 DEF SeenAs, Cached, InfoType
  <2>2. CASE ~(Cached(secCache, cur.sec) /\ ~cur.full)
    BY <1>3, <1>13, <2>2 DEF WriteBody
  <2> QED BY <2>1, <2>2
<1>14. CASE GcBegin \/ GcVisit \/ GcDone
  BY <1>14, FillSeen DEF GcBegin, GcVisit, GcDone
<1>15. CASE GcNext
  <2>1. SeenAs(FillCache(secCache, oldest, {gc.last}), s)
    BY FillSeen
  <2> QED BY <1>15, <2>1, TraverseSeen DEF GcNext
<1>16. CASE GcMove \/ GcErase \/ PreDelete \/ Delete \/ PostGc
  BY <1>3, <1>16 DEF GcMove, GcErase, PreDelete, Delete, PostGc, ram
<1>17. CASE SetDefault \/ \E k \in Key : Del(k) \/ \E v \in Val : Set(k, v)
  BY <1>3, <1>17 DEF SetDefault, Del, Set, ram
<1> QED BY <1>4, <1>5, <1>6, <1>7, <1>8, <1>9, <1>10, <1>11, <1>12, <1>13, <1>14, <1>15, <1>16, <1>17
        DEF DbNext, Step, Load, Reset, DeleteKv, Write, Gc

\* A step of another task: what it touches is no longer asked for.
LEMMA WalkBeside ==
    ASSUME Base, WalkInv, DbStep, ~raced'
    PROVE  WalkInv'
<1>1. /\ itr' = itr /\ twice' = twice
      /\ want' \subseteq want /\ seen' \subseteq seen
  BY DEF DbStep
<1>2. \A p \in want' \cup seen' : WrittenAt(p)'
  <2> SUFFICES ASSUME NEW p \in want' \cup seen' PROVE WrittenAt(p)'
    OBVIOUS
  <2>1. p \in {Place(a) : a \in {b \in AllRecs : RecAt(b).st = KV_WRITE}}'
    BY DEF DbStep
  <2>2. PICK a : (a \in AllRecs /\ RecAt(a).st = KV_WRITE /\ p = Place(a))'
    BY <2>1
  <2> QED BY <2>2 DEF AllRecs, RecAt, Place, WrittenAt
<1>3. \A p : Passed(p)' <=> Passed(p)
  BY <1>1 DEF Passed
<1>4. itr.phase = "fill" => FillInv'
  <2> SUFFICES ASSUME itr.phase = "fill" PROVE FillInv'
    OBVIOUS
  <2>1. itr.sec \in Sector /\ FillInv /\ ~HeaderWritten(itr.sec)
    BY DEF WalkInv, IterType, DbStep
  <2>2. SeenAs(secCache, itr.sec)'
    <3>1. CASE PreWriteHurt
      BY <1>1, <2>1, <3>1 DEF PreWriteHurt, ram, FillInv, SeenAs, Cached
    <3>2. CASE DbNext
      <4>1. ASSUME NEW s \in Sector, s = itr.sec PROVE SeenAs(secCache, s)'
        BY <2>1, <3>2, <4>1, EntryStep DEF FillInv
      <4> QED BY <1>1, <2>1, <4>1 DEF SeenAs, Cached
    <3> QED BY <3>1, <3>2 DEF DbStep, DbNext
  <2> QED BY <1>1, <2>1, <2>2 DEF FillInv, FlashInfo, HeaderWritten
<1> QED BY <1>1, <1>2, <1>3, <1>4 DEF WalkInv

-----------------------------------------------------------------------------
(* All steps, and what follows *)

\* All of it holds until a header is written behind the iterator's back.
IterInv == Base /\ DbInv /\ WalkInv
UnlessRaced == raced \/ IterInv

LEMMA IterInvInit == IterInit => IterInv
<1> SUFFICES ASSUME IterInit PROVE WalkInv
  BY DbInit DEF IterInit, IterInv
<1>1. itr = NoIter /\ want = {} /\ seen = {} /\ ~twice /\ SecNum \in Nat
  BY SecNumAssumption DEF IterInit
<1>2. NoIter \in IterType
  BY <1>1, NothingType DEF IterType, NoIter
<1> QED BY <1>1, <1>2 DEF WalkInv, NoIter

LEMMA IterInvStep ==
    ASSUME IterInv, [IterNext]_iterVars, ~raced'
    PROVE  IterInv'
<1> Base /\ DbInv /\ WalkInv
  BY DEF IterInv
<1>1. CASE IterStart
  BY <1>1, Undisturbed, WalkStart DEF IterStart, IterInv
<1>2. CASE IterSector
  BY <1>2, Undisturbed, WalkSector DEF IterSector, IterInv
<1>3. CASE IterFill
  <2>1. itr.phase = "fill" /\ itr.sec \in Sector
    BY <1>3 DEF IterFill, WalkInv, IterType
  <2>2. (Base /\ DbInv)'
    BY <1>3, <2>1, FillKeeps DEF WalkInv
  <2> QED BY <1>3, <2>2, WalkFill DEF IterInv
<1>4. CASE IterRecord
  BY <1>4, Undisturbed, WalkRecord DEF IterRecord, IterInv
<1>5. CASE IterMark
  <2>1. itr.sec \in Sector
    BY DEF WalkInv, IterType
  <2> QED BY <1>5, <2>1, MarkKeeps, WalkMark DEF IterInv
<1>6. CASE IterStop
  BY <1>6, Undisturbed, WalkStop DEF IterStop, IterInv
<1>7. CASE DbStep
  <2>1. PreWriteHurt \/ DbNext
    BY <1>7 DEF DbStep, DbNext
  <2>2. (Base /\ DbInv)'
    BY <2>1, HurtKeeps, DbStepKeeps
  <2> QED BY <1>7, <2>2, WalkBeside DEF IterInv
<1>8. CASE UNCHANGED iterVars
  <2>1. UNCHANGED vars /\ UNCHANGED <<itr, want, seen, twice>>
    BY <1>8 DEF iterVars, itrVars
  <2>2. UNCHANGED <<recs, magic, store, dirty, secCache>>
    BY <2>1 DEF vars, flash, ram
  <2>3. WalkInv'
    <3>1. \A p : (WrittenAt(p)' <=> WrittenAt(p)) /\ (Passed(p)' <=> Passed(p))
      BY <2>1, <2>2 DEF WrittenAt, Passed
    <3> QED BY <2>1, <2>2, <3>1 DEF WalkInv, FillInv, SeenAs, Cached, FlashInfo
  <2> QED BY <2>1, <2>3, Undisturbed DEF IterInv
<1> QED BY <1>1, <1>2, <1>3, <1>4, <1>5, <1>6, <1>7, <1>8 DEF IterNext, Iterate

LEMMA IterInvAlways == IterSpec => []UnlessRaced
<1>1. IterInit => UnlessRaced
  BY IterInvInit DEF UnlessRaced
<1>2. UnlessRaced /\ [IterNext]_iterVars => UnlessRaced'
  <2> SUFFICES ASSUME UnlessRaced, [IterNext]_iterVars, ~raced' PROVE IterInv'
    BY DEF UnlessRaced
  <2>1. ~raced
    BY DEF IterNext, Iterate, IterStart, IterSector, IterFill, IterRecord, IterMark, IterStop, DbStep,
           iterVars, itrVars
  <2> QED BY <2>1, IterInvStep DEF UnlessRaced
<1> QED BY <1>1, <1>2, PTL DEF IterSpec

\* When fdb_kv_iterate has been in all sectors, it has reported every record
\* that no other task touched meanwhile, and none of them twice, whatever was
\* set, deleted, collected or formatted between two of its accesses: for any
\* number of sectors, names and calls.  One interleaving ends that promise:
\* another task writes the header of a sector between the iterator's read of
\* it (fdb_kvdb.c:430) and its entry in the cache (493).  It is not excluded
\* from the specification; from then on the theorem says nothing.
THEOREM StableReported == IterSpec => []StableUnlessRaced
<1>1. UnlessRaced => StableUnlessRaced
  <2> SUFFICES ASSUME IterInv, itr.phase = "end", NEW p \in want PROVE FALSE
    BY DEF StableUnlessRaced, StableOnce, UnlessRaced, IterInv, WalkInv
  <2>1. itr.n = SecNum /\ itr.sec \in Sector /\ WrittenAt(p) /\ ~Passed(p) /\ SecNum \in Nat
    BY SecNumAssumption DEF IterInv, WalkInv, IterType
  <2>2. Rank(itr.sec, p[1]) \in Nat
    BY <2>1, WrittenPlace, NextRank DEF IterInv, DbInv
  <2> QED BY <2>1, <2>2 DEF Passed
<1> QED BY <1>1, IterInvAlways, PTL

\* Until such a header the iterator does the database no harm, although it
\* writes into the sector cache and into the flash without the lock: between
\* the calls of the other tasks the cache still tells what is on the flash
\* (update_sector_cache), and a sector is left for the next collection.
THEOREM IterHarmless == IterSpec => [](~raced => CacheCoherent /\ OneEmpty)
<1>1. UnlessRaced => (~raced => CacheCoherent /\ OneEmpty)
  BY SafeCoherent, SafeSpare DEF UnlessRaced, IterInv, Base
<1> QED BY <1>1, IterInvAlways, PTL
================================================================================
