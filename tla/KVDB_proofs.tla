------------------------------ MODULE KVDB_proofs ------------------------------
(***************************************************************************)
(* What holds of the KV database for every number and size of sectors,     *)
(* every set of names and values, every size of the caches and any number  *)
(* of power losses: it keeps its types, and no sector becomes FULL.        *)
(***************************************************************************)
EXTENDS KVProps, SequenceTheorems, WellFoundedInduction, TLAPS

-----------------------------------------------------------------------------
(* The least and the greatest of a set of numbers *)

\* A set of natural numbers that is not empty has a least element.
LEMMA LeastNat ==
    ASSUME NEW S \in SUBSET Nat, S # {}
    PROVE  \E m \in S : \A n \in S : m <= n
<1>1. PICK m \in S : \A n \in S : ~(<<n, m>> \in OpToRel(<, Nat))
  BY NatLessThanWellFounded, WFMin
<1>2. \A n \in S : ~(n < m)
  BY <1>1 DEF OpToRel
<1> QED BY <1>2

\* ... and a greatest one if it is bounded.
LEMMA GreatestNat ==
    ASSUME NEW S \in SUBSET Nat, S # {}, NEW b \in Nat, \A n \in S : n <= b
    PROVE  \E m \in S : \A n \in S : n <= m
<1> DEFINE T == {b - n : n \in S}
<1>1. T \in SUBSET Nat /\ T # {}
  <2>1. \A n \in S : b - n \in Nat
    OBVIOUS
  <2>2. PICK n \in S : TRUE
    OBVIOUS
  <2>3. b - n \in T
    OBVIOUS
  <2> QED BY <2>1, <2>3
<1>2. PICK t \in T : \A u \in T : t <= u
  BY <1>1, LeastNat
<1>3. PICK m \in S : t = b - m
  BY <1>2
<1>4. ASSUME NEW n \in S PROVE n <= m
  <2>1. b - n \in T
    OBVIOUS
  <2> QED BY <2>1, <1>2, <1>3
<1> QED BY <1>3, <1>4

\* Max and Min of FiniteSetsExt are members of their argument.
LEMMA MinIn ==
    ASSUME NEW S \in SUBSET Nat, S # {}
    PROVE  Min(S) \in S
BY LeastNat DEF Min

LEMMA MaxIn ==
    ASSUME NEW S \in SUBSET Nat, S # {}, NEW b \in Nat, \A n \in S : n <= b
    PROVE  Max(S) \in S
BY GreatestNat DEF Max

-----------------------------------------------------------------------------
(* Sectors in the order of their ranks *)

\* The rank of a sector counts from base on, and no two sectors share one.
LEMMA RankType ==
    ASSUME NEW base \in Sector, NEW s \in Sector
    PROVE  Rank(base, s) \in Sector
BY SecNumAssumption DEF Rank, Sector

LEMMA RankInjective ==
    ASSUME NEW base \in Sector, NEW s \in Sector, NEW t \in Sector,
           Rank(base, s) = Rank(base, t)
    PROVE  s = t
BY SecNumAssumption DEF Rank, Sector

\* The steps an iteration takes from a sector stay inside the partition.
LEMMA AtType ==
    ASSUME NEW base \in Sector, NEW n \in Nat
    PROVE  At(base, n) \in Sector
BY SecNumAssumption DEF At, Sector

LEMMA FirstFromLeast ==
    ASSUME NEW base \in Sector, NEW S \in SUBSET Sector, S # {}
    PROVE  /\ FirstFrom(base, S) \in S
           /\ \A t \in S : Rank(base, FirstFrom(base, S)) <= Rank(base, t)
<1> DEFINE R == {Rank(base, s) : s \in S}
<1>1. R \in SUBSET Nat /\ R # {}
  <2>1. \A s \in S : Rank(base, s) \in Nat
    BY RankType DEF Sector
  <2>2. PICK s \in S : TRUE
    OBVIOUS
  <2>3. Rank(base, s) \in R
    OBVIOUS
  <2> QED BY <2>1, <2>3
<1>2. PICK r \in R : \A q \in R : r <= q
  BY <1>1, LeastNat
<1>3. PICK s \in S : r = Rank(base, s)
  BY <1>2
<1>4. \A t \in S : Rank(base, s) <= Rank(base, t)
  BY <1>2, <1>3
<1> QED BY <1>4 DEF FirstFrom

LEMMA LastFromGreatest ==
    ASSUME NEW base \in Sector, NEW S \in SUBSET Sector, S # {}
    PROVE  /\ LastFrom(base, S) \in S
           /\ \A t \in S : Rank(base, t) <= Rank(base, LastFrom(base, S))
<1> DEFINE R == {Rank(base, s) : s \in S}
<1>1. R \in SUBSET Nat /\ R # {} /\ \A r \in R : r <= SecNum
  <2>1. \A s \in S : Rank(base, s) \in Nat /\ Rank(base, s) <= SecNum
    BY RankType, SecNumAssumption DEF Sector
  <2>2. PICK s \in S : TRUE
    OBVIOUS
  <2>3. Rank(base, s) \in R
    OBVIOUS
  <2> QED BY <2>1, <2>3
<1>2. PICK r \in R : \A q \in R : q <= r
  BY <1>1, GreatestNat, SecNumAssumption
<1>3. PICK s \in S : r = Rank(base, s)
  BY <1>2
<1>4. \A t \in S : Rank(base, t) <= Rank(base, s)
  BY <1>2, <1>3
<1> QED BY <1>4 DEF LastFrom

-----------------------------------------------------------------------------
(* Records in the order of their sectors, then of their places there *)

LEMMA FirstOfIn ==
    ASSUME NEW base \in Sector, NEW S \in SUBSET (Sector \X Nat), S # {}
    PROVE  FirstOf(base, S) \in S
<1> DEFINE D == {a[1] : a \in S}
           s == FirstFrom(base, D)
           I == {a[2] : a \in {b \in S : b[1] = s}}
<1>1. s \in D /\ \A t \in D : Rank(base, s) <= Rank(base, t)
  BY FirstFromLeast
<1>2. I \in SUBSET Nat /\ I # {}
  BY <1>1
<1>3. PICK i \in I : \A j \in I : i <= j
  BY <1>2, LeastNat
<1>4. PICK a \in S : a[1] = s /\ a[2] = i
  BY <1>3
<1>5. ASSUME NEW b \in S PROVE Before(base, a, b)
  <2>1. b[1] \in D /\ b[1] \in Sector /\ s \in Sector
    BY <1>1
  <2>2. Rank(base, s) <= Rank(base, b[1])
    BY <2>1, <1>1
  <2>3. CASE Rank(base, s) = Rank(base, b[1])
    <3>1. b[1] = s
      BY <2>1, <2>3, RankInjective
    <3> QED BY <3>1, <1>3, <1>4 DEF Before
  <2>4. CASE Rank(base, s) # Rank(base, b[1])
    <3>1. Rank(base, s) \in Int /\ Rank(base, b[1]) \in Int
      BY <2>1, RankType DEF Sector
    <3> QED BY <3>1, <2>2, <2>4, <1>4 DEF Before
  <2> QED BY <2>3, <2>4
<1> QED BY <1>5 DEF FirstOf

LEMMA LastOfIn ==
    ASSUME NEW base \in Sector, NEW S \in SUBSET (Sector \X Nat), S # {},
           NEW bound \in [Sector -> Nat], \A a \in S : a[2] <= bound[a[1]]
    PROVE  LastOf(base, S) \in S
<1> DEFINE D == {a[1] : a \in S}
           s == LastFrom(base, D)
           I == {a[2] : a \in {b \in S : b[1] = s}}
<1>1. s \in D /\ \A t \in D : Rank(base, t) <= Rank(base, s)
  BY LastFromGreatest
<1>2. I \in SUBSET Nat /\ I # {} /\ bound[s] \in Nat /\ \A i \in I : i <= bound[s]
  BY <1>1
<1>3. PICK i \in I : \A j \in I : j <= i
  BY <1>2, GreatestNat
<1>4. PICK a \in S : a[1] = s /\ a[2] = i
  BY <1>3
<1>5. ASSUME NEW b \in S PROVE Before(base, b, a)
  <2>1. b[1] \in D /\ b[1] \in Sector /\ s \in Sector
    BY <1>1
  <2>2. Rank(base, b[1]) <= Rank(base, s)
    BY <2>1, <1>1
  <2>3. CASE Rank(base, s) = Rank(base, b[1])
    <3>1. b[1] = s
      BY <2>1, <2>3, RankInjective
    <3> QED BY <3>1, <1>3, <1>4 DEF Before
  <2>4. CASE Rank(base, s) # Rank(base, b[1])
    <3>1. Rank(base, s) \in Int /\ Rank(base, b[1]) \in Int
      BY <2>1, RankType DEF Sector
    <3> QED BY <3>1, <2>2, <2>4, <1>4 DEF Before
  <2> QED BY <2>3, <2>4
<1> QED BY <1>5 DEF LastOf

-----------------------------------------------------------------------------
(* Types of the helpers *)

LEMMA NothingType ==
    /\ NoOp \in OpType /\ NoCur \in CurType /\ NoOld \in OldType
    /\ NoGc \in GcType /\ NoScan \in ScanType
    /\ NoInfo \in InfoType /\ NoRec \in Rec
    /\ 0 \in Sector
<1>1. 0 \in Sector
  BY SecNumAssumption DEF Sector
<1>2. NoRec \in Rec
  BY DEF NoRec, Rec, KvStatus, KV_UNUSED, KV_ERR_HDR
<1>3. NoInfo \in InfoType
  BY DEF NoInfo, InfoType, Store, Dirty, STORE_UNUSED, STORE_FULL, DIRTY_UNUSED, DIRTY_GC,
         NotCached
<1>4. NoCur \in CurType
  BY <1>1 DEF NoCur, CurType, Store, STORE_UNUSED, STORE_FULL
<1>5. NoOld \in OldType
  BY <1>1, <1>2 DEF NoOld, OldType
<1>6. NoOp \in OpType /\ NoGc \in GcType /\ NoScan \in ScanType
  BY <1>1 DEF NoOp, OpType, NoGc, GcType, NoScan, ScanType
<1> QED BY <1>1, <1>2, <1>3, <1>4, <1>5, <1>6

\* Where a sector has free space is a natural number.
LEMMA FillType ==
    ASSUME NEW st, NEW q \in Seq(Rec)
    PROVE  Fill(st, q) \in Nat
<1>1. CASE q = <<>>
  BY <1>1, LenAssumption DEF Fill
<1>2. CASE q # <<>>
  <2>1. q[Len(q)] \in Rec
    BY <1>2
  <2>2. q[Len(q)].at \in Nat /\ q[Len(q)].len \in Nat
    BY <2>1 DEF Rec
  <2> QED BY <1>2, <2>2, LenAssumption DEF Fill
<1> QED BY <1>1, <1>2

LEMMA FlashInfoType ==
    ASSUME FlashType, NEW s \in Sector, NEW e \in {NotCached, FailedAddr} \cup Nat
    PROVE  FlashInfo(s, e) \in InfoType
BY DEF FlashType, FlashInfo, InfoType

LEMMA HdrInfoType ==
    ASSUME FlashType, RamType, NEW s \in Sector
    PROVE  HdrInfo(s) \in InfoType
<1>1. FlashInfo(s, FailedAddr) \in InfoType
  BY FlashInfoType
<1> QED BY <1>1, NothingType DEF HdrInfo, RamType

\* What read_sector_info says of a sector with free space.
LEMMA FullInfoType ==
    ASSUME FlashType, RamType, NEW s \in Sector
    PROVE  /\ FullInfo(s) \in InfoType
           /\ Remain(s) \in Int
           /\ FullInfo(s).store # STORE_UNUSED => FullInfo(s).empty \in Nat
<1>1. recs[s] \in Seq(Rec) /\ secCache[s] \in InfoType
  BY DEF FlashType, RamType
<1>2. Fill(store[s], recs[s]) \in Nat
  BY <1>1, FillType
<1>3. FlashInfo(s, Fill(store[s], recs[s])) \in InfoType
  BY <1>2, FlashInfoType
<1>4. FlashInfo(s, Fill(store[s], recs[s])).empty \in Nat
  BY <1>2 DEF FlashInfo
<1>5. FullInfo(s) \in InfoType
  BY <1>1, <1>3, NothingType DEF FullInfo
<1>6. FullInfo(s).store # STORE_UNUSED => FullInfo(s).empty \in Nat
  BY <1>1, <1>4 DEF FullInfo, Cached, InfoType, NoInfo
<1>7. Remain(s) \in Int
  BY <1>6, LenAssumption DEF Remain, STORE_UNUSED, STORE_EMPTY, STORE_USING
<1> QED BY <1>5, <1>6, <1>7

\* The sector cache stays a cache of sector information.
LEMMA FillCacheType ==
    ASSUME FlashType, NEW c \in [Sector -> InfoType], NEW base, NEW S
    PROVE  FillCache(c, base, S) \in [Sector -> InfoType]
<1>1. \A s \in Sector : FlashInfo(s, FailedAddr) \in InfoType /\ c[s] \in InfoType
  BY FlashInfoType
<1> QED BY <1>1 DEF FillCache

LEMMA TraverseType ==
    ASSUME FlashType, NEW c \in [Sector -> InfoType], NEW S
    PROVE  Traverse(c, S) \in [Sector -> InfoType]
<1>1. \A s \in Sector : Fill(store[s], recs[s]) \in Nat
  BY FillType DEF FlashType
<1>2. \A s \in Sector : FlashInfo(s, Fill(store[s], recs[s])) \in InfoType /\ c[s] \in InfoType
  BY <1>1, FlashInfoType
<1> QED BY <1>2 DEF Traverse

LEMMA AllocCacheType ==
    ASSUME FlashType, RamType, NEW len
    PROVE  AllocCache(len) \in [Sector -> InfoType]
<1>1. FillCache(secCache, oldest, Sector) \in [Sector -> InfoType]
  BY FillCacheType DEF RamType
<1> QED BY <1>1, TraverseType DEF AllocCache

LEMMA UncacheType ==
    ASSUME RamType, NEW s
    PROVE  Uncache(secCache, s) \in [Sector -> InfoType]
BY NothingType DEF Uncache, RamType

-----------------------------------------------------------------------------
(* alloc_kv finds room where it says it does *)

LEMMA AllocFits ==
    ASSUME FlashType, RamType, NEW len \in Nat, CanAlloc(len)
    PROVE  AllocSec(len) \in Sector /\ Fits(AllocSec(len), len)
<1>1. UsingFit(len) \in SUBSET Sector /\ EmptyFit(len) \in SUBSET Sector
  BY DEF UsingFit, EmptyFit, UsingSecs, EmptySecs
<1>2. oldest \in Sector
  BY DEF RamType
<1>3. CASE UsingFit(len) # {}
  <2>1. FirstFrom(oldest, UsingFit(len)) \in UsingFit(len)
    BY <1>1, <1>2, <1>3, FirstFromLeast
  <2> QED BY <1>3, <2>1 DEF AllocSec, UsingFit, UsingSecs
<1>4. CASE UsingFit(len) = {}
  <2>1. EmptyFit(len) # {}
    BY <1>4 DEF CanAlloc
  <2>2. FirstFrom(oldest, EmptyFit(len)) \in EmptyFit(len)
    BY <1>1, <1>2, <2>1, FirstFromLeast
  <2> QED BY <1>4, <2>2 DEF AllocSec, EmptyFit, EmptySecs
<1> QED BY <1>3, <1>4

LEMMA AllocatedType ==
    ASSUME FlashType, RamType, NEW len \in Nat, CanAlloc(len),
           NEW k \in Key \cup {NoKey}, NEW v \in Val \cup {NoVal}
    PROVE  /\ Allocated(len, k, v) \in CurType
           /\ Allocated(len, k, v).remain > len + Threshold
<1> DEFINE s == AllocSec(len)
<1>1. s \in Sector /\ Fits(s, len)
  BY AllocFits
<1>2. Remain(s) \in Int /\ Remain(s) > len + Threshold
  BY <1>1, FullInfoType DEF Fits
<1>3. FullInfo(s).empty \in Nat
  <2>1. Remain(s) > 0
    BY <1>2, LenAssumption
  <2>2. FullInfo(s).store \in {STORE_EMPTY, STORE_USING}
    BY <2>1 DEF Remain
  <2> QED BY <2>2, <1>1, FullInfoType DEF STORE_EMPTY, STORE_USING, STORE_UNUSED
<1>4. HdrInfo(s).store \in Store
  BY <1>1, HdrInfoType DEF InfoType
<1> QED BY <1>1, <1>2, <1>3, <1>4 DEF Allocated, CurType

-----------------------------------------------------------------------------
(* find_kv finds a record, and the name cache holds addresses *)

LEMMA RecTyped ==
    ASSUME FlashType, NEW s \in Sector, NEW i \in DOMAIN recs[s]
    PROVE  recs[s][i] \in Rec /\ i \in Nat
BY DEF FlashType

LEMMA PairIn ==
    ASSUME FlashType, NEW a \in UNION {{s} \X DOMAIN recs[s] : s \in Sector}
    PROVE  /\ a \in Sector \X Nat /\ a[2] \in DOMAIN recs[a[1]]
           /\ recs[a[1]][a[2]] \in Rec
           /\ AddrOf(a) \in Addr
<1>1. PICK s \in Sector : a \in {s} \X DOMAIN recs[s]
  OBVIOUS
<1>2. a[1] = s /\ a[2] \in DOMAIN recs[s] /\ a = <<a[1], a[2]>>
  BY <1>1
<1>3. recs[s][a[2]] \in Rec /\ a[2] \in Nat
  BY <1>2, RecTyped
<1>4. recs[s][a[2]].at \in Nat
  BY <1>3 DEF Rec
<1> QED BY <1>2, <1>3, <1>4 DEF AddrOf, Addr

LEMMA FindIn ==
    ASSUME FlashType, RamType, NEW k \in Key, Found(k)
    PROVE  Find(k) \in UNION {{s} \X DOMAIN recs[s] : s \in Sector}
<1> DEFINE All == UNION {{s} \X DOMAIN recs[s] : s \in Sector}
<1>1. CASE CacheHits(k) # {}
  <2>1. kvCache[k] # NoAddr /\ kvCache[k] \in Addr
    BY <1>1 DEF CacheHits, RamType
  <2>2. kvCache[k][1] \in Sector
    BY <2>1 DEF Addr
  <2>3. CacheHits(k) \subseteq All
    BY <2>1, <2>2 DEF CacheHits
  <2>4. Find(k) \in CacheHits(k)
    BY <1>1 DEF Find
  <2> QED BY <2>3, <2>4
<1>2. CASE CacheHits(k) = {}
  <2>1. Written(k) # {} /\ Written(k) \subseteq All
    BY <1>2 DEF Found, Written
  <2>2. \A a \in Written(k) : a \in Sector \X Nat
    BY <2>1, PairIn
  <2>3. FirstOf(oldest, Written(k)) \in Written(k)
    BY <2>1, <2>2, FirstOfIn DEF RamType
  <2> QED BY <1>2, <2>1, <2>3 DEF Find
<1> QED BY <1>1, <1>2

LEMMA CachePutType ==
    ASSUME NEW c \in [Key -> Addr \cup {NoAddr}], NEW k, NEW a \in Addr,
           NEW d \in CachePut(c, k, a)
    PROVE  d \in [Key -> Addr \cup {NoAddr}]
<1> DEFINE e == [c EXCEPT ![k] = a]
<1>1. e \in [Key -> Addr \cup {NoAddr}]
  OBVIOUS
<1>2. d = e \/ \E x : d = [e EXCEPT ![x] = NoAddr]
  BY DEF CachePut
<1> HIDE DEF e
<1> QED BY <1>1, <1>2

LEMMA FindCachesType ==
    ASSUME FlashType, RamType, NEW k \in Key, FindCaches(k)
    PROVE  /\ kvCache' \in [Key -> Addr \cup {NoAddr}]
           /\ secCache' \in [Sector -> InfoType]
<1>1. CASE CacheHits(k) # {}
  BY <1>1 DEF FindCaches, RamType
<1>2. CASE CacheHits(k) = {} /\ Written(k) # {}
  <2>1. AddrOf(Find(k)) \in Addr
    BY <1>2, FindIn, PairIn DEF Found
  <2>2. kvCache' \in CachePut(kvCache, k, AddrOf(Find(k)))
    BY <1>2 DEF FindCaches
  <2>3. secCache' \in [Sector -> InfoType]
    BY <1>2, FillCacheType DEF FindCaches, RamType
  <2> QED BY <2>1, <2>2, <2>3, CachePutType DEF RamType
<1>3. CASE CacheHits(k) = {} /\ Written(k) = {}
  BY <1>3, FillCacheType DEF FindCaches, RamType
<1> QED BY <1>1, <1>2, <1>3

\* The name cache that _fdb_kv_load builds out of the records it has seen.
LEMMA LoadCachesType ==
    ASSUME FlashType, RamType, FrameType, NEW P \in SUBSET Ahead, NEW d \in LoadCaches(P)
    PROVE  d \in [Key -> Addr \cup {NoAddr}]
<1> DEFINE w(k) == {a \in P : recs[a[1]][a[2]].key = k /\ Loadable(recs[a[1]][a[2]])}
           e == [k \in Key |-> IF w(k) = {} THEN kvCache[k] ELSE AddrOf(LastOf(scan.base, w(k)))]
           bound == [s \in Sector |-> Len(recs[s])]
<1>1. \A a \in P : /\ a \in UNION {{s} \X DOMAIN recs[s] : s \in Sector}
                   /\ a \in Sector \X Nat /\ a[2] \in DOMAIN recs[a[1]]
  BY PairIn DEF Ahead
<1>2. bound \in [Sector -> Nat] /\ \A a \in P : a[2] <= bound[a[1]]
  <2>1. \A s \in Sector : recs[s] \in Seq(Rec) /\ Len(recs[s]) \in Nat
    BY DEF FlashType
  <2> QED BY <1>1, <2>1
<1>3. scan.base \in Sector
  BY DEF FrameType, ScanType
<1> HIDE DEF bound
<1>4. ASSUME NEW k \in Key PROVE e[k] \in Addr \cup {NoAddr}
  <2>1. CASE w(k) = {}
    BY <2>1 DEF RamType
  <2>2. CASE w(k) # {}
    <3>1. w(k) \in SUBSET (Sector \X Nat) /\ \A a \in w(k) : a[2] <= bound[a[1]]
      BY <1>1, <1>2
    <3> HIDE DEF w
    <3>2. LastOf(scan.base, w(k)) \in w(k)
      BY <1>2, <1>3, <2>2, <3>1, LastOfIn
    <3>3. LastOf(scan.base, w(k)) \in P
      BY <3>2 DEF w
    <3> QED BY <1>1, <2>2, <3>3, PairIn
  <2> QED BY <2>1, <2>2
<1>5. PICK K : d = [k \in Key |-> IF k \in K THEN e[k] ELSE NoAddr]
  BY DEF LoadCaches
<1> HIDE DEF e
<1> QED BY <1>4, <1>5

-----------------------------------------------------------------------------
(* The writes to the flash keep its type *)

LEMMA WriteStatusType ==
    ASSUME NEW m \in Nat, NEW n \in Nat
    PROVE  WriteStatus(m, n) \in {m, n}
BY DEF WriteStatus

\* ExceptSeq of SequenceTheorems, for any index.
LEMMA ExceptAny ==
    ASSUME NEW S, NEW q \in Seq(S), NEW i, NEW e, i \in DOMAIN q => e \in S
    PROVE  [q EXCEPT ![i] = e] \in Seq(S)
<1>1. CASE i \in DOMAIN q
  BY <1>1, ExceptSeq
<1>2. CASE i \notin DOMAIN q
  <2>1. [q EXCEPT ![i] = e] = q
    BY <1>2
  <2> QED BY <2>1
<1> QED BY <1>1, <1>2

LEMMA SetKvStatusType ==
    ASSUME FlashType, NEW s \in Sector, NEW i, NEW st \in KvStatus, SetKvStatus(s, i, st)
    PROVE  FlashType'
<1> DEFINE e == [recs[s][i] EXCEPT !.st = WriteStatus(@, st)]
           q == [recs[s] EXCEPT ![i] = e]
<1>1. recs[s] \in Seq(Rec)
  BY DEF FlashType
<1>2. ASSUME i \in DOMAIN recs[s] PROVE e \in Rec
  <2>1. recs[s][i] \in Rec
    BY <1>2, RecTyped
  <2>2. recs[s][i].st \in KvStatus
    BY <2>1 DEF Rec
  <2>3. WriteStatus(recs[s][i].st, st) \in KvStatus
    BY <2>2 DEF WriteStatus
  <2> QED BY <2>1, <2>3 DEF Rec
<1>3. q \in Seq(Rec)
  <2> HIDE DEF e
  <2> QED BY <1>1, <1>2, ExceptAny
<1>4. recs' = [recs EXCEPT ![s] = q]
  BY DEF SetKvStatus
<1> HIDE DEF q
<1> QED BY <1>3, <1>4 DEF SetKvStatus, FlashType

LEMMA LastRecType ==
    ASSUME FlashType, cur.sec \in Sector, NEW r, recs[cur.sec] # <<>> => r \in Rec,
           LastRec(r), UNCHANGED <<magic, store, dirty>>
    PROVE  FlashType'
<1> DEFINE q == [recs[cur.sec] EXCEPT ![Len(recs[cur.sec])] = r]
<1>1. recs[cur.sec] \in Seq(Rec)
  BY DEF FlashType
<1>2. Len(recs[cur.sec]) \in DOMAIN recs[cur.sec] => recs[cur.sec] # <<>>
  BY <1>1
<1>3. q \in Seq(Rec)
  BY <1>1, <1>2, ExceptAny
<1>4. recs' = [recs EXCEPT ![cur.sec] = q]
  BY DEF LastRec
<1> HIDE DEF q
<1> QED BY <1>3, <1>4 DEF FlashType

LEMMA CurRecType ==
    ASSUME FlashType, cur.sec \in Sector, recs[cur.sec] # <<>>
    PROVE  CurRec \in Rec
<1>1. recs[cur.sec] \in Seq(Rec)
  BY DEF FlashType
<1> QED BY <1>1 DEF CurRec

LEMMA StatusTypes ==
    /\ STORE_UNUSED \in Store /\ STORE_EMPTY \in Store /\ STORE_USING \in Store /\ STORE_FULL \in Store
    /\ DIRTY_UNUSED \in Dirty /\ DIRTY_FALSE \in Dirty /\ DIRTY_TRUE \in Dirty /\ DIRTY_GC \in Dirty
    /\ KV_UNUSED \in KvStatus /\ KV_PRE_WRITE \in KvStatus /\ KV_WRITE \in KvStatus
    /\ KV_PRE_DELETE \in KvStatus /\ KV_DELETED \in KvStatus /\ KV_ERR_HDR \in KvStatus
BY DEF Store, STORE_UNUSED, STORE_EMPTY, STORE_USING, STORE_FULL,
       Dirty, DIRTY_UNUSED, DIRTY_FALSE, DIRTY_TRUE, DIRTY_GC,
       KvStatus, KV_UNUSED, KV_PRE_WRITE, KV_WRITE, KV_PRE_DELETE, KV_DELETED, KV_ERR_HDR

LEMMA EraseSectorType ==
    ASSUME FlashType, NEW s, EraseSector(s)
    PROVE  FlashType'
<1>1. <<>> \in Seq(Rec)
  OBVIOUS
<1> QED BY <1>1, StatusTypes DEF FlashType, EraseSector

LEMMA WriteSectorHdrType ==
    ASSUME FlashType, NEW s, WriteSectorHdr(s)
    PROVE  FlashType'
<1>1. <<>> \in Seq(Rec)
  OBVIOUS
<1> QED BY <1>1, StatusTypes DEF FlashType, WriteSectorHdr

-----------------------------------------------------------------------------
(* The type invariant *)

\* set_kv and fdb_kv_del are given a name; no one else calls find_kv.
Named == /\ op.kind \in {"set", "del"} => op.key \in Key
         /\ pc = "find" => op.kind \in {"set", "del"}

TypeInv == TypeOK /\ Named

LEMMA TypeInit == Init => TypeInv
<1> SUFFICES ASSUME Init PROVE TypeInv
  OBVIOUS
<1>1. FlashType
  <2>1. <<>> \in Seq(Rec)
    OBVIOUS
  <2> QED BY <2>1, StatusTypes DEF Init, FlashType
<1>2. RamType
  BY NothingType DEF Init, RamType
<1>3. FrameType
  <2>1. crashes \in 0 .. MaxCrash
    BY OptionAssumption DEF Init
  <2>2. pc \in PC
    BY DEF Init, PC
  <2> QED BY <2>1, <2>2, NothingType DEF Init, FrameType
<1>4. Named
  BY DEF Init, Named, NoOp
<1> QED BY <1>1, <1>2, <1>3, <1>4 DEF TypeInv, TypeOK

\* The end of a call leaves nothing of it behind.
LEMMA EndOpType ==
    ASSUME NEW ok \in BOOLEAN, EndOp(ok)
    PROVE  /\ pc' \in PC /\ ack' \in BOOLEAN /\ op' \in OpType /\ cur' \in CurType
           /\ old' \in OldType /\ mv' \in {"no", "gc", "rec"} /\ gc' \in GcType
           /\ Named'
BY NothingType DEF EndOp, PC, Named, NoOp

LEMMA GcReturnType ==
    ASSUME FrameType, Named, GcReturn
    PROVE  /\ gcReq' \in BOOLEAN
           /\ pc' \in PC /\ ack' \in BOOLEAN /\ op' \in OpType /\ cur' \in CurType
           /\ old' \in OldType /\ mv' \in {"no", "gc", "rec"} /\ gc' \in GcType
           /\ Named'
<1>1. CASE gc.then = "end"
  BY <1>1, EndOpType DEF GcReturn
<1>2. CASE gc.then # "end"
  <2>1. gc.then \in {"idle", "new", "recGc", "retry"}
    BY <1>2 DEF FrameType, GcType
  <2>2. pc' \in PC /\ pc' # "find"
    BY <1>2, <2>1 DEF GcReturn, PC
  <2>3. Named'
    BY <1>2, <2>2 DEF GcReturn, Named
  <2> QED BY <1>2, <2>2, <2>3, NothingType DEF GcReturn, FrameType
<1> QED BY <1>1, <1>2

LEMMA LoadKeepsTypes ==
    ASSUME TypeInv, Load \/ FindOldest
    PROVE  TypeInv'
<1> USE DEF TypeInv, TypeOK
<1>1. CASE FindOldest
  <2>1. OldestByStatus \in Sector
    <3> DEFINE edges == {s \in Sector \ {0} :
                    /\ HdrInfo(s - 1).store = STORE_EMPTY
                    /\ HdrInfo(s).store \in {STORE_USING, STORE_FULL}}
    <3>1. edges \in SUBSET Nat /\ \A s \in edges : s \in Sector /\ s <= SecNum
      BY SecNumAssumption DEF Sector
    <3> HIDE DEF edges
    <3>2. edges # {} => Max(edges) \in edges
      BY <3>1, MaxIn, SecNumAssumption
    <3>3. OldestByStatus = IF edges = {} THEN 0 ELSE Max(edges)
      BY DEF OldestByStatus, edges
    <3> QED BY <3>1, <3>2, <3>3, NothingType
  <2>2. FlashType'
    BY <1>1 DEF FindOldest, flash, FlashType
  <2>3. oldest' \in Sector
    BY <1>1, <2>1, NothingType DEF FindOldest
  <2>4. RamType'
    BY <1>1, <2>3, NothingType DEF FindOldest, RamType
  <2>5. scan' \in ScanType
    BY <1>1, <2>3, NothingType DEF FindOldest, ScanType
  <2>6. FrameType' /\ Named'
    BY <1>1, <2>5 DEF FindOldest, FrameType, Named, PC
  <2> QED BY <2>2, <2>4, <2>6
<1>2. CASE CheckHdr
  <2> DEFINE s == FirstFrom(scan.base, BadHeaders)
  <2>1. s \in Sector /\ Rank(scan.base, s) \in Nat
    <3>1. BadHeaders \in SUBSET Sector /\ BadHeaders # {} /\ scan.base \in Sector
      BY <1>2 DEF CheckHdr, BadHeaders, FrameType, ScanType
    <3>2. s \in Sector
      BY <3>1, FirstFromLeast
    <3> HIDE DEF s
    <3> QED BY <3>1, <3>2, RankType DEF Sector
  <2>2. CASE NotFormatable
    BY <1>2, <2>2, NothingType DEF CheckHdr, flash, FlashType, RamType, FrameType, Named, PC
  <2>3. CASE ~NotFormatable
    <3> HIDE DEF s
    <3>1. WriteSectorHdr(s) /\ UNCHANGED pc
      BY <1>2, <2>3 DEF CheckHdr, s
    <3>2. FlashType'
      BY <3>1, WriteSectorHdrType
    <3>3. secCache' \in [Sector -> InfoType]
      BY <1>2, <2>3, FillCacheType DEF CheckHdr, RamType
    <3>4. scan' \in ScanType
      <4>1. scan' = [scan EXCEPT !.n = Rank(scan.base, s) + 1, !.bad = @ + 1]
        BY <1>2, <2>3 DEF CheckHdr, s
      <4>2. scan \in ScanType /\ scan.bad + 1 \in Nat /\ Rank(scan.base, s) + 1 \in Nat
        BY <2>1 DEF FrameType, ScanType
      <4> QED BY <4>1, <4>2 DEF ScanType
    <3>5. RamType' /\ FrameType' /\ Named'
      BY <1>2, <3>1, <3>3, <3>4 DEF CheckHdr, RamType, FrameType, Named
    <3> QED BY <3>2, <3>5
  <2> QED BY <2>2, <2>3
<1>3. CASE HdrDone
  <2>1. FlashType'
    BY <1>3 DEF HdrDone, flash, FlashType
  <2>2. secCache' \in [Sector -> InfoType]
    BY <1>3, FillCacheType DEF HdrDone, RamType
  <2>3. kvCache' \in [Key -> Addr \cup {NoAddr}]
    BY <1>3 DEF HdrDone, RamType
  <2>4. RamType'
    BY <1>3, <2>2, <2>3 DEF HdrDone, RamType
  <2>5. scan' \in ScanType
    BY <1>3, NothingType DEF HdrDone, RamType, ScanType
  <2>6. op' \in OpType
    BY <1>3, NothingType DEF HdrDone, FrameType, OpType
  <2>7. pc' \in PC /\ pc' # "find"
    BY <1>3 DEF HdrDone, PC
  <2>8. Named'
    BY <1>3, <2>7 DEF HdrDone, Named, NoOp
  <2>9. FrameType'
    BY <1>3, <2>5, <2>6, <2>7 DEF HdrDone, FrameType
  <2> QED BY <2>1, <2>4, <2>8, <2>9
<1>4. CASE ResumeGc
  <2>1. FlashType'
    BY <1>4 DEF ResumeGc, flash, FlashType
  <2>2. secCache' \in [Sector -> InfoType]
    BY <1>4, FillCacheType DEF ResumeGc, RamType
  <2>3. scan' \in ScanType
    <3> DEFINE s == FirstFrom(scan.base, GcMarked)
    <3>1. GcMarked \in SUBSET Sector /\ GcMarked # {} /\ scan.base \in Sector
      BY <1>4 DEF ResumeGc, GcMarked, FrameType, ScanType
    <3>2. s \in Sector
      BY <3>1, FirstFromLeast
    <3>3. scan' = [scan EXCEPT !.n = Rank(scan.base, s) + 1]
      BY <1>4 DEF ResumeGc
    <3> HIDE DEF s
    <3>4. Rank(scan.base, s) \in Nat
      BY <3>1, <3>2, RankType DEF Sector
    <3> QED BY <3>3, <3>4 DEF FrameType, ScanType
  <2>4. gc' \in GcType
    <3>1. SecNum * Cap \in Nat
      BY SecNumAssumption, LenAssumption
    <3> QED BY <1>4, <3>1, NothingType DEF ResumeGc, StartGc, GcType
  <2>5. RamType'
    BY <1>4, <2>2 DEF ResumeGc, RamType
  <2>6. FrameType' /\ Named'
    BY <1>4, <2>3, <2>4 DEF ResumeGc, StartGc, FrameType, Named, PC
  <2> QED BY <2>1, <2>5, <2>6
<1>5. CASE ResumeGcDone
  <2>1. FlashType'
    BY <1>5 DEF ResumeGcDone, flash, FlashType
  <2>2. secCache' \in [Sector -> InfoType]
    BY <1>5, FillCacheType DEF ResumeGcDone, RamType
  <2>3. RamType'
    BY <1>5, <2>2 DEF ResumeGcDone, RamType
  <2>4. scan' \in ScanType
    BY <1>5, NothingType DEF ResumeGcDone, RamType, ScanType
  <2>5. FrameType' /\ Named'
    BY <1>5, <2>4 DEF ResumeGcDone, FrameType, Named, PC
  <2> QED BY <2>1, <2>3, <2>5
<1>6. CASE RecoverKv
  <2> DEFINE a == FirstOf(scan.base, ToRecover)
             r == recs[a[1]][a[2]]
  <2>1. scan.base \in Sector
    BY DEF FrameType, ScanType
  <2>2. a \in ToRecover /\ a \in Sector \X Nat /\ r \in Rec
    <3>1. \A b \in ToRecover : b \in UNION {{s} \X DOMAIN recs[s] : s \in Sector}
      BY DEF ToRecover, Ahead
    <3>2. \A b \in ToRecover : b \in Sector \X Nat /\ recs[b[1]][b[2]] \in Rec
      BY <3>1, PairIn
    <3>3. ToRecover # {}
      BY <1>6 DEF RecoverKv
    <3> QED BY <2>1, <3>2, <3>3, FirstOfIn
  <2>3. /\ kvCache' \in LoadCaches({b \in Ahead : Before(scan.base, b, a)})
        /\ secCache' = FillCache(secCache, scan.base,
               {t \in Sector : Rank(scan.base, t) \in scan.n .. Rank(scan.base, a[1])})
        /\ scan' = [scan EXCEPT !.n = Rank(scan.base, a[1]), !.idx = a[2] + 1]
        /\ IF r.st = KV_PRE_DELETE
           THEN Move("rec", a[1], a[2]) /\ UNCHANGED flash
           ELSE /\ SetKvStatus(a[1], a[2], KV_ERR_HDR)
                /\ pc' = "recEnd"
                /\ UNCHANGED <<old, mv>>
    BY <1>6 DEF RecoverKv
  <2> HIDE DEF a
  <2>4. RamType'
    <3>1. kvCache' \in [Key -> Addr \cup {NoAddr}]
      BY <2>3, LoadCachesType
    <3>2. secCache' \in [Sector -> InfoType]
      BY <2>3, FillCacheType DEF RamType
    <3> QED BY <1>6, <3>1, <3>2 DEF RecoverKv, RamType
  <2>5. scan' \in ScanType
    <3>1. a[1] \in Sector /\ a[2] + 1 \in Nat
      BY <2>2
    <3>2. Rank(scan.base, a[1]) \in Nat
      BY <2>1, <3>1, RankType DEF Sector
    <3> QED BY <2>3, <3>1, <3>2 DEF FrameType, ScanType
  <2>6. CASE r.st = KV_PRE_DELETE
    <3>1. FlashType'
      BY <2>3, <2>6 DEF flash, FlashType
    <3>2. old' \in OldType /\ mv' = "rec" /\ pc' \in {"preDel", "mvAlloc"}
      BY <2>2, <2>3, <2>6 DEF Move, OldType
    <3>3. FrameType' /\ Named'
      BY <1>6, <2>5, <3>2 DEF RecoverKv, FrameType, Named, PC
    <3> QED BY <2>4, <3>1, <3>3
  <2>7. CASE r.st # KV_PRE_DELETE
    <3>1. FlashType'
      BY <2>2, <2>3, <2>7, SetKvStatusType, StatusTypes
    <3>2. FrameType' /\ Named'
      BY <1>6, <2>3, <2>5, <2>7 DEF RecoverKv, FrameType, Named, PC
    <3> QED BY <2>4, <3>1, <3>2
  <2> QED BY <2>6, <2>7
<1>7. CASE RecoverKvDone
  <2>1. FlashType'
    BY <1>7 DEF RecoverKvDone, flash, FlashType
  <2>2. kvCache' \in [Key -> Addr \cup {NoAddr}] /\ secCache' \in [Sector -> InfoType]
    BY <1>7, LoadCachesType, FillCacheType DEF RecoverKvDone, RamType
  <2>3. RamType' /\ FrameType' /\ Named'
    BY <1>7, <2>2 DEF RecoverKvDone, frame, RamType, FrameType, Named, PC
  <2> QED BY <2>1, <2>3
<1>8. CASE LoadEnd
  <2>1. SecNum * Cap \in Nat
    BY SecNumAssumption, LenAssumption
  <2>2. gc' \in GcType
    BY <1>8, <2>1, NothingType DEF LoadEnd, FrameType, GcType
  <2>3. FlashType' /\ RamType'
    BY <1>8 DEF LoadEnd, flash, FlashType, RamType
  <2>4. FrameType' /\ Named'
    BY <1>8, <2>2, NothingType DEF LoadEnd, FrameType, Named, PC
  <2> QED BY <2>3, <2>4
<1>9. CASE LoadRetry
  <2>1. FlashType' /\ RamType'
    BY <1>9 DEF LoadRetry, flash, ram, FlashType, RamType
  <2>2. scan' \in ScanType
    BY <1>9, NothingType DEF LoadRetry, RamType, ScanType
  <2>3. FrameType' /\ Named'
    BY <1>9, <2>2 DEF LoadRetry, FrameType, Named, PC
  <2> QED BY <2>1, <2>3
<1> QED BY <1>1, <1>2, <1>3, <1>4, <1>5, <1>6, <1>7, <1>8, <1>9 DEF Load

LEMMA ResetKeepsTypes ==
    ASSUME TypeInv, Reset
    PROVE  TypeInv'
<1> USE DEF TypeInv, TypeOK
<1>1. CASE FmtErase
  <2>1. FlashType'
    BY <1>1, EraseSectorType DEF FmtErase
  <2>2. RamType' /\ FrameType' /\ Named'
    BY <1>1 DEF FmtErase, ram, frame, RamType, FrameType, Named, PC
  <2> QED BY <2>1, <2>2
<1>2. CASE FmtHdr
  <2>1. FlashType'
    BY <1>2, WriteSectorHdrType DEF FmtHdr
  <2>2. RamType'
    BY <1>2, UncacheType DEF FmtHdr, RamType
  <2>3. scan' \in ScanType
    <3>1. (IF scan.n + 1 < SecNum THEN scan.n + 1 ELSE 0) \in Nat
      BY DEF FrameType, ScanType
    <3> QED BY <1>2, <3>1 DEF FmtHdr, FrameType, ScanType
  <2>4. FrameType' /\ Named'
    BY <1>2, <2>3 DEF FmtHdr, FrameType, Named, PC
  <2> QED BY <2>1, <2>2, <2>4
<1>3. CASE NextDefault
  <2>1. Defaults[op.i + 1] \in Key \X Val /\ op.i + 1 \in Nat
    <3>1. op.i \in Nat /\ op.i < Len(Defaults)
      BY <1>3 DEF NextDefault, FrameType, OpType
    <3>2. op.i + 1 \in 1 .. Len(Defaults)
      BY <3>1, DefaultsAssumption
    <3> QED BY <3>1, <3>2, DefaultsAssumption
  <2>2. op' \in OpType /\ op'.key \in Key
    <3>1. Defaults[op.i + 1][1] \in Key /\ Defaults[op.i + 1][2] \in Val
      BY <2>1
    <3>2. op' = [op EXCEPT !.i = op.i + 1, !.key = Defaults[op.i + 1][1],
                           !.val = Defaults[op.i + 1][2], !.again = FALSE]
      BY <1>3 DEF NextDefault
    <3> QED BY <2>1, <3>1, <3>2 DEF FrameType, OpType
  <2>3. FlashType' /\ RamType' /\ FrameType' /\ Named'
    BY <1>3, <2>2 DEF NextDefault, flash, ram, FlashType, RamType, FrameType, Named, PC
  <2> QED BY <2>3
<1>4. CASE DefaultsDone
  <2>1. FlashType' /\ RamType'
    BY <1>4, NothingType DEF DefaultsDone, flash, FlashType, RamType
  <2>2. CASE op.kind = "reset"
    <3>1. EndOp(TRUE) /\ scan' = NoScan /\ UNCHANGED crashes
      BY <1>4, <2>2 DEF DefaultsDone
    <3>2. scan' \in ScanType /\ crashes' \in 0 .. MaxCrash
      BY <3>1, NothingType DEF FrameType
    <3>3. Named' /\ FrameType'
      BY <3>1, <3>2, EndOpType DEF FrameType
    <3> QED BY <2>1, <3>3
  <2>3. CASE op.kind # "reset"
    <3>1. /\ pc' = "recGc" /\ op' = NoOp /\ scan' = NoScan
          /\ UNCHANGED <<ack, cur, old, mv, gc, crashes>>
      BY <1>4, <2>3 DEF DefaultsDone
    <3>2. FrameType'
      BY <3>1, NothingType DEF FrameType, PC
    <3>3. Named'
      BY <3>1 DEF Named, NoOp
    <3> QED BY <2>1, <3>2, <3>3
  <2> QED BY <2>2, <2>3
<1> QED BY <1>1, <1>2, <1>3, <1>4 DEF Reset

LEMMA KvLenType == ASSUME FrameType PROVE KvLen[op.val] \in Nat
BY LenAssumption DEF FrameType, OpType

LEMMA NewKeepsTypes ==
    ASSUME TypeInv, New
    PROVE  TypeInv'
<1> USE DEF TypeInv, TypeOK
<1>1. CASE NewKv
  <2>1. cur' \in CurType
    <3>1. op.key \in Key \cup {NoKey} /\ op.val \in Val \cup {NoVal}
      BY DEF FrameType, OpType
    <3> QED BY <1>1, <3>1, KvLenType, AllocatedType DEF NewKv
  <2>2. FlashType' /\ RamType'
    BY <1>1, AllocCacheType DEF NewKv, flash, FlashType, RamType
  <2>3. FrameType' /\ Named'
    BY <1>1, <2>1 DEF NewKv, FrameType, Named, PC
  <2> QED BY <2>2, <2>3
<1>2. CASE NewKvGc
  <2>1. FlashType' /\ RamType'
    BY <1>2, AllocCacheType DEF NewKvGc, flash, FlashType, RamType
  <2>2. gc' \in GcType
    BY <1>2, KvLenType, NothingType DEF NewKvGc, StartGc, GcType
  <2>3. op' \in OpType /\ op'.key = op.key /\ op'.kind = op.kind
    BY <1>2 DEF NewKvGc, FrameType, OpType
  <2>4. FrameType' /\ Named'
    BY <1>2, <2>2, <2>3 DEF NewKvGc, StartGc, FrameType, Named, PC
  <2> QED BY <2>1, <2>4
<1>3. CASE NewKvFull
  <2>1. secCache' \in [Sector -> InfoType] /\ gcReq' \in BOOLEAN
    BY <1>3, AllocCacheType DEF NewKvFull, RamType
  <2>2. FlashType' /\ RamType'
    BY <1>3, <2>1 DEF NewKvFull, flash, FlashType, RamType
  <2>3. CASE op.kind = "set"
    <3>1. EndOp(FALSE) /\ UNCHANGED <<scan, crashes>>
      BY <1>3, <2>3 DEF NewKvFull
    <3> QED BY <2>2, <3>1, EndOpType DEF FrameType
  <2>4. CASE op.kind # "set"
    BY <1>3, <2>2, <2>4 DEF NewKvFull, FrameType, Named, PC
  <2> QED BY <2>3, <2>4
<1> QED BY <1>1, <1>2, <1>3 DEF New

LEMMA DeleteKeepsTypes ==
    ASSUME TypeInv, DeleteKv
    PROVE  TypeInv'
<1> USE DEF TypeInv, TypeOK
<1> old.sec \in Sector
  BY DEF FrameType, OldType
<1>1. CASE FindOld
  <2>1. op.key \in Key
    BY <1>1 DEF FindOld, Named
  <2>2. FlashType' /\ RamType'
    BY <1>1, <2>1, FindCachesType DEF FindOld, flash, FlashType, RamType
  <2>3. CASE Found(op.key)
    <3> DEFINE a == Find(op.key)
    <3>1. a[1] \in Sector /\ a[2] \in Nat /\ recs[a[1]][a[2]] \in Rec
      BY <2>1, <2>3, FindIn, PairIn
    <3>2. old' = [sec |-> a[1], idx |-> a[2], rec |-> recs[a[1]][a[2]]]
      BY <1>1, <2>3 DEF FindOld
    <3> HIDE DEF a
    <3>3. old' \in OldType
      BY <3>1, <3>2 DEF OldType
    <3>4. pc' \in {"preDel", "delete"}
      BY <1>1, <2>3 DEF FindOld
    <3> QED BY <1>1, <2>2, <2>3, <3>3, <3>4 DEF FindOld, FrameType, Named, PC
  <2>4. CASE ~Found(op.key) /\ op.kind = "set"
    BY <1>1, <2>2, <2>4 DEF FindOld, FrameType, Named, PC
  <2>5. CASE ~Found(op.key) /\ op.kind # "set"
    <3>1. EndOp(FALSE) /\ UNCHANGED <<scan, crashes>>
      BY <1>1, <2>5 DEF FindOld
    <3> QED BY <2>2, <3>1, EndOpType DEF FrameType
  <2> QED BY <2>3, <2>4, <2>5
<1>2. CASE PreDelete
  <2>1. FlashType'
    BY <1>2, SetKvStatusType, StatusTypes DEF PreDelete
  <2>2. pc' \in {"preDirty", "status", "mvAlloc"}
    BY <1>2 DEF PreDelete, AfterPreDel
  <2>3. RamType' /\ FrameType' /\ Named'
    BY <1>2, <2>2 DEF PreDelete, frame, RamType, FrameType, Named, PC
  <2> QED BY <2>1, <2>3
<1>3. CASE Delete
  <2>1. FlashType'
    BY <1>3, SetKvStatusType, StatusTypes DEF Delete
  <2>2. pc' \in {"delDirty", "gcScan", "recKv", "postGc"}
    BY <1>3 DEF Delete, AfterDelete
  <2>3. kvCache' \in [Key -> Addr \cup {NoAddr}]
    BY <1>3 DEF Delete, Forget, RamType
  <2>4. RamType'
    BY <1>3, <2>3 DEF Delete, RamType
  <2>5. FrameType' /\ Named'
    BY <1>3, <2>2, NothingType DEF Delete, FrameType, Named, PC
  <2> QED BY <2>1, <2>4, <2>5
<1>4. CASE MarkDirty
  <2>1. WriteStatus(dirty[old.sec], DIRTY_TRUE) \in Dirty
    <3>1. dirty[old.sec] \in Dirty
      BY DEF FlashType
    <3> QED BY <3>1, StatusTypes DEF WriteStatus
  <2>2. FlashType'
    BY <1>4, <2>1 DEF MarkDirty, FlashType
  <2>3. secCache' \in [Sector -> InfoType]
    <3>1. [secCache[old.sec] EXCEPT !.dirty = DIRTY_TRUE] \in InfoType
      BY StatusTypes DEF RamType, InfoType
    <3> QED BY <1>4, <3>1 DEF MarkDirty, RamType
  <2>4. RamType'
    BY <1>4, <2>3 DEF MarkDirty, RamType
  <2>5. pc' \in {"gcScan", "recKv", "postGc", "status", "mvAlloc"}
    BY <1>4 DEF MarkDirty, AfterPreDel, AfterDelete
  <2>6. old' \in OldType /\ mv' \in {"no", "gc", "rec"}
    BY <1>4, NothingType DEF MarkDirty, FrameType
  <2>7. FrameType' /\ Named'
    BY <1>4, <2>5, <2>6 DEF MarkDirty, FrameType, Named, PC
  <2> QED BY <2>2, <2>4, <2>7
<1> QED BY <1>1, <1>2, <1>3, <1>4 DEF DeleteKv

LEMMA WriteKeepsTypes ==
    ASSUME TypeInv, Write
    PROVE  TypeInv'
<1> USE DEF TypeInv, TypeOK
<1> cur \in CurType /\ cur.sec \in Sector
  BY DEF FrameType, CurType
<1>1. CASE UpdateSecStatus
  <2>1. SectorStatus \in Store
    BY StatusTypes DEF SectorStatus, CurType
  <2>2. WriteStatus(store[cur.sec], SectorStatus) \in Store
    <3>1. store[cur.sec] \in Store
      BY DEF FlashType
    <3> QED BY <2>1, <3>1 DEF WriteStatus
  <2>3. FlashType'
    BY <1>1, <2>2 DEF UpdateSecStatus, FlashType
  <2>4. secCache' \in [Sector -> InfoType]
    <3>1. [secCache[cur.sec] EXCEPT !.store = SectorStatus] \in InfoType
      BY <2>1 DEF RamType, InfoType
    <3> QED BY <1>1, <3>1 DEF UpdateSecStatus, RamType
  <2>5. RamType'
    BY <1>1, <2>4 DEF UpdateSecStatus, RamType
  <2>6. cur' \in CurType
    BY <1>1 DEF UpdateSecStatus, CurType
  <2>7. FrameType' /\ Named'
    BY <1>1, <2>6 DEF UpdateSecStatus, FrameType, Named, PC
  <2> QED BY <2>3, <2>5, <2>7
<1>2. CASE PreWrite
  <2> DEFINE r == [at |-> cur.at, len |-> GapLen, st |-> KV_PRE_WRITE, key |-> NoKey, val |-> NoVal]
             q == Append(recs[cur.sec], r)
  <2>1. r \in Rec
    BY LenAssumption, StatusTypes DEF Rec, CurType
  <2>2. q \in Seq(Rec)
    BY <2>1 DEF FlashType
  <2>3. recs' = [recs EXCEPT ![cur.sec] = q]
    BY <1>2 DEF PreWrite
  <2> HIDE DEF q
  <2>4. FlashType'
    BY <1>2, <2>2, <2>3 DEF PreWrite, FlashType
  <2>5. RamType' /\ FrameType' /\ Named'
    BY <1>2 DEF PreWrite, ram, frame, RamType, FrameType, Named, PC
  <2> QED BY <2>4, <2>5
<1>3. CASE WriteMagic
  <2>1. recs[cur.sec] # <<>> => [CurRec EXCEPT !.len = HdrLen] \in Rec
    BY CurRecType, LenAssumption DEF Rec
  <2>2. FlashType'
    BY <1>3, <2>1, LastRecType DEF WriteMagic
  <2>3. RamType' /\ FrameType' /\ Named'
    BY <1>3 DEF WriteMagic, ram, frame, RamType, FrameType, Named, PC
  <2> QED BY <2>2, <2>3
<1>4. CASE WriteHdr
  <2>1. recs[cur.sec] # <<>> => [CurRec EXCEPT !.len = cur.len] \in Rec
    BY CurRecType DEF Rec, CurType
  <2>2. FlashType'
    BY <1>4, <2>1, LastRecType DEF WriteHdr
  <2>3. RamType' /\ FrameType' /\ Named'
    BY <1>4 DEF WriteHdr, ram, frame, RamType, FrameType, Named, PC
  <2> QED BY <2>2, <2>3
<1>5. CASE WriteBody
  <2>1. recs[cur.sec] # <<>> => [CurRec EXCEPT !.key = cur.key, !.val = cur.val] \in Rec
    BY CurRecType DEF Rec, CurType
  <2>2. FlashType'
    BY <1>5, <2>1, LastRecType DEF WriteBody
  <2>3. secCache' \in [Sector -> InfoType]
    <3>1. [secCache[cur.sec] EXCEPT !.empty = cur.at + cur.len] \in InfoType
      BY DEF RamType, InfoType, CurType
    <3> QED BY <1>5, <3>1 DEF WriteBody, RamType
  <2>4. kvCache' \in [Key -> Addr \cup {NoAddr}]
    <3>1. <<cur.sec, cur.at>> \in Addr
      BY DEF Addr, CurType
    <3> QED BY <1>5, <3>1, CachePutType DEF WriteBody, RamType
  <2>5. RamType'
    BY <1>5, <2>3, <2>4 DEF WriteBody, RamType
  <2>6. FrameType' /\ Named'
    BY <1>5 DEF WriteBody, frame, FrameType, Named, PC
  <2> QED BY <2>2, <2>5, <2>6
<1>6. CASE Commit
  <2>1. ASSUME recs[cur.sec] # <<>>
        PROVE  [CurRec EXCEPT !.st = WriteStatus(@, KV_WRITE)] \in Rec
    <3>1. CurRec \in Rec /\ CurRec.st \in KvStatus
      BY <2>1, CurRecType DEF Rec
    <3>2. WriteStatus(CurRec.st, KV_WRITE) \in KvStatus
      BY <3>1, StatusTypes DEF WriteStatus
    <3> QED BY <3>1, <3>2 DEF Rec
  <2>2. FlashType'
    BY <1>6, <2>1, LastRecType DEF Commit
  <2>3. RamType'
    BY <1>6 DEF Commit, RamType, CurType
  <2>4. pc' \in {"delete", "postGc", "nextDef"}
    BY <1>6 DEF Commit
  <2>5. FrameType' /\ Named'
    BY <1>6, <2>4, NothingType DEF Commit, FrameType, Named, PC
  <2> QED BY <2>2, <2>3, <2>5
<1> QED BY <1>1, <1>2, <1>3, <1>4, <1>5, <1>6 DEF Write

LEMMA MoveKeepsTypes ==
    ASSUME TypeInv, MoveKv
    PROVE  TypeInv'
<1> USE DEF TypeInv, TypeOK
<1> old.rec \in Rec /\ old.rec.len \in Nat
  BY DEF FrameType, OldType, Rec
<1>1. CASE MvAlloc
  <2>1. FlashType' /\ RamType'
    BY <1>1, AllocCacheType DEF MvAlloc, flash, FlashType, RamType
  <2>2. Allocated(old.rec.len, old.rec.key, old.rec.val) \in CurType
    BY <1>1, AllocatedType DEF MvAlloc, Rec
  <2>3. FrameType' /\ Named'
    BY <1>1, <2>2 DEF MvAlloc, FrameType, Named, PC
  <2> QED BY <2>1, <2>3
<1>2. CASE MvFull
  <2>1. FlashType' /\ RamType'
    BY <1>2, AllocCacheType DEF MvFull, flash, FlashType, RamType, AsksGc
  <2>2. pc' \in {"gcScan", "recEnd"}
    BY <1>2 DEF MvFull
  <2>3. FrameType' /\ Named'
    BY <1>2, <2>2, NothingType DEF MvFull, FrameType, Named, PC
  <2> QED BY <2>1, <2>3
<1> QED BY <1>1, <1>2 DEF MoveKv

LEMMA GcKeepsTypes ==
    ASSUME TypeInv, Gc
    PROVE  TypeInv'
<1> USE DEF TypeInv, TypeOK
<1> gc \in GcType /\ gc.base \in Sector /\ gc.n \in Nat /\ gc.last \in Sector
  BY DEF FrameType, GcType
<1>1. Victim \in Sector
  BY AtType DEF Victim
<1>2. CASE GcBegin
  <2>1. FlashType' /\ secCache' \in [Sector -> InfoType]
    BY <1>2, FillCacheType DEF GcBegin, flash, FlashType, RamType
  <2>2. CASE Cardinality(EmptySecs) > GcThreshold
    <3>1. GcReturn /\ UNCHANGED <<oldest, inRec, lastDel, kvCache, scan, crashes>>
      BY <1>2, <2>2 DEF GcBegin
    <3> QED BY <2>1, <3>1, GcReturnType DEF RamType, FrameType
  <2>3. CASE ~(Cardinality(EmptySecs) > GcThreshold)
    <3> DEFINE l == IF EmptySecs = {} THEN 0 ELSE LastFrom(oldest, EmptySecs)
    <3>1. l \in Sector
      <4>1. EmptySecs \in SUBSET Sector /\ oldest \in Sector
        BY DEF EmptySecs, RamType
      <4> QED BY <4>1, NothingType, LastFromGreatest
    <3>2. gc' = [gc EXCEPT !.base = oldest, !.n = 0, !.last = l]
      BY <1>2, <2>3 DEF GcBegin
    <3> HIDE DEF l
    <3>3. gc' \in GcType
      BY <3>1, <3>2 DEF GcType, RamType
    <3>4. RamType' /\ FrameType' /\ Named'
      BY <1>2, <2>1, <2>3, <3>3 DEF GcBegin, RamType, FrameType, Named, PC
    <3> QED BY <2>1, <3>4
  <2> QED BY <2>2, <2>3
<1>3. CASE GcVisit
  <2> DEFINE s == FirstFrom(gc.base, GcVictims)
  <2>1. s \in Sector /\ Rank(gc.base, s) \in Nat
    <3>1. GcVictims \in SUBSET Sector /\ GcVictims # {}
      BY <1>3 DEF GcVisit, GcVictims
    <3>2. s \in Sector
      BY <3>1, FirstFromLeast
    <3> HIDE DEF s
    <3>3. Rank(gc.base, s) \in Sector
      BY <3>2, RankType
    <3> QED BY <3>2, <3>3 DEF Sector
  <2>2. /\ dirty' = [dirty EXCEPT ![s] = WriteStatus(dirty[s], DIRTY_GC)]
        /\ gc' = [gc EXCEPT !.n = Rank(gc.base, s), !.idx = 1]
    BY <1>3 DEF GcVisit
  <2> HIDE DEF s
  <2>3. WriteStatus(dirty[s], DIRTY_GC) \in Dirty
    <3>1. dirty[s] \in Dirty
      BY <2>1 DEF FlashType
    <3> QED BY <3>1, StatusTypes DEF WriteStatus
  <2>4. FlashType'
    <3>1. UNCHANGED <<magic, store, recs>>
      BY <1>3 DEF GcVisit
    <3> QED BY <2>2, <2>3, <3>1 DEF FlashType
  <2>5. gc' \in GcType
    BY <2>1, <2>2 DEF GcType
  <2>6. RamType'
    BY <1>3, FillCacheType DEF GcVisit, RamType
  <2>7. FrameType' /\ Named'
    BY <1>3, <2>5 DEF GcVisit, FrameType, Named, PC
  <2> QED BY <2>4, <2>6, <2>7
<1>4. CASE GcDone
  <2>1. FlashType' /\ secCache' \in [Sector -> InfoType]
    BY <1>4, FillCacheType DEF GcDone, flash, FlashType, RamType
  <2>2. GcReturn /\ UNCHANGED <<oldest, inRec, lastDel, kvCache, scan, crashes>>
    BY <1>4 DEF GcDone
  <2> QED BY <2>1, <2>2, GcReturnType DEF RamType, FrameType
<1>5. CASE GcMove
  <2>1. Min(ToMove) \in ToMove /\ ToMove \in SUBSET Nat
    <3>1. ToMove \in SUBSET Nat /\ ToMove # {}
      BY <1>1, <1>5, RecTyped DEF GcMove, ToMove
    <3> QED BY <3>1, MinIn
  <2> DEFINE i == Min(ToMove)
  <2>2. i \in Nat /\ recs[Victim][i] \in Rec
    BY <1>1, <2>1, RecTyped DEF ToMove
  <2>3. Move("gc", Victim, i) /\ gc' = [gc EXCEPT !.idx = i + 1]
    BY <1>5 DEF GcMove
  <2> HIDE DEF i
  <2>4. old' \in OldType /\ mv' = "gc" /\ pc' \in {"preDel", "mvAlloc"}
    BY <1>1, <2>2, <2>3 DEF Move, OldType
  <2>5. gc' \in GcType
    BY <2>2, <2>3 DEF GcType
  <2>6. FlashType' /\ RamType' /\ FrameType' /\ Named'
    BY <1>5, <2>4, <2>5
    DEF GcMove, flash, ram, FlashType, RamType, FrameType, Named, PC
  <2> QED BY <2>6
<1>6. CASE GcErase
  <2>1. FlashType'
    BY <1>6, EraseSectorType DEF GcErase
  <2>2. RamType' /\ FrameType' /\ Named'
    BY <1>6 DEF GcErase, ram, frame, RamType, FrameType, Named, PC
  <2> QED BY <2>1, <2>2
<1>7. CASE GcFormat
  <2>1. FlashType'
    BY <1>7, WriteSectorHdrType DEF GcFormat
  <2>2. NextSector(Victim) \in Sector
    BY <1>1, SecNumAssumption DEF NextSector, Sector
  <2>3. RamType'
    BY <1>7, <2>2, UncacheType DEF GcFormat, RamType
  <2>4. FrameType' /\ Named'
    BY <1>7 DEF GcFormat, frame, FrameType, Named, PC
  <2> QED BY <2>1, <2>3, <2>4
<1>8. CASE GcNext
  <2>1. FlashType' /\ secCache' \in [Sector -> InfoType]
    <3>1. FillCache(secCache, oldest, {gc.last}) \in [Sector -> InfoType]
      BY FillCacheType DEF RamType
    <3> QED BY <1>8, <3>1, TraverseType DEF GcNext, flash, FlashType
  <2>2. CASE Remain(gc.last) > gc.free
    <3>1. GcReturn /\ UNCHANGED <<oldest, inRec, lastDel, kvCache, scan, crashes>>
      BY <1>8, <2>2 DEF GcNext
    <3> QED BY <2>1, <3>1, GcReturnType DEF RamType, FrameType
  <2>3. CASE ~(Remain(gc.last) > gc.free)
    <3>1. gc' = [gc EXCEPT !.n = gc.n + 1, !.last = Victim]
      BY <1>8, <2>3 DEF GcNext
    <3>2. gc' \in GcType
      <4>1. gc.n + 1 \in Nat
        OBVIOUS
      <4> QED BY <1>1, <3>1, <4>1 DEF GcType
    <3>3. RamType' /\ FrameType' /\ Named'
      BY <1>8, <2>1, <2>3, <3>2 DEF GcNext, RamType, FrameType, Named, PC
    <3> QED BY <2>1, <3>3
  <2> QED BY <2>2, <2>3
<1> QED BY <1>2, <1>3, <1>4, <1>5, <1>6, <1>7, <1>8 DEF Gc

LEMMA CallKeepsTypes ==
    ASSUME TypeInv, Call
    PROVE  TypeInv'
<1> USE DEF TypeInv, TypeOK
<1>1. ASSUME NEW k \in Key, NEW v \in Val, Set(k, v) PROVE TypeInv'
  <2>1. op' \in OpType /\ op'.key \in Key
    BY <1>1, NothingType DEF Set, OpType
  <2>2. FlashType' /\ RamType' /\ FrameType' /\ Named'
    BY <1>1, <2>1 DEF Set, flash, ram, FlashType, RamType, FrameType, Named, PC
  <2> QED BY <2>2
<1>2. ASSUME NEW k \in Key, Del(k) PROVE TypeInv'
  <2>1. op' \in OpType /\ op'.key \in Key /\ op'.kind = "del"
    BY <1>2, NothingType DEF Del, OpType
  <2>2. FlashType' /\ RamType' /\ FrameType' /\ Named'
    BY <1>2, <2>1 DEF Del, flash, ram, FlashType, RamType, FrameType, Named, PC
  <2> QED BY <2>2
<1>3. ASSUME NEW k \in Key, Get(k) PROVE TypeInv'
  <2>1. RamType'
    BY <1>3, FindCachesType DEF Get, RamType
  <2>2. FlashType' /\ FrameType' /\ Named'
    BY <1>3 DEF Get, flash, frame, FlashType, FrameType, Named
  <2> QED BY <2>1, <2>2
<1>4. CASE SetDefault
  <2>1. op' \in OpType /\ op'.kind = "reset"
    BY <1>4, NothingType DEF SetDefault, OpType
  <2>2. FlashType' /\ RamType' /\ FrameType' /\ Named'
    BY <1>4, <2>1, NothingType
    DEF SetDefault, flash, FlashType, RamType, FrameType, Named, PC
  <2> QED BY <2>2
<1>5. CASE Deinit
  BY <1>5 DEF Deinit, flash, ram, FlashType, RamType, FrameType, Named, PC
<1>6. CASE FindOldest
  BY <1>6, LoadKeepsTypes
<1> QED BY <1>1, <1>2, <1>3, <1>4, <1>5, <1>6 DEF Call

LEMMA TypeStep == TypeInv /\ [Next]_vars => TypeInv'
<1> SUFFICES ASSUME TypeInv, [Next]_vars PROVE TypeInv'
  OBVIOUS
<1>1. CASE Step
  <2>1. CASE PostGc
    <3>1. FlashType' /\ RamType' /\ UNCHANGED <<scan, crashes>>
      BY <2>1 DEF PostGc, flash, ram, FlashType, RamType, TypeInv, TypeOK
    <3>2. CASE op.kind = "set" /\ gcReq
      <4>1. gc' \in GcType
        BY <2>1, <3>2, KvLenType, NothingType DEF PostGc, StartGc, GcType, TypeInv, TypeOK
      <4> QED BY <2>1, <3>1, <3>2, <4>1
          DEF PostGc, StartGc, FrameType, Named, PC, TypeInv, TypeOK
    <3>3. CASE ~(op.kind = "set" /\ gcReq)
      <4>1. EndOp(TRUE)
        BY <2>1, <3>3 DEF PostGc
      <4>2. FrameType' /\ Named'
        BY <3>1, <4>1, EndOpType DEF FrameType, TypeInv, TypeOK
      <4> QED BY <3>1, <4>2 DEF TypeInv, TypeOK
    <3> QED BY <3>2, <3>3
  <2> QED BY <1>1, <2>1, LoadKeepsTypes, ResetKeepsTypes, NewKeepsTypes, DeleteKeepsTypes,
             WriteKeepsTypes, MoveKeepsTypes, GcKeepsTypes DEF Step
<1>2. CASE Call
  BY <1>2, CallKeepsTypes
<1>3. CASE Crash
  <2>1. FlashType'
    BY <1>3 DEF Crash, flash, FlashType, TypeInv, TypeOK
  <2>2. RamType'
    BY <1>3, NothingType DEF Crash, RamType
  <2>3. crashes' \in 0 .. MaxCrash
    BY <1>3, OptionAssumption DEF Crash, FrameType, TypeInv, TypeOK
  <2>4. FrameType' /\ Named'
    BY <1>3, <2>3, NothingType DEF Crash, FrameType, Named, NoOp, PC
  <2> QED BY <2>1, <2>2, <2>4 DEF TypeInv, TypeOK
<1>4. CASE UNCHANGED vars
  BY <1>4 DEF vars, flash, ram, frame, TypeInv, TypeOK, FlashType, RamType, FrameType, Named
<1> QED BY <1>1, <1>2, <1>3, <1>4 DEF Next

\* TypeOK in every reachable state: whatever is called and whenever the power
\* fails, addresses, indices and statuses stay in their ranges.
THEOREM TypeCorrect == Spec => []TypeOK
<1>1. Spec => []TypeInv
  BY TypeInit, TypeStep, PTL DEF Spec
<1>2. TypeInv => TypeOK
  BY DEF TypeInv
<1> QED BY <1>1, <1>2, PTL

-----------------------------------------------------------------------------
(* No sector becomes FULL *)

\* NeverFull and what it rests on: no cached sector says FULL either, and the
\* record being written leaves more than the threshold behind it.
NoFullCached(c) == \A s \in Sector : c[s].store # STORE_FULL
RoomBehind ==
    /\ cur.store # STORE_FULL
    /\ cur.store = STORE_USING => cur.remain > cur.len + Threshold
FullInv == NeverFull /\ NoFullCached(secCache) /\ RoomBehind

LEMMA FillCacheNotFull ==
    ASSUME NeverFull, NEW c, NoFullCached(c), NEW base, NEW S
    PROVE  NoFullCached(FillCache(c, base, S))
BY DEF NeverFull, NoFullCached, FillCache, FlashInfo

LEMMA TraverseNotFull ==
    ASSUME NeverFull, NEW c, NoFullCached(c), NEW S
    PROVE  NoFullCached(Traverse(c, S))
BY DEF NeverFull, NoFullCached, Traverse, FlashInfo

LEMMA AllocCacheNotFull ==
    ASSUME FullInv, NEW len
    PROVE  NoFullCached(AllocCache(len))
<1>1. NoFullCached(FillCache(secCache, oldest, Sector))
  BY FillCacheNotFull DEF FullInv
<1> QED BY <1>1, TraverseNotFull DEF AllocCache, FullInv

LEMMA UncacheNotFull ==
    ASSUME NEW c, NoFullCached(c), NEW s
    PROVE  NoFullCached(Uncache(c, s))
BY DEF NoFullCached, Uncache, NoInfo, STORE_UNUSED, STORE_FULL

LEMMA FindCachesNotFull ==
    ASSUME FullInv, NEW k, FindCaches(k)
    PROVE  NoFullCached(secCache')
BY FillCacheNotFull DEF FindCaches, FullInv

LEMMA AllocatedRoom ==
    ASSUME TypeInv, FullInv, NEW len \in Nat, CanAlloc(len),
           NEW k \in Key \cup {NoKey}, NEW v \in Val \cup {NoVal},
           cur' = Allocated(len, k, v)
    PROVE  RoomBehind'
<1>1. cur'.remain > len + Threshold /\ cur'.len = len
  BY AllocatedType DEF Allocated, TypeInv, TypeOK
<1>2. cur'.store # STORE_FULL
  <2> DEFINE s == AllocSec(len)
  <2>1. s \in Sector
    BY AllocFits DEF TypeInv, TypeOK
  <2>2. cur'.store = HdrInfo(s).store
    BY DEF Allocated
  <2> HIDE DEF s
  <2>3. HdrInfo(s).store # STORE_FULL
    BY <2>1 DEF HdrInfo, FlashInfo, NoInfo, FullInv, NeverFull, NoFullCached,
                STORE_UNUSED, STORE_FULL
  <2> QED BY <2>2, <2>3
<1> QED BY <1>1, <1>2 DEF RoomBehind

LEMMA NoCurRoom == cur' = NoCur => RoomBehind'
BY DEF NoCur, RoomBehind, STORE_UNUSED, STORE_USING, STORE_FULL

LEMMA EndOpRoom == ASSUME NEW ok, EndOp(ok) PROVE RoomBehind'
BY NoCurRoom DEF EndOp

LEMMA GcReturnRoom == ASSUME RoomBehind, GcReturn PROVE RoomBehind'
<1>1. CASE gc.then = "end"
  BY <1>1, EndOpRoom DEF GcReturn
<1>2. CASE gc.then # "end"
  BY <1>2 DEF GcReturn, RoomBehind
<1> QED BY <1>1, <1>2

\* update_sec_status: with the room alloc_kv left, the status is not FULL.
LEMMA StatusNotFull ==
    ASSUME TypeInv, FullInv
    PROVE  SectorStatus # STORE_FULL
<1>1. cur.remain \in Int /\ cur.len \in Nat /\ Threshold \in Nat
  BY LenAssumption DEF TypeInv, TypeOK, FrameType, CurType
<1> QED BY <1>1 DEF FullInv, RoomBehind, SectorStatus, STORE_EMPTY, STORE_USING, STORE_FULL

LEMMA FullInit == Init => FullInv
BY DEF Init, FullInv, NeverFull, NoFullCached, RoomBehind, NoCur, NoInfo,
       STORE_UNUSED, STORE_USING, STORE_FULL

LEMMA FullStep == TypeInv /\ FullInv /\ [Next]_vars => FullInv'
<1> SUFFICES ASSUME TypeInv, FullInv, [Next]_vars PROVE FullInv'
  OBVIOUS
<1> NeverFull /\ NoFullCached(secCache) /\ RoomBehind
  BY DEF FullInv
\* The steps that write sector headers ...
<1>1. ASSUME NEW s, EraseSector(s) \/ WriteSectorHdr(s) PROVE NeverFull'
  <2>1. store \in [Sector -> Store]
    BY DEF TypeInv, TypeOK, FlashType
  <2> QED BY <1>1, <2>1
          DEF EraseSector, WriteSectorHdr, NeverFull, STORE_UNUSED, STORE_EMPTY, STORE_FULL
\* ... the boot ...
<1>2. CASE FindOldest
  BY <1>2 DEF FindOldest, flash, FullInv, NeverFull, NoFullCached, RoomBehind, NoInfo,
              STORE_UNUSED, STORE_FULL
<1>3. CASE CheckHdr
  <2> DEFINE s == FirstFrom(scan.base, BadHeaders)
  <2>1. NeverFull'
    <3>1. UNCHANGED flash \/ WriteSectorHdr(s)
      BY <1>3 DEF CheckHdr
    <3> QED BY <1>1, <3>1 DEF flash, NeverFull
  <2>2. NoFullCached(secCache')
    BY <1>3, FillCacheNotFull DEF CheckHdr
  <2>3. RoomBehind'
    BY <1>3 DEF CheckHdr, RoomBehind
  <2> QED BY <2>1, <2>2, <2>3 DEF FullInv
<1>4. CASE HdrDone
  <2>1. NeverFull' /\ RoomBehind'
    BY <1>4 DEF HdrDone, flash, NeverFull, RoomBehind
  <2>2. NoFullCached(secCache')
    BY <1>4, FillCacheNotFull DEF HdrDone
  <2> QED BY <2>1, <2>2 DEF FullInv
<1>5. CASE ResumeGc
  <2>1. NeverFull' /\ RoomBehind'
    BY <1>5 DEF ResumeGc, flash, NeverFull, RoomBehind
  <2>2. NoFullCached(secCache')
    BY <1>5, FillCacheNotFull DEF ResumeGc
  <2> QED BY <2>1, <2>2 DEF FullInv
<1>6. CASE ResumeGcDone
  <2>1. NeverFull' /\ RoomBehind'
    BY <1>6 DEF ResumeGcDone, flash, NeverFull, RoomBehind
  <2>2. NoFullCached(secCache')
    BY <1>6, FillCacheNotFull DEF ResumeGcDone
  <2> QED BY <2>1, <2>2 DEF FullInv
<1>7. CASE RecoverKv
  <2>1. NeverFull' /\ RoomBehind'
    BY <1>7 DEF RecoverKv, SetKvStatus, flash, NeverFull, RoomBehind
  <2>2. NoFullCached(secCache')
    BY <1>7, FillCacheNotFull DEF RecoverKv
  <2> QED BY <2>1, <2>2 DEF FullInv
<1>8. CASE RecoverKvDone
  <2>1. NeverFull' /\ RoomBehind'
    BY <1>8 DEF RecoverKvDone, flash, frame, NeverFull, RoomBehind
  <2>2. NoFullCached(secCache')
    BY <1>8, FillCacheNotFull DEF RecoverKvDone
  <2> QED BY <2>1, <2>2 DEF FullInv
<1>9. CASE LoadEnd
  BY <1>9 DEF LoadEnd, flash, ram, frame, FullInv, NeverFull, NoFullCached, RoomBehind
<1>10. CASE LoadRetry
  BY <1>10 DEF LoadRetry, flash, ram, frame, FullInv, NeverFull, NoFullCached, RoomBehind
\* ... the defaults ...
<1>11. CASE FmtErase
  <2>1. NeverFull'
    BY <1>1, <1>11 DEF FmtErase
  <2> QED BY <1>11, <2>1 DEF FmtErase, ram, frame, FullInv, NoFullCached, RoomBehind
<1>12. CASE FmtHdr
  <2>1. NeverFull'
    BY <1>1, <1>12 DEF FmtHdr
  <2>2. NoFullCached(secCache')
    BY <1>12, UncacheNotFull DEF FmtHdr
  <2> QED BY <1>12, <2>1, <2>2 DEF FmtHdr, FullInv, RoomBehind
<1>13. CASE NextDefault
  BY <1>13 DEF NextDefault, flash, ram, frame, FullInv, NeverFull, NoFullCached, RoomBehind
<1>14. CASE DefaultsDone
  <2>1. RoomBehind'
    BY <1>14, EndOpRoom DEF DefaultsDone, RoomBehind
  <2> QED BY <1>14, <2>1 DEF DefaultsDone, flash, FullInv, NeverFull, NoFullCached
\* ... the allocations ...
<1>15. CASE NewKv
  <2>1. op.key \in Key \cup {NoKey} /\ op.val \in Val \cup {NoVal} /\ KvLen[op.val] \in Nat
    BY KvLenType DEF TypeInv, TypeOK, FrameType, OpType
  <2>2. RoomBehind'
    BY <1>15, <2>1, AllocatedRoom DEF NewKv
  <2> QED BY <1>15, <2>2, AllocCacheNotFull DEF NewKv, flash, FullInv, NeverFull
<1>16. CASE NewKvGc
  BY <1>16, AllocCacheNotFull DEF NewKvGc, StartGc, flash, FullInv, NeverFull, RoomBehind
<1>17. CASE NewKvFull
  <2>1. RoomBehind'
    BY <1>17, EndOpRoom DEF NewKvFull, RoomBehind
  <2> QED BY <1>17, <2>1, AllocCacheNotFull DEF NewKvFull, flash, FullInv, NeverFull
<1>18. CASE MvAlloc
  <2>1. old.rec.len \in Nat /\ old.rec.key \in Key \cup {NoKey} /\ old.rec.val \in Val \cup {NoVal}
    BY DEF TypeInv, TypeOK, FrameType, OldType, Rec
  <2>2. RoomBehind'
    <3>1. CASE UNCHANGED cur
      BY <3>1 DEF RoomBehind
    <3>2. CASE ~UNCHANGED cur
      <4>1. cur' = Allocated(old.rec.len, old.rec.key, old.rec.val) /\ CanAlloc(old.rec.len)
        BY <1>18, <3>2 DEF MvAlloc
      <4> QED BY <2>1, <4>1, AllocatedRoom
    <3> QED BY <3>1, <3>2
  <2> QED BY <1>18, <2>2, AllocCacheNotFull DEF MvAlloc, flash, FullInv, NeverFull
<1>19. CASE MvFull
  BY <1>19, AllocCacheNotFull DEF MvFull, flash, FullInv, NeverFull, RoomBehind
\* ... find_kv and del_kv ...
<1>20. CASE FindOld
  <2>1. RoomBehind'
    BY <1>20, EndOpRoom DEF FindOld, RoomBehind
  <2> QED BY <1>20, <2>1, FindCachesNotFull DEF FindOld, flash, FullInv, NeverFull
<1>21. CASE PreDelete
  BY <1>21 DEF PreDelete, SetKvStatus, frame, FullInv, NeverFull, NoFullCached, RoomBehind
<1>22. CASE Delete
  BY <1>22 DEF Delete, SetKvStatus, frame, FullInv, NeverFull, NoFullCached, RoomBehind
<1>23. CASE MarkDirty
  <2>1. NoFullCached(secCache')
    BY <1>23 DEF MarkDirty, NoFullCached, TypeInv, TypeOK, RamType, InfoType
  <2> QED BY <1>23, <2>1 DEF MarkDirty, FullInv, NeverFull, RoomBehind
\* ... the record, where it matters ...
<1>24. CASE UpdateSecStatus
  <2>1. SectorStatus # STORE_FULL
    BY StatusNotFull
  <2>2. NeverFull'
    BY <1>24, <2>1 DEF UpdateSecStatus, WriteStatus, NeverFull
  <2>3. NoFullCached(secCache')
    BY <1>24, <2>1 DEF UpdateSecStatus, NoFullCached, TypeInv, TypeOK, RamType, InfoType
  <2>4. RoomBehind'
    BY <1>24 DEF UpdateSecStatus, RoomBehind, TypeInv, TypeOK, FrameType, CurType
  <2> QED BY <2>2, <2>3, <2>4 DEF FullInv
<1>25. CASE PreWrite
  BY <1>25 DEF PreWrite, flash, ram, frame, FullInv, NeverFull, NoFullCached, RoomBehind
<1>26. CASE WriteMagic
  BY <1>26 DEF WriteMagic, flash, ram, frame, FullInv, NeverFull, NoFullCached, RoomBehind
<1>27. CASE WriteHdr
  BY <1>27 DEF WriteHdr, flash, ram, frame, FullInv, NeverFull, NoFullCached, RoomBehind
<1>28. CASE WriteBody
  <2>1. NoFullCached(secCache')
    BY <1>28 DEF WriteBody, NoFullCached, TypeInv, TypeOK, RamType, InfoType
  <2> QED BY <1>28, <2>1 DEF WriteBody, frame, FullInv, NeverFull, RoomBehind
<1>29. CASE Commit
  <2>1. RoomBehind'
    BY <1>29, NoCurRoom DEF Commit
  <2> QED BY <1>29, <2>1 DEF Commit, FullInv, NeverFull, NoFullCached
<1>30. CASE PostGc
  <2>1. RoomBehind'
    BY <1>30, EndOpRoom DEF PostGc, RoomBehind
  <2> QED BY <1>30, <2>1 DEF PostGc, flash, ram, FullInv, NeverFull, NoFullCached
\* ... the collection ...
<1>31. CASE GcBegin
  <2>1. RoomBehind'
    BY <1>31, GcReturnRoom DEF GcBegin, RoomBehind
  <2>2. NoFullCached(secCache')
    BY <1>31, FillCacheNotFull DEF GcBegin
  <2> QED BY <1>31, <2>1, <2>2 DEF GcBegin, flash, FullInv, NeverFull
<1>32. CASE GcDone
  <2>1. RoomBehind'
    BY <1>32, GcReturnRoom DEF GcDone, RoomBehind
  <2>2. NoFullCached(secCache')
    BY <1>32, FillCacheNotFull DEF GcDone
  <2> QED BY <1>32, <2>1, <2>2 DEF GcDone, flash, FullInv, NeverFull
<1>33. CASE GcVisit
  <2>1. NeverFull' /\ RoomBehind'
    BY <1>33 DEF GcVisit, flash, NeverFull, RoomBehind
  <2>2. NoFullCached(secCache')
    BY <1>33, FillCacheNotFull DEF GcVisit
  <2> QED BY <2>1, <2>2 DEF FullInv
<1>34. CASE GcMove
  BY <1>34 DEF GcMove, flash, ram, FullInv, NeverFull, NoFullCached, RoomBehind
<1>35. CASE GcErase
  <2>1. NeverFull'
    BY <1>1, <1>35 DEF GcErase
  <2> QED BY <1>35, <2>1 DEF GcErase, ram, frame, FullInv, NoFullCached, RoomBehind
<1>36. CASE GcFormat
  <2>1. NeverFull'
    BY <1>1, <1>36 DEF GcFormat
  <2>2. NoFullCached(secCache')
    BY <1>36, UncacheNotFull DEF GcFormat
  <2> QED BY <1>36, <2>1, <2>2 DEF GcFormat, frame, FullInv, RoomBehind
<1>37. CASE GcNext
  <2>1. RoomBehind'
    BY <1>37, GcReturnRoom DEF GcNext, RoomBehind
  <2>2. NoFullCached(secCache')
    <3>1. NoFullCached(FillCache(secCache, oldest, {gc.last}))
      BY FillCacheNotFull
    <3> QED BY <1>37, <3>1, TraverseNotFull DEF GcNext
  <2> QED BY <1>37, <2>1, <2>2 DEF GcNext, flash, FullInv, NeverFull
\* ... and the calls.
<1>38. CASE Call
  <2>1. ASSUME NEW k \in Key, Get(k) PROVE FullInv'
    BY <2>1, FindCachesNotFull DEF Get, flash, frame, FullInv, NeverFull, RoomBehind
  <2>2. ASSUME NEW k \in Key, NEW v \in Val, Set(k, v) \/ Del(k) PROVE FullInv'
    BY <2>2 DEF Set, Del, flash, ram, FullInv, NeverFull, NoFullCached, RoomBehind
  <2>3. ASSUME NEW k \in Key, Del(k) PROVE FullInv'
    BY <2>3 DEF Del, flash, ram, FullInv, NeverFull, NoFullCached, RoomBehind
  <2>4. CASE SetDefault \/ Deinit
    BY <2>4 DEF SetDefault, Deinit, flash, ram, FullInv, NeverFull, NoFullCached, RoomBehind
  <2> QED BY <1>2, <1>38, <2>1, <2>2, <2>3, <2>4 DEF Call
<1>39. CASE Crash
  <2>1. RoomBehind'
    BY <1>39, NoCurRoom DEF Crash
  <2> QED BY <1>39, <2>1 DEF Crash, flash, FullInv, NeverFull, NoFullCached, NoInfo,
                               STORE_UNUSED, STORE_FULL
<1>40. CASE UNCHANGED vars
  BY <1>40 DEF vars, flash, ram, frame, FullInv, NeverFull, NoFullCached, RoomBehind
<1> QED
  <2>1. CASE Step
    BY <2>1, <1>3, <1>4, <1>5, <1>6, <1>7, <1>8, <1>9, <1>10, <1>11, <1>12, <1>13, <1>14, <1>15, <1>16, <1>17, <1>18, <1>19, <1>20, <1>21, <1>22, <1>23, <1>24, <1>25, <1>26, <1>27, <1>28, <1>29, <1>30, <1>31, <1>32, <1>33, <1>34, <1>35, <1>36, <1>37
    DEF Step, Load, Reset, New, DeleteKv, Write, MoveKv, Gc
  <2> QED BY <2>1, <1>38, <1>39, <1>40 DEF Next

\* NeverFull in every reachable state: update_sec_status never takes its FULL
\* branch, so gc_request is never set by create_kv_blob.
THEOREM NoSectorFull == Spec => []NeverFull
<1>1. Spec => [](TypeInv /\ FullInv)
  BY TypeInit, TypeStep, FullInit, FullStep, PTL DEF Spec
<1>2. FullInv => NeverFull
  BY DEF FullInv
<1> QED BY <1>1, <1>2, PTL
=============================================================================
