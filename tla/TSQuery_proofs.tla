---------------------------- MODULE TSQuery_proofs ----------------------------
(***************************************************************************)
(* What the iterators report, as long as the power stays: every log once,  *)
(* in the order of the timestamps; and every log of a range of timestamps, *)
(* as long as no sector is filled to the last unit.  For all values of the *)
(* constants.                                                              *)
(***************************************************************************)
EXTENDS TSQuery, TSDB_proofs

-----------------------------------------------------------------------------
(* Reports in order *)

Entry == [st : TslStatus, time : Int]

\* q lists the logs with the timestamps S, in the order L.
Lists(q, S, L) ==
    /\ q \in Seq(Entry)
    /\ \A x : x \in S <=> \E i \in DOMAIN q : q[i].time = x
    /\ \A j \in DOMAIN q : \A i \in 1 .. j - 1 : <<q[i].time, q[j].time>> \in L

LEMMA ListsNone == ASSUME NEW L PROVE Lists(<<>>, {}, L)
BY DEF Lists

LEMMA ListsJoin ==
    ASSUME NEW L, NEW S, NEW T, NEW q, NEW r, Lists(q, S, L), Lists(r, T, L),
           \A x \in S, y \in T : <<x, y>> \in L
    PROVE  Lists(q \o r, S \cup T, L)
<1>1. q \in Seq(Entry) /\ r \in Seq(Entry)
  BY DEF Lists
<1> DEFINE w == q \o r
           n == Len(q)
<1>2. /\ w \in Seq(Entry) /\ n \in Nat /\ Len(r) \in Nat /\ DOMAIN q = 1 .. n
      /\ DOMAIN r = 1 .. Len(r) /\ DOMAIN w = 1 .. n + Len(r)
      /\ \A i \in 1 .. n : w[i] = q[i]
      /\ \A i \in 1 .. n + Len(r) : i > n => w[i] = r[i - n]
  BY <1>1
<1>3. \A i \in DOMAIN r : w[n + i] = r[i] /\ n + i \in DOMAIN w
  BY <1>2
<1> HIDE DEF w, n
<1>4. ASSUME NEW x PROVE x \in S \cup T <=> \E i \in DOMAIN w : w[i].time = x
  <2>1. ASSUME NEW i \in DOMAIN q PROVE i \in DOMAIN w /\ w[i] = q[i]
    BY <1>2
  <2>2. ASSUME NEW i \in DOMAIN w PROVE \/ i \in DOMAIN q /\ w[i] = q[i]
                                        \/ i - n \in DOMAIN r /\ w[i] = r[i - n]
    BY <1>2
  <2> QED BY <1>3, <2>1, <2>2 DEF Lists
<1>5. ASSUME NEW j \in DOMAIN w, NEW i \in 1 .. j - 1 PROVE <<w[i].time, w[j].time>> \in L
  <2>1. CASE j <= n
    <3>1. j \in DOMAIN q /\ w[i] = q[i] /\ w[j] = q[j]
      BY <1>2, <2>1
    <3> QED BY <3>1 DEF Lists
  <2>2. CASE j > n /\ i <= n
    <3>1. i \in DOMAIN q /\ j - n \in DOMAIN r /\ w[i] = q[i] /\ w[j] = r[j - n]
      BY <1>2, <2>2
    <3>2. q[i].time \in S /\ r[j - n].time \in T
      BY <3>1 DEF Lists
    <3> QED BY <3>1, <3>2
  <2>3. CASE j > n /\ i > n
    <3>1. j - n \in DOMAIN r /\ i - n \in 1 .. (j - n) - 1 /\ w[i] = r[i - n] /\ w[j] = r[j - n]
      BY <1>2, <2>3
    <3> QED BY <3>1 DEF Lists
  <2> QED BY <1>2, <2>1, <2>2, <2>3
<1> QED BY <1>2, <1>4, <1>5 DEF Lists, w

-----------------------------------------------------------------------------
(* FlattenSeq *)

\* f joins the first elements of w.
JoinsOf(w, f) == f = [i \in 1 .. Len(w) |-> IF i = 1 THEN w[i] ELSE f[i - 1] \o w[i]]

\* The first elements can be joined, any number of them.
LEMMA JoinsTo ==
    ASSUME NEW w, Len(w) \in Nat, NEW k \in 0 .. Len(w)
    PROVE  \E f : f = [i \in 1 .. k |-> IF i = 1 THEN w[i] ELSE f[i - 1] \o w[i]]
<1> DEFINE Joins(j, f) == f = [i \in 1 .. j |-> IF i = 1 THEN w[i] ELSE f[i - 1] \o w[i]]
           Bad == {j \in 0 .. Len(w) : ~\E f : Joins(j, f)}
<1>1. SUFFICES ASSUME Bad # {} PROVE FALSE
  <2>1. k \notin Bad
    BY <1>1
  <2> QED BY <2>1
<1>2. PICK m \in Bad : \A j \in Bad : m <= j
  <2>1. \A j \in 0 .. Len(w) : j \in Nat
    OBVIOUS
  <2>2. Bad \in SUBSET Nat
    BY <2>1, Zenon
  <2> QED BY <1>1, <2>2, LeastNat
<1>3. m # 0
  <2>1. Joins(0, [i \in 1 .. 0 |-> 0])
    <3>1. 1 .. 0 = {}
      OBVIOUS
    <3> QED BY <3>1
  <2> QED BY <1>2, <2>1
<1>4. m - 1 \in 0 .. Len(w) /\ ~(m <= m - 1) /\ m \in Nat
  BY <1>3
<1>5. PICK f : Joins(m - 1, f)
  BY <1>2, <1>4
<1> DEFINE g == [i \in 1 .. m |-> IF i = m THEN (IF m = 1 THEN w[m] ELSE f[m - 1] \o w[m]) ELSE f[i]]
<1>6. \A i \in 1 .. m - 1 : f[i] = IF i = 1 THEN w[i] ELSE f[i - 1] \o w[i]
  BY <1>5
<1>7. ASSUME NEW i \in 1 .. m PROVE g[i] = IF i = 1 THEN w[i] ELSE g[i - 1] \o w[i]
  <2>1. CASE i = m
    <3>1. m # 1 => m - 1 \in 1 .. m /\ m - 1 # m
      BY <1>4
    <3> QED BY <1>4, <2>1, <3>1
  <2>2. CASE i # m
    <3>1. i \in 1 .. m - 1
      BY <1>4, <2>2
    <3>2. i # 1 => i - 1 \in 1 .. m /\ i - 1 # m
      BY <1>4, <3>1
    <3> QED BY <1>6, <2>2, <3>1, <3>2
  <2> QED BY <2>1, <2>2
<1>8. Joins(m, g)
  BY <1>7
<1> QED BY <1>2, <1>8

\* Lists that follow each other in the order L, joined.
LEMMA FlattenLists ==
    ASSUME NEW L, NEW N \in Nat, NEW w, NEW T, w = [k \in 1 .. N |-> w[k]],
           \A k \in 1 .. N : Lists(w[k], T[k], L),
           \A k \in 1 .. N : \A j \in 1 .. k - 1 : \A x \in T[j], y \in T[k] : <<x, y>> \in L
    PROVE  Lists(FlattenSeq(w), UNION {T[k] : k \in 1 .. N}, L)
<1>0. Len(w) = N
  <2>1. w \in [1 .. N -> {w[k] : k \in 1 .. N}]
    OBVIOUS
  <2> QED BY <2>1
<1>1. CASE N = 0
  <2>1. FlattenSeq(w) = <<>> /\ UNION {T[k] : k \in 1 .. N} = {}
    BY <1>0, <1>1 DEF FlattenSeq
  <2> QED BY <2>1, ListsNone
<1>2. CASE N # 0
  <2> DEFINE f == CHOOSE f : JoinsOf(w, f)
  <2>1. FlattenSeq(w) = f[N]
    BY <1>0, <1>2 DEF FlattenSeq, JoinsOf
  <2>2. JoinsOf(w, f)
    <3>1. N \in 0 .. Len(w)
      BY <1>0
    <3>2. \E g : g = [i \in 1 .. N |-> IF i = 1 THEN w[i] ELSE g[i - 1] \o w[i]]
      BY <1>0, <3>1, JoinsTo
    <3>3. \E g : JoinsOf(w, g)
      BY <1>0, <3>2 DEF JoinsOf
    <3> QED BY <3>3
  <2> HIDE DEF f
  <2>3. \A i \in 1 .. N : f[i] = IF i = 1 THEN w[i] ELSE f[i - 1] \o w[i]
    BY <1>0, <2>2 DEF JoinsOf
  <2> DEFINE U(k) == UNION {T[j] : j \in 1 .. k}
             Bad == {k \in 1 .. N : ~Lists(f[k], U(k), L)}
  <2>4. SUFFICES ASSUME Bad # {} PROVE FALSE
    <3>1. N \in 1 .. N
      BY <1>2
    <3>2. Lists(f[N], U(N), L)
      BY <2>4, <3>1
    <3> QED BY <2>1, <3>2
  <2>5. PICK m \in Bad : \A j \in Bad : m <= j
    <3>1. Bad \in SUBSET Nat
      OBVIOUS
    <3> QED BY <2>4, <3>1, LeastNat
  <2>6. m # 1
    <3>1. f[1] = w[1] /\ 1 \in 1 .. N
      BY <1>2, <2>3
    <3>2. U(1) = T[1]
      OBVIOUS
    <3> QED BY <2>5, <3>1, <3>2
  <2>7. m - 1 \in 1 .. N /\ ~(m <= m - 1) /\ m \in 1 .. N
    BY <2>6
  <2>8. Lists(f[m - 1], U(m - 1), L) /\ Lists(w[m], T[m], L)
    BY <2>5, <2>7
  <2>9. \A x \in U(m - 1), y \in T[m] : <<x, y>> \in L
    BY <2>7
  <2>10. Lists(f[m - 1] \o w[m], U(m - 1) \cup T[m], L)
    <3> HIDE DEF U
    <3> QED BY <2>8, <2>9, ListsJoin
  <2>11. U(m) = U(m - 1) \cup T[m]
    BY <2>7
  <2>12. f[m] = f[m - 1] \o w[m]
    BY <2>3, <2>6, <2>7
  <2> QED BY <2>5, <2>10, <2>11, <2>12
<1> QED BY <1>1, <1>2

-----------------------------------------------------------------------------
(* The sectors between two calls *)

\* Which sectors hold logs, and where the iterators take their end to be.
LEMMA IdleSector ==
    ASSUME SteadyInv, Idle, NEW s \in Sector
    PROVE  /\ magic[s] /\ Len(logs[s]) \in Nat /\ DOMAIN logs[s] = 1 .. Len(logs[s])
           /\ HasTsl(s) => Len(logs[s]) > 0 /\ EndSlot(s) = Len(logs[s]) - 1
           /\ ~HasTsl(s) => store[s] = EMPTY /\ Len(logs[s]) = 0
           /\ \A i \in DOMAIN logs[s] : /\ Complete(logs[s][i]) /\ logs[s][i].time \in Int
                                        /\ logs[s][i].st \in TslStatus
<1>1. RingInv /\ HeldInv /\ OrderInv /\ CurInv /\ EndsInv /\ Types /\ OneInv /\ pc = "idle"
  BY DEF SteadyInv, LogInv, Idle
<1>2. /\ magic[s] /\ cur.sec \in Sector /\ (Young \/ Round)
      /\ cur.status \in {EMPTY, USING, FULL} /\ store[cur.sec] = cur.status
      /\ cur.status = EMPTY => Young /\ cur.sec = 0
  BY <1>1 DEF RingInv, Live, Rest, Current
<1>3. Len(logs[s]) \in Nat /\ DOMAIN logs[s] = 1 .. Len(logs[s]) /\ (logs[s] = <<>> <=> Len(logs[s]) = 0)
      /\ \A i \in DOMAIN logs[s] : logs[s][i].time \in Int /\ logs[s][i].st \in TslStatus
  BY <1>1, LogFacts
<1>4. \A i \in DOMAIN logs[s] : Complete(logs[s][i])
  BY <1>1 DEF OrderInv
<1>5. s # cur.sec => store[s] \in {EMPTY, FULL}
  <2>1. s < cur.sec \/ s > cur.sec \/ s = cur.sec
    <3>1. s \in Nat /\ cur.sec \in Nat
      BY <1>2, SectorFacts
    <3> QED BY <3>1
  <2> QED BY <1>2, <2>1 DEF Young, Round
<1>6. store[s] \in {EMPTY, USING, FULL} /\ (store[s] = USING => s = cur.sec /\ cur.status = USING)
  BY <1>2, <1>5, WriteStatusIs
<1>7. CASE store[s] = EMPTY
  <2>1. ~HasTsl(s)
    BY <1>7, WriteStatusIs DEF HasTsl
  <2> QED BY <1>1, <1>2, <1>3, <1>4, <1>7, <2>1 DEF HeldInv
<1>8. CASE store[s] = USING
  <2>1. HasTsl(s) /\ Info(s) = cur
    BY <1>2, <1>8 DEF HasTsl, Info
  <2>2. logs[s] # <<>> /\ Len(logs[s]) = cur.n /\ (cur.n > 0 => cur.end = <<s, cur.n - 1>>)
    BY <1>1, <1>6, <1>8 DEF CurInv, Rest
  <2>3. cur.end[1] = s /\ cur.end[2] = Len(logs[s]) - 1
    BY <1>3, <2>2
  <2> QED BY <1>2, <1>3, <1>4, <2>1, <2>2, <2>3 DEF EndSlot
<1>9. CASE store[s] = FULL
  <2>1. HasTsl(s) /\ Info(s) = ReadHdr(NoInfo, s)
    BY <1>2, <1>9, WriteStatusIs DEF HasTsl, Info
  <2>2. EndOf(s) /\ logs[s] # <<>>
    BY <1>1, <1>9 DEF EndsInv, HeldInv
  <2>3. EndInfo(s) = {ends[s][1]}
    BY <2>2 DEF EndInfo, EndOf
  <2>4. (CHOOSE e \in EndInfo(s) : TRUE) = ends[s][1] /\ EndInfo(s) # {}
    BY <2>3
  <2> DEFINE e == CHOOSE e \in EndInfo(s) : TRUE
  <2>5. ReadHdr(NoInfo, s) =
          [sec |-> s, status |-> store[s], start |-> start[s],
           st |-> <<ends[s][1].st, ends[s][2].st>>, endTime |-> e.time, end |-> <<s, e.slot>>,
           n |-> 0, room |-> Cap]
    BY <1>2, <2>4 DEF ReadHdr
  <2>6. Info(s).end = <<s, ends[s][1].slot>>
    <3> HIDE DEF e
    <3>1. ReadHdr(NoInfo, s).end = <<s, e.slot>>
      BY <2>5
    <3>2. e = ends[s][1]
      BY <2>4 DEF e
    <3> QED BY <2>1, <3>1, <3>2
  <2> QED BY <1>2, <1>3, <1>4, <2>1, <2>2, <2>6 DEF EndSlot, EndOf
<1> QED BY <1>6, <1>7, <1>8, <1>9

\* The sectors with logs are those from the oldest to the current one.
LEMMA HasTslRank ==
    ASSUME SteadyInv, Idle
    PROVE  /\ oldest \in Sector /\ cur.sec \in Sector
           /\ \A s \in Sector : HasTsl(s) => Rank(oldest, s) <= Rank(oldest, cur.sec) /\ HasTsl(cur.sec)
           /\ \A s \in Sector : Rank(oldest, s) < Rank(oldest, cur.sec) => HasTsl(s)
<1>1. RingInv /\ HeldInv /\ pc = "idle"
  BY DEF SteadyInv, LogInv, Idle
<1>2. /\ cur.sec \in Sector /\ (Young \/ Round) /\ \A s \in Sector : magic[s]
      /\ cur.status \in {EMPTY, USING, FULL} /\ store[cur.sec] = cur.status
      /\ cur.status = EMPTY => Young /\ cur.sec = 0
  BY <1>1 DEF RingInv, Live, Rest, Current
<1>3. oldest \in Sector
  BY <1>2, NextSecType, SectorFacts DEF Young, Round
<1>4. \A s \in Sector : Rank(oldest, s) \in 0 .. SecNum - 1 /\ s \in Nat
  BY <1>3, RankFacts, SectorFacts
<1>5. CASE Young
  <2>1. \A s \in Sector : Rank(oldest, s) = s
    BY <1>5, RankFacts, SectorFacts DEF Young
  <2>2. ASSUME NEW s \in Sector, HasTsl(s) PROVE s <= cur.sec /\ HasTsl(cur.sec)
    <3>1. store[s] # EMPTY
      BY <2>2, WriteStatusIs DEF HasTsl
    <3>2. ~(s > cur.sec) /\ cur.status # EMPTY
      <4>1. s > cur.sec => store[s] = EMPTY
        BY <1>5 DEF Young
      <4>2. cur.status = EMPTY => s > cur.sec \/ s = cur.sec
        BY <1>2, <1>4
      <4> QED BY <1>2, <3>1, <4>1, <4>2
    <3> QED BY <1>2, <1>4, <3>2 DEF HasTsl
  <2>3. ASSUME NEW s \in Sector, s < cur.sec PROVE HasTsl(s)
    BY <1>2, <1>5, <2>3 DEF Young, HasTsl
  <2> QED BY <1>2, <1>3, <2>1, <2>2, <2>3
<1>6. CASE ~Young
  <2>1. Round /\ HasTsl(cur.sec)
    BY <1>2, <1>6 DEF HasTsl
  <2>2. Rank(oldest, cur.sec) = SecNum - 1
    BY <1>2, <2>1, RankFacts DEF Round
  <2>3. \A s \in Sector : s # cur.sec => HasTsl(s)
    BY <1>2, <2>1 DEF Round, HasTsl
  <2> QED BY <1>2, <1>3, <1>4, <2>1, <2>2, <2>3
<1> QED BY <1>5, <1>6

\* A slot of a sector with logs holds one of them.
LEMMA SlotIs ==
    ASSUME SteadyInv, Idle, NEW s \in Sector, NEW k \in 1 .. Len(logs[s])
    PROVE  /\ Slot(s, k - 1) = [st |-> logs[s][k].st, time |-> logs[s][k].time]
           /\ Slot(s, k - 1) \in Entry /\ Slot(s, k - 1).time = logs[s][k].time
           /\ Slot(s, k - 1).st # TSL_UNUSED
<1>1. /\ Complete(logs[s][k]) /\ logs[s][k].time \in Int /\ logs[s][k].st \in TslStatus
      /\ Len(logs[s]) \in Nat
  BY IdleSector
<1>2. k - 1 \in 0 .. Len(logs[s]) - 1 /\ (k - 1) + 1 = k
  BY <1>1
<1>3. Slot(s, k - 1) = [st |-> logs[s][k].st, time |-> logs[s][k].time]
  BY <1>1, <1>2 DEF Slot, TslTime
<1>4. logs[s][k].st # TSL_UNUSED
  BY <1>1 DEF Complete, TslStatus, TSL_UNUSED, TSL_WRITE, TSL_USER_STATUS2
<1> QED BY <1>1, <1>3, <1>4 DEF Entry

Rising  == {p \in Int \X Int : p[1] < p[2]}
Falling == {p \in Int \X Int : p[1] > p[2]}

\* The logs of a sector, visited forwards and backwards.
LEMMA VisitLists ==
    ASSUME SteadyInv, Idle, NEW s \in Sector, HasTsl(s)
    PROVE  /\ Lists(Visit(s), StoredIn(s), Rising)
           /\ Lists(Reverse(Visit(s)), StoredIn(s), Falling)
<1> DEFINE n == Len(logs[s])
           q == Visit(s)
           r == Reverse(Visit(s))
<1>1. n \in Nat /\ n > 0 /\ EndSlot(s) + 1 = n /\ magic[s] /\ DOMAIN logs[s] = 1 .. n
      /\ \A i \in 1 .. n : Complete(logs[s][i]) /\ logs[s][i].time \in Int
  BY IdleSector
<1>2. q = [k \in 1 .. n |-> Slot(s, k - 1)]
  BY <1>1 DEF Visit
<1> HIDE DEF q
<1>3. \A k \in 1 .. n : q[k] \in Entry /\ q[k].time = logs[s][k].time
  BY <1>2, SlotIs
<1> HIDE DEF n
<1>4. q \in Seq(Entry) /\ Len(q) = n /\ DOMAIN q = 1 .. n
  <2>1. DOMAIN q = 1 .. n /\ q = [k \in 1 .. n |-> q[k]]
    BY <1>2
  <2>2. q \in [1 .. n -> Entry]
    BY <1>3, <2>1
  <2> QED BY <1>1, <2>1, <2>2
<1>5. r = [i \in 1 .. n |-> q[(n - i) + 1]]
  BY <1>4 DEF Reverse, q
<1>6. \A x : x \in StoredIn(s) <=> \E i \in 1 .. n : logs[s][i].time = x
  BY <1>1 DEF StoredIn, Done, n
<1>7. \A j \in 1 .. n : \A i \in 1 .. j - 1 : logs[s][i].time < logs[s][j].time
  <2>1. \A i, j \in DOMAIN logs[s] : i < j => logs[s][i].time < logs[s][j].time
    BY DEF SteadyInv, LogInv, OrderInv
  <2>2. \A j \in 1 .. n : \A i \in 1 .. j - 1 : i \in 1 .. n /\ i < j
    BY <1>1
  <2> QED BY <1>1, <2>1, <2>2
<1> HIDE DEF r
<1>8. Lists(q, StoredIn(s), Rising)
  BY <1>1, <1>3, <1>4, <1>6, <1>7 DEF Lists, Rising
<1>9. Lists(r, StoredIn(s), Falling)
  <2>1. \A i \in 1 .. n : (n - i) + 1 \in 1 .. n /\ r[i] = q[(n - i) + 1]
    BY <1>1, <1>5
  <2>2. r \in Seq(Entry) /\ DOMAIN r = 1 .. n
    BY <1>1, <1>3, <1>5, <2>1
  <2>3. ASSUME NEW x PROVE x \in StoredIn(s) <=> \E i \in DOMAIN r : r[i].time = x
    <3>1. \A i \in 1 .. n : (n - ((n - i) + 1)) + 1 = i
      BY <1>1
    <3> QED BY <1>3, <1>6, <2>1, <2>2, <3>1
  <2>4. ASSUME NEW j \in DOMAIN r, NEW i \in 1 .. j - 1 PROVE <<r[i].time, r[j].time>> \in Falling
    <3>1. i \in 1 .. n /\ j \in 1 .. n /\ (n - j) + 1 \in 1 .. ((n - i) + 1) - 1
      BY <1>1, <2>2
    <3>2. logs[s][(n - j) + 1].time < logs[s][(n - i) + 1].time
      BY <1>7, <2>1, <3>1
    <3> QED BY <1>1, <1>3, <2>1, <3>1, <3>2 DEF Falling
  <2> QED BY <2>2, <2>3, <2>4 DEF Lists
<1> QED BY <1>8, <1>9 DEF q, r

-----------------------------------------------------------------------------
(* Around the ring *)

LEMMA ModIs ==
    ASSUME NEW n \in Nat \ {0}, NEW x \in Nat, x < n + n
    PROVE  x % n = IF x < n THEN x ELSE x - n
OBVIOUS

LEMMA ForwardIs ==
    ASSUME NEW b \in Sector
    PROVE  /\ \A k \in 1 .. SecNum : Forward(b)[k] \in Sector /\ Rank(b, Forward(b)[k]) = k - 1
           /\ \A s \in Sector : Rank(b, s) + 1 \in 1 .. SecNum /\ Forward(b)[Rank(b, s) + 1] = s
<1>1. SecNum \in Nat \ {0} /\ b \in Nat /\ b < SecNum
  BY SecAssumption DEF Sector
<1>2. \A k \in 1 .. SecNum : Forward(b)[k] = IF b + k - 1 < SecNum THEN b + k - 1 ELSE b + k - 1 - SecNum
  <2>1. ASSUME NEW k \in 1 .. SecNum
        PROVE  (b + k - 1) % SecNum = IF b + k - 1 < SecNum THEN b + k - 1 ELSE b + k - 1 - SecNum
    <3> DEFINE x == b + k - 1
    <3>1. /\ x \in Nat /\ x < SecNum + SecNum
          /\ x < SecNum <=> b + k - 1 < SecNum
          /\ x - SecNum = b + k - 1 - SecNum
      BY <1>1
    <3> HIDE DEF x
    <3>2. x % SecNum = IF x < SecNum THEN x ELSE x - SecNum
      BY <1>1, <3>1, ModIs
    <3> QED BY <3>1, <3>2 DEF x
  <2> QED BY <2>1 DEF Forward
<1> QED BY <1>1, <1>2 DEF Rank, Sector

LEMMA BackwardIs ==
    ASSUME NEW b \in Sector, NEW o \in Sector
    PROVE  /\ \A k \in 1 .. SecNum :
                /\ Backward(b)[k] \in Sector
                /\ Rank(o, Backward(b)[k]) =
                     IF k - 1 <= Rank(o, b) THEN Rank(o, b) - (k - 1) ELSE SecNum + Rank(o, b) - (k - 1)
           /\ \A s \in Sector : Rank(o, s) <= Rank(o, b) =>
                /\ Rank(o, b) - Rank(o, s) + 1 \in 1 .. SecNum
                /\ Backward(b)[Rank(o, b) - Rank(o, s) + 1] = s
<1>1. SecNum \in Nat \ {0} /\ b \in Nat /\ b < SecNum /\ o \in Nat /\ o < SecNum
  BY SecAssumption DEF Sector
<1>2. \A k \in 1 .. SecNum : Backward(b)[k] = IF k - 1 <= b THEN b - k + 1 ELSE b - k + 1 + SecNum
  <2>1. ASSUME NEW k \in 1 .. SecNum
        PROVE  (b - k + 1 + SecNum) % SecNum = IF k - 1 <= b THEN b - k + 1 ELSE b - k + 1 + SecNum
    <3> DEFINE x == b - k + 1 + SecNum
    <3>1. /\ x \in Nat /\ x < SecNum + SecNum
          /\ x < SecNum <=> ~(k - 1 <= b)
          /\ x - SecNum = b - k + 1
      BY <1>1
    <3> HIDE DEF x
    <3>2. x % SecNum = IF x < SecNum THEN x ELSE x - SecNum
      BY <1>1, <3>1, ModIs
    <3> QED BY <3>1, <3>2 DEF x
  <2> QED BY <2>1 DEF Backward
<1> QED BY <1>1, <1>2 DEF Rank, Sector

\* The logs of the sectors are in the order of the ring.
LEMMA SectorsOrdered ==
    ASSUME SteadyInv, Idle, NEW s \in Sector, NEW t \in Sector, Rank(oldest, s) < Rank(oldest, t)
    PROVE  \A x \in StoredIn(s), y \in StoredIn(t) : x < y
BY OrderedIs, HasTslRank DEF Ordered, Ready

LEMMA StoredInIs ==
    ASSUME SteadyInv, Idle, NEW s \in Sector
    PROVE  /\ StoredIn(s) \in SUBSET Int /\ StoredIn(s) \subseteq Stored
           /\ ~HasTsl(s) => StoredIn(s) = {}
<1>1. /\ Len(logs[s]) \in Nat /\ DOMAIN logs[s] = 1 .. Len(logs[s])
      /\ ~HasTsl(s) => Len(logs[s]) = 0
      /\ \A i \in DOMAIN logs[s] : logs[s][i].time \in Int
  BY IdleSector
<1>2. Done(s) \subseteq DOMAIN logs[s]
  BY DEF Done
<1>3. ~HasTsl(s) => Done(s) = {}
  BY <1>1, <1>2
<1> QED BY <1>1, <1>2, <1>3 DEF StoredIn, Stored

\* Another order that the logs of the list keep.
LEMMA ListsOrder ==
    ASSUME NEW q, NEW S, NEW L, NEW M, Lists(q, S, L), \A x, y \in S : <<x, y>> \in L => <<x, y>> \in M
    PROVE  Lists(q, S, M)
<1>1. q \in Seq(Entry)
  BY DEF Lists
<1>2. \A j \in DOMAIN q : \A i \in 1 .. j - 1 : i \in DOMAIN q /\ q[i].time \in S /\ q[j].time \in S
  <2>1. DOMAIN q = 1 .. Len(q) /\ Len(q) \in Nat
    BY <1>1
  <2>2. \A j \in DOMAIN q : \A i \in 1 .. j - 1 : i \in DOMAIN q
    BY <2>1
  <2> QED BY <2>2 DEF Lists
<1> QED BY <1>2 DEF Lists

\* fdb_tsl_iter from any sector, in any order that the sectors it goes
\* through and the logs in them keep.
LEMMA IterLists ==
    ASSUME SteadyInv, Idle, NEW b \in Sector, NEW L,
           \A s \in Sector : \A x, y \in StoredIn(s) : x < y => <<x, y>> \in L,
           \A k \in 1 .. SecNum : \A j \in 1 .. k - 1 :
              \A x \in StoredIn(Forward(b)[j]), y \in StoredIn(Forward(b)[k]) : <<x, y>> \in L
    PROVE  Lists(IterFrom(b), Stored, L)
<1> DEFINE w == [k \in 1 .. SecNum |->
                   LET s == Forward(b)[k] IN IF HasTsl(s) THEN Visit(s) ELSE <<>>]
           T == [k \in 1 .. SecNum |-> StoredIn(Forward(b)[k])]
<1>1. IterFrom(b) = FlattenSeq(w)
  BY SectorFacts DEF IterFrom
<1>2. ASSUME NEW k \in 1 .. SecNum PROVE Lists(w[k], T[k], L)
  <2> DEFINE s == Forward(b)[k]
  <2>1. s \in Sector /\ T[k] = StoredIn(s)
    BY ForwardIs
  <2> HIDE DEF s
  <2>2. CASE HasTsl(s)
    <3>1. Lists(Visit(s), StoredIn(s), Rising)
      BY <2>1, <2>2, VisitLists
    <3>2. \A x, y \in StoredIn(s) : <<x, y>> \in Rising => <<x, y>> \in L
      BY <2>1 DEF Rising
    <3>3. Lists(Visit(s), StoredIn(s), L)
      BY <3>1, <3>2, ListsOrder
    <3> QED BY <2>1, <2>2, <3>3 DEF s
  <2>3. CASE ~HasTsl(s)
    <3>1. StoredIn(s) = {}
      BY <2>1, <2>3, StoredInIs
    <3> QED BY <2>1, <2>3, <3>1, ListsNone DEF s
  <2> QED BY <2>2, <2>3
<1>3. UNION {T[k] : k \in 1 .. SecNum} = Stored
  <2>1. ASSUME NEW k \in 1 .. SecNum PROVE T[k] \subseteq Stored
    BY ForwardIs, StoredInIs
  <2>2. ASSUME NEW x \in Stored PROVE \E k \in 1 .. SecNum : x \in T[k]
    <3>1. PICK s \in Sector : x \in StoredIn(s)
      BY DEF Stored
    <3>2. Rank(b, s) + 1 \in 1 .. SecNum /\ Forward(b)[Rank(b, s) + 1] = s
      BY ForwardIs
    <3> QED BY <3>1, <3>2
  <2> HIDE DEF T
  <2> QED BY <2>1, <2>2
<1>4. \A k \in 1 .. SecNum : \A j \in 1 .. k - 1 : \A x \in T[j], y \in T[k] : <<x, y>> \in L
  <2>1. \A k \in 1 .. SecNum : \A j \in 1 .. k - 1 : j \in 1 .. SecNum
    BY SectorFacts
  <2> QED BY <2>1
<1>5. w = [k \in 1 .. SecNum |-> w[k]] /\ SecNum \in Nat
  BY SectorFacts
<1> HIDE DEF w, T
<1>6. Lists(FlattenSeq(w), UNION {T[k] : k \in 1 .. SecNum}, L)
  BY <1>2, <1>4, <1>5, FlattenLists
<1> QED BY <1>1, <1>3, <1>6

\* The logs of the sectors up to b, the oldest first.
UpTo(b) == UNION {StoredIn(s) : s \in {t \in Sector : Rank(oldest, t) <= Rank(oldest, b)}}

\* fdb_tsl_iter_reverse from any sector with logs, in any such order.
LEMMA ReverseLists ==
    ASSUME SteadyInv, Idle, NEW b \in Sector, HasTsl(b), NEW L,
           \A s \in Sector : \A x, y \in StoredIn(s) : x > y => <<x, y>> \in L,
           \A k \in 1 .. SecNum : \A j \in 1 .. k - 1 :
              \A x \in StoredIn(Backward(b)[j]), y \in StoredIn(Backward(b)[k]) : <<x, y>> \in L
    PROVE  \E S \in SUBSET Stored : UpTo(b) \subseteq S /\ Lists(IterReverseFrom(b), S, L)
<1> DEFINE sectors == Backward(b)
           stops == {k \in 1 .. SecNum : magic[sectors[k]] /\ ~HasTsl(sectors[k])}
           upTo == IF stops = {} THEN SecNum ELSE Min(stops) - 1
           w == [k \in 1 .. upTo |->
                   IF HasTsl(sectors[k]) THEN Reverse(Visit(sectors[k])) ELSE <<>>]
           T == [k \in 1 .. upTo |-> StoredIn(sectors[k])]
<1>0. oldest \in Sector /\ SecNum \in Nat
  BY HasTslRank, SectorFacts
<1>1. IterReverseFrom(b) = FlattenSeq(w)
  BY SectorFacts DEF IterReverseFrom
<1>2. \A k \in 1 .. SecNum : sectors[k] \in Sector
  BY <1>0, BackwardIs
<1>3. upTo \in 0 .. SecNum /\ (stops # {} => upTo + 1 \in stops)
  <2>1. CASE stops = {}
    BY <1>0, <2>1
  <2>2. CASE stops # {}
    <3>1. stops \in SUBSET Nat /\ stops \subseteq 1 .. SecNum
      BY SectorFacts
    <3>2. Min(stops) \in stops
      BY <2>2, <3>1, MinIn
    <3>3. upTo = Min(stops) - 1
      BY <2>2
    <3> HIDE DEF stops, upTo
    <3>4. Min(stops) \in 1 .. SecNum
      BY <3>1, <3>2
    <3>5. upTo \in 0 .. SecNum /\ upTo + 1 = Min(stops)
      BY <1>0, <3>3, <3>4
    <3> QED BY <3>2, <3>5
  <2> QED BY <2>1, <2>2
<1> HIDE DEF upTo
<1>4. ASSUME NEW k \in 1 .. upTo PROVE Lists(w[k], T[k], L)
  <2> DEFINE s == sectors[k]
  <2>1. s \in Sector /\ T[k] = StoredIn(s)
    BY <1>0, <1>2, <1>3
  <2> HIDE DEF s
  <2>2. CASE HasTsl(s)
    <3>1. Lists(Reverse(Visit(s)), StoredIn(s), Falling)
      BY <2>1, <2>2, VisitLists
    <3>2. \A x, y \in StoredIn(s) : <<x, y>> \in Falling => <<x, y>> \in L
      BY <2>1 DEF Falling
    <3>3. Lists(Reverse(Visit(s)), StoredIn(s), L)
      BY <3>1, <3>2, ListsOrder
    <3> QED BY <2>1, <2>2, <3>3 DEF s
  <2>3. CASE ~HasTsl(s)
    <3>1. StoredIn(s) = {}
      BY <2>1, <2>3, StoredInIs
    <3> QED BY <2>1, <2>3, <3>1, ListsNone DEF s
  <2> QED BY <2>2, <2>3
<1>5. \A k \in 1 .. upTo : \A j \in 1 .. k - 1 : \A x \in T[j], y \in T[k] : <<x, y>> \in L
  <2>1. \A k \in 1 .. upTo : \A j \in 1 .. k - 1 : k \in 1 .. SecNum /\ j \in 1 .. upTo
    BY <1>0, <1>3
  <2> QED BY <2>1
<1>6. w = [k \in 1 .. upTo |-> w[k]] /\ upTo \in Nat
  BY <1>3
<1> DEFINE S == UNION {T[k] : k \in 1 .. upTo}
<1>7. ASSUME NEW x \in UpTo(b) PROVE \E k \in 1 .. upTo : x \in T[k]
  <2>1. PICK s \in Sector : Rank(oldest, s) <= Rank(oldest, b) /\ x \in StoredIn(s)
    BY DEF UpTo
  <2> DEFINE k == Rank(oldest, b) - Rank(oldest, s) + 1
  <2>2. k \in 1 .. SecNum /\ sectors[k] = s
    BY <1>0, <2>1, BackwardIs
  <2>3. k <= upTo
    <3>1. SUFFICES ASSUME k > upTo PROVE FALSE
      BY <1>3, <2>2
    <3>2. upTo + 1 \in stops /\ upTo + 1 \in 1 .. SecNum /\ upTo \in Nat /\ upTo <= k - 1
      <4>1. upTo # SecNum
        BY <1>0, <2>2, <3>1
      <4>2. stops # {}
        BY <4>1 DEF upTo
      <4> QED BY <1>0, <1>3, <2>2, <3>1, <4>2
    <3> DEFINE t == sectors[upTo + 1]
    <3>3. t \in Sector /\ ~HasTsl(t)
      BY <1>2, <3>2
    <3>4. Rank(oldest, b) \in Nat /\ Rank(oldest, s) \in Nat
      BY <1>0, RankFacts
    <3>5. Rank(oldest, t) = Rank(oldest, b) - upTo
      <4>1. (upTo + 1) - 1 <= Rank(oldest, b)
        BY <2>1, <3>2, <3>4
      <4>2. Rank(oldest, t) = Rank(oldest, b) - ((upTo + 1) - 1)
        BY <1>0, <3>2, <4>1, BackwardIs
      <4> QED BY <3>2, <3>4, <4>2
    <3>6. Rank(oldest, b) <= Rank(oldest, cur.sec) /\ HasTsl(cur.sec) /\ cur.sec \in Sector
      BY HasTslRank
    <3>7. Rank(oldest, t) \in Nat /\ Rank(oldest, cur.sec) \in Nat
      BY <1>0, <3>3, <3>6, RankFacts
    <3>8. ~(Rank(oldest, t) < Rank(oldest, cur.sec))
      BY <3>3, HasTslRank
    <3>9. Rank(oldest, t) = Rank(oldest, cur.sec)
      BY <3>2, <3>4, <3>5, <3>6, <3>7, <3>8
    <3>10. t = cur.sec
      BY <1>0, <3>3, <3>6, <3>9, RankFacts
    <3> QED BY <3>3, <3>6, <3>10
  <2> QED BY <2>1, <2>2, <2>3
<1>8. \A k \in 1 .. upTo : T[k] \subseteq Stored
  <2>1. \A k \in 1 .. upTo : sectors[k] \in Sector
    BY <1>0, <1>2, <1>3
  <2> QED BY <2>1, StoredInIs
<1> HIDE DEF w, T
<1>9. Lists(FlattenSeq(w), S, L)
  BY <1>4, <1>5, <1>6, FlattenLists
<1>10. S \in SUBSET Stored /\ UpTo(b) \subseteq S
  BY <1>7, <1>8
<1> QED BY <1>1, <1>9, <1>10

-----------------------------------------------------------------------------
(* fdb_tsl_iter and fdb_tsl_iter_reverse *)

LEMMA AscendsIs ==
    ASSUME NEW q, NEW S, Lists(q, S, Rising)
    PROVE  Ascends(Times(q), S)
<1>1. DOMAIN q = 1 .. Len(q) /\ Len(q) \in Nat
  BY DEF Lists
<1>2. \A j \in DOMAIN q : \A i \in 1 .. j - 1 : i \in DOMAIN q
  BY <1>1
<1>3. \A x, y : <<x, y>> \in Rising => x < y
  BY DEF Rising
<1>4. \A j \in DOMAIN q : \A i \in 1 .. j - 1 : q[i].time < q[j].time
  BY <1>3 DEF Lists
<1> QED BY <1>2, <1>4 DEF Lists, Ascends, Times, ToSet

LEMMA DescendsIs ==
    ASSUME NEW q, NEW S, Lists(q, S, Falling)
    PROVE  Descends(Times(q), S)
<1>1. DOMAIN q = 1 .. Len(q) /\ Len(q) \in Nat
  BY DEF Lists
<1>2. \A j \in DOMAIN q : \A i \in 1 .. j - 1 : i \in DOMAIN q
  BY <1>1
<1>3. \A x, y : <<x, y>> \in Falling => x > y
  BY DEF Falling
<1>4. \A j \in DOMAIN q : \A i \in 1 .. j - 1 : q[i].time > q[j].time
  BY <1>3 DEF Lists
<1> QED BY <1>2, <1>4 DEF Lists, Descends, Times, ToSet

LEMMA IterIs ==
    ASSUME SteadyInv, Idle
    PROVE  Lists(Iter, Stored, Rising)
<1>1. oldest \in Sector /\ SecNum \in Nat
  BY HasTslRank, SectorFacts
<1>2. ASSUME NEW k \in 1 .. SecNum, NEW j \in 1 .. k - 1
      PROVE  \A x \in StoredIn(Forward(oldest)[j]), y \in StoredIn(Forward(oldest)[k]) :
               <<x, y>> \in Rising
  <2> DEFINE s == Forward(oldest)[j]
             t == Forward(oldest)[k]
  <2>1. j \in 1 .. SecNum /\ j - 1 < k - 1
    BY <1>1
  <2>2. s \in Sector /\ t \in Sector /\ Rank(oldest, s) < Rank(oldest, t)
    BY <1>1, <2>1, ForwardIs
  <2> HIDE DEF s, t
  <2>3. StoredIn(s) \in SUBSET Int /\ StoredIn(t) \in SUBSET Int
    BY <2>2, StoredInIs
  <2>4. \A x \in StoredIn(s), y \in StoredIn(t) : x < y
    BY <2>2, SectorsOrdered
  <2>5. \A x \in StoredIn(s), y \in StoredIn(t) : <<x, y>> \in Rising
    BY <2>3, <2>4 DEF Rising
  <2> QED BY <2>5 DEF s, t
<1>3. \A s \in Sector : \A x, y \in StoredIn(s) : x < y => <<x, y>> \in Rising
  BY StoredInIs DEF Rising
<1> QED BY <1>1, <1>2, <1>3, IterLists DEF Iter

\* The sectors behind those of the current one hold nothing, whichever way
\* round.
LEMMA ReverseOrdered ==
    ASSUME SteadyInv, Idle, NEW k \in 1 .. SecNum, NEW j \in 1 .. k - 1,
           NEW x \in StoredIn(Backward(cur.sec)[j]), NEW y \in StoredIn(Backward(cur.sec)[k])
    PROVE  <<x, y>> \in Falling
<1> DEFINE s == Backward(cur.sec)[j]
           t == Backward(cur.sec)[k]
<1>1. oldest \in Sector /\ cur.sec \in Sector /\ SecNum \in Nat /\ j \in 1 .. SecNum
  BY HasTslRank, SectorFacts
<1>2. s \in Sector /\ t \in Sector
  BY <1>1, BackwardIs
<1>3. HasTsl(s) /\ HasTsl(t)
  BY <1>2, StoredInIs
<1>4. Rank(oldest, s) <= Rank(oldest, cur.sec) /\ Rank(oldest, t) <= Rank(oldest, cur.sec)
  BY <1>2, <1>3, HasTslRank
<1>5. Rank(oldest, cur.sec) \in Nat
  BY <1>1, RankFacts
<1>6. Rank(oldest, t) < Rank(oldest, s)
  <2>1. /\ Rank(oldest, s) = IF j - 1 <= Rank(oldest, cur.sec) THEN Rank(oldest, cur.sec) - (j - 1)
                             ELSE SecNum + Rank(oldest, cur.sec) - (j - 1)
        /\ Rank(oldest, t) = IF k - 1 <= Rank(oldest, cur.sec) THEN Rank(oldest, cur.sec) - (k - 1)
                             ELSE SecNum + Rank(oldest, cur.sec) - (k - 1)
    BY <1>1, BackwardIs
  <2> HIDE DEF s, t
  <2> QED BY <1>1, <1>4, <1>5, <2>1
<1>7. y < x
  BY <1>2, <1>6, SectorsOrdered
<1>8. x \in Int /\ y \in Int
  BY <1>2, StoredInIs
<1> QED BY <1>7, <1>8 DEF Falling

LEMMA IterReverseIs ==
    ASSUME SteadyInv, Idle
    PROVE  Lists(IterReverse, Stored, Falling)
<1>1. oldest \in Sector /\ cur.sec \in Sector /\ SecNum \in Nat \ {0}
  BY HasTslRank, SectorFacts
<1>2. \A s \in Sector : \A x, y \in StoredIn(s) : x > y => <<x, y>> \in Falling
  BY StoredInIs DEF Falling
<1>3. ASSUME NEW x \in Stored PROVE x \in UpTo(cur.sec) /\ HasTsl(cur.sec)
  <2>1. PICK s \in Sector : x \in StoredIn(s)
    BY DEF Stored
  <2>2. HasTsl(s)
    BY <2>1, StoredInIs
  <2>3. Rank(oldest, s) <= Rank(oldest, cur.sec) /\ HasTsl(cur.sec)
    BY <2>2, HasTslRank
  <2> QED BY <2>1, <2>3 DEF UpTo
<1>4. CASE HasTsl(cur.sec)
  <2>1. PICK S \in SUBSET Stored : UpTo(cur.sec) \subseteq S /\ Lists(IterReverseFrom(cur.sec), S, Falling)
    BY <1>1, <1>2, <1>4, ReverseOrdered, ReverseLists
  <2>2. S = Stored
    BY <1>3, <2>1
  <2> QED BY <2>1, <2>2 DEF IterReverse
<1>5. CASE ~HasTsl(cur.sec)
  <2>1. Stored = {}
    BY <1>3, <1>5
  <2> DEFINE stops == {k \in 1 .. SecNum : magic[Backward(cur.sec)[k]] /\ ~HasTsl(Backward(cur.sec)[k])}
  <2>2. Rank(oldest, cur.sec) - Rank(oldest, cur.sec) + 1 = 1
        /\ Rank(oldest, cur.sec) <= Rank(oldest, cur.sec)
    BY <1>1, RankFacts
  <2>3. Backward(cur.sec)[1] = cur.sec
    BY <1>1, <2>2, BackwardIs
  <2>4. 1 \in stops
    BY <1>1, <1>5, <2>3, IdleSector
  <2>5. Min(stops) = 1
    <3>1. stops \in SUBSET Int /\ \A k \in stops : 1 <= k
      OBVIOUS
    <3> HIDE DEF stops
    <3> QED BY <2>4, <3>1, MinIs
  <2>6. IterReverse = FlattenSeq([k \in 1 .. 0 |->
              IF HasTsl(Backward(cur.sec)[k]) THEN Reverse(Visit(Backward(cur.sec)[k])) ELSE <<>>])
    BY <1>1, <2>4, <2>5, SectorFacts DEF IterReverse, IterReverseFrom
  <2> DEFINE w == [k \in 1 .. 0 |->
              IF HasTsl(Backward(cur.sec)[k]) THEN Reverse(Visit(Backward(cur.sec)[k])) ELSE <<>>]
             T == [k \in 1 .. 0 |-> {}]
  <2>7. w = [k \in 1 .. 0 |-> w[k]] /\ 1 .. 0 = {} /\ 0 \in Nat
    OBVIOUS
  <2> HIDE DEF w, T
  <2>8. Lists(FlattenSeq(w), UNION {T[k] : k \in 1 .. 0}, Falling)
    BY <2>7, FlattenLists
  <2>9. UNION {T[k] : k \in 1 .. 0} = {}
    BY <2>7
  <2> QED BY <2>1, <2>6, <2>8, <2>9 DEF w
<1> QED BY <1>4, <1>5

-----------------------------------------------------------------------------
(* From a sector that was the oldest, or the current one, when it was read *)

LEMMA ListsSize ==
    ASSUME NEW q, NEW S, NEW L, Lists(q, S, L), \A x : <<x, x>> \notin L
    PROVE  Len(Times(q)) = Cardinality(S)
<1> DEFINE w == Times(q)
           n == Len(q)
<1>1. n \in Nat /\ DOMAIN q = 1 .. n
  BY DEF Lists
<1>2. w = [k \in 1 .. n |-> q[k].time]
  BY <1>1 DEF Times
<1>3. ToSet(w) = S
  BY <1>1, <1>2 DEF Lists, ToSet
<1>4. \A j \in 1 .. n : \A i \in 1 .. j - 1 : i \in 1 .. n /\ <<w[i], w[j]>> \in L
  <2>1. \A j \in 1 .. n : \A i \in 1 .. j - 1 : i \in 1 .. n
    BY <1>1
  <2> QED BY <1>1, <1>2, <2>1 DEF Lists
<1> HIDE DEF w, n
<1>5. w \in [1 .. n -> S]
  BY <1>2, <1>3 DEF ToSet
<1>6. \A x \in S : \E i \in 1 .. n : w[i] = x
  BY <1>2, <1>3 DEF ToSet
<1>7. ASSUME NEW i \in 1 .. n, NEW j \in 1 .. n, w[i] = w[j] PROVE i = j
  <2>1. CASE i < j
    <3>1. i \in 1 .. j - 1
      BY <1>1, <2>1
    <3> QED BY <1>4, <1>7, <3>1
  <2>2. CASE j < i
    <3>1. j \in 1 .. i - 1
      BY <1>1, <2>2
    <3> QED BY <1>4, <1>7, <3>1
  <2> QED BY <1>1, <2>1, <2>2
<1>8. w \in Bijection(1 .. n, S)
  <2>1. \A i, j \in DOMAIN w : w[i] = w[j] => i = j
    BY <1>2, <1>7
  <2> QED BY <1>5, <1>6, <2>1 DEF Bijection, Injection, Surjection, IsInjective
<1>9. Cardinality(S) = n
  BY <1>1, <1>8, FS_CountingElements DEF ExistsBijection
<1>10. Len(w) = n
  BY <1>1, <1>5
<1> QED BY <1>9, <1>10 DEF w

\* The places of a ring, counted from one sector and from another.
LEMMA RankRank ==
    ASSUME NEW o \in Sector, NEW b \in Sector, NEW s \in Sector, NEW t \in Sector,
           Rank(b, s) < Rank(b, t)
    PROVE  \/ Rank(o, s) < Rank(o, t) /\ (Rank(o, s) < Rank(o, b) <=> Rank(o, t) < Rank(o, b))
           \/ ~(Rank(o, s) < Rank(o, b)) /\ Rank(o, t) < Rank(o, b)
BY SecAssumption DEF Rank, Sector

\* The logs of the sectors before b.
Before(b) == UNION {StoredIn(s) : s \in {t \in Sector : Rank(oldest, t) < Rank(oldest, b)}}

LEMMA BeforeIs ==
    ASSUME SteadyInv, Idle, NEW b \in Sector, NEW s \in Sector, NEW x \in StoredIn(s)
    PROVE  /\ x \in Before(b) <=> Rank(oldest, s) < Rank(oldest, b)
           /\ x \in UpTo(b) <=> Rank(oldest, s) <= Rank(oldest, b)
<1>1. \A t \in Sector : x \in StoredIn(t) => t = s
  <2> SUFFICES ASSUME NEW t \in Sector, x \in StoredIn(t) PROVE t = s
    OBVIOUS
  <2>1. oldest \in Sector /\ x \in Int
    BY HasTslRank, StoredInIs
  <2>2. Rank(oldest, s) \in Int /\ Rank(oldest, t) \in Int /\ (Rank(oldest, s) = Rank(oldest, t) => s = t)
    BY <2>1, RankFacts
  <2>3. ~(Rank(oldest, s) < Rank(oldest, t)) /\ ~(Rank(oldest, t) < Rank(oldest, s))
    <3>1. ~(x < x)
      BY <2>1
    <3> QED BY <3>1, SectorsOrdered
  <2> QED BY <2>2, <2>3
<1> QED BY <1>1 DEF Before, UpTo

LEMMA StaleIter ==
    ASSUME SteadyInv, Idle, NEW b \in Sector
    PROVE  LET q == Times(IterFrom(b)) IN
           /\ ToSet(q) = Stored /\ Len(q) = Cardinality(Stored)
           /\ Cardinality({k \in 1 .. Len(q) - 1 : q[k] > q[k + 1]}) <= 1
<1> DEFINE B == Before(b)
           L == {p \in Int \X Int : \/ p[1] < p[2] /\ (p[1] \in B <=> p[2] \in B)
                                    \/ p[1] \notin B /\ p[2] \in B}
           w == IterFrom(b)
           q == Times(w)
<1>1. oldest \in Sector /\ SecNum \in Nat
  BY HasTslRank, SectorFacts
<1>2. \A x, y : <<x, y>> \in L <=> /\ x \in Int /\ y \in Int
                                   /\ \/ x < y /\ (x \in B <=> y \in B)
                                      \/ x \notin B /\ y \in B
  OBVIOUS
<1> HIDE DEF L, B
<1>3. \A s \in Sector : \A x, y \in StoredIn(s) : x < y => <<x, y>> \in L
  BY <1>2, StoredInIs, BeforeIs DEF B
<1>4. ASSUME NEW k \in 1 .. SecNum, NEW j \in 1 .. k - 1
      PROVE  \A x \in StoredIn(Forward(b)[j]), y \in StoredIn(Forward(b)[k]) : <<x, y>> \in L
  <2> DEFINE s == Forward(b)[j]
             t == Forward(b)[k]
  <2>1. j \in 1 .. SecNum /\ j - 1 < k - 1
    BY <1>1
  <2>2. s \in Sector /\ t \in Sector /\ Rank(b, s) < Rank(b, t)
    BY <2>1, ForwardIs
  <2> HIDE DEF s, t
  <2>3. ASSUME NEW x \in StoredIn(s), NEW y \in StoredIn(t) PROVE <<x, y>> \in L
    <3>1. x \in Int /\ y \in Int
      BY <2>2, StoredInIs
    <3>2. x \in B <=> Rank(oldest, s) < Rank(oldest, b)
      BY <2>2, BeforeIs DEF B
    <3>3. y \in B <=> Rank(oldest, t) < Rank(oldest, b)
      BY <2>2, BeforeIs DEF B
    <3>4. Rank(oldest, s) < Rank(oldest, t) => x < y
      BY <2>2, SectorsOrdered
    <3> QED BY <1>1, <1>2, <2>2, <3>1, <3>2, <3>3, <3>4, RankRank
  <2> QED BY <2>3 DEF s, t
<1>5. Lists(w, Stored, L)
  BY <1>3, <1>4, IterLists
<1>6. \A x : <<x, x>> \notin L
  BY <1>2
<1>7. Len(q) = Cardinality(Stored)
  BY <1>5, <1>6, ListsSize
<1>8. DOMAIN w = 1 .. Len(w) /\ Len(w) \in Nat
  BY <1>5 DEF Lists
<1>9. q = [k \in 1 .. Len(w) |-> w[k].time] /\ ToSet(q) = Stored
  BY <1>5, <1>8 DEF Times, Lists, ToSet
<1>10. Len(q) = Len(w) /\ Len(q) \in Nat
  BY <1>8, <1>9
<1>11. \A j \in 1 .. Len(q) : \A i \in 1 .. j - 1 : <<q[i], q[j]>> \in L
  <2>1. \A j \in 1 .. Len(q) : \A i \in 1 .. j - 1 : i \in 1 .. Len(q)
    BY <1>10
  <2> HIDE DEF w, q
  <2> QED BY <1>5, <1>8, <1>9, <1>10, <2>1 DEF Lists
<1> HIDE DEF q
<1> DEFINE D == {k \in 1 .. Len(q) - 1 : q[k] > q[k + 1]}
<1>12. ASSUME NEW k \in D PROVE q[k] \notin B /\ q[k + 1] \in B
  <2>1. k + 1 \in 1 .. Len(q) /\ k \in 1 .. (k + 1) - 1
    BY <1>10
  <2>2. <<q[k], q[k + 1]>> \in L /\ q[k] > q[k + 1]
    BY <1>11, <2>1
  <2> QED BY <1>2, <2>2
<1>13. ASSUME NEW k \in D, NEW l \in D, k < l PROVE FALSE
  <2>1. q[k + 1] \in B /\ q[l] \notin B
    BY <1>12
  <2>2. k + 1 # l
    BY <2>1
  <2>3. l \in 1 .. Len(q) /\ k + 1 \in 1 .. l - 1
    BY <1>10, <1>13, <2>2
  <2>4. <<q[k + 1], q[l]>> \in L
    BY <1>11, <2>3
  <2> QED BY <1>2, <2>1, <2>4
<1>14. Cardinality(D) <= 1
  <2>1. CASE D = {}
    <3> HIDE DEF D
    <3> QED BY <2>1, FS_EmptySet
  <2>2. CASE D # {}
    <3>1. PICK k \in D : TRUE
      BY <2>2
    <3>2. \A l \in D : k \in Int /\ l \in Int
      OBVIOUS
    <3>3. \A l \in D : l = k
      BY <1>13, <3>2
    <3>4. D = {k}
      BY <3>1, <3>3
    <3>5. Cardinality({k}) = 1
      BY FS_Singleton, Zenon
    <3> HIDE DEF D
    <3> QED BY <3>4, <3>5
  <2> HIDE DEF D
  <2> QED BY <2>1, <2>2
<1> QED BY <1>7, <1>9, <1>14 DEF q

LEMMA StaleReverse ==
    ASSUME SteadyInv, Idle, NEW b \in Sector, HasTsl(b)
    PROVE  LET q == Times(IterReverseFrom(b))
           IN \E n \in 0 .. Len(q) : Descends(SubSeq(q, 1, n), UpTo(b))
<1> DEFINE U == UpTo(b)
           L == {p \in Int \X Int : (p[1] \in U /\ p[1] > p[2]) \/ p[2] \notin U}
           w == IterReverseFrom(b)
           q == Times(w)
<1>1. oldest \in Sector /\ SecNum \in Nat
  BY HasTslRank, SectorFacts
<1>2. \A x, y : <<x, y>> \in L <=> x \in Int /\ y \in Int /\ ((x \in U /\ x > y) \/ y \notin U)
  OBVIOUS
<1> HIDE DEF L, U
<1>3. \A s \in Sector : \A x, y \in StoredIn(s) : x > y => <<x, y>> \in L
  BY <1>2, StoredInIs, BeforeIs DEF U
<1>4. ASSUME NEW k \in 1 .. SecNum, NEW j \in 1 .. k - 1
      PROVE  \A x \in StoredIn(Backward(b)[j]), y \in StoredIn(Backward(b)[k]) : <<x, y>> \in L
  <2> DEFINE s == Backward(b)[j]
             t == Backward(b)[k]
  <2>1. j \in 1 .. SecNum /\ j - 1 < k - 1
    BY <1>1
  <2>2. s \in Sector /\ t \in Sector
    BY <1>1, <2>1, BackwardIs
  <2>3. Rank(oldest, b) \in Nat /\ Rank(oldest, s) \in Nat /\ Rank(oldest, t) \in 0 .. SecNum - 1
    BY <1>1, <2>2, RankFacts
  <2>4. Rank(oldest, t) <= Rank(oldest, b) =>
          Rank(oldest, t) < Rank(oldest, s) /\ Rank(oldest, s) <= Rank(oldest, b)
    <3>1. /\ Rank(oldest, s) = IF j - 1 <= Rank(oldest, b) THEN Rank(oldest, b) - (j - 1)
                               ELSE SecNum + Rank(oldest, b) - (j - 1)
          /\ Rank(oldest, t) = IF k - 1 <= Rank(oldest, b) THEN Rank(oldest, b) - (k - 1)
                               ELSE SecNum + Rank(oldest, b) - (k - 1)
      BY <1>1, <2>1, BackwardIs
    <3> HIDE DEF s, t
    <3> QED BY <1>1, <2>1, <2>3, <3>1
  <2> HIDE DEF s, t
  <2>5. ASSUME NEW x \in StoredIn(s), NEW y \in StoredIn(t) PROVE <<x, y>> \in L
    <3>1. x \in Int /\ y \in Int
      BY <2>2, StoredInIs
    <3>2. x \in U <=> Rank(oldest, s) <= Rank(oldest, b)
      BY <2>2, BeforeIs DEF U
    <3>3. y \in U <=> Rank(oldest, t) <= Rank(oldest, b)
      BY <2>2, BeforeIs DEF U
    <3>4. Rank(oldest, t) < Rank(oldest, s) => y < x
      BY <2>2, SectorsOrdered
    <3> QED BY <1>2, <2>4, <3>1, <3>2, <3>3, <3>4
  <2> QED BY <2>5 DEF s, t
<1>5. PICK S \in SUBSET Stored : U \subseteq S /\ Lists(w, S, L)
  BY <1>3, <1>4, ReverseLists DEF U
<1>6. DOMAIN w = 1 .. Len(w) /\ Len(w) \in Nat
  BY <1>5 DEF Lists
<1>7. q = [k \in 1 .. Len(w) |-> w[k].time] /\ ToSet(q) = S
  BY <1>5, <1>6 DEF Times, Lists, ToSet
<1>8. Len(q) = Len(w) /\ Len(q) \in Nat
  BY <1>6, <1>7
<1>9. \A j \in 1 .. Len(q) : \A i \in 1 .. j - 1 : i \in 1 .. Len(q) /\ <<q[i], q[j]>> \in L
  <2>1. \A j \in 1 .. Len(q) : \A i \in 1 .. j - 1 : i \in 1 .. Len(q)
    BY <1>8
  <2> HIDE DEF w, q
  <2> QED BY <1>5, <1>6, <1>7, <1>8, <2>1 DEF Lists
<1>10. \A x \in U : \E i \in 1 .. Len(q) : q[i] = x
  BY <1>5, <1>7, <1>8 DEF ToSet
<1> HIDE DEF w, q
<1> DEFINE P == {i \in 1 .. Len(q) : q[i] \in U}
<1>11. PICK n \in 0 .. Len(q) : /\ \A i \in P : i <= n
                                /\ n = 0 \/ n \in P
  <2>1. CASE P = {}
    BY <1>8, <2>1
  <2>2. CASE P # {}
    <3>1. P \in SUBSET Nat /\ \A i \in P : i <= Len(q)
      OBVIOUS
    <3>2. PICK n \in P : \A i \in P : i <= n
      BY <1>8, <2>2, <3>1, GreatestNat
    <3> QED BY <3>2
  <2> QED BY <2>1, <2>2
<1>12. \A i \in 1 .. n : i \in 1 .. Len(q) /\ q[i] \in U
  <2> SUFFICES ASSUME NEW i \in 1 .. n PROVE i \in 1 .. Len(q) /\ q[i] \in U
    OBVIOUS
  <2>1. n \in P
    BY <1>11
  <2>2. CASE i = n
    BY <2>1, <2>2
  <2>3. CASE i # n
    <3>1. i \in 1 .. n - 1 /\ n \in 1 .. Len(q) /\ q[n] \in U
      BY <2>1, <2>3
    <3> QED BY <1>2, <1>9, <3>1
  <2> QED BY <2>2, <2>3
<1> DEFINE r == SubSeq(q, 1, n)
<1>13. r = [i \in 1 .. n |-> q[i]]
  <2>1. q \in Seq(S)
    BY <1>6, <1>7, <1>8 DEF ToSet
  <2> QED BY <1>8, <1>11, <2>1
<1> HIDE DEF r, P
<1>14. ToSet(r) = U
  <2>1. \A x \in U : \E i \in 1 .. n : q[i] = x
    <3> SUFFICES ASSUME NEW x \in U PROVE \E i \in 1 .. n : q[i] = x
      OBVIOUS
    <3>1. PICK i \in 1 .. Len(q) : q[i] = x
      BY <1>10
    <3>2. i <= n
      BY <1>11, <3>1 DEF P
    <3> QED BY <3>1, <3>2
  <2> QED BY <1>12, <1>13, <2>1 DEF ToSet
<1>15. \A j \in DOMAIN r : \A i \in 1 .. j - 1 : r[i] > r[j]
  <2> SUFFICES ASSUME NEW j \in 1 .. n, NEW i \in 1 .. j - 1 PROVE r[i] > r[j]
    BY <1>13
  <2>1. i \in 1 .. n /\ j \in 1 .. Len(q) /\ q[j] \in U
    BY <1>12
  <2>2. <<q[i], q[j]>> \in L
    BY <1>9, <2>1
  <2> QED BY <1>2, <1>13, <2>1, <2>2
<1>16. Descends(r, U)
  BY <1>14, <1>15 DEF Descends
<1> QED BY <1>16 DEF r, q, w, U

LEMMA StaleIs == SteadyInv => StaleBaseComplete
<1> SUFFICES ASSUME SteadyInv, Idle PROVE StaleBaseComplete
  BY DEF StaleBaseComplete
<1> QED BY StaleIter, StaleReverse DEF StaleBaseComplete, UpTo

-----------------------------------------------------------------------------
(* The first log of a sector *)

\* The start time in a sector header is that of its first log, and
\* db->cur_sec has it, and the time of the last log too.
HeadInv ==
    /\ \A s \in Sector : logs[s] # <<>> => start[s] = logs[s][1].time
    /\ pc = "startTime" => logs[cur.sec] = <<>> /\ cur.start = op.time
    /\ pc = "preWrite" /\ logs[cur.sec] = <<>> => start[cur.sec] = op.time
    /\ pc \in Rest \cup {"preWrite", "commit"} /\ cur.status = USING => cur.start = start[cur.sec]
    /\ pc \in Rest /\ cur.status = USING => cur.endTime = last

LEMMA HeadInit == Init => HeadInv
<1> SUFFICES ASSUME Init PROVE HeadInv
  OBVIOUS
<1>1. pc = "off" /\ \A s \in Sector : logs[s] = <<>>
  BY DEF Init
<1> QED BY <1>1 DEF HeadInv, Rest

LEMMA FirstKept ==
    ASSUME Types, Types', HeadInv, SameTimes, NEW s \in Sector, start'[s] = start[s], logs'[s] # <<>>
    PROVE  start'[s] = logs'[s][1].time
<1>1. logs'[s] \in Seq(Tsl) /\ Len(logs'[s]) = Len(logs[s]) /\ DOMAIN logs'[s] = DOMAIN logs[s]
  BY DEF SameTimes, Types
<1>2. Len(logs'[s]) # 0
  <2>1. PICK q \in Seq(Tsl) : q = logs'[s]
    BY <1>1
  <2>2. q # <<>> => Len(q) # 0
    OBVIOUS
  <2> QED BY <2>1, <2>2
<1>3. 1 \in DOMAIN logs[s] /\ logs[s] # <<>>
  BY <1>1, <1>2, LogFacts
<1> QED BY <1>3 DEF HeadInv, SameTimes

\* The logs stay, and either nothing is said of db->cur_sec or it stays too.
LEMMA HeadQuiet ==
    ASSUME Types, Types', OneInv, CurInv, HeadInv, SameTimes, start' = start,
           \/ pc' \notin Rest \cup Logging
           \/ pc' \in Rest /\ cur'.status # USING
           \/ UNCHANGED <<cur, last>> /\ pc' = pc /\ op' = op
           \/ UNCHANGED <<cur, last>> /\ pc \in Rest /\ pc' \in Rest
           \/ UNCHANGED <<cur, last>> /\ pc \in Rest /\ pc' = "preWrite" /\ cur.status = USING
    PROVE  HeadInv'
<1>1. \A s \in Sector : logs'[s] # <<>> => start'[s] = logs'[s][1].time
  BY FirstKept
<1>2. \A s \in Sector : logs'[s] = <<>> <=> logs[s] = <<>>
  <2>1. ASSUME NEW s \in Sector PROVE logs'[s] = <<>> <=> logs[s] = <<>>
    <3>1. logs'[s] \in Seq(Tsl) /\ Len(logs'[s]) = Len(logs[s]) /\ logs[s] \in Seq(Tsl)
      BY DEF SameTimes, Types
    <3>2. \A q \in Seq(Tsl) : q = <<>> <=> Len(q) = 0
      OBVIOUS
    <3> QED BY <3>1, <3>2
  <2> QED BY <2>1
<1>3. CASE pc' \notin Rest \cup Logging
  BY <1>1, <1>3 DEF HeadInv, Rest, Logging
<1>4. CASE pc' \in Rest /\ cur'.status # USING
  BY <1>1, <1>4 DEF HeadInv, Rest
<1>5. CASE UNCHANGED <<cur, last>> /\ pc' = pc /\ op' = op
  <2>1. pc \in {"startTime", "preWrite"} => cur.sec \in Sector
    BY DEF OneInv, Appending
  <2> QED BY <1>1, <1>2, <1>5, <2>1 DEF HeadInv, Rest
<1>6. CASE UNCHANGED <<cur, last>> /\ pc \in Rest /\ pc' \in Rest
  BY <1>1, <1>6 DEF HeadInv, Rest
<1>7. CASE UNCHANGED <<cur, last>> /\ pc \in Rest /\ pc' = "preWrite" /\ cur.status = USING
  <2>1. cur.sec \in Sector /\ logs[cur.sec] # <<>>
    BY <1>7 DEF OneInv, Resting, CurInv, Rest
  <2> QED BY <1>1, <1>2, <1>7, <2>1 DEF HeadInv, Rest
<1> QED BY <1>3, <1>4, <1>5, <1>6, <1>7

LEMMA HeadCall ==
    ASSUME Types, Types', OneInv, RingInv, CurInv, HeadInv,
           \/ \E len \in Lens, t \in Time : AppendTsl(len, t)
           \/ Clean \/ SetRollover \/ Deinit \/ Hang \/ Refuse \/ Mark \/ BootFailed \/ BootHang
           \/ EndStatus \/ EndWrite \/ EndSkip \/ FmtHdr \/ FormatNext
    PROVE  HeadInv'
<1>1. CASE Mark
  <2>1. UNCHANGED <<cur, last, pc, op, start>>
    BY <1>1 DEF Mark, SetStatus, ram
  <2> QED BY <1>1, <2>1, MarkIs, HeadQuiet
<1>2. CASE \E len \in Lens, t \in Time : AppendTsl(len, t)
  <2>1. pc = "idle" /\ cur.status \in {EMPTY, USING, FULL} /\ UNCHANGED <<cur, last, start, logs>>
    BY <1>2 DEF AppendTsl, RingInv, Live, Rest, Current, flash, ram
  <2>2. \/ pc' = "refuse" \/ pc' = "end" \/ pc' = "using"
        \/ pc' = "preWrite" /\ cur.status = USING
    BY <1>2, <2>1, WriteStatusIs DEF AppendTsl
  <2>3. SameTimes
    BY <2>1, SameLogs
  <2>4. \/ pc' \notin Rest \cup Logging
        \/ pc \in Rest /\ pc' \in Rest
        \/ pc \in Rest /\ pc' = "preWrite" /\ cur.status = USING
    BY <2>1, <2>2 DEF Rest, Logging
  <2> QED BY <2>1, <2>3, <2>4, HeadQuiet
<1>3. CASE Clean \/ SetRollover \/ Deinit \/ Hang \/ Refuse \/ BootFailed \/ BootHang
           \/ EndStatus \/ EndWrite \/ EndSkip
  <2>1. UNCHANGED <<start, logs>>
    BY <1>3 DEF Clean, SetRollover, Deinit, Hang, Refuse, BootFailed, BootHang, EndStatus, EndWrite,
                EndSkip, flash, vars
  <2>2. \/ pc' \notin Rest \cup Logging
        \/ UNCHANGED <<cur, last>> /\ pc' = pc /\ op' = op
        \/ UNCHANGED <<cur, last>> /\ pc \in Rest /\ pc' \in Rest
    BY <1>3 DEF Clean, SetRollover, Deinit, Hang, Refuse, Return, BootFailed, BootHang, EndStatus,
                EndWrite, EndSkip, ram, vars, Rest, Logging
  <2>3. SameTimes
    BY <2>1, SameLogs
  <2> QED BY <2>1, <2>2, <2>3, HeadQuiet
<1>4. CASE FmtHdr \/ FormatNext
  <2>1. UNCHANGED <<start, logs>> /\ pc' \notin Rest \cup Logging
    BY <1>4 DEF FmtHdr, FormatNext, WriteSectorHdr, Rest, Logging
  <2> QED BY <2>1, SameLogs, HeadQuiet
<1> QED BY <1>1, <1>2, <1>3, <1>4

\* The end of a format, and the sector that follows a full one.
LEMMA HeadTake ==
    ASSUME Types, Types', OneInv, RingInv, HeldInv, CurInv, HeadInv,
           FmtErase \/ FmtDone \/ MarkFull \/ EraseNext \/ UsingStatus \/ WriteStart
    PROVE  HeadInv'
<1>1. CASE FmtErase \/ EraseNext
  <2>1. pc' \notin Rest \cup Logging
    BY <1>1 DEF FmtErase, EraseNext, Rest, Logging
  <2>2. \/ UNCHANGED <<start, logs>>
        \/ \E s \in Sector : EraseSector(s)
    <3>1. pc = "erase" => cur.sec \in Sector
      BY DEF OneInv, Taking
    <3>2. fmt \in Sector
      BY DEF Types
    <3> QED BY <1>1, <3>1, <3>2 DEF FmtErase, EraseNext, flash
  <2>3. CASE UNCHANGED <<start, logs>>
    BY <2>1, <2>3, SameLogs, HeadQuiet
  <2>4. CASE \E s \in Sector : EraseSector(s)
    <3>1. PICK s \in Sector : EraseSector(s)
      BY <2>4
    <3>2. logs'[s] = <<>> /\ \A t \in Sector : t # s => logs'[t] = logs[t] /\ start'[t] = start[t]
      BY <3>1 DEF EraseSector, Types
    <3>3. \A t \in Sector : logs'[t] # <<>> => start'[t] = logs'[t][1].time
      BY <3>2 DEF HeadInv
    <3> QED BY <2>1, <3>3 DEF HeadInv, Rest, Logging
  <2> QED BY <2>2, <2>3, <2>4
<1>2. CASE FmtDone
  <2>1. magic[0] /\ store[0] = EMPTY
    BY <1>2, SectorFacts DEF FmtDone, OneInv, Formatting, Formatted
  <2>2. cur'.status = EMPTY /\ pc' = "idle" /\ UNCHANGED <<start, logs>>
    BY <1>2, <2>1 DEF FmtDone, ReadHdr, flash
  <2> QED BY <2>2, SameLogs, HeadQuiet, WriteStatusIs DEF Rest
<1>3. CASE MarkFull
  <2>1. \/ pc' \in {"using", "erase"}
        \/ pc' = "idle" /\ cur' = [cur EXCEPT !.status = FULL]
    BY <1>3 DEF MarkFull, Return
  <2>2. pc' = "idle" => cur'.status = FULL
    BY <2>1 DEF MarkFull, OneInv, HdrType, Fields
  <2>3. UNCHANGED <<start, logs>>
    BY <1>3 DEF MarkFull
  <2> QED BY <2>1, <2>2, <2>3, SameLogs, HeadQuiet, WriteStatusIs DEF Rest, Logging
<1>4. CASE UsingStatus
  <2>1. /\ pc = "using" /\ pc' = "startTime" /\ UNCHANGED <<logs, start, op>> /\ cur.sec \in Sector
        /\ store[cur.sec] = EMPTY
    BY <1>4 DEF UsingStatus, OneInv, Taking, Formatted
  <2>2. cur'.start = op.time /\ cur'.sec = cur.sec
    BY <1>4 DEF UsingStatus, OneInv, HdrType, Fields
  <2>3. logs[cur.sec] = <<>>
    BY <2>1 DEF HeldInv
  <2>4. \A s \in Sector : logs'[s] # <<>> => start'[s] = logs'[s][1].time
    BY <2>1 DEF HeadInv
  <2> QED BY <2>1, <2>2, <2>3, <2>4 DEF HeadInv, Rest
<1>5. CASE WriteStart
  <2>1. /\ pc = "startTime" /\ pc' = "preWrite" /\ UNCHANGED <<logs, op, cur>> /\ cur.sec \in Sector
        /\ logs[cur.sec] = <<>> /\ cur.start = op.time
    BY <1>5 DEF WriteStart, ram, OneInv, Appending, HeadInv
  <2>2. start'[cur.sec] = op.time /\ \A s \in Sector : s # cur.sec => start'[s] = start[s]
    BY <1>5, <2>1 DEF WriteStart, Types
  <2>3. \A s \in Sector : logs'[s] # <<>> => start'[s] = logs'[s][1].time
    BY <2>1, <2>2 DEF HeadInv
  <2> QED BY <2>1, <2>2, <2>3 DEF HeadInv, Rest
<1> QED BY <1>1, <1>2, <1>3, <1>4, <1>5

LEMMA HeadWrite ==
    ASSUME Types, Types', OneInv, RingInv, CurInv, HeadInv, PreWrite \/ Commit
    PROVE  HeadInv'
<1>1. CASE PreWrite
  <2>1. /\ pc = "preWrite" /\ pc' = "commit" /\ UNCHANGED <<start, cur>>
        /\ cur.sec \in Sector /\ \A t \in Sector : t # cur.sec => logs'[t] = logs[t]
        /\ \A i \in DOMAIN logs[cur.sec] : logs'[cur.sec][i] = logs[cur.sec][i]
        /\ logs'[cur.sec][Len(logs[cur.sec]) + 1]
             = [st |-> TSL_PRE_WRITE, time |-> op.time, len |-> op.len]
    BY <1>1, PreWriteIs DEF PreWrite, ram
  <2>2. start'[cur.sec] = logs'[cur.sec][1].time
    <3>1. CASE logs[cur.sec] = <<>>
      <4>1. Len(logs[cur.sec]) = 0 /\ start[cur.sec] = op.time
        BY <2>1, <3>1, LogFacts DEF HeadInv
      <4>2. Len(logs[cur.sec]) + 1 = 1
        BY <4>1
      <4> QED BY <2>1, <4>1, <4>2
    <3>2. CASE logs[cur.sec] # <<>>
      <4>1. 1 \in DOMAIN logs[cur.sec]
        BY <2>1, <3>2, LogFacts
      <4> QED BY <2>1, <3>2, <4>1 DEF HeadInv
    <3> QED BY <3>1, <3>2
  <2>3. \A s \in Sector : logs'[s] # <<>> => start'[s] = logs'[s][1].time
    BY <2>1, <2>2 DEF HeadInv
  <2> QED BY <2>1, <2>3 DEF HeadInv, Rest
<1>2. CASE Commit
  <2>1. /\ pc = "commit" /\ pc' = "idle" /\ start' = start /\ cur' = Appended /\ last' = op.time
        /\ cur.status = USING
    BY <1>2 DEF Commit, Return, OneInv, Appending
  <2>2. SameTimes
    BY <1>2, CommitIs
  <2>3. /\ cur'.start = cur.start /\ cur'.sec = cur.sec /\ cur'.status = cur.status
        /\ cur'.endTime = op.time
    BY <2>1 DEF Appended, Types, CurType
  <2>4. \A s \in Sector : logs'[s] # <<>> => start'[s] = logs'[s][1].time
    BY <2>1, <2>2, FirstKept
  <2>5. cur.start = start[cur.sec]
    BY <2>1 DEF HeadInv
  <2> QED BY <2>1, <2>3, <2>4, <2>5 DEF HeadInv
<1> QED BY <1>1, <1>2

LEMMA HeadBoot ==
    ASSUME Types, Types', OneInv, RingInv, HeldInv, OrderInv, CurInv, EndsInv, HeadInv, Boot
    PROVE  HeadInv'
<1>1. pc = "down"
  <2>1. ASSUME pc = "off" PROVE FALSE
    <3>1. \A s \in Sector : BadSector(s)
      BY <2>1 DEF RingInv, BadSector
    <3> QED BY <3>1, SectorFacts DEF Boot, Failed
  <2> QED BY <2>1 DEF Boot
<1>2. /\ cur.sec \in Sector /\ magic[cur.sec] /\ BootSec = cur.sec /\ BootSec # NoSec
      /\ store[cur.sec] = cur.status
  BY <1>1, DownFound, SectorFacts
<1>3. /\ logs' = logs /\ pc' = "idle" /\ cur'.sec = cur.sec /\ cur'.status = cur.status
      /\ cur.status \in {EMPTY, USING} /\ last' = last
  BY <1>1, BootFinds
<1>4. start' = start
  BY DEF Boot, flash
<1>5. PICK g \in Garbage : cur' = ReadAll(Leftover(cur.sec, g), cur.sec)
  BY <1>2 DEF Boot
<1>6. ASSUME cur.status = USING PROVE cur'.endTime = last /\ cur'.start = start[cur.sec]
  <2> DEFINE h == ReadHdr(Leftover(cur.sec, g), cur.sec)
             s == cur.sec
  <2>1. DOMAIN h = Fields /\ h.start = start[s]
    <3>1. DOMAIN h = Fields
      BY <1>2, LeftoverIs, ReadHdrIs
    <3> QED BY <1>2, <3>1 DEF ReadHdr
  <2>2. logs[s] # <<>> /\ Newest(s).time = last
    BY <1>1, <1>6 DEF CurInv, Rest
  <2>3. \A i \in DOMAIN logs[s] : Complete(logs[s][i])
    BY <1>1, <1>2 DEF OrderInv
  <2>4. Timed(s) = 1 .. Len(logs[s]) /\ Len(logs[s]) \in Timed(s) /\ Len(logs[s]) \in Nat
    BY <1>2, <2>2, <2>3, LogFacts DEF Timed
  <2>5. Max(Timed(s)) = Len(logs[s])
    <3>1. /\ Timed(s) \in SUBSET Int
          /\ \A n \in Timed(s) : n <= Len(logs[s])
      BY <2>4
    <3> QED BY <2>4, <3>1, MaxIs
  <2>6. TslTime(logs[s][Max(Timed(s))]) = last /\ Timed(s) # {}
    BY <2>2, <2>3, <2>4, <2>5 DEF TslTime, Newest, Timed
  <2>7. cur' = [h EXCEPT !.n = Len(logs[s]), !.room = Room(s),
                   !.endTime = IF Timed(s) = {} THEN @ ELSE TslTime(logs[s][Max(Timed(s))]),
                   !.end = IF logs[s] = <<>> THEN @ ELSE <<s, Len(logs[s]) - 1>>]
    BY <1>2, <1>5, <1>6 DEF ReadAll
  <2> HIDE DEF h
  <2>8. cur'.start = h.start /\ cur'.endTime = last
    BY <2>1, <2>6, <2>7 DEF Fields
  <2> QED BY <2>1, <2>8
<1>7. \A s \in Sector : logs'[s] # <<>> => start'[s] = logs'[s][1].time
  BY <1>3, <1>4 DEF HeadInv
<1> QED BY <1>3, <1>4, <1>6, <1>7 DEF HeadInv

LEMMA HeadNext ==
    ASSUME SteadyInv, HeadInv, Steady, [Next]_vars
    PROVE  HeadInv'
<1>0. Types /\ OneInv /\ RingInv /\ HeldInv /\ OrderInv /\ CurInv /\ EndsInv /\ Types'
  BY TypesNext DEF SteadyInv, LogInv
<1>1. CASE UNCHANGED vars
  BY <1>1 DEF HeadInv, Rest, vars, flash, ram
<1>2. CASE Next
  <2>1. ~StrayWrite
    BY <1>0 DEF StrayWrite, RingInv
  <2>2. ~Crash
    <3>1. crashes = 0
      BY <1>0 DEF Types, Steady
    <3> QED BY <3>1 DEF Crash, Steady
  <2>3. CASE Refuse \/ (\E len \in Lens, t \in Time : AppendTsl(len, t)) \/ Clean \/ SetRollover
             \/ Deinit \/ Hang \/ Mark \/ BootFailed \/ BootHang
    BY <1>0, <2>3, HeadCall
  <2>4. CASE Boot
    BY <1>0, <2>4, HeadBoot
  <2>5. CASE FormatAll \/ TakeSector
    BY <1>0, <2>5, HeadCall, HeadTake DEF TakeSector, FormatAll
  <2>6. CASE PreWrite \/ Commit
    BY <1>0, <2>6, HeadWrite
  <2> QED BY <1>2, <2>1, <2>2, <2>3, <2>4, <2>5, <2>6 DEF Next, Step, Call
<1> QED BY <1>1, <1>2

-----------------------------------------------------------------------------
(* The binary search *)

\* The start and end times that the iterators compare with.
LEMMA SectorEnds ==
    ASSUME SteadyInv, HeadInv, Idle, NEW s \in Sector, HasTsl(s)
    PROVE  Info(s).start = logs[s][1].time /\ Info(s).endTime = logs[s][Len(logs[s])].time
<1>1. RingInv /\ HeldInv /\ CurInv /\ EndsInv /\ Types /\ pc = "idle"
  BY DEF SteadyInv, LogInv, Idle
<1>2. /\ magic[s] /\ cur.sec \in Sector /\ (Young \/ Round)
      /\ cur.status \in {EMPTY, USING, FULL} /\ store[cur.sec] = cur.status
  BY <1>1 DEF RingInv, Live, Rest, Current
<1>3. logs[s] # <<>> /\ start[s] = logs[s][1].time /\ Len(logs[s]) > 0
  <2>1. Len(logs[s]) > 0
    BY IdleSector
  <2>2. logs[s] # <<>>
    BY <1>1, <2>1, LogFacts
  <2> QED BY <2>1, <2>2 DEF HeadInv
<1>4. CASE store[s] = USING
  <2>1. Info(s) = cur
    BY <1>4 DEF Info
  <2>2. s = cur.sec
    <3>1. s < cur.sec \/ s > cur.sec \/ s = cur.sec
      <4>1. s \in Nat /\ cur.sec \in Nat
        BY <1>2, SectorFacts
      <4> QED BY <4>1
    <3> QED BY <1>2, <1>4, <3>1, WriteStatusIs DEF Young, Round
  <2>3. cur.status = USING
    BY <1>2, <1>4, <2>2
  <2>4. cur.start = start[s] /\ cur.endTime = last /\ Newest(s).time = last
    BY <1>1, <2>2, <2>3 DEF HeadInv, CurInv, Rest
  <2> QED BY <1>3, <2>1, <2>4 DEF Newest
<1>5. CASE store[s] # USING
  <2>1. store[s] = FULL /\ Info(s) = ReadHdr(NoInfo, s)
    BY <1>5 DEF HasTsl, Info
  <2>2. EndOf(s)
    BY <1>1, <2>1 DEF EndsInv
  <2>3. EndInfo(s) = {ends[s][1]}
    BY <2>2 DEF EndInfo, EndOf
  <2> DEFINE e == CHOOSE e \in EndInfo(s) : TRUE
  <2>4. e = ends[s][1] /\ EndInfo(s) # {}
    BY <2>3
  <2>5. ReadHdr(NoInfo, s) =
          [sec |-> s, status |-> store[s], start |-> start[s],
           st |-> <<ends[s][1].st, ends[s][2].st>>, endTime |-> e.time, end |-> <<s, e.slot>>,
           n |-> 0, room |-> Cap]
    BY <1>2, <2>4 DEF ReadHdr
  <2> HIDE DEF e
  <2>6. ReadHdr(NoInfo, s).start = start[s] /\ ReadHdr(NoInfo, s).endTime = e.time
    BY <2>5
  <2> QED BY <1>3, <2>1, <2>2, <2>4, <2>6 DEF EndOf, Newest
<1> QED BY <1>4, <1>5

\* What the first k rounds of the search leave, after a.
Rounds(s, from, a, k, f) ==
    f = [n \in 0 .. k |-> IF n = 0 THEN a ELSE Halve(s, from, f[n - 1])]

\* There may be any number of them.
LEMMA HalvesTo ==
    ASSUME NEW s, NEW from, NEW a, NEW k \in Nat
    PROVE  \E f : Rounds(s, from, a, k, f)
<1> DEFINE Goes(j, f) == f = [n \in 0 .. j |-> IF n = 0 THEN a ELSE Halve(s, from, f[n - 1])]
           Bad == {j \in Nat : ~\E f : Goes(j, f)}
<1>1. SUFFICES ASSUME Bad # {} PROVE FALSE
  <2>1. \E f : Goes(k, f)
    BY <1>1
  <2> QED BY <2>1 DEF Rounds
<1>2. PICK m \in Bad : \A j \in Bad : m <= j
  <2>1. Bad \in SUBSET Nat
    OBVIOUS
  <2> QED BY <1>1, <2>1, LeastNat
<1>3. m # 0
  <2>1. Goes(0, [n \in 0 .. 0 |-> a])
    <3>1. \A n \in 0 .. 0 : n = 0
      OBVIOUS
    <3> QED BY <3>1
  <2> QED BY <1>2, <2>1
<1>4. m - 1 \in Nat /\ ~(m <= m - 1) /\ m \in Nat
  BY <1>3
<1>5. PICK f : Goes(m - 1, f)
  BY <1>2, <1>4
<1> DEFINE g == [n \in 0 .. m |-> IF n = m THEN Halve(s, from, f[m - 1]) ELSE f[n]]
<1>6. \A n \in 0 .. m - 1 : f[n] = IF n = 0 THEN a ELSE Halve(s, from, f[n - 1])
  BY <1>5
<1>7. ASSUME NEW n \in 0 .. m PROVE g[n] = IF n = 0 THEN a ELSE Halve(s, from, g[n - 1])
  <2>1. CASE n = m
    <3>1. m - 1 \in 0 .. m /\ m - 1 # m
      BY <1>4
    <3> QED BY <1>3, <1>4, <2>1, <3>1
  <2>2. CASE n # m
    <3>1. n \in 0 .. m - 1
      BY <1>4, <2>2
    <3>2. n # 0 => n - 1 \in 0 .. m /\ n - 1 # m
      BY <1>4, <3>1
    <3> QED BY <1>6, <2>2, <3>1, <3>2
  <2> QED BY <2>1, <2>2
<1>8. Goes(m, g)
  BY <1>7
<1> QED BY <1>2, <1>8

\* `from' is the time of the slot in the middle.
Hit(s, from, r) == r.lo <= r.hi /\ Slot(s, Mid(r)).time = from

\* Where `from' may be after k rounds.
Left(s, from, k, r) ==
    /\ r \in [lo : Int, hi : Int] /\ 0 <= r.lo /\ r.hi <= Len(logs[s]) - 1 /\ r.lo <= r.hi + 1
    /\ \A i \in 1 .. Len(logs[s]) : /\ i <= r.lo => logs[s][i].time < from
                                    /\ i > r.hi + 1 => logs[s][i].time > from
    /\ Hit(s, from, r) \/ r.hi - r.lo + 1 <= Len(logs[s]) - k

LEMMA MidIs ==
    ASSUME NEW r \in [lo : Int, hi : Int], r.lo <= r.hi
    PROVE  Mid(r) \in Int /\ r.lo <= Mid(r) /\ Mid(r) <= r.hi
BY DEF Mid

LEMMA LoHiIs ==
    ASSUME NEW r \in [lo : Int, hi : Int], NEW x \in Int
    PROVE  /\ [r EXCEPT !.lo = x] \in [lo : Int, hi : Int]
           /\ [r EXCEPT !.lo = x].lo = x /\ [r EXCEPT !.lo = x].hi = r.hi
           /\ [r EXCEPT !.hi = x] \in [lo : Int, hi : Int]
           /\ [r EXCEPT !.hi = x].hi = x /\ [r EXCEPT !.hi = x].lo = r.lo
OBVIOUS

LEMMA HalveIs ==
    ASSUME SteadyInv, Idle, NEW s \in Sector, NEW from \in Int, NEW k \in Nat, k < Len(logs[s]),
           NEW r, Left(s, from, k, r)
    PROVE  Left(s, from, k + 1, Halve(s, from, r))
<1> DEFINE n == Len(logs[s])
           m == Mid(r)
<1>1. n \in Nat /\ k + 1 <= n /\ DOMAIN logs[s] = 1 .. n /\ \A i \in 1 .. n : logs[s][i].time \in Int
  BY IdleSector
<1>2. \A i, j \in 1 .. n : i < j => logs[s][i].time < logs[s][j].time
  BY <1>1 DEF SteadyInv, LogInv, OrderInv
<1>3. /\ r \in [lo : Int, hi : Int] /\ r.lo \in Int /\ r.hi \in Int
      /\ 0 <= r.lo /\ r.hi <= n - 1 /\ r.lo <= r.hi + 1
      /\ \A i \in 1 .. n : (i <= r.lo => logs[s][i].time < from)
                           /\ (i > r.hi + 1 => logs[s][i].time > from)
  BY DEF Left
<1>4. CASE r.lo > r.hi \/ Hit(s, from, r)
  <2>1. Halve(s, from, r) = r
    BY <1>4 DEF Halve, Hit
  <2>2. Hit(s, from, r) \/ r.hi - r.lo + 1 <= n - (k + 1)
    BY <1>1, <1>3, <1>4
  <2> QED BY <2>1, <2>2 DEF Left
<1>5. CASE r.lo <= r.hi /\ ~Hit(s, from, r)
  <2>1. m \in Int /\ r.lo <= m /\ m <= r.hi /\ m + 1 \in 1 .. n /\ (m + 1) - 1 = m
    BY <1>1, <1>3, <1>5, MidIs
  <2>2. Slot(s, m).time = logs[s][m + 1].time
    <3>1. Slot(s, (m + 1) - 1).time = logs[s][m + 1].time
      BY <2>1, SlotIs
    <3> QED BY <2>1, <3>1
  <2>3. logs[s][m + 1].time # from /\ logs[s][m + 1].time \in Int
    BY <1>1, <1>5, <2>1, <2>2 DEF Hit
  <2>4. ~(r.hi - r.lo + 1 > n - k) /\ ~(r.lo > r.hi) /\ Slot(s, m).time # from
    BY <1>1, <1>3, <1>5 DEF Left, Hit
  <2> HIDE DEF m, n
  <2>5. CASE logs[s][m + 1].time < from
    <3>1. Halve(s, from, r) = [r EXCEPT !.lo = m + 1]
      BY <2>2, <2>4, <2>5 DEF Halve, m
    <3>2. \A i \in 1 .. n : i <= m + 1 => logs[s][i].time < from
      <4>1. \A i \in 1 .. n : i <= m + 1 => i < m + 1 \/ i = m + 1
        BY <1>1, <2>1
      <4>2. \A i \in 1 .. n : i < m + 1 => logs[s][i].time < logs[s][m + 1].time
        BY <1>2, <2>1
      <4> QED BY <1>1, <2>3, <2>5, <4>1, <4>2
    <3> DEFINE h == [r EXCEPT !.lo = m + 1]
    <3>3. h \in [lo : Int, hi : Int] /\ h.lo = m + 1 /\ h.hi = r.hi
      <4>1. m + 1 \in Int
        BY <2>1
      <4> QED BY <1>3, <4>1, LoHiIs
    <3> HIDE DEF h
    <3>4. 0 <= h.lo /\ h.hi <= n - 1 /\ h.lo <= h.hi + 1 /\ h.hi - h.lo + 1 <= n - (k + 1)
      BY <1>1, <1>3, <2>1, <2>4, <3>3
    <3>5. \A i \in 1 .. n : (i <= h.lo => logs[s][i].time < from)
                            /\ (i > h.hi + 1 => logs[s][i].time > from)
      BY <1>3, <3>2, <3>3
    <3>6. Left(s, from, k + 1, h)
      BY <3>3, <3>4, <3>5 DEF Left, n
    <3> QED BY <3>1, <3>6 DEF h
  <2>6. CASE ~(logs[s][m + 1].time < from)
    <3>1. Halve(s, from, r) = [r EXCEPT !.hi = m - 1]
      BY <2>2, <2>4, <2>6 DEF Halve, m
    <3>2. \A i \in 1 .. n : i > m => logs[s][i].time > from
      <4>1. \A i \in 1 .. n : i > m => m + 1 < i \/ i = m + 1
        BY <1>1, <2>1
      <4>2. \A i \in 1 .. n : m + 1 < i => logs[s][m + 1].time < logs[s][i].time
        BY <1>2, <2>1
      <4>3. logs[s][m + 1].time > from
        BY <2>3, <2>6
      <4>4. ASSUME NEW i \in 1 .. n, i > m PROVE logs[s][i].time > from
        <5>1. logs[s][i].time \in Int /\ logs[s][m + 1].time \in Int
          BY <1>1, <2>1
        <5>2. logs[s][m + 1].time < logs[s][i].time \/ logs[s][i].time = logs[s][m + 1].time
          BY <4>1, <4>2, <4>4
        <5> QED BY <4>3, <5>1, <5>2
      <4> QED BY <4>4
    <3> DEFINE h == [r EXCEPT !.hi = m - 1]
    <3>3. h \in [lo : Int, hi : Int] /\ h.lo = r.lo /\ h.hi = m - 1 /\ h.hi + 1 = m
      <4>1. m - 1 \in Int /\ (m - 1) + 1 = m
        BY <2>1
      <4> QED BY <1>3, <4>1, LoHiIs
    <3> HIDE DEF h
    <3>4. 0 <= h.lo /\ h.hi <= n - 1 /\ h.lo <= h.hi + 1 /\ h.hi - h.lo + 1 <= n - (k + 1)
      BY <1>1, <1>3, <2>1, <2>4, <3>3
    <3>5. \A i \in 1 .. n : (i <= h.lo => logs[s][i].time < from)
                            /\ (i > h.hi + 1 => logs[s][i].time > from)
      BY <1>3, <3>2, <3>3
    <3>6. Left(s, from, k + 1, h)
      BY <3>3, <3>4, <3>5 DEF Left, n
    <3> QED BY <3>1, <3>6 DEF h
  <2> QED BY <2>5, <2>6
<1> QED BY <1>3, <1>4, <1>5

\* Where the search ends.
LEMMA LeftAll ==
    ASSUME SteadyInv, Idle, NEW s \in Sector, HasTsl(s), NEW from \in Int, NEW to \in Int
    PROVE  \E r : /\ Left(s, from, Len(logs[s]), r)
                  /\ Search(s, from, to) =
                       IF r.lo <= r.hi THEN Mid(r)
                       ELSE IF from > to /\ Slot(s, r.lo).time > from THEN r.lo - 1 ELSE r.lo
<1> DEFINE n == Len(logs[s])
           a == [lo |-> 0, hi |-> EndSlot(s)]
           f == CHOOSE f : f = [k \in 0 .. EndSlot(s) + 1 |->
                                  IF k = 0 THEN a ELSE Halve(s, from, f[k - 1])]
           r == f[EndSlot(s) + 1]
<1>1. n \in Nat /\ n > 0 /\ EndSlot(s) = n - 1 /\ EndSlot(s) + 1 = n
  BY IdleSector
<1>2. Search(s, from, to) =
        IF r.lo <= r.hi THEN Mid(r)
        ELSE IF from > to /\ Slot(s, r.lo).time > from THEN r.lo - 1 ELSE r.lo
  BY DEF Search
<1>3. f = [k \in 0 .. n |-> IF k = 0 THEN a ELSE Halve(s, from, f[k - 1])]
  <2> DEFINE c == CHOOSE g : Rounds(s, from, a, EndSlot(s) + 1, g)
  <2>1. EndSlot(s) + 1 \in Nat
    BY <1>1
  <2>2. \E g : Rounds(s, from, a, EndSlot(s) + 1, g)
    BY <2>1, HalvesTo
  <2>3. Rounds(s, from, a, EndSlot(s) + 1, c)
    BY <2>2
  <2>4. f = c
    BY DEF Rounds
  <2> HIDE DEF f, c
  <2> QED BY <1>1, <2>3, <2>4 DEF Rounds
<1> HIDE DEF f
<1>4. Left(s, from, 0, f[0])
  <2>1. f[0] = a
    BY <1>1, <1>3
  <2>2. a \in [lo : Int, hi : Int] /\ a.lo = 0 /\ a.hi = n - 1 /\ n - 1 \in Int
    BY <1>1
  <2> HIDE DEF a
  <2>3. \A i \in 1 .. n : ~(i <= a.lo) /\ ~(i > a.hi + 1)
    BY <1>1, <2>2
  <2>4. 0 <= a.lo /\ a.hi <= n - 1 /\ a.lo <= a.hi + 1 /\ a.hi - a.lo + 1 <= n - 0
    BY <1>1, <2>2
  <2> QED BY <2>1, <2>2, <2>3, <2>4 DEF Left
<1>5. \A k \in 1 .. n : Left(s, from, k - 1, f[k - 1]) => Left(s, from, k, f[k])
  <2>1. ASSUME NEW k \in 1 .. n, Left(s, from, k - 1, f[k - 1]) PROVE Left(s, from, k, f[k])
    <3>1. k - 1 \in Nat /\ k - 1 < n /\ (k - 1) + 1 = k /\ k # 0 /\ k \in 0 .. n
      BY <1>1
    <3>2. f[k] = Halve(s, from, f[k - 1])
      BY <1>3, <3>1
    <3> HIDE DEF n
    <3>3. Left(s, from, (k - 1) + 1, Halve(s, from, f[k - 1]))
      BY <2>1, <3>1, HalveIs DEF n
    <3> QED BY <3>1, <3>2, <3>3
  <2> QED BY <2>1
<1>6. Left(s, from, n, f[n])
  <2> DEFINE Bad == {k \in 0 .. n : ~Left(s, from, k, f[k])}
  <2> HIDE DEF n
  <2>1. SUFFICES ASSUME Bad # {} PROVE FALSE
    BY <1>1
  <2>2. PICK m \in Bad : \A j \in Bad : m <= j
    <3>1. Bad \in SUBSET Nat
      OBVIOUS
    <3> QED BY <2>1, <3>1, LeastNat
  <2>3. m # 0
    BY <1>4, <2>2
  <2>4. m - 1 \in 0 .. n /\ m \in 1 .. n /\ ~(m <= m - 1)
    BY <1>1, <2>3
  <2>5. Left(s, from, m - 1, f[m - 1])
    BY <2>2, <2>4
  <2> QED BY <1>5, <2>2, <2>4, <2>5
<1>7. r = f[n]
  BY <1>1
<1> QED BY <1>2, <1>6, <1>7

\* What the iteration forwards starts at: the first log that is not earlier.
LEMMA SearchForward ==
    ASSUME SteadyInv, Idle, NEW s \in Sector, HasTsl(s), NEW from \in Int, NEW to \in Int, from <= to,
           NEW e \in 1 .. Len(logs[s]), logs[s][e].time >= from
    PROVE  /\ Search(s, from, to) \in 0 .. Len(logs[s]) - 1
           /\ \A j \in 1 .. Len(logs[s]) : j > Search(s, from, to) <=> logs[s][j].time >= from
<1> DEFINE n == Len(logs[s])
           m == Search(s, from, to)
<1>1. n \in Nat /\ DOMAIN logs[s] = 1 .. n /\ \A i \in 1 .. n : logs[s][i].time \in Int
  BY IdleSector
<1>2. \A i, j \in 1 .. n : i < j => logs[s][i].time < logs[s][j].time
  BY <1>1 DEF SteadyInv, LogInv, OrderInv
<1>3. PICK r : /\ Left(s, from, n, r)
               /\ m = IF r.lo <= r.hi THEN Mid(r)
                      ELSE IF from > to /\ Slot(s, r.lo).time > from THEN r.lo - 1 ELSE r.lo
  BY LeftAll
<1> HIDE DEF n, m
<1>4. /\ r.lo \in Int /\ r.hi \in Int /\ r \in [lo : Int, hi : Int]
      /\ 0 <= r.lo /\ r.hi <= n - 1 /\ r.lo <= r.hi + 1
      /\ \A i \in 1 .. n : (i <= r.lo => logs[s][i].time < from)
                           /\ (i > r.hi + 1 => logs[s][i].time > from)
  BY <1>3 DEF Left, n
<1>5. CASE r.lo <= r.hi
  <2>1. m = Mid(r) /\ m \in Int /\ r.lo <= m /\ m <= r.hi /\ m + 1 \in 1 .. n /\ (m + 1) - 1 = m
    BY <1>1, <1>3, <1>4, <1>5, MidIs
  <2>2. Slot(s, m).time = from
    <3>1. ~(r.hi - r.lo + 1 <= n - n)
      BY <1>1, <1>4, <1>5
    <3> QED BY <1>3, <2>1, <3>1 DEF Left, Hit, n
  <2>3. logs[s][m + 1].time = from
    <3>1. Slot(s, (m + 1) - 1).time = logs[s][m + 1].time
      BY <2>1, SlotIs DEF n
    <3> QED BY <2>1, <2>2, <3>1
  <2>4. ASSUME NEW j \in 1 .. n PROVE j > m <=> logs[s][j].time >= from
    <3>1. j < m + 1 \/ j = m + 1 \/ m + 1 < j
      BY <1>1, <2>1
    <3>2. j > m <=> ~(j < m + 1)
      BY <1>1, <2>1
    <3> QED BY <1>1, <1>2, <2>1, <2>3, <3>1, <3>2
  <2> QED BY <1>1, <2>1, <2>4 DEF n, m
<1>6. CASE ~(r.lo <= r.hi)
  <2>1. m = r.lo /\ r.lo = r.hi + 1
    BY <1>3, <1>4, <1>6
  <2>2. \A j \in 1 .. n : (j <= m => logs[s][j].time < from) /\ (j > m => logs[s][j].time > from)
    BY <1>4, <2>1
  <2>3. e > m /\ e \in 1 .. n
    <3>1. e \in 1 .. n
      BY DEF n
    <3> QED BY <1>1, <1>4, <2>1, <2>2, <3>1
  <2>4. m \in 0 .. n - 1
    BY <1>1, <1>4, <2>1, <2>3
  <2>5. \A j \in 1 .. n : j > m <=> logs[s][j].time >= from
    BY <1>1, <2>2, <2>4
  <2> QED BY <2>4, <2>5 DEF n, m
<1> QED BY <1>5, <1>6

\* ... and backwards: the last log that is not later, or the free space
\* behind the last log of all.
LEMMA SearchBackward ==
    ASSUME SteadyInv, Idle, NEW s \in Sector, HasTsl(s), Room(s) > 0,
           NEW from \in Nat, NEW to \in Int, from > to,
           NEW e \in 1 .. Len(logs[s]), logs[s][e].time <= from
    PROVE  /\ Search(s, from, to) \in 0 .. Len(logs[s])
           /\ \A j \in 1 .. Len(logs[s]) : j <= Search(s, from, to) + 1 <=> logs[s][j].time <= from
<1> DEFINE n == Len(logs[s])
           m == Search(s, from, to)
<1>1. n \in Nat /\ DOMAIN logs[s] = 1 .. n /\ \A i \in 1 .. n : logs[s][i].time \in Int
  BY IdleSector
<1>2. \A i, j \in 1 .. n : i < j => logs[s][i].time < logs[s][j].time
  BY <1>1 DEF SteadyInv, LogInv, OrderInv
<1>3. PICK r : /\ Left(s, from, n, r)
               /\ m = IF r.lo <= r.hi THEN Mid(r)
                      ELSE IF from > to /\ Slot(s, r.lo).time > from THEN r.lo - 1 ELSE r.lo
  BY LeftAll
<1>0. Slot(s, n).time = 0
  <2>1. n \notin 0 .. n - 1 /\ n >= 0
    BY <1>1
  <2> QED BY <2>1 DEF Slot, Blank
<1> HIDE DEF n, m
<1>4. /\ r.lo \in Int /\ r.hi \in Int /\ r \in [lo : Int, hi : Int]
      /\ 0 <= r.lo /\ r.hi <= n - 1 /\ r.lo <= r.hi + 1
      /\ \A i \in 1 .. n : (i <= r.lo => logs[s][i].time < from)
                           /\ (i > r.hi + 1 => logs[s][i].time > from)
  BY <1>3 DEF Left, n
<1>5. CASE r.lo <= r.hi
  <2>1. m = Mid(r) /\ m \in Int /\ r.lo <= m /\ m <= r.hi /\ m + 1 \in 1 .. n /\ (m + 1) - 1 = m
    BY <1>1, <1>3, <1>4, <1>5, MidIs
  <2>2. Slot(s, m).time = from
    <3>1. ~(r.hi - r.lo + 1 <= n - n)
      BY <1>1, <1>4, <1>5
    <3> QED BY <1>3, <2>1, <3>1 DEF Left, Hit, n
  <2>3. logs[s][m + 1].time = from
    <3>1. Slot(s, (m + 1) - 1).time = logs[s][m + 1].time
      BY <2>1, SlotIs DEF n
    <3> QED BY <2>1, <2>2, <3>1
  <2>4. ASSUME NEW j \in 1 .. n PROVE j <= m + 1 <=> logs[s][j].time <= from
    <3>1. j < m + 1 \/ j = m + 1 \/ m + 1 < j
      BY <1>1, <2>1
    <3>2. j <= m + 1 <=> ~(m + 1 < j)
      BY <1>1, <2>1
    <3> QED BY <1>1, <1>2, <2>1, <2>3, <3>1, <3>2
  <2> QED BY <1>1, <2>1, <2>4 DEF n, m
<1>6. CASE ~(r.lo <= r.hi)
  <2>1. /\ r.lo = r.hi + 1 /\ r.lo \in 0 .. n
        /\ m = IF Slot(s, r.lo).time > from THEN r.lo - 1 ELSE r.lo
    BY <1>1, <1>3, <1>4, <1>6
  <2>2. \A j \in 1 .. n : (j <= r.lo => logs[s][j].time < from)
                          /\ (j > r.lo => logs[s][j].time > from)
    BY <1>4, <2>1
  <2>3. e <= r.lo /\ e \in 1 .. n
    <3>1. e \in 1 .. n
      BY DEF n
    <3> QED BY <1>1, <1>4, <2>1, <2>2, <3>1
  <2>4. CASE r.lo = n
    <3>1. m = n
      BY <1>0, <1>1, <2>1, <2>4
    <3>2. m \in 0 .. n
      BY <1>1, <3>1
    <3>3. ASSUME NEW j \in 1 .. n PROVE j <= m + 1 <=> logs[s][j].time <= from
      <4>1. j <= r.lo /\ j <= m + 1 /\ logs[s][j].time \in Int
        BY <1>1, <2>4, <3>1
      <4>2. logs[s][j].time < from
        BY <2>2, <4>1
      <4> QED BY <4>1, <4>2
    <3> QED BY <3>2, <3>3 DEF n, m
  <2>5. CASE r.lo # n
    <3>1. r.lo + 1 \in 1 .. n /\ (r.lo + 1) - 1 = r.lo /\ r.lo + 1 > r.lo
      BY <1>1, <2>1, <2>5
    <3>2. Slot(s, (r.lo + 1) - 1).time = logs[s][r.lo + 1].time
      BY <3>1, SlotIs DEF n
    <3>3. m = r.lo - 1
      BY <2>1, <2>2, <3>1, <3>2
    <3>4. m \in 0 .. n /\ m + 1 = r.lo
      BY <1>1, <2>1, <2>3, <3>3
    <3>5. ASSUME NEW j \in 1 .. n PROVE j <= m + 1 <=> logs[s][j].time <= from
      <4>1. logs[s][j].time \in Int /\ (j <= r.lo \/ j > r.lo)
        BY <1>1, <2>1
      <4>2. /\ j <= r.lo => logs[s][j].time < from
            /\ j > r.lo => logs[s][j].time > from
        BY <2>2
      <4> QED BY <2>1, <3>4, <4>1, <4>2
    <3> QED BY <3>4, <3>5 DEF n, m
  <2> QED BY <2>4, <2>5
<1> QED BY <1>5, <1>6

-----------------------------------------------------------------------------
(* A sector of fdb_tsl_iter_by_time *)

\* The order in which the logs of the range are reported.
Dir(from, to) == IF from <= to THEN Rising ELSE Falling

LEMMA DirIs ==
    ASSUME NEW from \in Int, NEW to \in Int
    PROVE  LET L == Dir(from, to) IN
           /\ \A x \in Int : InRange(x, from, to) <=> <<x, from>> \notin L /\ <<to, x>> \notin L
           /\ \A x, y \in Int : <<x, y>> \in L <=> IF from <= to THEN x < y ELSE x > y
           /\ \A x, y, z \in Int : <<x, y>> \in L /\ <<y, z>> \in L => <<x, z>> \in L
           /\ \A x, y, z \in Int : <<x, y>> \notin L /\ <<x, z>> \in L => <<z, y>> \notin L
           /\ \A x \in Int : <<to, x>> \in L => <<x, from>> \notin L
<1> DEFINE L == Dir(from, to)
<1>1. \A x, y \in Int : <<x, y>> \in L <=> IF from <= to THEN x < y ELSE x > y
  BY DEF Dir, Rising, Falling
<1> HIDE DEF L
<1>2. \A x \in Int : InRange(x, from, to) <=> <<x, from>> \notin L /\ <<to, x>> \notin L
  BY <1>1 DEF InRange
<1>3. \A x, y, z \in Int : <<x, y>> \in L /\ <<y, z>> \in L => <<x, z>> \in L
  BY <1>1
<1>4. \A x, y, z \in Int : <<x, y>> \notin L /\ <<x, z>> \in L => <<z, y>> \notin L
  BY <1>1
<1>5. \A x \in Int : <<to, x>> \in L => <<x, from>> \notin L
  BY <1>1
<1> QED BY <1>1, <1>2, <1>3, <1>4, <1>5 DEF L

\* The timestamps of the logs among the slots p.
Logged(p) == {p[k].time : k \in {j \in DOMAIN p : p[j].st # TSL_UNUSED}}

\* Slots whose logs are in order and do not come before the range.
Follows(p, from, to) ==
    /\ p \in Seq(Entry)
    /\ \A k \in DOMAIN p : p[k].st # TSL_UNUSED => <<p[k].time, from>> \notin Dir(from, to)
    /\ \A k \in DOMAIN p : \A j \in 1 .. k - 1 :
         p[j].st # TSL_UNUSED /\ p[k].st # TSL_UNUSED => <<p[j].time, p[k].time>> \in Dir(from, to)

\* What is reported of them: the logs in the range; one that is behind it
\* ends the iteration.
LEMMA WalkLists ==
    ASSUME NEW s, NEW i, NEW from \in Int, NEW to \in Int, Follows(Path(s, i, from, to), from, to)
    PROVE  LET w == Walk(s, i, from, to)
               S == Logged(Path(s, i, from, to)) IN
           /\ Lists(w.out, {x \in S : InRange(x, from, to)}, Dir(from, to))
           /\ w.exit <=> \E x \in S : <<to, x>> \in Dir(from, to)
<1> DEFINE p == Path(s, i, from, to)
           n == Len(p)
<1>a. /\ p = Path(s, i, from, to) /\ Len(p) = n /\ n \in Nat /\ DOMAIN p = 1 .. n /\ p \in Seq(Entry)
      /\ \A k \in 1 .. n : p[k].st # TSL_UNUSED => <<p[k].time, from>> \notin Dir(from, to)
      /\ \A k \in 1 .. n : \A j \in 1 .. k - 1 :
           p[j].st # TSL_UNUSED /\ p[k].st # TSL_UNUSED => <<p[j].time, p[k].time>> \in Dir(from, to)
  <2>1. p \in Seq(Entry)
    BY DEF Follows
  <2>2. n \in Nat /\ DOMAIN p = 1 .. n
    BY <2>1
  <2> QED BY <2>1, <2>2 DEF Follows
<1>b. Logged(Path(s, i, from, to)) = {p[k].time : k \in {j \in 1 .. n : p[j].st # TSL_UNUSED}}
  BY <1>a DEF Logged
<1> HIDE DEF p, n
<1> USE <1>a
<1> DEFINE L == Dir(from, to)
           S == {p[k].time : k \in {j \in 1 .. n : p[j].st # TSL_UNUSED}}
           outside == {k \in DOMAIN p : p[k].st # TSL_UNUSED /\ ~InRange(p[k].time, from, to)}
           upTo == IF outside = {} THEN Len(p) ELSE Min(outside) - 1
           w == [k \in 1 .. upTo |-> IF p[k].st = TSL_UNUSED THEN <<>> ELSE <<p[k]>>]
           T == [k \in 1 .. upTo |-> IF p[k].st = TSL_UNUSED THEN {} ELSE {p[k].time}]
<1>0. Len(p) = n /\ \A k \in 1 .. n : p[k] \in Entry /\ p[k].time \in Int
  <2>1. Len(p) = n /\ \A k \in 1 .. n : p[k] \in Entry
    BY <1>a
  <2>2. \A e \in Entry : e.time \in Int
    BY DEF Entry
  <2> QED BY <2>1, <2>2
<1>1. Walk(s, i, from, to) = [out |-> FlattenSeq(w), exit |-> outside # {}]
  BY <1>a DEF Walk
<1>2. outside = {k \in 1 .. n : p[k].st # TSL_UNUSED /\ <<to, p[k].time>> \in L}
  <2>1. \A k \in 1 .. n : p[k].st # TSL_UNUSED => (~InRange(p[k].time, from, to) <=> <<to, p[k].time>> \in L)
    BY <1>0, DirIs
  <2> QED BY <2>1
<1>3. /\ upTo \in 0 .. n
      /\ \A k \in 1 .. n : p[k].st # TSL_UNUSED => (k <= upTo <=> InRange(p[k].time, from, to))
  <2>1. CASE outside = {}
    <3>1. upTo = n
      BY <1>0, <2>1
    <3> HIDE DEF upTo
    <3> QED BY <2>1, <3>1
  <2>2. CASE outside # {}
    <3>1. outside \in SUBSET Nat /\ outside \subseteq 1 .. n
      BY <1>2
    <3>2. PICK m \in outside : \A k \in outside : m <= k
      BY <2>2, <3>1, LeastNat
    <3>3. Min(outside) = m /\ m \in 1 .. n
      <4>1. outside \in SUBSET Int
        BY <3>1
      <4> HIDE DEF outside
      <4> QED BY <3>1, <3>2, <4>1, MinIs
    <3>4. upTo = m - 1
      BY <2>2, <3>3
    <3>5. p[m].st # TSL_UNUSED /\ <<to, p[m].time>> \in L /\ ~InRange(p[m].time, from, to)
      BY <1>2, <3>2
    <3> HIDE DEF outside, upTo
    <3>6. ASSUME NEW k \in 1 .. n, p[k].st # TSL_UNUSED, m < k PROVE ~InRange(p[k].time, from, to)
      <4>1. m \in 1 .. k - 1
        BY <3>3, <3>6
      <4>2. <<p[m].time, p[k].time>> \in L
        BY <3>5, <3>6, <4>1
      <4>3. <<to, p[k].time>> \in L
        <5>1. p[m].time \in Int /\ p[k].time \in Int
          BY <1>0, <3>3
        <5>2. \A x, y, z \in Int : <<x, y>> \in L /\ <<y, z>> \in L => <<x, z>> \in L
          BY DirIs
        <5> HIDE <1>a DEF L
        <5> QED BY <3>5, <4>2, <5>1, <5>2
      <4>4. \A x \in Int : InRange(x, from, to) => <<to, x>> \notin L
        BY DirIs
      <4>5. p[k].time \in Int
        BY <1>0
      <4> HIDE <1>a DEF L
      <4> QED BY <4>3, <4>4, <4>5
    <3>7. \A k \in 1 .. n : p[k].st # TSL_UNUSED /\ k < m => InRange(p[k].time, from, to)
      <4>1. \A k \in 1 .. n : k < m => k \notin outside
        BY <3>2, <3>3
      <4> QED BY <4>1 DEF outside
    <3>8. upTo \in 0 .. n /\ \A k \in 1 .. n : (k <= upTo <=> k < m) /\ (k < m \/ k = m \/ m < k)
      BY <3>3, <3>4
    <3> QED BY <3>5, <3>6, <3>7, <3>8
  <2> QED BY <2>1, <2>2
<1> HIDE DEF upTo
<1>4. ASSUME NEW k \in 1 .. upTo PROVE Lists(w[k], T[k], L)
  <2>1. CASE p[k].st = TSL_UNUSED
    BY <2>1, ListsNone
  <2>2. CASE p[k].st # TSL_UNUSED
    <3>1. p[k] \in Entry /\ w[k] = <<p[k]>> /\ T[k] = {p[k].time}
      BY <1>0, <1>3, <2>2
    <3> DEFINE q == <<p[k]>>
    <3>2. q \in Seq(Entry) /\ DOMAIN q = {1} /\ q[1].time = p[k].time
      BY <3>1
    <3> HIDE DEF q
    <3>3. \A j \in DOMAIN q : \A l \in 1 .. j - 1 : FALSE
      BY <3>2
    <3>4. Lists(q, {p[k].time}, L)
      BY <3>2, <3>3 DEF Lists
    <3> QED BY <3>1, <3>4 DEF q
  <2> QED BY <2>1, <2>2
<1>5. \A k \in 1 .. upTo : \A j \in 1 .. k - 1 : \A x \in T[j], y \in T[k] : <<x, y>> \in L
  <2>1. \A k \in 1 .. upTo : \A j \in 1 .. k - 1 : k \in 1 .. n /\ j \in 1 .. upTo
    BY <1>3
  <2> QED BY <2>1
<1>6. UNION {T[k] : k \in 1 .. upTo} = {x \in S : InRange(x, from, to)}
  <2>1. ASSUME NEW k \in 1 .. upTo, NEW x \in T[k] PROVE x \in S /\ InRange(x, from, to)
    <3>1. k \in 1 .. n /\ k <= upTo /\ p[k].st # TSL_UNUSED /\ x = p[k].time
      BY <1>3, <2>1
    <3> QED BY <1>3, <3>1
  <2>2. ASSUME NEW x \in S, InRange(x, from, to) PROVE \E k \in 1 .. upTo : x \in T[k]
    <3>1. PICK k \in 1 .. n : p[k].st # TSL_UNUSED /\ x = p[k].time
      BY <2>2
    <3>2. k \in 1 .. upTo
      BY <1>3, <2>2, <3>1
    <3> QED BY <3>1, <3>2
  <2> HIDE DEF T, S
  <2> QED BY <2>1, <2>2
<1>7. w = [k \in 1 .. upTo |-> w[k]] /\ upTo \in Nat
  BY <1>3
<1>8. Lists(FlattenSeq(w), {x \in S : InRange(x, from, to)}, L)
  <2> HIDE <1>a DEF w, T, S, L
  <2>1. Lists(FlattenSeq(w), UNION {T[k] : k \in 1 .. upTo}, L)
    BY <1>4, <1>5, <1>7, FlattenLists
  <2> QED BY <1>6, <2>1
<1>9. outside # {} <=> \E x \in S : <<to, x>> \in L
  BY <1>2
<1>10. Walk(s, i, from, to).out = FlattenSeq(w) /\ Walk(s, i, from, to).exit = (outside # {})
  BY <1>1
<1> HIDE DEF w, outside
<1> QED BY <1>8, <1>9, <1>10, <1>b

\* The logs of a sector by their number.
LEMMA SectorLogs ==
    ASSUME SteadyInv, Idle, NEW s \in Sector, HasTsl(s)
    PROVE  /\ Len(logs[s]) \in Nat /\ Len(logs[s]) > 0 /\ EndSlot(s) = Len(logs[s]) - 1
           /\ \A i \in 1 .. Len(logs[s]) : logs[s][i].time \in Int /\ logs[s][i].time \in StoredIn(s)
           /\ \A i, j \in 1 .. Len(logs[s]) : i < j => logs[s][i].time < logs[s][j].time
           /\ \A x \in StoredIn(s) : \E i \in 1 .. Len(logs[s]) : x = logs[s][i].time
<1>1. /\ Len(logs[s]) \in Nat /\ Len(logs[s]) > 0 /\ EndSlot(s) = Len(logs[s]) - 1 /\ magic[s]
      /\ DOMAIN logs[s] = 1 .. Len(logs[s])
      /\ \A i \in DOMAIN logs[s] : Complete(logs[s][i]) /\ logs[s][i].time \in Int
  BY IdleSector
<1>2. \A i, j \in DOMAIN logs[s] : i < j => logs[s][i].time < logs[s][j].time
  BY DEF SteadyInv, LogInv, OrderInv
<1>3. Done(s) = DOMAIN logs[s]
  BY <1>1 DEF Done
<1> QED BY <1>1, <1>2, <1>3 DEF StoredIn

\* The slots that are visited hold the logs that do not come before `from'.
PathHolds(s, p, from, to) ==
    Follows(p, from, to) /\ Logged(p) = {x \in StoredIn(s) : <<x, from>> \notin Dir(from, to)}

LEMMA PathForward ==
    ASSUME SteadyInv, Idle, NEW s \in Sector, HasTsl(s), NEW from \in Nat, NEW to \in Nat, from <= to,
           NEW x \in StoredIn(s), <<x, from>> \notin Dir(from, to)
    PROVE  PathHolds(s, Path(s, Search(s, from, to), from, to), from, to)
<1> DEFINE len == Len(logs[s])
           i == Search(s, from, to)
           n == len - i
           p == [k \in 1 .. n |-> Slot(s, i + k - 1)]
<1>1. /\ len \in Nat /\ len > 0 /\ EndSlot(s) = len - 1
      /\ \A j \in 1 .. len : logs[s][j].time \in Int /\ logs[s][j].time \in StoredIn(s)
      /\ \A j, k \in 1 .. len : j < k => logs[s][j].time < logs[s][k].time
      /\ \A y \in StoredIn(s) : \E j \in 1 .. len : y = logs[s][j].time
  BY SectorLogs
<1>2. \A y, z \in Int : <<y, z>> \in Dir(from, to) <=> y < z
  BY DEF Dir, Rising
<1>3. i \in 0 .. len - 1 /\ \A j \in 1 .. len : j > i <=> logs[s][j].time >= from
  <2>1. PICK e \in 1 .. len : x = logs[s][e].time
    BY <1>1
  <2>2. logs[s][e].time >= from
    <3>1. logs[s][e].time \in Int /\ from \in Int
      BY <1>1
    <3> QED BY <1>2, <2>1, <3>1
  <2> QED BY <2>1, <2>2, SearchForward
<1> HIDE DEF i, len
<1>4. Path(s, i, from, to) = p /\ n \in Nat
  <2>1. Max({(len - 1) - i, 0}) = (len - 1) - i
    <3>1. {(len - 1) - i, 0} \in SUBSET Int /\ (len - 1) - i >= 0
      BY <1>1, <1>3
    <3>2. \A y \in {(len - 1) - i, 0} : y <= (len - 1) - i
      BY <3>1
    <3> QED BY <3>1, <3>2, MaxIs
  <2>2. Max({EndSlot(s) - i, 0}) + 1 = n
    BY <1>1, <1>3, <2>1
  <2> QED BY <1>1, <1>3, <2>2 DEF Path
<1>5. ASSUME NEW k \in 1 .. n
      PROVE  p[k] \in Entry /\ p[k].st # TSL_UNUSED /\ p[k].time = logs[s][i + k].time /\ i + k \in 1 .. len
  <2>1. i + k \in 1 .. len /\ (i + k) - 1 = i + k - 1
    BY <1>1, <1>3
  <2> QED BY <2>1, SlotIs DEF len
<1> HIDE DEF p
<1>6. DOMAIN p = 1 .. n /\ p \in Seq(Entry)
  <2>1. p = [k \in 1 .. n |-> p[k]]
    BY DEF p
  <2> HIDE DEF n
  <2> QED BY <1>4, <1>5, <2>1
<1>7. \A k \in 1 .. n : <<p[k].time, from>> \notin Dir(from, to)
  <2>1. ASSUME NEW k \in 1 .. n PROVE <<p[k].time, from>> \notin Dir(from, to)
    <3>1. i + k > i /\ i + k \in 1 .. len /\ p[k].time = logs[s][i + k].time
      BY <1>1, <1>3, <1>5
    <3>2. p[k].time >= from /\ p[k].time \in Int
      BY <1>1, <1>3, <3>1
    <3> QED BY <1>2, <3>2
  <2> QED BY <2>1
<1>8. ASSUME NEW k \in 1 .. n, NEW j \in 1 .. k - 1 PROVE <<p[j].time, p[k].time>> \in Dir(from, to)
  <2>1. j \in 1 .. n /\ i + j < i + k
    BY <1>1, <1>3
  <2>2. p[j].time < p[k].time /\ p[j].time \in Int /\ p[k].time \in Int
    BY <1>1, <1>5, <2>1
  <2> QED BY <1>2, <2>2
<1>9. {p[k].time : k \in {j \in 1 .. n : p[j].st # TSL_UNUSED}}
        = {y \in StoredIn(s) : <<y, from>> \notin Dir(from, to)}
  <2>1. \A k \in 1 .. n : p[k].time \in StoredIn(s)
    BY <1>1, <1>5
  <2>2. ASSUME NEW y \in StoredIn(s), <<y, from>> \notin Dir(from, to)
        PROVE  \E k \in 1 .. n : y = p[k].time
    <3>1. PICK j \in 1 .. len : y = logs[s][j].time
      BY <1>1
    <3>2. y >= from
      <4>1. y \in Int /\ from \in Int
        BY <1>1, <3>1
      <4> QED BY <1>2, <2>2, <4>1
    <3>3. j > i
      BY <1>3, <3>1, <3>2
    <3>4. j - i \in 1 .. n /\ i + (j - i) = j
      BY <1>1, <1>3, <3>3
    <3>5. p[j - i].time = logs[s][j].time
      BY <1>5, <3>4
    <3> QED BY <3>1, <3>4, <3>5
  <2> QED BY <1>5, <1>7, <2>1, <2>2
<1>10. PathHolds(s, p, from, to)
  BY <1>5, <1>6, <1>7, <1>8, <1>9 DEF PathHolds, Follows, Logged
<1> HIDE DEF n
<1> QED BY <1>4, <1>10 DEF i

LEMMA PathBackward ==
    ASSUME SteadyInv, Idle, NEW s \in Sector, HasTsl(s), Room(s) > 0, NEW from \in Nat, NEW to \in Nat,
           from > to, NEW x \in StoredIn(s), <<x, from>> \notin Dir(from, to)
    PROVE  PathHolds(s, Path(s, Search(s, from, to), from, to), from, to)
<1> DEFINE len == Len(logs[s])
           i == Search(s, from, to)
           n == i + 1
           p == [k \in 1 .. n |-> Slot(s, i - k + 1)]
           at(k) == i - k + 2
<1>0. ~(from <= to)
  OBVIOUS
<1>1. /\ len \in Nat /\ len > 0 /\ EndSlot(s) = len - 1
      /\ \A j \in 1 .. len : logs[s][j].time \in Int /\ logs[s][j].time \in StoredIn(s)
      /\ \A j, k \in 1 .. len : j < k => logs[s][j].time < logs[s][k].time
      /\ \A y \in StoredIn(s) : \E j \in 1 .. len : y = logs[s][j].time
  BY SectorLogs
<1>2. \A y, z \in Int : <<y, z>> \in Dir(from, to) <=> y > z
  BY <1>0 DEF Dir, Falling
<1>3. i \in 0 .. len /\ \A j \in 1 .. len : j <= i + 1 <=> logs[s][j].time <= from
  <2>1. PICK e \in 1 .. len : x = logs[s][e].time
    BY <1>1
  <2>2. logs[s][e].time <= from
    <3>1. logs[s][e].time \in Int /\ from \in Int
      BY <1>1
    <3> QED BY <1>2, <2>1, <3>1
  <2>3. to \in Int /\ from > to
    OBVIOUS
  <2>4. logs[s][e].time <= from => i \in 0 .. Len(logs[s])
           /\ \A j \in 1 .. Len(logs[s]) : j <= i + 1 <=> logs[s][j].time <= from
    <3>1. e \in 1 .. Len(logs[s])
      OBVIOUS
    <3> HIDE DEF len
    <3> QED BY <2>3, <3>1, SearchBackward
  <2> QED BY <2>2, <2>4
<1> HIDE DEF i, len
<1>4. Path(s, i, from, to) = p /\ n \in Nat
  <2>1. Max({i, 0}) = i
    <3>1. {i, 0} \in SUBSET Int /\ i >= 0
      BY <1>1, <1>3
    <3>2. \A y \in {i, 0} : y <= i
      BY <3>1
    <3> QED BY <3>1, <3>2, MaxIs
  <2>2. Max({i, 0}) + 1 = n
    BY <2>1
  <2> QED BY <1>0, <1>1, <1>3, <2>2 DEF Path
<1>5. ASSUME NEW k \in 1 .. n
      PROVE  /\ p[k] \in Entry /\ (p[k].st # TSL_UNUSED <=> at(k) \in 1 .. len)
             /\ at(k) \in 1 .. len => p[k].time = logs[s][at(k)].time
  <2>1. at(k) \in 1 .. len + 1 /\ at(k) - 1 = i - k + 1
    BY <1>1, <1>3
  <2>2. p[k] = Slot(s, at(k) - 1)
    BY <2>1
  <2> HIDE DEF p, at
  <2>3. CASE at(k) \in 1 .. len
    BY <2>2, <2>3, SlotIs DEF len
  <2>4. CASE at(k) \notin 1 .. len
    <3>1. at(k) - 1 \notin 0 .. len - 1 /\ at(k) - 1 >= 0
      BY <1>1, <2>1, <2>4
    <3>2. p[k] = Blank
      BY <2>2, <3>1 DEF Slot, len
    <3> QED BY <2>4, <3>2, Statuses DEF Blank, Entry
  <2> QED BY <2>3, <2>4
<1> HIDE DEF p
<1>6. DOMAIN p = 1 .. n /\ p \in Seq(Entry)
  <2>1. p = [k \in 1 .. n |-> p[k]]
    BY DEF p
  <2> HIDE DEF n
  <2> QED BY <1>4, <1>5, <2>1
<1>7. \A k \in 1 .. n : p[k].st # TSL_UNUSED => <<p[k].time, from>> \notin Dir(from, to)
  <2>1. ASSUME NEW k \in 1 .. n, p[k].st # TSL_UNUSED PROVE <<p[k].time, from>> \notin Dir(from, to)
    <3>1. at(k) \in 1 .. len /\ p[k].time = logs[s][at(k)].time
      BY <1>5, <2>1
    <3>2. at(k) <= i + 1
      BY <1>1, <1>3
    <3>3. p[k].time <= from /\ p[k].time \in Int
      BY <1>1, <1>3, <3>1, <3>2
    <3> QED BY <1>2, <3>3
  <2> QED BY <2>1
<1>8. ASSUME NEW k \in 1 .. n, NEW j \in 1 .. k - 1, p[j].st # TSL_UNUSED, p[k].st # TSL_UNUSED
      PROVE  <<p[j].time, p[k].time>> \in Dir(from, to)
  <2>1. j \in 1 .. n /\ at(k) < at(j)
    BY <1>1, <1>3
  <2>2. /\ at(j) \in 1 .. len /\ at(k) \in 1 .. len
        /\ p[j].time = logs[s][at(j)].time /\ p[k].time = logs[s][at(k)].time
    BY <1>5, <1>8, <2>1
  <2>3. p[j].time > p[k].time /\ p[j].time \in Int /\ p[k].time \in Int
    <3> HIDE DEF at
    <3> QED BY <1>1, <2>1, <2>2
  <2> QED BY <1>2, <2>3
<1>9. {p[k].time : k \in {j \in 1 .. n : p[j].st # TSL_UNUSED}}
        = {y \in StoredIn(s) : <<y, from>> \notin Dir(from, to)}
  <2>1. \A k \in 1 .. n : p[k].st # TSL_UNUSED => p[k].time \in StoredIn(s)
    BY <1>1, <1>5
  <2>2. ASSUME NEW y \in StoredIn(s), <<y, from>> \notin Dir(from, to)
        PROVE  \E k \in 1 .. n : y = p[k].time /\ p[k].st # TSL_UNUSED
    <3>1. PICK j \in 1 .. len : y = logs[s][j].time
      BY <1>1
    <3>2. y <= from
      <4>1. y \in Int /\ from \in Int
        BY <1>1, <3>1
      <4> QED BY <1>2, <2>2, <4>1
    <3>3. j <= i + 1
      BY <1>3, <3>1, <3>2
    <3> DEFINE k == i - j + 2
    <3>4. k \in 1 .. n /\ at(k) = j
      BY <1>1, <1>3, <3>3
    <3> HIDE DEF k, at
    <3>5. p[k].time = logs[s][j].time /\ p[k].st # TSL_UNUSED
      BY <1>5, <3>4
    <3> QED BY <3>1, <3>4, <3>5
  <2> QED BY <1>7, <2>1, <2>2
<1>10. PathHolds(s, p, from, to)
  BY <1>5, <1>6, <1>7, <1>8, <1>9 DEF PathHolds, Follows, Logged
<1> HIDE DEF n
<1> QED BY <1>4, <1>10 DEF i

\* The sector that the range starts in, or a later one, is gone through from
\* the first log that does not come before the range to the first behind it.
LEMMA WalkIs ==
    ASSUME SteadyInv, Idle, NEW s \in Sector, HasTsl(s), NEW from \in Nat, NEW to \in Nat,
           from > to => Room(s) > 0, NEW x \in StoredIn(s), <<x, from>> \notin Dir(from, to)
    PROVE  LET w == Walk(s, Search(s, from, to), from, to) IN
           /\ Lists(w.out, {y \in StoredIn(s) : InRange(y, from, to)}, Dir(from, to))
           /\ w.exit <=> \E y \in StoredIn(s) : <<to, y>> \in Dir(from, to)
<1> DEFINE L == Dir(from, to)
           i == Search(s, from, to)
           p == Path(s, i, from, to)
           S == {y \in StoredIn(s) : <<y, from>> \notin L}
<1>1. PathHolds(s, p, from, to)
  <2>1. CASE from <= to
    BY <2>1, PathForward
  <2>2. CASE from > to
    BY <2>2, PathBackward
  <2> QED BY <2>1, <2>2
<1> DEFINE w == Walk(s, i, from, to)
           P == Logged(p)
<1>2. P = S
  BY <1>1 DEF PathHolds
<1>3. Lists(w.out, {y \in P : InRange(y, from, to)}, L) /\ (w.exit <=> \E y \in P : <<to, y>> \in L)
  <2>1. Follows(p, from, to)
    BY <1>1 DEF PathHolds
  <2>2. from \in Int /\ to \in Int
    OBVIOUS
  <2> HIDE DEF i
  <2> QED BY <2>1, <2>2, WalkLists
<1>4. from \in Int /\ to \in Int /\ \A y \in StoredIn(s) : y \in Int
  BY StoredInIs
<1>5. {y \in S : InRange(y, from, to)} = {y \in StoredIn(s) : InRange(y, from, to)}
  <2>1. \A y \in StoredIn(s) : InRange(y, from, to) => <<y, from>> \notin L
    BY <1>4, DirIs
  <2> QED BY <2>1
<1>6. (\E y \in S : <<to, y>> \in L) <=> \E y \in StoredIn(s) : <<to, y>> \in L
  <2>1. \A y \in StoredIn(s) : <<to, y>> \in L => <<y, from>> \notin L
    BY <1>4, DirIs
  <2> QED BY <2>1
<1> HIDE DEF w, P, S, L
<1>7. Lists(w.out, {y \in StoredIn(s) : InRange(y, from, to)}, L)
  BY <1>2, <1>3, <1>5
<1>8. w.exit <=> \E y \in StoredIn(s) : <<to, y>> \in L
  BY <1>2, <1>3, <1>6
<1> QED BY <1>7, <1>8 DEF w, L

\* By its start and end times the iterator knows whether a sector has a log
\* that does not come before the range.
LEMMA StartsIs ==
    ASSUME SteadyInv, HeadInv, Idle, NEW s \in Sector, HasTsl(s), NEW first \in BOOLEAN,
           NEW from \in Nat, NEW to \in Nat
    PROVE  Starts(s, first, from, to) <=> \E x \in StoredIn(s) : <<x, from>> \notin Dir(from, to)
<1> DEFINE n == Len(logs[s])
           a == logs[s][1].time
           z == logs[s][n].time
<1>1. /\ n \in Nat /\ n > 0
      /\ \A i \in 1 .. n : logs[s][i].time \in Int /\ logs[s][i].time \in StoredIn(s)
      /\ \A i, j \in 1 .. n : i < j => logs[s][i].time < logs[s][j].time
      /\ \A x \in StoredIn(s) : \E i \in 1 .. n : x = logs[s][i].time
  BY SectorLogs
<1>2. Info(s).start = a /\ Info(s).endTime = z
  BY SectorEnds
<1> HIDE DEF n
<1>3. 1 \in 1 .. n /\ n \in 1 .. n
  BY <1>1
<1>4. a \in Int /\ z \in Int /\ a \in StoredIn(s) /\ z \in StoredIn(s) /\ from \in Int
  BY <1>1, <1>3
<1>5. ASSUME NEW x \in StoredIn(s) PROVE x \in Int /\ a <= x /\ x <= z
  <2>1. PICK i \in 1 .. n : x = logs[s][i].time
    BY <1>1
  <2>2. (i = 1 \/ 1 < i) /\ (i = n \/ i < n)
    BY <1>1
  <2> QED BY <1>1, <1>3, <2>1, <2>2
<1> HIDE DEF a, z
<1>6. CASE from <= to
  <2>1. \A x, y \in Int : <<x, y>> \in Dir(from, to) <=> x < y
    BY <1>6 DEF Dir, Rising
  <2>2. (\E x \in StoredIn(s) : <<x, from>> \notin Dir(from, to)) <=> from <= z
    <3>1. \A x \in StoredIn(s) : <<x, from>> \notin Dir(from, to) <=> from <= x
      BY <1>4, <1>5, <2>1
    <3>2. from <= z => <<z, from>> \notin Dir(from, to)
      BY <1>4, <3>1
    <3>3. \A x \in StoredIn(s) : from <= x => from <= z
      BY <1>4, <1>5
    <3> QED BY <1>4, <3>1, <3>2, <3>3
  <2>3. Starts(s, first, from, to) <=> from <= z
    BY <1>2, <1>4, <1>5, <1>6 DEF Starts
  <2> QED BY <2>2, <2>3
<1>7. CASE ~(from <= to)
  <2>1. \A x, y \in Int : <<x, y>> \in Dir(from, to) <=> x > y
    BY <1>7 DEF Dir, Falling
  <2>2. (\E x \in StoredIn(s) : <<x, from>> \notin Dir(from, to)) <=> from >= a
    <3>1. \A x \in StoredIn(s) : <<x, from>> \notin Dir(from, to) <=> from >= x
      BY <1>4, <1>5, <2>1
    <3>2. from >= a => <<a, from>> \notin Dir(from, to)
      BY <1>4, <3>1
    <3>3. \A x \in StoredIn(s) : from >= x => from >= a
      BY <1>4, <1>5
    <3> QED BY <1>4, <3>1, <3>2, <3>3
  <2>3. Starts(s, first, from, to) <=> from >= a
    BY <1>2, <1>4, <1>5, <1>7 DEF Starts
  <2> QED BY <2>2, <2>3
<1> QED BY <1>6, <1>7

-----------------------------------------------------------------------------
(* From sector to sector *)

\* The sectors B have the logs in the order L, and those behind one without
\* logs have none.
RingOrder(B, L) ==
    /\ \A k \in 1 .. SecNum : B[k] \in Sector
    /\ \A x \in Stored : \E k \in 1 .. SecNum : x \in StoredIn(B[k])
    /\ \A k \in 1 .. SecNum : \A j \in 1 .. k - 1 :
         \A x \in StoredIn(B[j]), y \in StoredIn(B[k]) : <<x, y>> \in L
    /\ \A k \in 1 .. SecNum : ~HasTsl(B[k]) => \A j \in k .. SecNum : StoredIn(B[j]) = {}

\* What the first k sectors of B hold of the range.
Held(B, k, from, to) == {x \in UNION {StoredIn(B[j]) : j \in 1 .. k} : InRange(x, from, to)}

\* What is known behind the first k sectors.
Reported(B, k, from, to, acc) ==
    /\ DOMAIN acc = {"found", "exit", "out"}
    /\ acc = [found |-> acc.found, exit |-> acc.exit, out |-> acc.out]
    /\ acc.found \in BOOLEAN /\ acc.exit \in BOOLEAN
    /\ Lists(acc.out, Held(B, k, from, to), Dir(from, to))
    /\ acc.exit => \A j \in k + 1 .. SecNum : \A x \in StoredIn(B[j]) : ~InRange(x, from, to)
    /\ acc.found /\ ~acc.exit =>
         \E j \in 1 .. k : \E x \in StoredIn(B[j]) : <<x, from>> \notin Dir(from, to)

LEMMA HeldNext ==
    ASSUME NEW B, NEW k \in 1 .. SecNum, NEW from, NEW to
    PROVE  Held(B, k, from, to) =
             Held(B, k - 1, from, to) \cup {x \in StoredIn(B[k]) : InRange(x, from, to)}
<1>1. k \in Nat /\ 1 .. k = (1 .. k - 1) \cup {k}
  BY SectorFacts
<1>2. ASSUME NEW x
      PROVE  (\E j \in 1 .. k : x \in StoredIn(B[j])) <=> (\E j \in 1 .. k - 1 : x \in StoredIn(B[j])) \/ x \in StoredIn(B[k])
  BY <1>1, Zenon
<1>3. \A x, j : x \in Held(B, j, from, to) <=> (\E i \in 1 .. j : x \in StoredIn(B[i])) /\ InRange(x, from, to)
  BY Zenon DEF Held
<1> QED BY <1>2, <1>3, Zenon

\* A sector that has nothing of the range.
LEMMA ReportedNothing ==
    ASSUME NEW B, NEW k \in 1 .. SecNum, NEW from, NEW to, NEW acc,
           Reported(B, k - 1, from, to, acc), \A x \in StoredIn(B[k]) : ~InRange(x, from, to)
    PROVE  Reported(B, k, from, to, acc)
<1>1. Held(B, k, from, to) = Held(B, k - 1, from, to)
  BY HeldNext
<1>2. /\ \A j \in k + 1 .. SecNum : j \in (k - 1) + 1 .. SecNum
      /\ \A j \in 1 .. k - 1 : j \in 1 .. k
  BY SectorFacts
<1> QED BY <1>1, <1>2 DEF Reported

LEMMA ReportIs ==
    ASSUME SteadyInv, HeadInv, Idle, NEW from \in Nat, NEW to \in Nat,
           from > to => \A s \in Sector : HasTsl(s) => Room(s) > 0, NEW base, NEW B, RingOrder(B, Dir(from, to)),
           NEW k \in 1 .. SecNum, NEW acc, Reported(B, k - 1, from, to, acc)
    PROVE  Reported(B, k, from, to, Report(acc, B[k], base, from, to))
<1> DEFINE L == Dir(from, to)
           s == B[k]
           R == {y \in StoredIn(s) : InRange(y, from, to)}
<1>1. s \in Sector /\ magic[s] /\ (~HasTsl(s) => store[s] = EMPTY)
  <2>1. s \in Sector
    BY DEF RingOrder
  <2> HIDE DEF s
  <2> QED BY <2>1, IdleSector
<1>2. from \in Int /\ to \in Int /\ \A x \in StoredIn(s) : x \in Int
  <2> HIDE DEF s
  <2> QED BY <1>1, StoredInIs
<1>3. CASE acc.exit
  <2>1. Report(acc, s, base, from, to) = acc
    BY <1>3 DEF Report
  <2>2. k \in (k - 1) + 1 .. SecNum
    BY SectorFacts
  <2>3. \A x \in StoredIn(s) : ~InRange(x, from, to)
    BY <1>3, <2>2 DEF Reported
  <2> QED BY <2>1, <2>3, ReportedNothing
<1>4. CASE ~acc.exit /\ ~HasTsl(s)
  <2> DEFINE new == [acc EXCEPT !.exit = store[s] = EMPTY]
  <2>1. Report(acc, s, base, from, to) = new
    BY <1>1, <1>4 DEF Report
  <2>2. \A j \in k .. SecNum : StoredIn(B[j]) = {}
    BY <1>4 DEF RingOrder
  <2>3. k \in k .. SecNum /\ \A j \in k + 1 .. SecNum : j \in k .. SecNum
    BY SectorFacts
  <2>4. Held(B, k, from, to) = Held(B, k - 1, from, to)
    <3>1. {x \in StoredIn(s) : InRange(x, from, to)} = {}
      BY <2>2, <2>3
    <3> QED BY <3>1, HeldNext
  <2>5. new = [found |-> acc.found, exit |-> TRUE, out |-> acc.out]
    <3>1. PICK a, b, c : acc = [found |-> a, exit |-> b, out |-> c]
      <4>1. acc = [found |-> acc.found, exit |-> acc.exit, out |-> acc.out]
        BY DEF Reported
      <4> DEFINE a == acc.found
                 b == acc.exit
                 c == acc.out
      <4>2. acc = [found |-> a, exit |-> b, out |-> c]
        BY <4>1
      <4> HIDE DEF a, b, c
      <4> QED BY <4>2, Zenon
    <3>2. (store[s] = EMPTY) = TRUE
      BY <1>1, <1>4
    <3>3. new = [acc EXCEPT !.exit = TRUE]
      BY <3>2, Zenon
    <3> HIDE DEF new
    <3> QED BY <3>1, <3>3
  <2>6. new.found = acc.found /\ new.exit = TRUE /\ new.out = acc.out
        /\ DOMAIN new = {"found", "exit", "out"}
    BY <2>5
  <2> HIDE DEF new
  <2>7. Reported(B, k, from, to, new)
    BY <2>2, <2>3, <2>4, <2>5, <2>6 DEF Reported
  <2> QED BY <2>1, <2>7
<1>5. CASE ~acc.exit /\ HasTsl(s) /\ ~(acc.found \/ Starts(s, s = base, from, to))
  <2>1. Report(acc, s, base, from, to) = acc
    BY <1>1, <1>5 DEF Report
  <2>2. \A x \in StoredIn(s) : <<x, from>> \in L
    <3>1. (s = base) \in BOOLEAN /\ ~Starts(s, s = base, from, to)
      BY <1>5
    <3> HIDE DEF s
    <3> QED BY <1>1, <1>5, <3>1, StartsIs
  <2>3. \A x \in StoredIn(s) : ~InRange(x, from, to)
    BY <1>2, <2>2, DirIs
  <2> QED BY <2>1, <2>3, ReportedNothing
<1>6. CASE ~acc.exit /\ HasTsl(s) /\ (acc.found \/ Starts(s, s = base, from, to))
  <2> DEFINE w == Walk(s, Search(s, from, to), from, to)
             new == [found |-> TRUE, exit |-> w.exit, out |-> acc.out \o w.out]
  <2>1. Report(acc, s, base, from, to) = new
    BY <1>1, <1>6 DEF Report
  <2>2. PICK x \in StoredIn(s) : <<x, from>> \notin L
    <3>1. CASE Starts(s, s = base, from, to)
      <4>1. (s = base) \in BOOLEAN
        OBVIOUS
      <4> HIDE DEF s
      <4> QED BY <1>1, <1>6, <3>1, <4>1, StartsIs
    <3>2. CASE acc.found
      <4>1. PICK j \in 1 .. k - 1 : \E y \in StoredIn(B[j]) : <<y, from>> \notin L
        BY <1>6, <3>2 DEF Reported
      <4>2. PICK y \in StoredIn(B[j]) : <<y, from>> \notin L
        BY <4>1
      <4>3. PICK x \in StoredIn(s) : TRUE
        <5> HIDE DEF s
        <5>1. Len(logs[s]) \in Nat /\ Len(logs[s]) > 0
              /\ \A i \in 1 .. Len(logs[s]) : logs[s][i].time \in StoredIn(s)
          BY <1>1, <1>6, SectorLogs
        <5>2. 1 \in 1 .. Len(logs[s])
          BY <5>1
        <5> QED BY <5>1, <5>2
      <4>4. <<y, x>> \in L
        BY <4>1, <4>2, <4>3 DEF RingOrder
      <4>5. y \in Int
        <5>1. B[j] \in Sector
          <6>1. j \in 1 .. SecNum
            BY SectorFacts
          <6> QED BY <6>1 DEF RingOrder
        <5> QED BY <5>1, StoredInIs
      <4>6. <<x, from>> \notin L
        <5>1. x \in Int /\ from \in Int
          BY <1>2
        <5>2. \A a, b, c \in Int : <<a, b>> \in L /\ <<b, c>> \in L => <<a, c>> \in L
          BY DirIs
        <5> HIDE DEF L, s
        <5> QED BY <4>2, <4>4, <4>5, <5>1, <5>2
      <4> QED BY <4>6
    <3> QED BY <1>6, <3>1, <3>2
  <2>3. Lists(w.out, R, L) /\ (w.exit <=> \E y \in StoredIn(s) : <<to, y>> \in L)
    <3>1. from > to => Room(s) > 0
      BY <1>1, <1>6
    <3> HIDE DEF s
    <3> QED BY <1>1, <1>6, <2>2, <3>1, WalkIs
  <2>4. w.exit \in BOOLEAN
    BY DEF Walk
  <2> HIDE DEF w
  <2>5. Lists(acc.out \o w.out, Held(B, k, from, to), L)
    <3>1. \A a \in Held(B, k - 1, from, to), b \in R : <<a, b>> \in L
      <4>1. \A a \in Held(B, k - 1, from, to) : \E j \in 1 .. k - 1 : a \in StoredIn(B[j])
        BY Zenon DEF Held
      <4>2. \A j \in 1 .. k - 1 : \A a \in StoredIn(B[j]), b \in StoredIn(B[k]) : <<a, b>> \in L
        BY Zenon DEF RingOrder
      <4> HIDE DEF L
      <4> QED BY <4>1, <4>2, Zenon
    <3>2. Lists(acc.out, Held(B, k - 1, from, to), L)
      BY DEF Reported
    <3>3. Held(B, k, from, to) = Held(B, k - 1, from, to) \cup R
      BY HeldNext
    <3> HIDE DEF R, L
    <3> QED BY <2>3, <3>1, <3>2, <3>3, ListsJoin
  <2>6. ASSUME w.exit, NEW j \in k + 1 .. SecNum, NEW z \in StoredIn(B[j]) PROVE ~InRange(z, from, to)
    <3>1. PICK y \in StoredIn(s) : <<to, y>> \in L
      BY <2>3, <2>6
    <3>2. j \in 1 .. SecNum /\ k \in 1 .. j - 1
      BY SectorFacts
    <3>3. <<y, z>> \in L /\ B[j] \in Sector
      BY <3>1, <3>2 DEF RingOrder
    <3>4. z \in Int /\ y \in Int /\ to \in Int
      BY <1>2, <3>3, StoredInIs
    <3>5. <<to, z>> \in L
      <4>1. \A a, b, c \in Int : <<a, b>> \in L /\ <<b, c>> \in L => <<a, c>> \in L
        BY DirIs
      <4> HIDE DEF L
      <4> QED BY <3>1, <3>3, <3>4, <4>1
    <3> QED BY <1>2, <3>4, <3>5, DirIs
  <2>7. \E j \in 1 .. k : \E y \in StoredIn(B[j]) : <<y, from>> \notin L
    <3>1. k \in 1 .. k
      BY SectorFacts
    <3> QED BY <2>2, <3>1
  <2>8. new.found = TRUE /\ new.exit = w.exit /\ new.out = acc.out \o w.out
        /\ DOMAIN new = {"found", "exit", "out"}
        /\ new = [found |-> new.found, exit |-> new.exit, out |-> new.out]
    OBVIOUS
  <2> HIDE DEF new
  <2>9. Reported(B, k, from, to, new)
    BY <2>4, <2>5, <2>6, <2>7, <2>8 DEF Reported
  <2> QED BY <2>1, <2>9
<1> QED BY <1>3, <1>4, <1>5, <1>6

\* What the first k sectors of B add up to.
Reports(B, base, from, to, k, f) ==
    f = [n \in 0 .. k |->
           IF n = 0 THEN [found |-> FALSE, exit |-> FALSE, out |-> <<>>]
           ELSE Report(f[n - 1], B[n], base, from, to)]

\* There may be any number of them.
LEMMA ReportsTo ==
    ASSUME NEW B, NEW base, NEW from, NEW to, NEW k \in Nat
    PROVE  \E f : Reports(B, base, from, to, k, f)
<1> DEFINE a == [found |-> FALSE, exit |-> FALSE, out |-> <<>>]
           Goes(j, f) == f = [n \in 0 .. j |-> IF n = 0 THEN a ELSE Report(f[n - 1], B[n], base, from, to)]
           Bad == {j \in Nat : ~\E f : Goes(j, f)}
<1> HIDE DEF a
<1>1. SUFFICES ASSUME Bad # {} PROVE FALSE
  <2>1. \E f : Goes(k, f)
    BY <1>1
  <2> QED BY <2>1 DEF Reports, a
<1>2. PICK m \in Bad : \A j \in Bad : m <= j
  <2>1. Bad \in SUBSET Nat
    OBVIOUS
  <2> QED BY <1>1, <2>1, LeastNat
<1>3. m # 0
  <2>1. Goes(0, [n \in 0 .. 0 |-> a])
    <3>1. \A n \in 0 .. 0 : n = 0
      OBVIOUS
    <3> QED BY <3>1
  <2> QED BY <1>2, <2>1
<1>4. m - 1 \in Nat /\ ~(m <= m - 1) /\ m \in Nat
  BY <1>3
<1>5. PICK f : Goes(m - 1, f)
  BY <1>2, <1>4
<1> DEFINE g == [n \in 0 .. m |-> IF n = m THEN Report(f[m - 1], B[m], base, from, to) ELSE f[n]]
<1>6. \A n \in 0 .. m - 1 : f[n] = IF n = 0 THEN a ELSE Report(f[n - 1], B[n], base, from, to)
  BY <1>5
<1>7. ASSUME NEW n \in 0 .. m PROVE g[n] = IF n = 0 THEN a ELSE Report(g[n - 1], B[n], base, from, to)
  <2>1. CASE n = m
    <3>1. m - 1 \in 0 .. m /\ m - 1 # m
      BY <1>4
    <3> QED BY <1>3, <1>4, <2>1, <3>1
  <2>2. CASE n # m
    <3>1. n \in 0 .. m - 1
      BY <1>4, <2>2
    <3>2. n # 0 => n - 1 \in 0 .. m /\ n - 1 # m
      BY <1>4, <3>1
    <3> QED BY <1>6, <2>2, <3>1, <3>2
  <2> QED BY <2>1, <2>2
<1>8. Goes(m, g)
  BY <1>7
<1> QED BY <1>2, <1>8

\* All sectors together report the logs of the range.
LEMMA ReportedAll ==
    ASSUME SteadyInv, HeadInv, Idle, NEW from \in Nat, NEW to \in Nat,
           from > to => \A s \in Sector : HasTsl(s) => Room(s) > 0, NEW base, NEW B, RingOrder(B, Dir(from, to)),
           NEW f, Reports(B, base, from, to, SecNum, f)
    PROVE  Lists(f[SecNum].out, {x \in Stored : InRange(x, from, to)}, Dir(from, to))
<1> DEFINE a == [found |-> FALSE, exit |-> FALSE, out |-> <<>>]
           Bad == {k \in 0 .. SecNum : ~Reported(B, k, from, to, f[k])}
<1>0. SecNum \in Nat \ {0}
  BY SecAssumption
<1>1. f[0] = a /\ \A k \in 1 .. SecNum : f[k] = Report(f[k - 1], B[k], base, from, to)
  <2>1. \A k \in 0 .. SecNum : f[k] = IF k = 0 THEN a ELSE Report(f[k - 1], B[k], base, from, to)
    BY Zenon DEF Reports
  <2>2. 0 \in 0 .. SecNum /\ \A k \in 1 .. SecNum : k \in 0 .. SecNum /\ k # 0
    BY <1>0
  <2> QED BY <2>1, <2>2, Zenon
<1>2. Reported(B, 0, from, to, f[0])
  <2>1. 1 .. 0 = {}
    OBVIOUS
  <2>2. Held(B, 0, from, to) = {}
    BY <2>1 DEF Held
  <2>3. Lists(a.out, Held(B, 0, from, to), Dir(from, to))
    <3>1. a.out = <<>>
      OBVIOUS
    <3> HIDE DEF a
    <3> QED BY <2>2, <3>1, ListsNone
  <2>4. /\ DOMAIN a = {"found", "exit", "out"} /\ a = [found |-> a.found, exit |-> a.exit, out |-> a.out]
        /\ a.found = FALSE /\ a.exit = FALSE
    OBVIOUS
  <2> HIDE DEF a
  <2> QED BY <1>1, <2>3, <2>4 DEF Reported
<1>3. Bad = {}
  <2>1. SUFFICES ASSUME Bad # {} PROVE FALSE
    OBVIOUS
  <2>2. PICK k \in Bad : \A j \in Bad : k <= j
    <3>1. \A j \in 0 .. SecNum : j \in Nat
      OBVIOUS
    <3>2. Bad \in SUBSET Nat
      BY <3>1, Zenon
    <3> QED BY <2>1, <3>2, LeastNat
  <2>3. k # 0
    BY <1>2, <2>2
  <2>4. k \in 1 .. SecNum /\ k - 1 \in 0 .. SecNum /\ ~(k <= k - 1)
    BY <1>0, <2>3
  <2>5. Reported(B, k - 1, from, to, f[k - 1])
    BY <2>2, <2>4
  <2>6. Reported(B, k, from, to, f[k])
    BY <1>1, <2>4, <2>5, ReportIs
  <2> QED BY <2>2, <2>6
<1>4. Reported(B, SecNum, from, to, f[SecNum])
  <2>1. SecNum \in 0 .. SecNum
    BY <1>0
  <2> QED BY <1>3, <2>1
<1>5. UNION {StoredIn(B[k]) : k \in 1 .. SecNum} = Stored
  <2>1. \A k \in 1 .. SecNum : StoredIn(B[k]) \subseteq Stored
    BY StoredInIs DEF RingOrder
  <2>2. \A x \in Stored : \E k \in 1 .. SecNum : x \in StoredIn(B[k])
    BY DEF RingOrder
  <2> QED BY <2>1, <2>2, Zenon
<1>6. Held(B, SecNum, from, to) = {x \in Stored : InRange(x, from, to)}
  BY <1>5 DEF Held
<1> QED BY <1>4, <1>6 DEF Reported

\* From the oldest sector forwards ...
LEMMA RingForward ==
    ASSUME SteadyInv, Idle
    PROVE  oldest \in Sector /\ RingOrder(Forward(oldest), Rising)
<1> DEFINE B == Forward(oldest)
           r == Rank(oldest, cur.sec)
<1>1. oldest \in Sector /\ cur.sec \in Sector /\ SecNum \in Nat
  BY HasTslRank, SectorFacts
<1>2. \A k \in 1 .. SecNum : B[k] \in Sector /\ Rank(oldest, B[k]) = k - 1
  BY <1>1, ForwardIs
<1>3. ASSUME NEW x \in Stored PROVE \E k \in 1 .. SecNum : x \in StoredIn(B[k])
  <2>1. PICK s \in Sector : x \in StoredIn(s)
    BY DEF Stored
  <2>2. Rank(oldest, s) + 1 \in 1 .. SecNum /\ B[Rank(oldest, s) + 1] = s
    BY <1>1, ForwardIs
  <2> HIDE DEF B
  <2> QED BY <2>1, <2>2
<1> HIDE DEF B
<1>4. ASSUME NEW k \in 1 .. SecNum, NEW j \in 1 .. k - 1, NEW x \in StoredIn(B[j]), NEW y \in StoredIn(B[k])
      PROVE  <<x, y>> \in Rising
  <2>1. j \in 1 .. SecNum /\ j - 1 < k - 1
    BY <1>1
  <2>2. B[j] \in Sector /\ B[k] \in Sector /\ Rank(oldest, B[j]) < Rank(oldest, B[k])
    BY <1>2, <2>1
  <2>3. x \in Int /\ y \in Int /\ x < y
    BY <2>2, StoredInIs, SectorsOrdered
  <2> QED BY <2>3 DEF Rising
<1>5. ASSUME NEW k \in 1 .. SecNum, ~HasTsl(B[k]), NEW j \in k .. SecNum PROVE StoredIn(B[j]) = {}
  <2>1. j \in 1 .. SecNum /\ k <= j /\ j \in Nat /\ k \in Nat
    BY <1>1
  <2>2. r \in Nat
    BY <1>1, RankFacts
  <2>3. ~(k - 1 < r)
    BY <1>2, <1>5, HasTslRank
  <2>4. ~HasTsl(B[j])
    <3>1. SUFFICES ASSUME HasTsl(B[j]) PROVE FALSE
      OBVIOUS
    <3>2. j - 1 <= r /\ HasTsl(cur.sec)
      BY <1>2, <2>1, <3>1, HasTslRank
    <3>3. k - 1 = r
      BY <2>1, <2>2, <2>3, <3>2
    <3>4. B[k] = cur.sec
      <4>1. Rank(oldest, B[k]) = Rank(oldest, cur.sec)
        BY <1>2, <3>3
      <4> QED BY <1>1, <1>2, <4>1, RankFacts
    <3> QED BY <1>5, <3>2, <3>4
  <2> QED BY <1>2, <2>1, <2>4, StoredInIs
<1>6. RingOrder(B, Rising)
  BY <1>2, <1>3, <1>4, <1>5 DEF RingOrder
<1> QED BY <1>1, <1>6 DEF B

\* ... and from the current one backwards.
LEMMA RingBackward ==
    ASSUME SteadyInv, Idle
    PROVE  cur.sec \in Sector /\ RingOrder(Backward(cur.sec), Falling)
<1> DEFINE B == Backward(cur.sec)
           r == Rank(oldest, cur.sec)
<1>1. oldest \in Sector /\ cur.sec \in Sector /\ SecNum \in Nat /\ r \in Nat
  <2>1. oldest \in Sector /\ cur.sec \in Sector /\ SecNum \in Nat
    BY HasTslRank, SectorFacts
  <2> QED BY <2>1, RankFacts
<1>2. \A k \in 1 .. SecNum :
         B[k] \in Sector /\ Rank(oldest, B[k]) = IF k - 1 <= r THEN r - (k - 1) ELSE SecNum + r - (k - 1)
  BY <1>1, BackwardIs
<1>3. ASSUME NEW x \in Stored PROVE \E k \in 1 .. SecNum : x \in StoredIn(B[k])
  <2>1. PICK s \in Sector : x \in StoredIn(s)
    BY DEF Stored
  <2>2. HasTsl(s)
    BY <2>1, StoredInIs
  <2>3. Rank(oldest, s) <= r
    BY <2>2, HasTslRank
  <2>4. r - Rank(oldest, s) + 1 \in 1 .. SecNum /\ B[r - Rank(oldest, s) + 1] = s
    BY <1>1, <2>3, BackwardIs
  <2> HIDE DEF B, r
  <2> QED BY <2>1, <2>4
<1>4. ASSUME NEW k \in 1 .. SecNum, NEW j \in 1 .. k - 1, NEW x \in StoredIn(B[j]), NEW y \in StoredIn(B[k])
      PROVE  <<x, y>> \in Falling
  BY <1>4, ReverseOrdered
<1>5. B[1] = cur.sec
  <2>1. r - r + 1 = 1 /\ r <= r
    BY <1>1
  <2> QED BY <1>1, <2>1, BackwardIs
<1> HIDE DEF B
<1>6. ASSUME NEW k \in 1 .. SecNum, ~HasTsl(B[k]), NEW j \in k .. SecNum PROVE StoredIn(B[j]) = {}
  <2>1. j \in 1 .. SecNum /\ k <= j /\ j \in Nat /\ k \in Nat
    BY <1>1
  <2>2. ~HasTsl(B[j])
    <3>1. SUFFICES ASSUME HasTsl(B[j]) PROVE FALSE
      OBVIOUS
    <3>2. Rank(oldest, B[j]) <= r /\ HasTsl(cur.sec)
      BY <1>2, <2>1, <3>1, HasTslRank
    <3>3. j - 1 <= r
      BY <1>1, <1>2, <2>1, <3>2
    <3>4. k # 1
      BY <1>5, <1>6, <3>2
    <3>5. Rank(oldest, B[k]) < r
      BY <1>1, <1>2, <2>1, <3>3, <3>4
    <3> QED BY <1>2, <1>6, <3>5, HasTslRank
  <2> QED BY <1>2, <2>1, <2>2, StoredInIs
<1>7. RingOrder(B, Falling)
  BY <1>2, <1>3, <1>4, <1>6 DEF RingOrder
<1> QED BY <1>1, <1>7 DEF B

\* fdb_tsl_iter_by_time reports the logs of any range.
LEMMA ByTimeLists ==
    ASSUME SteadyInv, HeadInv, Idle, NEW from \in Nat, NEW to \in Nat,
           from > to => \A s \in Sector : HasTsl(s) => Room(s) > 0
    PROVE  Lists(ByTime(from, to), {x \in Stored : InRange(x, from, to)}, Dir(from, to))
<1> DEFINE base == IF from <= to THEN oldest ELSE cur.sec
           B == IF from <= to THEN Forward(base) ELSE Backward(base)
           after == CHOOSE f : Reports(B, base, from, to, SecNum, f)
<1>1. base \in Sector /\ RingOrder(B, Dir(from, to))
  BY RingForward, RingBackward DEF Dir
<1>2. base # NoSec
  BY <1>1, SectorFacts DEF NoSec
<1>3. SecNum \in Nat
  BY SectorFacts
<1> HIDE DEF base
<1>4. Reports(B, base, from, to, SecNum, after)
  <2>1. \E f : Reports(B, base, from, to, SecNum, f)
    BY <1>3, ReportsTo
  <2> QED BY <2>1
<1>5. ByTimeFrom(base, from, to) = after[SecNum].out
  BY <1>2 DEF ByTimeFrom, Reports
<1> HIDE DEF after, B
<1>6. Lists(after[SecNum].out, {x \in Stored : InRange(x, from, to)}, Dir(from, to))
  BY <1>1, <1>4, ReportedAll
<1>7. ByTime(from, to) = ByTimeFrom(base, from, to)
  BY DEF ByTime, base
<1> QED BY <1>5, <1>6, <1>7

LEMMA ByTimeIs ==
    ASSUME SteadyInv, HeadInv, Idle, NEW from \in Nat, NEW to \in Nat,
           from > to => \A s \in Sector : HasTsl(s) => Room(s) > 0
    PROVE  IF from <= to THEN Ascends(Times(ByTime(from, to)), Stored \cap (from .. to))
           ELSE Descends(Times(ByTime(from, to)), Stored \cap (to .. from))
<1>1. Lists(ByTime(from, to), {x \in Stored : InRange(x, from, to)}, Dir(from, to))
  BY ByTimeLists
<1>2. CASE from <= to
  <2>1. {x \in Stored : InRange(x, from, to)} = Stored \cap (from .. to) /\ Dir(from, to) = Rising
    BY <1>2 DEF InRange, Dir
  <2> QED BY <1>1, <1>2, <2>1, AscendsIs
<1>3. CASE ~(from <= to)
  <2>1. {x \in Stored : InRange(x, from, to)} = Stored \cap (to .. from) /\ Dir(from, to) = Falling
    BY <1>3 DEF InRange, Dir
  <2> QED BY <1>1, <1>3, <2>1, DescendsIs
<1> QED BY <1>2, <1>3

LEMMA HeadAlways == ASSUME Steady PROVE Spec => [](SteadyInv /\ HeadInv)
<1>1. Init => SteadyInv /\ HeadInv
  BY TypesInit, OneInit, LogInit, HeadInit DEF SteadyInv
<1>2. SteadyInv /\ HeadInv /\ [Next]_vars => (SteadyInv /\ HeadInv)'
  <2> SUFFICES ASSUME SteadyInv, HeadInv, [Next]_vars PROVE SteadyInv' /\ HeadInv'
    OBVIOUS
  <2>1. HeadInv'
    BY HeadNext
  <2>2. SteadyInv'
    BY TypesNext, OneNext, LogNext DEF SteadyInv
  <2> QED BY <2>1, <2>2
<1> QED BY <1>1, <1>2, PTL DEF Spec

-----------------------------------------------------------------------------
(* The theorems *)

\* fdb_tsl_iter and fdb_tsl_iter_reverse report every log once, in the order
\* of the timestamps or against it.
THEOREM AllReported == ASSUME Steady PROVE Spec => []IterExact
<1>1. SteadyInv => IterExact
  BY IterIs, IterReverseIs, AscendsIs, DescendsIs DEF IterExact
<1> QED BY <1>1, SteadyAlways, PTL

\* From a sector that was the oldest when oldest_addr was read, fdb_tsl_iter
\* reports every log once, with one step back at most; from one that was the
\* current sector, fdb_tsl_iter_reverse first reports all logs up to it, in
\* order.
THEOREM StaleReported == ASSUME Steady PROVE Spec => []StaleBaseComplete
BY StaleIs, SteadyAlways, PTL

\* fdb_tsl_iter_by_time reports every log from a timestamp to a later one
\* once, and no other, in order.
THEOREM RangeReported ==
    ASSUME Steady
    PROVE  Spec => [](Idle => \A from, to \in Nat :
                        from <= to => Ascends(Times(ByTime(from, to)), Stored \cap (from .. to)))
<1>1. SteadyInv /\ HeadInv =>
        (Idle => \A from, to \in Nat :
           from <= to => Ascends(Times(ByTime(from, to)), Stored \cap (from .. to)))
  <2> SUFFICES ASSUME SteadyInv, HeadInv, Idle, NEW from \in Nat, NEW to \in Nat, from <= to
               PROVE  Ascends(Times(ByTime(from, to)), Stored \cap (from .. to))
    OBVIOUS
  <2>1. from > to => FALSE
    OBVIOUS
  <2>2. IF from <= to THEN Ascends(Times(ByTime(from, to)), Stored \cap (from .. to))
        ELSE Descends(Times(ByTime(from, to)), Stored \cap (to .. from))
    BY <2>1, ByTimeIs, Zenon
  <2> QED BY <2>2
<1> QED BY <1>1, HeadAlways, PTL

\* ... and backwards too, as long as no sector is filled to the last unit:
\* behind the last log the search reads an empty slot, not the data of a log.
THEOREM RangeExact ==
    ASSUME Steady
    PROVE  Spec => []((\A s \in Sector : HasTsl(s) => Room(s) > 0) => ByTimeExact)
<1>1. SteadyInv /\ HeadInv => ((\A s \in Sector : HasTsl(s) => Room(s) > 0) => ByTimeExact)
  <2> SUFFICES ASSUME SteadyInv, HeadInv, \A s \in Sector : HasTsl(s) => Room(s) > 0, Idle,
                      NEW from \in 0 .. MaxTime + 1, NEW to \in 0 .. MaxTime + 1
               PROVE  IF from <= to THEN Ascends(Times(ByTime(from, to)), Stored \cap (from .. to))
                      ELSE Descends(Times(ByTime(from, to)), Stored \cap (to .. from))
    BY DEF ByTimeExact
  <2>1. from \in Nat /\ to \in Nat
    OBVIOUS
  <2> QED BY <2>1, ByTimeIs
<1> QED BY <1>1, HeadAlways, PTL
==============================================================================
