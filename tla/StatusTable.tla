----------------------------- MODULE StatusTable -----------------------------
(***************************************************************************)
(* How a status is kept on the flash (fdb_utils.c, FDB_WRITE_GRAN 1): a    *)
(* table of bits that an erase sets to 1 and a program can only clear.     *)
(* A table is the set of its cleared bits; bit b is bit 0x80 >> (b % 8) of *)
(* byte b / 8.                                                             *)
(***************************************************************************)
EXTENDS KVFlash, TLAPS

\* _fdb_set_status: of the byte of status n, what the mask clears.  For n a
\* multiple of 8 the mask 0xff >> (n % 8) clears nothing.
StatusBits(n) == IF n = 0 THEN {} ELSE {8 * ((n - 1) \div 8) + b : b \in 0 .. (n % 8) - 1}

\* _fdb_write_status: one byte is programmed, which clears bits and sets none.
Programmed(table, n) == table \cup StatusBits(n)

\* _fdb_get_status: the first cleared bit from the end of the table, which
\* says status m when it is bit m - 1.
StatusRead(table, num, m) ==
    /\ m = 0 \/ m - 1 \in table
    /\ \A p \in m .. num - 2 : p \notin table
GetStatus(table, num) == CHOOSE m \in 0 .. num - 1 : StatusRead(table, num, m)

-----------------------------------------------------------------------------
(* The models of the databases keep a status as a number that a write can  *)
(* only raise (WriteStatus of KVFlash.tla).  That is what the tables on    *)
(* the flash do, as long as there are at most 8 statuses: the databases    *)
(* have 4 to 6.                                                            *)

\* The bits of status n are those of all statuses up to n.
LEMMA BitsBelow ==
    ASSUME NEW n \in 0 .. 7
    PROVE  StatusBits(n) = 0 .. n - 1
<1>1. CASE n = 0
  BY <1>1 DEF StatusBits
<1>2. CASE n # 0
  <2>1. (n - 1) \div 8 = 0 /\ n % 8 = n
    BY <1>2
  <2>2. StatusBits(n) = {8 * 0 + b : b \in 0 .. n - 1}
    BY <1>2, <2>1 DEF StatusBits
  <2> QED
    BY <1>2, <2>2
<1> QED
  BY <1>1, <1>2

\* A table says something, and one thing.
LEMMA OneStatus ==
    ASSUME NEW table \in SUBSET Nat, NEW num \in 1 .. 8, NEW l \in 0 .. num - 1,
           NEW m \in 0 .. num - 1, StatusRead(table, num, l), StatusRead(table, num, m)
    PROVE  l = m
<1>1. ASSUME NEW a \in 0 .. num - 1, NEW b \in 0 .. num - 1, a < b, 
             StatusRead(table, num, a), StatusRead(table, num, b)
      PROVE  FALSE
  <2>1. b - 1 \in a .. num - 2 /\ b - 1 \in table
    BY <1>1 DEF StatusRead
  <2> QED
    BY <1>1, <2>1 DEF StatusRead
<1> QED
  BY <1>1

LEMMA SomeStatus ==
    ASSUME NEW table \in SUBSET Nat, NEW num \in 1 .. 8
    PROVE  GetStatus(table, num) \in 0 .. num - 1 /\ StatusRead(table, num, GetStatus(table, num))
<1> DEFINE Top(k) == k < num /\ k - 1 \in table
           m == IF Top(7) THEN 7 ELSE IF Top(6) THEN 6 ELSE IF Top(5) THEN 5
                ELSE IF Top(4) THEN 4 ELSE IF Top(3) THEN 3 ELSE IF Top(2) THEN 2
                ELSE IF Top(1) THEN 1 ELSE 0
<1>1. m \in 0 .. num - 1 /\ (m = 0 \/ m - 1 \in table)
  OBVIOUS
<1>2. ASSUME NEW p \in m .. num - 2 PROVE p \notin table
  <2>1. p \in 0 .. 6 /\ p + 1 < num /\ p >= m
    BY <1>1
  <2>2. ~Top(p + 1)
    BY <2>1
  <2> QED
    BY <2>1, <2>2
<1>3. \E k \in 0 .. num - 1 : StatusRead(table, num, k)
  BY <1>1, <1>2 DEF StatusRead
<1> QED
  BY <1>3 DEF GetStatus

LEMMA StatusIs ==
    ASSUME NEW table \in SUBSET Nat, NEW num \in 1 .. 8, NEW m \in 0 .. num - 1,
           StatusRead(table, num, m)
    PROVE  GetStatus(table, num) = m
BY SomeStatus, OneStatus

\* Writing a status over another leaves the higher of the two, whatever bits
\* the table had: a status never goes back without an erase
\* (_fdb_write_status, _fdb_read_status).
THEOREM StatusRaised ==
    ASSUME NEW table \in SUBSET Nat, NEW num \in 1 .. 8, NEW n \in 0 .. num - 1
    PROVE  GetStatus(Programmed(table, n), num) = WriteStatus(GetStatus(table, num), n)
<1> DEFINE m == GetStatus(table, num)
<1>1. m \in 0 .. num - 1 /\ StatusRead(table, num, m)
  BY SomeStatus
<1>2. Programmed(table, n) = table \cup 0 .. n - 1
  BY BitsBelow DEF Programmed
<1>3. Programmed(table, n) \in SUBSET Nat
  BY <1>2
<1> HIDE DEF m
<1>4. CASE n > m
  <2>1. StatusRead(Programmed(table, n), num, n)
    BY <1>1, <1>2, <1>4 DEF StatusRead
  <2> QED
    BY <1>3, <1>4, <2>1, StatusIs DEF WriteStatus, m
<1>5. CASE ~(n > m)
  <2>1. StatusRead(Programmed(table, n), num, m)
    BY <1>1, <1>2, <1>5 DEF StatusRead
  <2> QED
    BY <1>1, <1>3, <1>5, <2>1, StatusIs DEF WriteStatus, m
<1> QED
  BY <1>1, <1>4, <1>5

\* Power lost while the byte is programmed leaves the old status or one above
\* it and up to the new one.
THEOREM StatusTorn ==
    ASSUME NEW table \in SUBSET Nat, NEW num \in 1 .. 8, NEW n \in 0 .. num - 1,
           NEW part \in SUBSET StatusBits(n)
    PROVE  LET m == GetStatus(table, num)
               t == GetStatus(table \cup part, num)
           IN  m <= t /\ t <= WriteStatus(m, n)
<1> DEFINE m == GetStatus(table, num)
           t == GetStatus(table \cup part, num)
<1>1. \A b \in part : b \in 0 .. n - 1
  BY BitsBelow
<1>2. table \cup part \in SUBSET Nat
  <2>1. \A b \in part : b \in Nat
    BY <1>1
  <2> QED
    BY <2>1
<1>3. m \in 0 .. num - 1 /\ StatusRead(table, num, m)
  BY SomeStatus
<1>4. t \in 0 .. num - 1 /\ StatusRead(table \cup part, num, t)
  BY <1>2, SomeStatus
<1> HIDE DEF m, t
<1>5. m <= t
  <2> SUFFICES ASSUME t < m PROVE FALSE
    BY <1>3, <1>4
  <2>1. m - 1 \in table /\ m - 1 \in t .. num - 2
    BY <1>3, <1>4 DEF StatusRead
  <2> QED
    BY <1>4, <2>1 DEF StatusRead
<1>6. t <= WriteStatus(m, n)
  <2> SUFFICES ASSUME t > m, t > n PROVE FALSE
    BY <1>3, <1>4 DEF WriteStatus
  <2>1. t - 1 \in table \cup part /\ t - 1 >= n /\ t - 1 >= m
    BY <1>3, <1>4 DEF StatusRead
  <2>2. t - 1 \notin part
    BY <1>1, <2>1
  <2>3. t - 1 \in m .. num - 2
    BY <1>3, <1>4, <2>1
  <2> QED
    BY <1>3, <2>1, <2>2, <2>3 DEF StatusRead
<1> QED
  BY <1>5, <1>6 DEF m, t
=============================================================================
