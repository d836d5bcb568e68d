----------------------------- MODULE TSDB_proofs -----------------------------
(***************************************************************************)
(* For any partition, any logs and any number of losses of power: there is *)
(* never more than one sector in use, every variable keeps its type, and   *)
(* the logs of a sector fit.  And, as long as the power stays: the order   *)
(* of the logs in the sectors, their end nodes, db->cur_sec and            *)
(* db->last_time, why an append is refused, and that the calls implement   *)
(* the set of TSLog.                                                       *)
(***************************************************************************)
EXTENDS TSProps, FiniteSetTheorems, WellFoundedInduction, TLAPS

-----------------------------------------------------------------------------
(* The least and the greatest of a set of numbers *)

\* A set of natural numbers that is not empty has a least element.
LEMMA LeastNat ==
    ASSUME NEW S \in SUBSET Nat, S # {}
    PROVE  \E m \in S : \A n \in S : m <= n
<1>1. PICK m \in S : \A n \in S : ~(<<n, m>> \in OpToRel(<, Nat))
  BY NatLessThanWellFounded, WFMin
<1>2. \A n \in S : ~(n < m)
  BY <1>1 DEF OpToRel
<1> QED BY <1>2

\* ... and a greatest one if it is bounded.
LEMMA GreatestNat ==
    ASSUME NEW S \in SUBSET Nat, S # {}, NEW b \in Nat, \A n \in S : n <= b
    PROVE  \E m \in S : \A n \in S : n <= m
<1> DEFINE T == {b - n : n \in S}
<1>1. T \in SUBSET Nat /\ T # {}
  <2>1. \A n \in S : b - n \in Nat
    OBVIOUS
  <2>2. PICK n \in S : TRUE
    OBVIOUS
  <2>3. b - n \in T
    OBVIOUS
  <2> QED BY <2>1, <2>3
<1>2. PICK t \in T : \A u \in T : t <= u
  BY <1>1, LeastNat
<1>3. PICK m \in S : t = b - m
  BY <1>2
<1>4. ASSUME NEW n \in S PROVE n <= m
  <2>1. b - n \in T
    OBVIOUS
  <2> QED BY <2>1, <1>2, <1>3
<1> QED BY <1>3, <1>4

\* Max and Min of FiniteSetsExt are members of their argument.
LEMMA MinIn ==
    ASSUME NEW S \in SUBSET Nat, S # {}
    PROVE  Min(S) \in S
BY LeastNat DEF Min

LEMMA MaxIn ==
    ASSUME NEW S \in SUBSET Nat, S # {}, NEW b \in Nat, \A n \in S : n <= b
    PROVE  Max(S) \in S
BY GreatestNat DEF Max

-----------------------------------------------------------------------------
(* The headers of the sectors *)

Fields == {"sec", "status", "start", "st", "endTime", "end", "n", "room"}

\* What the argument needs of the types.
HdrType ==
    /\ magic \in [Sector -> BOOLEAN] /\ store \in [Sector -> Store]
    /\ DOMAIN cur = Fields
    /\ cur.sec \in Sector \cup {NoSec} /\ cur.status \in Store
    /\ fmt \in Sector

Using(s) == magic[s] /\ store[s] = USING
Formatted(s) == magic[s] /\ store[s] = EMPTY
NoneUsing == \A s \in Sector : ~Using(s)
AtMostOne == \A s, t \in Sector : Using(s) /\ Using(t) => s = t

\* Between calls db->cur_sec says what its sector's header says.
Resting ==
    pc \in {"idle", "down", "refuse"} =>
        /\ cur.status = EMPTY => cur.sec \in Sector /\ Formatted(cur.sec) /\ NoneUsing
        /\ cur.status = USING => cur.sec \in Sector /\ Using(cur.sec)

\* A log goes to the sector in use, and it is that sector which is closed.
Appending ==
    pc \in {"end", "endWrite", "full", "startTime", "preWrite", "commit"} =>
        cur.status = USING /\ cur.sec \in Sector /\ Using(cur.sec)

\* While the next sector is made ready none is in use.
Taking ==
    /\ pc \in {"erase", "format", "using"} => cur.sec \in Sector /\ NoneUsing
    /\ pc = "format" => store[cur.sec] = UNUSED
    /\ pc = "using" => Formatted(cur.sec)

\* tsl_format_all has come as far as fmt.
Formatting ==
    /\ pc \in {"fmtErase", "fmtHdr"} => \A s \in 0 .. fmt - 1 : Formatted(s)
    /\ pc = "fmtHdr" => store[fmt] = UNUSED
    /\ pc = "fmtDone" => \A s \in Sector : Formatted(s)

NoCurrent == pc \in {"off", "stray"} => cur.status = UNUSED

OneInv == HdrType /\ AtMostOne /\ Resting /\ Appending /\ Taking /\ Formatting /\ NoCurrent

-----------------------------------------------------------------------------
(* Sectors and headers *)

LEMMA SectorFacts ==
    /\ SecNum \in Nat /\ SecNum >= 2
    /\ Sector \in SUBSET Nat /\ 0 \in Sector /\ NoSec \notin Sector
    /\ UNUSED \in Store /\ EMPTY \in Store /\ USING \in Store /\ FULL \in Store
BY SecAssumption DEF Sector, NoSec, Store, UNUSED, EMPTY, USING, FULL

\* The next sector is another one.
LEMMA NextSecType ==
    ASSUME NEW s \in Sector
    PROVE  NextSec(s) \in Sector /\ NextSec(s) # s
BY SecAssumption DEF NextSec, Sector

LEMMA EmptiesLeast ==
    ASSUME Empties # {}
    PROVE  Min(Empties) \in Sector /\ store[Min(Empties)] = EMPTY
<1>1. Empties \in SUBSET Nat
  BY SectorFacts DEF Empties
<1>2. Min(Empties) \in Empties
  BY <1>1, MinIn
<1> QED
  BY <1>2 DEF Empties

\* The sector a start takes for the current one is in use, or empty when none
\* is.
LEMMA BootSecIs ==
    /\ BootSec \in Sector \cup {NoSec}
    /\ BootSec \in Sector => \/ store[BootSec] = USING
                             \/ store[BootSec] = EMPTY /\ InUse = {}
    /\ BootSec = NoSec => InUse = {} /\ Empties = {}
<1>1. CASE InUse # {}
  <2>1. BootSec \in InUse
    BY <1>1 DEF BootSec
  <2> QED
    BY <2>1, SectorFacts DEF InUse
<1>2. CASE InUse = {} /\ Empties # {}
  BY <1>2, EmptiesLeast, SectorFacts DEF BootSec
<1>3. CASE InUse = {} /\ Empties = {}
  BY <1>3, SectorFacts DEF BootSec
<1> QED
  BY <1>1, <1>2, <1>3

\* What reading a header leaves in a sector structure.
LEMMA ReadHdrIs ==
    ASSUME NEW info, DOMAIN info = Fields, NEW s \in Sector
    PROVE  /\ DOMAIN ReadHdr(info, s) = Fields
           /\ ReadHdr(info, s).sec = s
           /\ ReadHdr(info, s).status = IF magic[s] THEN store[s] ELSE info.status
BY DEF ReadHdr, Fields

LEMMA NoInfoIs == DOMAIN NoInfo = Fields /\ NoInfo.sec = NoSec /\ NoInfo.status = UNUSED
BY DEF NoInfo, Fields

LEMMA ReadAllIs ==
    ASSUME NEW info, DOMAIN info = Fields, NEW s \in Sector
    PROVE  /\ DOMAIN ReadAll(info, s) = Fields
           /\ ReadAll(info, s).sec = s
           /\ ReadAll(info, s).status = IF magic[s] THEN store[s] ELSE info.status
<1> DEFINE h == ReadHdr(info, s)
<1>1. DOMAIN h = Fields /\ h.sec = s /\ h.status = IF magic[s] THEN store[s] ELSE info.status
  BY ReadHdrIs
<1>2. CASE ~magic[s] \/ store[s] # USING
  BY <1>1, <1>2 DEF ReadAll
<1>3. CASE ~(~magic[s] \/ store[s] # USING)
  <2>1. ReadAll(info, s) =
          [h EXCEPT !.n = Len(logs[s]), !.room = Room(s),
                    !.endTime = IF Timed(s) = {} THEN @ ELSE TslTime(logs[s][Max(Timed(s))]),
                    !.end = IF logs[s] = <<>> THEN @ ELSE <<s, Len(logs[s]) - 1>>]
    BY <1>3 DEF ReadAll
  <2> HIDE DEF h
  <2> QED
    BY <1>1, <2>1 DEF Fields
<1> QED
  BY <1>2, <1>3

LEMMA LeftoverIs ==
    ASSUME NEW s \in Sector, NEW g
    PROVE  DOMAIN Leftover(s, g) = Fields
<1> DEFINE before == {t \in 0 .. s - 1 : EndInfo(t) # {}}
<1>1. CASE before = {}
  BY <1>1 DEF Leftover, NoInfo, Fields
<1>2. CASE before # {}
  <2>1. Max(before) \in before
    <3>1. before \in SUBSET Nat /\ s \in Nat /\ \A t \in before : t <= s
      BY SectorFacts
    <3> QED
      BY <1>2, <3>1, MaxIn
  <2>2. Max(before) \in Sector
    BY <2>1, SecAssumption DEF Sector
  <2>3. Leftover(s, g) = ReadHdr(NoInfo, Max(before))
    BY <1>2 DEF Leftover
  <2> QED
    BY <2>2, <2>3, NoInfoIs, ReadHdrIs
<1> QED
  BY <1>1, <1>2

LEMMA WriteStatusIs ==
    /\ WriteStatus(UNUSED, EMPTY) = EMPTY
    /\ WriteStatus(EMPTY, USING) = USING
    /\ WriteStatus(USING, FULL) = FULL
    /\ \A m, n \in Store : WriteStatus(m, n) \in Store
    /\ EMPTY # USING /\ EMPTY # UNUSED /\ USING # UNUSED /\ FULL # USING /\ FULL # EMPTY
BY DEF WriteStatus, UNUSED, EMPTY, USING, FULL, Store

-----------------------------------------------------------------------------
(* The inductive invariant *)

LEMMA OneInit == Init => OneInv
<1> SUFFICES ASSUME Init PROVE OneInv
  OBVIOUS
<1>1. HdrType
  BY NoInfoIs, SectorFacts DEF Init, HdrType
<1>2. NoneUsing /\ pc = "off" /\ cur.status = UNUSED
  BY NoInfoIs DEF Init, NoneUsing, Using
<1> QED
  BY <1>1, <1>2 DEF OneInv, AtMostOne, NoneUsing, Resting, Appending, Taking, Formatting, NoCurrent

\* What does not touch the headers, nor what db->cur_sec says of its sector,
\* and stays inside a call or ends it keeps the invariant.
LEMMA QuietStep ==
    ASSUME OneInv, UNCHANGED <<magic, store, fmt>>,
           DOMAIN cur' = Fields, cur'.sec = cur.sec, cur'.status = cur.status,
           \/ pc' = pc
           \/ pc \in {"idle", "refuse"} /\ pc' \in {"idle", "down", "refuse"}
           \/ /\ pc \in {"end", "endWrite", "startTime", "preWrite", "commit"}
              /\ pc' \in {"endWrite", "full", "preWrite", "commit", "idle"}
    PROVE  OneInv'
<1>1. HdrType' /\ AtMostOne'
  BY DEF OneInv, HdrType, AtMostOne, Using
<1>2. \A s \in Sector : (Using(s))' = Using(s) /\ (Formatted(s))' = Formatted(s)
  BY DEF Using, Formatted
<1>3. CASE pc' = pc
  BY <1>1, <1>3 DEF OneInv, Resting, Appending, Taking, Formatting, NoCurrent,
                    NoneUsing, Using, Formatted
<1>4. CASE pc \in {"idle", "refuse"} /\ pc' \in {"idle", "down", "refuse"}
  <2>1. Resting'
    BY <1>4 DEF OneInv, Resting, NoneUsing, Using, Formatted
  <2> QED
    BY <1>1, <1>4, <2>1 DEF OneInv, Appending, Taking, Formatting, NoCurrent
<1>5. CASE /\ pc \in {"end", "endWrite", "startTime", "preWrite", "commit"}
           /\ pc' \in {"endWrite", "full", "preWrite", "commit", "idle"}
  <2>1. cur.status = USING /\ cur.sec \in Sector /\ Using(cur.sec)
    BY <1>5 DEF OneInv, Appending
  <2>2. cur'.status = USING /\ cur'.sec \in Sector /\ (Using(cur.sec))'
    BY <2>1 DEF Using
  <2>3. Resting' /\ Appending'
    BY <2>2, WriteStatusIs DEF Resting, Appending
  <2> QED
    BY <1>1, <1>5, <2>3 DEF OneInv, Taking, Formatting, NoCurrent
<1> QED
  BY <1>3, <1>4, <1>5

-----------------------------------------------------------------------------
(* fdb_tsdb_init *)

LEMMA BootFailedKeeps ==
    ASSUME OneInv, BootFailed
    PROVE  OneInv'
<1>1. DOMAIN cur' = Fields /\ cur'.sec = NoSec /\ cur'.status = cur.status
  BY DEF BootFailed, OneInv, HdrType, Fields
<1>2. HdrType' /\ AtMostOne'
  BY <1>1, SectorFacts DEF BootFailed, flash, OneInv, HdrType, AtMostOne, Using
<1>3. pc' \in {"failed", "fmtErase"} /\ fmt' = 0
  BY DEF BootFailed
<1>4. Formatting'
  BY <1>3 DEF Formatting
<1> QED
  BY <1>2, <1>3, <1>4 DEF OneInv, Resting, Appending, Taking, NoCurrent

LEMMA BootKeeps ==
    ASSUME OneInv, Boot
    PROVE  OneInv'
<1>1. magic' = magic /\ store' = store /\ fmt' = fmt /\ pc' = "idle" /\ pc \in {"off", "down"}
  BY DEF Boot, flash
<1>2. \A s \in Sector : magic[s]
  BY DEF Boot, Failed, BadSector
<1>3. DOMAIN cur' = Fields /\ cur'.status \in Store /\ cur'.sec \in Sector \cup {NoSec}
      /\ Resting'
  <2>1. CASE BootSec = NoSec
    <3>1. DOMAIN cur' = Fields /\ cur'.sec = NoSec /\ cur'.status = cur.status
      BY <2>1 DEF Boot, OneInv, HdrType, Fields
    <3>2. InUse = {} /\ Empties = {}
      BY <2>1, BootSecIs
    <3>3. cur.status # USING /\ cur.status # EMPTY
      <4>1. CASE pc = "off"
        BY <4>1, WriteStatusIs DEF OneInv, NoCurrent
      <4>2. CASE pc = "down"
        BY <4>2, <3>2 DEF OneInv, Resting, Using, Formatted, InUse, Empties
      <4> QED
        BY <1>1, <4>1, <4>2
    <3> QED
      BY <3>1, <3>3 DEF OneInv, HdrType, Resting
  <2>2. CASE BootSec # NoSec
    <3>1. PICK b \in Sector : b = BootSec
      BY <2>2, BootSecIs
    <3>2. store[b] = USING \/ (store[b] = EMPTY /\ InUse = {})
      BY <3>1, BootSecIs
    <3>3. PICK g \in Garbage : cur' = ReadAll(Leftover(b, g), b)
      BY <2>2, <3>1 DEF Boot
    <3>4. DOMAIN cur' = Fields /\ cur'.sec = b /\ cur'.status = store[b]
      BY <3>3, <1>2, LeftoverIs, ReadAllIs
    <3>5. store[b] \in Store /\ EMPTY # USING
      BY WriteStatusIs DEF OneInv, HdrType
    <3>6. store[b] = USING => (Using(b))'
      BY <1>1, <1>2 DEF Using
    <3>7. store[b] = EMPTY => (Formatted(b))' /\ NoneUsing'
      BY <3>2, <3>5, <1>1, <1>2 DEF Using, Formatted, NoneUsing, InUse
    <3> QED
      BY <3>4, <3>5, <3>6, <3>7 DEF Resting
  <2> QED
    BY <2>1, <2>2
<1>4. HdrType' /\ AtMostOne'
  BY <1>1, <1>3 DEF OneInv, HdrType, AtMostOne, Using
<1> QED
  BY <1>1, <1>3, <1>4 DEF OneInv, Appending, Taking, Formatting, NoCurrent

-----------------------------------------------------------------------------
(* tsl_format_all *)

\* An erased sector is not in use, and the others are what they were.
LEMMA Erased ==
    ASSUME OneInv, NEW s \in Sector, EraseSector(s)
    PROVE  /\ magic' \in [Sector -> BOOLEAN] /\ store' \in [Sector -> Store]
           /\ store'[s] = UNUSED /\ ~magic'[s]
           /\ \A t \in Sector : t # s => magic'[t] = magic[t] /\ store'[t] = store[t]
           /\ \A t \in Sector : (Using(t))' => Using(t)
<1>1. magic' = [magic EXCEPT ![s] = FALSE] /\ store' = [store EXCEPT ![s] = UNUSED]
  BY DEF EraseSector
<1>2. magic \in [Sector -> BOOLEAN] /\ store \in [Sector -> Store] /\ UNUSED \in Store
  BY SectorFacts DEF OneInv, HdrType
<1>3. /\ magic' \in [Sector -> BOOLEAN] /\ store' \in [Sector -> Store]
      /\ store'[s] = UNUSED /\ ~magic'[s]
      /\ \A t \in Sector : t # s => magic'[t] = magic[t] /\ store'[t] = store[t]
  BY <1>1, <1>2
<1> QED
  BY <1>3 DEF Using

\* A header that was written over an erased one makes an empty sector.
LEMMA HeaderWritten ==
    ASSUME OneInv, NEW s \in Sector, store[s] = UNUSED, WriteSectorHdr(s)
    PROVE  /\ magic' \in [Sector -> BOOLEAN] /\ store' \in [Sector -> Store]
           /\ (Formatted(s))'
           /\ \A t \in Sector : t # s => magic'[t] = magic[t] /\ store'[t] = store[t]
           /\ \A t \in Sector : (Using(t))' => Using(t)
<1>1. magic' = [magic EXCEPT ![s] = TRUE] /\ store' = [store EXCEPT ![s] = EMPTY]
  BY WriteStatusIs DEF WriteSectorHdr
<1>2. magic \in [Sector -> BOOLEAN] /\ store \in [Sector -> Store] /\ EMPTY \in Store
  BY SectorFacts DEF OneInv, HdrType
<1>3. /\ magic' \in [Sector -> BOOLEAN] /\ store' \in [Sector -> Store]
      /\ store'[s] = EMPTY /\ magic'[s]
      /\ \A t \in Sector : t # s => magic'[t] = magic[t] /\ store'[t] = store[t]
  BY <1>1, <1>2
<1> QED
  BY <1>3, WriteStatusIs DEF Using, Formatted

LEMMA FmtEraseKeeps ==
    ASSUME OneInv, FmtErase
    PROVE  OneInv'
<1>1. fmt' = fmt /\ cur' = cur /\ fmt \in Sector /\ pc = "fmtErase"
  BY DEF FmtErase, ram, OneInv, HdrType
<1>2. CASE NoValidEnd(fmt)
  <2>1. magic' = magic /\ store' = store /\ pc' = "hung"
    BY <1>2 DEF FmtErase, flash
  <2>2. HdrType' /\ AtMostOne'
    BY <1>1, <2>1 DEF OneInv, HdrType, AtMostOne, Using
  <2> QED
    BY <2>1, <2>2 DEF OneInv, Resting, Appending, Taking, Formatting, NoCurrent
<1>3. CASE ~NoValidEnd(fmt)
  <2>1. EraseSector(fmt) /\ pc' = "fmtHdr"
    BY <1>3 DEF FmtErase
  <2>2. HdrType' /\ AtMostOne'
    BY <1>1, <2>1, Erased DEF OneInv, HdrType, AtMostOne
  <2>3. Formatting'
    <3>1. \A s \in 0 .. fmt - 1 : s \in Sector /\ s # fmt /\ Formatted(s)
      BY <1>1, SecAssumption DEF OneInv, Formatting, Sector
    <3>2. \A s \in 0 .. fmt - 1 : (Formatted(s))'
      BY <1>1, <2>1, <3>1, Erased DEF Formatted
    <3> QED
      BY <1>1, <2>1, <3>2, Erased DEF Formatting
  <2> QED
    BY <2>1, <2>2, <2>3 DEF OneInv, Resting, Appending, Taking, NoCurrent
<1> QED
  BY <1>2, <1>3

LEMMA FmtHdrKeeps ==
    ASSUME OneInv, FmtHdr
    PROVE  OneInv'
<1>1. cur' = cur /\ fmt \in Sector /\ store[fmt] = UNUSED /\ WriteSectorHdr(fmt)
      /\ fmt' = NextSec(fmt)
  BY DEF FmtHdr, ram, OneInv, HdrType, Formatting
<1>2. HdrType' /\ AtMostOne'
  BY <1>1, HeaderWritten, NextSecType DEF OneInv, HdrType, AtMostOne
<1>3. \A s \in 0 .. fmt : s \in Sector /\ (Formatted(s))'
  <2>1. \A s \in 0 .. fmt : s \in Sector
    BY <1>1, SecAssumption DEF Sector
  <2>2. ASSUME NEW s \in 0 .. fmt, s # fmt PROVE Formatted(s)
    <3>1. s \in 0 .. fmt - 1
      BY <2>2, <1>1, SectorFacts
    <3> QED
      BY <3>1 DEF FmtHdr, OneInv, Formatting
  <2> QED
    BY <1>1, <2>1, <2>2, HeaderWritten DEF Formatted
<1>4. Formatting' /\ pc' \in {"fmtErase", "fmtDone"}
  <2>1. CASE Traversed(fmt)
    <3>1. \A s \in Sector : s \in 0 .. fmt
      BY <2>1, <1>1, SecAssumption DEF Traversed, Sector
    <3>2. pc' = "fmtDone"
      BY <2>1 DEF FmtHdr
    <3> QED
      BY <1>3, <3>1, <3>2 DEF Formatting
  <2>2. CASE ~Traversed(fmt)
    <3>1. fmt' = fmt + 1 /\ fmt' - 1 = fmt
      BY <2>2, <1>1, SecAssumption DEF Traversed, NextSec, Sector
    <3>2. pc' = "fmtErase"
      BY <2>2 DEF FmtHdr
    <3> QED
      BY <1>3, <3>1, <3>2 DEF Formatting
  <2> QED
    BY <2>1, <2>2
<1> QED
  BY <1>2, <1>4 DEF OneInv, Resting, Appending, Taking, NoCurrent

LEMMA FmtDoneKeeps ==
    ASSUME OneInv, FmtDone
    PROVE  OneInv'
<1>1. magic' = magic /\ store' = store /\ fmt' = fmt /\ pc' = "idle" /\ pc = "fmtDone"
  BY DEF FmtDone, flash
<1>2. \A s \in Sector : magic[s] /\ store[s] = EMPTY
  BY <1>1 DEF OneInv, Formatting, Formatted
<1>3. DOMAIN cur' = Fields /\ cur'.sec = 0 /\ cur'.status = EMPTY
  <2>1. cur' = ReadHdr(cur, 0) /\ DOMAIN cur = Fields
    BY DEF FmtDone, OneInv, HdrType
  <2> QED
    BY <2>1, <1>2, ReadHdrIs, SectorFacts
<1>4. HdrType' /\ AtMostOne'
  BY <1>1, <1>3, SectorFacts DEF OneInv, HdrType, AtMostOne, Using
<1>5. Resting'
  BY <1>1, <1>2, <1>3, SectorFacts, WriteStatusIs DEF Resting, Formatted, NoneUsing, Using
<1> QED
  BY <1>1, <1>4, <1>5 DEF OneInv, Appending, Taking, Formatting, NoCurrent

-----------------------------------------------------------------------------
(* tsl_append *)

LEMMA AppendKeeps ==
    ASSUME OneInv, NEW len, NEW t, AppendTsl(len, t)
    PROVE  OneInv'
<1>1. magic' = magic /\ store' = store /\ cur' = cur /\ fmt' = fmt /\ pc = "idle"
  BY DEF AppendTsl, flash, ram
<1>2. HdrType' /\ AtMostOne'
  BY <1>1 DEF OneInv, HdrType, AtMostOne, Using
<1>3. Resting
  BY DEF OneInv
<1>4. cur.status \in Store /\ UNUSED \in Store
  BY SectorFacts DEF OneInv, HdrType
<1>5. \/ pc' = "refuse"
      \/ pc' = "end" /\ cur.status = USING
      \/ pc' = "using" /\ cur.status = EMPTY
      \/ pc' = "preWrite" /\ cur.status = USING
      \/ pc' = "stray" /\ cur.status = UNUSED
  <2>1. CASE ~InOrder(t) \/ cur.status = FULL
    BY <2>1 DEF AppendTsl
  <2>2. CASE ~(~InOrder(t) \/ cur.status = FULL) /\ NoRoom(len)
    BY <2>2 DEF AppendTsl, NoRoom
  <2>3. CASE ~(~InOrder(t) \/ cur.status = FULL) /\ ~NoRoom(len)
    <3>1. pc' = CASE cur.status = EMPTY -> "using"
                  [] cur.status = USING -> "preWrite"
                  [] OTHER              -> "stray"
      BY <2>3 DEF AppendTsl
    <3> QED
      BY <2>3, <3>1, <1>4 DEF Store, UNUSED, EMPTY, USING, FULL
  <2> QED
    BY <2>1, <2>2, <2>3
<1>6. CASE pc' = "refuse"
  BY <1>1, <1>2, <1>3, <1>6 DEF OneInv, Resting, Appending, Taking, Formatting, NoCurrent,
                                NoneUsing, Using, Formatted
<1>7. CASE pc' \in {"end", "preWrite"} /\ cur.status = USING
  BY <1>1, <1>2, <1>3, <1>7 DEF OneInv, Resting, Appending, Taking, Formatting, NoCurrent, Using
<1>8. CASE pc' = "using" /\ cur.status = EMPTY
  BY <1>1, <1>2, <1>3, <1>8 DEF OneInv, Resting, Appending, Taking, Formatting, NoCurrent,
                                NoneUsing, Using, Formatted
<1>9. CASE pc' = "stray" /\ cur.status = UNUSED
  BY <1>1, <1>2, <1>9 DEF OneInv, Resting, Appending, Taking, Formatting, NoCurrent
<1> QED
  BY <1>5, <1>6, <1>7, <1>8, <1>9

\* Without a current sector the entry goes over the header of sector 0.
LEMMA StrayWriteKeeps ==
    ASSUME OneInv, StrayWrite
    PROVE  OneInv'
<1>1. store' = store /\ fmt' = fmt /\ pc' = "idle" /\ cur.status = UNUSED
  BY DEF StrayWrite, Return, OneInv, NoCurrent
<1>2. magic' = [magic EXCEPT ![0] = FALSE] /\ magic' \in [Sector -> BOOLEAN]
  BY SectorFacts DEF StrayWrite, OneInv, HdrType
<1>3. DOMAIN cur' = Fields /\ cur'.sec = cur.sec /\ cur'.status = cur.status
  BY DEF StrayWrite, Appended, OneInv, HdrType, Fields
<1>4. \A s \in Sector : magic'[s] => magic[s]
  BY <1>2 DEF OneInv, HdrType
<1>5. HdrType' /\ AtMostOne'
  BY <1>1, <1>2, <1>3, <1>4 DEF OneInv, HdrType, AtMostOne, Using
<1>6. Resting'
  BY <1>1, <1>3, WriteStatusIs DEF Resting
<1> QED
  BY <1>1, <1>5, <1>6 DEF OneInv, Appending, Taking, Formatting, NoCurrent

LEMMA CommitKeeps ==
    ASSUME OneInv, Commit
    PROVE  OneInv'
<1>1. DOMAIN cur' = Fields /\ cur'.sec = cur.sec /\ cur'.status = cur.status
  BY DEF Commit, Appended, OneInv, HdrType, Fields
<1> QED
  BY <1>1, QuietStep DEF Commit, Return

\* The steps of an append that write no header.
LEMMA LogStepKeeps ==
    ASSUME OneInv, Refuse \/ EndStatus \/ EndWrite \/ EndSkip \/ WriteStart \/ PreWrite
    PROVE  OneInv'
<1>1. UNCHANGED <<magic, store, fmt, cur>> /\ DOMAIN cur' = Fields
  BY DEF Refuse, EndStatus, EndWrite, EndSkip, WriteStart, PreWrite, flash, ram, OneInv, HdrType
<1>2. \/ pc \in {"idle", "refuse"} /\ pc' \in {"idle", "down", "refuse"}
      \/ /\ pc \in {"end", "endWrite", "startTime", "preWrite", "commit"}
         /\ pc' \in {"endWrite", "full", "preWrite", "commit", "idle"}
  BY DEF Refuse, EndStatus, EndWrite, EndSkip, WriteStart, PreWrite, Return
<1> QED
  BY <1>1, <1>2, QuietStep

-----------------------------------------------------------------------------
(* update_sec_status *)

LEMMA MarkFullKeeps ==
    ASSUME OneInv, MarkFull
    PROVE  OneInv'
<1> DEFINE next == NextSec(cur.sec)
           closed == [cur EXCEPT !.status = FULL]
           read == ReadHdr(closed, next)
<1>1. pc = "full" /\ cur.sec \in Sector /\ Using(cur.sec)
  BY DEF MarkFull, OneInv, Appending
<1>2. next \in Sector /\ next # cur.sec
  BY <1>1, NextSecType
<1>3. magic' = magic /\ fmt' = fmt /\ store' = [store EXCEPT ![cur.sec] = FULL]
  BY <1>1, WriteStatusIs DEF MarkFull, Using
<1>4. /\ store' \in [Sector -> Store] /\ store'[cur.sec] = FULL
      /\ \A s \in Sector : s # cur.sec => store'[s] = store[s]
  BY <1>1, <1>3, SectorFacts DEF OneInv, HdrType
<1>5. AtMostOne' /\ NoneUsing'
  BY <1>1, <1>3, <1>4, WriteStatusIs DEF OneInv, AtMostOne, NoneUsing, Using
<1>6. DOMAIN closed = Fields /\ closed.status = FULL /\ closed.sec = cur.sec
  BY DEF OneInv, HdrType, Fields
<1>7. CASE cur' = closed /\ pc' = "idle"
  <2>1. HdrType'
    BY <1>3, <1>4, <1>6, <1>7, <1>1, SectorFacts DEF OneInv, HdrType
  <2>2. Resting'
    BY <1>6, <1>7, WriteStatusIs DEF Resting
  <2> QED
    BY <1>5, <1>7, <2>1, <2>2 DEF OneInv, Appending, Taking, Formatting, NoCurrent
<1>8. CASE cur' = read /\ pc' = IF read.status = EMPTY THEN "using" ELSE "erase"
  <2> HIDE DEF closed, next
  <2>1. /\ DOMAIN read = Fields /\ read.sec = next
        /\ read.status = IF magic[next] THEN store[next] ELSE FULL
    BY <1>2, <1>6, ReadHdrIs
  <2>2. read.status \in Store
    BY <1>2, <2>1, SectorFacts DEF OneInv, HdrType
  <2>3. HdrType'
    BY <1>2, <1>3, <1>4, <1>8, <2>1, <2>2 DEF OneInv, HdrType
  <2>4. read.status = EMPTY => magic'[next] /\ store'[next] = EMPTY
    BY <1>2, <1>3, <1>4, <2>1, WriteStatusIs
  <2>5. cur'.sec = next /\ cur'.sec \in Sector
    BY <1>2, <1>8, <2>1
  <2>6. Taking'
    BY <1>5, <1>8, <2>4, <2>5 DEF Taking, Formatted
  <2> QED
    BY <1>5, <1>8, <2>3, <2>6 DEF OneInv, Resting, Appending, Formatting, NoCurrent
<1>9. \/ cur' = closed /\ pc' = "idle"
      \/ cur' = read /\ pc' = IF read.status = EMPTY THEN "using" ELSE "erase"
  BY DEF MarkFull, Return
<1> QED
  BY <1>7, <1>8, <1>9

LEMMA EraseNextKeeps ==
    ASSUME OneInv, EraseNext
    PROVE  OneInv'
<1>1. cur' = cur /\ fmt' = fmt /\ pc' = "format" /\ EraseSector(cur.sec)
  BY DEF EraseNext, ram
<1>2. cur.sec \in Sector /\ NoneUsing
  BY DEF EraseNext, OneInv, Taking
<1>3. HdrType' /\ AtMostOne'
  BY <1>1, <1>2, Erased DEF OneInv, HdrType, AtMostOne
<1>4. Taking'
  BY <1>1, <1>2, Erased DEF Taking, NoneUsing
<1> QED
  BY <1>1, <1>3, <1>4 DEF OneInv, Resting, Appending, Formatting, NoCurrent

LEMMA FormatNextKeeps ==
    ASSUME OneInv, FormatNext
    PROVE  OneInv'
<1>1. cur.sec \in Sector /\ NoneUsing /\ store[cur.sec] = UNUSED
  BY DEF FormatNext, OneInv, Taking
<1>2. fmt' = fmt /\ pc' = "using" /\ WriteSectorHdr(cur.sec)
  BY DEF FormatNext
<1>3. DOMAIN cur' = Fields /\ cur'.sec = cur.sec /\ cur'.status = EMPTY
  BY DEF FormatNext, OneInv, HdrType, Fields
<1>4. HdrType' /\ AtMostOne'
  BY <1>1, <1>2, <1>3, HeaderWritten, SectorFacts DEF OneInv, HdrType, AtMostOne
<1>5. NoneUsing'
  BY <1>1, <1>2, HeaderWritten DEF NoneUsing
<1>6. magic'[cur'.sec] /\ store'[cur'.sec] = EMPTY
  BY <1>1, <1>2, <1>3, HeaderWritten DEF Formatted
<1>7. Taking'
  BY <1>1, <1>2, <1>3, <1>5, <1>6 DEF Taking, Formatted
<1> QED
  BY <1>2, <1>4, <1>7 DEF OneInv, Resting, Appending, Formatting, NoCurrent

LEMMA UsingStatusKeeps ==
    ASSUME OneInv, UsingStatus
    PROVE  OneInv'
<1>1. cur.sec \in Sector /\ NoneUsing /\ Formatted(cur.sec)
  BY DEF UsingStatus, OneInv, Taking
<1>2. magic' = magic /\ fmt' = fmt /\ pc' = "startTime"
      /\ store' = [store EXCEPT ![cur.sec] = USING]
  BY <1>1, WriteStatusIs DEF UsingStatus, Formatted
<1>3. DOMAIN cur' = Fields /\ cur'.sec = cur.sec /\ cur'.status = USING
  BY DEF UsingStatus, OneInv, HdrType, Fields
<1>4. /\ store' \in [Sector -> Store] /\ store'[cur.sec] = USING
      /\ \A s \in Sector : s # cur.sec => store'[s] = store[s]
  BY <1>1, <1>2, SectorFacts DEF OneInv, HdrType
<1>5. \A s \in Sector : (Using(s))' => s = cur.sec
  BY <1>1, <1>2, <1>4 DEF NoneUsing, Using
<1>6. HdrType' /\ AtMostOne'
  BY <1>2, <1>3, <1>4, <1>5, <1>1, SectorFacts DEF OneInv, HdrType, AtMostOne
<1>7. Appending'
  BY <1>1, <1>2, <1>3, <1>4 DEF Appending, Using, Formatted
<1> QED
  BY <1>2, <1>6, <1>7 DEF OneInv, Resting, Taking, Formatting, NoCurrent

-----------------------------------------------------------------------------
(* The other calls, and the power *)

LEMMA OtherCallKeeps ==
    ASSUME OneInv, Clean \/ SetRollover \/ Deinit \/ Mark \/ BootHang \/ Hang
    PROVE  OneInv'
<1>1. CASE SetRollover \/ Deinit \/ Mark \/ Hang
  <2>1. UNCHANGED <<magic, store, fmt, cur>> /\ DOMAIN cur' = Fields
    BY <1>1 DEF SetRollover, Deinit, Mark, SetStatus, Hang, vars, flash, ram, OneInv, HdrType
  <2>2. pc' = pc \/ (pc = "idle" /\ pc' = "down")
    BY <1>1 DEF SetRollover, Deinit, Mark, SetStatus, Hang, vars, flash, ram
  <2> QED
    BY <2>1, <2>2, QuietStep
<1>2. CASE Clean
  <2>1. magic' = magic /\ store' = store /\ cur' = cur /\ pc' = "fmtErase" /\ fmt' = 0
    BY <1>2 DEF Clean, flash, ram
  <2>2. HdrType' /\ AtMostOne'
    BY <2>1, SectorFacts DEF OneInv, HdrType, AtMostOne, Using
  <2>3. Formatting'
    BY <2>1 DEF Formatting
  <2> QED
    BY <2>1, <2>2, <2>3 DEF OneInv, Resting, Appending, Taking, NoCurrent
<1>3. CASE BootHang
  <2>1. magic' = magic /\ store' = store /\ cur' = cur /\ fmt' = fmt /\ pc' = "hung"
    BY <1>3 DEF BootHang, flash, ram
  <2>2. HdrType' /\ AtMostOne'
    BY <2>1 DEF OneInv, HdrType, AtMostOne, Using
  <2> QED
    BY <2>1, <2>2 DEF OneInv, Resting, Appending, Taking, Formatting, NoCurrent
<1> QED
  BY <1>1, <1>2, <1>3

LEMMA CrashKeeps ==
    ASSUME OneInv, Crash
    PROVE  OneInv'
<1>1. magic' = magic /\ store' = store /\ cur' = NoInfo /\ pc' = "off" /\ fmt' = 0
  BY DEF Crash, flash
<1>2. HdrType' /\ AtMostOne'
  BY <1>1, NoInfoIs, SectorFacts DEF OneInv, HdrType, AtMostOne, Using
<1> QED
  BY <1>1, <1>2, NoInfoIs DEF OneInv, Resting, Appending, Taking, Formatting, NoCurrent

LEMMA OneNext ==
    ASSUME OneInv, [Next]_vars
    PROVE  OneInv'
<1>1. CASE FormatAll
  BY <1>1, FmtEraseKeeps, FmtHdrKeeps, FmtDoneKeeps DEF FormatAll
<1>2. CASE TakeSector
  BY <1>2, LogStepKeeps, MarkFullKeeps, EraseNextKeeps, FormatNextKeeps, UsingStatusKeeps
     DEF TakeSector
<1>3. CASE Refuse \/ PreWrite \/ Commit \/ StrayWrite
  BY <1>3, LogStepKeeps, CommitKeeps, StrayWriteKeeps
<1>4. CASE Call
  BY <1>4, AppendKeeps, OtherCallKeeps, BootFailedKeeps, BootKeeps DEF Call
<1>5. CASE Mark
  BY <1>5, OtherCallKeeps
<1>6. CASE Crash
  BY <1>6, CrashKeeps
<1>7. CASE UNCHANGED vars
  <2>1. UNCHANGED <<magic, store, fmt, cur, pc>> /\ DOMAIN cur' = Fields
    BY <1>7 DEF vars, flash, ram, OneInv, HdrType
  <2> QED
    BY <2>1, QuietStep
<1> QED
  BY <1>1, <1>2, <1>3, <1>4, <1>5, <1>6, <1>7 DEF Next, Step

LEMMA OneInvImplies == OneInv => OneUsing
<1> SUFFICES ASSUME OneInv PROVE OneUsing
  OBVIOUS
<1> DEFINE U == {s \in Sector : Using(s)}
<1>1. CASE U = {}
  BY <1>1, FS_EmptySet DEF OneUsing, Using
<1>2. CASE U # {}
  <2>1. PICK s \in Sector : U = {s}
    BY <1>2 DEF OneInv, AtMostOne
  <2>2. Cardinality(U) = 1
    BY <2>1, FS_Singleton
  <2> QED
    BY <2>2 DEF OneUsing, Using
<1> QED
  BY <1>1, <1>2

\* At no moment, within a call or after a loss of power, are two sectors in
\* use (update_sec_status, fdb_tsdb_init, tsl_format_all).
THEOREM OneSector == Spec => []OneUsing
<1>1. Init => OneInv
  BY OneInit
<1>2. OneInv /\ [Next]_vars => OneInv'
  BY OneNext
<1>3. OneInv => OneUsing
  BY OneInvImplies
<1> QED
  BY <1>1, <1>2, <1>3, PTL DEF Spec

-----------------------------------------------------------------------------
(* Total *)

\* f holds the sums of the first elements of w.
SumsOf(w, f) == f = [n \in 0 .. Len(w) |-> IF n = 0 THEN 0 ELSE f[n - 1] + w[n]]

\* There are such sums, of any number of elements.
LEMMA SumsTo ==
    ASSUME NEW w \in Seq(Nat), NEW k \in 0 .. Len(w)
    PROVE  \E f : f = [n \in 0 .. k |-> IF n = 0 THEN 0 ELSE f[n - 1] + w[n]]
<1> DEFINE Sums(j, f) == f = [n \in 0 .. j |-> IF n = 0 THEN 0 ELSE f[n - 1] + w[n]]
           Bad == {j \in 0 .. Len(w) : ~\E f : Sums(j, f)}
<1>1. Len(w) \in Nat
  OBVIOUS
<1>2. SUFFICES ASSUME Bad # {} PROVE FALSE
  <2>1. k \notin Bad
    BY <1>2
  <2> QED BY <2>1
<1>3. Bad \in SUBSET Nat
  BY <1>1
<1>4. PICK m \in Bad : \A j \in Bad : m <= j
  BY <1>2, <1>3, LeastNat
<1>5. CASE m = 0
  <2> DEFINE g == [n \in 0 .. 0 |-> 0]
  <2>1. \A n \in 0 .. 0 : n = 0
    OBVIOUS
  <2>2. Sums(0, g)
    BY <2>1
  <2> QED BY <1>4, <1>5, <2>2
<1>6. CASE m # 0
  <2>1. m - 1 \in 0 .. Len(w) /\ ~(m <= m - 1)
    BY <1>1, <1>6
  <2>2. m - 1 \notin Bad
    BY <1>4, <2>1
  <2>3. PICK f : Sums(m - 1, f)
    BY <2>1, <2>2
  <2> DEFINE g == [n \in 0 .. m |-> IF n = m THEN f[m - 1] + w[m] ELSE f[n]]
  <2>4. \A n \in 0 .. m - 1 : f[n] = IF n = 0 THEN 0 ELSE f[n - 1] + w[n]
    BY <2>3
  <2>5. ASSUME NEW n \in 0 .. m PROVE g[n] = IF n = 0 THEN 0 ELSE g[n - 1] + w[n]
    <3>1. CASE n = m
      BY <1>1, <1>6, <3>1
    <3>2. CASE n # m
      <4>1. n \in 0 .. m - 1
        BY <1>1, <3>2
      <4>2. n # 0 => n - 1 \in 0 .. m - 1 /\ n - 1 # m
        BY <1>1, <4>1
      <4> QED BY <2>4, <3>2, <4>1, <4>2
    <3> QED BY <3>1, <3>2
  <2>6. g = [n \in 0 .. m |-> IF n = 0 THEN 0 ELSE g[n - 1] + w[n]]
    BY <2>5
  <2>7. Sums(m, g)
    BY <2>6
  <2> QED BY <1>4, <2>7
<1> QED BY <1>5, <1>6

\* The sums that Total is the last of.
LEMMA TotalSums ==
    ASSUME NEW w \in Seq(Nat)
    PROVE  \E f \in [0 .. Len(w) -> Nat] :
             /\ Total(w) = f[Len(w)]
             /\ f[0] = 0
             /\ \A n \in 1 .. Len(w) : f[n] = f[n - 1] + w[n]
<1>1. Len(w) \in Nat /\ \A n \in 1 .. Len(w) : w[n] \in Nat
  OBVIOUS
<1> DEFINE f == CHOOSE g : SumsOf(w, g)
<1>2. Total(w) = f[Len(w)]
  BY DEF Total, SumsOf
<1>3. SumsOf(w, f)
  <2>1. \E g : SumsOf(w, g)
    BY <1>1, SumsTo DEF SumsOf
  <2> QED BY <2>1
<1> HIDE DEF f
<1>4. /\ f[0] = 0
      /\ \A n \in 1 .. Len(w) : f[n] = f[n - 1] + w[n]
      /\ DOMAIN f = 0 .. Len(w)
      /\ f = [n \in 0 .. Len(w) |-> f[n]]
  BY <1>1, <1>3 DEF SumsOf
<1> DEFINE Bad == {n \in 0 .. Len(w) : f[n] \notin Nat}
<1>5. Bad = {}
  <2>1. SUFFICES ASSUME Bad # {} PROVE FALSE
    OBVIOUS
  <2>2. PICK m \in Bad : \A j \in Bad : m <= j
    <3>1. Bad \in SUBSET Nat
      BY <1>1
    <3> QED BY <2>1, <3>1, LeastNat
  <2>3. m # 0
    BY <1>4
  <2>4. m \in 1 .. Len(w) /\ m - 1 \in 0 .. Len(w) /\ ~(m <= m - 1)
    BY <1>1, <2>3
  <2>5. f[m - 1] \in Nat
    BY <2>2, <2>4
  <2> QED BY <1>1, <1>4, <2>2, <2>4, <2>5
<1>6. f \in [0 .. Len(w) -> Nat]
  BY <1>4, <1>5
<1> QED BY <1>2, <1>4, <1>6

LEMMA TotalType == ASSUME NEW w \in Seq(Nat) PROVE Total(w) \in Nat
<1>1. Len(w) \in 0 .. Len(w)
  OBVIOUS
<1> QED BY <1>1, TotalSums

LEMMA TotalEmpty == Total(<<>>) = 0
<1>1. <<>> \in Seq(Nat) /\ Len(<<>>) = 0
  OBVIOUS
<1> QED BY <1>1, TotalSums

LEMMA TotalAppend ==
    ASSUME NEW w \in Seq(Nat), NEW x \in Nat
    PROVE  Total(Append(w, x)) = Total(w) + x
<1> DEFINE v == Append(w, x)
<1>1. /\ v \in Seq(Nat) /\ Len(w) \in Nat /\ Len(v) \in 0 .. Len(v) /\ Len(v) = Len(w) + 1 /\ v[Len(v)] = x
      /\ \A n \in 1 .. Len(w) : v[n] = w[n]
  OBVIOUS
<1> HIDE DEF v
<1>2. PICK f \in [0 .. Len(w) -> Nat] :
             /\ Total(w) = f[Len(w)]
             /\ f[0] = 0
             /\ \A n \in 1 .. Len(w) : f[n] = f[n - 1] + w[n]
  BY TotalSums
<1>3. PICK g \in [0 .. Len(v) -> Nat] :
             /\ Total(v) = g[Len(v)]
             /\ g[0] = 0
             /\ \A n \in 1 .. Len(v) : g[n] = g[n - 1] + v[n]
  BY <1>1, TotalSums
<1>4. SUFFICES ASSUME f[Len(w)] = g[Len(w)] PROVE Total(v) = Total(w) + x
  <2> DEFINE Bad == {n \in 0 .. Len(w) : f[n] # g[n]}
  <2>1. SUFFICES ASSUME Bad # {} PROVE FALSE
    <3>1. Len(w) \notin Bad /\ Len(w) \in 0 .. Len(w)
      BY <1>1, <2>1
    <3> QED BY <1>4, <3>1 DEF v
  <2>2. PICK m \in Bad : \A j \in Bad : m <= j
    <3>1. Bad \in SUBSET Nat
      BY <1>1
    <3> QED BY <2>1, <3>1, LeastNat
  <2>3. m # 0
    BY <1>2, <1>3
  <2>4. m \in 1 .. Len(w) /\ m \in 1 .. Len(v) /\ m - 1 \in 0 .. Len(w) /\ ~(m <= m - 1)
    BY <1>1, <2>3
  <2>5. f[m - 1] = g[m - 1]
    BY <2>2, <2>4
  <2> QED BY <1>1, <1>2, <1>3, <2>2, <2>4, <2>5
<1>6. g[Len(v)] = g[Len(v) - 1] + v[Len(v)] /\ Len(v) - 1 = Len(w)
  BY <1>1, <1>3
<1> QED BY <1>1, <1>2, <1>3, <1>4, <1>6

\* Longer elements, longer sum.
LEMMA TotalLe ==
    ASSUME NEW v \in Seq(Nat), NEW w \in Seq(Nat), Len(v) = Len(w),
           \A n \in 1 .. Len(v) : v[n] <= w[n]
    PROVE  Total(v) <= Total(w)
<1>1. PICK f \in [0 .. Len(v) -> Nat] :
             /\ Total(v) = f[Len(v)]
             /\ f[0] = 0
             /\ \A n \in 1 .. Len(v) : f[n] = f[n - 1] + v[n]
  BY TotalSums
<1>2. PICK g \in [0 .. Len(v) -> Nat] :
             /\ Total(w) = g[Len(v)]
             /\ g[0] = 0
             /\ \A n \in 1 .. Len(v) : g[n] = g[n - 1] + w[n]
  BY TotalSums
<1> DEFINE Bad == {n \in 0 .. Len(v) : ~(f[n] <= g[n])}
<1>3. Len(v) \in Nat /\ Len(v) \in 0 .. Len(v)
  OBVIOUS
<1>4. SUFFICES ASSUME Bad # {} PROVE FALSE
  <2>1. Len(v) \notin Bad
    BY <1>4
  <2> QED BY <2>1, <1>1, <1>2, <1>3
<1>5. PICK m \in Bad : \A j \in Bad : m <= j
  <2>1. Bad \in SUBSET Nat
    BY <1>3
  <2> QED BY <1>4, <2>1, LeastNat
<1>6. m # 0
  BY <1>1, <1>2
<1>7. m \in 1 .. Len(v) /\ m - 1 \in 0 .. Len(v) /\ ~(m <= m - 1)
  BY <1>3, <1>6
<1>8. f[m - 1] <= g[m - 1]
  BY <1>5, <1>7
<1>9. v[m] \in Nat /\ w[m] \in Nat /\ f[m - 1] \in Nat /\ g[m - 1] \in Nat
  <2>1. \A n \in 1 .. Len(v) : v[n] \in Nat
    OBVIOUS
  <2>2. \A n \in 1 .. Len(w) : w[n] \in Nat
    OBVIOUS
  <2>3. v[m] \in Nat /\ w[m] \in Nat
    BY <1>7, <2>1, <2>2
  <2>4. f[m - 1] \in Nat /\ g[m - 1] \in Nat
    BY <1>7, <1>1, <1>2
  <2> QED BY <2>3, <2>4
<1>10. f[m] = f[m - 1] + v[m] /\ g[m] = g[m - 1] + w[m]
  BY <1>1, <1>2, <1>7
<1> QED BY <1>5, <1>7, <1>8, <1>9, <1>10

-----------------------------------------------------------------------------
(* Types *)

\* The steps of an append, and those of a format.
Appends == {"refuse", "end", "endWrite", "full", "erase", "format", "using", "startTime",
            "preWrite", "commit", "stray"}
Formats == {"fmtErase", "fmtHdr", "fmtDone"}
CleanOp == [NoOp EXCEPT !.kind = "clean"]

\* The call that is served.
OpInv ==
    /\ pc \in Appends => op \in [kind : {"append"}, len : Lens, time : Time]
    /\ pc \in {"idle", "off", "down"} => op = NoOp
    /\ op \in {NoOp, CleanOp} \/ pc \in Appends

Types ==
    /\ magic \in [Sector -> BOOLEAN]
    /\ store \in [Sector -> Store]
    /\ start \in [Sector -> Int]
    /\ ends \in [Sector -> End \X End]
    /\ logs \in [Sector -> Seq(Tsl)]
    /\ oldest \in Sector \cup {NoSec}
    /\ cur \in CurType
    /\ last \in Int /\ rollover \in BOOLEAN
    /\ pc \in PC /\ ack \in BOOLEAN
    /\ fmt \in Sector
    /\ crashes \in 0 .. MaxCrash /\ cleans \in 0 .. MaxClean
    /\ OpInv

LEMMA Statuses ==
    /\ Store = 0 .. 3 /\ TslStatus = 0 .. 5
    /\ UNUSED = 0 /\ EMPTY = 1 /\ USING = 2 /\ FULL = 3
    /\ TSL_UNUSED = 0 /\ TSL_PRE_WRITE = 1 /\ TSL_WRITE = 2
BY DEF Store, TslStatus, UNUSED, EMPTY, USING, FULL, TSL_UNUSED, TSL_PRE_WRITE, TSL_WRITE,
       TSL_USER_STATUS2

LEMMA NoInfoType == NoInfo \in CurType /\ NoOp \in OpType /\ CleanOp \in OpType
BY Statuses, SectorFacts DEF NoInfo, CurType, NoPlace, NoOp, CleanOp, OpType

LEMMA AppendOpType ==
    ASSUME Types
    PROVE  op \in OpType
<1>1. Lens \subseteq Nat /\ Time \subseteq Int
  BY LenAssumption, SecAssumption, TimeAssumption DEF Time
<1> QED BY <1>1, NoInfoType DEF Types, OpInv, OpType

LEMMA EndInfoType ==
    ASSUME Types, NEW s \in Sector
    PROVE  EndInfo(s) \in SUBSET End
BY DEF Types, EndInfo

LEMMA ReadHdrType ==
    ASSUME Types, NEW info \in CurType, NEW s \in Sector
    PROVE  ReadHdr(info, s) \in CurType
<1>1. CASE ~magic[s]
  BY <1>1 DEF ReadHdr, CurType
<1>2. CASE magic[s]
  <2> DEFINE e == CHOOSE e \in EndInfo(s) : TRUE
             time == IF EndInfo(s) = {} THEN info.endTime ELSE e.time
             end == IF EndInfo(s) = {} THEN info.end ELSE <<s, e.slot>>
  <2>1. EndInfo(s) # {} => e \in End
    BY EndInfoType
  <2>2. time \in Int /\ end \in (Sector \cup {NoSec}) \X Int
    BY <2>1 DEF End, CurType
  <2>3. ReadHdr(info, s) =
          [sec |-> s, status |-> store[s], start |-> start[s],
           st |-> <<ends[s][1].st, ends[s][2].st>>, endTime |-> time, end |-> end,
           n |-> 0, room |-> Cap]
    BY <1>2 DEF ReadHdr
  <2>4. ends[s][1].st \in TslStatus /\ ends[s][2].st \in TslStatus
    BY DEF Types, End
  <2>5. store[s] \in Store /\ start[s] \in Int /\ Cap \in Nat
    BY SecAssumption DEF Types
  <2> HIDE DEF time, end
  <2> QED BY <2>2, <2>3, <2>4, <2>5 DEF CurType
<1> QED BY <1>1, <1>2

\* The last complete entry is an entry.
LEMMA LastTimedIn ==
    ASSUME Types, NEW s \in Sector, Timed(s) # {}
    PROVE  Max(Timed(s)) \in Timed(s) /\ Max(Timed(s)) \in DOMAIN logs[s]
<1>1. /\ Len(logs[s]) \in Nat /\ Timed(s) \in SUBSET Nat
      /\ \A i \in Timed(s) : i <= Len(logs[s]) /\ i \in DOMAIN logs[s]
  BY DEF Types, Timed
<1> QED BY <1>1, MaxIn

LEMMA LenFacts ==
    /\ Cap \in Nat /\ MaxLen \in Nat /\ Lens \subseteq Nat /\ SizeMod \in Nat \ {0}
    /\ \A n \in Lens : n >= 1 /\ n <= MaxLen
    /\ Time \subseteq Nat /\ \A t \in Time : t >= 1
BY LenAssumption, SecAssumption, TimeAssumption DEF Time

\* What is read of an entry is as long as the entry, or longer.
EntriesShort == \A s \in Sector : \A i \in DOMAIN logs[s] : logs[s][i].len \in Lens

LEMMA UsedType ==
    ASSUME NEW q \in Seq(Tsl)
    PROVE  Used(q) \in Nat
<1>1. \A i \in DOMAIN q : 1 + ReadLen(q[i]) \in Nat
  <2>1. \A i \in DOMAIN q : q[i] \in Tsl
    OBVIOUS
  <2> QED BY <2>1, LenFacts DEF ReadLen, Tsl
<1>2. [i \in DOMAIN q |-> 1 + ReadLen(q[i])] \in Seq(Nat)
  BY <1>1
<1> QED BY <1>2, TotalType DEF Used

LEMMA RoomType ==
    ASSUME Types, NEW s \in Sector
    PROVE  Room(s) \in Nat
BY UsedType, LenFacts DEF Room, Types

LEMMA TslTimeType == \A r \in Tsl : TslTime(r) \in Int
<1>1. \A t \in Time : t \in Int
  BY LenFacts
<1>2. \A r \in Tsl : r.time \in Time
  BY DEF Tsl
<1> QED BY <1>1, <1>2 DEF TslTime

LEMMA ReadAllType ==
    ASSUME Types, NEW info \in CurType, NEW s \in Sector
    PROVE  ReadAll(info, s) \in CurType
<1>1. PICK h \in CurType : h = ReadHdr(info, s)
  BY ReadHdrType
<1> DEFINE time == IF Timed(s) = {} THEN h.endTime ELSE TslTime(logs[s][Max(Timed(s))])
           end == IF logs[s] = <<>> THEN h.end ELSE <<s, Len(logs[s]) - 1>>
<1>2. CASE ~magic[s] \/ store[s] # USING
  BY <1>1, <1>2 DEF ReadAll
<1>3. CASE ~(~magic[s] \/ store[s] # USING)
  <2>1. ReadAll(info, s) = [h EXCEPT !.n = Len(logs[s]), !.room = Room(s), !.endTime = time, !.end = end]
    BY <1>1, <1>3 DEF ReadAll, CurType
  <2>2. time \in Int
    <3>1. CASE Timed(s) = {}
      BY <3>1 DEF CurType
    <3>2. CASE Timed(s) # {}
      <4>1. logs[s][Max(Timed(s))] \in Tsl
        BY <3>2, LastTimedIn DEF Types
      <4> QED BY <3>2, <4>1, TslTimeType
    <3> QED BY <3>1, <3>2
  <2>3. Len(logs[s]) \in Nat
    BY DEF Types
  <2>4. end \in (Sector \cup {NoSec}) \X Int
    BY <2>3 DEF CurType
  <2>5. Room(s) \in Nat
    BY RoomType
  <2> HIDE DEF time, end
  <2> QED BY <2>1, <2>2, <2>3, <2>4, <2>5 DEF CurType
<1> QED BY <1>2, <1>3

LEMMA LeftoverType ==
    ASSUME Types, NEW s \in Sector, NEW g \in Int
    PROVE  Leftover(s, g) \in CurType
<1> DEFINE before == {t \in 0 .. s - 1 : EndInfo(t) # {}}
<1>1. CASE before = {}
  BY <1>1, NoInfoType DEF Leftover, CurType
<1>2. CASE before # {}
  <2>1. Max(before) \in before
    <3>1. before \in SUBSET Nat /\ s \in Nat /\ \A t \in before : t <= s
      BY SectorFacts
    <3> QED BY <1>2, <3>1, MaxIn
  <2>2. Max(before) \in Sector
    BY <2>1, SecAssumption DEF Sector
  <2>3. Leftover(s, g) = ReadHdr(NoInfo, Max(before))
    BY <1>2 DEF Leftover
  <2> QED BY <2>2, <2>3, NoInfoType, ReadHdrType
<1> QED BY <1>1, <1>2

LEMMA TypesInit == Init => Types
<1> SUFFICES ASSUME Init PROVE Types
  OBVIOUS
<1>1. NoEnd \in End
  BY Statuses DEF NoEnd, End, NoTime
<1>2. <<>> \in Seq(Tsl) /\ NoEnds \in End \X End
  BY <1>1 DEF NoEnds
<1>3. 0 \in Sector /\ UNUSED \in Store /\ NoTime \in Int
  BY SectorFacts DEF NoTime
<1>4. 0 \in 0 .. MaxCrash /\ 0 \in 0 .. MaxClean
  BY OptionAssumption
<1>5. OpInv
  BY DEF Init, OpInv, Appends
<1> QED BY <1>2, <1>3, <1>4, <1>5, NoInfoType DEF Init, Types, PC

LEMMA EraseTypes ==
    ASSUME Types, NEW s \in Sector, EraseSector(s)
    PROVE  /\ start' \in [Sector -> Int] /\ ends' \in [Sector -> End \X End]
           /\ logs' \in [Sector -> Seq(Tsl)]
<1>1. NoEnd \in End
  BY Statuses DEF NoEnd, End, NoTime
<1>2. <<>> \in Seq(Tsl) /\ NoEnds \in End \X End /\ NoTime \in Int
  BY <1>1 DEF NoEnds, NoTime
<1> QED BY <1>2 DEF Types, EraseSector

\* A step that changes neither what the sectors hold nor what is known of the
\* current one.
LEMMA PlainTypes ==
    ASSUME Types, OneInv', UNCHANGED <<start, ends, logs, oldest, cur, last, crashes, cleans>>,
           rollover' \in BOOLEAN, ack' \in BOOLEAN, pc' \in PC, OpInv'
    PROVE  Types'
BY DEF Types, OneInv, HdrType

LEMMA FormatTypes ==
    ASSUME Types, OneInv', FormatAll
    PROVE  Types'
<1>1. CASE FmtErase
  <2>1. fmt \in Sector /\ pc' \in PC /\ OpInv'
    BY <1>1 DEF FmtErase, Types, OpInv, Appends, PC
  <2>2. UNCHANGED <<start, ends, logs>> \/ EraseSector(fmt)
    BY <1>1 DEF FmtErase, flash
  <2>3. start' \in [Sector -> Int] /\ ends' \in [Sector -> End \X End] /\ logs' \in [Sector -> Seq(Tsl)]
    BY <2>1, <2>2, EraseTypes DEF Types
  <2>4. UNCHANGED <<ram, ack, crashes, cleans>>
    BY <1>1 DEF FmtErase, bound
  <2> QED BY <2>1, <2>3, <2>4 DEF Types, ram, OneInv, HdrType
<1>2. CASE FmtHdr
  <2>1. pc' \in PC /\ OpInv'
    BY <1>2 DEF FmtHdr, Types, OpInv, Appends, PC
  <2> QED BY <1>2, <2>1, PlainTypes DEF FmtHdr, WriteSectorHdr, ram, bound, Types
<1>3. CASE FmtDone
  <2>1. pc' \in PC /\ OpInv' /\ ack' \in BOOLEAN
    BY <1>3 DEF FmtDone, OpInv, Appends, PC
  <2>2. cur' \in CurType
    BY <1>3, ReadHdrType, SectorFacts DEF FmtDone, Types
  <2> QED BY <1>3, <2>1, <2>2, SectorFacts DEF FmtDone, Types, flash, bound
<1> QED BY <1>1, <1>2, <1>3 DEF FormatAll

LEMMA CallTypes ==
    ASSUME Types, OneInv',
           \/ \E len \in Lens, t \in Time : AppendTsl(len, t)
           \/ Clean \/ SetRollover \/ Deinit \/ BootHang \/ Hang \/ Refuse
    PROVE  Types'
<1>1. CASE \E len \in Lens, t \in Time : AppendTsl(len, t)
  <2>1. PICK len \in Lens, t \in Time : AppendTsl(len, t)
    BY <1>1
  <2>2. pc' \in {"refuse", "end", "using", "preWrite", "stray"}
    <3>1. cur.status \in Store
      BY DEF Types, CurType
    <3>2. CASE ~InOrder(t) \/ cur.status = FULL
      BY <2>1, <3>2 DEF AppendTsl
    <3>3. CASE ~(~InOrder(t) \/ cur.status = FULL) /\ NoRoom(len)
      BY <2>1, <3>3 DEF AppendTsl
    <3>4. CASE ~(~InOrder(t) \/ cur.status = FULL) /\ ~NoRoom(len)
      <4>1. pc' = CASE cur.status = EMPTY -> "using"
                    [] cur.status = USING -> "preWrite"
                    [] OTHER              -> "stray"
        BY <2>1, <3>4 DEF AppendTsl
      <4> QED BY <3>1, <4>1, Statuses
    <3> QED BY <3>2, <3>3, <3>4
  <2>3. pc' \in PC /\ OpInv'
    BY <2>1, <2>2 DEF AppendTsl, OpInv, Appends, PC
  <2> QED BY <2>1, <2>3, PlainTypes DEF AppendTsl, flash, ram, bound, Types
<1>2. CASE Clean
  <2>1. pc' \in PC /\ OpInv'
    BY <1>2 DEF Clean, OpInv, Appends, PC, CleanOp
  <2>2. cleans' \in 0 .. MaxClean
    BY <1>2, OptionAssumption DEF Clean, Types
  <2> QED BY <1>2, <2>1, <2>2, SectorFacts DEF Clean, Types, flash, ram
<1>3. CASE SetRollover
  <2>1. rollover' \in BOOLEAN
    BY <1>3, OptionAssumption DEF SetRollover
  <2>2. OpInv'
    BY <1>3 DEF SetRollover, Types, OpInv
  <2> QED BY <1>3, <2>1, <2>2, PlainTypes DEF SetRollover, flash, bound, Types
<1>4. CASE Deinit \/ BootHang \/ Refuse
  <2>1. pc' \in PC /\ OpInv' /\ ack' \in BOOLEAN
    BY <1>4 DEF Deinit, BootHang, Refuse, Return, Types, OpInv, Appends, PC
  <2> QED BY <1>4, <2>1, PlainTypes DEF Deinit, BootHang, Refuse, Return, flash, ram, bound, Types
<1>5. CASE Hang
  <2>1. OpInv'
    BY <1>5 DEF Hang, vars, Types, OpInv
  <2> QED BY <1>5, <2>1, PlainTypes DEF Hang, vars, flash, ram, bound, Types
<1> QED BY <1>1, <1>2, <1>3, <1>4, <1>5

LEMMA BootTypes ==
    ASSUME Types, OneInv', BootFailed \/ Boot
    PROVE  Types'
<1>1. CASE BootFailed
  <2>1. pc' \in PC /\ OpInv' /\ cur' \in CurType
    BY <1>1 DEF BootFailed, Types, OpInv, Appends, PC, CurType
  <2> QED BY <1>1, <2>1 DEF BootFailed, Types, flash, bound, OneInv, HdrType
<1>2. CASE Boot
  <2>1. pc' \in PC /\ OpInv'
    BY <1>2 DEF Boot, Types, OpInv, Appends, PC
  <2>2. oldest' \in Sector \cup {NoSec} /\ cur' \in CurType /\ last' \in Int
    <3>1. CASE BootSec = NoSec
      BY <1>2, <3>1 DEF Boot, Types, CurType
    <3>2. CASE BootSec # NoSec
      <4>1. BootSec \in Sector
        BY <3>2, BootSecIs
      <4>2. PICK g \in Garbage : cur' = ReadAll(Leftover(BootSec, g), BootSec)
        BY <1>2, <3>2 DEF Boot
      <4>3. g \in Int
        BY TimeAssumption
      <4>4. cur' \in CurType
        BY <4>1, <4>2, <4>3, LeftoverType, ReadAllType
      <4>5. oldest' = NextSec(Latest) /\ last' = BootLast(cur')
        BY <1>2, <3>2 DEF Boot
      <4>6. Latest \in Sector
        <5>1. CASE Empties = {}
          BY <4>1, <5>1 DEF Latest
        <5>2. CASE Empties # {}
          <6>1. Empties \in SUBSET Nat /\ SecNum \in Nat /\ \A n \in Empties : n <= SecNum
            BY SecAssumption DEF Empties, Sector
          <6> QED BY <5>2, <6>1, MaxIn DEF Latest, Empties
        <5> QED BY <5>1, <5>2
      <4>7. oldest' \in Sector
        BY <4>5, <4>6, NextSecType
      <4>8. PrevSec(BootSec) \in Sector
        BY <4>1, SecAssumption DEF PrevSec, Sector
      <4>9. ReadHdr(NoInfo, PrevSec(BootSec)) \in CurType
        BY <4>8, NoInfoType, ReadHdrType
      <4>10. cur'.endTime \in Int /\ ReadHdr(NoInfo, PrevSec(BootSec)).endTime \in Int
        BY <4>4, <4>9 DEF CurType
      <4>11. BootLast(cur') \in Int
        BY <4>10 DEF BootLast, Types
      <4> QED BY <4>4, <4>5, <4>7, <4>11
    <3> QED BY <3>1, <3>2
  <2> QED BY <1>2, <2>1, <2>2 DEF Boot, Types, flash, bound, OneInv, HdrType
<1> QED BY <1>1, <1>2

-----------------------------------------------------------------------------
(* The types, while an append takes a sector and writes *)

\* One of the two end nodes, or none of them, is replaced.
LEMMA EndNodeType ==
    ASSUME NEW e \in End \X End, NEW k \in {0, 1, 2}, NEW x \in End
    PROVE  [e EXCEPT ![k] = x] \in End \X End
<1>1. e = <<e[1], e[2]>> /\ e[1] \in End /\ e[2] \in End
  OBVIOUS
<1>2. PICK a \in End, b \in End : e = <<a, b>>
  BY <1>1
<1>3. CASE k = 0
  <2>1. [<<a, b>> EXCEPT ![0] = x] = <<a, b>>
    OBVIOUS
  <2> QED BY <1>2, <1>3, <2>1
<1>4. CASE k = 1
  <2>1. [<<a, b>> EXCEPT ![1] = x] = <<x, b>>
    OBVIOUS
  <2> QED BY <1>2, <1>4, <2>1
<1>5. CASE k = 2
  <2>1. [<<a, b>> EXCEPT ![2] = x] = <<a, x>>
    OBVIOUS
  <2> QED BY <1>2, <1>5, <2>1
<1> QED BY <1>3, <1>4, <1>5

\* A status that is raised is a status.
LEMMA RaisedType ==
    \A m, n \in TslStatus : WriteStatus(m, n) \in TslStatus
BY Statuses DEF WriteStatus

LEMMA FreeEndType == FreeEnd \in {0, 1, 2}
BY DEF FreeEnd

LEMMA EndTypes ==
    ASSUME Types, OneInv, OneInv', EndStatus \/ EndWrite \/ EndSkip
    PROVE  Types'
<1>1. cur.sec \in Sector
  BY DEF OneInv, Appending, EndStatus, EndWrite, EndSkip
<1>2. PICK e \in End \X End : e = ends[cur.sec]
  BY <1>1 DEF Types
<1>3. CASE EndStatus
  <2>1. FreeEnd \in {1, 2}
    BY <1>3, FreeEndType DEF EndStatus
  <2>2. [e EXCEPT ![FreeEnd].st = WriteStatus(@, TSL_PRE_WRITE)] \in End \X End
    <3>1. e[FreeEnd] \in End
      BY <2>1
    <3>2. [e[FreeEnd] EXCEPT !.st = WriteStatus(@, TSL_PRE_WRITE)] \in End
      BY <3>1, RaisedType, Statuses DEF End
    <3>3. [e EXCEPT ![FreeEnd].st = WriteStatus(@, TSL_PRE_WRITE)] =
            [e EXCEPT ![FreeEnd] = [e[FreeEnd] EXCEPT !.st = WriteStatus(@, TSL_PRE_WRITE)]]
      BY <2>1, <3>1
    <3> QED BY <2>1, <3>2, <3>3, EndNodeType
  <2>3. ends' = [ends EXCEPT ![cur.sec] = [e EXCEPT ![FreeEnd].st = WriteStatus(@, TSL_PRE_WRITE)]]
    BY <1>1, <1>2, <1>3 DEF EndStatus, Types
  <2>4. ends' \in [Sector -> End \X End]
    BY <1>1, <2>2, <2>3 DEF Types
  <2>5. pc' \in PC /\ OpInv'
    BY <1>3 DEF EndStatus, Types, OpInv, Appends, PC
  <2> QED BY <1>3, <2>4, <2>5 DEF EndStatus, Types, ram, bound, OneInv, HdrType
<1>4. CASE EndWrite
  <2> DEFINE x == [st |-> TSL_WRITE, time |-> last, slot |-> EndIndex]
  <2>1. x \in End
    BY Statuses DEF End, EndIndex, Types, CurType
  <2>2. ends' = [ends EXCEPT ![cur.sec] = [e EXCEPT ![FreeEnd] = x]]
    BY <1>1, <1>2, <1>4 DEF EndWrite, Types
  <2>3. [e EXCEPT ![FreeEnd] = x] \in End \X End
    BY <2>1, FreeEndType, EndNodeType
  <2>4. ends' \in [Sector -> End \X End]
    BY <1>1, <2>2, <2>3 DEF Types
  <2>5. pc' \in PC /\ OpInv'
    BY <1>4 DEF EndWrite, Types, OpInv, Appends, PC
  <2> QED BY <1>4, <2>4, <2>5 DEF EndWrite, Types, ram, bound, OneInv, HdrType
<1>5. CASE EndSkip
  <2>1. pc' \in PC /\ OpInv'
    BY <1>5 DEF EndSkip, Types, OpInv, Appends, PC
  <2> QED BY <1>5, <2>1, PlainTypes DEF EndSkip, flash, ram, bound, Types
<1> QED BY <1>3, <1>4, <1>5

LEMMA MarkFullTypes ==
    ASSUME Types, OneInv, OneInv', MarkFull
    PROVE  Types'
<1> DEFINE closed == [cur EXCEPT !.status = FULL]
           read == ReadHdr(closed, NextSec(cur.sec))
<1>1. NextSec(cur.sec) \in Sector /\ NextSec(NextSec(cur.sec)) \in Sector
  BY NextSecType DEF OneInv, Appending, MarkFull
<1>2. closed \in CurType
  <2>1. FULL \in Store
    BY SectorFacts
  <2> QED BY <2>1 DEF Types, CurType
<1>3. read \in CurType
  BY <1>1, <1>2, ReadHdrType
<1>4. \/ cur' = closed /\ Return(FALSE) /\ oldest' = oldest
      \/ /\ cur' = read /\ pc' \in {"using", "erase"} /\ UNCHANGED <<op, ack>>
         /\ oldest' \in {oldest, NextSec(NextSec(cur.sec))}
  BY DEF MarkFull, AfterNew
<1> HIDE DEF closed, read
<1>5. cur' \in CurType /\ oldest' \in Sector \cup {NoSec}
  BY <1>1, <1>2, <1>3, <1>4 DEF Types
<1>6. pc' \in PC /\ OpInv' /\ ack' \in BOOLEAN
  BY <1>4 DEF Return, MarkFull, Types, OpInv, Appends, PC
<1>7. UNCHANGED <<magic, start, ends, logs, last, rollover, fmt, bound>>
  BY DEF MarkFull
<1> QED BY <1>5, <1>6, <1>7 DEF Types, bound, OneInv, HdrType

LEMMA TakeTypes ==
    ASSUME Types, OneInv, OneInv', EraseNext \/ FormatNext \/ UsingStatus \/ WriteStart
    PROVE  Types'
<1>1. cur.sec \in Sector
  BY DEF OneInv, Taking, Appending, EraseNext, FormatNext, UsingStatus, WriteStart
<1>2. pc' \in PC /\ OpInv'
  BY DEF EraseNext, FormatNext, UsingStatus, WriteStart, Types, OpInv, Appends, PC
<1>3. CASE EraseNext
  BY <1>1, <1>2, <1>3, EraseTypes DEF EraseNext, Types, ram, bound, OneInv, HdrType
<1>4. op.time \in Int \/ pc = "format" \/ pc = "erase"
  BY LenFacts DEF UsingStatus, WriteStart, FormatNext, EraseNext, Types, OpInv, Appends
<1>5. CASE FormatNext
  <2>1. /\ EMPTY \in Store /\ NoTime \in Int /\ 0 \in Nat /\ Cap \in Nat
        /\ <<TSL_UNUSED, TSL_UNUSED>> \in TslStatus \X TslStatus
    BY Statuses, LenFacts DEF NoTime
  <2>2. cur' \in CurType
    BY <1>5, <2>1 DEF FormatNext, Types, CurType
  <2> QED BY <1>2, <1>5, <2>2 DEF FormatNext, WriteSectorHdr, Types, bound, OneInv, HdrType
<1>6. CASE UsingStatus
  <2>1. op.time \in Int
    BY <1>4, <1>6 DEF UsingStatus
  <2>2. cur' \in CurType
    <3>1. USING \in Store
      BY SectorFacts
    <3> QED BY <1>6, <2>1, <3>1 DEF UsingStatus, Types, CurType
  <2> QED BY <1>2, <1>6, <2>2 DEF UsingStatus, Types, bound, OneInv, HdrType
<1>7. CASE WriteStart
  <2>1. op.time \in Int
    BY <1>4, <1>7 DEF WriteStart
  <2>2. start' \in [Sector -> Int]
    BY <1>1, <1>7, <2>1 DEF WriteStart, Types
  <2> QED BY <1>2, <1>7, <2>2 DEF WriteStart, Types, ram, bound, OneInv, HdrType
<1> QED BY <1>3, <1>5, <1>6, <1>7

LEMMA WriteTypes ==
    ASSUME Types, OneInv, OneInv', PreWrite \/ Commit \/ StrayWrite
    PROVE  Types'
<1>1. op.time \in Time /\ op.len \in Nat /\ op.len \in Lens /\ op.time \in Int
  <2>1. op \in [kind : {"append"}, len : Lens, time : Time]
    BY DEF Types, OpInv, Appends, PreWrite, Commit, StrayWrite
  <2>2. \A n \in Lens : n \in Nat
    BY LenFacts
  <2>3. \A t \in Time : t \in Int
    BY LenFacts
  <2>4. op.len \in Lens /\ op.time \in Time
    BY <2>1
  <2> QED BY <2>2, <2>3, <2>4
<1>2. pc' \in PC /\ OpInv' /\ ack' \in BOOLEAN
  BY DEF PreWrite, Commit, StrayWrite, Return, Types, OpInv, Appends, PC
<1>3. CASE PreWrite
  <2>1. cur.sec \in Sector
    BY <1>3 DEF OneInv, Appending, PreWrite
  <2>2. [st |-> TSL_PRE_WRITE, time |-> op.time, len |-> op.len] \in Tsl
    BY <1>1, Statuses DEF Tsl
  <2>3. logs' \in [Sector -> Seq(Tsl)]
    BY <1>3, <2>1, <2>2 DEF PreWrite, Types
  <2> QED BY <1>2, <1>3, <2>3 DEF PreWrite, Types, ram, bound, OneInv, HdrType
<1>4. Appended \in CurType
  <2>1. (cur.room - (1 + op.len)) % SizeMod \in Nat
    <3>1. \A a \in Int : a % SizeMod \in Nat
      BY LenFacts
    <3>2. cur.room \in Int
      BY DEF Types, CurType
    <3> QED BY <1>1, <3>1, <3>2
  <2>2. cur.n \in Nat /\ cur.n + 1 \in Nat /\ <<cur.sec, cur.n>> \in (Sector \cup {NoSec}) \X Int
    BY DEF Types, CurType
  <2>3. cur \in CurType
    BY DEF Types
  <2> QED BY <1>1, <2>1, <2>2, <2>3 DEF Appended, CurType
<1>5. CASE Commit
  <2>1. cur.sec \in Sector
    BY <1>5 DEF OneInv, Appending, Commit
  <2>2. logs' \in [Sector -> Seq(Tsl)]
    <3>1. PICK q \in Seq(Tsl) : q = logs[cur.sec]
      BY <2>1 DEF Types
    <3> DEFINE j == cur.n + 1
               raised == [q EXCEPT ![j].st = WriteStatus(@, TSL_WRITE)]
    <3>2. raised \in Seq(Tsl)
      <4>1. \A r \in Tsl : [r EXCEPT !.st = WriteStatus(r.st, TSL_WRITE)] \in Tsl
        BY RaisedType, Statuses DEF Tsl
      <4>2. CASE j \in DOMAIN q
        <5>1. q[j] \in Tsl
          BY <4>2
        <5> QED BY <4>1, <4>2, <5>1
      <4>3. CASE j \notin DOMAIN q
        <5>1. raised = q
          BY <4>3
        <5> QED BY <5>1
      <4> QED BY <4>2, <4>3
    <3>3. logs' = [logs EXCEPT ![cur.sec] = raised]
      BY <1>5, <2>1, <3>1 DEF Commit, Types
    <3> QED BY <2>1, <3>2, <3>3 DEF Types
  <2> QED BY <1>1, <1>2, <1>4, <1>5, <2>2 DEF Commit, Types, bound, OneInv, HdrType
<1>6. CASE StrayWrite
  <2>1. cur' \in CurType
    BY <1>4, <1>6 DEF StrayWrite, CurType
  <2> QED BY <1>1, <1>2, <1>6, <2>1 DEF StrayWrite, Types, bound, OneInv, HdrType
<1> QED BY <1>3, <1>5, <1>6

\* A user's mark on a log, and the loss of power.
LEMMA OtherTypes ==
    ASSUME Types, OneInv', Mark \/ Crash
    PROVE  Types'
<1>1. CASE Mark
  <2>1. PICK s \in Sector, st \in UserStatus : \E i \in DOMAIN logs[s] : SetStatus(s, i, st)
    BY <1>1 DEF Mark
  <2>2. PICK i \in DOMAIN logs[s] : SetStatus(s, i, st)
    BY <2>1
  <2>3. st \in TslStatus
    BY StatusAssumption DEF TslStatus
  <2>4. logs' \in [Sector -> Seq(Tsl)]
    <3>1. PICK q \in Seq(Tsl) : q = logs[s]
      BY DEF Types
    <3>2. [q EXCEPT ![i].st = WriteStatus(@, st)] \in Seq(Tsl)
      <4>1. \A r \in Tsl : [r EXCEPT !.st = WriteStatus(r.st, st)] \in Tsl
        BY <2>3, RaisedType DEF Tsl
      <4>2. i \in DOMAIN q /\ q[i] \in Tsl
        BY <3>1
      <4> QED BY <4>1, <4>2
    <3>3. logs' = [logs EXCEPT ![s] = [q EXCEPT ![i].st = WriteStatus(@, st)]]
      BY <2>2, <3>1 DEF SetStatus, Types
    <3> QED BY <3>2, <3>3 DEF Types
  <2>5. UNCHANGED <<start, ends, oldest, cur, last, rollover, pc, op, ack, crashes, cleans>>
    BY <2>2 DEF SetStatus, ram, bound
  <2>6. OpInv'
    BY <2>5 DEF Types, OpInv
  <2> QED BY <2>4, <2>5, <2>6 DEF Types, OneInv, HdrType
<1>2. CASE Crash
  <2>1. pc' \in PC /\ OpInv' /\ ack' \in BOOLEAN
    BY <1>2 DEF Crash, OpInv, Appends, PC
  <2>2. crashes' \in 0 .. MaxCrash
    BY <1>2, OptionAssumption DEF Crash, Types
  <2>3. cur' \in CurType /\ oldest' \in Sector /\ last' \in Int /\ rollover' \in BOOLEAN
    <3>1. cur' = NoInfo /\ oldest' = 0 /\ last' = 0 /\ rollover' = FALSE
      BY <1>2 DEF Crash
    <3>2. NoInfo \in CurType /\ 0 \in Sector /\ 0 \in Int /\ FALSE \in BOOLEAN
      BY NoInfoType, SectorFacts
    <3> QED BY <3>1, <3>2, Zenon
  <2>4. UNCHANGED <<start, ends, logs, cleans>>
    BY <1>2 DEF Crash, flash
  <2> QED BY <2>1, <2>2, <2>3, <2>4 DEF Types, OneInv, HdrType
<1> QED BY <1>1, <1>2

LEMMA TypesNext ==
    ASSUME Types, OneInv, [Next]_vars
    PROVE  Types'
<1>1. OneInv'
  BY OneNext
<1>2. CASE Next
  BY <1>1, <1>2, FormatTypes, CallTypes, BootTypes, EndTypes, MarkFullTypes, TakeTypes, WriteTypes,
     OtherTypes DEF Next, Step, TakeSector, Call
<1>3. CASE UNCHANGED vars
  BY <1>3 DEF vars, flash, ram, bound, Types, OpInv
<1> QED BY <1>2, <1>3

\* Every variable of the time series database keeps its type: the addresses
\* stay inside the partition (get_next_sector_addr), and a write of an append
\* has a sector to go to, or is the stray one.
THEOREM TypesRight == Spec => []TypeOK
<1>1. Init => Types /\ OneInv
  BY TypesInit, OneInit
<1>2. Types /\ OneInv /\ [Next]_vars => Types' /\ OneInv'
  BY TypesNext, OneNext
<1>3. Types /\ OneInv => TypeOK
  BY AppendOpType DEF Types, OneInv, Appending, Taking, TypeOK
<1> QED BY <1>1, <1>2, <1>3, PTL DEF Spec

-----------------------------------------------------------------------------
(* The space in the sectors *)

\* What the logs of a sector take, the torn ones included.
Size(q) == Total([i \in DOMAIN q |-> 1 + q[i].len])

\* The logs of a sector fit, and db->cur_sec.remain does not promise more than
\* there is.
SpaceInv ==
    /\ \A s \in Sector : \A i \in DOMAIN logs[s] : logs[s][i].len \in Lens
    /\ \A s \in Sector : store[s] \in {UNUSED, EMPTY} => logs[s] = <<>>
    /\ \A s \in Sector : Size(logs[s]) <= Cap
    /\ pc \in {"idle", "down", "refuse", "startTime", "preWrite"} /\ cur.status = USING =>
         cur.room + Size(logs[cur.sec]) <= Cap
    /\ pc = "commit" => cur.room + Size(logs[cur.sec]) <= Cap + (1 + op.len)
    /\ pc \in {"startTime", "preWrite", "commit"} => cur.room >= 1 + op.len /\ cur.room <= Cap
    /\ pc = "using" \/ (pc \in {"idle", "down", "refuse"} /\ cur.status = EMPTY) =>
         cur.room = Cap

\* FDB_ASSERT(max_len < db_sec_size) admits logs that a sector has no room for
\* (ts_too_long); here there are none.
RoomForEach == \A n \in Lens : n < Cap

LEMMA SizeType ==
    ASSUME NEW q \in Seq(Tsl)
    PROVE  /\ [i \in DOMAIN q |-> 1 + q[i].len] \in Seq(Nat)
           /\ Len([i \in DOMAIN q |-> 1 + q[i].len]) = Len(q)
           /\ Size(q) \in Nat
<1>1. \A i \in DOMAIN q : q[i] \in Tsl
  OBVIOUS
<1>2. \A i \in DOMAIN q : 1 + q[i].len \in Nat
  BY <1>1 DEF Tsl
<1>3. /\ [i \in DOMAIN q |-> 1 + q[i].len] \in Seq(Nat)
      /\ Len([i \in DOMAIN q |-> 1 + q[i].len]) = Len(q)
  BY <1>2
<1> QED BY <1>3, TotalType DEF Size

LEMMA SizeEmpty == Size(<<>>) = 0
<1>1. [i \in DOMAIN <<>> |-> 1 + <<>>[i].len] = <<>>
  OBVIOUS
<1> QED BY <1>1, TotalEmpty DEF Size

LEMMA SizeAppend ==
    ASSUME NEW q \in Seq(Tsl), NEW r \in Tsl
    PROVE  Size(Append(q, r)) = Size(q) + (1 + r.len)
<1> DEFINE w == [i \in DOMAIN q |-> 1 + q[i].len]
           v == [i \in DOMAIN Append(q, r) |-> 1 + Append(q, r)[i].len]
<1>1. w \in Seq(Nat) /\ Len(w) = Len(q) /\ Len(q) \in Nat
  BY SizeType
<1>2. 1 + r.len \in Nat
  BY DEF Tsl
<1>3. v = Append(w, 1 + r.len)
  <2>1. DOMAIN v = 1 .. Len(q) + 1 /\ DOMAIN Append(w, 1 + r.len) = 1 .. Len(q) + 1
    BY <1>1, <1>2
  <2>2. ASSUME NEW i \in 1 .. Len(q) + 1 PROVE v[i] = Append(w, 1 + r.len)[i]
    <3>1. CASE i = Len(q) + 1
      BY <1>1, <1>2, <3>1
    <3>2. CASE i # Len(q) + 1
      <4>1. i \in 1 .. Len(q)
        BY <1>1, <3>2
      <4> QED BY <1>1, <1>2, <4>1
    <3> QED BY <3>1, <3>2
  <2>3. v \in Seq(Nat) /\ Append(w, 1 + r.len) \in Seq(Nat)
    <3>1. Append(q, r) \in Seq(Tsl)
      OBVIOUS
    <3> QED BY <1>1, <1>2, <3>1, SizeType
  <2> HIDE DEF v, w
  <2> QED BY <2>1, <2>2, <2>3
<1> HIDE DEF v, w
<1>4. Total(v) = Total(w) + (1 + r.len)
  BY <1>1, <1>2, <1>3, TotalAppend
<1> QED BY <1>4 DEF Size, v, w

\* A status that is raised takes no space.
LEMMA SizeRaised ==
    ASSUME NEW q \in Seq(Tsl), NEW j \in Nat, NEW x
    PROVE  /\ DOMAIN [q EXCEPT ![j].st = x] = DOMAIN q
           /\ \A i \in DOMAIN q : [q EXCEPT ![j].st = x][i].len = q[i].len
           /\ Size([q EXCEPT ![j].st = x]) = Size(q)
<1> DEFINE p == [q EXCEPT ![j].st = x]
<1>1. \A i \in DOMAIN q : q[i] \in Tsl
  OBVIOUS
<1>2. DOMAIN p = DOMAIN q /\ \A i \in DOMAIN q : p[i].len = q[i].len
  BY <1>1 DEF Tsl
<1> HIDE DEF p
<1>3. [i \in DOMAIN p |-> 1 + p[i].len] = [i \in DOMAIN q |-> 1 + q[i].len]
  BY <1>2
<1> QED BY <1>2, <1>3 DEF Size, p

\* What read_sector_info counts is not less.
LEMMA SizeUsed ==
    ASSUME NEW q \in Seq(Tsl), \A i \in DOMAIN q : q[i].len \in Lens
    PROVE  Size(q) <= Used(q)
<1> DEFINE w == [i \in DOMAIN q |-> 1 + q[i].len]
           v == [i \in DOMAIN q |-> 1 + ReadLen(q[i])]
<1>1. w \in Seq(Nat) /\ Len(w) = Len(q)
  BY SizeType
<1>2. \A i \in DOMAIN q : /\ q[i].len \in Nat /\ ReadLen(q[i]) \in Nat
                          /\ q[i].len <= ReadLen(q[i])
  <2>1. \A n \in Lens : n \in Nat /\ n <= MaxLen
    BY LenFacts
  <2>2. MaxLen \in Nat
    BY LenFacts
  <2> QED BY <2>1, <2>2 DEF ReadLen
<1>3. v \in Seq(Nat) /\ Len(v) = Len(q)
  BY <1>2
<1>4. \A n \in 1 .. Len(w) : w[n] <= v[n]
  BY <1>1, <1>2
<1> HIDE DEF v, w
<1>5. Total(w) <= Total(v)
  BY <1>1, <1>3, <1>4, TotalLe
<1> QED BY <1>5 DEF Size, Used, v, w

LEMMA RoomLeft ==
    ASSUME Types, SpaceInv, NEW s \in Sector
    PROVE  Room(s) + Size(logs[s]) <= Cap
<1>1. logs[s] \in Seq(Tsl)
  BY DEF Types
<1>2. Size(logs[s]) <= Used(logs[s]) /\ Size(logs[s]) \in Nat /\ Used(logs[s]) \in Nat
  BY <1>1, SizeUsed, SizeType, UsedType DEF SpaceInv
<1> QED BY <1>2, LenFacts DEF Room, SpaceInv

LEMMA SpaceInit == Init => SpaceInv
<1> SUFFICES ASSUME Init PROVE SpaceInv
  OBVIOUS
<1>1. pc = "off" /\ \A s \in Sector : logs[s] = <<>>
  BY DEF Init
<1>2. \A s \in Sector : Size(logs[s]) <= Cap
  BY <1>1, SizeEmpty, LenFacts
<1> QED BY <1>1, <1>2 DEF SpaceInv

\* What keeps the sectors and the current one, and does not come to where more
\* is asked of them.
LEMMA SpaceQuiet ==
    ASSUME SpaceInv, UNCHANGED <<store, logs, cur>>,
           \/ UNCHANGED <<pc, op>>
           \/ pc \in {"idle", "refuse", "down"} /\ pc' \in {"idle", "down", "refuse", "using"}
              /\ (pc' = "using" => cur.status = EMPTY)
           \/ pc' \notin {"idle", "down", "refuse", "using", "startTime", "preWrite", "commit"}
    PROVE  SpaceInv'
BY DEF SpaceInv

\* An erased sector is empty.
LEMMA SpaceErased ==
    ASSUME Types, OneInv, SpaceInv, NEW s \in Sector, EraseSector(s), cur' = cur,
           pc' \notin {"idle", "down", "refuse", "using", "startTime", "preWrite", "commit"}
    PROVE  SpaceInv'
<1>1. \A t \in Sector : logs'[t] = IF t = s THEN <<>> ELSE logs[t]
  BY DEF EraseSector, Types
<1>2. \A t \in Sector : t # s => store'[t] = store[t]
  BY DEF EraseSector, Types
<1>3. \A t \in Sector : Size(logs'[t]) <= Cap
  BY <1>1, SizeEmpty, LenFacts DEF SpaceInv
<1>4. \A t \in Sector : store'[t] \in {UNUSED, EMPTY} => logs'[t] = <<>>
  BY <1>1, <1>2 DEF SpaceInv
<1>5. \A t \in Sector : \A i \in DOMAIN logs'[t] : logs'[t][i].len \in Lens
  BY <1>1 DEF SpaceInv
<1> QED BY <1>3, <1>4, <1>5 DEF SpaceInv

LEMMA SpaceFormat ==
    ASSUME Types, OneInv, SpaceInv, FormatAll
    PROVE  SpaceInv'
<1>1. CASE FmtErase
  <2>1. fmt \in Sector /\ cur' = cur /\ pc' \in {"hung", "fmtHdr"}
    BY <1>1 DEF FmtErase, Types, ram
  <2>2. CASE UNCHANGED flash
    BY <2>1, <2>2, SpaceQuiet DEF flash
  <2>3. CASE EraseSector(fmt)
    BY <2>1, <2>3, SpaceErased
  <2> QED BY <1>1, <2>2, <2>3 DEF FmtErase
<1>2. CASE FmtHdr
  <2>1. fmt \in Sector /\ store[fmt] = UNUSED /\ cur' = cur /\ logs' = logs
        /\ pc' \in {"fmtDone", "fmtErase"}
    BY <1>2 DEF FmtHdr, Types, OneInv, Formatting, WriteSectorHdr, ram
  <2>2. \A s \in Sector : store'[s] = store[s] \/ (s = fmt /\ logs[s] = <<>>)
    BY <1>2, <2>1 DEF FmtHdr, WriteSectorHdr, Types, SpaceInv
  <2> QED BY <2>1, <2>2 DEF SpaceInv
<1>3. CASE FmtDone
  <2>1. magic[0] /\ store[0] = EMPTY
    BY <1>3, SectorFacts DEF FmtDone, OneInv, Formatting, Formatted
  <2>2. UNCHANGED <<store, logs>> /\ pc' = "idle" /\ cur' = ReadHdr(cur, 0)
    BY <1>3 DEF FmtDone, flash
  <2>3. cur'.status = EMPTY /\ cur'.room = Cap
    BY <2>1, <2>2 DEF ReadHdr
  <2> QED BY <2>2, <2>3, WriteStatusIs DEF SpaceInv
<1> QED BY <1>1, <1>2, <1>3 DEF FormatAll

LEMMA SpaceBoot ==
    ASSUME Types, OneInv, SpaceInv, BootFailed \/ Boot \/ BootHang
    PROVE  SpaceInv'
<1>1. UNCHANGED <<store, logs>>
  BY DEF BootFailed, Boot, BootHang, flash
<1>2. CASE BootFailed \/ BootHang
  <2>1. pc' \in {"failed", "fmtErase", "hung"}
    BY <1>2 DEF BootFailed, BootHang
  <2> QED BY <1>1, <2>1 DEF SpaceInv
<1>3. CASE Boot /\ BootSec = NoSec
  <2>1. pc' = "idle" /\ cur' = [cur EXCEPT !.sec = NoSec] /\ InUse = {} /\ Empties = {}
    BY <1>3, BootSecIs DEF Boot
  <2>2. OneInv'
    BY OneNext, <1>3 DEF Next, Call
  <2>3. cur'.status = cur.status
    BY <2>1 DEF Types, CurType
  <2>4. cur'.status \notin {EMPTY, USING}
    <3>1. cur'.sec = NoSec
      BY <2>1 DEF Types, CurType
    <3> QED BY <2>1, <2>2, <3>1, SectorFacts DEF OneInv, Resting
  <2> QED BY <1>1, <2>1, <2>4 DEF SpaceInv
<1>4. CASE Boot /\ BootSec # NoSec
  <2>1. BootSec \in Sector
    BY <1>4, BootSecIs
  <2>2. PICK g \in Garbage : cur' = ReadAll(Leftover(BootSec, g), BootSec)
    BY <1>4 DEF Boot
  <2>3. magic[BootSec]
    BY <1>4, <2>1 DEF Boot, Failed, BadSector
  <2>4. pc' = "idle" /\ cur'.sec = BootSec /\ cur'.status = store[BootSec]
    BY <1>4, <2>1, <2>2, <2>3, LeftoverIs, ReadAllIs DEF Boot
  <2> DEFINE h == ReadHdr(Leftover(BootSec, g), BootSec)
  <2>5. h.room = Cap /\ h \in CurType
    <3>1. g \in Int
      BY TimeAssumption
    <3> QED BY <2>1, <2>3, <3>1, LeftoverType, ReadHdrType DEF ReadHdr
  <2>6. CASE store[BootSec] # USING
    <3>1. cur'.room = Cap
      BY <2>2, <2>5, <2>6 DEF ReadAll
    <3> QED BY <1>1, <2>4, <2>6, <3>1 DEF SpaceInv
  <2>7. CASE store[BootSec] = USING
    <3> HIDE DEF h
    <3>1. cur' = [h EXCEPT !.n = Len(logs[BootSec]), !.room = Room(BootSec),
                 !.endTime = IF Timed(BootSec) = {} THEN @
                             ELSE TslTime(logs[BootSec][Max(Timed(BootSec))]),
                 !.end = IF logs[BootSec] = <<>> THEN @ ELSE <<BootSec, Len(logs[BootSec]) - 1>>]
      BY <2>2, <2>3, <2>7 DEF ReadAll, h
    <3>2. cur'.room = Room(BootSec)
      BY <2>5, <3>1 DEF CurType
    <3>3. cur'.room + Size(logs'[cur'.sec]) <= Cap
      BY <1>1, <2>1, <2>4, <3>2, RoomLeft
    <3> QED BY <1>1, <2>4, <2>7, <3>3, WriteStatusIs DEF SpaceInv
  <2> QED BY <2>6, <2>7
<1> QED BY <1>2, <1>3, <1>4

LEMMA SpaceCall ==
    ASSUME Types, OneInv, SpaceInv,
           \/ \E len \in Lens, t \in Time : AppendTsl(len, t)
           \/ Clean \/ SetRollover \/ Deinit \/ Hang \/ Refuse
    PROVE  SpaceInv'
<1>1. CASE \E len \in Lens, t \in Time : AppendTsl(len, t)
  <2>1. PICK len \in Lens, t \in Time : AppendTsl(len, t)
    BY <1>1
  <2>2. UNCHANGED <<store, logs, cur>> /\ pc = "idle" /\ op'.len = len
    BY <2>1 DEF AppendTsl, flash, ram
  <2>3. cur.status \in Store
    BY DEF Types, CurType
  <2>4. CASE ~InOrder(t) \/ cur.status = FULL
    <3>1. pc' = "refuse"
      BY <2>1, <2>4 DEF AppendTsl
    <3> QED BY <2>2, <3>1, SpaceQuiet
  <2>5. CASE ~(~InOrder(t) \/ cur.status = FULL) /\ NoRoom(len)
    <3>1. pc' = "end"
      BY <2>1, <2>5 DEF AppendTsl
    <3> QED BY <2>2, <3>1, SpaceQuiet
  <2>6. CASE ~(~InOrder(t) \/ cur.status = FULL) /\ ~NoRoom(len)
    <3>1. pc' = CASE cur.status = EMPTY -> "using"
                  [] cur.status = USING -> "preWrite"
                  [] OTHER              -> "stray"
      BY <2>1, <2>6 DEF AppendTsl
    <3>2. CASE cur.status = USING
      <4>1. pc' = "preWrite"
        BY <3>1, <3>2, Statuses
      <4>2. cur.room >= 1 + len
        BY <2>6, <3>2, LenFacts DEF NoRoom, Types, CurType
      <4>3. cur.sec \in Sector
        BY <2>2, <3>2 DEF OneInv, Resting
      <4>4. Size(logs[cur.sec]) \in Nat
        BY <4>3, SizeType DEF Types
      <4>5. cur.room + Size(logs[cur.sec]) <= Cap
        BY <2>2, <3>2 DEF SpaceInv
      <4>6. cur.room <= Cap
        BY <4>4, <4>5, LenFacts DEF Types, CurType
      <4> QED BY <2>2, <4>1, <4>2, <4>5, <4>6 DEF SpaceInv
    <3>3. CASE cur.status # USING
      <4>1. pc' = "stray" \/ (pc' = "using" /\ cur.status = EMPTY)
        BY <3>1, <3>3, Statuses
      <4> QED BY <2>2, <4>1, SpaceQuiet
    <3> QED BY <3>2, <3>3
  <2> QED BY <2>4, <2>5, <2>6
<1>2. CASE Clean \/ Deinit \/ Refuse
  BY <1>2, SpaceQuiet DEF Clean, Deinit, Refuse, Return, flash, ram
<1>3. CASE SetRollover \/ Hang
  BY <1>3, SpaceQuiet DEF SetRollover, Hang, vars, flash, ram
<1> QED BY <1>1, <1>2, <1>3

LEMMA SpaceMarkFull ==
    ASSUME Types, OneInv, SpaceInv, MarkFull
    PROVE  SpaceInv'
<1> DEFINE next == NextSec(cur.sec)
           closed == [cur EXCEPT !.status = FULL]
           read == ReadHdr(closed, next)
<1>1. cur.sec \in Sector /\ store[cur.sec] = USING
  BY DEF MarkFull, OneInv, Appending, Using
<1>2. logs' = logs /\ store' = [store EXCEPT ![cur.sec] = FULL]
  BY <1>1, WriteStatusIs DEF MarkFull
<1>3. \A s \in Sector : store'[s] \in {UNUSED, EMPTY} => logs'[s] = <<>>
  BY <1>1, <1>2, Statuses DEF Types, SpaceInv
<1>4. closed.status = FULL
  BY DEF Types, CurType
<1>5. CASE cur' = closed /\ pc' = "idle"
  BY <1>2, <1>3, <1>4, <1>5, Statuses DEF SpaceInv
<1>6. CASE cur' = read /\ pc' = IF read.status = EMPTY THEN "using" ELSE "erase"
  <2> HIDE DEF closed, next
  <2>1. read.status = EMPTY => read.room = Cap
    BY <1>4, Statuses DEF ReadHdr, closed, Types, CurType
  <2> QED BY <1>2, <1>3, <1>6, <2>1 DEF SpaceInv
<1> QED BY <1>5, <1>6 DEF MarkFull, Return

LEMMA SpaceTake ==
    ASSUME Types, OneInv, SpaceInv, RoomForEach,
           EndStatus \/ EndWrite \/ EndSkip \/ EraseNext \/ FormatNext \/ UsingStatus \/ WriteStart
    PROVE  SpaceInv'
<1>1. CASE EndStatus \/ EndWrite \/ EndSkip
  BY <1>1, SpaceQuiet DEF EndStatus, EndWrite, EndSkip, flash, ram
<1>2. CASE EraseNext
  BY <1>2, SpaceErased DEF EraseNext, ram, OneInv, Taking
<1>3. CASE FormatNext
  <2>1. cur.sec \in Sector /\ store[cur.sec] = UNUSED /\ logs' = logs /\ pc' = "using"
    BY <1>3 DEF FormatNext, OneInv, Taking, WriteSectorHdr
  <2>2. \A s \in Sector : store'[s] = store[s] \/ (s = cur.sec /\ logs[s] = <<>>)
    BY <1>3, <2>1 DEF FormatNext, WriteSectorHdr, Types, SpaceInv
  <2>3. cur'.room = Cap
    BY <1>3 DEF FormatNext, Types, CurType
  <2> QED BY <2>1, <2>2, <2>3 DEF SpaceInv
<1>4. CASE UsingStatus
  <2>1. cur.sec \in Sector /\ store[cur.sec] = EMPTY /\ logs' = logs /\ pc' = "startTime"
        /\ logs[cur.sec] = <<>> /\ cur.room = Cap /\ op' = op
    BY <1>4 DEF UsingStatus, OneInv, Taking, Formatted, SpaceInv
  <2>2. \A s \in Sector : s # cur.sec => store'[s] = store[s]
    BY <1>4, <2>1 DEF UsingStatus, Types
  <2>3. cur'.room = Cap /\ cur'.sec = cur.sec
    BY <1>4, <2>1 DEF UsingStatus, Types, CurType
  <2>4. op.len \in Lens
    BY <1>4 DEF UsingStatus, Types, OpInv, Appends
  <2>5. 1 + op.len <= Cap /\ op.len \in Nat
    <3>1. \A n \in Lens : n \in Nat /\ n < Cap
      BY LenFacts DEF RoomForEach
    <3>2. op.len \in Nat /\ op.len < Cap /\ Cap \in Nat
      BY <2>4, <3>1, LenFacts
    <3> QED BY <3>2
  <2>6. Size(logs'[cur'.sec]) = 0
    BY <2>1, <2>3, SizeEmpty
  <2>7. \A s \in Sector : store'[s] \in {UNUSED, EMPTY} => logs'[s] = <<>>
    BY <2>1, <2>2 DEF SpaceInv
  <2> QED BY <2>1, <2>3, <2>5, <2>6, <2>7, LenFacts DEF SpaceInv
<1>5. CASE WriteStart
  <2>1. UNCHANGED <<store, logs, cur, op>> /\ pc = "startTime" /\ pc' = "preWrite"
    BY <1>5 DEF WriteStart, ram
  <2> QED BY <2>1 DEF SpaceInv
<1> QED BY <1>1, <1>2, <1>3, <1>4, <1>5

LEMMA SpacePreWrite ==
    ASSUME Types, OneInv, SpaceInv, PreWrite
    PROVE  SpaceInv'
<1> DEFINE r == [st |-> TSL_PRE_WRITE, time |-> op.time, len |-> op.len]
<1>1. cur.sec \in Sector /\ store[cur.sec] = USING /\ cur.status = USING
  BY DEF PreWrite, OneInv, Appending, Using
<1>2. op.len \in Lens /\ op.time \in Time /\ op.len \in Nat
  <2>1. op.len \in Lens /\ op.time \in Time
    BY DEF PreWrite, Types, OpInv, Appends
  <2> QED BY <2>1, LenFacts
<1>3. r \in Tsl
  BY <1>2, Statuses DEF Tsl
<1>4. logs' = [logs EXCEPT ![cur.sec] = Append(logs[cur.sec], r)] /\ logs[cur.sec] \in Seq(Tsl)
  BY <1>1 DEF PreWrite, Types
<1>5. Size(logs'[cur.sec]) = Size(logs[cur.sec]) + (1 + op.len) /\ Size(logs[cur.sec]) \in Nat
  BY <1>1, <1>3, <1>4, SizeAppend, SizeType DEF Types
<1>6. UNCHANGED <<store, cur, op>> /\ pc = "preWrite" /\ pc' = "commit"
  BY DEF PreWrite, ram
<1>7. cur.room + Size(logs[cur.sec]) <= Cap /\ cur.room >= 1 + op.len /\ cur.room <= Cap
  BY <1>1, <1>6 DEF SpaceInv
<1>8. \A s \in Sector : s # cur.sec => logs'[s] = logs[s]
  BY <1>4 DEF Types
<1>9. \A i \in DOMAIN logs'[cur.sec] : logs'[cur.sec][i].len \in Lens
  <2>1. logs'[cur.sec] = Append(logs[cur.sec], r)
    BY <1>1, <1>4 DEF Types
  <2>2. ASSUME NEW i \in DOMAIN Append(logs[cur.sec], r)
        PROVE  Append(logs[cur.sec], r)[i].len \in Lens
    <3>1. CASE i \in DOMAIN logs[cur.sec]
      <4>1. Append(logs[cur.sec], r)[i] = logs[cur.sec][i]
        BY <1>4, <3>1
      <4> QED BY <1>1, <3>1, <4>1 DEF SpaceInv
    <3>2. CASE i \notin DOMAIN logs[cur.sec]
      <4>1. Append(logs[cur.sec], r)[i] = r
        BY <1>4, <3>2
      <4> QED BY <1>2, <4>1
    <3> QED BY <3>1, <3>2
  <2> QED BY <2>1, <2>2
<1>10. cur.room \in Nat
  BY DEF Types, CurType
<1>11. Size(logs'[cur.sec]) <= Cap /\ cur.room + Size(logs'[cur.sec]) <= Cap + (1 + op.len)
  BY <1>2, <1>5, <1>7, <1>10, LenFacts
<1>12. \A s \in Sector : store'[s] \in {UNUSED, EMPTY} => logs'[s] = <<>>
  BY <1>1, <1>6, <1>8, Statuses DEF SpaceInv
<1>13. \A s \in Sector : Size(logs'[s]) <= Cap
  BY <1>8, <1>11 DEF SpaceInv
<1>14. \A s \in Sector : \A i \in DOMAIN logs'[s] : logs'[s][i].len \in Lens
  BY <1>8, <1>9 DEF SpaceInv
<1> QED BY <1>6, <1>7, <1>11, <1>12, <1>13, <1>14 DEF SpaceInv

\* Only the status of an entry changes, or nothing.
LEMMA RaisedKeepsSpace ==
    ASSUME Types, SpaceInv, NEW s \in Sector, NEW j \in Nat, NEW x,
           logs' = [logs EXCEPT ![s] = [logs[s] EXCEPT ![j].st = x]], store' = store
    PROVE  /\ \A t \in Sector : \A i \in DOMAIN logs'[t] : logs'[t][i].len \in Lens
           /\ \A t \in Sector : store'[t] \in {UNUSED, EMPTY} => logs'[t] = <<>>
           /\ \A t \in Sector : Size(logs'[t]) = Size(logs[t])
<1> DEFINE p == [logs[s] EXCEPT ![j].st = x]
<1>1. logs[s] \in Seq(Tsl)
  BY DEF Types
<1>2. DOMAIN p = DOMAIN logs[s] /\ Size(p) = Size(logs[s])
      /\ \A i \in DOMAIN logs[s] : p[i].len = logs[s][i].len
  <2>1. PICK q \in Seq(Tsl) : q = logs[s]
    BY <1>1
  <2>2. p = [q EXCEPT ![j].st = x]
    BY <2>1
  <2> HIDE DEF p
  <2>3. /\ DOMAIN [q EXCEPT ![j].st = x] = DOMAIN q
        /\ \A i \in DOMAIN q : [q EXCEPT ![j].st = x][i].len = q[i].len
        /\ Size([q EXCEPT ![j].st = x]) = Size(q)
    BY SizeRaised
  <2> QED BY <2>1, <2>2, <2>3
<1>3. logs[s] = <<>> => p = <<>>
  BY <1>1
<1> HIDE DEF p
<1>4. \A t \in Sector : logs'[t] = IF t = s THEN p ELSE logs[t]
  BY DEF Types, p
<1> QED BY <1>2, <1>3, <1>4 DEF SpaceInv

LEMMA SpaceCommit ==
    ASSUME Types, OneInv, SpaceInv, Commit
    PROVE  SpaceInv'
<1>1. cur.sec \in Sector /\ cur.n + 1 \in Nat /\ cur.room \in Nat
  <2>1. cur.sec \in Sector
    BY DEF Commit, OneInv, Appending
  <2>2. cur.n \in Nat /\ cur.room \in Nat
    BY DEF Types, CurType
  <2> QED BY <2>1, <2>2
<1>2. logs' = [logs EXCEPT ![cur.sec] =
                 [logs[cur.sec] EXCEPT ![cur.n + 1].st = WriteStatus(@, TSL_WRITE)]]
  BY <1>1 DEF Commit, Types
<1>3. logs' = [logs EXCEPT ![cur.sec] =
                 [logs[cur.sec] EXCEPT ![cur.n + 1].st =
                    WriteStatus(logs[cur.sec][cur.n + 1].st, TSL_WRITE)]]
  BY <1>1, <1>2 DEF Types
<1>4. store' = store /\ pc = "commit" /\ pc' = "idle" /\ cur' = Appended
  BY DEF Commit, Return
<1>5. /\ \A t \in Sector : \A i \in DOMAIN logs'[t] : logs'[t][i].len \in Lens
      /\ \A t \in Sector : store'[t] \in {UNUSED, EMPTY} => logs'[t] = <<>>
      /\ \A t \in Sector : Size(logs'[t]) = Size(logs[t])
  BY <1>1, <1>3, <1>4, RaisedKeepsSpace
<1>6. op.len \in Nat
  <2>1. op.len \in Lens
    BY <1>4 DEF Types, OpInv, Appends
  <2> QED BY <2>1, LenFacts
<1>7. /\ cur.room + Size(logs[cur.sec]) <= Cap + (1 + op.len)
      /\ cur.room >= 1 + op.len /\ cur.room <= Cap
  BY <1>4 DEF SpaceInv
<1>8. (cur.room - (1 + op.len)) % SizeMod = cur.room - (1 + op.len)
  <2>1. cur.room - (1 + op.len) \in 0 .. Cap /\ SizeMod \in Nat /\ SizeMod > Cap
    BY <1>1, <1>6, <1>7, LenFacts, LenAssumption
  <2>2. \A a \in 0 .. Cap : a % SizeMod = a
    BY <2>1, LenFacts
  <2> QED BY <2>1, <2>2
<1>9. cur'.room = cur.room - (1 + op.len) /\ cur'.sec = cur.sec /\ cur'.status = cur.status
  BY <1>4, <1>8 DEF Appended, Types, CurType
<1>10. Size(logs[cur.sec]) \in Nat
  BY <1>1, SizeType DEF Types
<1>11. cur'.room + Size(logs'[cur'.sec]) <= Cap
  BY <1>1, <1>5, <1>6, <1>7, <1>9, <1>10, LenFacts
<1>12. cur'.status = USING
  BY <1>4, <1>9 DEF OneInv, Appending
<1>13. \A t \in Sector : Size(logs'[t]) <= Cap
  BY <1>5 DEF SpaceInv
<1> QED BY <1>4, <1>5, <1>11, <1>12, <1>13, Statuses DEF SpaceInv

LEMMA SpaceOther ==
    ASSUME Types, OneInv, SpaceInv, StrayWrite \/ Mark \/ Crash
    PROVE  SpaceInv'
<1>1. CASE StrayWrite
  <2>1. cur.status = UNUSED /\ cur'.status = cur.status /\ pc' = "idle" /\ UNCHANGED <<store, logs>>
    BY <1>1 DEF StrayWrite, OneInv, NoCurrent, Appended, Return, Types, CurType
  <2> QED BY <2>1, Statuses DEF SpaceInv
<1>2. CASE Mark
  <2>1. PICK s \in Sector, st \in UserStatus : \E i \in DOMAIN logs[s] : SetStatus(s, i, st)
    BY <1>2 DEF Mark
  <2>2. PICK i \in DOMAIN logs[s] : SetStatus(s, i, st)
    BY <2>1
  <2>3. i \in Nat /\ UNCHANGED <<store, cur, pc, op>>
    BY <2>2 DEF SetStatus, ram, Types
  <2>4. logs' = [logs EXCEPT ![s] = [logs[s] EXCEPT ![i].st = WriteStatus(logs[s][i].st, st)]]
    BY <2>2 DEF SetStatus, Types
  <2>5. /\ \A t \in Sector : \A j \in DOMAIN logs'[t] : logs'[t][j].len \in Lens
        /\ \A t \in Sector : store'[t] \in {UNUSED, EMPTY} => logs'[t] = <<>>
        /\ \A t \in Sector : Size(logs'[t]) = Size(logs[t])
    BY <2>3, <2>4, RaisedKeepsSpace
  <2>6. pc \in {"idle", "down", "refuse", "startTime", "preWrite"} /\ cur.status = USING =>
          cur.sec \in Sector
    BY DEF OneInv, Resting, Appending
  <2>7. pc = "commit" => cur.sec \in Sector
    BY DEF OneInv, Appending
  <2>8. pc = "commit" => cur'.room + Size(logs'[cur'.sec]) <= Cap + (1 + op'.len)
    BY <2>3, <2>5, <2>7 DEF SpaceInv
  <2>9. pc \in {"idle", "down", "refuse", "startTime", "preWrite"} /\ cur.status = USING =>
          cur'.room + Size(logs'[cur'.sec]) <= Cap
    BY <2>3, <2>5, <2>6 DEF SpaceInv
  <2>10. \A t \in Sector : Size(logs'[t]) <= Cap
    BY <2>5 DEF SpaceInv
  <2> QED BY <2>3, <2>5, <2>8, <2>9, <2>10 DEF SpaceInv
<1>3. CASE Crash
  <2>1. pc' = "off" /\ UNCHANGED <<store, logs>>
    BY <1>3 DEF Crash, flash
  <2> QED BY <2>1 DEF SpaceInv
<1> QED BY <1>1, <1>2, <1>3

LEMMA SpaceNext ==
    ASSUME Types, OneInv, SpaceInv, RoomForEach, [Next]_vars
    PROVE  SpaceInv'
<1>1. CASE Next
  BY <1>1, SpaceFormat, SpaceCall, SpaceBoot, SpaceMarkFull, SpaceTake, SpacePreWrite, SpaceCommit,
     SpaceOther DEF Next, Step, TakeSector, Call
<1>2. CASE UNCHANGED vars
  BY <1>2 DEF vars, flash, ram, SpaceInv
<1> QED BY <1>1, <1>2

\* As long as every log has room in an empty sector, the index entries and the
\* data of a sector never meet (tsl_append, update_sec_status), after any
\* number of power losses: a torn log is counted as the longest there can be.
THEOREM LogsNeverMeet == ASSUME RoomForEach PROVE Spec => []LogsFit
<1>1. Init => Types /\ OneInv /\ SpaceInv
  BY TypesInit, OneInit, SpaceInit
<1>2. Types /\ OneInv /\ SpaceInv /\ [Next]_vars => Types' /\ OneInv' /\ SpaceInv'
  BY TypesNext, OneNext, SpaceNext
<1>3. SpaceInv => LogsFit
  BY DEF SpaceInv, LogsFit, Size
<1> QED BY <1>1, <1>2, <1>3, PTL DEF Spec

-----------------------------------------------------------------------------
(* The power stays *)

\* No power is lost; and who switches the rollover off does not restart: a
\* full database has no current sector after fdb_tsdb_init (ts_no_sector).
Steady == MaxCrash = 0 /\ (Restarts => Rollovers \subseteq {TRUE})

\* Between calls, and in the steps of an append.
Rest    == {"idle", "down", "refuse"}
Closing == {"end", "endWrite", "full"}
Logging == {"startTime", "preWrite", "commit"}
Live    == Rest \cup Closing \cup Logging \cup {"erase", "format", "using"}

\* The current sector is the first of those that were never full, or the ring
\* has come round and the sector behind it is the oldest.
Young == /\ oldest = 0
         /\ \A s \in Sector : (s < cur.sec => store[s] = FULL) /\ (s > cur.sec => store[s] = EMPTY)
Round == oldest = NextSec(cur.sec) /\ \A s \in Sector : s # cur.sec => store[s] = FULL

\* What the current sector is at each step.
Current ==
    /\ pc \in Rest => cur.status \in {EMPTY, USING, FULL} /\ store[cur.sec] = cur.status
    /\ pc \in Rest /\ cur.status = EMPTY => Young /\ cur.sec = 0
    /\ pc \in Rest /\ cur.status = FULL => Round /\ ~Restarts
    /\ pc \in Closing \cup Logging => store[cur.sec] = USING
    /\ pc = "erase" => store[cur.sec] = FULL /\ Round
    /\ pc = "format" => store[cur.sec] = UNUSED /\ Round
    /\ pc = "using" => store[cur.sec] = EMPTY

RingInv ==
    /\ pc \in Live =>
         /\ cur.sec \in Sector
         /\ \A s \in Sector : s # cur.sec \/ pc # "format" => magic[s]
         /\ Young \/ Round
         /\ Current
    /\ Restarts /\ pc # "off" => rollover
    /\ pc = "down" => Restarts
    /\ pc = "off" => \A s \in Sector : ~magic[s]
    /\ pc # "stray"

\* Which sectors hold logs, and which end nodes.
HeldInv ==
    /\ \A s \in Sector : store[s] \in {UNUSED, EMPTY} => logs[s] = <<>>
    /\ \A s \in Sector : store[s] = FULL => logs[s] # <<>>
    /\ pc = "off" \/ (pc \in Formats /\ op.kind # "clean") => \A s \in Sector : logs[s] = <<>>

\* The last log of a sector.
Newest(s) == logs[s][Len(logs[s])]

\* The logs are in order, and db->last_time is the time of the last.
OrderInv ==
    /\ \A s \in Sector : \A i, j \in DOMAIN logs[s] : i < j => logs[s][i].time < logs[s][j].time
    /\ \A s, t \in Sector : Rank(oldest, s) < Rank(oldest, t) /\ ~(pc = "erase" /\ t = cur.sec) =>
         \A i \in DOMAIN logs[s], j \in DOMAIN logs[t] : logs[s][i].time < logs[t][j].time
    /\ pc = "erase" => \A s \in Sector : s # cur.sec =>
         \A i \in DOMAIN logs[cur.sec], j \in DOMAIN logs[s] : logs[cur.sec][i].time < logs[s][j].time
    /\ \A s \in Sector : \A i \in DOMAIN logs[s] :
         \/ Complete(logs[s][i]) /\ logs[s][i].time <= last
         \/ pc = "commit" /\ s = cur.sec /\ i = Len(logs[s])
    /\ pc \in Closing \cup Logging \cup {"erase", "format", "using"} => op.time > last

\* What db->cur_sec says of the logs of its sector.
CurInv ==
    /\ pc \in Rest \cup Closing /\ cur.status \in {USING, FULL} =>
         logs[cur.sec] # <<>> /\ Newest(cur.sec).time = last
    /\ pc \in Rest /\ cur.status = EMPTY => last = 0
    /\ \/ pc \in Rest /\ cur.status \in {EMPTY, USING}
       \/ pc \in Closing \cup Logging \cup {"using"}
       => cur.st = <<TSL_UNUSED, TSL_UNUSED>>
    /\ pc = "commit" => /\ Len(logs[cur.sec]) = cur.n + 1
                        /\ Newest(cur.sec).st = TSL_PRE_WRITE /\ Newest(cur.sec).time = op.time
    /\ \/ pc \in Rest /\ cur.status = USING
       \/ pc \in Closing \cup {"startTime", "preWrite"}
       => Len(logs[cur.sec]) = cur.n /\ (cur.n > 0 => cur.end = <<cur.sec, cur.n - 1>>)
    /\ pc = "using" \/ (pc \in Rest /\ cur.status = EMPTY) => cur.n = 0

\* The end node of the last log, while the sector is closed and afterwards.
EndOf(s) == /\ ends[s][1].st = TSL_WRITE
            /\ ends[s][1].slot = Len(logs[s]) - 1
            /\ ends[s][1].time = Newest(s).time
EndsInv ==
    \A s \in Sector :
        /\ store[s] = FULL \/ (pc = "full" /\ s = cur.sec) => EndOf(s)
        /\ store[s] # FULL /\ ~(pc \in {"endWrite", "full"} /\ s = cur.sec) => ends[s] = NoEnds

LogInv == RingInv /\ HeldInv /\ OrderInv /\ CurInv /\ EndsInv

-----------------------------------------------------------------------------
(* The ring of sectors *)

LEMMA RingInit == Init => RingInv
<1> SUFFICES ASSUME Init PROVE RingInv
  OBVIOUS
<1>1. pc = "off" /\ \A s \in Sector : ~magic[s]
  BY DEF Init
<1> QED BY <1>1 DEF RingInv, Live, Rest, Closing, Logging

\* The steps that leave the sector headers and the place in the ring alone.
LEMMA RingQuiet ==
    ASSUME RingInv, UNCHANGED <<magic, store, oldest>>, cur'.sec = cur.sec, cur'.status = cur.status,
           rollover' = rollover \/ (Restarts => rollover'),
           pc' = "down" => Restarts,
           \/ pc' = pc
           \/ pc \in Rest /\ pc' \in Rest
           \/ pc \in Closing \cup Logging /\ pc' \in Closing \cup Logging
           \/ pc \in Rest /\ cur.status = EMPTY /\ pc' = "using"
           \/ pc \in Rest /\ cur.status = USING /\ pc' \in {"end", "preWrite"}
           \/ pc \in Logging /\ cur.status = USING /\ pc' = "idle"
           \/ pc' \notin Live \cup {"stray", "off"} /\ pc # "off"
    PROVE  RingInv'
<1>1. (Young' <=> Young) /\ (Round' <=> Round)
  BY DEF Young, Round
<1>2. (Restarts /\ pc' # "off" => rollover') /\ (pc' = "down" => Restarts)
  BY DEF RingInv, Live, Rest, Closing, Logging
<1>3. pc' = "off" => \A s \in Sector : ~magic'[s]
  BY DEF RingInv, Live, Rest, Closing, Logging
<1>4. pc' # "stray"
  BY DEF RingInv, Rest, Closing, Logging
<1>5. pc' \in Live => pc \in Live
  BY DEF Live, Rest, Closing, Logging
<1>6. ASSUME pc' \in Live
      PROVE  /\ cur'.sec \in Sector
             /\ \A s \in Sector : s # cur'.sec \/ pc' # "format" => magic'[s]
             /\ Young' \/ Round'
             /\ Current'
  <2>1. pc \in Live /\ cur'.sec \in Sector /\ (Young' \/ Round') /\ Current
    BY <1>1, <1>5, <1>6 DEF RingInv
  <2>2. pc' = "format" <=> pc = "format"
    BY <1>6, <2>1 DEF Live, Rest, Closing, Logging
  <2>3. \A s \in Sector : s # cur'.sec \/ pc' # "format" => magic'[s]
    BY <2>1, <2>2 DEF RingInv
  <2>4. Current'
    <3>1. CASE pc' = pc
      BY <1>1, <2>1, <3>1 DEF Current
    <3>2. CASE pc' # pc
      BY <1>1, <1>6, <2>1, <3>2, WriteStatusIs DEF Current, Live, Rest, Closing, Logging
    <3> QED BY <3>1, <3>2
  <2> QED BY <2>1, <2>3, <2>4
<1> QED BY <1>2, <1>3, <1>4, <1>6 DEF RingInv

\* The greatest and the least element, when it is known.
LEMMA MaxIs ==
    ASSUME NEW S \in SUBSET Int, NEW m \in S, \A n \in S : n <= m
    PROVE  Max(S) = m
<1>1. \E x \in S : \A n \in S : x >= n
  OBVIOUS
<1>2. Max(S) \in S /\ \A n \in S : Max(S) >= n
  BY <1>1, Zenon DEF Max
<1>3. Max(S) >= m /\ Max(S) <= m /\ Max(S) \in Int /\ m \in Int
  BY <1>2
<1> QED BY <1>3

LEMMA MinIs ==
    ASSUME NEW S \in SUBSET Int, NEW m \in S, \A n \in S : m <= n
    PROVE  Min(S) = m
<1>1. \E x \in S : \A n \in S : x <= n
  OBVIOUS
<1>2. Min(S) \in S /\ \A n \in S : Min(S) <= n
  BY <1>1, Zenon DEF Min
<1>3. Min(S) <= m /\ Min(S) >= m /\ Min(S) \in Int /\ m \in Int
  BY <1>2
<1> QED BY <1>3

LEMMA LastSector ==
    /\ SecNum - 1 \in Sector /\ NextSec(SecNum - 1) = 0 /\ 0 # SecNum - 1
    /\ \A s \in Sector : /\ s \in Int /\ 0 <= s /\ s <= SecNum - 1
                         /\ s # SecNum - 1 => NextSec(s) = s + 1
BY SecAssumption DEF Sector, NextSec

\* What fdb_tsdb_init finds when fdb_tsdb_deinit left the database at rest.
LEMMA DownFound ==
    ASSUME Types, RingInv, pc = "down"
    PROVE  /\ ~Failed /\ magic[cur.sec] /\ cur.sec \in Sector /\ store[cur.sec] = cur.status
           /\ BootSec = cur.sec /\ NextSec(Latest) = oldest
           /\ \/ cur.status = USING
              \/ cur.status = EMPTY /\ NextSec(Latest) = BootSec
<1>1. /\ cur.sec \in Sector /\ (Young \/ Round) /\ Current
      /\ \A s \in Sector : magic[s]
  BY DEF RingInv, Live, Rest
<1>2. /\ store[cur.sec] = cur.status
      /\ cur.status = USING \/ (cur.status = EMPTY /\ Young /\ cur.sec = 0)
  BY <1>1 DEF Current, Rest, RingInv
<1>3. CASE cur.status = EMPTY
  <2>1. Young /\ cur.sec = 0 /\ oldest = 0
    BY <1>2, <1>3, WriteStatusIs DEF Young
  <2>2. \A s \in Sector : store[s] = EMPTY
    BY <1>2, <1>3, <2>1, LastSector DEF Young
  <2>3. InUse = {} /\ Empties = Sector /\ ~Failed
    BY <1>1, <2>2, WriteStatusIs DEF InUse, Empties, Failed, BadSector
  <2>4. BootSec = 0
    <3>1. Min(Sector) = 0
      BY LastSector, SectorFacts, MinIs
    <3> QED BY <2>3, <3>1, SectorFacts DEF BootSec
  <2>5. Latest = SecNum - 1
    <3>1. Max(Sector) = SecNum - 1
      BY LastSector, SectorFacts, MaxIs
    <3> QED BY <2>3, <3>1, SectorFacts DEF Latest
  <2> QED BY <1>1, <1>2, <1>3, <2>1, <2>3, <2>4, <2>5, LastSector
<1>4. CASE cur.status = USING
  <2>1. \A s \in Sector : s # cur.sec => store[s] = FULL \/ (store[s] = EMPTY /\ s > cur.sec)
    BY <1>1, LastSector DEF Young, Round
  <2>2. InUse = {cur.sec}
    BY <1>1, <1>2, <1>4, <2>1, WriteStatusIs DEF InUse
  <2>3. ~Failed
    <3>1. ASSUME NEW s \in Sector PROVE ~BadSector(s)
      <4>1. ASSUME store[s] = USING, NEW t \in 0 .. s - 1, store[t] \in {EMPTY, USING} PROVE FALSE
        <5>1. s = cur.sec
          BY <2>2, <4>1 DEF InUse
        <5>2. t \in Sector /\ t # cur.sec /\ ~(t > cur.sec)
          BY <5>1, SecAssumption DEF Sector
        <5> QED BY <2>1, <4>1, <5>2, WriteStatusIs
      <4> QED BY <1>1, <4>1 DEF BadSector
    <3> QED BY <3>1 DEF Failed
  <2>4. BootSec = cur.sec
    BY <2>2 DEF BootSec
  <2>5. NextSec(Latest) = oldest
    <3>1. CASE Empties = {}
      <4>1. Latest = cur.sec
        BY <2>4, <3>1 DEF Latest
      <4>2. CASE Round
        BY <4>1, <4>2 DEF Round
      <4>3. CASE Young
        <5>1. ~(SecNum - 1 > cur.sec)
          <6>1. SecNum - 1 \notin Empties
            BY <3>1
          <6> QED BY <4>3, <6>1, LastSector DEF Young, Empties
        <5>2. cur.sec = SecNum - 1
          BY <1>1, <5>1, LastSector, SecAssumption
        <5> QED BY <4>1, <4>3, <5>2, LastSector DEF Young
      <4> QED BY <1>1, <4>2, <4>3
    <3>2. CASE Empties # {}
      <4>1. PICK e \in Sector : store[e] = EMPTY
        BY <3>2 DEF Empties
      <4>2. e # cur.sec
        BY <1>2, <1>4, <4>1, WriteStatusIs
      <4>3. Young /\ e > cur.sec
        BY <1>1, <2>1, <4>1, <4>2, WriteStatusIs DEF Round
      <4>4. SecNum - 1 > cur.sec
        BY <1>1, <4>3, LastSector, SecAssumption
      <4>5. SecNum - 1 \in Empties
        BY <4>3, <4>4, LastSector DEF Young, Empties
      <4>6. Max(Empties) = SecNum - 1
        BY <4>5, LastSector, MaxIs DEF Empties
      <4> QED BY <3>2, <4>3, <4>6, LastSector DEF Latest, Young
    <3> QED BY <3>1, <3>2
  <2> QED BY <1>1, <1>2, <1>4, <2>3, <2>4, <2>5
<1> QED BY <1>2, <1>3, <1>4

\* Outside the calls of a database that is ready nothing is said of the ring.
LEMMA RingOutside ==
    ASSUME pc' \notin Live \cup {"off", "stray"}, Restarts => rollover'
    PROVE  RingInv'
BY DEF RingInv, Live, Rest, Closing, Logging

\* fdb_tsdb_init: the first one finds a blank partition.
LEMMA RingBoot ==
    ASSUME Types, OneInv, RingInv, BootFailed \/ Boot \/ BootHang
    PROVE  RingInv'
<1>1. CASE pc = "off"
  <2>1. \A s \in Sector : ~magic[s] /\ BadSector(s) /\ ~NoValidEnd(s)
    BY <1>1 DEF RingInv, BadSector, NoValidEnd
  <2>2. Failed /\ ~Hangs
    BY <2>1, SectorFacts DEF Failed, Hangs
  <2>3. pc' \in {"failed", "fmtErase"} /\ rollover'
    BY <2>2 DEF BootFailed, Boot, BootHang
  <2> QED BY <2>3, RingOutside DEF Live, Rest, Closing, Logging
<1>2. CASE pc = "down"
  <2>1. CASE BootHang
    <3>1. pc' = "hung" /\ (Restarts => rollover')
      BY <1>2, <2>1 DEF BootHang, RingInv, ram
    <3> QED BY <3>1, RingOutside DEF Live, Rest, Closing, Logging
  <2>2. CASE Boot
    <3>1. /\ ~Failed /\ magic[cur.sec] /\ cur.sec \in Sector /\ store[cur.sec] = cur.status
          /\ BootSec = cur.sec /\ NextSec(Latest) = oldest
      BY <1>2, DownFound
    <3>2. PICK g \in Garbage : cur' = ReadAll(Leftover(BootSec, g), BootSec)
      BY <2>2, <3>1, SectorFacts DEF Boot
    <3>3. cur'.sec = cur.sec /\ cur'.status = cur.status
      BY <3>1, <3>2, LeftoverIs, ReadAllIs
    <3>4. UNCHANGED <<magic, store, oldest>> /\ rollover' /\ pc' = "idle"
      BY <2>2, <3>1, SectorFacts DEF Boot, flash
    <3>5. pc \in Rest /\ pc' \in Rest
      BY <1>2, <3>4 DEF Rest
    <3> QED BY <3>3, <3>4, <3>5, RingQuiet
  <2>3. ~BootFailed
    BY <1>2, DownFound DEF BootFailed
  <2> QED BY <2>1, <2>2, <2>3
<1> QED BY <1>1, <1>2 DEF BootFailed, Boot, BootHang

LEMMA RingFormat ==
    ASSUME Types, OneInv, RingInv, FormatAll
    PROVE  RingInv'
<1>1. pc \in {"fmtErase", "fmtHdr", "fmtDone"} /\ rollover' = rollover /\ (Restarts => rollover')
  BY DEF FormatAll, FmtErase, FmtHdr, FmtDone, ram, RingInv
<1>2. CASE FmtErase \/ FmtHdr
  <2>1. pc' \in {"hung", "fmtErase", "fmtHdr", "fmtDone"}
    BY <1>2 DEF FmtErase, FmtHdr
  <2> QED BY <1>1, <2>1, RingOutside DEF Live, Rest, Closing, Logging
<1>3. CASE FmtDone
  <2>1. \A s \in Sector : magic[s] /\ store[s] = EMPTY
    BY <1>3 DEF FmtDone, OneInv, Formatting, Formatted
  <2>2. cur'.sec = 0 /\ cur'.status = EMPTY
    BY <1>3, <2>1, SectorFacts, ReadHdrIs DEF FmtDone, OneInv, HdrType
  <2>3. UNCHANGED <<magic, store>> /\ oldest' = 0 /\ pc' = "idle"
    BY <1>3 DEF FmtDone, flash
  <2>4. \A s \in Sector : ~(s < 0)
    BY LastSector
  <2>5. Young'
    BY <2>1, <2>2, <2>3, <2>4 DEF Young
  <2>6. Current'
    BY <2>1, <2>2, <2>3, <2>5, SectorFacts, WriteStatusIs DEF Current, Rest, Closing, Logging
  <2> QED BY <1>1, <2>1, <2>2, <2>3, <2>5, <2>6, SectorFacts DEF RingInv
<1> QED BY <1>2, <1>3 DEF FormatAll

\* The calls.
LEMMA RingCall ==
    ASSUME Types, OneInv, RingInv, Steady,
           \/ \E len \in Lens, t \in Time : AppendTsl(len, t)
           \/ Clean \/ SetRollover \/ Deinit \/ Hang \/ Refuse \/ Mark
    PROVE  RingInv'
<1>1. CASE \E len \in Lens, t \in Time : AppendTsl(len, t)
  <2>1. PICK len \in Lens, t \in Time : AppendTsl(len, t)
    BY <1>1
  <2>2. pc = "idle" /\ UNCHANGED <<magic, store, oldest, cur, rollover>>
    BY <2>1 DEF AppendTsl, flash, ram
  <2>3. cur.status \in {EMPTY, USING, FULL}
    BY <2>2 DEF RingInv, Live, Rest, Current
  <2>4. \/ pc' = "refuse"
        \/ pc' = "end" /\ cur.status = USING
        \/ pc' = "using" /\ cur.status = EMPTY
        \/ pc' = "preWrite" /\ cur.status = USING
    BY <2>1, <2>3, WriteStatusIs DEF AppendTsl, NoRoom
  <2> QED BY <2>2, <2>4, RingQuiet DEF Rest
<1>2. CASE Clean
  <2>1. pc = "idle" /\ pc' = "fmtErase" /\ UNCHANGED <<magic, store, oldest, cur, rollover>>
    BY <1>2 DEF Clean, flash, ram
  <2> QED BY <2>1, RingQuiet DEF Live, Rest, Closing, Logging
<1>3. CASE SetRollover
  <2>1. pc' = pc /\ pc = "idle" /\ UNCHANGED <<magic, store, oldest, cur>> /\ (Restarts => rollover')
    BY <1>3 DEF SetRollover, flash, Steady
  <2> QED BY <2>1, RingQuiet
<1>4. CASE Deinit
  <2>1. pc = "idle" /\ pc' = "down" /\ Restarts /\ UNCHANGED <<magic, store, oldest, cur, rollover>>
    BY <1>4 DEF Deinit, flash, ram
  <2> QED BY <2>1, RingQuiet DEF Rest
<1>5. CASE Hang
  <2>1. pc' = pc /\ pc = "hung" /\ UNCHANGED <<magic, store, oldest, cur, rollover>>
    BY <1>5 DEF Hang, vars, flash, ram
  <2> QED BY <2>1, RingQuiet
<1>6. CASE Refuse
  <2>1. pc = "refuse" /\ pc' = "idle" /\ UNCHANGED <<magic, store, oldest, cur, rollover>>
    BY <1>6 DEF Refuse, Return, flash, ram
  <2> QED BY <2>1, RingQuiet DEF Rest
<1>7. CASE Mark
  <2>1. pc' = pc /\ pc \notin {"off", "down"} /\ UNCHANGED <<magic, store, oldest, cur, rollover>>
    BY <1>7 DEF Mark, SetStatus, ram
  <2> QED BY <2>1, RingQuiet
<1> QED BY <1>1, <1>2, <1>3, <1>4, <1>5, <1>6, <1>7

\* The steps of an append that write no header.
LEMMA RingLog ==
    ASSUME Types, OneInv, RingInv,
           EndStatus \/ EndWrite \/ EndSkip \/ WriteStart \/ PreWrite \/ Commit
    PROVE  RingInv'
<1>1. UNCHANGED <<magic, store, oldest, rollover>>
  BY DEF EndStatus, EndWrite, EndSkip, WriteStart, PreWrite, Commit, flash, ram
<1>2. cur'.sec = cur.sec /\ cur'.status = cur.status
  BY DEF EndStatus, EndWrite, EndSkip, WriteStart, PreWrite, Commit, flash, ram, Appended,
         OneInv, HdrType, Fields
<1>3. \/ pc \in Closing /\ pc' \in Closing
      \/ pc \in Logging /\ pc' \in Logging
      \/ pc \in Logging /\ cur.status = USING /\ pc' = "idle"
  BY DEF EndStatus, EndWrite, EndSkip, WriteStart, PreWrite, Commit, Return, Closing, Logging,
         OneInv, Appending
<1>4. CASE pc' = "idle" /\ pc \in Logging /\ cur.status = USING
  BY <1>1, <1>2, <1>4, RingQuiet
<1>5. CASE pc \in Closing \cup Logging /\ pc' \in Closing \cup Logging
  <2>1. pc' # "down"
    BY <1>5 DEF Closing, Logging
  <2> QED BY <1>1, <1>2, <1>5, <2>1, RingQuiet
<1> QED BY <1>3, <1>4, <1>5 DEF Closing, Logging

LEMMA RingMarkFull ==
    ASSUME Types, OneInv, RingInv, MarkFull
    PROVE  RingInv'
<1> DEFINE next == NextSec(cur.sec)
           read == ReadHdr([cur EXCEPT !.status = FULL], next)
<1>1. /\ cur.sec \in Sector /\ store[cur.sec] = USING /\ (Young \/ Round)
      /\ \A s \in Sector : magic[s]
      /\ pc = "full" /\ (Restarts => rollover)
  BY DEF MarkFull, RingInv, Live, Closing, Current
<1>2. next \in Sector /\ next # cur.sec
  BY <1>1, NextSecType
<1>3. /\ store' = [store EXCEPT ![cur.sec] = FULL]
      /\ store'[cur.sec] = FULL /\ \A s \in Sector : s # cur.sec => store'[s] = store[s]
  BY <1>1, WriteStatusIs DEF MarkFull, Types
<1>4. magic' = magic /\ rollover' = rollover
  BY DEF MarkFull
<1>5. DOMAIN [cur EXCEPT !.status = FULL] = Fields
  BY DEF OneInv, HdrType
<1>6. read.sec = next /\ read.status = store[next]
  BY <1>1, <1>2, <1>5, ReadHdrIs
<1>7. CASE next = 0 /\ ~rollover
  <2>1. /\ cur' = [cur EXCEPT !.status = FULL] /\ pc' = "idle" /\ oldest' = oldest
    BY <1>7 DEF MarkFull, Return
  <2>2. cur'.sec = cur.sec /\ cur'.status = FULL
    BY <2>1 DEF OneInv, HdrType, Fields
  <2>3. \A s \in Sector : s # cur.sec => store[s] = FULL
    <3>1. CASE Round
      BY <3>1 DEF Round
    <3>2. CASE Young
      <4>1. cur.sec = SecNum - 1
        BY <1>1, <1>7, LastSector DEF NextSec
      <4> QED BY <3>2, <4>1, LastSector DEF Young
    <3> QED BY <1>1, <3>1, <3>2
  <2>4. oldest = next
    BY <1>1, <1>7 DEF Young, Round
  <2>5. Round'
    BY <1>3, <2>1, <2>2, <2>3, <2>4 DEF Round
  <2>6. Current'
    BY <1>1, <1>3, <1>4, <1>7, <2>1, <2>2, <2>5, WriteStatusIs
       DEF Current, Rest, Closing, Logging
  <2> QED BY <1>1, <1>4, <2>1, <2>2, <2>5, <2>6 DEF RingInv
<1>8. CASE ~(next = 0 /\ ~rollover)
  <2>1. cur' = read /\ cur'.sec = next
    BY <1>6, <1>8 DEF MarkFull
  <2>2. CASE store[next] = EMPTY
    <3>1. pc' = "using" /\ oldest' = oldest
      BY <1>6, <1>8, <2>2 DEF MarkFull
    <3>2. Young
      BY <1>1, <1>2, <2>2, WriteStatusIs DEF Round
    <3>3. next = cur.sec + 1
      <4>1. ~(next < cur.sec)
        BY <1>2, <2>2, <3>2, WriteStatusIs DEF Young
      <4> QED BY <1>1, <1>2, <4>1, LastSector DEF NextSec
    <3>4. \A s \in Sector : /\ s < next => s = cur.sec \/ s < cur.sec
                            /\ s > next => s > cur.sec /\ s # cur.sec
      BY <1>1, <3>3, LastSector
    <3>5. Young'
      BY <1>3, <2>1, <3>1, <3>2, <3>4 DEF Young
    <3>6. Current'
      BY <1>2, <1>3, <2>1, <2>2, <3>1 DEF Current, Rest, Closing, Logging
    <3> QED BY <1>1, <1>2, <1>4, <2>1, <3>1, <3>5, <3>6 DEF RingInv
  <2>3. CASE store[next] # EMPTY
    <3>1. pc' = "erase" /\ oldest' = NextSec(next)
      BY <1>6, <1>8, <2>3 DEF MarkFull, AfterNew
    <3>2. \A s \in Sector : store'[s] = FULL
      <4>1. CASE Round
        BY <1>3, <4>1 DEF Round
      <4>2. CASE Young
        <5>1. ~(next > cur.sec)
          BY <1>2, <2>3, <4>2 DEF Young
        <5>2. cur.sec = SecNum - 1
          BY <1>1, <5>1, LastSector
        <5> QED BY <1>3, <4>2, <5>2, LastSector DEF Young
      <4> QED BY <1>1, <4>1, <4>2
    <3>3. Round'
      BY <2>1, <3>1, <3>2 DEF Round
    <3>4. Current'
      BY <1>2, <2>1, <3>1, <3>2, <3>3 DEF Current, Rest, Closing, Logging
    <3> QED BY <1>1, <1>2, <1>4, <2>1, <3>1, <3>3, <3>4 DEF RingInv
  <2> QED BY <2>2, <2>3
<1> QED BY <1>7, <1>8

LEMMA RingTake ==
    ASSUME Types, OneInv, RingInv, EraseNext \/ FormatNext \/ UsingStatus
    PROVE  RingInv'
<1>1. /\ cur.sec \in Sector /\ (Young \/ Round) /\ Current
      /\ \A s \in Sector : s # cur.sec \/ pc # "format" => magic[s]
      /\ (Restarts => rollover)
  BY DEF EraseNext, FormatNext, UsingStatus, RingInv, Live
<1>2. cur'.sec = cur.sec /\ oldest' = oldest /\ rollover' = rollover
  BY DEF EraseNext, FormatNext, UsingStatus, ram, OneInv, HdrType, Fields
<1>3. \A s \in Sector : s # cur.sec => store'[s] = store[s] /\ magic'[s] = magic[s]
  BY <1>1 DEF EraseNext, EraseSector, FormatNext, WriteSectorHdr, UsingStatus, Types
<1>4. (Young' <=> Young) /\ (Round' <=> Round)
  <2>1. \A s \in Sector : s < cur.sec \/ s > cur.sec => s # cur.sec
    BY <1>1, LastSector
  <2> QED BY <1>1, <1>2, <1>3, <2>1 DEF Young, Round
<1>5. CASE EraseNext
  <2>1. pc' = "format" /\ store'[cur.sec] = UNUSED /\ Round
    BY <1>1, <1>5 DEF EraseNext, EraseSector, Current, Types
  <2>2. Current'
    BY <1>2, <1>4, <2>1 DEF Current, Rest, Closing, Logging
  <2>3. \A s \in Sector : s # cur'.sec => magic'[s]
    BY <1>1, <1>2, <1>3
  <2> QED BY <1>1, <1>2, <1>4, <2>1, <2>2, <2>3 DEF RingInv
<1>6. CASE FormatNext
  <2>1. pc' = "using" /\ store'[cur.sec] = EMPTY /\ magic'[cur.sec]
    BY <1>1, <1>6, WriteStatusIs DEF FormatNext, WriteSectorHdr, Current, Types
  <2>2. Current'
    BY <1>2, <2>1 DEF Current, Rest, Closing, Logging
  <2>3. \A s \in Sector : magic'[s]
    BY <1>1, <1>3, <2>1
  <2> QED BY <1>1, <1>2, <1>4, <2>1, <2>2, <2>3 DEF RingInv
<1>7. CASE UsingStatus
  <2>1. pc' = "startTime" /\ store'[cur.sec] = USING /\ magic' = magic /\ pc = "using"
    BY <1>1, <1>7, WriteStatusIs DEF UsingStatus, Current, Types
  <2>2. Current'
    BY <1>2, <2>1 DEF Current, Rest, Closing, Logging
  <2>3. \A s \in Sector : magic'[s]
    BY <1>1, <2>1
  <2> QED BY <1>1, <1>2, <1>4, <2>1, <2>2, <2>3 DEF RingInv
<1> QED BY <1>5, <1>6, <1>7

LEMMA RingNext ==
    ASSUME Types, OneInv, RingInv, Steady, [Next]_vars
    PROVE  RingInv'
<1>1. CASE UNCHANGED vars
  <2>1. UNCHANGED <<magic, store, oldest, cur, rollover, pc>>
    BY <1>1 DEF vars, flash, ram
  <2>2. pc' = "down" => Restarts
    BY <2>1 DEF RingInv
  <2> QED BY <2>1, <2>2, RingQuiet
<1>2. CASE Next
  <2>1. ~StrayWrite
    BY DEF StrayWrite, RingInv
  <2>2. ~Crash
    <3>1. crashes = 0
      BY DEF Types, Steady
    <3> QED BY <3>1 DEF Crash, Steady
  <2>3. CASE FormatAll
    BY <2>3, RingFormat
  <2>4. CASE Refuse \/ (\E len \in Lens, t \in Time : AppendTsl(len, t)) \/ Clean \/ SetRollover
             \/ Deinit \/ Hang \/ Mark
    BY <2>4, RingCall
  <2>5. CASE EndStatus \/ EndWrite \/ EndSkip \/ WriteStart \/ PreWrite \/ Commit
    BY <2>5, RingLog
  <2>6. CASE MarkFull
    BY <2>6, RingMarkFull
  <2>7. CASE EraseNext \/ FormatNext \/ UsingStatus
    BY <2>7, RingTake
  <2>8. CASE BootFailed \/ Boot \/ BootHang
    BY <2>8, RingBoot
  <2> QED BY <1>2, <2>1, <2>2, <2>3, <2>4, <2>5, <2>6, <2>7, <2>8
       DEF Next, Step, Call, TakeSector
<1> QED BY <1>1, <1>2

-----------------------------------------------------------------------------
(* Logs whose status is raised *)

\* A step keeps the number and the times of the logs.
SameTimes ==
    \A t \in Sector : /\ DOMAIN logs'[t] = DOMAIN logs[t] /\ Len(logs'[t]) = Len(logs[t])
                      /\ \A i \in DOMAIN logs[t] : logs'[t][i].time = logs[t][i].time

LEMMA SameLogs == ASSUME logs' = logs PROVE SameTimes
BY DEF SameTimes

LEMMA TimeInt == \A t \in Time : t \in Int
BY DEF Time

LEMMA LogFacts ==
    ASSUME Types, NEW s \in Sector
    PROVE  /\ logs[s] \in Seq(Tsl) /\ Len(logs[s]) \in Nat /\ DOMAIN logs[s] = 1 .. Len(logs[s])
           /\ logs[s] = <<>> <=> Len(logs[s]) = 0
           /\ \A i \in DOMAIN logs[s] :
                logs[s][i] \in Tsl /\ logs[s][i].time \in Int /\ logs[s][i].st \in TslStatus
<1>1. logs[s] \in Seq(Tsl)
  BY DEF Types
<1>2. \A r \in Tsl : r.time \in Int /\ r.st \in TslStatus
  <2>1. \A r \in Tsl : r.time \in Time /\ r.st \in TslStatus
    BY DEF Tsl
  <2> QED BY <2>1, TimeInt
<1>3. PICK q \in Seq(Tsl) : q = logs[s]
  BY <1>1
<1>4. /\ Len(q) \in Nat /\ DOMAIN q = 1 .. Len(q) /\ (q = <<>> <=> Len(q) = 0)
      /\ \A i \in DOMAIN q : q[i] \in Tsl
  OBVIOUS
<1> QED BY <1>1, <1>2, <1>3, <1>4

LEMMA RaisedIs ==
    ASSUME Types, NEW s \in Sector, NEW j \in Nat, NEW x, j \in DOMAIN logs[s],
           logs' = [logs EXCEPT ![s] = [logs[s] EXCEPT ![j].st = x]]
    PROVE  /\ SameTimes
           /\ logs'[s][j].st = x
           /\ \A t \in Sector : \A i \in DOMAIN logs[t] :
                t # s \/ i # j => logs'[t][i] = logs[t][i]
<1> DEFINE p == [logs[s] EXCEPT ![j].st = x]
<1>1. PICK q \in Seq(Tsl) : q = logs[s]
  BY LogFacts
<1>2. /\ DOMAIN p = DOMAIN q /\ Len(p) = Len(q)
      /\ \A i \in DOMAIN q : p[i].time = q[i].time /\ (i # j => p[i] = q[i])
      /\ p[j].st = x
  <2>1. p = [q EXCEPT ![j].st = x] /\ j \in DOMAIN q
    BY <1>1
  <2>2. \A i \in DOMAIN q : q[i] \in Tsl
    OBVIOUS
  <2> HIDE DEF p
  <2>3. DOMAIN p = DOMAIN q /\ Len(p) = Len(q)
    BY <2>1
  <2>4. \A i \in DOMAIN q : p[i].time = q[i].time /\ (i # j => p[i] = q[i])
    BY <2>1, <2>2 DEF Tsl
  <2>5. p[j].st = x
    BY <2>1, <2>2 DEF Tsl
  <2> QED BY <2>3, <2>4, <2>5
<1> HIDE DEF p
<1>3. \A t \in Sector : logs'[t] = IF t = s THEN p ELSE logs[t]
  BY DEF Types, p
<1> QED BY <1>1, <1>2, <1>3 DEF SameTimes

\* fdb_tsl_set_status marks a log that is complete, which it remains.
LEMMA MarkIs ==
    ASSUME Types, Mark
    PROVE  /\ SameTimes
           /\ \A t \in Sector : \A i \in DOMAIN logs[t] :
                /\ Complete(logs[t][i]) => Complete(logs'[t][i])
                /\ ~Complete(logs[t][i]) => logs'[t][i] = logs[t][i]
<1>1. PICK s \in Sector, st \in UserStatus : \E i \in DOMAIN logs[s] : SetStatus(s, i, st)
  BY DEF Mark
<1>2. PICK i \in DOMAIN logs[s] : SetStatus(s, i, st)
  BY <1>1
<1> DEFINE x == WriteStatus(logs[s][i].st, st)
<1>3. logs' = [logs EXCEPT ![s] = [logs[s] EXCEPT ![i].st = x]] /\ Complete(logs[s][i])
  BY <1>2 DEF SetStatus, Types
<1>4. x >= TSL_WRITE
  <2>1. logs[s][i].st >= TSL_WRITE /\ logs[s][i].st \in Int /\ st \in Int
    BY <1>3, LogFacts, StatusAssumption, Statuses DEF Complete, TSL_USER_STATUS2
  <2> QED BY <2>1 DEF WriteStatus, TSL_WRITE
<1>6. i \in Nat /\ i \in DOMAIN logs[s]
  BY <1>1, <1>2, LogFacts
<1> HIDE DEF x
<1>5. /\ SameTimes
      /\ logs'[s][i].st = x
      /\ \A t \in Sector : \A k \in DOMAIN logs[t] :
           t # s \/ k # i => logs'[t][k] = logs[t][k]
  BY <1>3, <1>6, RaisedIs
<1> QED BY <1>3, <1>4, <1>5 DEF Complete

\* The commit of a log is about the last entry of the current sector.
LEMMA CommitIs ==
    ASSUME Types, OneInv, CurInv, Commit
    PROVE  /\ SameTimes /\ cur.sec \in Sector /\ store' = store
           /\ cur.n \in Nat /\ Len(logs[cur.sec]) = cur.n + 1
           /\ Newest(cur.sec).time = op.time /\ op.time \in Time
           /\ logs'[cur.sec][cur.n + 1].st = TSL_WRITE
           /\ \A t \in Sector : \A i \in DOMAIN logs[t] :
                t # cur.sec \/ i # cur.n + 1 => logs'[t][i] = logs[t][i]
<1>1. cur.sec \in Sector /\ cur.n \in Nat /\ pc = "commit" /\ store' = store
  BY DEF Commit, OneInv, Appending, Types, CurType
<1>2. /\ Len(logs[cur.sec]) = cur.n + 1 /\ Newest(cur.sec).time = op.time
      /\ logs[cur.sec][cur.n + 1].st = TSL_PRE_WRITE
  BY <1>1 DEF CurInv, Newest
<1>3. cur.n + 1 \in DOMAIN logs[cur.sec] /\ cur.n + 1 \in Nat
  BY <1>1, <1>2, LogFacts
<1>4. logs' = [logs EXCEPT ![cur.sec] =
                 [logs[cur.sec] EXCEPT ![cur.n + 1].st = WriteStatus(@, TSL_WRITE)]]
  BY <1>1 DEF Commit, Types
<1>5. logs' = [logs EXCEPT ![cur.sec] = [logs[cur.sec] EXCEPT ![cur.n + 1].st = TSL_WRITE]]
  <2>1. WriteStatus(TSL_PRE_WRITE, TSL_WRITE) = TSL_WRITE
    BY DEF WriteStatus, TSL_PRE_WRITE, TSL_WRITE
  <2> QED BY <1>2, <1>4, <2>1
<1>6. op.time \in Time
  BY <1>1 DEF Types, OpInv, Appends
<1>7. /\ SameTimes
      /\ logs'[cur.sec][cur.n + 1].st = TSL_WRITE
      /\ \A t \in Sector : \A i \in DOMAIN logs[t] :
           t # cur.sec \/ i # cur.n + 1 => logs'[t][i] = logs[t][i]
  BY <1>1, <1>3, <1>5, RaisedIs
<1> QED BY <1>1, <1>2, <1>6, <1>7

\* A log that is not yet complete is put behind the others of its sector.
LEMMA PreWriteIs ==
    ASSUME Types, OneInv, RingInv, PreWrite
    PROVE  /\ cur.sec \in Sector /\ store' = store /\ store[cur.sec] = USING
           /\ \A t \in Sector : t # cur.sec => logs'[t] = logs[t]
           /\ Len(logs'[cur.sec]) = Len(logs[cur.sec]) + 1
           /\ DOMAIN logs'[cur.sec] = 1 .. Len(logs[cur.sec]) + 1
           /\ \A i \in DOMAIN logs[cur.sec] : logs'[cur.sec][i] = logs[cur.sec][i]
           /\ logs'[cur.sec][Len(logs[cur.sec]) + 1]
                = [st |-> TSL_PRE_WRITE, time |-> op.time, len |-> op.len]
           /\ op.time \in Time
<1> DEFINE r == [st |-> TSL_PRE_WRITE, time |-> op.time, len |-> op.len]
<1>1. /\ cur.sec \in Sector /\ store' = store /\ store[cur.sec] = USING
      /\ pc = "preWrite"
  BY DEF PreWrite, OneInv, Appending, Using
<1>2. op.time \in Time /\ op.len \in Lens
  BY <1>1 DEF Types, OpInv, Appends
<1>3. r \in Tsl
  <2>1. op.len \in Nat /\ TSL_PRE_WRITE \in TslStatus
    <3>1. op.len \in Nat
      BY <1>2, LenFacts
    <3> QED BY <3>1, Statuses
  <2> QED BY <1>2, <2>1 DEF Tsl
<1>4. PICK q \in Seq(Tsl) : q = logs[cur.sec]
  BY <1>1, LogFacts
<1>5. \A t \in Sector : logs'[t] = IF t = cur.sec THEN Append(q, r) ELSE logs[t]
  BY <1>1, <1>4 DEF PreWrite, Types
<1> HIDE DEF r
<1>6. /\ Len(Append(q, r)) = Len(q) + 1 /\ DOMAIN Append(q, r) = 1 .. Len(q) + 1
      /\ \A i \in DOMAIN q : Append(q, r)[i] = q[i]
      /\ Append(q, r)[Len(q) + 1] = r
  BY <1>3
<1> QED BY <1>1, <1>2, <1>4, <1>5, <1>6 DEF r

-----------------------------------------------------------------------------
(* Which sectors hold logs *)

LEMMA HeldInit == Init => HeldInv
<1> SUFFICES ASSUME Init PROVE HeldInv
  OBVIOUS
<1>1. \A s \in Sector : logs[s] = <<>> /\ store[s] = UNUSED
  BY DEF Init
<1> QED BY <1>1 DEF HeldInv, UNUSED, FULL

\* The sectors keep their headers, and what holds logs holds them still.
LEMMA HeldQuiet ==
    ASSUME HeldInv, store' = store,
           \A s \in Sector : logs'[s] = <<>> <=> logs[s] = <<>>,
           \/ pc' \notin Formats \cup {"off"}
           \/ op'.kind = "clean" /\ pc' # "off"
           \/ op' = op /\ pc \in Formats /\ pc' \in Formats
           \/ pc = "off"
           \/ pc' = pc /\ op' = op
    PROVE  HeldInv'
BY DEF HeldInv, Formats

LEMMA SameHeld ==
    ASSUME Types, SameTimes, Types'
    PROVE  \A s \in Sector : logs'[s] = <<>> <=> logs[s] = <<>>
<1>1. \A s \in Sector : /\ logs'[s] = <<>> <=> Len(logs'[s]) = 0
                        /\ logs[s] = <<>> <=> Len(logs[s]) = 0
  <2>1. \A s \in Sector : logs[s] = <<>> <=> Len(logs[s]) = 0
    BY LogFacts
  <2>2. \A s \in Sector : logs'[s] \in Seq(Tsl)
    BY DEF Types
  <2>3. \A q \in Seq(Tsl) : q = <<>> <=> Len(q) = 0
    OBVIOUS
  <2> QED BY <2>1, <2>2, <2>3
<1> QED BY <1>1 DEF SameTimes

\* An erased sector holds nothing.
LEMMA HeldErased ==
    ASSUME Types, HeldInv, NEW s \in Sector, EraseSector(s), pc' # "off",
           pc' \in Formats => pc \in Formats /\ op' = op
    PROVE  HeldInv'
<1>1. \A t \in Sector : /\ logs'[t] = IF t = s THEN <<>> ELSE logs[t]
                        /\ store'[t] = IF t = s THEN UNUSED ELSE store[t]
  BY DEF EraseSector, Types
<1> QED BY <1>1 DEF HeldInv, UNUSED, FULL

LEMMA HeldBoot ==
    ASSUME Types, RingInv, HeldInv, BootFailed \/ Boot \/ BootHang
    PROVE  HeldInv'
<1>1. store' = store /\ logs' = logs
  BY DEF BootFailed, Boot, BootHang, flash
<1>2. pc \in {"off", "down"} /\ pc' \in {"hung", "failed", "fmtErase", "idle"}
  BY DEF BootFailed, Boot, BootHang
<1>3. pc' = "fmtErase" => pc = "off"
  BY DownFound DEF BootFailed, Boot, BootHang
<1> QED BY <1>1, <1>2, <1>3, HeldQuiet DEF Formats

LEMMA HeldFormat ==
    ASSUME Types, OneInv, HeldInv, FormatAll
    PROVE  HeldInv'
<1>1. CASE FmtErase /\ ~NoValidEnd(fmt)
  <2>1. fmt \in Sector /\ EraseSector(fmt) /\ pc' = "fmtHdr" /\ pc = "fmtErase" /\ op' = op
    BY <1>1 DEF FmtErase, Types
  <2> QED BY <2>1, HeldErased DEF Formats
<1>2. CASE (FmtErase /\ NoValidEnd(fmt)) \/ FmtDone
  <2>1. store' = store /\ logs' = logs /\ pc' \in {"hung", "idle"}
    BY <1>2 DEF FmtErase, FmtDone, flash
  <2> QED BY <2>1, HeldQuiet DEF Formats
<1>3. CASE FmtHdr
  <2>1. fmt \in Sector /\ store[fmt] = UNUSED /\ logs[fmt] = <<>> /\ logs' = logs
    BY <1>3 DEF FmtHdr, OneInv, Formatting, Types, HeldInv, WriteSectorHdr
  <2>2. \A t \in Sector : store'[t] = IF t = fmt THEN EMPTY ELSE store[t]
    BY <1>3, <2>1, WriteStatusIs DEF FmtHdr, WriteSectorHdr, Types
  <2>3. pc = "fmtHdr" /\ pc' \in Formats /\ op' = op
    BY <1>3 DEF FmtHdr, Formats
  <2> QED BY <2>1, <2>2, <2>3, WriteStatusIs DEF HeldInv, Formats
<1> QED BY <1>1, <1>2, <1>3 DEF FormatAll

LEMMA HeldCall ==
    ASSUME Types, Types', HeldInv,
           \/ \E len \in Lens, t \in Time : AppendTsl(len, t)
           \/ Clean \/ SetRollover \/ Deinit \/ Hang \/ Refuse \/ Mark
           \/ EndStatus \/ EndWrite \/ EndSkip \/ WriteStart
    PROVE  HeldInv'
<1>1. CASE Mark
  <2>1. SameTimes
    BY <1>1, MarkIs
  <2>2. store' = store /\ pc' = pc /\ op' = op
    BY <1>1 DEF Mark, SetStatus
  <2> QED BY <2>1, <2>2, SameHeld, HeldQuiet
<1>2. CASE Clean
  <2>1. store' = store /\ logs' = logs /\ op'.kind = "clean" /\ pc' = "fmtErase"
    BY <1>2 DEF Clean, flash, NoOp
  <2> QED BY <2>1, HeldQuiet
<1>3. CASE SetRollover \/ Hang
  <2>1. store' = store /\ logs' = logs /\ op' = op /\ pc' = pc
    BY <1>3 DEF SetRollover, Hang, flash, vars
  <2> QED BY <2>1, HeldQuiet
<1>4. CASE (\E len \in Lens, t \in Time : AppendTsl(len, t)) \/ Deinit \/ Refuse
           \/ EndStatus \/ EndWrite \/ EndSkip \/ WriteStart
  <2>1. store' = store /\ logs' = logs
    BY <1>4 DEF AppendTsl, Deinit, Refuse, EndStatus, EndWrite, EndSkip, WriteStart, flash
  <2>2. pc' \notin Formats \cup {"off"}
    BY <1>4 DEF AppendTsl, Deinit, Refuse, Return, EndStatus, EndWrite, EndSkip, WriteStart,
                Formats
  <2> QED BY <2>1, <2>2, HeldQuiet
<1> QED BY <1>1, <1>2, <1>3, <1>4

LEMMA HeldAppend ==
    ASSUME Types, Types', OneInv, RingInv, HeldInv, CurInv,
           PreWrite \/ Commit \/ MarkFull \/ EraseNext \/ FormatNext \/ UsingStatus
    PROVE  HeldInv'
<1>0. pc \notin Formats \cup {"off"} /\ pc' \notin Formats \cup {"off"}
  BY DEF PreWrite, Commit, Return, MarkFull, EraseNext, FormatNext, UsingStatus, Formats
<1>1. CASE PreWrite
  <2>1. /\ cur.sec \in Sector /\ store' = store /\ store[cur.sec] = USING
        /\ \A t \in Sector : t # cur.sec => logs'[t] = logs[t]
        /\ Len(logs'[cur.sec]) = Len(logs[cur.sec]) + 1
    BY <1>1, PreWriteIs
  <2>2. logs'[cur.sec] # <<>>
    BY <2>1, LogFacts
  <2> QED BY <1>0, <2>1, <2>2, WriteStatusIs DEF HeldInv
<1>2. CASE Commit
  <2>1. SameTimes /\ store' = store
    BY <1>2, CommitIs
  <2> QED BY <1>0, <2>1, SameHeld, HeldQuiet
<1>3. CASE MarkFull
  <2>1. cur.sec \in Sector /\ store[cur.sec] = USING /\ cur.status = USING /\ pc = "full"
    BY <1>3 DEF MarkFull, OneInv, Appending, Using
  <2>2. logs[cur.sec] # <<>>
    BY <2>1 DEF CurInv, Closing
  <2>3. logs' = logs /\ \A s \in Sector : store'[s] = IF s = cur.sec THEN FULL ELSE store[s]
    BY <1>3, <2>1, WriteStatusIs DEF MarkFull, Types
  <2> QED BY <1>0, <2>2, <2>3 DEF HeldInv, UNUSED, EMPTY, FULL
<1>4. CASE EraseNext
  <2>1. cur.sec \in Sector /\ EraseSector(cur.sec)
    BY <1>4 DEF EraseNext, OneInv, Taking
  <2> QED BY <1>0, <2>1, HeldErased
<1>5. CASE FormatNext
  <2>1. cur.sec \in Sector /\ store[cur.sec] = UNUSED /\ logs' = logs
    BY <1>5 DEF FormatNext, WriteSectorHdr, OneInv, Taking
  <2>2. \A s \in Sector : store'[s] = IF s = cur.sec THEN EMPTY ELSE store[s]
    BY <1>5, <2>1, WriteStatusIs DEF FormatNext, WriteSectorHdr, Types
  <2> QED BY <1>0, <2>1, <2>2 DEF HeldInv, UNUSED, EMPTY, FULL
<1>6. CASE UsingStatus
  <2>1. cur.sec \in Sector /\ store[cur.sec] = EMPTY /\ logs' = logs
    BY <1>6 DEF UsingStatus, OneInv, Taking, Formatted
  <2>2. \A s \in Sector : store'[s] = IF s = cur.sec THEN USING ELSE store[s]
    BY <1>6, <2>1, WriteStatusIs DEF UsingStatus, Types
  <2> QED BY <1>0, <2>1, <2>2 DEF HeldInv, UNUSED, EMPTY, USING, FULL
<1> QED BY <1>1, <1>2, <1>3, <1>4, <1>5, <1>6

-----------------------------------------------------------------------------
(* The order of the logs *)

\* The sectors from db->oldest_addr on.
LEMMA RankFacts ==
    ASSUME NEW b \in Sector, NEW s \in Sector
    PROVE  /\ Rank(b, s) \in 0 .. SecNum - 1 /\ Rank(b, b) = 0
           /\ \A t \in Sector : Rank(b, s) = Rank(b, t) => s = t
           /\ Rank(NextSec(s), s) = SecNum - 1
           /\ Rank(0, s) = s
BY SecAssumption DEF Rank, Sector, NextSec

\* When the oldest sector is given up the others move up by one.
LEMMA RankNext ==
    ASSUME NEW b \in Sector, NEW s \in Sector, NEW t \in Sector,
           Rank(NextSec(b), s) < Rank(NextSec(b), t), t # b
    PROVE  s # b /\ Rank(b, s) < Rank(b, t)
BY SecAssumption DEF Rank, Sector, NextSec

\* No sector behind the current one holds a log.
LEMMA NoneBehind ==
    ASSUME RingInv, HeldInv, pc \in Live, NEW t \in Sector, Rank(oldest, cur.sec) < Rank(oldest, t)
    PROVE  logs[t] = <<>>
<1>1. cur.sec \in Sector /\ (Young \/ Round)
  BY DEF RingInv
<1>2. ~Round
  <2>1. ASSUME Round PROVE FALSE
    <3>1. Rank(oldest, cur.sec) = SecNum - 1
      BY <1>1, <2>1, RankFacts DEF Round
    <3>2. Rank(oldest, t) \in 0 .. SecNum - 1
      BY <1>1, <2>1, NextSecType, RankFacts DEF Round
    <3> QED BY <3>1, <3>2, SecAssumption
  <2> QED BY <2>1
<1>3. Young /\ t > cur.sec
  BY <1>1, <1>2, RankFacts DEF Young
<1> QED BY <1>3 DEF Young, HeldInv

LEMMA OrderInit == Init => OrderInv
<1> SUFFICES ASSUME Init PROVE OrderInv
  OBVIOUS
<1>1. pc = "off" /\ \A s \in Sector : DOMAIN logs[s] = {}
  BY DEF Init
<1> QED BY <1>1 DEF OrderInv, Closing, Logging

\* The steps of an append whose timestamp was found good.
Accepted == Closing \cup Logging \cup {"erase", "format", "using"}

\* Nothing is written but statuses that are raised, or logs are erased.
LEMMA OrderThinner ==
    ASSUME OneInv, OrderInv, oldest' = oldest, last' = last,
           \A s \in Sector : \A i \in DOMAIN logs'[s] :
              /\ i \in DOMAIN logs[s] /\ logs'[s][i].time = logs[s][i].time
              /\ Complete(logs[s][i]) => Complete(logs'[s][i]),
           \/ pc' # "erase" /\ (pc = "erase" => DOMAIN logs'[cur.sec] = {})
           \/ pc' = "erase" /\ pc = "erase" /\ cur'.sec = cur.sec,
           pc = "commit" => /\ pc' = pc /\ cur'.sec = cur.sec
                            /\ \A s \in Sector : Len(logs'[s]) = Len(logs[s]),
           pc' \in Accepted => op'.time > last
    PROVE  OrderInv'
<1>1. \A s \in Sector : \A i, j \in DOMAIN logs'[s] : i < j => logs'[s][i].time < logs'[s][j].time
  BY DEF OrderInv
<1>2. ASSUME NEW s \in Sector, NEW t \in Sector, Rank(oldest, s) < Rank(oldest, t),
             ~(pc' = "erase" /\ t = cur'.sec), NEW i \in DOMAIN logs'[s], NEW j \in DOMAIN logs'[t]
      PROVE  logs'[s][i].time < logs'[t][j].time
  <2>1. ~(pc = "erase" /\ t = cur.sec)
    BY <1>2
  <2>2. logs[s][i].time < logs[t][j].time
    BY <1>2, <2>1 DEF OrderInv
  <2> QED BY <2>2
<1>3. ASSUME pc' = "erase", NEW s \in Sector, s # cur'.sec,
             NEW i \in DOMAIN logs'[cur'.sec], NEW j \in DOMAIN logs'[s]
      PROVE  logs'[cur'.sec][i].time < logs'[s][j].time
  <2>1. pc = "erase" /\ cur'.sec = cur.sec /\ cur.sec \in Sector
    BY <1>3 DEF OneInv, Taking
  <2>2. i \in DOMAIN logs[cur.sec] /\ j \in DOMAIN logs[s] /\ s # cur.sec
    BY <1>3, <2>1
  <2>3. logs[cur.sec][i].time < logs[s][j].time
    BY <1>3, <2>1, <2>2 DEF OrderInv
  <2> QED BY <1>3, <2>1, <2>2, <2>3
<1>4. \A s \in Sector : \A i \in DOMAIN logs'[s] :
        \/ Complete(logs'[s][i]) /\ logs'[s][i].time <= last'
        \/ pc' = "commit" /\ s = cur'.sec /\ i = Len(logs'[s])
  BY DEF OrderInv
<1>5. pc' \in Closing \cup Logging \cup {"erase", "format", "using"} => op'.time > last'
  BY DEF Accepted
<1> QED BY <1>1, <1>2, <1>3, <1>4, <1>5 DEF OrderInv, Rank

\* Nothing happens to the logs.
LEMMA OrderQuiet ==
    ASSUME OneInv, OrderInv, UNCHANGED <<logs, oldest, last>>,
           pc # "commit" \/ (pc' = pc /\ cur' = cur),
           \/ pc' # "erase" /\ pc # "erase"
           \/ pc' = pc /\ cur' = cur,
           pc' \in Accepted => op'.time > last
    PROVE  OrderInv'
BY OrderThinner

LEMMA OrderEmpty ==
    ASSUME \A s \in Sector : logs'[s] = <<>>, pc' \notin Accepted
    PROVE  OrderInv'
BY DEF OrderInv, Accepted

\* What fdb_tsdb_init reads is what db->cur_sec and db->last_time were.
LEMMA BootFinds ==
    ASSUME Types, RingInv, OrderInv, CurInv, EndsInv, pc = "down", Boot
    PROVE  /\ UNCHANGED <<store, logs, ends, oldest, last>> /\ pc' = "idle"
           /\ cur'.sec = cur.sec /\ cur'.status = cur.status /\ cur.sec \in Sector
           /\ cur'.st = <<TSL_UNUSED, TSL_UNUSED>>
           /\ cur.status = EMPTY => cur'.n = 0
           /\ cur.status = USING => /\ cur'.n = Len(logs[cur.sec])
                                    /\ cur'.end = <<cur.sec, cur'.n - 1>>
           /\ cur.status \in {EMPTY, USING}
<1> DEFINE s == cur.sec
<1>1. /\ ~Failed /\ magic[s] /\ s \in Sector /\ store[s] = cur.status
      /\ BootSec = s /\ NextSec(Latest) = oldest
      /\ \/ cur.status = USING
         \/ cur.status = EMPTY /\ NextSec(Latest) = BootSec
  BY DownFound
<1>2. BootSec # NoSec
  BY <1>1, SectorFacts
<1>3. PICK g \in Garbage : cur' = ReadAll(Leftover(s, g), s)
  BY <1>1, <1>2 DEF Boot
<1>4. ends[s] = NoEnds
  BY <1>1, WriteStatusIs DEF EndsInv
<1> DEFINE h == ReadHdr(Leftover(s, g), s)
<1>5. /\ DOMAIN h = Fields /\ h.sec = s /\ h.status = store[s]
      /\ h.st = <<TSL_UNUSED, TSL_UNUSED>> /\ h.n = 0
  <2>1. DOMAIN Leftover(s, g) = Fields
    BY <1>1, LeftoverIs
  <2>2. h.st = <<TSL_UNUSED, TSL_UNUSED>> /\ h.n = 0
    BY <1>1, <1>4 DEF ReadHdr, NoEnds, NoEnd
  <2> QED BY <1>1, <2>1, <2>2, ReadHdrIs
<1>6. CASE store[s] = EMPTY
  <2>1. cur' = h
    BY <1>1, <1>3, <1>6, WriteStatusIs DEF ReadAll
  <2>2. last' = last /\ UNCHANGED <<store, logs, ends, oldest>> /\ pc' = "idle"
    BY <1>1, <1>2, <1>6, WriteStatusIs DEF Boot, BootLast, flash
  <2> HIDE DEF h
  <2> QED BY <1>1, <1>5, <1>6, <2>1, <2>2, WriteStatusIs
<1>7. CASE store[s] = USING
  <2>1. cur' = [h EXCEPT !.n = Len(logs[s]), !.room = Room(s),
                   !.endTime = IF Timed(s) = {} THEN @ ELSE TslTime(logs[s][Max(Timed(s))]),
                   !.end = IF logs[s] = <<>> THEN @ ELSE <<s, Len(logs[s]) - 1>>]
    BY <1>1, <1>3, <1>7 DEF ReadAll
  <2>2. logs[s] # <<>> /\ Newest(s).time = last
    BY <1>1, <1>7 DEF CurInv, Rest
  <2>3. \A i \in DOMAIN logs[s] : Complete(logs[s][i])
    BY <1>1 DEF OrderInv
  <2>4. Timed(s) = 1 .. Len(logs[s]) /\ Len(logs[s]) \in Timed(s) /\ Len(logs[s]) \in Nat
    BY <1>1, <2>2, <2>3, LogFacts DEF Timed
  <2>5. Max(Timed(s)) = Len(logs[s])
    <3>1. /\ Timed(s) \in SUBSET Int
          /\ \A n \in Timed(s) : n <= Len(logs[s])
      BY <2>4
    <3> QED BY <2>4, <3>1, MaxIs
  <2>6. TslTime(logs[s][Max(Timed(s))]) = last
    BY <2>2, <2>3, <2>4, <2>5 DEF TslTime, Newest, Timed
  <2> HIDE DEF h
  <2>7. /\ cur'.sec = h.sec /\ cur'.status = h.status /\ cur'.st = h.st /\ cur'.n = Len(logs[s])
        /\ cur'.endTime = last /\ cur'.end = <<s, Len(logs[s]) - 1>>
    BY <1>5, <2>1, <2>2, <2>4, <2>6 DEF Fields
  <2>8. last' = last /\ UNCHANGED <<store, logs, ends, oldest>> /\ pc' = "idle"
    BY <1>1, <1>2, <1>7, <2>7, WriteStatusIs DEF Boot, BootLast, flash
  <2> QED BY <1>1, <1>5, <1>7, <2>7, <2>8, WriteStatusIs
<1> QED BY <1>1, <1>6, <1>7

LEMMA OrderBoot ==
    ASSUME Types, OneInv, RingInv, HeldInv, OrderInv, CurInv, EndsInv, BootFailed \/ Boot \/ BootHang
    PROVE  OrderInv'
<1>1. CASE pc = "off"
  <2>1. logs' = logs /\ \A s \in Sector : logs[s] = <<>>
    BY <1>1 DEF HeldInv, BootFailed, Boot, BootHang, flash
  <2>2. pc' \notin Accepted
    BY DEF BootFailed, Boot, BootHang, Accepted, Closing, Logging
  <2> QED BY <2>1, <2>2, OrderEmpty
<1>2. CASE pc = "down"
  <2>1. CASE Boot
    <3>1. UNCHANGED <<logs, oldest, last>> /\ pc' = "idle"
      BY <1>2, <2>1, BootFinds
    <3> QED BY <1>2, <3>1, OrderQuiet DEF Accepted, Closing, Logging
  <2>2. CASE BootHang
    <3>1. UNCHANGED <<logs, oldest, last>> /\ pc' = "hung"
      BY <2>2 DEF BootHang, flash, ram
    <3> QED BY <1>2, <3>1, OrderQuiet DEF Accepted, Closing, Logging
  <2>3. ~BootFailed
    BY <1>2, DownFound DEF BootFailed
  <2> QED BY <2>1, <2>2, <2>3
<1> QED BY <1>1, <1>2 DEF BootFailed, Boot, BootHang

LEMMA OrderFormat ==
    ASSUME Types, OneInv, HeldInv, OrderInv, FormatAll
    PROVE  OrderInv'
<1>1. pc \in {"fmtErase", "fmtHdr", "fmtDone"} /\ pc' \in {"hung", "fmtErase", "fmtHdr", "fmtDone", "idle"}
  BY DEF FormatAll, FmtErase, FmtHdr, FmtDone
<1>2. pc' \notin Accepted /\ pc' # "erase"
  BY <1>1 DEF Accepted, Closing, Logging
<1>3. CASE FmtDone
  <2>1. \A s \in Sector : logs[s] = <<>>
    BY <1>3 DEF FmtDone, OneInv, Formatting, Formatted, HeldInv
  <2> QED BY <1>2, <1>3, <2>1, OrderEmpty DEF FmtDone, flash
<1>4. CASE FmtHdr \/ (FmtErase /\ NoValidEnd(fmt))
  <2>1. UNCHANGED <<logs, oldest, last>>
    BY <1>4 DEF FmtHdr, FmtErase, WriteSectorHdr, flash, ram
  <2> QED BY <1>1, <1>2, <2>1, OrderQuiet
<1>5. CASE FmtErase /\ ~NoValidEnd(fmt)
  <2>1. UNCHANGED <<oldest, last>>
    BY <1>5 DEF FmtErase, ram
  <2>2. \A s \in Sector : logs'[s] = logs[s] \/ DOMAIN logs'[s] = {}
    BY <1>5 DEF FmtErase, EraseSector, Types
  <2> QED BY <1>1, <1>2, <2>1, <2>2, OrderThinner
<1> QED BY <1>3, <1>4, <1>5 DEF FormatAll

LEMMA OrderCall ==
    ASSUME Types, OneInv, OrderInv,
           \/ \E len \in Lens, t \in Time : AppendTsl(len, t)
           \/ Clean \/ SetRollover \/ Deinit \/ Hang \/ Refuse \/ Mark
    PROVE  OrderInv'
<1>1. CASE \E len \in Lens, t \in Time : AppendTsl(len, t)
  <2>1. PICK len \in Lens, t \in Time : AppendTsl(len, t)
    BY <1>1
  <2>2. pc = "idle" /\ UNCHANGED <<logs, oldest, last>> /\ op'.time = t
    BY <2>1 DEF AppendTsl, flash, ram
  <2>3. pc' = "refuse" \/ (t > last /\ pc' # "erase")
    BY <2>1 DEF AppendTsl, InOrder
  <2> QED BY <2>2, <2>3, OrderQuiet DEF Accepted, Closing, Logging
<1>2. CASE Clean \/ Deinit \/ Refuse
  <2>1. /\ UNCHANGED <<logs, oldest, last>> /\ pc \in {"idle", "refuse"}
        /\ pc' \in {"fmtErase", "down", "idle"}
    BY <1>2 DEF Clean, Deinit, Refuse, Return, flash, ram
  <2> QED BY <2>1, OrderQuiet DEF Accepted, Closing, Logging
<1>3. CASE SetRollover \/ Hang
  <2>1. UNCHANGED <<logs, oldest, last, pc, cur>> /\ pc \in {"idle", "hung"}
    BY <1>3 DEF SetRollover, Hang, flash, ram, vars
  <2> QED BY <2>1, OrderQuiet DEF Accepted, Closing, Logging
<1>4. CASE Mark
  <2>1. UNCHANGED <<oldest, last, pc, cur, op>>
    BY <1>4 DEF Mark, SetStatus, ram
  <2>2. SameTimes /\ \A t \in Sector : \A i \in DOMAIN logs[t] :
           Complete(logs[t][i]) => Complete(logs'[t][i])
    BY <1>4, MarkIs
  <2>3. pc' \in Accepted => op'.time > last
    BY <2>1 DEF OrderInv, Accepted
  <2>4. \/ pc' # "erase" /\ pc # "erase"
        \/ pc' = "erase" /\ pc = "erase" /\ cur'.sec = cur.sec
    BY <2>1
  <2>5. pc = "commit" => /\ pc' = pc /\ cur'.sec = cur.sec
                         /\ \A s \in Sector : Len(logs'[s]) = Len(logs[s])
    BY <2>1, <2>2 DEF SameTimes
  <2>6. \A s \in Sector : \A i \in DOMAIN logs'[s] :
              /\ i \in DOMAIN logs[s] /\ logs'[s][i].time = logs[s][i].time
              /\ Complete(logs[s][i]) => Complete(logs'[s][i])
    BY <2>2 DEF SameTimes
  <2> QED BY <2>1, <2>3, <2>4, <2>5, <2>6, OrderThinner
<1> QED BY <1>1, <1>2, <1>3, <1>4

LEMMA OrderPreWrite ==
    ASSUME Types, OneInv, RingInv, HeldInv, OrderInv, PreWrite
    PROVE  OrderInv'
<1> DEFINE c == cur.sec
           k == Len(logs[c]) + 1
<1>1. /\ c \in Sector
      /\ \A t \in Sector : t # c => logs'[t] = logs[t]
      /\ Len(logs'[c]) = k /\ DOMAIN logs'[c] = 1 .. k
      /\ \A i \in DOMAIN logs[c] : logs'[c][i] = logs[c][i]
      /\ logs'[c][k].time = op.time /\ op.time \in Time
  BY PreWriteIs
<1>2. /\ UNCHANGED <<oldest, last, op, cur>> /\ pc = "preWrite" /\ pc' = "commit"
      /\ last \in Int /\ op.time > last
  BY DEF PreWrite, ram, OrderInv, Logging, Types
<1>3. op.time \in Int /\ Len(logs[c]) \in Nat
  BY <1>1, LogFacts, TimeInt
<1>4. \A s \in Sector : \A i \in DOMAIN logs[s] :
        /\ Complete(logs[s][i]) /\ logs[s][i].time <= last
        /\ logs[s][i].time \in Int /\ logs[s][i].time < op.time
  BY <1>2, <1>3, LogFacts DEF OrderInv
<1>5. \A i \in DOMAIN logs'[c] : i = k \/ i \in DOMAIN logs[c]
  BY <1>1, <1>3, LogFacts
<1>6. \A s \in Sector : \A i, j \in DOMAIN logs'[s] : i < j => logs'[s][i].time < logs'[s][j].time
  <2>1. ASSUME NEW i \in DOMAIN logs'[c], NEW j \in DOMAIN logs'[c], i < j
        PROVE  logs'[c][i].time < logs'[c][j].time
    <3>1. i \in DOMAIN logs[c]
      BY <1>1, <1>3, <1>5, <2>1
    <3>2. CASE j = k
      BY <1>1, <1>4, <3>1, <3>2
    <3>3. CASE j \in DOMAIN logs[c]
      BY <1>1, <2>1, <3>1, <3>3 DEF OrderInv
    <3> QED BY <1>5, <3>2, <3>3
  <2> HIDE DEF k
  <2> QED BY <1>1, <2>1 DEF OrderInv
<1>7. ASSUME NEW s \in Sector, NEW t \in Sector, Rank(oldest, s) < Rank(oldest, t),
             NEW i \in DOMAIN logs'[s], NEW j \in DOMAIN logs'[t]
      PROVE  logs'[s][i].time < logs'[t][j].time
  <2>1. s # t
    <3>1. oldest \in Sector
      BY <1>1, <1>2, NextSecType, SectorFacts DEF RingInv, Live, Logging, Young, Round
    <3>2. Rank(oldest, s) \in 0 .. SecNum - 1
      BY <3>1, RankFacts
    <3> QED BY <1>7, <3>2, SecAssumption
  <2>2. s # c
    <3>1. ASSUME s = c PROVE FALSE
      <4>1. logs[t] = <<>>
        BY <1>2, <1>7, <3>1, NoneBehind DEF Live, Logging
      <4>2. DOMAIN logs'[t] = {}
        BY <1>1, <2>1, <3>1, <4>1
      <4> QED BY <1>7, <4>2
    <3> QED BY <3>1
  <2>3. logs'[s] = logs[s] /\ i \in DOMAIN logs[s]
    BY <1>1, <1>7, <2>2
  <2>4. CASE t = c /\ j = k
    BY <1>1, <1>4, <2>3, <2>4
  <2>5. CASE j \in DOMAIN logs[t]
    <3>1. logs[s][i].time < logs[t][j].time
      BY <1>2, <1>7, <2>3, <2>5 DEF OrderInv
    <3>2. logs'[t][j] = logs[t][j]
      BY <1>1, <2>5
    <3> QED BY <2>3, <3>1, <3>2
  <2> HIDE DEF k
  <2> QED BY <1>1, <1>5, <1>7, <2>4, <2>5
<1>8. ASSUME NEW s \in Sector, NEW i \in DOMAIN logs'[s]
      PROVE  \/ Complete(logs'[s][i]) /\ logs'[s][i].time <= last
             \/ s = c /\ i = Len(logs'[s])
  <2>1. CASE s = c /\ i = k
    BY <1>1, <2>1
  <2>2. CASE i \in DOMAIN logs[s] /\ logs'[s][i] = logs[s][i]
    BY <1>4, <2>2
  <2> HIDE DEF k
  <2> QED BY <1>1, <1>5, <1>8, <2>1, <2>2
<1> HIDE DEF k
<1> QED BY <1>2, <1>6, <1>7, <1>8 DEF OrderInv, Rank

LEMMA OrderCommit ==
    ASSUME Types, OneInv, OrderInv, CurInv, Commit
    PROVE  OrderInv'
<1>1. /\ SameTimes /\ cur.sec \in Sector
      /\ cur.n \in Nat /\ Len(logs[cur.sec]) = cur.n + 1
      /\ Newest(cur.sec).time = op.time /\ op.time \in Time
      /\ logs'[cur.sec][cur.n + 1].st = TSL_WRITE
      /\ \A t \in Sector : \A i \in DOMAIN logs[t] :
           t # cur.sec \/ i # cur.n + 1 => logs'[t][i] = logs[t][i]
  BY CommitIs
<1>2. /\ oldest' = oldest /\ last' = op.time /\ pc = "commit" /\ pc' = "idle"
      /\ last \in Int /\ op.time > last
  BY DEF Commit, Return, OrderInv, Logging, Types
<1>3. op.time \in Int
  BY <1>1, TimeInt
<1>4. ASSUME NEW s \in Sector, NEW i \in DOMAIN logs'[s]
      PROVE  Complete(logs'[s][i]) /\ logs'[s][i].time <= last'
  <2>1. i \in DOMAIN logs[s] /\ logs'[s][i].time = logs[s][i].time /\ logs[s][i].time \in Int
    BY <1>1, <1>4, LogFacts DEF SameTimes
  <2>2. CASE s = cur.sec /\ i = cur.n + 1
    BY <1>1, <1>2, <1>3, <2>1, <2>2 DEF Newest, Complete, TSL_WRITE
  <2>3. CASE ~(s = cur.sec /\ i = cur.n + 1)
    <3>1. Complete(logs[s][i]) /\ logs[s][i].time <= last /\ logs'[s][i] = logs[s][i]
      BY <1>1, <2>1, <2>3 DEF OrderInv
    <3> QED BY <1>2, <1>3, <2>1, <3>1
  <2> QED BY <2>2, <2>3
<1>5. \A s \in Sector : \A i, j \in DOMAIN logs'[s] : i < j => logs'[s][i].time < logs'[s][j].time
  BY <1>1 DEF SameTimes, OrderInv
<1>6. ASSUME NEW s \in Sector, NEW t \in Sector, Rank(oldest, s) < Rank(oldest, t),
             NEW i \in DOMAIN logs'[s], NEW j \in DOMAIN logs'[t]
      PROVE  logs'[s][i].time < logs'[t][j].time
  <2>1. logs[s][i].time < logs[t][j].time
    BY <1>1, <1>2, <1>6 DEF SameTimes, OrderInv
  <2> QED BY <1>1, <1>6, <2>1 DEF SameTimes
<1>7. pc' \notin Accepted
  BY <1>2 DEF Accepted, Closing, Logging
<1> QED BY <1>2, <1>4, <1>5, <1>6, <1>7 DEF OrderInv, Rank, Accepted

LEMMA OrderMarkFull ==
    ASSUME Types, OneInv, RingInv, OrderInv, MarkFull
    PROVE  OrderInv'
<1> DEFINE next == NextSec(cur.sec)
<1>1. cur.sec \in Sector /\ (Young \/ Round) /\ pc = "full" /\ op.time > last
  BY DEF MarkFull, RingInv, Live, Closing, OrderInv
<1>2. next \in Sector /\ next # cur.sec
  BY <1>1, NextSecType
<1>3. logs' = logs /\ last' = last
  BY DEF MarkFull
<1>4. CASE pc' # "erase"
  <2>1. oldest' = oldest /\ (pc' = "idle" \/ op' = op)
    BY <1>1, <1>4 DEF MarkFull, Return
  <2> QED BY <1>1, <1>3, <1>4, <2>1, OrderQuiet DEF Accepted, Closing, Logging
<1>5. CASE pc' = "erase"
  <2>1. /\ op' = op /\ oldest' = NextSec(next)
        /\ cur' = ReadHdr([cur EXCEPT !.status = FULL], next) /\ cur'.status # EMPTY
    BY <1>5 DEF MarkFull, Return, AfterNew
  <2>2. cur'.sec = next /\ store[next] # EMPTY
    <3>1. DOMAIN [cur EXCEPT !.status = FULL] = Fields /\ magic[next]
      BY <1>1, <1>2 DEF OneInv, HdrType, RingInv, Live, Closing
    <3> QED BY <1>2, <2>1, <3>1, ReadHdrIs
  <2>3. oldest = next
    <3>1. CASE Young
      <4>1. ~(next > cur.sec)
        BY <1>2, <2>2, <3>1 DEF Young
      <4>2. cur.sec = SecNum - 1
        BY <1>1, <4>1, LastSector
      <4> QED BY <3>1, <4>2, LastSector DEF Young
    <3> QED BY <1>1, <3>1 DEF Round
  <2>4. ASSUME NEW s \in Sector, NEW t \in Sector, Rank(oldest', s) < Rank(oldest', t), t # next,
               NEW i \in DOMAIN logs[s], NEW j \in DOMAIN logs[t]
        PROVE  logs[s][i].time < logs[t][j].time
    <3>1. Rank(oldest, s) < Rank(oldest, t)
      BY <1>2, <2>1, <2>3, <2>4, RankNext
    <3> QED BY <1>1, <2>4, <3>1 DEF OrderInv
  <2>5. ASSUME NEW s \in Sector, s # next, NEW i \in DOMAIN logs[next], NEW j \in DOMAIN logs[s]
        PROVE  logs[next][i].time < logs[s][j].time
    <3>1. Rank(oldest, next) = 0 /\ Rank(oldest, s) \in 0 .. SecNum - 1 /\ Rank(oldest, s) # 0
      <4>1. Rank(next, s) = Rank(next, next) => s = next
        BY <1>2, RankFacts
      <4> QED BY <1>2, <2>3, <2>5, <4>1, RankFacts
    <3>2. Rank(oldest, next) < Rank(oldest, s)
      BY <3>1, SecAssumption
    <3> QED BY <1>1, <1>2, <2>5, <3>2 DEF OrderInv
  <2>6. \A s \in Sector : \A i \in DOMAIN logs[s] : Complete(logs[s][i]) /\ logs[s][i].time <= last
    BY <1>1 DEF OrderInv
  <2>7. \A s \in Sector : \A i, j \in DOMAIN logs[s] : i < j => logs[s][i].time < logs[s][j].time
    BY DEF OrderInv
  <2> HIDE DEF next
  <2> QED BY <1>1, <1>3, <1>5, <2>1, <2>2, <2>4, <2>5, <2>6, <2>7 DEF OrderInv, Rank
<1> QED BY <1>4, <1>5

LEMMA OrderTake ==
    ASSUME Types, OneInv, OrderInv,
           EndStatus \/ EndWrite \/ EndSkip \/ EraseNext \/ FormatNext \/ UsingStatus \/ WriteStart
    PROVE  OrderInv'
<1>1. UNCHANGED <<oldest, last, op>> /\ op.time > last
      /\ pc # "commit" /\ pc' # "erase"
  BY DEF EndStatus, EndWrite, EndSkip, EraseNext, FormatNext, UsingStatus, WriteStart, ram,
         OrderInv, Closing, Logging
<1>2. CASE EraseNext
  <2>1. cur.sec \in Sector
    BY <1>2 DEF EraseNext, OneInv, Taking
  <2>2. \A s \in Sector : logs'[s] = logs[s] \/ DOMAIN logs'[s] = {}
    BY <1>2 DEF EraseNext, EraseSector, Types
  <2>3. DOMAIN logs'[cur.sec] = {}
    BY <1>2, <2>1 DEF EraseNext, EraseSector, Types
  <2> QED BY <1>1, <2>2, <2>3, OrderThinner
<1>3. CASE EndStatus \/ EndWrite \/ EndSkip \/ FormatNext \/ UsingStatus \/ WriteStart
  <2>1. logs' = logs /\ pc # "erase"
    BY <1>3 DEF EndStatus, EndWrite, EndSkip, FormatNext, WriteSectorHdr, UsingStatus, WriteStart,
                flash
  <2> QED BY <1>1, <2>1, OrderQuiet
<1> QED BY <1>2, <1>3

-----------------------------------------------------------------------------
(* db->cur_sec *)

\* Outside an append and between two calls nothing is said of db->cur_sec.
LEMMA CurOutside ==
    ASSUME pc' \notin Rest \cup Closing \cup Logging \cup {"using"}
    PROVE  CurInv'
BY DEF CurInv, Rest, Closing, Logging

LEMMA CurInit == Init => CurInv
<1> SUFFICES ASSUME Init PROVE CurInv
  OBVIOUS
<1>1. pc = "off"
  BY DEF Init
<1> QED BY <1>1 DEF CurInv, Rest, Closing, Logging

\* The logs are raised at most, and db->cur_sec stays.
LEMMA CurQuiet ==
    ASSUME Types, RingInv, CurInv, SameTimes, UNCHANGED <<cur, last>>,
           \A s \in Sector : \A i \in DOMAIN logs[s] :
              ~Complete(logs[s][i]) => logs'[s][i] = logs[s][i],
           \/ pc' = pc /\ op' = op
           \/ pc \in Rest /\ pc' \in Rest
           \/ pc \in Closing /\ pc' \in Closing
           \/ pc \in Rest /\ cur.status = USING /\ pc' \in {"end", "preWrite"}
           \/ pc \in Rest /\ cur.status = EMPTY /\ pc' = "using"
           \/ pc = "startTime" /\ pc' = "preWrite"
    PROVE  CurInv'
<1>1. CASE pc \notin Live
  <2>1. pc' \notin Rest \cup Closing \cup Logging \cup {"using"}
    BY <1>1 DEF Live, Rest, Closing, Logging
  <2> QED BY <2>1, CurOutside
<1>2. CASE pc \in Live
  <2>1. cur.sec \in Sector /\ cur'.sec = cur.sec /\ cur' = cur /\ last' = last
    BY <1>2 DEF RingInv
  <2>2. /\ Len(logs'[cur.sec]) = Len(logs[cur.sec]) /\ Len(logs[cur.sec]) \in Nat
        /\ DOMAIN logs[cur.sec] = 1 .. Len(logs[cur.sec])
        /\ logs[cur.sec] # <<>> => logs'[cur.sec] # <<>>
    <3>1. DOMAIN logs'[cur.sec] = DOMAIN logs[cur.sec] /\ DOMAIN <<>> = {}
      BY <2>1 DEF SameTimes
    <3>2. Len(logs[cur.sec]) \in Nat /\ DOMAIN logs[cur.sec] = 1 .. Len(logs[cur.sec])
          /\ (logs[cur.sec] = <<>> <=> Len(logs[cur.sec]) = 0)
      BY <2>1, LogFacts
    <3>3. logs[cur.sec] # <<>> => 1 \in DOMAIN logs[cur.sec]
      BY <3>2
    <3> QED BY <2>1, <3>1, <3>2, <3>3 DEF SameTimes
  <2>3. Len(logs[cur.sec]) > 0 => (Newest(cur.sec))'.time = Newest(cur.sec).time
    BY <2>1, <2>2 DEF SameTimes, Newest
  <2>4. logs[cur.sec] # <<>> => Len(logs[cur.sec]) > 0
    BY <2>1, LogFacts
  <2>5. pc' \in Rest \cup Closing => pc \in Rest \cup Closing
    BY DEF Rest, Closing, Logging
  <2>6. pc' \in Rest \cup Closing /\ cur'.status \in {USING, FULL} =>
           logs'[cur'.sec] # <<>> /\ (Newest(cur.sec))'.time = last'
    BY <2>1, <2>2, <2>3, <2>4, <2>5 DEF CurInv, Newest
  <2>7. pc' \in Rest /\ cur'.status = EMPTY => last' = 0
    BY <2>1 DEF CurInv, Rest, Closing
  <2>8. \/ pc' \in Rest /\ cur'.status \in {EMPTY, USING}
        \/ pc' \in Closing \cup Logging \cup {"using"}
        => cur'.st = <<TSL_UNUSED, TSL_UNUSED>>
    BY <2>1 DEF CurInv, Rest, Closing, Logging
  <2>9. pc' = "commit" => /\ Len(logs'[cur'.sec]) = cur'.n + 1
                          /\ (Newest(cur.sec))'.st = TSL_PRE_WRITE /\ (Newest(cur.sec))'.time = op'.time
    <3>1. SUFFICES ASSUME pc' = "commit"
                   PROVE  /\ Len(logs'[cur'.sec]) = cur'.n + 1
                          /\ (Newest(cur.sec))'.st = TSL_PRE_WRITE /\ (Newest(cur.sec))'.time = op'.time
      OBVIOUS
    <3>2. pc = "commit" /\ op' = op
      BY <3>1 DEF Rest, Closing, Logging
    <3>3. /\ Len(logs[cur.sec]) = cur.n + 1 /\ cur.n \in Nat
          /\ Newest(cur.sec).st = TSL_PRE_WRITE /\ Newest(cur.sec).time = op.time
      BY <3>2 DEF CurInv, Types, CurType
    <3>4. Len(logs[cur.sec]) \in DOMAIN logs[cur.sec] /\ ~Complete(Newest(cur.sec))
      BY <2>2, <3>3 DEF Complete, TSL_PRE_WRITE, TSL_WRITE
    <3>5. (Newest(cur.sec))' = Newest(cur.sec)
      BY <2>1, <2>2, <3>4 DEF Newest
    <3> QED BY <2>1, <2>2, <3>2, <3>3, <3>5
  <2>10. \/ pc' \in Rest /\ cur'.status = USING
         \/ pc' \in Closing \cup {"startTime", "preWrite"}
         => Len(logs'[cur'.sec]) = cur'.n /\ (cur'.n > 0 => cur'.end = <<cur'.sec, cur'.n - 1>>)
    <3>1. \/ pc' \in Rest /\ cur'.status = USING
          \/ pc' \in Closing \cup {"startTime", "preWrite"}
          => \/ pc \in Rest /\ cur.status = USING
             \/ pc \in Closing \cup {"startTime", "preWrite"}
      BY <2>1 DEF Rest, Closing
    <3> QED BY <2>1, <2>2, <3>1 DEF CurInv
  <2>11. pc' = "using" \/ (pc' \in Rest /\ cur'.status = EMPTY) => cur'.n = 0
    <3>1. pc' = "using" \/ (pc' \in Rest /\ cur'.status = EMPTY) =>
            pc = "using" \/ (pc \in Rest /\ cur.status = EMPTY)
      BY <2>1 DEF Rest, Closing
    <3> QED BY <2>1, <3>1 DEF CurInv
  <2> QED BY <2>6, <2>7, <2>8, <2>9, <2>10, <2>11 DEF CurInv
<1> QED BY <1>1, <1>2

LEMMA CurBoot ==
    ASSUME Types, OneInv, RingInv, OrderInv, CurInv, EndsInv, BootFailed \/ Boot \/ BootHang
    PROVE  CurInv'
<1>1. CASE BootFailed \/ BootHang
  <2>1. pc' \in {"hung", "failed", "fmtErase"}
    BY <1>1 DEF BootFailed, BootHang
  <2> QED BY <2>1, CurOutside DEF Rest, Closing, Logging
<1>2. CASE Boot
  <2>1. pc = "down"
    <3>1. ASSUME pc = "off" PROVE FALSE
      <4>1. \A s \in Sector : BadSector(s)
        BY <3>1 DEF RingInv, BadSector
      <4> QED BY <1>2, <4>1, SectorFacts DEF Boot, Failed
    <3> QED BY <1>2, <3>1 DEF Boot
  <2>2. /\ UNCHANGED <<store, logs, ends, oldest, last>> /\ pc' = "idle"
        /\ cur'.sec = cur.sec /\ cur'.status = cur.status /\ cur.sec \in Sector
        /\ cur'.st = <<TSL_UNUSED, TSL_UNUSED>>
        /\ cur.status = EMPTY => cur'.n = 0
        /\ cur.status = USING => /\ cur'.n = Len(logs[cur.sec])
                                 /\ cur'.end = <<cur.sec, cur'.n - 1>>
        /\ cur.status \in {EMPTY, USING}
    BY <1>2, <2>1, BootFinds
  <2>3. cur.status = EMPTY => last = 0
    BY <2>1 DEF CurInv, Rest
  <2>4. cur.status = USING => logs[cur.sec] # <<>> /\ Newest(cur.sec).time = last
    BY <2>1 DEF CurInv, Rest
  <2> QED BY <2>2, <2>3, <2>4, WriteStatusIs DEF CurInv, Rest, Closing, Logging, Newest
<1> QED BY <1>1, <1>2

LEMMA CurFormat ==
    ASSUME Types, OneInv, EndsInv, FormatAll
    PROVE  CurInv'
<1>1. CASE FmtErase \/ FmtHdr
  <2>1. pc' \in {"hung", "fmtErase", "fmtHdr", "fmtDone"}
    BY <1>1 DEF FmtErase, FmtHdr
  <2> QED BY <2>1, CurOutside DEF Rest, Closing, Logging
<1>2. CASE FmtDone
  <2>1. magic[0] /\ store[0] = EMPTY /\ pc = "fmtDone"
    BY <1>2, SectorFacts DEF FmtDone, OneInv, Formatting, Formatted
  <2>2. ends[0] = NoEnds
    BY <2>1, SectorFacts, WriteStatusIs DEF EndsInv
  <2>3. cur' = ReadHdr(cur, 0) /\ last' = 0 /\ pc' = "idle"
    BY <1>2 DEF FmtDone
  <2>4. cur'.status = EMPTY /\ cur'.st = <<TSL_UNUSED, TSL_UNUSED>> /\ cur'.n = 0
    BY <2>1, <2>2, <2>3 DEF ReadHdr, NoEnds, NoEnd
  <2> QED BY <2>3, <2>4, WriteStatusIs DEF CurInv, Rest, Closing, Logging
<1> QED BY <1>1, <1>2 DEF FormatAll

LEMMA CurCall ==
    ASSUME Types, OneInv, RingInv, CurInv,
           \/ \E len \in Lens, t \in Time : AppendTsl(len, t)
           \/ Clean \/ SetRollover \/ Deinit \/ Hang \/ Refuse \/ Mark
           \/ EndStatus \/ EndWrite \/ EndSkip \/ WriteStart
    PROVE  CurInv'
<1>1. CASE Mark
  <2>1. SameTimes /\ \A t \in Sector : \A i \in DOMAIN logs[t] :
           ~Complete(logs[t][i]) => logs'[t][i] = logs[t][i]
    BY <1>1, MarkIs
  <2>2. UNCHANGED <<cur, last, pc, op>>
    BY <1>1 DEF Mark, SetStatus, ram
  <2> QED BY <2>1, <2>2, CurQuiet
<1>2. CASE Clean
  <2>1. pc' = "fmtErase"
    BY <1>2 DEF Clean
  <2> QED BY <2>1, CurOutside DEF Rest, Closing, Logging
<1>3. CASE (\E len \in Lens, t \in Time : AppendTsl(len, t)) \/ SetRollover \/ Deinit \/ Hang
           \/ Refuse \/ EndStatus \/ EndWrite \/ EndSkip \/ WriteStart
  <2>1. UNCHANGED <<logs, cur, last>>
    BY <1>3 DEF AppendTsl, SetRollover, Deinit, Hang, Refuse, EndStatus, EndWrite, EndSkip,
                WriteStart, flash, ram, vars
  <2>2. \/ pc' = pc /\ op' = op
        \/ pc \in Rest /\ pc' \in Rest
        \/ pc \in Closing /\ pc' \in Closing
        \/ pc \in Rest /\ cur.status = USING /\ pc' \in {"end", "preWrite"}
        \/ pc \in Rest /\ cur.status = EMPTY /\ pc' = "using"
        \/ pc = "startTime" /\ pc' = "preWrite"
    <3>1. CASE \E len \in Lens, t \in Time : AppendTsl(len, t)
      <4>1. pc = "idle" /\ cur.status \in {EMPTY, USING, FULL}
        BY <3>1 DEF AppendTsl, RingInv, Live, Rest, Current
      <4>2. \/ pc' = "refuse"
            \/ pc' = "end" /\ cur.status = USING
            \/ pc' = "using" /\ cur.status = EMPTY
            \/ pc' = "preWrite" /\ cur.status = USING
        BY <3>1, <4>1, WriteStatusIs DEF AppendTsl, NoRoom
      <4> QED BY <4>1, <4>2 DEF Rest
    <3>2. CASE SetRollover \/ Deinit \/ Hang \/ Refuse
      BY <3>2 DEF SetRollover, Deinit, Hang, Refuse, Return, Rest, vars
    <3>3. CASE EndStatus \/ EndWrite \/ EndSkip \/ WriteStart
      BY <3>3 DEF EndStatus, EndWrite, EndSkip, WriteStart, Closing
    <3> QED BY <1>3, <3>1, <3>2, <3>3
  <2>3. SameTimes
    BY <2>1, SameLogs
  <2> QED BY <2>1, <2>2, <2>3, CurQuiet
<1> QED BY <1>1, <1>2, <1>3

LEMMA CurPreWrite ==
    ASSUME Types, OneInv, RingInv, CurInv, PreWrite
    PROVE  CurInv'
<1>1. /\ cur.sec \in Sector
      /\ Len(logs'[cur.sec]) = Len(logs[cur.sec]) + 1
      /\ logs'[cur.sec][Len(logs[cur.sec]) + 1]
           = [st |-> TSL_PRE_WRITE, time |-> op.time, len |-> op.len]
  BY PreWriteIs
<1>2. pc = "preWrite" /\ pc' = "commit" /\ cur' = cur /\ op' = op
  BY DEF PreWrite, ram
<1>3. Len(logs[cur.sec]) = cur.n /\ cur.st = <<TSL_UNUSED, TSL_UNUSED>>
  BY <1>2 DEF CurInv, Logging
<1>4. (Newest(cur.sec))'.st = TSL_PRE_WRITE /\ (Newest(cur.sec))'.time = op.time
  BY <1>1, <1>2 DEF Newest
<1> QED BY <1>1, <1>2, <1>3, <1>4 DEF CurInv, Rest, Closing, Logging

LEMMA CurCommit ==
    ASSUME Types, OneInv, CurInv, Commit
    PROVE  CurInv'
<1>1. /\ SameTimes /\ cur.sec \in Sector
      /\ cur.n \in Nat /\ Len(logs[cur.sec]) = cur.n + 1
      /\ Newest(cur.sec).time = op.time
  BY CommitIs
<1>2. /\ pc = "commit" /\ pc' = "idle" /\ last' = op.time /\ cur' = Appended
      /\ cur.status = USING /\ cur.st = <<TSL_UNUSED, TSL_UNUSED>>
  BY DEF Commit, Return, OneInv, Appending, CurInv, Logging
<1>3. /\ cur'.sec = cur.sec /\ cur'.status = USING /\ cur'.st = <<TSL_UNUSED, TSL_UNUSED>>
      /\ cur'.n = cur.n + 1 /\ cur'.end = <<cur.sec, cur.n>>
  <2>1. DOMAIN cur = Fields
    BY DEF OneInv, HdrType
  <2> QED BY <1>2, <2>1 DEF Appended, Fields
<1>4. cur.n + 1 \in DOMAIN logs[cur.sec]
  BY <1>1, LogFacts
<1>5. /\ Len(logs'[cur.sec]) = cur.n + 1 /\ logs'[cur.sec] # <<>>
      /\ logs'[cur.sec][cur.n + 1].time = op.time
  <2>1. DOMAIN logs'[cur.sec] # {} /\ DOMAIN <<>> = {}
    BY <1>1, <1>4 DEF SameTimes
  <2>2. /\ Len(logs'[cur.sec]) = cur.n + 1
        /\ logs'[cur.sec][cur.n + 1].time = logs[cur.sec][cur.n + 1].time
    BY <1>1, <1>4 DEF SameTimes
  <2>3. logs[cur.sec][cur.n + 1].time = op.time
    BY <1>1 DEF Newest
  <2>4. logs'[cur.sec] # <<>>
    BY <2>1
  <2> QED BY <2>2, <2>3, <2>4
<1>6. (Newest(cur.sec))'.time = op.time
  BY <1>3, <1>5 DEF Newest
<1>7. cur.n = cur'.n - 1
  BY <1>1, <1>3
<1> QED BY <1>1, <1>2, <1>3, <1>5, <1>6, <1>7, WriteStatusIs DEF CurInv, Rest, Closing, Logging

LEMMA CurMarkFull ==
    ASSUME Types, OneInv, RingInv, CurInv, EndsInv, MarkFull
    PROVE  CurInv'
<1> DEFINE next == NextSec(cur.sec)
           read == ReadHdr([cur EXCEPT !.status = FULL], next)
<1>1. /\ pc = "full" /\ cur.sec \in Sector /\ cur.status = USING
      /\ \A s \in Sector : magic[s]
  BY DEF MarkFull, OneInv, Appending, RingInv, Live, Closing
<1>2. next \in Sector /\ DOMAIN [cur EXCEPT !.status = FULL] = Fields
  BY <1>1, NextSecType DEF OneInv, HdrType
<1>3. logs' = logs /\ last' = last
  BY DEF MarkFull
<1>4. CASE pc' = "idle"
  <2>1. cur' = [cur EXCEPT !.status = FULL]
    BY <1>1, <1>4 DEF MarkFull
  <2>2. cur'.sec = cur.sec /\ cur'.status = FULL
    BY <2>1 DEF OneInv, HdrType, Fields
  <2>3. logs[cur.sec] # <<>> /\ Newest(cur.sec).time = last
    BY <1>1 DEF CurInv, Closing
  <2> QED BY <1>3, <1>4, <2>2, <2>3, WriteStatusIs DEF CurInv, Rest, Closing, Logging, Newest
<1>5. CASE pc' = "using"
  <2>1. cur' = read /\ read.status = EMPTY
    BY <1>5 DEF MarkFull, Return
  <2>2. store[next] = EMPTY
    BY <1>1, <1>2, <2>1, ReadHdrIs
  <2>3. ends[next] = NoEnds
    BY <1>1, <1>2, <2>2, NextSecType, WriteStatusIs DEF EndsInv
  <2>4. read.st = <<TSL_UNUSED, TSL_UNUSED>> /\ read.n = 0
    BY <1>1, <1>2, <2>3 DEF ReadHdr, NoEnds, NoEnd
  <2> QED BY <1>5, <2>1, <2>4 DEF CurInv, Rest, Closing, Logging
<1>6. CASE pc' = "erase"
  BY <1>6, CurOutside DEF Rest, Closing, Logging
<1> QED BY <1>1, <1>4, <1>5, <1>6 DEF MarkFull, Return

LEMMA CurTake ==
    ASSUME Types, OneInv, HeldInv, CurInv, EraseNext \/ FormatNext \/ UsingStatus
    PROVE  CurInv'
<1>0. DOMAIN cur = Fields
  BY DEF OneInv, HdrType
<1>1. CASE EraseNext
  <2>1. pc' = "format"
    BY <1>1 DEF EraseNext
  <2> QED BY <2>1, CurOutside DEF Rest, Closing, Logging
<1>2. CASE FormatNext
  <2>1. pc' = "using" /\ cur'.n = 0 /\ cur'.st = <<TSL_UNUSED, TSL_UNUSED>>
    BY <1>0, <1>2 DEF FormatNext, Fields
  <2> QED BY <2>1 DEF CurInv, Rest, Closing, Logging
<1>3. CASE UsingStatus
  <2>1. /\ pc = "using" /\ pc' = "startTime" /\ logs' = logs /\ cur.sec \in Sector
        /\ cur'.n = cur.n /\ cur'.st = cur.st /\ cur'.sec = cur.sec /\ store[cur.sec] = EMPTY
    BY <1>0, <1>3 DEF UsingStatus, Fields, OneInv, Taking, Formatted
  <2>2. cur.n = 0 /\ cur.st = <<TSL_UNUSED, TSL_UNUSED>>
    BY <2>1 DEF CurInv
  <2>3. Len(logs[cur.sec]) = 0
    BY <2>1 DEF HeldInv
  <2> QED BY <2>1, <2>2, <2>3 DEF CurInv, Rest, Closing, Logging
<1> QED BY <1>1, <1>2, <1>3

-----------------------------------------------------------------------------
(* The end nodes *)

LEMMA EndsInit == Init => EndsInv
<1> SUFFICES ASSUME Init PROVE EndsInv
  OBVIOUS
<1>1. pc = "off" /\ \A s \in Sector : store[s] = UNUSED /\ ends[s] = NoEnds
  BY DEF Init
<1> QED BY <1>1, WriteStatusIs DEF EndsInv, UNUSED, FULL

\* The end nodes stay, and no sector becomes full.
LEMMA EndsQuiet ==
    ASSUME Types, OneInv, HeldInv, CurInv, EndsInv, ends' = ends,
           \A s \in Sector : store[s] = FULL \/ store'[s] = FULL =>
              /\ store[s] = store'[s] /\ Len(logs'[s]) = Len(logs[s])
              /\ \A i \in DOMAIN logs[s] : logs'[s][i].time = logs[s][i].time,
           \/ pc' = pc /\ cur' = cur /\ SameTimes
           \/ pc \notin {"endWrite", "full"} /\ pc' \notin {"endWrite", "full"}
    PROVE  EndsInv'
<1> SUFFICES ASSUME NEW s \in Sector
             PROVE  /\ store'[s] = FULL \/ (pc' = "full" /\ s = cur'.sec) => (EndOf(s))'
                    /\ store'[s] # FULL /\ ~(pc' \in {"endWrite", "full"} /\ s = cur'.sec)
                         => ends'[s] = NoEnds
  BY DEF EndsInv
<1>1. ASSUME logs[s] # <<>>, Len(logs'[s]) = Len(logs[s]),
             \A i \in DOMAIN logs[s] : logs'[s][i].time = logs[s][i].time, EndOf(s)
      PROVE  (EndOf(s))'
  <2>1. Len(logs[s]) \in DOMAIN logs[s]
    BY <1>1, LogFacts
  <2> QED BY <1>1, <2>1 DEF EndOf, Newest
<1>2. CASE store'[s] = FULL
  <2>1. EndOf(s) /\ logs[s] # <<>>
    BY <1>2 DEF EndsInv, HeldInv
  <2> QED BY <1>1, <1>2, <2>1
<1>3. CASE store'[s] # FULL /\ pc' = "full" /\ s = cur'.sec
  <2>1. pc' = pc /\ cur' = cur /\ SameTimes
    BY <1>3
  <2>2. EndOf(s) /\ logs[s] # <<>>
    BY <1>3, <2>1 DEF EndsInv, OneInv, Appending, CurInv, Closing
  <2> QED BY <1>1, <1>3, <2>1, <2>2 DEF SameTimes
<1>4. CASE store'[s] # FULL /\ ~(pc' \in {"endWrite", "full"} /\ s = cur'.sec)
  BY <1>4 DEF EndsInv
<1> QED BY <1>2, <1>3, <1>4

LEMMA EndsErased ==
    ASSUME Types, EndsInv, NEW s \in Sector, EraseSector(s),
           pc \notin {"endWrite", "full"}, pc' \notin {"endWrite", "full"}
    PROVE  EndsInv'
<1>1. \A t \in Sector : /\ ends'[t] = IF t = s THEN NoEnds ELSE ends[t]
                        /\ store'[t] = IF t = s THEN UNUSED ELSE store[t]
                        /\ t # s => logs'[t] = logs[t]
  BY DEF EraseSector, Types
<1> QED BY <1>1 DEF EndsInv, EndOf, Newest, UNUSED, FULL

LEMMA EndsFormat ==
    ASSUME Types, OneInv, HeldInv, CurInv, EndsInv, FormatAll
    PROVE  EndsInv'
<1>0. pc \notin {"endWrite", "full"} /\ pc' \notin {"endWrite", "full"}
  BY DEF FormatAll, FmtErase, FmtHdr, FmtDone
<1>1. CASE FmtErase /\ ~NoValidEnd(fmt)
  <2>1. fmt \in Sector /\ EraseSector(fmt)
    BY <1>1 DEF FmtErase, Types
  <2> QED BY <1>0, <2>1, EndsErased
<1>2. CASE FmtDone \/ (FmtErase /\ NoValidEnd(fmt))
  <2>1. UNCHANGED <<ends, store, logs>>
    BY <1>2 DEF FmtDone, FmtErase, flash
  <2> QED BY <1>0, <2>1, EndsQuiet
<1>3. CASE FmtHdr
  <2>1. fmt \in Sector /\ store[fmt] = UNUSED /\ UNCHANGED <<ends, logs>>
    BY <1>3 DEF FmtHdr, OneInv, Formatting, Types, WriteSectorHdr
  <2>2. \A t \in Sector : store'[t] = IF t = fmt THEN EMPTY ELSE store[t]
    BY <1>3, <2>1, WriteStatusIs DEF FmtHdr, WriteSectorHdr, Types
  <2>3. \A t \in Sector : store[t] = FULL \/ store'[t] = FULL => store[t] = store'[t]
    BY <2>1, <2>2 DEF UNUSED, EMPTY, FULL
  <2> QED BY <1>0, <2>1, <2>3, EndsQuiet
<1> QED BY <1>1, <1>2, <1>3 DEF FormatAll

LEMMA EndsCall ==
    ASSUME Types, OneInv, HeldInv, CurInv, EndsInv,
           \/ \E len \in Lens, t \in Time : AppendTsl(len, t)
           \/ Clean \/ SetRollover \/ Deinit \/ Hang \/ Refuse \/ Mark \/ WriteStart
           \/ BootFailed \/ Boot \/ BootHang
    PROVE  EndsInv'
<1>1. CASE Mark
  <2>1. UNCHANGED <<ends, store, pc, cur>>
    BY <1>1 DEF Mark, SetStatus, ram
  <2>2. SameTimes
    BY <1>1, MarkIs
  <2>3. \A s \in Sector : /\ Len(logs'[s]) = Len(logs[s])
                          /\ \A i \in DOMAIN logs[s] : logs'[s][i].time = logs[s][i].time
    BY <2>2 DEF SameTimes
  <2> QED BY <2>1, <2>2, <2>3, EndsQuiet
<1>2. CASE (\E len \in Lens, t \in Time : AppendTsl(len, t)) \/ Clean \/ SetRollover \/ Deinit
           \/ Hang \/ Refuse \/ WriteStart \/ BootFailed \/ Boot \/ BootHang
  <2>1. UNCHANGED <<ends, store, logs>>
    BY <1>2 DEF AppendTsl, Clean, SetRollover, Deinit, Hang, Refuse, WriteStart, BootFailed, Boot,
                BootHang, flash, vars
  <2>2. \/ pc \notin {"endWrite", "full"} /\ pc' \notin {"endWrite", "full"}
        \/ pc' = pc /\ cur' = cur
    BY <1>2 DEF AppendTsl, Clean, SetRollover, Deinit, Hang, Refuse, Return, WriteStart, BootFailed,
                Boot, BootHang, vars, ram
  <2>3. SameTimes
    BY <2>1, SameLogs
  <2> QED BY <2>1, <2>2, <2>3, EndsQuiet
<1> QED BY <1>1, <1>2

\* The end node of a sector is written before the sector is marked full.
LEMMA EndsClose ==
    ASSUME Types, OneInv, RingInv, HeldInv, CurInv, EndsInv, EndStatus \/ EndWrite \/ EndSkip \/ MarkFull
    PROVE  EndsInv'
<1>1. /\ cur.sec \in Sector /\ cur.status = USING /\ store[cur.sec] = USING
      /\ pc \in {"end", "endWrite", "full"} /\ logs' = logs
  BY DEF EndStatus, EndWrite, EndSkip, MarkFull, OneInv, Appending, Using, flash
<1>2. /\ FreeEnd = 1 /\ Len(logs[cur.sec]) = cur.n /\ Newest(cur.sec).time = last
  BY <1>1 DEF CurInv, Closing, FreeEnd
<1>3. ~EndSkip
  BY <1>2 DEF EndSkip
<1>4. CASE EndStatus
  <2>1. store' = store /\ cur' = cur /\ pc = "end" /\ pc' = "endWrite"
    BY <1>4 DEF EndStatus, ram
  <2>2. \A t \in Sector : t # cur.sec => ends'[t] = ends[t]
    BY <1>4 DEF EndStatus, Types
  <2>3. \A t \in Sector : t = cur.sec => store[t] # FULL
    BY <1>1, WriteStatusIs
  <2> QED BY <1>1, <2>1, <2>2, <2>3 DEF EndsInv, EndOf, Newest
<1>5. CASE EndWrite
  <2>1. store' = store /\ cur' = cur /\ pc = "endWrite" /\ pc' = "full"
    BY <1>5 DEF EndWrite, ram
  <2>2. \A t \in Sector : t # cur.sec => ends'[t] = ends[t]
    BY <1>5 DEF EndWrite, Types
  <2>3. ends'[cur.sec][1] = [st |-> TSL_WRITE, time |-> last, slot |-> cur.n - 1]
    <3>1. ends[cur.sec] \in End \X End
      BY <1>1 DEF Types
    <3>2. PICK e \in End \X End : e = ends[cur.sec]
      BY <3>1
    <3>3. ends'[cur.sec] = [e EXCEPT ![1] = [st |-> TSL_WRITE, time |-> last, slot |-> EndIndex]]
      BY <1>1, <1>2, <1>5, <3>2 DEF EndWrite, Types
    <3> QED BY <3>3 DEF EndIndex
  <2>4. (EndOf(cur.sec))'
    BY <1>1, <1>2, <2>1, <2>3 DEF EndOf, Newest
  <2>5. \A t \in Sector : t = cur.sec => store[t] # FULL
    BY <1>1, WriteStatusIs
  <2>6. \A t \in Sector : t # cur.sec /\ EndOf(t) => (EndOf(t))'
    BY <1>1, <2>2 DEF EndOf, Newest
  <2> QED BY <1>1, <2>1, <2>2, <2>4, <2>5, <2>6 DEF EndsInv
<1>6. CASE MarkFull
  <2>1. ends' = ends /\ pc = "full"
    BY <1>6 DEF MarkFull
  <2>2. \A t \in Sector : store'[t] = IF t = cur.sec THEN FULL ELSE store[t]
    BY <1>1, <1>6, WriteStatusIs DEF MarkFull, Types
  <2>3. EndOf(cur.sec) /\ pc' # "full" /\ pc' # "endWrite"
    BY <1>1, <1>6, <2>1 DEF EndsInv, MarkFull, Return
  <2> QED BY <1>1, <2>1, <2>2, <2>3 DEF EndsInv, EndOf, Newest
<1> QED BY <1>3, <1>4, <1>5, <1>6

LEMMA EndsAppend ==
    ASSUME Types, OneInv, RingInv, HeldInv, CurInv, EndsInv,
           EraseNext \/ FormatNext \/ UsingStatus \/ PreWrite \/ Commit
    PROVE  EndsInv'
<1>0. pc \notin {"endWrite", "full"} /\ pc' \notin {"endWrite", "full"}
  BY DEF EraseNext, FormatNext, UsingStatus, PreWrite, Commit, Return
<1>1. CASE EraseNext
  <2>1. cur.sec \in Sector /\ EraseSector(cur.sec)
    BY <1>1 DEF EraseNext, OneInv, Taking
  <2> QED BY <1>0, <2>1, EndsErased
<1>2. CASE FormatNext \/ UsingStatus
  <2>1. UNCHANGED <<ends, logs>>
    BY <1>2 DEF FormatNext, UsingStatus, WriteSectorHdr
  <2>2. cur.sec \in Sector /\ store[cur.sec] \in {UNUSED, EMPTY}
    BY <1>2 DEF FormatNext, UsingStatus, OneInv, Taking, Formatted
  <2>3. \A t \in Sector : /\ t # cur.sec => store'[t] = store[t]
                          /\ t = cur.sec => store'[t] # FULL /\ store[t] # FULL
    BY <1>2, <2>2 DEF FormatNext, UsingStatus, WriteSectorHdr, Types, WriteStatus,
                      UNUSED, EMPTY, USING, FULL
  <2> QED BY <1>0, <2>1, <2>3, EndsQuiet
<1>3. CASE PreWrite
  <2>1. ends' = ends
    BY <1>3 DEF PreWrite
  <2>2. /\ store' = store /\ store[cur.sec] = USING
        /\ \A t \in Sector : t # cur.sec => logs'[t] = logs[t]
    BY <1>3, PreWriteIs
  <2>3. \A t \in Sector : store[t] = FULL => logs'[t] = logs[t]
    BY <2>2, WriteStatusIs
  <2> QED BY <1>0, <2>1, <2>2, <2>3, EndsQuiet
<1>4. CASE Commit
  <2>1. ends' = ends
    BY <1>4 DEF Commit
  <2>2. SameTimes /\ store' = store
    BY <1>4, CommitIs
  <2> QED BY <1>0, <2>1, <2>2, EndsQuiet DEF SameTimes
<1> QED BY <1>1, <1>2, <1>3, <1>4

-----------------------------------------------------------------------------
(* All steps *)

LEMMA LogInit == Init => LogInv
BY RingInit, HeldInit, OrderInit, CurInit, EndsInit DEF LogInv

\* The invariants hold of the same things after a step that changes nothing.
LEMMA LogStutter == ASSUME LogInv, UNCHANGED vars PROVE LogInv'
BY DEF LogInv, RingInv, HeldInv, OrderInv, CurInv, EndsInv, EndOf, Newest, Current, Young, Round,
       Rank, vars, flash, ram

LEMMA LogNext ==
    ASSUME Types, OneInv, LogInv, Steady, [Next]_vars
    PROVE  LogInv'
<1>0. RingInv /\ HeldInv /\ OrderInv /\ CurInv /\ EndsInv
  BY DEF LogInv
<1>1. Types' /\ OneInv' /\ RingInv'
  BY <1>0, TypesNext, OneNext, RingNext
<1>2. CASE UNCHANGED vars
  BY <1>2, LogStutter
<1>3. CASE Next
  <2>1. ~StrayWrite
    BY <1>0 DEF StrayWrite, RingInv
  <2>2. ~Crash
    <3>1. crashes = 0
      BY DEF Types, Steady
    <3> QED BY <3>1 DEF Crash, Steady
  <2>3. CASE FormatAll
    BY <1>0, <1>1, <2>3, HeldFormat, OrderFormat, CurFormat, EndsFormat DEF LogInv
  <2>4. CASE Refuse \/ (\E len \in Lens, t \in Time : AppendTsl(len, t)) \/ Clean \/ SetRollover
             \/ Deinit \/ Hang \/ Mark
    BY <1>0, <1>1, <2>4, HeldCall, OrderCall, CurCall, EndsCall DEF LogInv
  <2>5. CASE BootFailed \/ Boot \/ BootHang
    BY <1>0, <1>1, <2>5, HeldBoot, OrderBoot, CurBoot, EndsCall DEF LogInv
  <2>6. CASE EndStatus \/ EndWrite \/ EndSkip
    BY <1>0, <1>1, <2>6, HeldCall, OrderTake, CurCall, EndsClose DEF LogInv
  <2>7. CASE WriteStart
    BY <1>0, <1>1, <2>7, HeldCall, OrderTake, CurCall, EndsCall DEF LogInv
  <2>8. CASE MarkFull
    BY <1>0, <1>1, <2>8, HeldAppend, OrderMarkFull, CurMarkFull, EndsClose DEF LogInv
  <2>9. CASE EraseNext \/ FormatNext \/ UsingStatus
    BY <1>0, <1>1, <2>9, HeldAppend, OrderTake, CurTake, EndsAppend DEF LogInv
  <2>10. CASE PreWrite
    BY <1>0, <1>1, <2>10, HeldAppend, OrderPreWrite, CurPreWrite, EndsAppend DEF LogInv
  <2>11. CASE Commit
    BY <1>0, <1>1, <2>11, HeldAppend, OrderCommit, CurCommit, EndsAppend DEF LogInv
  <2> QED BY <1>3, <2>1, <2>2, <2>3, <2>4, <2>5, <2>6, <2>7, <2>8, <2>9, <2>10, <2>11
       DEF Next, Step, Call, TakeSector
<1> QED BY <1>2, <1>3

\* What is used of the state below.
SteadyInv == Types /\ OneInv /\ LogInv

LEMMA SteadyAlways == ASSUME Steady PROVE Spec => []SteadyInv
<1>1. Init => SteadyInv
  BY TypesInit, OneInit, LogInit DEF SteadyInv
<1>2. SteadyInv /\ [Next]_vars => SteadyInv'
  BY TypesNext, OneNext, LogNext DEF SteadyInv
<1> QED BY <1>1, <1>2, PTL DEF Spec

-----------------------------------------------------------------------------
(* What follows for the flash and for db->cur_sec *)

LEMMA StoredIs ==
    \A t : t \in Stored <=> \E s \in Sector : \E i \in DOMAIN logs[s] :
                              magic[s] /\ Complete(logs[s][i]) /\ t = logs[s][i].time
BY DEF Stored, StoredIn, Done

\* Between two calls db->last_time is the time of the last log that is stored.
LEMMA LastStored ==
    ASSUME SteadyInv, pc \in Rest
    PROVE  /\ \A t \in Stored : t <= last /\ t \in Int
           /\ cur.status # EMPTY => last \in Stored
<1>1. RingInv /\ OrderInv /\ CurInv /\ Types
  BY DEF SteadyInv, LogInv
<1>2. /\ cur.sec \in Sector /\ magic[cur.sec]
      /\ cur.status \in {EMPTY, USING, FULL}
  BY <1>1 DEF RingInv, Live, Rest, Current
<1>3. \A s \in Sector : \A i \in DOMAIN logs[s] :
        Complete(logs[s][i]) /\ logs[s][i].time <= last /\ logs[s][i].time \in Int
  BY <1>1, LogFacts DEF OrderInv, Rest
<1>4. ASSUME cur.status # EMPTY PROVE last \in Stored
  <2>1. logs[cur.sec] # <<>> /\ Newest(cur.sec).time = last
    BY <1>1, <1>2, <1>4 DEF CurInv, Closing
  <2>2. Len(logs[cur.sec]) \in DOMAIN logs[cur.sec]
    BY <1>1, <1>2, <2>1, LogFacts
  <2> QED BY <1>2, <1>3, <2>1, <2>2, StoredIs DEF Newest
<1> QED BY <1>3, <1>4, StoredIs

LEMMA OrderedIs == SteadyInv => Ordered
<1> SUFFICES ASSUME SteadyInv, Ready PROVE Ordered
  BY DEF Ordered
<1>1. OrderInv /\ pc = "idle"
  BY DEF SteadyInv, LogInv, Ready, Idle
<1>2. \A s \in Sector : Done(s) \subseteq DOMAIN logs[s]
  BY DEF Done
<1>3. \A s \in Sector : \A i, j \in Done(s) : i < j => logs[s][i].time < logs[s][j].time
  BY <1>1, <1>2 DEF OrderInv
<1>4. ASSUME NEW s \in Sector, NEW t \in Sector, Rank(oldest, s) < Rank(oldest, t),
             NEW x \in StoredIn(s), NEW y \in StoredIn(t)
      PROVE  x < y
  <2>1. PICK i \in Done(s) : x = logs[s][i].time
    BY <1>4 DEF StoredIn
  <2>2. PICK j \in Done(t) : y = logs[t][j].time
    BY <1>4 DEF StoredIn
  <2> QED BY <1>1, <1>2, <1>4, <2>1, <2>2 DEF OrderInv
<1> QED BY <1>3, <1>4 DEF Ordered

LEMMA EndNodesAre == SteadyInv => EndNodesRight
<1> SUFFICES ASSUME SteadyInv, NEW s \in Sector, magic[s], store[s] = FULL
             PROVE  \E e \in EndInfo(s) :
                      /\ e.slot = Len(logs[s]) - 1
                      /\ Done(s) # {} => e.time = logs[s][Max(Done(s))].time
  BY DEF EndNodesRight
<1>1. OrderInv /\ EndsInv /\ HeldInv /\ Types /\ OneInv
  BY DEF SteadyInv, LogInv
<1>2. EndOf(s) /\ logs[s] # <<>>
  BY <1>1 DEF EndsInv, HeldInv
<1>3. \A i \in DOMAIN logs[s] : Complete(logs[s][i])
  <2>1. ~(pc = "commit" /\ s = cur.sec)
    BY <1>1, WriteStatusIs DEF OneInv, Appending, Using
  <2> QED BY <1>1, <2>1 DEF OrderInv
<1>4. /\ Done(s) = DOMAIN logs[s] /\ Len(logs[s]) \in Done(s) /\ Done(s) \in SUBSET Int
      /\ \A i \in Done(s) : i <= Len(logs[s])
  <2>1. Done(s) = DOMAIN logs[s]
    BY <1>3 DEF Done
  <2> QED BY <1>1, <1>2, <2>1, LogFacts
<1>5. Max(Done(s)) = Len(logs[s])
  BY <1>4, MaxIs
<1> QED BY <1>2, <1>5 DEF EndInfo, EndOf, Newest

LEMMA CurrentIs == SteadyInv => HasCurrent
<1> SUFFICES ASSUME SteadyInv, pc = "idle" PROVE cur.sec \in Sector /\ oldest \in Sector
  BY DEF HasCurrent, Idle
<1>1. cur.sec \in Sector /\ (Young \/ Round)
  BY DEF SteadyInv, LogInv, RingInv, Live, Rest
<1> QED BY <1>1, SectorFacts, NextSecType DEF Young, Round

LEMMA CommitLater ==
    ASSUME SteadyInv, pc = "commit"
    PROVE  \A t \in Stored : t < op.time
<1>1. OrderInv /\ CurInv /\ Types /\ OneInv
  BY DEF SteadyInv, LogInv
<1>2. /\ op.time > last /\ last \in Int /\ op.time \in Time /\ ~Complete(Newest(cur.sec))
      /\ cur.sec \in Sector
  BY <1>1 DEF OrderInv, Logging, CurInv, Types, OpInv, Appends, Complete, TSL_PRE_WRITE, TSL_WRITE,
              OneInv, Appending
<1>3. ASSUME NEW s \in Sector, NEW i \in DOMAIN logs[s], Complete(logs[s][i])
      PROVE  logs[s][i].time < op.time
  <2>1. logs[s][i].time <= last
    BY <1>1, <1>2, <1>3 DEF OrderInv, Newest
  <2> QED BY <1>1, <1>2, <1>3, <2>1, LogFacts, TimeInt
<1> QED BY <1>3, StoredIs

LEMMA RestartKeeps ==
    ASSUME SteadyInv, pc \in {"off", "down"}, pc' = "fmtErase", [Next]_vars
    PROVE  Stored = {}
<1>1. CASE pc = "off"
  <2>1. \A s \in Sector : ~magic[s]
    BY <1>1 DEF SteadyInv, LogInv, RingInv
  <2> QED BY <2>1, StoredIs
<1>2. CASE pc = "down"
  <2>1. BootFailed
    BY <1>2 DEF Next, Step, Call, Mark, Crash, TakeSector, FormatAll, FmtErase, FmtHdr, FmtDone,
                Refuse, EndStatus, EndWrite, EndSkip, MarkFull, EraseNext, FormatNext, UsingStatus,
                WriteStart, PreWrite, Commit, StrayWrite, AppendTsl, Clean, SetRollover, Deinit,
                BootHang, Hang, Boot, SetStatus, Return, vars
  <2>2. ~Failed
    BY <1>2, DownFound DEF SteadyInv, LogInv
  <2> QED BY <2>1, <2>2 DEF BootFailed
<1> QED BY <1>1, <1>2

\* Why an append is refused.
RefuseInv == pc = "refuse" => op.time <= last \/ cur.status = FULL

LEMMA RefuseNext ==
    ASSUME Types, RefuseInv, [Next]_vars
    PROVE  RefuseInv'
<1> SUFFICES ASSUME pc' = "refuse" PROVE op'.time <= last' \/ cur'.status = FULL
  BY DEF RefuseInv
<1>1. \/ \E len \in Lens, t \in Time : AppendTsl(len, t)
      \/ pc = "refuse" /\ UNCHANGED <<op, last, cur>>
  BY DEF Next, Step, Call, Mark, Crash, TakeSector, FormatAll, FmtErase, FmtHdr, FmtDone,
         Refuse, EndStatus, EndWrite, EndSkip, MarkFull, EraseNext, FormatNext, UsingStatus,
         WriteStart, PreWrite, Commit, StrayWrite, Clean, SetRollover, Deinit, BootFailed,
         BootHang, Hang, Boot, SetStatus, Return, vars, ram
<1>2. CASE \E len \in Lens, t \in Time : AppendTsl(len, t)
  <2>1. PICK len \in Lens, t \in Time : AppendTsl(len, t)
    BY <1>2
  <2>2. op'.time = t /\ last' = last /\ cur' = cur
    BY <2>1 DEF AppendTsl, ram
  <2>3. ~(t > last) \/ cur.status = FULL
    <3>1. pc' = IF ~InOrder(t) \/ cur.status = FULL THEN "refuse"
                ELSE IF NoRoom(len) THEN "end"
                ELSE CASE cur.status = EMPTY -> "using"
                       [] cur.status = USING -> "preWrite"
                       [] OTHER              -> "stray"
      BY <2>1 DEF AppendTsl
    <3> QED BY <3>1 DEF InOrder
  <2>4. t \in Int /\ last \in Int
    BY TimeInt DEF Types
  <2> QED BY <2>2, <2>3, <2>4
<1>3. CASE pc = "refuse" /\ UNCHANGED <<op, last, cur>>
  BY <1>3 DEF RefuseInv
<1> QED BY <1>1, <1>2, <1>3

LEMMA RefusedIs ==
    ASSUME SteadyInv, RefuseInv, pc = "refuse"
    PROVE  (\E t \in Stored : t >= op.time) \/ (\A s \in Sector : store[s] = FULL)
<1>1. RingInv /\ CurInv /\ Types
  BY DEF SteadyInv, LogInv
<1>2. /\ cur.sec \in Sector /\ Current
      /\ cur.status \in {EMPTY, USING, FULL} /\ store[cur.sec] = cur.status
  BY <1>1 DEF RingInv, Live, Rest, Current
<1>3. CASE cur.status = FULL
  <2>1. Round
    BY <1>2, <1>3 DEF Current, Rest
  <2> QED BY <1>2, <1>3, <2>1 DEF Round
<1>4. CASE cur.status # FULL
  <2>1. op.time <= last /\ op.time \in Time /\ last \in Int
    BY <1>1, <1>4 DEF RefuseInv, Types, OpInv, Appends
  <2>2. op.time >= 1 /\ op.time \in Int
    BY <2>1, TimeAssumption DEF Time
  <2>3. cur.status # EMPTY
    BY <1>1, <2>1, <2>2 DEF CurInv, Rest
  <2>4. last \in Stored
    BY <2>3, LastStored DEF Rest
  <2> QED BY <2>1, <2>2, <2>4
<1> QED BY <1>3, <1>4

-----------------------------------------------------------------------------
(* The room that db->cur_sec counts *)

\* db->cur_sec.remain is what is left in the sector, to the unit.
RoomInv ==
    /\ \/ pc \in Rest /\ cur.status = USING
       \/ pc \in {"startTime", "preWrite"}
       => cur.room + Size(logs[cur.sec]) = Cap
    /\ pc = "commit" => cur.room + Size(logs[cur.sec]) = Cap + (1 + op.len)

LEMMA RoomInit == Init => RoomInv
<1> SUFFICES ASSUME Init PROVE RoomInv
  OBVIOUS
<1>1. pc = "off"
  BY DEF Init
<1> QED BY <1>1 DEF RoomInv, Rest

\* As long as every log is complete it is as long as it is read.
LEMMA UsedComplete ==
    ASSUME Types, SpaceInv, NEW s \in Sector, \A i \in DOMAIN logs[s] : Complete(logs[s][i])
    PROVE  Room(s) + Size(logs[s]) = Cap
<1>1. [i \in DOMAIN logs[s] |-> 1 + ReadLen(logs[s][i])] = [i \in DOMAIN logs[s] |-> 1 + logs[s][i].len]
  BY DEF ReadLen
<1>2. Used(logs[s]) = Size(logs[s])
  BY <1>1 DEF Used, Size
<1>3. Size(logs[s]) \in Nat /\ Size(logs[s]) <= Cap /\ Cap \in Nat
  BY SizeType, SecAssumption DEF Types, SpaceInv
<1> QED BY <1>2, <1>3 DEF Room

\* The sizes stay, and so does db->cur_sec.
LEMMA RoomQuiet ==
    ASSUME Types, OneInv, RingInv, RoomInv, cur' = cur,
           \A s \in Sector : Size(logs'[s]) = Size(logs[s]),
           \/ pc' = pc /\ op' = op
           \/ pc \in Rest /\ (pc' \in Rest \/ (pc' = "preWrite" /\ cur.status = USING))
           \/ pc = "startTime" /\ pc' = "preWrite"
           \/ pc' \notin Rest \cup Logging
    PROVE  RoomInv'
<1>1. pc \in Live => cur.sec \in Sector
  BY DEF RingInv
<1>2. pc \in Rest \cup Logging => pc \in Live
  BY DEF Live
<1>3. \/ pc' \in Rest /\ cur'.status = USING
      \/ pc' \in {"startTime", "preWrite"}
      => cur'.room + Size(logs'[cur'.sec]) = Cap
  BY <1>1, <1>2 DEF RoomInv, Rest, Logging
<1>4. pc' = "commit" => cur'.room + Size(logs'[cur'.sec]) = Cap + (1 + op'.len)
  BY <1>1, <1>2 DEF RoomInv, Rest, Logging
<1> QED BY <1>3, <1>4 DEF RoomInv, Size

LEMMA RoomBoot ==
    ASSUME Types, SpaceInv, RingInv, OrderInv, CurInv, EndsInv, BootFailed \/ Boot \/ BootHang
    PROVE  RoomInv'
<1>1. CASE BootFailed \/ BootHang
  <2>1. pc' \in {"hung", "failed", "fmtErase"}
    BY <1>1 DEF BootFailed, BootHang
  <2> QED BY <2>1 DEF RoomInv, Rest
<1>2. CASE Boot
  <2>1. pc = "down"
    <3>1. ASSUME pc = "off" PROVE FALSE
      <4>1. \A s \in Sector : BadSector(s)
        BY <3>1 DEF RingInv, BadSector
      <4> QED BY <1>2, <4>1, SectorFacts DEF Boot, Failed
    <3> QED BY <1>2, <3>1 DEF Boot
  <2>2. /\ cur.sec \in Sector /\ magic[cur.sec] /\ BootSec = cur.sec /\ BootSec # NoSec
        /\ store[cur.sec] = cur.status
    BY <2>1, DownFound, SectorFacts
  <2>3. logs' = logs /\ pc' = "idle" /\ cur'.sec = cur.sec /\ cur'.status = cur.status
    BY <1>2, <2>1, BootFinds
  <2>4. PICK g \in Garbage : cur' = ReadAll(Leftover(cur.sec, g), cur.sec)
    BY <1>2, <2>2 DEF Boot
  <2>5. ASSUME cur.status = USING PROVE cur'.room = Room(cur.sec)
    <3> DEFINE h == ReadHdr(Leftover(cur.sec, g), cur.sec)
    <3>1. DOMAIN h = Fields
      BY <2>2, LeftoverIs, ReadHdrIs
    <3>2. cur' = [h EXCEPT !.n = Len(logs[cur.sec]), !.room = Room(cur.sec),
                     !.endTime = IF Timed(cur.sec) = {} THEN @
                                 ELSE TslTime(logs[cur.sec][Max(Timed(cur.sec))]),
                     !.end = IF logs[cur.sec] = <<>> THEN @ ELSE <<cur.sec, Len(logs[cur.sec]) - 1>>]
      BY <2>2, <2>4, <2>5 DEF ReadAll
    <3> HIDE DEF h
    <3> QED BY <3>1, <3>2 DEF Fields
  <2>6. Room(cur.sec) + Size(logs[cur.sec]) = Cap
    <3>1. \A i \in DOMAIN logs[cur.sec] : Complete(logs[cur.sec][i])
      BY <2>1, <2>2 DEF OrderInv
    <3> QED BY <2>2, <3>1, UsedComplete
  <2> QED BY <2>3, <2>5, <2>6 DEF RoomInv, Rest, Size
<1> QED BY <1>1, <1>2

LEMMA RoomWrite ==
    ASSUME Types, OneInv, SpaceInv, RoomInv, PreWrite \/ Commit
    PROVE  RoomInv'
<1>1. /\ cur.sec \in Sector /\ cur.room \in Nat /\ Size(logs[cur.sec]) \in Nat
      /\ logs[cur.sec] \in Seq(Tsl) /\ op.len \in Lens /\ op.time \in Time /\ pc \in {"preWrite", "commit"}
  <2>1. cur.sec \in Sector /\ pc \in {"preWrite", "commit"}
    BY DEF PreWrite, Commit, OneInv, Appending
  <2> QED BY <2>1, SizeType DEF Types, CurType, OpInv, Appends
<1>2. op.len \in Nat
  BY <1>1, LenFacts
<1>3. CASE PreWrite
  <2> DEFINE r == [st |-> TSL_PRE_WRITE, time |-> op.time, len |-> op.len]
  <2>1. r \in Tsl
    <3>1. TSL_PRE_WRITE \in TslStatus
      BY Statuses
    <3> QED BY <1>1, <1>2, <3>1 DEF Tsl
  <2>2. logs'[cur.sec] = Append(logs[cur.sec], r)
    BY <1>1, <1>3 DEF PreWrite, Types
  <2>3. Size(logs'[cur.sec]) = Size(logs[cur.sec]) + (1 + op.len)
    BY <1>1, <2>1, <2>2, SizeAppend
  <2>4. cur' = cur /\ op' = op /\ pc' = "commit" /\ pc = "preWrite"
    BY <1>3 DEF PreWrite, ram
  <2>5. cur.room + Size(logs[cur.sec]) = Cap
    BY <2>4 DEF RoomInv
  <2>6. cur.room + Size(logs'[cur.sec]) = Cap + (1 + op.len)
    <3>1. \A a, b, c, d \in Nat : a + b = c => a + (b + (1 + d)) = c + (1 + d)
      OBVIOUS
    <3>2. Cap \in Nat
      BY SecAssumption
    <3>3. cur.room + (Size(logs[cur.sec]) + (1 + op.len)) = Cap + (1 + op.len)
      BY <1>1, <1>2, <2>5, <3>1, <3>2
    <3> QED BY <2>3, <3>3
  <2> QED BY <2>4, <2>6 DEF RoomInv, Rest, Size
<1>4. CASE Commit
  <2>1. /\ pc = "commit" /\ pc' = "idle" /\ cur' = Appended /\ cur.status = USING /\ store' = store
        /\ cur.n + 1 \in Nat
    <3>1. cur.n \in Nat
      BY DEF Types, CurType
    <3>2. pc = "commit" /\ pc' = "idle" /\ cur' = Appended /\ cur.status = USING /\ store' = store
      BY <1>4 DEF Commit, Return, OneInv, Appending
    <3> QED BY <3>1, <3>2
  <2>2. logs' = [logs EXCEPT ![cur.sec] =
                   [logs[cur.sec] EXCEPT ![cur.n + 1].st =
                      WriteStatus(logs[cur.sec][cur.n + 1].st, TSL_WRITE)]]
    BY <1>1, <1>4 DEF Commit, Types
  <2>3. Size(logs'[cur.sec]) = Size(logs[cur.sec])
    BY <1>1, <2>1, <2>2, RaisedKeepsSpace
  <2>4. cur.room + Size(logs[cur.sec]) = Cap + (1 + op.len) /\ cur.room >= 1 + op.len /\ cur.room <= Cap
    BY <2>1 DEF RoomInv, SpaceInv
  <2>5. (cur.room - (1 + op.len)) % SizeMod = cur.room - (1 + op.len)
    <3>1. cur.room - (1 + op.len) \in 0 .. Cap /\ SizeMod \in Nat /\ SizeMod > Cap /\ Cap \in Nat
      BY <1>1, <1>2, <2>4, SecAssumption, LenAssumption
    <3>2. \A a \in 0 .. Cap : a % SizeMod = a
      BY <3>1
    <3> QED BY <3>1, <3>2
  <2>6. cur'.room = cur.room - (1 + op.len) /\ cur'.sec = cur.sec /\ cur'.status = cur.status
    BY <2>1, <2>5 DEF Appended, Types, CurType
  <2>7. cur'.room + Size(logs'[cur.sec]) = Cap
    BY <1>1, <1>2, <2>3, <2>4, <2>6, SecAssumption
  <2> QED BY <2>1, <2>6, <2>7 DEF RoomInv, Rest, Size
<1> QED BY <1>3, <1>4

LEMMA RoomCall ==
    ASSUME Types, OneInv, RingInv, SpaceInv, RoomInv,
           \/ \E len \in Lens, t \in Time : AppendTsl(len, t)
           \/ Clean \/ SetRollover \/ Deinit \/ Hang \/ Refuse \/ Mark
    PROVE  RoomInv'
<1>1. CASE Mark
  <2>1. PICK s \in Sector, st \in UserStatus : \E i \in DOMAIN logs[s] : SetStatus(s, i, st)
    BY <1>1 DEF Mark
  <2>2. PICK i \in DOMAIN logs[s] : SetStatus(s, i, st)
    BY <2>1
  <2>3. i \in Nat /\ UNCHANGED <<store, cur, pc, op>>
    BY <2>2 DEF SetStatus, ram, Types
  <2>4. logs' = [logs EXCEPT ![s] = [logs[s] EXCEPT ![i].st = WriteStatus(logs[s][i].st, st)]]
    BY <2>2 DEF SetStatus, Types
  <2>5. \A t \in Sector : Size(logs'[t]) = Size(logs[t])
    BY <2>3, <2>4, RaisedKeepsSpace
  <2> QED BY <2>3, <2>5, RoomQuiet
<1>2. CASE (\E len \in Lens, t \in Time : AppendTsl(len, t)) \/ Clean \/ SetRollover \/ Deinit
           \/ Hang \/ Refuse
  <2>1. logs' = logs /\ cur' = cur
    BY <1>2 DEF AppendTsl, Clean, SetRollover, Deinit, Hang, Refuse, flash, ram, vars
  <2>2. \/ pc' = pc /\ op' = op
        \/ pc \in Rest /\ (pc' \in Rest \/ (pc' = "preWrite" /\ cur.status = USING))
        \/ pc' \notin Rest \cup Logging
    <3>1. CASE \E len \in Lens, t \in Time : AppendTsl(len, t)
      <4>1. pc = "idle" /\ cur.status \in {EMPTY, USING, FULL}
        BY <3>1 DEF AppendTsl, RingInv, Live, Rest, Current
      <4>2. \/ pc' = "refuse" \/ pc' = "end" \/ pc' = "using"
            \/ pc' = "preWrite" /\ cur.status = USING
        BY <3>1, <4>1, WriteStatusIs DEF AppendTsl
      <4> QED BY <4>1, <4>2 DEF Rest, Logging
    <3>2. CASE Clean \/ SetRollover \/ Deinit \/ Hang \/ Refuse
      BY <3>2 DEF Clean, SetRollover, Deinit, Hang, Refuse, Return, Rest, Logging, vars
    <3> QED BY <1>2, <3>1, <3>2
  <2> QED BY <2>1, <2>2, RoomQuiet
<1> QED BY <1>1, <1>2

\* The steps between which nothing is said of the room, or the first.
LEMMA RoomTake ==
    ASSUME Types, OneInv, RingInv, SpaceInv, RoomInv,
           FormatAll \/ EndStatus \/ EndWrite \/ EndSkip \/ MarkFull \/ EraseNext \/ FormatNext
           \/ UsingStatus \/ WriteStart
    PROVE  RoomInv'
<1>1. CASE FmtErase \/ FmtHdr \/ EndStatus \/ EndWrite \/ EndSkip \/ EraseNext \/ FormatNext
  <2>1. pc' \notin Rest \cup Logging
    BY <1>1 DEF FmtErase, FmtHdr, EndStatus, EndWrite, EndSkip, EraseNext, FormatNext, Rest, Logging
  <2> QED BY <2>1 DEF RoomInv, Rest, Logging
<1>2. CASE FmtDone
  <2>1. magic[0] /\ store[0] = EMPTY
    BY <1>2, SectorFacts DEF FmtDone, OneInv, Formatting, Formatted
  <2>2. cur'.status = EMPTY /\ pc' = "idle"
    BY <1>2, <2>1 DEF FmtDone, ReadHdr
  <2> QED BY <2>2, WriteStatusIs DEF RoomInv, Rest
<1>3. CASE MarkFull
  <2>1. \/ pc' \in {"using", "erase"}
        \/ pc' = "idle" /\ cur' = [cur EXCEPT !.status = FULL]
    BY <1>3 DEF MarkFull, Return
  <2>2. pc' = "idle" => cur'.status = FULL
    BY <2>1 DEF MarkFull, OneInv, HdrType, Fields
  <2> QED BY <2>1, <2>2, WriteStatusIs DEF RoomInv, Rest
<1>4. CASE UsingStatus
  <2>1. /\ pc = "using" /\ pc' = "startTime" /\ logs' = logs /\ cur.sec \in Sector
        /\ store[cur.sec] = EMPTY
    BY <1>4 DEF UsingStatus, OneInv, Taking, Formatted
  <2>2. cur'.room = cur.room /\ cur'.sec = cur.sec
    BY <1>4 DEF UsingStatus, OneInv, HdrType, Fields
  <2>3. cur.room = Cap /\ logs[cur.sec] = <<>>
    BY <2>1 DEF SpaceInv
  <2>4. cur'.room + Size(logs'[cur'.sec]) = Cap
    BY <2>1, <2>2, <2>3, SizeEmpty, SecAssumption
  <2> QED BY <2>1, <2>4 DEF RoomInv, Rest, Size
<1>5. CASE WriteStart
  <2>1. logs' = logs /\ cur' = cur /\ pc = "startTime" /\ pc' = "preWrite"
    BY <1>5 DEF WriteStart, ram
  <2> QED BY <2>1, RoomQuiet
<1> QED BY <1>1, <1>2, <1>3, <1>4, <1>5 DEF FormatAll

LEMMA RoomNext ==
    ASSUME SteadyInv, SpaceInv, RoomInv, Steady, [Next]_vars
    PROVE  RoomInv'
<1>0. Types /\ OneInv /\ RingInv /\ HeldInv /\ OrderInv /\ CurInv /\ EndsInv
  BY DEF SteadyInv, LogInv
<1>1. CASE UNCHANGED vars
  BY <1>1 DEF RoomInv, Rest, Size, vars, flash, ram
<1>2. CASE Next
  <2>1. ~StrayWrite
    BY <1>0 DEF StrayWrite, RingInv
  <2>2. ~Crash
    <3>1. crashes = 0
      BY <1>0 DEF Types, Steady
    <3> QED BY <3>1 DEF Crash, Steady
  <2>3. CASE Refuse \/ (\E len \in Lens, t \in Time : AppendTsl(len, t)) \/ Clean \/ SetRollover
             \/ Deinit \/ Hang \/ Mark
    BY <1>0, <2>3, RoomCall
  <2>4. CASE BootFailed \/ Boot \/ BootHang
    BY <1>0, <2>4, RoomBoot
  <2>5. CASE FormatAll \/ TakeSector
    BY <1>0, <2>5, RoomTake DEF TakeSector
  <2>6. CASE PreWrite \/ Commit
    BY <1>0, <2>6, RoomWrite
  <2> QED BY <1>2, <2>1, <2>2, <2>3, <2>4, <2>5, <2>6 DEF Next, Step, Call
<1> QED BY <1>1, <1>2

LEMMA CurAgreesIs ==
    ASSUME SteadyInv, SpaceInv, RoomInv
    PROVE  CurAgrees
<1> SUFFICES ASSUME Ready
             PROVE  /\ cur.status = store[cur.sec]
                    /\ cur.status = USING => /\ cur.n = Len(logs[cur.sec])
                                             /\ cur.room = Room(cur.sec)
                                             /\ cur.n > 0 => cur.end = <<cur.sec, cur.n - 1>>
                    /\ Stored # {} => last = Max(Stored)
  BY DEF CurAgrees
<1>1. RingInv /\ OrderInv /\ CurInv /\ Types /\ pc = "idle"
  BY DEF SteadyInv, LogInv, Ready, Idle
<1>2. cur.sec \in Sector /\ cur.status = store[cur.sec] /\ cur.status \in {EMPTY, USING, FULL}
  BY <1>1 DEF RingInv, Live, Rest, Current
<1>3. ASSUME cur.status = USING
      PROVE  /\ cur.n = Len(logs[cur.sec])
             /\ cur.room = Room(cur.sec)
             /\ cur.n > 0 => cur.end = <<cur.sec, cur.n - 1>>
  <2>1. cur.n = Len(logs[cur.sec]) /\ (cur.n > 0 => cur.end = <<cur.sec, cur.n - 1>>)
    BY <1>1, <1>3 DEF CurInv, Rest
  <2>2. Room(cur.sec) + Size(logs[cur.sec]) = Cap
    <3>1. \A i \in DOMAIN logs[cur.sec] : Complete(logs[cur.sec][i])
      BY <1>1, <1>2 DEF OrderInv
    <3> QED BY <1>1, <1>2, <3>1, UsedComplete
  <2>3. cur.room + Size(logs[cur.sec]) = Cap
    BY <1>1, <1>3 DEF RoomInv, Rest
  <2>4. Room(cur.sec) \in Nat /\ cur.room \in Nat /\ Size(logs[cur.sec]) \in Nat
    BY <1>1, <1>2, RoomType, SizeType DEF Types, CurType
  <2>5. \A a, b, c \in Nat : a + c = b + c => a = b
    OBVIOUS
  <2> QED BY <2>1, <2>2, <2>3, <2>4, <2>5
<1>4. ASSUME Stored # {} PROVE last = Max(Stored)
  <2>1. \A t \in Stored : t <= last /\ t \in Int
    BY <1>1, LastStored DEF Rest
  <2>2. cur.status # EMPTY
    <3>1. ASSUME cur.status = EMPTY PROVE FALSE
      <4>1. Young /\ cur.sec = 0
        BY <1>1, <1>2, <3>1 DEF RingInv, Live, Rest, Current
      <4>2. \A s \in Sector : s = 0 \/ s > 0
        BY LastSector
      <4>3. \A s \in Sector : store[s] = EMPTY
        BY <1>2, <3>1, <4>1, <4>2 DEF Young
      <4>4. \A s \in Sector : logs[s] = <<>>
        BY <4>3 DEF SteadyInv, LogInv, HeldInv
      <4> QED BY <1>4, <4>4, StoredIs
    <3> QED BY <3>1
  <2>3. last \in Stored
    BY <1>1, <2>2, LastStored DEF Rest
  <2>4. Stored \in SUBSET Int /\ \A t \in Stored : t <= last
    BY <2>1
  <2> QED BY <2>3, <2>4, MaxIs
<1> QED BY <1>2, <1>3, <1>4

-----------------------------------------------------------------------------
(* The calls implement the set of TSLog *)

\* What the caller sees.
Seen == <<Stored, [kind |-> op.kind, time |-> op.time], ack>>

LEMMA StoredThen ==
    \A t : t \in Stored' <=> \E s \in Sector : \E i \in DOMAIN logs'[s] :
                              magic'[s] /\ Complete(logs'[s][i]) /\ t = logs'[s][i].time
BY DEF Stored, StoredIn, Done

\* A step keeps the logs that are complete.
LEMMA StoredSame ==
    ASSUME \A s \in Sector :
             /\ DOMAIN logs'[s] = DOMAIN logs[s]
             /\ \A i \in DOMAIN logs[s] :
                  /\ magic'[s] = magic[s] /\ logs'[s][i].time = logs[s][i].time
                  /\ Complete(logs'[s][i]) <=> Complete(logs[s][i])
    PROVE  Stored' = Stored
<1>1. \A t : t \in Stored' <=> t \in Stored
  BY StoredThen, StoredIs
<1> QED BY <1>1

LEMMA PromiseInit == Init => Promise!Init
<1> SUFFICES ASSUME Init PROVE Promise!Init
  OBVIOUS
<1>1. \A s \in Sector : ~magic[s]
  BY DEF Init
<1>2. Stored = {}
  BY <1>1, StoredIs
<1> QED BY <1>2 DEF Init, NoOp, Promise!Init, Promise!None

\* The steps that change nothing a caller sees.
LEMMA PromiseQuiet ==
    ASSUME SteadyInv,
           \/ BootFailed \/ Boot \/ BootHang \/ SetRollover \/ Hang
           \/ EndStatus \/ EndWrite \/ EndSkip \/ UsingStatus \/ WriteStart
           \/ UNCHANGED vars
    PROVE  UNCHANGED Seen
<1>1. UNCHANGED <<magic, logs, op, ack>>
  BY DEF BootFailed, Boot, BootHang, SetRollover, Hang, EndStatus, EndWrite, EndSkip, UsingStatus,
         WriteStart, vars, flash
<1>2. Stored' = Stored
  BY <1>1, StoredSame
<1> QED BY <1>1, <1>2 DEF Seen

\* A user's mark; and a header that is written to an erased sector.
LEMMA PromiseMark ==
    ASSUME SteadyInv, Mark \/ FmtHdr \/ FormatNext
    PROVE  UNCHANGED Seen
<1>1. CASE Mark
  <2>1. UNCHANGED <<magic, op, ack>>
    BY <1>1 DEF Mark, SetStatus
  <2>2. \A s \in Sector : /\ DOMAIN logs'[s] = DOMAIN logs[s]
                          /\ \A i \in DOMAIN logs[s] :
                               /\ logs'[s][i].time = logs[s][i].time
                               /\ Complete(logs'[s][i]) <=> Complete(logs[s][i])
    BY <1>1, MarkIs DEF SteadyInv, SameTimes
  <2>3. Stored' = Stored
    BY <2>1, <2>2, StoredSame
  <2> QED BY <2>1, <2>3 DEF Seen
<1>2. CASE FmtHdr \/ FormatNext
  <2> DEFINE s == IF FmtHdr THEN fmt ELSE cur.sec
  <2>1. /\ s \in Sector /\ store[s] = UNUSED /\ UNCHANGED <<logs, op, ack>>
        /\ \A t \in Sector : t # s => magic'[t] = magic[t]
    <3>1. CASE FmtHdr
      BY <3>1 DEF FmtHdr, SteadyInv, OneInv, Formatting, Types, WriteSectorHdr
    <3>2. CASE FormatNext /\ ~FmtHdr
      BY <3>2 DEF FormatNext, SteadyInv, OneInv, Taking, Types, WriteSectorHdr
    <3> QED BY <1>2, <3>1, <3>2
  <2> HIDE DEF s
  <2>2. logs[s] = <<>>
    BY <2>1 DEF SteadyInv, LogInv, HeldInv
  <2>3. Stored' = Stored
    BY <2>1, <2>2, StoredSame
  <2> QED BY <2>1, <2>3 DEF Seen
<1> QED BY <1>1, <1>2

\* A call begins, or its acknowledgement is forgotten.
LEMMA PromiseCall ==
    ASSUME SteadyInv,
           \/ \E len \in Lens, t \in Time : AppendTsl(len, t)
           \/ Clean \/ Deinit
    PROVE  Promise!Next \/ UNCHANGED Seen
<1>1. UNCHANGED <<magic, logs>> /\ ack' = FALSE /\ pc = "idle" /\ op = NoOp
  BY DEF AppendTsl, Clean, Deinit, flash, SteadyInv, Types, OpInv
<1>2. Stored' = Stored
  BY <1>1, StoredSame
<1>3. CASE \E len \in Lens, t \in Time : AppendTsl(len, t)
  <2>1. PICK len \in Lens, t \in Time : op' = [kind |-> "append", len |-> len, time |-> t]
    BY <1>3 DEF AppendTsl
  <2>2. [kind |-> op'.kind, time |-> op'.time] \in Promise!Requests
    BY <2>1 DEF Promise!Requests
  <2> QED BY <1>1, <1>2, <2>2 DEF Promise!Next, Promise!Begin, Promise!None, NoOp
<1>4. CASE Clean
  <2>1. op' = [kind |-> "clean", len |-> 0, time |-> 0]
    BY <1>4 DEF Clean, NoOp
  <2>2. [kind |-> op'.kind, time |-> op'.time] \in Promise!Requests
    BY <2>1 DEF Promise!Requests
  <2> QED BY <1>1, <1>2, <2>2 DEF Promise!Next, Promise!Begin, Promise!None, NoOp
<1>5. CASE Deinit
  <2>1. op' = op
    BY <1>5 DEF Deinit
  <2>2. ack \in BOOLEAN
    BY DEF SteadyInv, Types
  <2> QED BY <1>1, <1>2, <2>1, <2>2 DEF Promise!Next, Promise!Forget, Seen
<1> QED BY <1>3, <1>4, <1>5

\* A call that did nothing, and the end of a format.
LEMMA PromiseEnd ==
    ASSUME SteadyInv, Refuse \/ MarkFull \/ FmtDone
    PROVE  Promise!Next \/ UNCHANGED Seen
<1>1. UNCHANGED <<magic, logs>>
  BY DEF Refuse, MarkFull, FmtDone, flash
<1>2. Stored' = Stored
  BY <1>1, StoredSame
<1>3. CASE Refuse \/ MarkFull
  <2>1. \/ op' = op /\ ack' = ack
        \/ op' = NoOp /\ ack' = FALSE
    BY <1>3 DEF Refuse, MarkFull, Return
  <2>2. op.kind = "append"
    BY <1>3 DEF Refuse, MarkFull, SteadyInv, Types, OpInv, Appends
  <2>3. CASE op' = op /\ ack' = ack
    BY <1>2, <2>3 DEF Seen
  <2>4. CASE op' = NoOp /\ ack' = FALSE
    <3>1. op'.kind = "none" /\ op'.time = 0
      BY <2>4 DEF NoOp
    <3>2. [kind |-> op'.kind, time |-> op'.time] = Promise!None
      BY <3>1 DEF Promise!None
    <3>3. [kind |-> op.kind, time |-> op.time] # Promise!None
      BY <2>2 DEF Promise!None
    <3> QED BY <1>2, <2>4, <3>2, <3>3 DEF Promise!Next, Promise!End
  <2> QED BY <2>1, <2>3, <2>4
<1>4. CASE FmtDone
  <2>1. op' = NoOp /\ ack' = (op.kind = "clean") /\ op \in {NoOp, CleanOp}
    BY <1>4 DEF FmtDone, SteadyInv, Types, OpInv, Appends
  <2>2. Stored = {}
    <3>1. \A s \in Sector : store[s] = EMPTY
      BY <1>4 DEF FmtDone, SteadyInv, OneInv, Formatting, Formatted
    <3>2. \A s \in Sector : logs[s] = <<>>
      BY <3>1 DEF SteadyInv, LogInv, HeldInv
    <3> QED BY <3>2, StoredIs
  <2>3. CASE op = CleanOp
    <3>1. op.kind = "clean" /\ ack' = TRUE
      BY <2>1, <2>3 DEF CleanOp, NoOp
    <3> QED BY <1>2, <2>1, <2>2, <3>1 DEF Promise!Next, Promise!End, Promise!None, NoOp
  <2>4. CASE op = NoOp
    <3>1. ack' = FALSE /\ ack \in BOOLEAN
      BY <2>1, <2>4 DEF NoOp, SteadyInv, Types
    <3> QED BY <1>2, <2>1, <2>4, <3>1 DEF Promise!Next, Promise!Forget, Seen
  <2> QED BY <2>1, <2>3, <2>4
<1> QED BY <1>3, <1>4

\* The format of a clean takes logs away, the first format none.
LEMMA PromiseErase ==
    ASSUME SteadyInv, FmtErase
    PROVE  Promise!Next \/ UNCHANGED Seen
<1>1. pc = "fmtErase" /\ op' = op /\ ack' = ack /\ fmt \in Sector
  BY DEF FmtErase, SteadyInv, Types
<1>2. \A s \in Sector : \/ logs'[s] = logs[s] /\ magic'[s] = magic[s]
                        \/ DOMAIN logs'[s] = {}
  BY <1>1 DEF FmtErase, EraseSector, SteadyInv, Types, flash
<1>3. Stored' \subseteq Stored
  BY <1>2, StoredThen, StoredIs
<1>4. CASE op.kind = "clean"
  BY <1>1, <1>3, <1>4 DEF Promise!Next, Promise!Clear
<1>5. CASE op.kind # "clean"
  <2>1. \A s \in Sector : logs[s] = <<>>
    BY <1>1, <1>5 DEF SteadyInv, LogInv, HeldInv, Formats
  <2>2. Stored = {}
    BY <2>1, StoredIs
  <2> QED BY <1>1, <1>3, <2>2 DEF Seen
<1> QED BY <1>4, <1>5

\* The sector that is taken holds the earliest logs, and others hold some.
LEMMA PromiseDrop ==
    ASSUME SteadyInv, EraseNext
    PROVE  Promise!Next
<1> DEFINE c == cur.sec
<1>1. /\ pc = "erase" /\ UNCHANGED <<op, ack>> /\ c \in Sector /\ Round
      /\ \A s \in Sector : magic[s]
      /\ RingInv /\ HeldInv /\ OrderInv /\ Types
  BY DEF EraseNext, SteadyInv, LogInv, RingInv, Live, Current
<1>2. \A s \in Sector : IF s = c THEN DOMAIN logs'[s] = {} /\ ~magic'[s]
                        ELSE logs'[s] = logs[s] /\ magic'[s]
  BY <1>1 DEF EraseNext, EraseSector, Types
<1>3. \A s \in Sector : \A i \in DOMAIN logs[s] :
        Complete(logs[s][i]) /\ logs[s][i].time \in Nat
  <2>1. \A s \in Sector : \A i \in DOMAIN logs[s] : Complete(logs[s][i]) /\ logs[s][i] \in Tsl
    BY <1>1, LogFacts DEF OrderInv
  <2>2. \A r \in Tsl : r.time \in Nat
    <3>1. \A r \in Tsl : r.time \in Time
      BY DEF Tsl
    <3> QED BY <3>1, LenFacts
  <2> QED BY <2>1, <2>2
<1>4. \A t : t \in Stored' <=> \E s \in Sector : s # c /\ \E i \in DOMAIN logs[s] : t = logs[s][i].time
  BY <1>2, <1>3, StoredThen
<1>5. \A t : t \in Stored <=> \E s \in Sector : \E i \in DOMAIN logs[s] : t = logs[s][i].time
  BY <1>1, <1>3, StoredIs
<1>6. Stored' \in SUBSET Nat /\ Stored' # {}
  <2>1. PICK s \in Sector : s # c
    BY <1>1, NextSecType
  <2>2. logs[s] # <<>>
    BY <1>1, <2>1 DEF Round, HeldInv
  <2>3. Len(logs[s]) \in DOMAIN logs[s]
    BY <1>1, <2>2, LogFacts
  <2>4. Newest(s).time \in Stored'
    BY <1>4, <2>1, <2>3 DEF Newest
  <2> QED BY <1>3, <1>4, <2>4
<1>7. PICK from \in Stored' : \A t \in Stored' : from <= t
  BY <1>6, LeastNat
<1>8. Stored' = {t \in Stored : t >= from}
  <2>1. ASSUME NEW t \in Stored' PROVE t \in Stored /\ t >= from
    BY <1>4, <1>5, <1>6, <1>7
  <2>2. ASSUME NEW t \in Stored, t >= from PROVE t \in Stored'
    <3>1. PICK s \in Sector : \E i \in DOMAIN logs[s] : t = logs[s][i].time
      BY <1>5
    <3>2. PICK u \in Sector : u # c /\ \E j \in DOMAIN logs[u] : from = logs[u][j].time
      BY <1>4, <1>7
    <3>3. s = c => t < from
      BY <1>1, <3>1, <3>2 DEF OrderInv
    <3>4. t \in Nat /\ from \in Nat
      BY <1>3, <1>6, <1>7, <3>1
    <3> QED BY <1>4, <2>2, <3>1, <3>3, <3>4
  <2> QED BY <2>1, <2>2
<1>9. from \in Stored
  BY <1>4, <1>5, <1>7
<1>10. op.kind = "append"
  BY <1>1 DEF Types, OpInv, Appends
<1> QED BY <1>1, <1>8, <1>9, <1>10 DEF Promise!Next, Promise!Drop

\* A log counts as soon as its status says WRITE.
LEMMA PromiseWrite ==
    ASSUME SteadyInv, PreWrite \/ Commit
    PROVE  Promise!Next \/ UNCHANGED Seen
<1>0. Types /\ OneInv /\ RingInv /\ OrderInv /\ CurInv
  BY DEF SteadyInv, LogInv
<1>1. CASE PreWrite
  <2> DEFINE c == cur.sec
             k == Len(logs[c]) + 1
  <2>1. /\ c \in Sector
        /\ \A t \in Sector : t # c => logs'[t] = logs[t]
        /\ DOMAIN logs'[c] = 1 .. k
        /\ \A i \in DOMAIN logs[c] : logs'[c][i] = logs[c][i]
        /\ logs'[c][k].st = TSL_PRE_WRITE
    BY <1>0, <1>1, PreWriteIs
  <2>2. UNCHANGED <<magic, op, ack>>
    BY <1>1 DEF PreWrite
  <2>3. DOMAIN logs[c] \subseteq DOMAIN logs'[c] /\ \A i \in DOMAIN logs'[c] : i = k \/ i \in DOMAIN logs[c]
    BY <1>0, <2>1, LogFacts
  <2>4. ~Complete(logs'[c][k])
    BY <2>1 DEF Complete, TSL_PRE_WRITE, TSL_WRITE
  <2> HIDE DEF k
  <2>5. \A t : t \in Stored' <=> t \in Stored
    <3>1. ASSUME NEW t \in Stored' PROVE t \in Stored
      <4>1. PICK s \in Sector : \E i \in DOMAIN logs'[s] :
                              magic'[s] /\ Complete(logs'[s][i]) /\ t = logs'[s][i].time
        BY <3>1, StoredThen
      <4>2. PICK i \in DOMAIN logs'[s] : magic'[s] /\ Complete(logs'[s][i]) /\ t = logs'[s][i].time
        BY <4>1
      <4>3. ~(s = c /\ i = k)
        BY <2>4, <4>2
      <4>4. i \in DOMAIN logs[s] /\ logs'[s][i] = logs[s][i]
        BY <2>1, <2>3, <4>2, <4>3
      <4> QED BY <2>2, <4>2, <4>4, StoredIs
    <3>2. ASSUME NEW t \in Stored PROVE t \in Stored'
      <4>1. PICK s \in Sector : \E i \in DOMAIN logs[s] :
                              magic[s] /\ Complete(logs[s][i]) /\ t = logs[s][i].time
        BY <3>2, StoredIs
      <4>2. PICK i \in DOMAIN logs[s] : magic[s] /\ Complete(logs[s][i]) /\ t = logs[s][i].time
        BY <4>1
      <4>3. i \in DOMAIN logs'[s] /\ logs'[s][i] = logs[s][i]
        BY <2>1, <2>3, <4>2
      <4> QED BY <2>2, <4>2, <4>3, StoredThen
    <3> QED BY <3>1, <3>2
  <2>6. Stored' = Stored
    BY <2>5
  <2> QED BY <2>2, <2>6 DEF Seen
<1>2. CASE Commit
  <2>1. /\ SameTimes /\ cur.sec \in Sector
        /\ cur.n \in Nat /\ Len(logs[cur.sec]) = cur.n + 1
        /\ logs[cur.sec][cur.n + 1].time = op.time
        /\ logs'[cur.sec][cur.n + 1].st = TSL_WRITE
        /\ \A t \in Sector : \A i \in DOMAIN logs[t] :
             t # cur.sec \/ i # cur.n + 1 => logs'[t][i] = logs[t][i]
    BY <1>0, <1>2, CommitIs DEF Newest
  <2>2. /\ pc = "commit" /\ op' = NoOp /\ ack' = TRUE /\ magic' = magic /\ magic[cur.sec]
        /\ op.kind = "append"
    BY <1>0, <1>2 DEF Commit, Return, OneInv, Appending, Using, Types, OpInv, Appends
  <2>3. logs[cur.sec][cur.n + 1].st = TSL_PRE_WRITE
    BY <1>0, <2>1, <2>2 DEF CurInv, Newest
  <2>4. cur.n + 1 \in DOMAIN logs[cur.sec]
    BY <1>0, <2>1, LogFacts
  <2>5. /\ ~Complete(logs[cur.sec][cur.n + 1]) /\ Complete(logs'[cur.sec][cur.n + 1])
        /\ logs'[cur.sec][cur.n + 1].time = op.time
    BY <2>1, <2>3, <2>4 DEF Complete, TSL_PRE_WRITE, TSL_WRITE, SameTimes
  <2> DEFINE k == cur.n + 1
  <2> HIDE DEF k
  <2>6. /\ k \in DOMAIN logs[cur.sec] /\ ~Complete(logs[cur.sec][k]) /\ Complete(logs'[cur.sec][k])
        /\ logs'[cur.sec][k].time = op.time
        /\ \A t \in Sector : \A i \in DOMAIN logs[t] :
             t # cur.sec \/ i # k => logs'[t][i] = logs[t][i]
    BY <2>1, <2>4, <2>5 DEF k
  <2>7. \A t : t \in Stored' <=> t \in Stored \/ t = op.time
    <3>1. ASSUME NEW t \in Stored' PROVE t \in Stored \/ t = op.time
      <4>1. PICK s \in Sector : \E i \in DOMAIN logs'[s] :
                              magic'[s] /\ Complete(logs'[s][i]) /\ t = logs'[s][i].time
        BY <3>1, StoredThen
      <4>2. PICK i \in DOMAIN logs'[s] : magic'[s] /\ Complete(logs'[s][i]) /\ t = logs'[s][i].time
        BY <4>1
      <4>3. CASE s = cur.sec /\ i = k
        BY <2>6, <4>2, <4>3
      <4>4. CASE ~(s = cur.sec /\ i = k)
        <5>1. i \in DOMAIN logs[s] /\ logs'[s][i] = logs[s][i]
          BY <2>1, <2>6, <4>2, <4>4 DEF SameTimes
        <5> QED BY <2>2, <4>2, <5>1, StoredIs
      <4> QED BY <4>3, <4>4
    <3>2. ASSUME NEW t \in Stored PROVE t \in Stored'
      <4>1. PICK s \in Sector : \E i \in DOMAIN logs[s] :
                              magic[s] /\ Complete(logs[s][i]) /\ t = logs[s][i].time
        BY <3>2, StoredIs
      <4>2. PICK i \in DOMAIN logs[s] : magic[s] /\ Complete(logs[s][i]) /\ t = logs[s][i].time
        BY <4>1
      <4>3. i \in DOMAIN logs'[s] /\ logs'[s][i] = logs[s][i]
        BY <2>1, <2>6, <4>2 DEF SameTimes
      <4> QED BY <2>2, <4>2, <4>3, StoredThen
    <3>3. op.time \in Stored'
      <4>1. k \in DOMAIN logs'[cur.sec]
        BY <2>1, <2>6 DEF SameTimes
      <4> QED BY <2>1, <2>2, <2>6, <4>1, StoredThen
    <3> QED BY <3>1, <3>2, <3>3
  <2>8. Stored' = Stored \cup {op.time}
    BY <2>7
  <2>9. \A t \in Stored : t < op.time
    BY <2>2, CommitLater
  <2>10. [kind |-> op'.kind, time |-> op'.time] = Promise!None
    <3>1. op'.kind = "none" /\ op'.time = 0
      BY <2>2 DEF NoOp
    <3> QED BY <3>1 DEF Promise!None
  <2> QED BY <2>2, <2>8, <2>9, <2>10 DEF Promise!Next, Promise!Add
<1> QED BY <1>1, <1>2

LEMMA PromiseNext ==
    ASSUME SteadyInv, Steady, [Next]_vars
    PROVE  Promise!Next \/ UNCHANGED Seen
<1>1. CASE UNCHANGED vars
  BY <1>1, PromiseQuiet
<1>2. CASE Next
  <2>1. ~StrayWrite
    BY DEF StrayWrite, SteadyInv, LogInv, RingInv
  <2>2. ~Crash
    <3>1. crashes = 0
      BY DEF SteadyInv, Types, Steady
    <3> QED BY <3>1 DEF Crash, Steady
  <2>3. CASE BootFailed \/ Boot \/ BootHang \/ SetRollover \/ Hang
             \/ EndStatus \/ EndWrite \/ EndSkip \/ UsingStatus \/ WriteStart
    BY <2>3, PromiseQuiet
  <2>4. CASE Mark \/ FmtHdr \/ FormatNext
    BY <2>4, PromiseMark
  <2>5. CASE (\E len \in Lens, t \in Time : AppendTsl(len, t)) \/ Clean \/ Deinit
    BY <2>5, PromiseCall
  <2>6. CASE Refuse \/ MarkFull \/ FmtDone
    BY <2>6, PromiseEnd
  <2>7. CASE FmtErase
    BY <2>7, PromiseErase
  <2>8. CASE EraseNext
    BY <2>8, PromiseDrop
  <2>9. CASE PreWrite \/ Commit
    BY <2>9, PromiseWrite
  <2> QED BY <1>2, <2>1, <2>2, <2>3, <2>4, <2>5, <2>6, <2>7, <2>8, <2>9
       DEF Next, Step, Call, TakeSector, FormatAll
<1> QED BY <1>1, <1>2

-----------------------------------------------------------------------------
(* The theorems, as long as the power stays *)

\* Between calls the logs are in the order of their timestamps, from the
\* oldest sector on (fdb_tsl_append_with_ts, update_sec_status): what
\* fdb_tsl_iter and the search by time rely on.
THEOREM LogsOrdered == ASSUME Steady PROVE Spec => []Ordered
BY SteadyAlways, OrderedIs, PTL

\* A full sector has the end node of its last log (update_sec_status), which
\* the iterators and the search take for its end.
THEOREM EndNodes == ASSUME Steady PROVE Spec => []EndNodesRight
BY SteadyAlways, EndNodesAre, PTL

\* A database that is ready has a current and an oldest sector
\* (fdb_tsdb_init, update_sec_status), as long as who switches the rollover
\* off does not start it again.
THEOREM CurrentThere == ASSUME Steady PROVE Spec => []HasCurrent
BY SteadyAlways, CurrentIs, PTL

\* A log is accepted only when it is later than all that are stored
\* (tsl_append), those of earlier starts included.
THEOREM AcceptedLater == ASSUME Steady PROVE Spec => LaterOnly
<1>1. SteadyInv /\ [Next]_vars => [pc = "commit" /\ pc' = "idle" => \A t \in Stored : t < op.time]_vars
  BY CommitLater
<1> QED BY <1>1, SteadyAlways, PTL DEF Spec, LaterOnly

\* fdb_tsdb_init formats the sectors only while they hold no log.
THEOREM NothingFormatted == ASSUME Steady PROVE Spec => FormatsBlankOnly
<1>1. SteadyInv /\ [Next]_vars =>
        [(pc \in {"off", "down"} /\ pc' = "fmtErase") => Stored = {}]_vars
  BY RestartKeeps
<1> QED BY <1>1, SteadyAlways, PTL DEF Spec, FormatsBlankOnly

\* An append is refused when it comes too late, or when all sectors are full
\* and the rollover is off (tsl_append, update_sec_status).
THEOREM RefusedRightly == ASSUME Steady PROVE Spec => RefusedForReason
<1>1. Init => RefuseInv
  BY DEF Init, RefuseInv
<1>2. SteadyInv /\ RefuseInv /\ [Next]_vars => RefuseInv'
  BY RefuseNext DEF SteadyInv
<1>3. SteadyInv /\ RefuseInv /\ [Next]_vars =>
        [pc = "refuse" => \/ \E t \in Stored : t >= op.time
                          \/ \A s \in Sector : store[s] = FULL]_vars
  BY RefusedIs
<1> QED BY <1>1, <1>2, <1>3, SteadyAlways, PTL DEF Spec, RefusedForReason

\* Between two calls db->cur_sec and db->last_time are what a fresh start
\* would read from the flash (tsl_append, update_sec_status, fdb_tsdb_init),
\* the room in the sector to the unit, as long as every log has room in an
\* empty sector.
THEOREM CurrentTold == ASSUME Steady, RoomForEach PROVE Spec => []CurAgrees
<1>1. Init => SpaceInv /\ RoomInv
  BY SpaceInit, RoomInit
<1>2. SteadyInv /\ SpaceInv /\ RoomInv /\ [Next]_vars => SpaceInv' /\ RoomInv'
  BY SpaceNext, RoomNext DEF SteadyInv
<1>3. SteadyInv /\ SpaceInv /\ RoomInv => CurAgrees
  BY CurAgreesIs
<1> QED BY <1>1, <1>2, <1>3, SteadyAlways, PTL DEF Spec

\* The calls implement the set of TSLog: a log that was acknowledged stays
\* until a later append takes the sector of the earliest logs, never all of
\* them, or fdb_tsl_clean takes all (tsl_append, update_sec_status,
\* tsl_format_all, fdb_tsdb_init, fdb_tsdb_deinit).
THEOREM CallsAtomic == ASSUME Steady PROVE Spec => Atomic
<1>1. SteadyInv /\ [Next]_vars => [Promise!Next]_Seen
  BY PromiseNext
<1> QED BY <1>1, PromiseInit, SteadyAlways, PTL DEF Spec, Atomic, Promise!Spec, Seen
================================================================================
