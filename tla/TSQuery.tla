------------------------------- MODULE TSQuery -------------------------------
(***************************************************************************)
(* What the iterators of fdb_tsdb.c report: fdb_tsl_iter,                  *)
(* fdb_tsl_iter_reverse and fdb_tsl_iter_by_time with its binary search,   *)
(* as functions of the flash and of db->cur_sec.                           *)
(***************************************************************************)
EXTENDS TSProps

CONSTANT DataAsTsl  \* what bytes that are no index entry look like

\* An entry that is not there, or not complete, has time 0.
Blank == [st |-> TSL_UNUSED, time |-> 0]

\* read_tsl at slot i of sector s, counted from 0.  Behind the last entry is
\* free space or, in a sector filled to the last unit, the data of a log;
\* before the first is the sector header.
Slot(s, i) ==
    IF i \in 0 .. Len(logs[s]) - 1
    THEN LET r == logs[s][i + 1] IN
         [st |-> r.st, time |-> TslTime(r)]
    ELSE IF i >= 0 /\ Room(s) > 0 THEN Blank ELSE DataAsTsl

\* The sector structure an iterator works with.
Info(s) == IF store[s] = USING THEN cur ELSE ReadHdr(NoInfo, s)
EndSlot(s) == IF Info(s).end[1] = s THEN Info(s).end[2] ELSE 0

HasTsl(s) == magic[s] /\ store[s] \in {USING, FULL}

\* get_next_sector_addr and get_last_sector_addr, as often as there are
\* sectors.
Forward(base)  == [k \in 1 .. SecNum |-> (base + k - 1) % SecNum]
\* Mutated form: sector 0 is not followed by the last one.
Backward_NoWrap(base) == [k \in 1 .. SecNum |-> IF k <= base + 1 THEN base - k + 1 ELSE 0]
Backward(base) == [k \in 1 .. SecNum |-> (base - k + 1 + SecNum) % SecNum]

Visit(s) == [k \in 1 .. EndSlot(s) + 1 |-> Slot(s, k - 1)]

\* fdb_tsl_iter.  An oldest address that is no sector's leads nowhere.
IterFrom(base) ==
    IF base = NoSec THEN <<>>
    ELSE FlattenSeq([k \in 1 .. SecNum |->
           LET s == Forward(base)[k] IN IF HasTsl(s) THEN Visit(s) ELSE <<>>])
Iter == IterFrom(oldest)

\* fdb_tsl_iter_reverse: the first sector without logs ends it.
IterReverseFrom(base) ==
    LET sectors == Backward(base)
        stops == {k \in 1 .. SecNum : magic[sectors[k]] /\ ~HasTsl(sectors[k])}
        upTo == IF stops = {} THEN SecNum ELSE Min(stops) - 1
    IN IF base = NoSec THEN <<>>
       ELSE FlattenSeq([k \in 1 .. upTo |->
              IF HasTsl(sectors[k]) THEN Reverse(Visit(sectors[k])) ELSE <<>>])
IterReverse == IterReverseFrom(cur.sec)

-----------------------------------------------------------------------------
(* fdb_tsl_iter_by_time *)

\* search_start_tsl_addr: the slots lo .. hi are left, the middle is rounded
\* up.
Mid(r) == r.lo + (r.hi - r.lo + 1) \div 2

\* One round of the loop; it ends when no slot is left or `from' is found.
Halve(s, from, r) ==
    IF r.lo > r.hi \/ Slot(s, Mid(r)).time = from THEN r
    ELSE IF Slot(s, Mid(r)).time < from THEN [r EXCEPT !.lo = Mid(r) + 1]
    ELSE [r EXCEPT !.hi = Mid(r) - 1]

Search(s, from, to) ==
    LET left[n \in 0 .. EndSlot(s) + 1] ==
            IF n = 0 THEN [lo |-> 0, hi |-> EndSlot(s)] ELSE Halve(s, from, left[n - 1])
        r == left[EndSlot(s) + 1]
    IN IF r.lo <= r.hi THEN Mid(r)
       ELSE IF from > to /\ Slot(s, r.lo).time > from THEN r.lo - 1 ELSE r.lo

InRange(t, from, to) == IF from <= to THEN t \in from .. to ELSE t \in to .. from

\* The entries from slot i on, to the end of the sector or back to its start.
Path(s, i, from, to) ==
    IF from <= to
    THEN [k \in 1 .. Max({EndSlot(s) - i, 0}) + 1 |-> Slot(s, i + k - 1)]
    ELSE [k \in 1 .. Max({i, 0}) + 1 |-> Slot(s, i - k + 1)]

\* What is reported of them, and whether one that is out of the range ended
\* the iteration.
Walk(s, i, from, to) ==
    LET path == Path(s, i, from, to)
        outside == {k \in DOMAIN path : /\ path[k].st # TSL_UNUSED
                                        /\ ~InRange(path[k].time, from, to)}
        upTo == IF outside = {} THEN Len(path) ELSE Min(outside) - 1
    IN [out |-> FlattenSeq([k \in 1 .. upTo |->
                  IF path[k].st = TSL_UNUSED THEN <<>> ELSE <<path[k]>>]),
        exit |-> outside # {}]

\* Whether the first log of the range is to be looked for in this sector.
\* Mutated form: the start time of the sector is not looked at.
Starts_ByEndOnly(s, first, from, to) ==
    IF from <= to THEN from <= Info(s).endTime ELSE from >= Info(s).endTime
Starts(s, first, from, to) ==
    IF from <= to
    THEN (first /\ from <= Info(s).start) \/ from <= Info(s).endTime
    ELSE (first /\ from >= Info(s).endTime) \/ from >= Info(s).start

\* What the sector s adds.
Report(acc, s, base, from, to) ==
    IF acc.exit \/ ~magic[s] THEN acc
    ELSE IF HasTsl(s)
    THEN IF acc.found \/ Starts(s, s = base, from, to)
         THEN LET w == Walk(s, Search(s, from, to), from, to)
              IN [found |-> TRUE, exit |-> w.exit, out |-> acc.out \o w.out]
         ELSE acc
    ELSE [acc EXCEPT !.exit = store[s] = EMPTY]

ByTimeFrom(base, from, to) ==
    LET sectors == IF from <= to THEN Forward(base) ELSE Backward(base)
        after[k \in 0 .. SecNum] ==
            IF k = 0 THEN [found |-> FALSE, exit |-> FALSE, out |-> <<>>]
            ELSE Report(after[k - 1], sectors[k], base, from, to)
    IN IF base = NoSec THEN <<>> ELSE after[SecNum].out

ByTime(from, to) == ByTimeFrom(IF from <= to THEN oldest ELSE cur.sec, from, to)

-----------------------------------------------------------------------------
(* Properties *)

Times(q) == [k \in DOMAIN q |-> q[k].time]

\* q lists the numbers of S once each, in ascending or descending order.
Ascends(q, S) == ToSet(q) = S /\ \A j \in DOMAIN q : \A i \in 1 .. j - 1 : q[i] < q[j]
Descends(q, S) == ToSet(q) = S /\ \A j \in DOMAIN q : \A i \in 1 .. j - 1 : q[i] > q[j]

\* fdb_tsl_iter and fdb_tsl_iter_reverse report every log once, in the order
\* of the timestamps (fdb_tsdb.c:478 "The TSDB iterator for each TSL").
IterExact == Idle => Ascends(Times(Iter), Stored) /\ Descends(Times(IterReverse), Stored)

\* fdb_tsl_iter_by_time reports the logs of the range and no other, forwards
\* or, when `to' is less than `from', backwards.
ByTimeExact ==
    Idle => \A from, to \in 0 .. MaxTime + 1 :
        IF from <= to THEN Ascends(Times(ByTime(from, to)), Stored \cap (from .. to))
        ELSE Descends(Times(ByTime(from, to)), Stored \cap (to .. from))

\* The iterators read oldest_addr and cur_sec.addr before they wait for the
\* lock (fdb_tsdb.c:497, 547), and other tasks may roll over before they get
\* it.  From any sector that was the oldest fdb_tsl_iter still reports every
\* log once, and in order but for one step back; from any sector that was the
\* current one fdb_tsl_iter_reverse first reports, in order, every log that
\* is not later than that sector's.
StaleBaseComplete ==
    Idle => \A base \in Sector :
        /\ LET q == Times(IterFrom(base)) IN
           /\ ToSet(q) = Stored /\ Len(q) = Cardinality(Stored)
           /\ Cardinality({k \in 1 .. Len(q) - 1 : q[k] > q[k + 1]}) <= 1
        /\ HasTsl(base) =>
             LET before == UNION {StoredIn(s) : s \in {t \in Sector : Rank(oldest, t) <= Rank(oldest, base)}}
                 q == Times(IterReverseFrom(base))
             IN \E n \in 0 .. Len(q) : Descends(SubSeq(q, 1, n), before)

\* fdb_tsl_iter_by_time, which waited for the lock while an append took the
\* oldest sector, reports the logs that were there before (fdb_tsdb.c:611
\* "The TSDB iterator for each TSL by timestamp").
StaleRange ==
    Idle /\ (\A s \in Sector : HasTsl(s)) =>
        \A from, to \in 1 .. start[cur.sec] - 1 : from <= to =>
            Stored \cap (from .. to) \subseteq ToSet(Times(ByTimeFrom(cur.sec, from, to)))

\* ... at least, every log is among those reported for the full range.
ByTimeComplete ==
    Idle => \A t \in Stored : \E k \in DOMAIN ByTime(1, MaxTime) : ByTime(1, MaxTime)[k].time = t

\* The same of fdb_tsl_iter alone: a log that was acknowledged is reported.
IterComplete == Idle => \A t \in Stored : \E k \in DOMAIN Iter : Iter[k].time = t
\* fdb_tsl_iter_reverse reports every log.
ReverseComplete == Idle => \A t \in Stored : \E k \in DOMAIN IterReverse : IterReverse[k].time = t
=============================================================================
