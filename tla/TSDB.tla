-------------------------------- MODULE TSDB --------------------------------
(***************************************************************************)
(* The time series database of src/components/FlashDB/src/fdb_tsdb.c.      *)
(* Logs are appended to the USING sector: their index entries from the     *)
(* top, their data from the bottom.  A sector without room becomes FULL    *)
(* and the next one in the ring is taken, erased first if it is in use.    *)
(* One action is one write to the flash with the reads that lead up to it, *)
(* and Crash may follow any of them.                                       *)
(*                                                                         *)
(* Sizes are counted in index entries: a log with n units of data takes    *)
(* n + 1 of the Cap units behind a sector header.                          *)
(***************************************************************************)
EXTENDS Integers, Sequences, FiniteSets, SequencesExt

CONSTANTS
    SecNum,         \* sectors of the partition
    Cap,            \* db_sec_size - SECTOR_HDR_DATA_SIZE
    MaxLen,         \* db->max_len
    Lens,           \* bound: the sizes of the logs that are appended
    MaxTime,        \* bound: timestamps are 1 .. MaxTime
    Garbage,        \* what an end_time that was never set may hold
    UserStatus,     \* bound: the statuses users give to logs
    Rollovers,      \* bound: what users set db->rollover to
    NotFormatable,  \* FDB_TSDB_CTRL_SET_NOT_FORMAT
    Restarts,       \* bound: whether fdb_tsdb_deinit is called
    MaxClean,       \* bound: how often fdb_tsl_clean is called
    MaxCrash,       \* bound: how often the power fails
    SizeMod         \* 2 ^ (bits of size_t), scaled down

ASSUME SecAssumption == SecNum \in Nat /\ SecNum >= 2 /\ Cap \in Nat
\* FDB_ASSERT(max_len < db_sec_size(db)), with a header of one unit
ASSUME LenAssumption == MaxLen \in 1 .. Cap /\ Lens \subseteq 1 .. MaxLen /\ SizeMod \in Nat /\ SizeMod > Cap
ASSUME TimeAssumption == MaxTime \in Nat /\ Garbage \subseteq Int /\ Garbage # {}
ASSUME OptionAssumption ==
    /\ Rollovers \in SUBSET BOOLEAN /\ NotFormatable \in BOOLEAN /\ Restarts \in BOOLEAN
    /\ MaxClean \in Nat /\ MaxCrash \in Nat

\* The sum of a sequence of numbers.
Total(w) ==
    LET sum[n \in 0 .. Len(w)] == IF n = 0 THEN 0 ELSE sum[n - 1] + w[n]
    IN sum[Len(w)]

Sector == 0 .. SecNum - 1
NoSec  == -1        \* FDB_DATA_UNUSED as an address
Time   == 1 .. MaxTime
NoTime == -1        \* 0xFFFFFFFF as a fdb_time_t

\* fdb_sector_store_status_t and fdb_tsl_status_t
UNUSED == 0
EMPTY  == 1
USING  == 2
FULL   == 3
TSL_UNUSED       == 0
TSL_PRE_WRITE    == 1
TSL_WRITE        == 2
TSL_USER_STATUS1 == 3
TSL_DELETED      == 4
TSL_USER_STATUS2 == 5
ASSUME StatusAssumption == UserStatus \subseteq TSL_UNUSED .. TSL_USER_STATUS2

\* Programming status n over status m on NOR flash.
WriteStatus(m, n) == IF n > m THEN n ELSE m

VARIABLES
    magic, store,   \* the flash: sector headers,
    start,          \* their start_time
    ends,           \* and end_info[2],
    logs,           \* and the index entries with their data
    oldest,         \* db->parent.oldest_addr
    cur,            \* db->cur_sec
    last,           \* db->last_time
    rollover,       \* db->rollover
    pc,             \* the write to make next
    op,             \* the API call being served
    ack,            \* the last call returned FDB_NO_ERR
    fmt,            \* the position of tsl_format_all
    crashes, cleans

flash == <<magic, store, start, ends, logs>>
ram   == <<oldest, cur, last, rollover>>
bound == <<crashes, cleans>>
vars  == <<flash, ram, pc, op, ack, fmt, bound>>

NoOp == [kind |-> "none", len |-> 0, time |-> 0]
NoEnd == [st |-> TSL_UNUSED, time |-> NoTime, slot |-> -1]
NoEnds == <<NoEnd, NoEnd>>
NoPlace == <<NoSec, -1>>
NoInfo == [sec |-> NoSec, status |-> UNUSED, start |-> 0, st |-> <<TSL_UNUSED, TSL_UNUSED>>,
           endTime |-> 0, end |-> NoPlace, n |-> 0, room |-> 0]

\* Mutated form: no roll back to the first sector.
NextSec_NoWrap(s) == s + 1
NextSec(s) == IF s + 1 < SecNum THEN s + 1 ELSE 0
PrevSec(s) == IF s = 0 THEN SecNum - 1 ELSE s - 1

-----------------------------------------------------------------------------
(* read_tsl and read_sector_info *)

\* Mutated form: a log that a user has marked is not complete.
Complete_WriteOnly(r) == r.st = TSL_WRITE
Complete(r) == r.st >= TSL_WRITE
TslTime(r) == IF Complete(r) THEN r.time ELSE 0
\* Mutated form: an entry that is not complete takes no space.
ReadLen_Zero(r) == IF Complete(r) THEN r.len ELSE 0
\* An entry that is not complete counts as long as a log can be.
ReadLen(r) == IF Complete(r) THEN r.len ELSE MaxLen

Used(q) == Total([i \in DOMAIN q |-> 1 + ReadLen(q[i])])
\* A sector that is filled to the last unit is `out of bound' like an overfull one.
Room(s) == IF Used(logs[s]) < Cap THEN Cap - Used(logs[s]) ELSE 0

\* Mutated form: the second end node is never looked at.
EndInfo_First(s) == IF ends[s][1].st = TSL_WRITE THEN {ends[s][1]} ELSE {}
\* end_info[0] if it is complete, else end_info[1]
EndInfo(s) == IF ends[s][1].st = TSL_WRITE THEN {ends[s][1]}
              ELSE IF ends[s][2].st = TSL_WRITE THEN {ends[s][2]} ELSE {}

\* read_sector_info(.., traversal = false) into a structure that holds `info':
\* what the header does not say stays as it was.
ReadHdr(info, s) ==
    IF ~magic[s] THEN [info EXCEPT !.sec = s]
    ELSE [sec |-> s, status |-> store[s], start |-> start[s],
          st |-> <<ends[s][1].st, ends[s][2].st>>,
          endTime |-> IF EndInfo(s) = {} THEN info.endTime
                      ELSE (CHOOSE e \in EndInfo(s) : TRUE).time,
          end |-> IF EndInfo(s) = {} THEN info.end
                  ELSE <<s, (CHOOSE e \in EndInfo(s) : TRUE).slot>>,
          n |-> 0, room |-> Cap]

\* The entries that set end_time.  Mutated form: all of them.
Timed_All(s) == DOMAIN logs[s]
Timed(s) == {i \in DOMAIN logs[s] : Complete(logs[s][i])}

\* read_sector_info(.., traversal = true)
ReadAll(info, s) ==
    LET h == ReadHdr(info, s) IN
    IF ~magic[s] \/ store[s] # USING THEN h
    ELSE [h EXCEPT !.n = Len(logs[s]), !.room = Room(s),
                   !.endTime = IF Timed(s) = {} THEN @ ELSE TslTime(logs[s][Max(Timed(s))]),
                   !.end = IF logs[s] = <<>> THEN @ ELSE <<s, Len(logs[s]) - 1>>]

\* FDB_ASSERT(0) in read_sector_info: neither end node is readable.
\* Mutated form: one that was not finished is enough.
NoValidEnd_Either(s) == magic[s] /\ ends[s][1].st = TSL_PRE_WRITE /\ ends[s][2].st # TSL_WRITE
NoValidEnd(s) == magic[s] /\ ends[s][1].st = TSL_PRE_WRITE /\ ends[s][2].st = TSL_PRE_WRITE

-----------------------------------------------------------------------------
(* format_sector *)

EraseSector(s) ==
    /\ magic' = [magic EXCEPT ![s] = FALSE]
    /\ store' = [store EXCEPT ![s] = UNUSED]
    /\ start' = [start EXCEPT ![s] = NoTime]
    /\ ends'  = [ends EXCEPT ![s] = NoEnds]
    /\ logs'  = [logs EXCEPT ![s] = <<>>]

\* The status and, behind it, the magic word.
WriteSectorHdr(s) ==
    /\ magic' = [magic EXCEPT ![s] = TRUE]
    /\ store' = [store EXCEPT ![s] = WriteStatus(@, EMPTY)]
    /\ UNCHANGED <<start, ends, logs>>

-----------------------------------------------------------------------------
(* Power-up and fdb_tsdb_init *)

\* check_sec_hdr_cb stops at such a sector.
BadSector(s) ==
    \/ ~magic[s]
    \/ store[s] = USING /\ \E t \in 0 .. s - 1 : store[t] \in {EMPTY, USING}
Failed == \E s \in Sector : BadSector(s)
Hangs  == \E s \in Sector : NoValidEnd(s) /\ \A t \in 0 .. s - 1 : ~BadSector(t)

Empties == {s \in Sector : store[s] = EMPTY}
InUse   == {s \in Sector : store[s] = USING}
\* Mutated form: an empty sector is preferred to the one in use.
BootSec_EmptyFirst == IF Empties # {} THEN Min(Empties)
                      ELSE IF InUse # {} THEN CHOOSE s \in InUse : TRUE ELSE NoSec
\* Mutated form: no empty sector is taken.
BootSec_UsingOnly == IF InUse # {} THEN CHOOSE s \in InUse : TRUE ELSE NoSec
BootSec == IF InUse # {} THEN CHOOSE s \in InUse : TRUE
           ELSE IF Empties # {} THEN Min(Empties) ELSE NoSec
\* The rollover flag was set a few lines before it is asked for: a database
\* without an empty sector always takes cur_sec for the latest.
Latest == IF Empties # {} THEN Max(Empties) ELSE BootSec

\* What is in the local sector structure when sector s has been read into it:
\* its end node, or that of the last sector before it that has one.
Leftover(s, g) ==
    LET before == {t \in 0 .. s - 1 : EndInfo(t) # {}} IN
    IF before = {} THEN [NoInfo EXCEPT !.endTime = g]
    ELSE ReadHdr(NoInfo, Max(before))

\* `get last save time': info is what was read of BootSec.
\* Mutated form: the sector before an empty one is not asked.
BootLast_UsingOnly(info) == IF store[BootSec] = USING THEN info.endTime ELSE last
BootLast(info) ==
    IF store[BootSec] = USING THEN info.endTime
    ELSE IF NextSec(Latest) # BootSec THEN ReadHdr(NoInfo, PrevSec(BootSec)).endTime
    ELSE last

BootHang ==
    /\ pc \in {"off", "down"} /\ Hangs
    /\ pc' = "hung"
    /\ UNCHANGED <<flash, ram, op, ack, fmt, bound>>

\* FDB_ASSERT(0) is `while (1)'.
Hang == pc = "hung" /\ UNCHANGED vars

\* A bad sector: all are formatted, or init gives up with the lock taken.
BootFailed ==
    /\ pc \in {"off", "down"} /\ ~Hangs /\ Failed
    /\ rollover' = TRUE
    /\ oldest' = NoSec
    /\ cur' = [cur EXCEPT !.sec = NoSec]
    /\ pc' = IF NotFormatable THEN "failed" ELSE "fmtErase"
    /\ fmt' = 0
    /\ UNCHANGED <<flash, last, op, ack, bound>>

Boot ==
    /\ pc \in {"off", "down"} /\ ~Hangs /\ ~Failed
    /\ rollover' = TRUE
    /\ IF BootSec = NoSec
       THEN /\ oldest' = NoSec
            /\ cur' = [cur EXCEPT !.sec = NoSec]
            /\ UNCHANGED last
       ELSE /\ oldest' = NextSec(Latest)
            /\ \E g \in Garbage : cur' = ReadAll(Leftover(BootSec, g), BootSec)
            /\ last' = BootLast(cur')
    /\ pc' = "idle"
    /\ UNCHANGED <<flash, op, ack, fmt, bound>>

-----------------------------------------------------------------------------
(* tsl_format_all, for fdb_tsdb_init and fdb_tsl_clean *)

FmtErase ==
    /\ pc = "fmtErase"
    /\ IF NoValidEnd(fmt)  \* its header is read first
       THEN pc' = "hung" /\ UNCHANGED flash
       ELSE EraseSector(fmt) /\ pc' = "fmtHdr"
    /\ UNCHANGED <<ram, op, ack, fmt, bound>>

\* get_next_sector_addr ends the loop.  Mutated form: the length that was
\* traversed is not looked at.
Traversed_Never(s) == FALSE
Traversed(s) == s + 1 = SecNum

FmtHdr ==
    /\ pc = "fmtHdr"
    /\ WriteSectorHdr(fmt)
    /\ pc' = IF Traversed(fmt) THEN "fmtDone" ELSE "fmtErase"
    /\ fmt' = NextSec(fmt)
    /\ UNCHANGED <<ram, op, ack, bound>>

\* Mutated form: last_time is not reset.
FmtDone_KeepsLast ==
    /\ pc = "fmtDone"
    /\ oldest' = 0 /\ last' = last
    /\ cur' = ReadHdr(cur, 0)
    /\ pc' = "idle" /\ op' = NoOp /\ ack' = (op.kind = "clean")
    /\ UNCHANGED <<flash, rollover, fmt, bound>>

FmtDone ==
    /\ pc = "fmtDone"
    /\ oldest' = 0 /\ last' = 0
    /\ cur' = ReadHdr(cur, 0)
    /\ pc' = "idle" /\ op' = NoOp /\ ack' = (op.kind = "clean")
    /\ UNCHANGED <<flash, rollover, fmt, bound>>

-----------------------------------------------------------------------------
(* tsl_append *)

Return(ok) == pc' = "idle" /\ op' = NoOp /\ ack' = ok

\* Mutated form: the same timestamp twice.
InOrder_Equal(t) == t >= last

InOrder(t) == t > last
NoRoom(len) == cur.status = USING /\ cur.room < 1 + len

\* fdb_tsl_append and fdb_tsl_append_with_ts.  A log that is too long is
\* refused before anything else; here len <= MaxLen.
AppendTsl(len, t) ==
    /\ pc = "idle"
    /\ op' = [kind |-> "append", len |-> len, time |-> t]
    /\ ack' = FALSE
    /\ pc' = IF ~InOrder(t) \/ cur.status = FULL THEN "refuse"
             ELSE IF NoRoom(len) THEN "end"
             ELSE CASE cur.status = EMPTY -> "using"
                    [] cur.status = USING -> "preWrite"
                    [] OTHER              -> "stray"
    /\ UNCHANGED <<flash, ram, fmt, bound>>

\* FDB_WRITE_ERR or FDB_SAVED_FULL
Refuse ==
    /\ pc = "refuse"
    /\ Return(FALSE)
    /\ UNCHANGED <<flash, ram, fmt, bound>>

-----------------------------------------------------------------------------
(* update_sec_status: close the current sector and take the next one *)

\* The end node that is still free, as the last reading of the header had it.
FreeEnd == IF cur.st[1] = TSL_UNUSED THEN 1 ELSE IF cur.st[2] = TSL_UNUSED THEN 2 ELSE 0

EndStatus ==
    /\ pc = "end" /\ FreeEnd # 0
    /\ ends' = [ends EXCEPT ![cur.sec][FreeEnd].st = WriteStatus(@, TSL_PRE_WRITE)]
    /\ pc' = "endWrite"
    /\ UNCHANGED <<magic, store, start, logs, ram, op, ack, fmt, bound>>

\* Mutated form: where the next entry would go.
EndIndex_Next == cur.n
EndIndex == cur.n - 1

EndWrite ==
    /\ pc = "endWrite"
    /\ ends' = [ends EXCEPT ![cur.sec][FreeEnd] =
                  [st |-> TSL_WRITE, time |-> last, slot |-> EndIndex]]
    /\ pc' = "full"
    /\ UNCHANGED <<magic, store, start, logs, ram, op, ack, fmt, bound>>

EndSkip ==
    /\ pc = "end" /\ FreeEnd = 0
    /\ pc' = "full"
    /\ UNCHANGED <<flash, ram, op, ack, fmt, bound>>

\* Mutated form: the sector behind the new one is not made the oldest.
AfterNew_Same(s) == oldest
AfterNew(s) == NextSec(s)

\* Either the ring goes on with the next sector, or the database is full.
MarkFull ==
    /\ pc = "full"
    /\ store' = [store EXCEPT ![cur.sec] = WriteStatus(@, FULL)]
    /\ LET next == NextSec(cur.sec)
           read == ReadHdr([cur EXCEPT !.status = FULL], next)
       IN IF next = 0 /\ ~rollover
          THEN cur' = [cur EXCEPT !.status = FULL] /\ Return(FALSE) /\ UNCHANGED oldest
          ELSE /\ cur' = read
               /\ IF read.status = EMPTY THEN pc' = "using" /\ UNCHANGED oldest
                  ELSE pc' = "erase" /\ oldest' = AfterNew(next)
               /\ UNCHANGED <<op, ack>>
    /\ UNCHANGED <<magic, start, ends, logs, last, rollover, fmt, bound>>

EraseNext ==
    /\ pc = "erase"
    /\ EraseSector(cur.sec)
    /\ pc' = "format"
    /\ UNCHANGED <<ram, op, ack, fmt, bound>>

FormatNext ==
    /\ pc = "format"
    /\ WriteSectorHdr(cur.sec)
    /\ cur' = [cur EXCEPT !.status = EMPTY, !.start = NoTime,
                         !.st = <<TSL_UNUSED, TSL_UNUSED>>, !.n = 0, !.room = Cap]
    /\ pc' = "using"
    /\ UNCHANGED <<oldest, last, rollover, op, ack, fmt, bound>>

UsingStatus ==
    /\ pc = "using"
    /\ store' = [store EXCEPT ![cur.sec] = WriteStatus(@, USING)]
    /\ cur' = [cur EXCEPT !.status = USING, !.start = op.time]
    /\ pc' = "startTime"
    /\ UNCHANGED <<magic, start, ends, logs, oldest, last, rollover, op, ack, fmt, bound>>

WriteStart ==
    /\ pc = "startTime"
    /\ start' = [start EXCEPT ![cur.sec] = op.time]
    /\ pc' = "preWrite"
    /\ UNCHANGED <<magic, store, ends, logs, ram, op, ack, fmt, bound>>

-----------------------------------------------------------------------------
(* write_tsl and what tsl_append keeps of it *)

\* db->cur_sec behind the new log; an unsigned `remain' may wrap.
\* Mutated form: the index entry takes no space.
Appended_NoIndex == [cur EXCEPT !.end = <<cur.sec, cur.n>>, !.endTime = op.time,
                                !.n = @ + 1, !.room = (@ - op.len) % SizeMod]
Appended == [cur EXCEPT !.end = <<cur.sec, cur.n>>, !.endTime = op.time,
                        !.n = @ + 1, !.room = (@ - (1 + op.len)) % SizeMod]

PreWrite ==
    /\ pc = "preWrite"
    /\ logs' = [logs EXCEPT ![cur.sec] =
                  Append(@, [st |-> TSL_PRE_WRITE, time |-> op.time, len |-> op.len])]
    /\ pc' = "commit"
    /\ UNCHANGED <<magic, store, start, ends, ram, op, ack, fmt, bound>>

\* The index entry and the data mean nothing before the status says WRITE.
Commit ==
    /\ pc = "commit"
    /\ logs' = [logs EXCEPT ![cur.sec][cur.n + 1].st = WriteStatus(@, TSL_WRITE)]
    /\ cur' = Appended
    /\ last' = op.time
    /\ Return(TRUE)
    /\ UNCHANGED <<magic, store, start, ends, oldest, rollover, fmt, bound>>

\* cur_sec is no sector: the index entry goes to address 0, over the header
\* of sector 0, whose magic word does not survive it.
StrayWrite ==
    /\ pc = "stray"
    /\ magic' = [magic EXCEPT ![0] = FALSE]
    /\ cur' = [Appended EXCEPT !.room = 0]
    /\ last' = op.time
    /\ Return(TRUE)
    /\ UNCHANGED <<store, start, ends, logs, oldest, rollover, fmt, bound>>

-----------------------------------------------------------------------------
(* The other calls, and the power *)

Clean ==
    /\ pc = "idle" /\ cleans < MaxClean
    /\ cleans' = cleans + 1
    /\ op' = [NoOp EXCEPT !.kind = "clean"]
    /\ ack' = FALSE
    /\ pc' = "fmtErase" /\ fmt' = 0
    /\ UNCHANGED <<flash, ram, crashes>>

\* FDB_TSDB_CTRL_SET_ROLLOVER
SetRollover ==
    /\ pc = "idle"
    /\ rollover' \in Rollovers
    /\ UNCHANGED <<flash, oldest, cur, last, pc, op, ack, fmt, bound>>

\* fdb_tsl_set_status takes no lock.
SetStatus(s, i, st) ==
    /\ pc \notin {"off", "down", "hung", "failed"}
    /\ magic[s] /\ Complete(logs[s][i])
    /\ logs' = [logs EXCEPT ![s][i].st = WriteStatus(@, st)]
    /\ UNCHANGED <<magic, store, start, ends, ram, pc, op, ack, fmt, bound>>

Deinit ==
    /\ pc = "idle" /\ Restarts
    /\ pc' = "down" /\ ack' = FALSE
    /\ UNCHANGED <<flash, ram, op, fmt, bound>>

\* Power is lost: everything but the flash starts again from zero.
Crash ==
    /\ pc # "off" /\ crashes < MaxCrash
    /\ crashes' = crashes + 1
    /\ oldest' = 0 /\ cur' = NoInfo /\ last' = 0 /\ rollover' = FALSE
    /\ pc' = "off" /\ op' = NoOp /\ ack' = FALSE /\ fmt' = 0
    /\ UNCHANGED <<flash, cleans>>

-----------------------------------------------------------------------------
\* A new device: the partition is erased and the power is off.
Init ==
    /\ magic = [s \in Sector |-> FALSE]
    /\ store = [s \in Sector |-> UNUSED]
    /\ start = [s \in Sector |-> NoTime]
    /\ ends = [s \in Sector |-> NoEnds]
    /\ logs = [s \in Sector |-> <<>>]
    /\ oldest = 0 /\ cur = NoInfo /\ last = 0 /\ rollover = FALSE
    /\ pc = "off" /\ op = NoOp /\ ack = FALSE /\ fmt = 0
    /\ crashes = 0 /\ cleans = 0

TakeSector == EndStatus \/ EndWrite \/ EndSkip \/ MarkFull \/ EraseNext \/ FormatNext
              \/ UsingStatus \/ WriteStart
FormatAll == FmtErase \/ FmtHdr \/ FmtDone

\* What runs by itself once it was started.
Step == FormatAll \/ Refuse \/ TakeSector \/ PreWrite \/ Commit \/ StrayWrite

Call == \/ \E len \in Lens, t \in Time : AppendTsl(len, t)
        \/ Clean \/ SetRollover \/ Deinit
        \/ BootHang \/ Hang \/ BootFailed \/ Boot

\* Another task marks a log it has read.
Mark == \E s \in Sector, st \in UserStatus : \E i \in DOMAIN logs[s] : SetStatus(s, i, st)

Next == Step \/ Call \/ Mark \/ Crash

Spec == Init /\ [][Next]_vars

\* The task inside a call keeps running: nothing in a call waits.
FairSpec == Spec /\ WF_vars(Step)
=============================================================================
