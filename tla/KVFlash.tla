------------------------------- MODULE KVFlash -------------------------------
(***************************************************************************)
(* What a KV database (src/components/FlashDB/src/fdb_kvdb.c) keeps on the *)
(* flash, and what the code reads back from it.                            *)
(*                                                                         *)
(* The partition is SecNum sectors.  A sector has a header (magic word,    *)
(* store status, dirty status) and a data area of Cap units in which       *)
(* records are appended one behind the other.  The flash is NOR: until the *)
(* next erase a status can only go up (fdb_utils.c, _fdb_write_status:     *)
(* status n is written by clearing one more bit).                          *)
(*                                                                         *)
(* A record is [at, len, st, key, val]:                                    *)
(*   at   its offset in the data area;                                     *)
(*   len  the space it takes; a record whose `len' field was never written *)
(*        (power lost inside write_kv_hdr) has len <= HdrLen;              *)
(*   key  NoKey until name and value are complete, which is when the CRC   *)
(*        matches: CrcOk is key # NoKey.                                   *)
(***************************************************************************)
EXTENDS Integers, Sequences, FiniteSets

CONSTANTS
    Key, Val,       \* names and values
    NoKey, NoVal,   \* nothing readable there
    SecNum,         \* SECTOR_NUM
    Cap,            \* sec_size - SECTOR_HDR_DATA_SIZE
    HdrLen,         \* KV_HDR_DATA_SIZE
    GapLen,         \* what a lone status byte wastes
    KvLen,          \* KvLen[v]: header + name + value of a record holding v
                    \* (KvLen[NoVal]: of one with an empty value)
    Threshold,      \* FDB_SEC_REMAIN_THRESHOLD
    GcThreshold     \* FDB_GC_EMPTY_SEC_THRESHOLD

ASSUME KeyAssumption == NoKey \notin Key /\ NoVal \notin Val
ASSUME SecNumAssumption == SecNum \in Nat /\ SecNum >= 2
ASSUME LenAssumption ==
    /\ Cap \in Nat /\ Threshold \in Nat
    /\ HdrLen \in Nat /\ HdrLen > 0 /\ GapLen \in 0..HdrLen
    /\ KvLen \in [Val \cup {NoVal} -> Nat] /\ \A v \in Val : KvLen[v] > HdrLen
ASSUME GcThresholdAssumption == GcThreshold \in Nat /\ GcThreshold > 0 /\ GcThreshold < SecNum

Sector == 0 .. SecNum - 1
\* Mutated form: no roll back to the first sector.
NextSector_NoWrap(s) == s + 1
NextSector(s) == IF s + 1 < SecNum THEN s + 1 ELSE 0

-----------------------------------------------------------------------------
\* fdb_sector_store_status_t, fdb_sector_dirty_status_t, fdb_kv_status_t

STORE_UNUSED == 0
STORE_EMPTY  == 1
STORE_USING  == 2
STORE_FULL   == 3
Store == STORE_UNUSED .. STORE_FULL

DIRTY_UNUSED == 0
DIRTY_FALSE  == 1
DIRTY_TRUE   == 2
DIRTY_GC     == 3
Dirty == DIRTY_UNUSED .. DIRTY_GC

KV_UNUSED     == 0
KV_PRE_WRITE  == 1
KV_WRITE      == 2
KV_PRE_DELETE == 3
KV_DELETED    == 4
KV_ERR_HDR    == 5
KvStatus == KV_UNUSED .. KV_ERR_HDR

\* Programming status n over status m on NOR flash.
WriteStatus(m, n) == IF n > m THEN n ELSE m

-----------------------------------------------------------------------------
Rec == [at : Nat, len : Nat, st : KvStatus, key : Key \cup {NoKey}, val : Val \cup {NoVal}]

NoRec == [at |-> 0, len |-> 0, st |-> KV_UNUSED, key |-> NoKey, val |-> NoVal]

CrcOk(r) == r.key # NoKey
\* What do_gc moves.  Mutated form: a record already marked is garbage.
Live_WrittenOnly(r) == CrcOk(r) /\ r.st = KV_WRITE
Live(r) == CrcOk(r) /\ r.st \in {KV_WRITE, KV_PRE_DELETE}
\* What check_and_recovery_kv_cb has to act on.  read_kv turns a record with
\* an unreadable length into KV_ERR_HDR, so such a record is not one of them.
\* Mutated form: the records about to be replaced are passed over.
Unfinished_PreWriteOnly(r) == r.len > HdrLen /\ r.st = KV_PRE_WRITE
Unfinished(r) ==
    \/ CrcOk(r) /\ r.st = KV_PRE_DELETE
    \/ r.len > HdrLen /\ r.st = KV_PRE_WRITE

(***************************************************************************)
(* Where read_sector_info finds free space in a sector of records q with   *)
(* store status st.  In a USING sector the first record is always read,    *)
(* and counts HdrLen at least: when it is blank or only its status byte    *)
(* was written, read_kv marks it KV_ERR_HDR there and then.                *)
(***************************************************************************)
Fill(st, q) ==
    IF q = <<>>
    THEN IF st = STORE_USING THEN HdrLen ELSE 0
    ELSE LET r == q[Len(q)] IN
         IF r.at = 0 /\ r.len < HdrLen THEN HdrLen ELSE r.at + r.len

-----------------------------------------------------------------------------
\* Sectors in the order sector_iterator and kv_iterator visit them from base.
Rank(base, s) == IF base <= s THEN s - base ELSE s + SecNum - base
At(base, n) == (base + n) % SecNum
FirstFrom(base, S) == CHOOSE s \in S : \A t \in S : Rank(base, s) <= Rank(base, t)
LastFrom(base, S)  == CHOOSE s \in S : \A t \in S : Rank(base, t) <= Rank(base, s)
=============================================================================
