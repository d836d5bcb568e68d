-------------------------------- MODULE KVDB --------------------------------
(***************************************************************************)
(* The KV database of src/components/FlashDB/src/fdb_kvdb.c as the         *)
(* sequence of flash writes its functions make.  Every API call holds the  *)
(* database lock, so one call runs at a time; what can come between two    *)
(* writes is a loss of power.  One action is one flash write with the      *)
(* reads that lead up to it, and Crash may follow any of them.             *)
(***************************************************************************)
EXTENDS KVFlash, FiniteSetsExt

CONSTANTS
    SecCacheSize,   \* FDB_SECTOR_CACHE_TABLE_SIZE
    KvCacheSize,    \* FDB_KV_CACHE_TABLE_SIZE
    Defaults,       \* default_kvs: a sequence of <<name, value>>
    NotFormatable,  \* FDB_KVDB_CTRL_SET_NOT_FORMAT
    MaxCrash        \* bound: how often the power fails

ASSUME CacheAssumption == SecCacheSize \in Nat /\ KvCacheSize \in Nat \ {0}
ASSUME DefaultsAssumption == Defaults \in Seq(Key \X Val)
ASSUME OptionAssumption == NotFormatable \in BOOLEAN /\ MaxCrash \in Nat

VARIABLES
    magic, store, dirty, recs,  \* the flash: sector headers and records
    oldest,         \* db->parent.oldest_addr
    gcReq,          \* db->gc_request
    inRec,          \* db->in_recovery_check
    lastDel,        \* db->last_is_complete_del
    kvCache,        \* db->kv_cache_table: name -> address of its record
    secCache,       \* db->sector_cache_table: sector -> what was read of it
    pc,             \* the write to make next
    op,             \* the API call being served
    ack,            \* the last call returned FDB_NO_ERR
    cur,            \* the record being written (db->cur_sector in set_kv)
    old,            \* the record being replaced, deleted or moved, and its
                    \* place (the struct fdb_kv: db->cur_kv in set_kv)
    mv,             \* who called move_kv: "gc", "rec", or "no" move runs
    gc,             \* the frame of gc_collect_by_free_size
    scan,           \* the position of _fdb_kv_load's and set_default's loops
    crashes         \* how often the power has failed

flash == <<magic, store, dirty, recs>>
ram   == <<oldest, gcReq, inRec, lastDel, kvCache, secCache>>
frame == <<op, ack, cur, old, mv, gc, scan>>
vars  == <<flash, ram, pc, frame, crashes>>

-----------------------------------------------------------------------------
NotCached  == -2
FailedAddr == -1    \* the sector is cached, its free address is not
NoInfo == [store |-> STORE_UNUSED, dirty |-> DIRTY_UNUSED, empty |-> NotCached]
NoAddr == <<-1, -1>>
Addr   == Sector \X Nat

NoOp  == [kind |-> "none", key |-> NoKey, val |-> NoVal, i |-> 0, again |-> FALSE]
NoCur == [sec |-> 0, at |-> 0, len |-> 0, key |-> NoKey, val |-> NoVal,
          store |-> STORE_UNUSED, remain |-> 0, full |-> FALSE]
NoOld == [sec |-> 0, idx |-> 0, rec |-> NoRec]
NoGc  == [free |-> 0, then |-> "idle", base |-> 0, n |-> 0, idx |-> 0, last |-> 0]
NoScan == [base |-> 0, n |-> 0, idx |-> 1, bad |-> 0]

InfoType == [store : Store, dirty : Dirty, empty : {NotCached, FailedAddr} \cup Nat]

-----------------------------------------------------------------------------
(* Sector information, through the sector cache *)

Cached(c, s) == c[s].empty # NotCached
FlashInfo(s, e) == [store |-> store[s], dirty |-> dirty[s], empty |-> e]

\* read_sector_info(.., traversal = false)
HdrInfo(s) ==
    IF Cached(secCache, s) THEN secCache[s]
    ELSE IF magic[s] THEN FlashInfo(s, FailedAddr) ELSE NoInfo

\* read_sector_info(.., traversal = true)
FullInfo(s) ==
    IF Cached(secCache, s) /\ secCache[s].empty # FailedAddr THEN secCache[s]
    ELSE IF magic[s] THEN FlashInfo(s, Fill(store[s], recs[s])) ELSE NoInfo

Remain(s) ==
    IF FullInfo(s).store \in {STORE_EMPTY, STORE_USING} THEN Cap - FullInfo(s).empty ELSE 0

\* Sectors S have been read from base on: those not cached yet take the free
\* slots of the table, in that order; a cached sector is never evicted.
FillCache(c, base, S) ==
    LET new  == {s \in S : magic[s] /\ ~Cached(c, s)}
        room == SecCacheSize - Cardinality({s \in Sector : Cached(c, s)})
    IN [s \in Sector |->
          IF s \in new /\ Cardinality({t \in new : Rank(base, t) < Rank(base, s)}) < room
          THEN FlashInfo(s, FailedAddr) ELSE c[s]]

\* Sectors S have been read with their records.
Traverse(c, S) ==
    [s \in Sector |->
       IF s \in S /\ c[s].empty = FailedAddr
       THEN FlashInfo(s, Fill(store[s], recs[s])) ELSE c[s]]

\* Mutated form: format_sector leaves the sector cache as it is.
Uncache_Kept(c, s) == c
Uncache(c, s) == [c EXCEPT ![s] = NoInfo]

-----------------------------------------------------------------------------
(* alloc_kv *)

UsingSecs == {s \in Sector : HdrInfo(s).store = STORE_USING}
EmptySecs == {s \in Sector : HdrInfo(s).store = STORE_EMPTY}

\* Mutated forms: no threshold is kept free; the dirty mark is not looked at.
Fits_NoReserve(s, len) ==
    /\ Remain(s) >= len
    /\ \/ FullInfo(s).dirty = DIRTY_FALSE
       \/ FullInfo(s).dirty = DIRTY_TRUE /\ ~gcReq
Fits_AnyDirty(s, len) == Remain(s) > len + Threshold

\* alloc_kv_cb
Fits(s, len) ==
    /\ Remain(s) > len + Threshold
    /\ \/ FullInfo(s).dirty = DIRTY_FALSE
       \/ FullInfo(s).dirty = DIRTY_TRUE /\ ~gcReq

\* Mutated form: the last empty sector is not kept for the collection.
MayUseEmpty_NoReserve == EmptySecs # {}
MayUseEmpty == EmptySecs # {} /\ (Cardinality(EmptySecs) > GcThreshold \/ gcReq)

UsingFit(len) == {s \in UsingSecs : Fits(s, len)}
EmptyFit(len) == IF MayUseEmpty THEN {s \in EmptySecs : Fits(s, len)} ELSE {}
CanAlloc(len) == UsingFit(len) \cup EmptyFit(len) # {}
AllocSec(len) ==
    FirstFrom(oldest, IF UsingFit(len) # {} THEN UsingFit(len) ELSE EmptyFit(len))
\* alloc_kv gives up and sets gc_request.
AsksGc(len) == UsingFit(len) = {} /\ EmptySecs # {} /\ ~MayUseEmpty

AllocCache(len) ==
    LET upTo(S) == IF CanAlloc(len) /\ AllocSec(len) \in S
                   THEN {s \in S : Rank(oldest, s) <= Rank(oldest, AllocSec(len))} ELSE S
        empties == IF UsingFit(len) = {} /\ MayUseEmpty THEN upTo(EmptySecs) ELSE {}
    IN Traverse(FillCache(secCache, oldest, Sector), upTo(UsingSecs) \cup empties)

Allocated(len, k, v) ==
    LET s == AllocSec(len) IN
    [sec |-> s, at |-> FullInfo(s).empty, len |-> len, key |-> k, val |-> v,
     store |-> HdrInfo(s).store, remain |-> Remain(s), full |-> FALSE]

-----------------------------------------------------------------------------
(* find_kv *)

\* find_kv_no_cache: the records of k that find_kv_cb accepts
Written(k) ==
    {a \in UNION {{s} \X DOMAIN recs[s] : s \in Sector} :
        /\ HdrInfo(a[1]).store \in {STORE_USING, STORE_FULL}
        /\ recs[a[1]][a[2]].key = k /\ recs[a[1]][a[2]].st = KV_WRITE}
Before(base, a, b) ==
    \/ Rank(base, a[1]) < Rank(base, b[1])
    \/ a[1] = b[1] /\ a[2] <= b[2]
FirstOf(base, S) == CHOOSE a \in S : \A b \in S : Before(base, a, b)
LastOf(base, S)  == CHOOSE a \in S : \A b \in S : Before(base, b, a)

\* get_kv_from_cache: the cached address still carries that name.  Whether
\* the record there is KV_WRITE is not asked.
CacheHits(k) ==
    IF kvCache[k] = NoAddr THEN {}
    ELSE LET s == kvCache[k][1] IN
         {<<s, i>> : i \in {j \in DOMAIN recs[s] : recs[s][j].at = kvCache[k][2] /\ recs[s][j].key = k}}

\* Mutated form: a name that is not cached is not looked for.
Found_CacheOnly(k) == CacheHits(k) # {}
Found(k) == CacheHits(k) # {} \/ Written(k) # {}
Find(k) == IF CacheHits(k) # {} THEN CHOOSE a \in CacheHits(k) : TRUE ELSE FirstOf(oldest, Written(k))
AddrOf(a) == <<a[1], recs[a[1]][a[2]].at>>

\* update_kv_cache with an address: a full table gives up some other entry.
CachePut(c, k, a) ==
    LET d == [c EXCEPT ![k] = a]
        held == {x \in Key : d[x] # NoAddr}
    IN IF Cardinality(held) <= KvCacheSize THEN {d}
       ELSE {[d EXCEPT ![x] = NoAddr] : x \in held \ {k}}

\* The cache after a call of find_kv(k).
FindCaches(k) ==
    IF CacheHits(k) # {} THEN kvCache' = kvCache /\ secCache' = secCache
    ELSE IF Written(k) # {}
    THEN /\ kvCache' \in CachePut(kvCache, k, AddrOf(Find(k)))
         /\ secCache' = FillCache(secCache, oldest,
                           {s \in Sector : Rank(oldest, s) <= Rank(oldest, Find(k)[1])})
    ELSE kvCache' = kvCache /\ secCache' = FillCache(secCache, oldest, Sector)

-----------------------------------------------------------------------------
(* One write to the flash *)

SetKvStatus(s, i, st) ==
    /\ recs' = [recs EXCEPT ![s][i].st = WriteStatus(@, st)]
    /\ UNCHANGED <<magic, store, dirty>>

EraseSector(s) ==
    /\ magic' = [magic EXCEPT ![s] = FALSE]
    /\ store' = [store EXCEPT ![s] = STORE_UNUSED]
    /\ dirty' = [dirty EXCEPT ![s] = DIRTY_UNUSED]
    /\ recs'  = [recs EXCEPT ![s] = <<>>]

WriteSectorHdr(s) ==
    /\ magic' = [magic EXCEPT ![s] = TRUE]
    /\ store' = [store EXCEPT ![s] = STORE_EMPTY]
    /\ dirty' = [dirty EXCEPT ![s] = DIRTY_FALSE]
    /\ recs'  = [recs EXCEPT ![s] = <<>>]

EndOp(ok) ==
    /\ pc' = "idle" /\ ack' = ok
    /\ op' = NoOp /\ cur' = NoCur /\ old' = NoOld /\ mv' = "no" /\ gc' = NoGc

-----------------------------------------------------------------------------
(* Power-up and fdb_kvdb_init: find the oldest sector *)

\* check_oldest_addr_cb over all sectors from 0.
OldestByStatus ==
    LET edges == {s \in Sector \ {0} :
                    /\ HdrInfo(s - 1).store = STORE_EMPTY
                    /\ HdrInfo(s).store \in {STORE_USING, STORE_FULL}}
    IN IF edges = {} THEN 0 ELSE Max(edges)

\* After power-up the search runs on the zeroed sector cache, where all
\* entries claim to describe address 0 with `combined' 0: it never leaves
\* sector 0 and finds nothing.  After fdb_kvdb_deinit the cache is intact.
FindOldest ==
    /\ pc \in {"off", "down"}
    /\ oldest' = IF pc = "off" THEN 0 ELSE OldestByStatus
    /\ gcReq' = FALSE /\ inRec' = TRUE
    /\ secCache' = [s \in Sector |-> NoInfo]
    /\ kvCache' = [k \in Key |-> NoAddr]
    /\ scan' = [NoScan EXCEPT !.base = oldest']
    /\ pc' = "hdr"
    /\ UNCHANGED <<flash, lastDel, op, ack, cur, old, mv, gc, crashes>>

\* _fdb_kv_load, check_sec_hdr_cb: format the next sector with a bad header.
BadHeaders == {s \in Sector : ~magic[s] /\ Rank(scan.base, s) >= scan.n}

CheckHdr ==
    /\ pc = "hdr" /\ BadHeaders # {}
    /\ LET s == FirstFrom(scan.base, BadHeaders) IN
       IF NotFormatable
       THEN /\ pc' = "down" /\ scan' = NoScan
            /\ UNCHANGED <<flash, secCache>>
       ELSE /\ WriteSectorHdr(s)
            /\ secCache' = FillCache(secCache, scan.base,
                 {t \in Sector : Rank(scan.base, t) \in scan.n .. Rank(scan.base, s) - 1})
            /\ scan' = [scan EXCEPT !.n = Rank(scan.base, s) + 1, !.bad = @ + 1]
            /\ UNCHANGED pc
    /\ UNCHANGED <<oldest, gcReq, inRec, lastDel, kvCache, op, ack, cur, old, mv, gc, crashes>>

\* ... and only if every header was bad are the defaults written.
HdrDone ==
    /\ pc = "hdr" /\ BadHeaders = {}
    /\ secCache' = FillCache(secCache, scan.base, {t \in Sector : Rank(scan.base, t) >= scan.n})
    /\ IF scan.bad = SecNum
       THEN /\ pc' = "fmtErase" /\ scan' = NoScan
            /\ op' = [NoOp EXCEPT !.kind = "boot"]
            /\ kvCache' = [k \in Key |-> NoAddr]
       ELSE /\ pc' = "recGc" /\ scan' = [NoScan EXCEPT !.base = oldest]
            /\ UNCHANGED <<op, kvCache>>
    /\ UNCHANGED <<flash, oldest, gcReq, inRec, lastDel, ack, cur, old, mv, gc, crashes>>

-----------------------------------------------------------------------------
(* fdb_kv_set_default: op.kind is "boot" inside _fdb_kv_load, else "reset" *)

FmtErase ==
    /\ pc = "fmtErase"
    /\ EraseSector(scan.n)
    /\ pc' = "fmtHdr"
    /\ UNCHANGED <<ram, frame, crashes>>

FmtHdr ==
    /\ pc = "fmtHdr"
    /\ WriteSectorHdr(scan.n)
    /\ secCache' = Uncache(secCache, scan.n)
    /\ scan' = [scan EXCEPT !.n = IF @ + 1 < SecNum THEN @ + 1 ELSE 0]
    /\ pc' = IF scan.n + 1 < SecNum THEN "fmtErase" ELSE "nextDef"
    /\ UNCHANGED <<oldest, gcReq, inRec, lastDel, kvCache, op, ack, cur, old, mv, gc, crashes>>

NextDefault ==
    /\ pc = "nextDef" /\ op.i < Len(Defaults)
    /\ op' = [op EXCEPT !.i = @ + 1, !.key = Defaults[op.i + 1][1],
                        !.val = Defaults[op.i + 1][2], !.again = FALSE]
    /\ pc' = "new"
    /\ UNCHANGED <<flash, ram, ack, cur, old, mv, gc, scan, crashes>>

DefaultsDone ==
    /\ pc = "nextDef" /\ op.i = Len(Defaults)
    /\ oldest' = 0
    /\ IF op.kind = "reset"
       THEN EndOp(TRUE) /\ scan' = NoScan
       ELSE pc' = "recGc" /\ op' = NoOp /\ scan' = NoScan /\ UNCHANGED <<ack, cur, old, mv, gc>>
    /\ UNCHANGED <<flash, gcReq, inRec, lastDel, kvCache, secCache, crashes>>

-----------------------------------------------------------------------------
(* new_kv: allocate, collect garbage once, allocate again *)

StartGc(free, then) ==
    /\ pc' = "gc"
    /\ gc' = [NoGc EXCEPT !.free = free, !.then = then]

\* Mutated form: `already_gc' is not looked at.
FirstTry_Always == TRUE
FirstTry == ~op.again

\* create_kv_blob refuses such a record before it looks for space.
TooBig == op.kind # "set" /\ KvLen[op.val] > Cap

NewKv ==
    /\ pc = "new" /\ ~TooBig /\ CanAlloc(KvLen[op.val])
    /\ cur' = Allocated(KvLen[op.val], op.key, op.val)
    /\ secCache' = AllocCache(KvLen[op.val])
    /\ pc' = IF op.kind = "set" THEN "find" ELSE "status"
    /\ UNCHANGED <<flash, oldest, gcReq, inRec, lastDel, kvCache, op, ack, old, mv, gc, scan, crashes>>

NewKvGc ==
    /\ pc = "new" /\ ~TooBig /\ ~CanAlloc(KvLen[op.val])
    /\ gcReq \/ AsksGc(KvLen[op.val])
    /\ FirstTry
    /\ gcReq' = TRUE
    /\ op' = [op EXCEPT !.again = TRUE]
    /\ StartGc(KvLen[op.val], "new")
    /\ secCache' = AllocCache(KvLen[op.val])
    /\ UNCHANGED <<flash, oldest, inRec, lastDel, kvCache, ack, cur, old, mv, scan, crashes>>

\* FDB_SAVED_FULL
NewKvFull ==
    /\ pc = "new"
    /\ \/ TooBig /\ UNCHANGED <<gcReq, secCache>>
       \/ /\ ~TooBig /\ ~CanAlloc(KvLen[op.val])
          /\ ~FirstTry \/ ~(gcReq \/ AsksGc(KvLen[op.val]))
          /\ gcReq' = (gcReq /\ ~op.again)
          /\ secCache' = AllocCache(KvLen[op.val])
    /\ IF op.kind = "set" THEN EndOp(FALSE)
       ELSE pc' = "nextDef" /\ UNCHANGED <<op, ack, cur, old, mv, gc>>
    /\ UNCHANGED <<flash, oldest, inRec, lastDel, kvCache, scan, crashes>>

-----------------------------------------------------------------------------
(* find_kv and del_kv *)

HasOld == old.rec # NoRec

FindOld ==
    /\ pc = "find"
    /\ FindCaches(op.key)
    /\ IF Found(op.key)
       THEN /\ old' = LET a == Find(op.key) IN
                      [sec |-> a[1], idx |-> a[2], rec |-> recs[a[1]][a[2]]]
            /\ pc' = IF op.kind = "set" THEN "preDel" ELSE "delete"
            /\ UNCHANGED <<op, ack, cur, mv, gc>>
       ELSE IF op.kind = "set"
       THEN pc' = "status" /\ UNCHANGED <<op, ack, cur, old, mv, gc>>
       ELSE EndOp(FALSE)
    /\ UNCHANGED <<flash, oldest, gcReq, inRec, lastDel, scan, crashes>>

\* Where del_kv(.., complete_del = false) and del_kv(.., true) go on.
AfterPreDel == IF mv = "no" THEN "status" ELSE "mvAlloc"
AfterDelete == CASE mv = "gc"  -> "gcScan"
                 [] mv = "rec" -> "recKv"
                 [] OTHER      -> "postGc"

\* Mutated form: complete_del the wrong way round.
PreDelete_Complete ==
    /\ pc = "preDel"
    /\ SetKvStatus(old.sec, old.idx, KV_DELETED)
    /\ lastDel' = TRUE
    /\ pc' = IF dirty[old.sec] = DIRTY_FALSE THEN "preDirty" ELSE AfterPreDel
    /\ UNCHANGED <<oldest, gcReq, inRec, kvCache, secCache, frame, crashes>>

PreDelete ==
    /\ pc = "preDel"
    /\ SetKvStatus(old.sec, old.idx, KV_PRE_DELETE)
    /\ lastDel' = TRUE
    /\ pc' = IF dirty[old.sec] = DIRTY_FALSE THEN "preDirty" ELSE AfterPreDel
    /\ UNCHANGED <<oldest, gcReq, inRec, kvCache, secCache, frame, crashes>>

\* update_kv_cache without an address.  Mutated form: nothing is cleared.
Forget_Nothing(k) == kvCache
Forget(k) == [kvCache EXCEPT ![k] = NoAddr]

Delete ==
    /\ pc = "delete"
    /\ SetKvStatus(old.sec, old.idx, KV_DELETED)
    /\ kvCache' = IF lastDel THEN kvCache ELSE Forget(old.rec.key)
    /\ lastDel' = FALSE
    /\ IF dirty[old.sec] = DIRTY_FALSE
       THEN pc' = "delDirty" /\ UNCHANGED <<old, mv>>
       ELSE pc' = AfterDelete /\ old' = NoOld /\ mv' = "no"
    /\ UNCHANGED <<oldest, gcReq, inRec, secCache, op, ack, cur, gc, scan, crashes>>

MarkDirty ==
    /\ pc \in {"preDirty", "delDirty"}
    /\ dirty' = [dirty EXCEPT ![old.sec] = WriteStatus(@, DIRTY_TRUE)]
    /\ secCache' = IF Cached(secCache, old.sec)
                   THEN [secCache EXCEPT ![old.sec].dirty = DIRTY_TRUE] ELSE secCache
    /\ IF pc = "preDirty"
       THEN pc' = AfterPreDel /\ UNCHANGED <<old, mv>>
       ELSE pc' = AfterDelete /\ old' = NoOld /\ mv' = "no"
    /\ UNCHANGED <<magic, store, recs, oldest, gcReq, inRec, lastDel, kvCache,
                   op, ack, cur, gc, scan, crashes>>

-----------------------------------------------------------------------------
(* create_kv_blob and the copy in move_kv: write the record cur *)

\* update_sec_status
SectorStatus ==
    IF cur.store = STORE_EMPTY THEN STORE_USING
    ELSE IF cur.store = STORE_USING
            /\ (cur.remain < Threshold \/ cur.remain - cur.len < Threshold)
    THEN STORE_FULL ELSE cur.store

UpdateSecStatus ==
    /\ pc = "status"
    /\ store' = [store EXCEPT ![cur.sec] = WriteStatus(@, SectorStatus)]
    /\ secCache' = IF Cached(secCache, cur.sec) /\ cur.store # SectorStatus
                   THEN [secCache EXCEPT ![cur.sec].store = SectorStatus] ELSE secCache
    /\ cur' = [cur EXCEPT !.full = (mv = "no" /\ SectorStatus = STORE_FULL)]
    /\ pc' = "preWrite"
    /\ UNCHANGED <<magic, dirty, recs, oldest, gcReq, inRec, lastDel, kvCache,
                   op, ack, old, mv, gc, scan, crashes>>

LastRec(r) == recs' = [recs EXCEPT ![cur.sec][Len(recs[cur.sec])] = r]
CurRec == recs[cur.sec][Len(recs[cur.sec])]

\* The status byte of the new record, alone.
PreWrite ==
    /\ pc = "preWrite"
    /\ recs' = [recs EXCEPT ![cur.sec] =
                  Append(@, [at |-> cur.at, len |-> GapLen, st |-> KV_PRE_WRITE,
                             key |-> NoKey, val |-> NoVal])]
    /\ pc' = "magic"
    /\ UNCHANGED <<magic, store, dirty, ram, frame, crashes>>

\* The rest of the header is one write of several words: power may fail
\* when the magic word is there and `len' is not.
WriteMagic ==
    /\ pc = "magic"
    /\ LastRec([CurRec EXCEPT !.len = HdrLen])
    /\ pc' = "header"
    /\ UNCHANGED <<magic, store, dirty, ram, frame, crashes>>

WriteHdr ==
    /\ pc = "header"
    /\ LastRec([CurRec EXCEPT !.len = cur.len])
    /\ pc' = "body"
    /\ UNCHANGED <<magic, store, dirty, ram, frame, crashes>>

WriteBody ==
    /\ pc = "body"
    /\ LastRec([CurRec EXCEPT !.key = cur.key, !.val = cur.val])
    /\ secCache' = IF Cached(secCache, cur.sec) /\ ~cur.full
                   THEN [secCache EXCEPT ![cur.sec].empty = cur.at + cur.len] ELSE secCache
    /\ kvCache' \in CachePut(kvCache, cur.key, <<cur.sec, cur.at>>)
    /\ pc' = "commit"
    /\ UNCHANGED <<magic, store, dirty, oldest, gcReq, inRec, lastDel, frame, crashes>>

Commit ==
    /\ pc = "commit"
    /\ LastRec([CurRec EXCEPT !.st = WriteStatus(@, KV_WRITE)])
    /\ gcReq' = (gcReq \/ cur.full)
    /\ cur' = NoCur
    /\ pc' = IF mv # "no" \/ HasOld THEN "delete"
             ELSE IF op.kind = "set" THEN "postGc" ELSE "nextDef"
    /\ UNCHANGED <<magic, store, dirty, oldest, inRec, lastDel, kvCache, secCache,
                   op, ack, old, mv, gc, scan, crashes>>

\* The end of set_kv and fdb_kv_del.
PostGc ==
    /\ pc = "postGc"
    /\ IF op.kind = "set" /\ gcReq
       THEN StartGc(KvLen[op.val], "end") /\ UNCHANGED <<op, ack, cur, old, mv>>
       ELSE EndOp(TRUE)
    /\ UNCHANGED <<flash, ram, scan, crashes>>

-----------------------------------------------------------------------------
(* move_kv *)

Move(who, s, i) ==
    /\ old' = [sec |-> s, idx |-> i, rec |-> recs[s][i]]
    /\ mv' = who
    /\ pc' = IF recs[s][i].st = KV_WRITE THEN "preDel" ELSE "mvAlloc"

MvAlloc ==
    /\ pc = "mvAlloc" /\ CanAlloc(old.rec.len)
    /\ secCache' = AllocCache(old.rec.len)
    /\ IF inRec /\ old.rec.st = KV_PRE_DELETE /\ Written(old.rec.key) # {}
       THEN pc' = "delete" /\ UNCHANGED cur  \* already created with success
       ELSE pc' = "status" /\ cur' = Allocated(old.rec.len, old.rec.key, old.rec.val)
    /\ UNCHANGED <<flash, oldest, gcReq, inRec, lastDel, kvCache, op, ack, old, mv, gc, scan, crashes>>

\* move_kv fails: do_gc takes the next record, recovery stops.
MvFull ==
    /\ pc = "mvAlloc" /\ ~CanAlloc(old.rec.len)
    /\ secCache' = AllocCache(old.rec.len)
    /\ gcReq' = (gcReq \/ AsksGc(old.rec.len))
    /\ pc' = IF mv = "gc" THEN "gcScan" ELSE "recEnd"
    /\ old' = NoOld /\ mv' = "no"
    /\ UNCHANGED <<flash, oldest, inRec, lastDel, kvCache, op, ack, cur, gc, scan, crashes>>

-----------------------------------------------------------------------------
(* gc_collect_by_free_size *)

\* Mutated form: gc_request is left set.
GcReturn_KeepsRequest ==
    /\ gcReq' = gcReq
    /\ IF gc.then = "end" THEN EndOp(TRUE)
       ELSE pc' = gc.then /\ gc' = NoGc /\ UNCHANGED <<op, ack, cur, old, mv>>

GcReturn ==
    /\ gcReq' = FALSE
    /\ IF gc.then = "end" THEN EndOp(TRUE)
       ELSE pc' = gc.then /\ gc' = NoGc /\ UNCHANGED <<op, ack, cur, old, mv>>

\* gc_check_cb leaves the last EMPTY sector in empty_sec_addr, or 0.
GcBegin ==
    /\ pc = "gc"
    /\ secCache' = FillCache(secCache, oldest, Sector)
    /\ IF Cardinality(EmptySecs) > GcThreshold
       THEN GcReturn
       ELSE /\ gc' = [gc EXCEPT !.base = oldest, !.n = 0,
                        !.last = IF EmptySecs = {} THEN 0 ELSE LastFrom(oldest, EmptySecs)]
            /\ pc' = "gcVisit"
            /\ UNCHANGED <<gcReq, op, ack, cur, old, mv>>
    /\ UNCHANGED <<flash, oldest, inRec, lastDel, kvCache, scan, crashes>>

GcVictims ==
    {s \in Sector : HdrInfo(s).dirty \in {DIRTY_TRUE, DIRTY_GC} /\ Rank(gc.base, s) >= gc.n}

\* do_gc, up to the mark on the sector
GcVisit ==
    /\ pc = "gcVisit" /\ GcVictims # {}
    /\ LET s == FirstFrom(gc.base, GcVictims) IN
       /\ dirty' = [dirty EXCEPT ![s] = WriteStatus(@, DIRTY_GC)]
       /\ gc' = [gc EXCEPT !.n = Rank(gc.base, s), !.idx = 1]
       /\ secCache' = FillCache(secCache, gc.base,
                        {t \in Sector : Rank(gc.base, t) \in gc.n .. Rank(gc.base, s)})
    /\ pc' = "gcScan"
    /\ UNCHANGED <<magic, store, recs, oldest, gcReq, inRec, lastDel, kvCache,
                   op, ack, cur, old, mv, scan, crashes>>

GcDone ==
    /\ pc = "gcVisit" /\ GcVictims = {}
    /\ secCache' = FillCache(secCache, gc.base, {t \in Sector : Rank(gc.base, t) >= gc.n})
    /\ GcReturn
    /\ UNCHANGED <<flash, oldest, inRec, lastDel, kvCache, scan, crashes>>

Victim == At(gc.base, gc.n)
\* Mutated form: the walk starts behind the first record.
ToMove_SkipsFirst == {i \in DOMAIN recs[Victim] : i > gc.idx /\ Live(recs[Victim][i])}
ToMove == {i \in DOMAIN recs[Victim] : i >= gc.idx /\ Live(recs[Victim][i])}

GcMove ==
    /\ pc = "gcScan" /\ ToMove # {}
    /\ Move("gc", Victim, Min(ToMove))
    /\ gc' = [gc EXCEPT !.idx = Min(ToMove) + 1]
    /\ UNCHANGED <<flash, ram, op, ack, cur, scan, crashes>>

\* format_sector: the victim is erased whether its records were moved or not.
GcErase ==
    /\ pc = "gcScan" /\ ToMove = {}
    /\ EraseSector(Victim)
    /\ pc' = "gcFormat"
    /\ UNCHANGED <<ram, frame, crashes>>

GcFormat ==
    /\ pc = "gcFormat"
    /\ WriteSectorHdr(Victim)
    /\ secCache' = Uncache(secCache, Victim)
    /\ oldest' = NextSector(Victim)
    /\ pc' = "gcNext"
    /\ UNCHANGED <<gcReq, inRec, lastDel, kvCache, frame, crashes>>

\* Enough was collected when the sector that took the moves has room.
GcNext ==
    /\ pc = "gcNext"
    /\ secCache' = Traverse(FillCache(secCache, oldest, {gc.last}), {gc.last})
    /\ IF Remain(gc.last) > gc.free THEN GcReturn
       ELSE /\ gc' = [gc EXCEPT !.n = @ + 1, !.last = Victim]
            /\ pc' = "gcVisit"
            /\ UNCHANGED <<gcReq, op, ack, cur, old, mv>>
    /\ UNCHANGED <<flash, oldest, inRec, lastDel, kvCache, scan, crashes>>

-----------------------------------------------------------------------------
(* The rest of _fdb_kv_load: resume a collection, then recover the records *)

\* Mutated form: a collection the power cut short is not resumed.
GcMarked_None == {}
GcMarked == {s \in Sector : HdrInfo(s).dirty = DIRTY_GC /\ Rank(scan.base, s) >= scan.n}

\* check_and_recovery_gc_cb
ResumeGc ==
    /\ pc = "recGc" /\ GcMarked # {}
    /\ LET s == FirstFrom(scan.base, GcMarked) IN
       /\ scan' = [scan EXCEPT !.n = Rank(scan.base, s) + 1]
       /\ secCache' = FillCache(secCache, scan.base,
                        {t \in Sector : Rank(scan.base, t) \in scan.n .. Rank(scan.base, s)})
    /\ gcReq' = TRUE
    /\ StartGc(SecNum * Cap, "recGc")
    /\ UNCHANGED <<flash, oldest, inRec, lastDel, kvCache, op, ack, cur, old, mv, crashes>>

ResumeGcDone ==
    /\ pc = "recGc" /\ GcMarked = {}
    /\ secCache' = FillCache(secCache, scan.base, {t \in Sector : Rank(scan.base, t) >= scan.n})
    /\ scan' = [NoScan EXCEPT !.base = oldest]
    /\ pc' = "recKv"
    /\ UNCHANGED <<flash, oldest, gcReq, inRec, lastDel, kvCache, op, ack, cur, old, mv, gc, crashes>>

\* The records kv_iterator has still to show to check_and_recovery_kv_cb.
Ahead ==
    {a \in UNION {{s} \X DOMAIN recs[s] : s \in Sector} :
        /\ HdrInfo(a[1]).store \in {STORE_USING, STORE_FULL}
        /\ Before(scan.base, <<At(scan.base, scan.n), scan.idx>>, a)}
ToRecover == {a \in Ahead : Unfinished(recs[a[1]][a[2]])}

\* Mutated form: the status of the record is not looked at.
Loadable_Any(r) == CrcOk(r)
Loadable(r) == CrcOk(r) /\ r.st = KV_WRITE

\* The name cache after the records P were shown: the last KV_WRITE record
\* of each name, as far as the table has room.
LoadCaches(P) ==
    LET w(k) == {a \in P : recs[a[1]][a[2]].key = k /\ Loadable(recs[a[1]][a[2]])}
        d == [k \in Key |-> IF w(k) = {} THEN kvCache[k]
                ELSE AddrOf(LastOf(scan.base, w(k)))]
        held == {k \in Key : d[k] # NoAddr}
        size == Min({KvCacheSize, Cardinality(held)})
    IN {[k \in Key |-> IF k \in K THEN d[k] ELSE NoAddr] : K \in kSubset(size, held)}

RecoverKv ==
    /\ pc = "recKv" /\ ToRecover # {}
    /\ LET a == FirstOf(scan.base, ToRecover)
           r == recs[a[1]][a[2]]
       IN /\ kvCache' \in LoadCaches({b \in Ahead : Before(scan.base, b, a)})
          /\ secCache' = FillCache(secCache, scan.base,
               {t \in Sector : Rank(scan.base, t) \in scan.n .. Rank(scan.base, a[1])})
          /\ scan' = [scan EXCEPT !.n = Rank(scan.base, a[1]), !.idx = a[2] + 1]
          /\ IF r.st = KV_PRE_DELETE
             THEN Move("rec", a[1], a[2]) /\ UNCHANGED flash
             ELSE \* a record that was not finished ends the iteration
                  /\ SetKvStatus(a[1], a[2], KV_ERR_HDR)
                  /\ pc' = "recEnd"
                  /\ UNCHANGED <<old, mv>>
    /\ UNCHANGED <<oldest, gcReq, inRec, lastDel, op, ack, cur, gc, crashes>>

RecoverKvDone ==
    /\ pc = "recKv" /\ ToRecover = {}
    /\ kvCache' \in LoadCaches(Ahead)
    /\ secCache' = FillCache(secCache, scan.base, {t \in Sector : Rank(scan.base, t) >= scan.n})
    /\ pc' = "recEnd"
    /\ UNCHANGED <<flash, oldest, gcReq, inRec, lastDel, frame, crashes>>

\* Collect and start over, or the database is ready (_fdb_init_finish).
LoadEnd ==
    /\ pc = "recEnd"
    /\ IF gcReq
       THEN /\ pc' = "gc" /\ gc' = [NoGc EXCEPT !.free = SecNum * Cap, !.then = "retry"]
            /\ UNCHANGED <<scan, inRec>>
       ELSE /\ pc' = "idle" /\ scan' = NoScan /\ inRec' = FALSE
            /\ UNCHANGED gc
    /\ UNCHANGED <<flash, oldest, gcReq, lastDel, kvCache, secCache, op, ack, cur, old, mv, crashes>>

LoadRetry ==
    /\ pc = "retry"
    /\ scan' = [NoScan EXCEPT !.base = oldest]
    /\ pc' = "recKv"
    /\ UNCHANGED <<flash, ram, op, ack, cur, old, mv, gc, crashes>>

-----------------------------------------------------------------------------
(* The callers: fdb_kv_set, fdb_kv_set_blob, fdb_kv_del, fdb_kv_set_default, *)
(* fdb_kv_get and friends, fdb_kvdb_deinit                                    *)

Set(k, v) ==
    /\ pc = "idle"
    /\ op' = [NoOp EXCEPT !.kind = "set", !.key = k, !.val = v]
    /\ ack' = FALSE
    /\ pc' = "new"
    /\ UNCHANGED <<flash, ram, cur, old, mv, gc, scan, crashes>>

Del(k) ==
    /\ pc = "idle"
    /\ op' = [NoOp EXCEPT !.kind = "del", !.key = k]
    /\ ack' = FALSE
    /\ pc' = "find"
    /\ UNCHANGED <<flash, ram, cur, old, mv, gc, scan, crashes>>

SetDefault ==
    /\ pc = "idle"
    /\ op' = [NoOp EXCEPT !.kind = "reset"]
    /\ ack' = FALSE
    /\ kvCache' = [k \in Key |-> NoAddr]
    /\ scan' = NoScan
    /\ pc' = "fmtErase"
    /\ UNCHANGED <<flash, oldest, gcReq, inRec, lastDel, secCache, cur, old, mv, gc, crashes>>

\* Reading changes nothing but the caches.
Get(k) ==
    /\ pc = "idle"
    /\ FindCaches(k)
    /\ UNCHANGED <<flash, oldest, gcReq, inRec, lastDel, pc, frame, crashes>>

Deinit ==
    /\ pc = "idle"
    /\ pc' = "down"
    /\ ack' = FALSE
    /\ UNCHANGED <<flash, ram, op, cur, old, mv, gc, scan, crashes>>

\* Power is lost: everything but the flash starts again from zero.
Crash ==
    /\ pc # "off" /\ crashes < MaxCrash
    /\ crashes' = crashes + 1
    /\ pc' = "off"
    /\ oldest' = 0 /\ gcReq' = FALSE /\ inRec' = FALSE /\ lastDel' = FALSE
    /\ kvCache' = [k \in Key |-> NoAddr]
    /\ secCache' = [s \in Sector |-> NoInfo]
    /\ op' = NoOp /\ ack' = FALSE /\ cur' = NoCur /\ old' = NoOld
    /\ mv' = "no" /\ gc' = NoGc /\ scan' = NoScan
    /\ UNCHANGED flash

-----------------------------------------------------------------------------
\* A new device: the partition is erased and the power is off.
Init ==
    /\ magic = [s \in Sector |-> FALSE]
    /\ store = [s \in Sector |-> STORE_UNUSED]
    /\ dirty = [s \in Sector |-> DIRTY_UNUSED]
    /\ recs = [s \in Sector |-> <<>>]
    /\ oldest = 0 /\ gcReq = FALSE /\ inRec = FALSE /\ lastDel = FALSE
    /\ kvCache = [k \in Key |-> NoAddr]
    /\ secCache = [s \in Sector |-> NoInfo]
    /\ pc = "off" /\ op = NoOp /\ ack = FALSE
    /\ cur = NoCur /\ old = NoOld /\ mv = "no" /\ gc = NoGc /\ scan = NoScan
    /\ crashes = 0

Load == CheckHdr \/ HdrDone \/ ResumeGc \/ ResumeGcDone
        \/ RecoverKv \/ RecoverKvDone \/ LoadEnd \/ LoadRetry
Reset == FmtErase \/ FmtHdr \/ NextDefault \/ DefaultsDone
New == NewKv \/ NewKvGc \/ NewKvFull
DeleteKv == FindOld \/ PreDelete \/ Delete \/ MarkDirty
Write == UpdateSecStatus \/ PreWrite \/ WriteMagic \/ WriteHdr \/ WriteBody \/ Commit
MoveKv == MvAlloc \/ MvFull
Gc == GcBegin \/ GcVisit \/ GcDone \/ GcMove \/ GcErase \/ GcFormat \/ GcNext

\* What runs by itself once it was started.
Step == Load \/ Reset \/ New \/ DeleteKv \/ Write \/ MoveKv \/ Gc \/ PostGc

Call == \/ \E k \in Key, v \in Val : Set(k, v)
        \/ \E k \in Key : Del(k) \/ Get(k)
        \/ SetDefault \/ Deinit \/ FindOldest

Next == Step \/ Call \/ Crash

Spec == Init /\ [][Next]_vars

\* The task inside a call keeps running: nothing in a call waits.
FairSpec == Spec /\ WF_vars(Step)
=============================================================================
