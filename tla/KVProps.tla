------------------------------- MODULE KVProps -------------------------------
(***************************************************************************)
(* The properties of the KV database KVDB.tla.                             *)
(***************************************************************************)
EXTENDS KVDB

-----------------------------------------------------------------------------
(* Types *)

PC == {"off", "down", "hdr", "recGc", "recKv", "recEnd", "retry", "fmtErase", "fmtHdr",
       "nextDef", "idle", "new", "find", "preDel", "preDirty", "delete", "delDirty",
       "status", "preWrite", "magic", "header", "body", "commit", "postGc", "mvAlloc",
       "gc", "gcVisit", "gcScan", "gcFormat", "gcNext"}

FlashType ==
    /\ magic \in [Sector -> BOOLEAN]
    /\ store \in [Sector -> Store]
    /\ dirty \in [Sector -> Dirty]
    /\ recs \in [Sector -> Seq(Rec)]

RamType ==
    /\ oldest \in Sector
    /\ gcReq \in BOOLEAN /\ inRec \in BOOLEAN /\ lastDel \in BOOLEAN
    /\ kvCache \in [Key -> Addr \cup {NoAddr}]
    /\ secCache \in [Sector -> InfoType]

OpType == [kind : {"none", "set", "del", "boot", "reset"}, key : Key \cup {NoKey},
           val : Val \cup {NoVal}, i : Nat, again : BOOLEAN]
CurType == [sec : Sector, at : Nat, len : Nat, key : Key \cup {NoKey}, val : Val \cup {NoVal},
            store : Store, remain : Int, full : BOOLEAN]
OldType == [sec : Sector, idx : Nat, rec : Rec]
GcType == [free : Nat, then : {"idle", "new", "end", "recGc", "retry"},
           base : Sector, n : Nat, idx : Nat, last : Sector]
ScanType == [base : Sector, n : Nat, idx : Nat, bad : Nat]

FrameType ==
    /\ pc \in PC
    /\ op \in OpType
    /\ ack \in BOOLEAN
    /\ cur \in CurType
    /\ old \in OldType
    /\ mv \in {"no", "gc", "rec"}
    /\ gc \in GcType
    /\ scan \in ScanType
    /\ crashes \in 0 .. MaxCrash

\* Every variable keeps its type: above all the addresses stay inside the
\* partition when the sectors wrap around (get_next_sector_addr).
TypeOK == FlashType /\ RamType /\ FrameType

-----------------------------------------------------------------------------
(* What the flash alone says *)

AllRecs == UNION {{s} \X DOMAIN recs[s] : s \in Sector}
RecAt(a) == recs[a[1]][a[2]]
OfStatus(k, st) == {a \in AllRecs : RecAt(a).key = k /\ RecAt(a).st = st}

\* The value of name k: of its written record, else of the one that was about
\* to be replaced or moved.
Stored(k) ==
    LET w == OfStatus(k, KV_WRITE)
        p == OfStatus(k, KV_PRE_DELETE)
    IN IF w # {} THEN RecAt(CHOOSE a \in w : TRUE).val
       ELSE IF p # {} THEN RecAt(CHOOSE a \in p : TRUE).val ELSE NoVal

Idle == pc = "idle"

-----------------------------------------------------------------------------
(* Refinement *)

Request ==
    CASE op.kind \in {"set", "del"} -> [kind |-> op.kind, key |-> op.key, val |-> op.val]
      [] op.kind \in {"boot", "reset"} -> [kind |-> op.kind, key |-> NoKey, val |-> NoVal]
      [] OTHER -> [kind |-> "none", key |-> NoKey, val |-> NoVal]

Promise == INSTANCE KVStore WITH
    db <- [k \in Key |-> Stored(k)],
    req <- Request,
    DefaultPairs <- {Defaults[i] : i \in DOMAIN Defaults}

\* set_kv, fdb_kv_del, garbage collection and recovery together implement the
\* map of KVStore: across a loss of power at any write a set has happened or
\* has not, a collection changes no value, and success means it is stored.
Atomic == Promise!Spec

-----------------------------------------------------------------------------
(* Safety *)

\* Between calls fdb_kv_get, by whichever of the name cache and the flash scan
\* it goes, returns the value that is stored.
Visible(k) == IF Found(k) THEN RecAt(Find(k)).val ELSE NoVal
ReadsAgree == Idle => \A k \in Key : Visible(k) = Stored(k)

\* Between calls there is an empty sector left for the next collection
\* (fdb_kvdb.c:1805 "there is at least one empty sector for GC").
OneEmpty == Idle => \E s \in Sector : store[s] = STORE_EMPTY

\* No sector ever becomes FULL: alloc_kv_cb already leaves the room that
\* update_sec_status wants to see left, so the branch that marks a sector
\* FULL, and the collection after a set that hangs on it, never run.
NeverFull == \A s \in Sector : store[s] # STORE_FULL

\* Between calls a name has one written record at most.
NoDuplicate == Idle => \A k \in Key : Cardinality(OfStatus(k, KV_WRITE)) <= 1

\* Between calls what the sector cache holds is what the flash holds.
CacheCoherent ==
    Idle => \A s \in Sector : Cached(secCache, s) =>
               /\ magic[s]
               /\ secCache[s].store = store[s]
               /\ secCache[s].dirty = dirty[s]
               /\ secCache[s].empty \in {FailedAddr, Fill(store[s], recs[s])}

\* When a database is ready no record is left PRE_DELETE, where fdb_kv_get
\* would not see it (fdb_kvdb.c:1678 "check all KV for recovery").
AllRecovered == Idle => \A k \in Key : OfStatus(k, KV_PRE_DELETE) = {}

\* do_gc does not copy a record into the sector it is about to erase, whose
\* dirty mark in the sector cache is older than the one on the flash.
MoveLeavesVictim == mv = "gc" /\ pc = "preWrite" => cur.sec # Victim

-----------------------------------------------------------------------------
(* What a step may not do *)

\* do_gc erases a sector when all that is left in it is garbage, or copied
\* (fdb_kvdb.c:1130 "is garbage NOT need move, collect it").
OnlyGarbageErased ==
    [][pc = "gcScan" /\ pc' = "gcFormat" =>
         \A i \in DOMAIN recs[Victim] :
            recs[Victim][i].key = NoKey
            \/ recs[Victim][i].st \notin {KV_WRITE, KV_PRE_DELETE}]_vars

\* FDB_SAVED_FULL after a collection means that nothing is left to collect
\* (fdb_kvdb.c:1080 "failed after GC. KV full").
FullMeansFull ==
    [][op.kind = "set" /\ op.again /\ pc = "new" /\ pc' = "idle" /\ KvLen[op.val] + Threshold < Cap =>
         \A s \in Sector : dirty[s] # DIRTY_TRUE]_vars

\* fdb_kvdb_init starts at the sector its comment describes: one whose
\* predecessor is empty while it holds records (fdb_kvdb.c:1576).
OldestOnFlash ==
    LET edges == {s \in Sector \ {0} :
                    store[s - 1] = STORE_EMPTY /\ store[s] \in {STORE_USING, STORE_FULL}}
    IN IF edges = {} THEN 0 ELSE Max(edges)
OldestFound == [][(pc \in {"off", "down"} /\ pc' = "hdr") => oldest' = OldestOnFlash]_vars

-----------------------------------------------------------------------------
(* Liveness *)

\* Every call, fdb_kvdb_init included, returns.
InCall == pc \notin {"idle", "off", "down"}
CallsReturn == InCall ~> ~InCall

-----------------------------------------------------------------------------
(* The boots of a new device before the first call is made *)

BootSpec == Init /\ [][Step \/ FindOldest \/ Crash]_vars

\* The first time the database is ready it holds the defaults (main.c:87
\* "It will auto add to KVDB when first initialize successfully").
DefaultsThere == Idle => \A i \in DOMAIN Defaults : Stored(Defaults[i][1]) = Defaults[i][2]
=============================================================================
