------------------------------ MODULE KVIterate ------------------------------
(***************************************************************************)
(* fdb_kv_iterate (fdb_kvdb.c) next to the rest of the KV database.  It is *)
(* the one reader that takes no lock: another task may set, delete or      *)
(* collect between any two of its flash accesses, and it writes as well:   *)
(* it fills the sector cache, and read_kv marks a record whose length it   *)
(* cannot read KV_ERR_HDR.                                                 *)
(*                                                                         *)
(* One action of the iterator is one access: the sector header, the entry  *)
(* in the sector cache, the next record (the search for its magic word and *)
(* the read behind it), the mark.  The steps of KVDB.tla come between any  *)
(* two of them, and the iterator's between any two of theirs, except that  *)
(* it reads nothing inside a single write (pc = "header"), which the flash *)
(* port makes under its own lock.  An entry is copied into the sector      *)
(* cache as a whole.                                                       *)
(***************************************************************************)
EXTENDS KVProps

VARIABLES
    itr,    \* the iterator: where it is and what it read last
    hurt,   \* the sectors whose first slot is blank but for a KV_ERR_HDR mark
    want,   \* the records that were there at the start, have not changed
            \* since, and are still to be reported
    seen,   \* ... and were reported
    twice,  \* some record of `seen' was reported again
    raced   \* the header of a sector has been written, in this iteration or
            \* an earlier one, between the iterator's read of it and the
            \* entry in the sector cache that it makes of what it read

itrVars  == <<itr, hurt, want, seen, twice, raced>>
iterVars == <<vars, itrVars>>

\* curr_kv.addr.start = 0: the first record of the sector is next.
First == -1
NoIter == [phase |-> "off", sec |-> 0, n |-> 0, from |-> First, info |-> NoInfo]

Place(a) == <<a[1], RecAt(a).at>>
Readable == {Place(a) : a \in {b \in AllRecs : CrcOk(RecAt(b)) /\ RecAt(b).st = KV_WRITE}}

\* The port makes one access to the flash at a time.
MayRead == pc # "header"

-----------------------------------------------------------------------------
\* fdb_kv_iterator_init, between two calls of the other task; the first read
\* of the flash may come much later.
IterStart ==
    /\ itr.phase = "off" /\ pc = "idle"
    /\ itr' = [NoIter EXCEPT !.phase = "sector", !.sec = oldest]
    /\ want' = Readable /\ seen' = {} /\ twice' = FALSE
    /\ UNCHANGED <<vars, hurt, raced>>

\* traversed_len grows; get_next_sector_addr wraps around.
\* Mutated form: the record address of the sector before is kept.
NextSec_KeepsAddr ==
    [itr EXCEPT !.phase = IF itr.n + 1 < SecNum THEN "sector" ELSE "end",
                !.n = @ + 1, !.sec = NextSector(@), !.info = NoInfo]
NextSec ==
    [itr EXCEPT !.phase = IF itr.n + 1 < SecNum THEN "sector" ELSE "end",
                !.n = @ + 1, !.sec = NextSector(@), !.from = First, !.info = NoInfo]

HasKvs(i) == i.store \in {STORE_USING, STORE_FULL}
Enter(i) == IF HasKvs(i) THEN [itr EXCEPT !.phase = "record", !.info = NoInfo] ELSE NextSec

\* update_sector_cache with a sector that was read without its records: it
\* replaces an entry of that sector, or takes a free one.
Put(c, s, i) ==
    IF Cached(c, s) \/ Cardinality({t \in Sector : Cached(c, t)}) < SecCacheSize
    THEN [c EXCEPT ![s] = i] ELSE c

\* read_sector_info(.., false): from the cache, or from the flash
IterSector ==
    /\ itr.phase = "sector" /\ MayRead
    /\ LET s == itr.sec
           i == HdrInfo(s)
       IN IF Cached(secCache, s) \/ ~magic[s]
          THEN itr' = Enter(i)
          ELSE itr' = [itr EXCEPT !.phase = "fill", !.info = i]
    /\ UNCHANGED <<vars, hurt, want, seen, twice, raced>>

\* The look for an entry that another task has made since (fdb_kvdb.c:486)
\* comes at any moment before the entry itself: it finds one, or it came too
\* early and the entry is replaced.
IterFill ==
    /\ itr.phase = "fill"
    /\ \/ Cached(secCache, itr.sec) /\ secCache' = secCache
       \/ secCache' = Put(secCache, itr.sec, itr.info)
    /\ itr' = Enter(itr.info)
    /\ UNCHANGED <<flash, oldest, gcReq, inRec, lastDel, kvCache, pc, frame, crashes,
                   hurt, want, seen, twice, raced>>

-----------------------------------------------------------------------------
(* get_next_kv_addr and read_kv *)

\* The records find_next_kv_addr stops at: those with a magic word, from the
\* address on; none when the sector cache says that is the free space.
WithMagic(s) == {i \in DOMAIN recs[s] : recs[s][i].len >= HdrLen /\ recs[s][i].at >= itr.from}
NextRec(s) ==
    IF Cached(secCache, s) /\ secCache[s].empty = itr.from THEN {}
    ELSE {i \in WithMagic(s) : \A j \in WithMagic(s) : i <= j}

AtFirst(s) == {i \in DOMAIN recs[s] : recs[s][i].at = 0}
\* The length of what stands in the first slot is not written.
NoLength(s) == \A i \in AtFirst(s) : recs[s][i].len <= HdrLen
Marked(s) == IF AtFirst(s) = {} THEN s \in hurt
             ELSE \A i \in AtFirst(s) : recs[s][i].st = KV_ERR_HDR

\* Where the search for the record behind r starts.
Behind(r) == IF CrcOk(r) THEN r.at + r.len ELSE r.at + 1

IterRecord ==
    /\ itr.phase = "record" /\ MayRead
    /\ LET s == itr.sec
           here == IF itr.from = First THEN AtFirst(s) ELSE NextRec(s)
       IN IF itr.from = First /\ NoLength(s)
          THEN \* the first record is read without a look for its magic word
               /\ itr' = IF Marked(s) THEN [itr EXCEPT !.from = 1]
                         ELSE [itr EXCEPT !.phase = "mark"]
               /\ UNCHANGED <<want, seen, twice>>
          ELSE IF here = {}
          THEN itr' = NextSec /\ UNCHANGED <<want, seen, twice>>
          ELSE LET r == recs[s][CHOOSE i \in here : TRUE]
                   got == IF CrcOk(r) /\ r.st = KV_WRITE THEN {<<s, r.at>>} ELSE {}
               IN \* a record that is reported ends the call
                  /\ itr' = [itr EXCEPT !.from = Behind(r),
                               !.phase = IF got = {} THEN "record" ELSE "sector"]
                  /\ want' = want \ got
                  /\ seen' = seen \cup (got \cap want)
                  /\ twice' = (twice \/ got \cap seen # {})
    /\ UNCHANGED <<vars, hurt, raced>>

\* The mark meets whatever is there by now.
IterMark ==
    /\ itr.phase = "mark" /\ MayRead
    /\ LET s == itr.sec IN
       /\ recs' = [recs EXCEPT ![s] = [i \in DOMAIN @ |->
                     IF @[i].at = 0 THEN [@[i] EXCEPT !.st = KV_ERR_HDR] ELSE @[i]]]
       /\ hurt' = IF AtFirst(s) = {} THEN hurt \cup {s} ELSE hurt
       /\ want' = want \ {<<s, 0>>} /\ seen' = seen \ {<<s, 0>>}
    /\ itr' = [itr EXCEPT !.phase = "record", !.from = 1]
    /\ UNCHANGED <<magic, store, dirty, ram, pc, frame, crashes, twice, raced>>

IterStop ==
    /\ itr.phase = "end"
    /\ itr' = NoIter /\ want' = {} /\ seen' = {} /\ twice' = FALSE
    /\ UNCHANGED <<vars, hurt, raced>>

-----------------------------------------------------------------------------
(* The other tasks *)

\* The status byte of a new record goes over the mark, which stays.
PreWriteHurt ==
    /\ pc = "preWrite" /\ cur.at = 0 /\ cur.sec \in hurt
    /\ recs' = [recs EXCEPT ![cur.sec] =
                  Append(@, [at |-> 0, len |-> GapLen, st |-> WriteStatus(KV_ERR_HDR, KV_PRE_WRITE),
                             key |-> NoKey, val |-> NoVal])]
    /\ hurt' = hurt \ {cur.sec}
    /\ pc' = "magic"
    /\ UNCHANGED <<magic, store, dirty, ram, frame, crashes>>

HeaderWritten(s) ==
    magic'[s] # magic[s] \/ store'[s] # store[s] \/ dirty'[s] # dirty[s]

\* A step of the database, at any moment; an erase takes the mark away.
DbStep ==
    /\ \/ PreWriteHurt
       \/ /\ ~(pc = "preWrite" /\ cur.at = 0 /\ cur.sec \in hurt)
          /\ Step \/ FindOldest \/ SetDefault
             \/ \E k \in Key : Del(k) \/ Get(k) \/ \E v \in Val : Set(k, v)
          /\ hurt' = hurt \ {s \in Sector : magic[s] /\ ~magic'[s]}
    /\ LET still == {Place(a) : a \in {b \in AllRecs : RecAt(b).st = KV_WRITE}}' IN
       want' = want \cap still /\ seen' = seen \cap still
    /\ raced' = (raced \/ (itr.phase = "fill" /\ HeaderWritten(itr.sec)))
    /\ UNCHANGED <<itr, twice>>

IterInit ==
    /\ Init
    /\ itr = NoIter /\ hurt = {} /\ want = {} /\ seen = {} /\ twice = FALSE
    /\ raced = FALSE

Iterate == IterStart \/ IterSector \/ IterFill \/ IterRecord \/ IterMark \/ IterStop
IterNext == Iterate \/ DbStep
IterSpec == IterInit /\ [][IterNext]_iterVars

-----------------------------------------------------------------------------
(* Properties *)

\* An iteration that has been in all sectors has reported every record that
\* nothing touched while it ran, and reported it once (fdb_kvdb.c:1919
\* "Finally we have iterated all the KVs").
StableOnce == itr.phase = "end" => want = {} /\ ~twice

\* ... whatever was set, deleted, collected or formatted between two of its
\* accesses, as long as no header was written between the iterator's read of
\* it (fdb_kvdb.c:430) and the entry in the sector cache (493).
StableUnlessRaced == ~raced => StableOnce

\* When a set returns FDB_NO_ERR, a complete record of that value is on the
\* flash, also while another task iterates (fdb_kvdb.c:1386 "If not find it in
\* flash, then create it"; 1275 "change the KV status to KV_WRITE").  What a
\* get returns from the name cache is not asked.
SetStored ==
    [][op.kind = "set" /\ pc # "idle" /\ pc' = "idle" /\ ack' => Stored(op.key)' = op.val]_iterVars
=============================================================================
