------------------------------- MODULE System -------------------------------
(***************************************************************************)
(* The tasks of an application that share databases: which calls of the    *)
(* API take the database's lock and which look at init_ok first, where     *)
(* fdb_kvdb_init gives the lock up, and how each flash access goes         *)
(* through FAL and the port with its own lock.                             *)
(*                                                                         *)
(* What a call does to its database is the subject of KVDB.tla and         *)
(* TSDB.tla, which rely on what is shown here: that the sections under the *)
(* lock, and _fdb_kv_load, exclude each other.  The calls without a lock   *)
(* are not excluded and write as well: fdb_kv_iterate (the mark of read_kv *)
(* and the sector cache) is the subject of KVIterate.tla, fdb_tsl_set_     *)
(* status that of TSQuery.tla.                                             *)
(***************************************************************************)
EXTENDS FAL

CONSTANTS
    Task,           \* the tasks
    InitTask,       \* those that call fdb_*_init and fdb_*_deinit
    Kv,             \* which databases are KV databases; the others are TS
    Lock, LockMaps, \* semaphores, and which database uses which (main.c:
                    \* one for all; README.md: one for each)
    Orderly,        \* the application keeps the rules below
    NotFormatable,  \* FDB_TSDB_CTRL_SET_NOT_FORMAT
    CallbackLocks,  \* a callback of fdb_tsl_iter calls a locking function
    Wraps,          \* accesses may run over the end of the address space
    Addrs, Sizes,   \* the accesses the databases make
    MaxOps, MaxCalls    \* bounds: accesses per section, calls of each task

ASSUME TaskAssumption == InitTask \subseteq Task /\ Kv \subseteq Db
ASSUME LockAssumption == LockMaps \subseteq [Db -> Lock]
ASSUME RuleAssumption ==
    Orderly \in BOOLEAN /\ NotFormatable \in BOOLEAN /\ CallbackLocks \in BOOLEAN /\ Wraps \in BOOLEAN
ASSUME BoundAssumption ==
    Addrs \subseteq 0 .. Word - 1 /\ Sizes \subseteq 1 .. Word /\ MaxOps \in Nat /\ MaxCalls \in [Task -> Nat]

VARIABLES
    initOk,     \* db->init_ok
    lockOf,     \* what db->lock and db->unlock work on
    sem,        \* the semaphores: the lock is free
    portSem,    \* s_lock of the port
    st,         \* what each task is doing
    calls       \* how many calls it made

vars == <<falVars, initOk, lockOf, sem, portSem, st, calls>>

(***************************************************************************)
(* A task is in a call of some kind on database db:                        *)
(*   use    fdb_kv_set, _del, _get, fdb_tsl_append, ...: asks init_ok,     *)
(*          then locks                                                     *)
(*   force  fdb_kv_set_default, fdb_tsl_clean, fdb_tsl_iter (which reports *)
(*          that init_ok is false and goes on): locks in any case          *)
(*   bare   fdb_kv_iterate, fdb_tsl_set_status, fdb_blob_read: no lock     *)
(*   init   fdb_kvdb_init, fdb_tsdb_init                                   *)
(* load says that fdb_kvdb_init is in _fdb_kv_load (1) or behind it (2);   *)
(* ops counts the flash accesses still to come in this section; back is    *)
(* where an access returns to, acc what it touches.                        *)
(***************************************************************************)
NoTask == [pc |-> "idle", kind |-> "none", db |-> CHOOSE d \in Db : TRUE, load |-> 0,
           ops |-> 0, back |-> "idle", acc |-> {}]

Go(t, s) == st' = [st EXCEPT ![t] = s]
InCall(t) == st[t].pc # "idle"
OnDb(d) == {t \in Task : InCall(t) /\ st[t].db = d}

-----------------------------------------------------------------------------
(* Calls *)

\* The rules an application has to keep: initialise once, use a database
\* that is initialised, deinitialise one that nobody uses.
MayCall(t, kind, d) ==
    CASE kind = "init"             -> t \in InitTask /\ ~initOk[d] /\ (\A u \in OnDb(d) : st[u].kind # "init")
      [] kind \in {"force", "bare"} -> initOk[d]
      [] OTHER                     -> TRUE
MayDeinit(t, d) == t \in InitTask /\ OnDb(d) = {}

\* Where a call begins.
Entry(kind) ==
    CASE kind = "use"   -> "check"
      [] kind = "force" -> "lock"
      [] kind = "bare"  -> "bare"
      [] kind = "init"  -> "fal"
Entered(kind, d, ops) == [NoTask EXCEPT !.pc = Entry(kind), !.kind = kind, !.db = d, !.ops = ops]

Call(t, kind, d) ==
    /\ ~InCall(t) /\ calls[t] < MaxCalls[t]
    /\ Orderly => MayCall(t, kind, d)
    /\ calls' = [calls EXCEPT ![t] = @ + 1]
    /\ \E ops \in 0 .. MaxOps : Go(t, Entered(kind, d, ops))
    /\ UNCHANGED <<falVars, initOk, lockOf, sem, portSem>>

\* fdb_kvdb_deinit, fdb_tsdb_deinit
Deinit(t, d) ==
    /\ ~InCall(t) /\ calls[t] < MaxCalls[t]
    /\ Orderly => MayDeinit(t, d)
    /\ calls' = [calls EXCEPT ![t] = @ + 1]
    /\ initOk' = [initOk EXCEPT ![d] = FALSE]
    /\ UNCHANGED <<falVars, lockOf, sem, portSem, st>>

\* "isn't initialize OK" is returned.  Mutated form: the call goes on.
Refuses_Never(d) == FALSE
Refuses(d) == ~initOk[d]

Check(t) ==
    /\ st[t].pc = "check"
    /\ Go(t, IF Refuses(st[t].db) THEN NoTask ELSE [st[t] EXCEPT !.pc = "lock"])
    /\ UNCHANGED <<falVars, initOk, lockOf, sem, portSem, calls>>

\* _fdb_init_ex; fal_partition_find asserts that the table is there.
InitEx(t) ==
    /\ st[t].pc = "fal"
    /\ FalInit
    /\ falInit'
    /\ Go(t, IF initOk[st[t].db] \/ GeometryOk(st[t].db)
             THEN [st[t] EXCEPT !.pc = "lock"] ELSE NoTask)
    /\ UNCHANGED <<initOk, lockOf, sem, portSem, calls>>

-----------------------------------------------------------------------------
(* The lock *)

Free(l) == sem[l]

LockDb(t) ==
    /\ st[t].pc = "lock" /\ Free(lockOf[st[t].db])
    /\ sem' = [sem EXCEPT ![lockOf[st[t].db]] = FALSE]
    /\ Go(t, [st[t] EXCEPT !.pc = "work"])
    /\ UNCHANGED <<falVars, initOk, lockOf, portSem, calls>>

\* _fdb_kv_load, which makes accesses of its own.
Loading(s) == {[s EXCEPT !.pc = "load", !.load = 1, !.ops = ops] : ops \in 0 .. MaxOps}

\* Where a call goes on when it gave the lock back: fdb_kvdb_init goes to
\* _fdb_kv_load, or back to it.
AfterUnlock(s) ==
    CASE s.kind # "init"                    -> {NoTask}
      [] s.kind = "init" /\ s.load = 0 /\ s.db \in Kv -> Loading(s)
      [] s.kind = "init" /\ s.load = 1      -> {[s EXCEPT !.pc = "load"]}
      [] OTHER                              -> {[s EXCEPT !.pc = "finish"]}

\* Mutated form: a call returns with the lock taken.
Given_Not(l) == sem
Given(l) == [sem EXCEPT ![l] = TRUE]

\* May an init find a sector header that is bad and that it must not format?
HeadersBad == IF NotFormatable THEN BOOLEAN ELSE {FALSE}

\* fdb_tsdb_init then goes to __exit past its db_unlock.
Leaves(s) == s.kind = "init" /\ s.db \notin Kv

UnlockDb(t) ==
    /\ st[t].pc = "work" /\ st[t].ops = 0
    /\ \E bad \in HeadersBad :
         IF bad /\ Leaves(st[t])
         THEN Go(t, NoTask) /\ UNCHANGED sem
         ELSE /\ \E s \in AfterUnlock(st[t]) : Go(t, s)
              /\ sem' = Given(lockOf[st[t].db])
    /\ UNCHANGED <<falVars, initOk, lockOf, portSem, calls>>

\* A call that takes the lock inside another: fdb_kv_set_default in
\* _fdb_kv_load, which has given it up, or one in a callback of fdb_tsl_iter,
\* which has not.
Locks(s) == s.pc = "load" \/ (CallbackLocks /\ s.pc = "work" /\ s.kind = "force" /\ s.db \notin Kv)

LockAgain(t) ==
    /\ st[t].ops > 0 /\ Locks(st[t])
    /\ Go(t, [st[t] EXCEPT !.pc = "lock"])
    /\ UNCHANGED <<falVars, initOk, lockOf, sem, portSem, calls>>

LoadEnd(t) ==
    /\ st[t].pc = "load" /\ st[t].ops = 0
    /\ Go(t, [st[t] EXCEPT !.pc = "lock", !.load = 2])
    /\ UNCHANGED <<falVars, initOk, lockOf, sem, portSem, calls>>

\* _fdb_init_finish; with a bad header _fdb_kv_load has returned FDB_READ_ERR.
Finish(t) ==
    /\ st[t].pc = "finish"
    /\ \E bad \in HeadersBad :
         initOk' = [initOk EXCEPT ![st[t].db] = @ \/ ~bad \/ st[t].db \notin Kv]
    /\ Go(t, NoTask)
    /\ UNCHANGED <<falVars, lockOf, sem, portSem, calls>>

BareEnd(t) ==
    /\ st[t].pc = "bare" /\ st[t].ops = 0
    /\ Go(t, NoTask)
    /\ UNCHANGED <<falVars, initOk, lockOf, sem, portSem, calls>>

-----------------------------------------------------------------------------
(* One access to the flash *)

Access(t, kind, addr, size) ==
    /\ st[t].pc \in {"work", "load", "bare"} /\ st[t].ops > 0
    /\ ~Wraps => addr + size <= Word - 1
    /\ LET s == [st[t] EXCEPT !.ops = @ - 1]
           d == st[t].db
       IN Go(t, IF Reaches(kind, d, addr, size)
                THEN [s EXCEPT !.pc = "port", !.back = s.pc, !.acc = Touched(kind, d, addr, size)]
                ELSE s)     \* -1, which becomes FDB_*_ERR
    /\ UNCHANGED <<falVars, initOk, lockOf, sem, portSem, calls>>

\* Mutated form: the lock of the port is not waited for.
PortFree_Always == TRUE
PortFree == portSem

PortLock(t) ==
    /\ st[t].pc = "port" /\ PortFree
    /\ portSem' = FALSE
    /\ Go(t, [st[t] EXCEPT !.pc = "esp"])
    /\ UNCHANGED <<falVars, initOk, lockOf, sem, calls>>

PortUnlock(t) ==
    /\ st[t].pc = "esp"
    /\ portSem' = TRUE
    /\ Go(t, [st[t] EXCEPT !.pc = st[t].back, !.back = "idle", !.acc = {}])
    /\ UNCHANGED <<falVars, initOk, lockOf, sem, calls>>

-----------------------------------------------------------------------------
\* app_main calls fal_init first; lock and unlock of the databases are set
\* before they are initialised.
Init ==
    /\ FalStart
    /\ initOk = [d \in Db |-> FALSE]
    /\ lockOf \in LockMaps
    /\ sem = [l \in Lock |-> TRUE] /\ portSem = TRUE
    /\ st = [t \in Task |-> NoTask]
    /\ calls = [t \in Task |-> 0]

Main ==
    /\ ~devInit
    /\ FalInit
    /\ UNCHANGED <<initOk, lockOf, sem, portSem, st, calls>>

Step(t) ==
    \/ Check(t) \/ InitEx(t) \/ LockDb(t) \/ UnlockDb(t) \/ LockAgain(t)
    \/ LoadEnd(t) \/ Finish(t) \/ BareEnd(t)
    \/ \E kind \in Kinds, addr \in Addrs, size \in Sizes : Access(t, kind, addr, size)
    \/ PortLock(t) \/ PortUnlock(t)

Begin(t) == devInit /\ \E d \in Db : Deinit(t, d) \/ \E kind \in {"use", "force", "bare", "init"} : Call(t, kind, d)

Next == Main \/ \E t \in Task : Step(t) \/ Begin(t)

Spec == Init /\ [][Next]_vars

\* Every task is scheduled; that it gets a semaphore others keep asking for
\* is not assumed.
FairSpec == Spec /\ \A t \in Task : WF_vars(Step(t))

-----------------------------------------------------------------------------
(* Properties *)

\* t is in a section of database d: under the lock, or in _fdb_kv_load.
Holds(t) == st[t].pc = "work" \/ st[t].back = "work"
InLoad(t, d) == st[t].db = d /\ st[t].load = 1
InSection(t, d) == (st[t].db = d /\ Holds(t)) \/ InLoad(t, d)
\* t is in a call that takes no lock, and may write (fdb_kvdb.c:363 and 493,
\* fdb_tsdb.c:750).
Bare(t, d) == st[t].db = d /\ st[t].kind = "bare"

\* The sections under the lock exclude each other, and _fdb_kv_load, which
\* runs without it (fdb_kvdb.c:1820), excludes them and the calls that take
\* no lock too, by nothing but init_ok being still false.  Next to a section
\* under the lock a call without it may run, and write.
SectionsExclude ==
    \A d \in Db, t, u \in Task : t # u =>
        /\ InSection(t, d) => ~InSection(u, d)
        /\ InLoad(t, d) => ~Bare(u, d)

\* One task at a time is in a function of ESP-IDF's partition API.
OneAtPort == \A t, u \in Task : t # u /\ st[t].pc = "esp" => st[u].pc # "esp"

\* No access of a database touches the partition of another: neither the
\* rounding of an erase nor the bound check lets it.
InPartition == \A t \in Task : st[t].acc \subseteq Partition(st[t].db)

\* Every call returns, and with it the lock, when the tasks make no more
\* calls: nobody waits for a lock that is never given back, in whatever
\* order database lock and port lock are taken.
CallsReturn == \A t \in Task : InCall(t) ~> ~InCall(t)

\* A database says it is initialised only when there is flash behind it
\* (fal.c:57 "0: not init or init failed").
InitHonest == \A d \in Db : initOk[d] => port
=============================================================================
