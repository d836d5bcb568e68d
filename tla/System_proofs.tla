---------------------------- MODULE System_proofs ----------------------------
(***************************************************************************)
(* For any number of tasks, databases, locks and accesses: the semaphores  *)
(* keep the functions of ESP-IDF and the locked sections apart, an access  *)
(* stays in the partition of its database, and, when the application       *)
(* keeps its rules, nobody works on a database while fdb_kvdb_init loads   *)
(* it without the lock.                                                    *)
(***************************************************************************)
EXTENDS System, TLAPS

KindSet == {"none", "use", "force", "bare", "init"}
PcSet == {"idle", "check", "fal", "lock", "work", "load", "bare", "finish", "port", "esp"}
BackSet == {"idle", "work", "load", "bare"}

TaskState == [pc : PcSet, kind : KindSet, db : Db, load : 0 .. 2, ops : Nat,
              back : BackSet, acc : SUBSET Int]

SysTypeOK ==
    /\ flashed \in BOOLEAN /\ port \in BOOLEAN /\ devInit \in BOOLEAN /\ falInit \in BOOLEAN
    /\ initOk \in [Db -> BOOLEAN]
    /\ lockOf \in [Db -> Lock]
    /\ sem \in [Lock -> BOOLEAN] /\ portSem \in BOOLEAN
    /\ st \in [Task -> TaskState]
    /\ calls \in [Task -> Nat]

\* Only a task in the port, or waiting for it, has somewhere to go back to.
BackInPort == \A t \in Task : st[t].back # "idle" <=> st[t].pc \in {"port", "esp"}

\* The lock of the port is taken by the task that is in ESP-IDF.
PortTaken == \A t \in Task : st[t].pc = "esp" => ~portSem
PortInv == PortTaken /\ OneAtPort

\* The lock of a locked section is taken, and by that task alone.
LockTaken == \A t \in Task : Holds(t) => ~sem[lockOf[st[t].db]]
LockAlone ==
    \A t, u \in Task : t # u /\ Holds(t) /\ Holds(u) => lockOf[st[t].db] # lockOf[st[u].db]
LockInv == BackInPort /\ LockTaken /\ LockAlone

\* What the rules give: who is in a database that is not initialised.
Started(t) == st[t].kind \in {"force", "bare"} \/ (st[t].kind = "use" /\ st[t].pc # "check")
UsersInit == \A t \in Task : Started(t) => initOk[st[t].db]
InitsNot == \A t \in Task : st[t].kind = "init" => ~initOk[st[t].db]
InitAlone ==
    \A t, u \in Task : t # u /\ st[t].kind = "init" /\ st[u].kind = "init" => st[t].db # st[u].db
KindPcOf(s) ==
    /\ s.kind = "none" <=> s.pc = "idle"
    /\ s.load # 0 => s.kind = "init"
    /\ s.pc \in {"fal", "load", "finish"} => s.kind = "init"
    /\ s.pc = "check" => s.kind = "use"
    /\ s.back = "load" => s.kind = "init"
    /\ s.back = "idle" <=> s.pc \notin {"port", "esp"}
KindPc == \A t \in Task : KindPcOf(st[t])
RuleInv == KindPc /\ UsersInit /\ InitsNot /\ InitAlone

SysIInv == SysTypeOK /\ PortInv /\ LockInv
-----------------------------------------------------------------------------
(* Types *)

\* What a task can be made of the state of a task by a step.
LEMMA NoTaskType == NoTask \in TaskState
<1>1. (CHOOSE d \in Db : TRUE) \in Db
  BY DbAssumption
<1> QED
  BY <1>1 DEF NoTask, TaskState, PcSet, KindSet, BackSet

\* The port is given a range of addresses.
LEMMA TouchedType ==
    ASSUME NEW kind, NEW d, NEW addr, NEW size
    PROVE  Touched(kind, d, addr, size) \in SUBSET Int
BY DEF Touched

\* A step of a task changes the state of that task alone.
LEMMA GoType ==
    ASSUME st \in [Task -> TaskState], NEW t \in Task, NEW s \in TaskState, Go(t, s)
    PROVE  /\ st' \in [Task -> TaskState]
           /\ st'[t] = s
           /\ \A u \in Task : u # t => st'[u] = st[u]
BY DEF Go

\* Taking and giving a semaphore leaves semaphores.
LEMMA SemType ==
    ASSUME sem \in [Lock -> BOOLEAN], NEW l, NEW b \in BOOLEAN
    PROVE  [sem EXCEPT ![l] = b] \in [Lock -> BOOLEAN]
OBVIOUS

LEMMA UnlockType ==
    ASSUME NEW s \in TaskState, NEW r \in AfterUnlock(s)
    PROVE  r \in TaskState
<1>1. MaxOps \in Nat
  BY BoundAssumption
<1>2. CASE s.kind # "init"
  BY <1>2, NoTaskType DEF AfterUnlock
<1>3. CASE s.kind = "init" /\ s.load = 0 /\ s.db \in Kv
  <2>0. r \in Loading(s)
    BY <1>3 DEF AfterUnlock
  <2>1. PICK ops \in 0 .. MaxOps : r = [s EXCEPT !.pc = "load", !.load = 1, !.ops = ops]
    BY <2>0 DEF Loading
  <2>2. ops \in Nat /\ 1 \in 0 .. 2 /\ "load" \in PcSet
    BY <1>1 DEF PcSet
  <2> QED
    BY <2>1, <2>2 DEF TaskState
<1>4. CASE s.kind = "init" /\ ~(s.load = 0 /\ s.db \in Kv) /\ s.load = 1
  <2>1. r = [s EXCEPT !.pc = "load"]
    BY <1>4 DEF AfterUnlock
  <2> QED
    BY <2>1 DEF TaskState, PcSet
<1>5. CASE s.kind = "init" /\ ~(s.load = 0 /\ s.db \in Kv) /\ s.load # 1
  <2>1. r = [s EXCEPT !.pc = "finish"]
    BY <1>5 DEF AfterUnlock
  <2> QED
    BY <2>1 DEF TaskState, PcSet
<1> QED
  BY <1>2, <1>3, <1>4, <1>5

LEMMA TypeInit == Init => SysTypeOK
<1> SUFFICES ASSUME Init PROVE SysTypeOK
  OBVIOUS
<1>1. st \in [Task -> TaskState]
  BY NoTaskType DEF Init
<1>2. lockOf \in [Db -> Lock]
  BY LockAssumption DEF Init
<1> QED
  BY <1>1, <1>2 DEF Init, FalStart, SysTypeOK

LEMMA FalInitType ==
    ASSUME SysTypeOK, FalInit
    PROVE  flashed' \in BOOLEAN /\ port' \in BOOLEAN /\ devInit' \in BOOLEAN /\ falInit' \in BOOLEAN
BY DEF SysTypeOK, FalInit, FlashInit, PortInit, PartitionInit, TableFits

\* The state a step gives its task is the state of a task.
LEMMA StepType ==
    ASSUME SysTypeOK, NEW t \in Task, Step(t)
    PROVE  SysTypeOK'
<1> USE DEF SysTypeOK
<1>0. st[t] \in TaskState /\ st[t].db \in Db /\ lockOf[st[t].db] \in Lock
  BY DEF TaskState
<1>1. CASE Check(t)
  <2>1. [st[t] EXCEPT !.pc = "lock"] \in TaskState
    BY <1>0 DEF TaskState, PcSet
  <2> QED
    BY <1>1, <2>1, NoTaskType, GoType DEF Check, falVars
<1>2. CASE InitEx(t)
  <2>1. [st[t] EXCEPT !.pc = "lock"] \in TaskState
    BY <1>0 DEF TaskState, PcSet
  <2>2. st' \in [Task -> TaskState]
    BY <1>2, <2>1, NoTaskType, GoType DEF InitEx
  <2> QED
    BY <1>2, <2>2, FalInitType DEF InitEx
<1>3. CASE LockDb(t)
  <2>1. [st[t] EXCEPT !.pc = "work"] \in TaskState
    BY <1>0 DEF TaskState, PcSet
  <2>2. st' \in [Task -> TaskState]
    BY <1>3, <2>1, GoType DEF LockDb
  <2> QED
    BY <1>3, <2>2 DEF LockDb, falVars
<1>4. CASE UnlockDb(t)
  <2>1. st' \in [Task -> TaskState]
    BY <1>0, <1>4, NoTaskType, UnlockType, GoType DEF UnlockDb
  <2>2. sem' \in [Lock -> BOOLEAN]
    BY <1>4 DEF UnlockDb, Given
  <2> QED
    BY <1>4, <2>1, <2>2 DEF UnlockDb, falVars
<1>5. CASE LockAgain(t)
  <2>1. [st[t] EXCEPT !.pc = "lock"] \in TaskState
    BY <1>0 DEF TaskState, PcSet
  <2> QED
    BY <1>5, <2>1, GoType DEF LockAgain, falVars
<1>6. CASE LoadEnd(t)
  <2>0. "lock" \in PcSet /\ 2 \in 0 .. 2
    BY DEF PcSet
  <2>1. [st[t] EXCEPT !.pc = "lock", !.load = 2] \in TaskState
    BY <1>0, <2>0 DEF TaskState
  <2> QED
    BY <1>6, <2>1, GoType DEF LoadEnd, falVars
<1>7. CASE Finish(t)
  <2>1. initOk' \in [Db -> BOOLEAN]
    BY <1>0, <1>7 DEF Finish
  <2> QED
    BY <1>7, <2>1, NoTaskType, GoType DEF Finish, falVars
<1>8. CASE BareEnd(t)
  BY <1>8, NoTaskType, GoType DEF BareEnd, falVars
<1>9. ASSUME NEW kind \in Kinds, NEW addr \in Addrs, NEW size \in Sizes, Access(t, kind, addr, size)
      PROVE  SysTypeOK'
  <2> DEFINE acc == Touched(kind, st[t].db, addr, size)
             s == [st[t] EXCEPT !.ops = @ - 1]
             r == [s EXCEPT !.pc = "port", !.back = s.pc, !.acc = acc]
  <2>1. s \in TaskState /\ s.pc \in BackSet
    BY <1>0, <1>9 DEF Access, TaskState, BackSet
  <2>2. r \in TaskState
    <3>1. acc \in SUBSET Int
      BY TouchedType
    <3> HIDE DEF acc, s
    <3> QED
      BY <2>1, <3>1 DEF TaskState, PcSet
  <2>3. st' \in [Task -> TaskState]
    <3>1. Go(t, r) \/ Go(t, s)
      BY <1>9 DEF Access
    <3> HIDE DEF s, r
    <3> QED
      BY <2>1, <2>2, <3>1, GoType
  <2> QED
    BY <1>9, <2>3 DEF Access, falVars
<1>10. CASE PortLock(t)
  <2>1. [st[t] EXCEPT !.pc = "esp"] \in TaskState
    BY <1>0 DEF TaskState, PcSet
  <2> QED
    BY <1>10, <2>1, GoType DEF PortLock, falVars
<1>11. CASE PortUnlock(t)
  <2>1. [st[t] EXCEPT !.pc = st[t].back, !.back = "idle", !.acc = {}] \in TaskState
    BY <1>0 DEF TaskState, PcSet, BackSet
  <2> QED
    BY <1>11, <2>1, GoType DEF PortUnlock, falVars
<1> QED
  BY <1>1, <1>2, <1>3, <1>4, <1>5, <1>6, <1>7, <1>8, <1>9, <1>10, <1>11 DEF Step

LEMMA CallType ==
    ASSUME NEW kind \in {"use", "force", "bare", "init"}, NEW d \in Db, NEW ops \in 0 .. MaxOps
    PROVE  /\ Entered(kind, d, ops) \in TaskState
           /\ Entered(kind, d, ops).kind = kind
           /\ Entered(kind, d, ops).db = d
           /\ Entered(kind, d, ops).load = 0
           /\ Entered(kind, d, ops).back = "idle"
           /\ Entered(kind, d, ops).acc = {}
           /\ Entered(kind, d, ops).pc \in {"check", "lock", "bare", "fal"}
           /\ Entered(kind, d, ops).pc = "check" <=> kind = "use"
           /\ Entered(kind, d, ops).pc = "fal" <=> kind = "init"
<1>1. ops \in Nat
  BY BoundAssumption
<1>2. NoTask \in TaskState /\ NoTask.load = 0 /\ NoTask.back = "idle" /\ NoTask.acc = {}
  BY NoTaskType DEF NoTask
<1>3. kind \in KindSet
  BY DEF KindSet
<1> HIDE DEF NoTask
<1> QED
  BY <1>1, <1>2, <1>3 DEF Entered, Entry, TaskState, PcSet

LEMMA BeginType ==
    ASSUME SysTypeOK, NEW t \in Task, Begin(t)
    PROVE  SysTypeOK'
<1> USE DEF SysTypeOK
<1>1. ASSUME NEW d \in Db, Deinit(t, d)
      PROVE  SysTypeOK'
  BY <1>1 DEF Deinit, falVars
<1>2. ASSUME NEW d \in Db, NEW kind \in {"use", "force", "bare", "init"}, Call(t, kind, d)
      PROVE  SysTypeOK'
  <2>1. PICK ops \in 0 .. MaxOps : Go(t, Entered(kind, d, ops))
    BY <1>2 DEF Call
  <2>2. st' \in [Task -> TaskState]
    BY <2>1, CallType, GoType
  <2>3. calls' \in [Task -> Nat]
    BY <1>2 DEF Call
  <2>4. UNCHANGED <<flashed, port, devInit, falInit, initOk, lockOf, sem, portSem>>
    BY <1>2 DEF Call, falVars
  <2> QED
    BY <2>2, <2>3, <2>4
<1> QED
  BY <1>1, <1>2 DEF Begin

LEMMA TypeNext == SysTypeOK /\ [Next]_vars => SysTypeOK'
<1> SUFFICES ASSUME SysTypeOK, [Next]_vars PROVE SysTypeOK'
  OBVIOUS
<1>1. CASE Main
  BY <1>1, FalInitType DEF Main, SysTypeOK
<1>2. ASSUME NEW t \in Task, Step(t) \/ Begin(t)
      PROVE  SysTypeOK'
  BY <1>2, StepType, BeginType
<1>3. CASE UNCHANGED vars
  BY <1>3 DEF vars, falVars, SysTypeOK
<1> QED
  BY <1>1, <1>2, <1>3 DEF Next

-----------------------------------------------------------------------------
(* The lock of the port *)

\* A step changes one task, and never which lock a database uses.
LEMMA Frame ==
    ASSUME SysTypeOK, NEW t \in Task, Step(t) \/ Begin(t)
    PROVE  /\ \A u \in Task : u # t => st'[u] = st[u]
           /\ lockOf' = lockOf
<1>0. ASSUME NEW s, Go(t, s) PROVE \A u \in Task : u # t => st'[u] = st[u]
  BY <1>0 DEF Go, SysTypeOK
<1> USE DEF Go
<1>1. CASE Check(t)
  BY <1>1 DEF Check
<1>2. CASE InitEx(t)
  BY <1>2 DEF InitEx
<1>3. CASE LockDb(t)
  BY <1>3 DEF LockDb
<1>4. CASE UnlockDb(t)
  <2> HIDE DEF Go
  <2>1. \E s : Go(t, s)
    BY <1>4 DEF UnlockDb
  <2> QED
    BY <1>0, <1>4, <2>1 DEF UnlockDb
<1>5. CASE LockAgain(t)
  BY <1>5 DEF LockAgain
<1>6. CASE LoadEnd(t)
  BY <1>6 DEF LoadEnd
<1>7. CASE Finish(t)
  BY <1>7 DEF Finish
<1>8. CASE BareEnd(t)
  BY <1>8 DEF BareEnd
<1>9. ASSUME NEW kind \in Kinds, NEW addr \in Addrs, NEW size \in Sizes, Access(t, kind, addr, size)
      PROVE  /\ \A u \in Task : u # t => st'[u] = st[u]
             /\ lockOf' = lockOf
  BY <1>9 DEF Access
<1>10. CASE PortLock(t)
  BY <1>10 DEF PortLock
<1>11. CASE PortUnlock(t)
  BY <1>11 DEF PortUnlock
<1>12. ASSUME NEW d \in Db, Deinit(t, d)
       PROVE  /\ \A u \in Task : u # t => st'[u] = st[u]
              /\ lockOf' = lockOf
  BY <1>12 DEF Deinit
<1>13. ASSUME NEW d \in Db, NEW kind \in {"use", "force", "bare", "init"}, Call(t, kind, d)
       PROVE  /\ \A u \in Task : u # t => st'[u] = st[u]
              /\ lockOf' = lockOf
  BY <1>13 DEF Call
<1> QED
  BY <1>1, <1>2, <1>3, <1>4, <1>5, <1>6, <1>7, <1>8, <1>9, <1>10, <1>11, <1>12, <1>13 DEF Step, Begin

LEMMA NoTaskFields ==
    /\ NoTask.pc = "idle" /\ NoTask.kind = "none" /\ NoTask.load = 0
    /\ NoTask.back = "idle" /\ NoTask.acc = {}
BY DEF NoTask

\* What a call is after it gave the lock back.
LEMMA AfterUnlockFields ==
    ASSUME NEW s \in TaskState, NEW r \in AfterUnlock(s)
    PROVE  \/ r = NoTask
           \/ /\ r.kind = s.kind /\ r.db = s.db /\ r.back = s.back /\ r.acc = s.acc
              /\ s.kind = "init" /\ r.pc \in {"load", "finish"}
<1>1. CASE s.kind # "init"
  BY <1>1 DEF AfterUnlock
<1>2. CASE s.kind = "init" /\ s.load = 0 /\ s.db \in Kv
  <2>1. r \in Loading(s)
    BY <1>2 DEF AfterUnlock
  <2> QED
    BY <1>2, <2>1 DEF Loading, TaskState
<1>3. CASE s.kind = "init" /\ ~(s.load = 0 /\ s.db \in Kv) /\ s.load = 1
  <2>1. r = [s EXCEPT !.pc = "load"]
    BY <1>3 DEF AfterUnlock
  <2> QED
    BY <1>3, <2>1 DEF TaskState
<1>4. CASE s.kind = "init" /\ ~(s.load = 0 /\ s.db \in Kv) /\ s.load # 1
  <2>1. r = [s EXCEPT !.pc = "finish"]
    BY <1>4 DEF AfterUnlock
  <2> QED
    BY <1>4, <2>1 DEF TaskState
<1> QED
  BY <1>1, <1>2, <1>3, <1>4

\* No other step than PortLock enters ESP-IDF, and the lock of the port
\* changes with it and PortUnlock alone.
LEMMA PortSteps ==
    ASSUME SysTypeOK, NEW t \in Task, Step(t) \/ Begin(t)
    PROVE  \/ PortLock(t) \/ PortUnlock(t)
           \/ portSem' = portSem /\ (st'[t].pc # "esp" \/ st' = st)
<1> USE NoTaskFields DEF Go
<1>0. st \in [Task -> TaskState] /\ st[t] \in TaskState
  BY DEF SysTypeOK
<1>1. CASE Check(t)
  BY <1>0, <1>1 DEF Check, TaskState
<1>2. CASE InitEx(t)
  BY <1>0, <1>2 DEF InitEx, TaskState
<1>3. CASE LockDb(t)
  BY <1>0, <1>3 DEF LockDb, TaskState
<1>4. CASE UnlockDb(t)
  <2>1. st'[t] = NoTask \/ st'[t] \in AfterUnlock(st[t])
    BY <1>0, <1>4 DEF UnlockDb
  <2> QED
    BY <1>0, <1>4, <2>1, AfterUnlockFields DEF UnlockDb
<1>5. CASE LockAgain(t)
  BY <1>0, <1>5 DEF LockAgain, TaskState
<1>6. CASE LoadEnd(t)
  BY <1>0, <1>6 DEF LoadEnd, TaskState
<1>7. CASE Finish(t)
  BY <1>0, <1>7 DEF Finish
<1>8. CASE BareEnd(t)
  BY <1>0, <1>8 DEF BareEnd
<1>9. ASSUME NEW kind \in Kinds, NEW addr \in Addrs, NEW size \in Sizes, Access(t, kind, addr, size)
      PROVE  portSem' = portSem /\ st'[t].pc # "esp"
  BY <1>0, <1>9 DEF Access, TaskState
<1>12. ASSUME NEW d \in Db, Deinit(t, d)
       PROVE  portSem' = portSem /\ st' = st
  BY <1>12 DEF Deinit
<1>13. ASSUME NEW d \in Db, NEW kind \in {"use", "force", "bare", "init"}, Call(t, kind, d)
       PROVE  portSem' = portSem /\ st'[t].pc # "esp"
  <2>1. PICK ops \in 0 .. MaxOps : st' = [st EXCEPT ![t] = Entered(kind, d, ops)]
    BY <1>13 DEF Call
  <2> QED
    BY <1>0, <1>13, <2>1, CallType DEF Call
<1> QED
  BY <1>1, <1>2, <1>3, <1>4, <1>5, <1>6, <1>7, <1>8, <1>9, <1>12, <1>13 DEF Step, Begin

LEMMA PortNext == SysTypeOK /\ PortInv /\ [Next]_vars => PortInv'
<1> SUFFICES ASSUME SysTypeOK, PortInv, [Next]_vars PROVE PortInv'
  OBVIOUS
<1> USE DEF PortInv, PortTaken, OneAtPort
<1>1. CASE Main
  BY <1>1 DEF Main
<1>2. ASSUME NEW t \in Task, Step(t) \/ Begin(t)
      PROVE  PortInv'
  <2>0. st \in [Task -> TaskState] /\ st[t] \in TaskState
    BY DEF SysTypeOK
  <2>1. \A u \in Task : u # t => st'[u] = st[u]
    BY <1>2, Frame
  <2>2. CASE PortLock(t)
    BY <2>0, <2>1, <2>2 DEF PortLock, PortFree
  <2>3. CASE PortUnlock(t)
    <3>1. st'[t].pc = st[t].back /\ st[t].back # "esp"
      BY <2>0, <2>3 DEF PortUnlock, Go, TaskState, BackSet
    <3>2. portSem' = TRUE /\ st[t].pc = "esp"
      BY <2>3 DEF PortUnlock
    <3> QED
      BY <2>1, <3>1, <3>2
  <2>4. CASE portSem' = portSem /\ st'[t].pc # "esp"
    BY <2>1, <2>4
  <2>5. CASE portSem' = portSem /\ st' = st
    BY <2>5
  <2> QED
    BY <1>2, <2>2, <2>3, <2>4, <2>5, PortSteps
<1>3. CASE UNCHANGED vars
  BY <1>3 DEF vars
<1> QED
  BY <1>1, <1>2, <1>3 DEF Next

-----------------------------------------------------------------------------
(* The locks of the databases *)

\* What a step does to the lock of its task's database: leaves it, gives it
\* back, takes it when it was free, or leaves off asking for it.
LeftOff(t)  == ~Holds(t)' /\ sem' = sem
GaveBack(t) == Holds(t) /\ ~Holds(t)' /\ sem' = [sem EXCEPT ![lockOf[st[t].db]] = TRUE]
Took(t)     == /\ sem[lockOf[st[t].db]] /\ st'[t].db = st[t].db
               /\ sem' = [sem EXCEPT ![lockOf[st[t].db]] = FALSE]
WentOn(t)   == st'[t].db = st[t].db /\ (Holds(t)' <=> Holds(t)) /\ sem' = sem
Back(t)     == st'[t].back # "idle" <=> st'[t].pc \in {"port", "esp"}

LEMMA LockSteps ==
    ASSUME SysTypeOK, BackInPort, NEW t \in Task, Step(t) \/ Begin(t)
    PROVE  /\ Back(t)
           /\ LeftOff(t) \/ GaveBack(t) \/ Took(t) \/ WentOn(t)
<1> USE NoTaskFields DEF Go
<1>0. st \in [Task -> TaskState] /\ st[t] \in TaskState
  BY DEF SysTypeOK
<1>a. st[t].back # "idle" <=> st[t].pc \in {"port", "esp"}
  BY DEF BackInPort
<1>1. CASE Check(t)
  BY <1>0, <1>a, <1>1 DEF Check, TaskState, Back, LeftOff, Holds
<1>2. CASE InitEx(t)
  BY <1>0, <1>a, <1>2 DEF InitEx, TaskState, Back, LeftOff, Holds
<1>3. CASE LockDb(t)
  BY <1>0, <1>a, <1>3 DEF LockDb, Free, TaskState, Back, Took
<1>4. CASE UnlockDb(t)
  <2>1. \/ st'[t] = NoTask /\ sem' = sem
        \/ st'[t] \in AfterUnlock(st[t]) /\ sem' = [sem EXCEPT ![lockOf[st[t].db]] = TRUE]
    BY <1>0, <1>4 DEF UnlockDb, Given
  <2>2. st[t].pc = "work"
    BY <1>4 DEF UnlockDb
  <2>3. \/ st'[t] = NoTask
        \/ st'[t].back = st[t].back /\ st'[t].pc \in {"load", "finish"}
    BY <1>0, <2>1, AfterUnlockFields
  <2> QED
    BY <1>a, <2>1, <2>2, <2>3 DEF Back, LeftOff, GaveBack, Holds
<1>5. CASE LockAgain(t)
  <2>1. st[t].pc \in {"load", "work"}
    BY <1>5 DEF LockAgain, Locks
  <2> QED
    BY <1>0, <1>a, <1>5, <2>1 DEF LockAgain, TaskState, Back, LeftOff, Holds
<1>6. CASE LoadEnd(t)
  BY <1>0, <1>a, <1>6 DEF LoadEnd, TaskState, Back, LeftOff, Holds
<1>7. CASE Finish(t)
  BY <1>0, <1>7 DEF Finish, Back, LeftOff, Holds
<1>8. CASE BareEnd(t)
  BY <1>0, <1>8 DEF BareEnd, Back, LeftOff, Holds
<1>9. ASSUME NEW kind \in Kinds, NEW addr \in Addrs, NEW size \in Sizes, Access(t, kind, addr, size)
      PROVE  Back(t) /\ WentOn(t)
  <2>1. st[t].pc \in {"work", "load", "bare"} /\ sem' = sem
    BY <1>9 DEF Access
  <2>2. \/ st'[t].pc = "port" /\ st'[t].back = st[t].pc /\ st'[t].db = st[t].db
        \/ st'[t].pc = st[t].pc /\ st'[t].back = st[t].back /\ st'[t].db = st[t].db
    BY <1>0, <1>9 DEF Access, TaskState
  <2> QED
    BY <1>a, <2>1, <2>2 DEF Back, WentOn, Holds
<1>10. CASE PortLock(t)
  BY <1>0, <1>a, <1>10 DEF PortLock, TaskState, Back, WentOn, Holds
<1>11. CASE PortUnlock(t)
  BY <1>0, <1>a, <1>11 DEF PortUnlock, TaskState, BackSet, Back, WentOn, Holds
<1>12. ASSUME NEW d \in Db, Deinit(t, d)
       PROVE  Back(t) /\ WentOn(t)
  BY <1>a, <1>12 DEF Deinit, Back, WentOn, Holds
<1>13. ASSUME NEW d \in Db, NEW kind \in {"use", "force", "bare", "init"}, Call(t, kind, d)
       PROVE  Back(t) /\ LeftOff(t)
  <2>1. PICK ops \in 0 .. MaxOps : st' = [st EXCEPT ![t] = Entered(kind, d, ops)]
    BY <1>13 DEF Call
  <2>2. st'[t].back = "idle" /\ st'[t].pc \in {"check", "lock", "bare", "fal"} /\ sem' = sem
    BY <1>0, <1>13, <2>1, CallType DEF Call
  <2> QED
    BY <2>2 DEF Back, LeftOff, Holds
<1> QED
  BY <1>1, <1>2, <1>3, <1>4, <1>5, <1>6, <1>7, <1>8, <1>9, <1>10, <1>11, <1>12, <1>13 DEF Step, Begin

LEMMA LockNext == SysTypeOK /\ LockInv /\ [Next]_vars => LockInv'
<1> SUFFICES ASSUME SysTypeOK, LockInv, [Next]_vars PROVE LockInv'
  OBVIOUS
<1> USE DEF LockInv, BackInPort, LockTaken, LockAlone
<1>1. CASE Main
  BY <1>1 DEF Main, Holds
<1>2. ASSUME NEW t \in Task, Step(t) \/ Begin(t)
      PROVE  LockInv'
  <2>0. /\ st \in [Task -> TaskState] /\ \A u \in Task : st[u].db \in Db
        /\ sem \in [Lock -> BOOLEAN] /\ lockOf \in [Db -> Lock]
    BY DEF SysTypeOK, TaskState
  <2>1. /\ \A u \in Task : u # t => st'[u] = st[u] /\ (Holds(u)' <=> Holds(u))
        /\ lockOf' = lockOf
    BY <1>2, Frame DEF Holds
  <2>2. Back(t) /\ (LeftOff(t) \/ GaveBack(t) \/ Took(t) \/ WentOn(t))
    BY <1>2, LockSteps
  <2>3. BackInPort'
    BY <2>1, <2>2 DEF Back
  <2>4. CASE LeftOff(t)
    BY <2>1, <2>3, <2>4 DEF LeftOff
  <2>5. CASE GaveBack(t)
    BY <2>0, <2>1, <2>3, <2>5 DEF GaveBack
  <2>6. CASE Took(t)
    BY <2>0, <2>1, <2>3, <2>6 DEF Took
  <2>7. CASE WentOn(t)
    BY <2>1, <2>3, <2>7 DEF WentOn
  <2> QED
    BY <2>2, <2>4, <2>5, <2>6, <2>7
<1>3. CASE UNCHANGED vars
  BY <1>3 DEF vars, Holds
<1> QED
  BY <1>1, <1>2, <1>3 DEF Next

-----------------------------------------------------------------------------
(* The rules of the application *)

\* A call stays on its database until it returns, it is started only when it
\* was or when it found init_ok, and init_ok is set by an init that returns.
Stays(t) == st'[t] = NoTask \/ (st'[t].kind = st[t].kind /\ st'[t].db = st[t].db)
Starts(t) == Started(t)' => Started(t) \/ (st[t].kind = "use" /\ initOk[st[t].db])
Sets(t) ==
    \/ initOk' = initOk
    \/ /\ st[t].kind = "init" /\ st'[t] = NoTask
       /\ \A d \in Db : (d # st[t].db \/ initOk[d]) => initOk'[d] = initOk[d]

LEMMA RuleSteps ==
    ASSUME SysTypeOK, KindPc, NEW t \in Task, Step(t)
    PROVE  KindPcOf(st'[t]) /\ Stays(t) /\ Starts(t) /\ Sets(t)
<1> USE NoTaskFields DEF Go, KindPcOf, Stays, Starts, Sets, Started
<1>0. st \in [Task -> TaskState] /\ st[t] \in TaskState
  BY DEF SysTypeOK
<1>a. KindPcOf(st[t])
  BY DEF KindPc
<1>1. CASE Check(t)
  BY <1>0, <1>a, <1>1 DEF Check, Refuses, TaskState
<1>2. CASE InitEx(t)
  BY <1>0, <1>a, <1>2 DEF InitEx, TaskState
<1>3. CASE LockDb(t)
  BY <1>0, <1>a, <1>3 DEF LockDb, TaskState
<1>4. CASE UnlockDb(t)
  <2>1. st'[t] = NoTask \/ st'[t] \in AfterUnlock(st[t])
    BY <1>0, <1>4 DEF UnlockDb
  <2>2. st[t].pc = "work" /\ initOk' = initOk
    BY <1>4 DEF UnlockDb
  <2>3. \/ st'[t] = NoTask
        \/ /\ st'[t].kind = st[t].kind /\ st'[t].db = st[t].db /\ st'[t].back = st[t].back
           /\ st[t].kind = "init" /\ st'[t].pc \in {"load", "finish"}
    BY <1>0, <2>1, AfterUnlockFields
  <2> QED
    BY <1>a, <2>2, <2>3
<1>5. CASE LockAgain(t)
  <2>1. st[t].pc \in {"load", "work"}
    BY <1>5 DEF LockAgain, Locks
  <2> QED
    BY <1>0, <1>a, <1>5, <2>1 DEF LockAgain, TaskState
<1>6. CASE LoadEnd(t)
  BY <1>0, <1>a, <1>6 DEF LoadEnd, TaskState
<1>7. CASE Finish(t)
  <2>1. st'[t] = NoTask /\ st[t].kind = "init"
    BY <1>0, <1>a, <1>7 DEF Finish
  <2>2. \A d \in Db : (d # st[t].db \/ initOk[d]) => initOk'[d] = initOk[d]
    BY <1>0, <1>7 DEF Finish, SysTypeOK
  <2> QED
    BY <2>1, <2>2
<1>8. CASE BareEnd(t)
  BY <1>0, <1>8 DEF BareEnd
<1>9. ASSUME NEW kind \in Kinds, NEW addr \in Addrs, NEW size \in Sizes, Access(t, kind, addr, size)
      PROVE  KindPcOf(st'[t]) /\ Stays(t) /\ Starts(t) /\ Sets(t)
  <2>1. st[t].pc \in {"work", "load", "bare"} /\ initOk' = initOk
    BY <1>9 DEF Access
  <2>2. /\ st'[t].db = st[t].db /\ st'[t].kind = st[t].kind /\ st'[t].load = st[t].load
        /\ \/ st'[t].pc = "port" /\ st'[t].back = st[t].pc
           \/ st'[t].pc = st[t].pc /\ st'[t].back = st[t].back
    BY <1>0, <1>9 DEF Access, TaskState
  <2> QED
    BY <1>a, <2>1, <2>2
<1>10. CASE PortLock(t)
  BY <1>0, <1>a, <1>10 DEF PortLock, TaskState
<1>11. CASE PortUnlock(t)
  <2>1. /\ st'[t].db = st[t].db /\ st'[t].kind = st[t].kind /\ st'[t].load = st[t].load
        /\ st'[t].pc = st[t].back /\ st'[t].back = "idle"
    BY <1>0, <1>11 DEF PortUnlock, TaskState
  <2>2. st[t].back \in {"work", "load", "bare"} /\ st[t].pc = "esp" /\ initOk' = initOk
    BY <1>0, <1>a, <1>11 DEF PortUnlock, TaskState, BackSet
  <2> QED
    BY <1>a, <2>1, <2>2
<1> QED
  BY <1>1, <1>2, <1>3, <1>4, <1>5, <1>6, <1>7, <1>8, <1>9, <1>10, <1>11 DEF Step

LEMMA RuleStep ==
    ASSUME SysTypeOK, RuleInv, NEW t \in Task, Step(t)
    PROVE  RuleInv'
<1>0. st \in [Task -> TaskState] /\ (\A u \in Task : st[u].db \in Db) /\ initOk \in [Db -> BOOLEAN]
  BY DEF SysTypeOK, TaskState
<1>1. KindPcOf(st'[t]) /\ Stays(t) /\ Starts(t) /\ Sets(t)
  BY RuleSteps DEF RuleInv
<1>2. \A u \in Task : u # t => st'[u] = st[u] /\ (Started(u)' <=> Started(u))
  BY Frame DEF Started
<1>3. KindPc'
  BY <1>1, <1>2 DEF RuleInv, KindPc
<1>4. \A u \in Task : st'[u] # NoTask => st'[u].kind = st[u].kind /\ st'[u].db = st[u].db
  BY <1>1, <1>2 DEF Stays
<1>5. \A d \in Db : initOk[d] => initOk'[d]
  BY <1>0, <1>1 DEF Sets
<1>6. UsersInit'
  <2> SUFFICES ASSUME NEW u \in Task, Started(u)' PROVE initOk'[st'[u].db]
    BY DEF UsersInit
  <2>1. st'[u] # NoTask
    BY NoTaskFields DEF Started
  <2>2. Started(u) \/ initOk[st[u].db]
    BY <1>1, <1>2 DEF Starts
  <2> QED
    BY <1>0, <1>4, <1>5, <2>1, <2>2 DEF RuleInv, UsersInit
<1>7. InitAlone'
  BY <1>4, NoTaskFields DEF RuleInv, InitAlone
<1>8. InitsNot'
  <2> SUFFICES ASSUME NEW u \in Task, st'[u].kind = "init" PROVE ~initOk'[st'[u].db]
    BY DEF InitsNot
  <2>1. st'[u] # NoTask
    BY NoTaskFields
  <2>2. st[u].kind = "init" /\ st'[u].db = st[u].db /\ ~initOk[st[u].db]
    BY <1>4, <2>1 DEF RuleInv, InitsNot
  <2>3. CASE initOk' = initOk
    BY <2>2, <2>3
  <2>4. CASE /\ st[t].kind = "init" /\ st'[t] = NoTask
             /\ \A d \in Db : (d # st[t].db \/ initOk[d]) => initOk'[d] = initOk[d]
    <3>1. u # t
      BY <2>1, <2>4
    <3>2. st[u].db # st[t].db
      BY <2>2, <2>4, <3>1 DEF RuleInv, InitAlone
    <3> QED
      BY <1>0, <2>2, <2>4, <3>2
  <2> QED
    BY <1>1, <2>3, <2>4 DEF Sets
<1> QED
  BY <1>3, <1>6, <1>7, <1>8 DEF RuleInv

LEMMA RuleCall ==
    ASSUME Orderly, SysTypeOK, RuleInv, NEW t \in Task, NEW d \in Db,
           NEW kind \in {"use", "force", "bare", "init"}, Call(t, kind, d)
    PROVE  RuleInv'
<1>0. st \in [Task -> TaskState] /\ st[t] \in TaskState
  BY DEF SysTypeOK
<1>1. PICK ops \in 0 .. MaxOps : st' = [st EXCEPT ![t] = Entered(kind, d, ops)]
  BY DEF Call, Go
<1>2. /\ st'[t].kind = kind /\ st'[t].db = d /\ st'[t].load = 0 /\ st'[t].back = "idle"
      /\ st'[t].pc \in {"check", "lock", "bare", "fal"}
      /\ st'[t].pc = "check" <=> kind = "use"
      /\ st'[t].pc = "fal" <=> kind = "init"
  BY <1>0, <1>1, CallType
<1>3. initOk' = initOk /\ MayCall(t, kind, d)
  BY DEF Call
<1>4. \A u \in Task : u # t => st'[u] = st[u] /\ (Started(u)' <=> Started(u))
  BY <1>1 DEF Started
<1>5. KindPc'
  <2>1. KindPcOf(st'[t])
    BY <1>2 DEF KindPcOf
  <2> QED
    BY <1>4, <2>1 DEF RuleInv, KindPc
<1>6. UsersInit'
  <2>1. Started(t)' => initOk[d]
    BY <1>2, <1>3 DEF Started, MayCall
  <2> QED
    BY <1>2, <1>3, <1>4, <2>1 DEF RuleInv, UsersInit
<1>7. kind = "init" => ~initOk[d] /\ \A u \in Task : st[u].kind = "init" => st[u].db # d
  <2> SUFFICES ASSUME kind = "init" PROVE ~initOk[d] /\ \A u \in Task : st[u].kind = "init" => st[u].db # d
    OBVIOUS
  <2>1. ~initOk[d] /\ \A u \in OnDb(d) : st[u].kind # "init"
    BY <1>3 DEF MayCall
  <2>2. \A u \in Task : st[u].kind = "init" => InCall(u)
    BY DEF RuleInv, KindPc, KindPcOf, InCall
  <2> QED
    BY <2>1, <2>2 DEF OnDb
<1>8. InitsNot' /\ InitAlone'
  BY <1>2, <1>3, <1>4, <1>7 DEF RuleInv, InitsNot, InitAlone
<1> QED
  BY <1>5, <1>6, <1>8 DEF RuleInv

LEMMA RuleDeinit ==
    ASSUME Orderly, SysTypeOK, RuleInv, NEW t \in Task, NEW d \in Db, Deinit(t, d)
    PROVE  RuleInv'
<1>1. st' = st /\ initOk' = [initOk EXCEPT ![d] = FALSE] /\ OnDb(d) = {}
  BY DEF Deinit, MayDeinit
<1>2. \A u \in Task : Started(u) => InCall(u)
  BY DEF RuleInv, KindPc, KindPcOf, InCall, Started
<1>3. \A u \in Task : Started(u) => st[u].db # d
  BY <1>1, <1>2 DEF OnDb
<1>4. initOk \in [Db -> BOOLEAN] /\ \A u \in Task : st[u].db \in Db
  BY DEF SysTypeOK, TaskState
<1>5. \A u \in Task : Started(u)' <=> Started(u)
  BY <1>1 DEF Started
<1>6. UsersInit'
  BY <1>1, <1>3, <1>4, <1>5 DEF RuleInv, UsersInit
<1>7. InitsNot'
  BY <1>1, <1>4 DEF RuleInv, InitsNot
<1> QED
  BY <1>1, <1>6, <1>7 DEF RuleInv, KindPc, InitAlone

LEMMA RuleNext == Orderly /\ SysTypeOK /\ RuleInv /\ [Next]_vars => RuleInv'
<1> SUFFICES ASSUME Orderly, SysTypeOK, RuleInv, [Next]_vars PROVE RuleInv'
  OBVIOUS
<1>1. CASE Main
  BY <1>1 DEF Main, RuleInv, KindPc, UsersInit, InitsNot, InitAlone, Started
<1>2. ASSUME NEW t \in Task, Step(t) PROVE RuleInv'
  BY <1>2, RuleStep
<1>3. ASSUME NEW t \in Task, Begin(t) PROVE RuleInv'
  BY <1>3, RuleCall, RuleDeinit DEF Begin
<1>4. CASE UNCHANGED vars
  BY <1>4 DEF vars, RuleInv, KindPc, UsersInit, InitsNot, InitAlone, Started
<1> QED
  BY <1>1, <1>2, <1>3, <1>4 DEF Next

-----------------------------------------------------------------------------
(* Accesses and partitions *)

LEMMA SmallMod ==
    ASSUME NEW x \in Nat, NEW w \in Nat, x < w
    PROVE  x % w = x
OBVIOUS

LEMMA Multiple ==
    ASSUME NEW x \in Nat, NEW b \in Nat \ {0}, x % b = 0
    PROVE  \E k \in Nat : x = k * b
<1>1. x \div b \in Nat /\ x = b * (x \div b) + (x % b)
  OBVIOUS
<1>2. \A k \in Nat : b * k = k * b
  OBVIOUS
<1>3. x = (x \div b) * b
  BY <1>1, <1>2
<1> QED
  BY <1>1, <1>3

\* Rounding a size up to whole blocks does not go past a multiple of the
\* block that the size fits in.
LEMMA RoundedFits ==
    ASSUME NEW b \in Nat \ {0}, NEW size \in Nat, NEW k \in Nat, size <= k * b
    PROVE  ((size + b - 1) \div b) * b <= k * b
<1> DEFINE q == (size + b - 1) \div b
<1>1. q \in Nat /\ b * q <= size + b - 1
  OBVIOUS
<1>2. q <= k
  <2> SUFFICES ASSUME q >= k + 1 PROVE FALSE
    BY <1>1
  <2>1. b * q >= b * (k + 1)
    BY <1>1
  <2>2. b * (k + 1) = b * k + b
    OBVIOUS
  <2> QED
    BY <1>1, <2>1, <2>2
<1> QED
  BY <1>1, <1>2

LEMMA AccessInside ==
    ASSUME NEW kind \in Kinds, NEW d \in Db, NEW addr \in Addrs, NEW size \in Sizes,
           addr + size <= Word - 1, Reaches(kind, d, addr, size)
    PROVE  Touched(kind, d, addr, size) \subseteq Partition(d)
<1>1. /\ addr \in Nat /\ size \in Nat /\ Word \in Nat /\ Block \in Nat \ {0}
      /\ Offset[d] \in Nat /\ PartLen[d] \in Nat /\ DevLen \in Nat /\ EspLen \in Nat
  BY BoundAssumption, SizeAssumption
<1>2. /\ Offset[d] % Block = 0 /\ PartLen[d] % Block = 0
      /\ Offset[d] + PartLen[d] <= DevLen /\ DevLen <= EspLen /\ EspLen < Word
  BY TableAssumption
<1>3. addr + size <= PartLen[d]
  BY <1>1, SmallMod DEF Reaches, InBound
<1>4. PortAddr(d, addr) = Offset[d] + addr
  <2>1. Offset[d] + addr \in Nat /\ Offset[d] + addr < Word
    BY <1>1, <1>2, <1>3
  <2> QED
    BY <1>1, <2>1, SmallMod DEF PortAddr
<1>5. PortSize(kind, size) \in Nat /\ addr + PortSize(kind, size) <= PartLen[d]
  <2>1. CASE kind # "erase"
    BY <1>1, <1>3, <2>1 DEF PortSize
  <2>2. CASE kind = "erase"
    <3>1. (Offset[d] + addr) % Block = 0
      BY <1>4, <2>2 DEF Reaches, EspAccepts
    <3>2. PICK p \in Nat : Offset[d] = p * Block
      BY <1>1, <1>2, Multiple
    <3>3. PICK l \in Nat : PartLen[d] = l * Block
      BY <1>1, <1>2, Multiple
    <3>4. PICK a \in Nat : Offset[d] + addr = a * Block
      <4>1. Offset[d] + addr \in Nat
        BY <1>1
      <4> QED
        BY <1>1, <3>1, <4>1, Multiple
    <3>5. p + l - a \in Int /\ (p + l - a) * Block = p * Block + l * Block - a * Block
      BY <1>1
    <3>6. size <= (p + l - a) * Block
      BY <1>1, <1>3, <3>2, <3>3, <3>4, <3>5
    <3>7. p + l - a \in Nat
      <4> SUFFICES ASSUME p + l - a <= -1 PROVE FALSE
        BY <3>5
      <4>1. (p + l - a) * Block <= (-1) * Block
        BY <1>1
      <4> QED
        BY <1>1, <3>6, <4>1
    <3>8. Rounded(size) <= (p + l - a) * Block
      BY <1>1, <3>6, <3>7, RoundedFits DEF Rounded
    <3>9. Rounded(size) \in Nat
      BY <1>1 DEF Rounded
    <3> QED
      BY <1>1, <2>2, <3>2, <3>3, <3>4, <3>5, <3>8, <3>9 DEF PortSize
  <2> QED
    BY <2>1, <2>2
<1> QED
  BY <1>1, <1>4, <1>5 DEF Touched, Partition

LEMMA PartitionStep ==
    ASSUME ~Wraps, SysTypeOK, InPartition, NEW t \in Task, Step(t) \/ Begin(t)
    PROVE  InPartition'
<1> USE NoTaskFields DEF Go
<1>0. st \in [Task -> TaskState] /\ st[t] \in TaskState /\ st[t].db \in Db
  BY DEF SysTypeOK, TaskState
<1>a. st[t].acc \subseteq Partition(st[t].db)
  BY DEF InPartition
<1>b. \A u \in Task : u # t => st'[u] = st[u]
  BY Frame
<1> DEFINE Inside == st'[t].acc \subseteq Partition(st'[t].db)
<1>c. Inside => InPartition'
  <2> SUFFICES ASSUME Inside, NEW u \in Task PROVE st'[u].acc \subseteq Partition(st'[u].db)
    BY DEF InPartition, Partition
  <2> QED
    BY <1>b DEF InPartition
<1>d. ASSUME st'[t] = NoTask \/ (st'[t].acc = st[t].acc /\ st'[t].db = st[t].db)
      PROVE  Inside
  BY <1>a, <1>d
<1>1. CASE Check(t)
  BY <1>0, <1>c, <1>d, <1>1 DEF Check, TaskState
<1>2. CASE InitEx(t)
  BY <1>0, <1>c, <1>d, <1>2 DEF InitEx, TaskState
<1>3. CASE LockDb(t)
  BY <1>0, <1>c, <1>d, <1>3 DEF LockDb, TaskState
<1>4. CASE UnlockDb(t)
  <2>1. st'[t] = NoTask \/ st'[t] \in AfterUnlock(st[t])
    BY <1>0, <1>4 DEF UnlockDb
  <2> QED
    BY <1>0, <1>c, <1>d, <2>1, AfterUnlockFields
<1>5. CASE LockAgain(t)
  BY <1>0, <1>c, <1>d, <1>5 DEF LockAgain, TaskState
<1>6. CASE LoadEnd(t)
  BY <1>0, <1>c, <1>d, <1>6 DEF LoadEnd, TaskState
<1>7. CASE Finish(t)
  BY <1>0, <1>c, <1>d, <1>7 DEF Finish
<1>8. CASE BareEnd(t)
  BY <1>0, <1>c, <1>d, <1>8 DEF BareEnd
<1>9. ASSUME NEW kind \in Kinds, NEW addr \in Addrs, NEW size \in Sizes, Access(t, kind, addr, size)
      PROVE  Inside
  <2>1. addr + size <= Word - 1
    BY <1>9 DEF Access
  <2>2. CASE Reaches(kind, st[t].db, addr, size)
    <3>1. st'[t].acc = Touched(kind, st[t].db, addr, size) /\ st'[t].db = st[t].db
      BY <1>0, <1>9, <2>2 DEF Access, TaskState
    <3> QED
      BY <1>0, <2>1, <2>2, <3>1, AccessInside
  <2>3. CASE ~Reaches(kind, st[t].db, addr, size)
    BY <1>0, <1>9, <1>d, <2>3 DEF Access, TaskState
  <2> QED
    BY <2>2, <2>3
<1>10. CASE PortLock(t)
  BY <1>0, <1>c, <1>d, <1>10 DEF PortLock, TaskState
<1>11. CASE PortUnlock(t)
  BY <1>0, <1>c, <1>11 DEF PortUnlock, TaskState
<1>12. ASSUME NEW d \in Db, Deinit(t, d) PROVE Inside
  BY <1>c, <1>d, <1>12 DEF Deinit
<1>13. ASSUME NEW d \in Db, NEW kind \in {"use", "force", "bare", "init"}, Call(t, kind, d)
       PROVE  Inside
  <2>1. PICK ops \in 0 .. MaxOps : st' = [st EXCEPT ![t] = Entered(kind, d, ops)]
    BY <1>13 DEF Call
  <2> QED
    BY <1>0, <2>1, CallType
<1> QED
  BY <1>c, <1>1, <1>2, <1>3, <1>4, <1>5, <1>6, <1>7, <1>8, <1>9, <1>10, <1>11, <1>12, <1>13
     DEF Step, Begin

LEMMA PartitionNext == ~Wraps /\ SysTypeOK /\ InPartition /\ [Next]_vars => InPartition'
<1> SUFFICES ASSUME ~Wraps, SysTypeOK, InPartition, [Next]_vars PROVE InPartition'
  OBVIOUS
<1>1. CASE Main
  BY <1>1 DEF Main, InPartition, Partition
<1>2. ASSUME NEW t \in Task, Step(t) \/ Begin(t) PROVE InPartition'
  BY <1>2, PartitionStep
<1>3. CASE UNCHANGED vars
  BY <1>3 DEF vars, InPartition, Partition
<1> QED
  BY <1>1, <1>2, <1>3 DEF Next

-----------------------------------------------------------------------------
(* Theorems *)

LEMMA InitInv == Init => PortInv /\ LockInv /\ RuleInv /\ InPartition
<1> SUFFICES ASSUME Init PROVE PortInv /\ LockInv /\ RuleInv /\ InPartition
  OBVIOUS
<1>1. \A t \in Task : st[t] = NoTask
  BY DEF Init
<1> QED
  BY <1>1, NoTaskFields
     DEF PortInv, PortTaken, OneAtPort, LockInv, BackInPort, LockTaken, LockAlone, Holds,
         RuleInv, KindPc, KindPcOf, UsersInit, Started, InitsNot, InitAlone, InPartition

LEMMA SysTypeCorrect == Spec => []SysTypeOK
<1>1. SysTypeOK /\ [Next]_vars => SysTypeOK'
  BY TypeNext
<1> QED
  BY TypeInit, <1>1, PTL DEF Spec

\* One task at a time is in a function of ESP-IDF's partition API, however
\* many tasks there are and whatever they call (fal_flash_esp32_port.c:66-118).
THEOREM PortExclusive == Spec => []OneAtPort
<1>1. Init => PortInv
  BY InitInv
<1>2. PortInv => OneAtPort
  BY DEF PortInv
<1> QED
  BY <1>1, <1>2, PortNext, SysTypeCorrect, PTL DEF Spec

\* With the rules kept, what SectionsExclude says follows from the locks and
\* from init_ok: the tasks in the way are under the lock or in _fdb_kv_load.
LEMMA AloneFromInv == SysTypeOK /\ LockInv /\ RuleInv => SectionsExclude
<1> SUFFICES ASSUME SysTypeOK, LockInv, RuleInv, NEW d \in Db, NEW t \in Task, NEW u \in Task,
                    t # u, \/ InSection(t, d) /\ InSection(u, d)
                           \/ InLoad(t, d) /\ Bare(u, d)
             PROVE  FALSE
  BY DEF SectionsExclude
<1>1. st[t].db = d /\ st[u].db = d
  BY DEF InSection, InLoad, Bare
<1>2. ASSUME NEW v \in Task, Holds(v)
      PROVE  st[v].kind = "init" \/ initOk[st[v].db]
  <2>1. st[v].pc \notin {"idle", "check"} /\ st[v] \in TaskState
    BY <1>2 DEF Holds, LockInv, BackInPort, SysTypeOK
  <2>2. st[v].kind # "none"
    BY <2>1 DEF RuleInv, KindPc, KindPcOf
  <2>3. st[v].kind = "init" \/ Started(v)
    BY <2>1, <2>2 DEF TaskState, KindSet, Started
  <2> QED
    BY <2>3 DEF RuleInv, UsersInit
<1>3. ASSUME NEW v \in Task, st[v].load = 1
      PROVE  st[v].kind = "init" /\ ~initOk[st[v].db]
  BY <1>3 DEF RuleInv, KindPc, KindPcOf, InitsNot
<1>4. ~(Holds(t) /\ Holds(u))
  BY <1>1 DEF LockInv, LockAlone
<1>5. CASE InSection(t, d) /\ InSection(u, d)
  <2>1. st[t].kind = "init" /\ st[u].kind = "init"
    BY <1>1, <1>2, <1>3, <1>4, <1>5 DEF InSection, InLoad
  <2> QED
    BY <1>1, <2>1 DEF RuleInv, InitAlone
<1>6. CASE InLoad(t, d) /\ Bare(u, d)
  <2>1. Started(u)
    BY <1>6 DEF Bare, Started
  <2> QED
    BY <1>1, <1>3, <1>6, <2>1 DEF InLoad, RuleInv, UsersInit
<1> QED
  BY <1>5, <1>6

\* When the application initialises a database once and uses it afterwards,
\* the sections under the lock exclude each other, and nobody at all works on
\* the database during the load that fdb_kvdb_init does without the lock
\* (fdb_kvdb.c:1784-1832).  It says nothing of the calls without a lock next
\* to a section: fdb_kv_iterate and fdb_tsl_set_status write there.
THEOREM SectionsApart == ASSUME Orderly PROVE Spec => []SectionsExclude
<1>1. Init => LockInv /\ RuleInv
  BY InitInv
<1>2. SysTypeOK /\ RuleInv /\ [Next]_vars => RuleInv'
  BY RuleNext
<1> QED
  BY <1>1, <1>2, LockNext, AloneFromInv, SysTypeCorrect, PTL DEF Spec

\* As long as no address runs over the end of the address space, no access of
\* a database touches the flash of another, the blocks an erase is rounded up
\* to included (fal_partition.c:398-515, fal_flash_esp32_port.c:101-118).
THEOREM Partitioned == ASSUME ~Wraps PROVE Spec => []InPartition
<1>1. Init => InPartition
  BY InitInv
<1>2. SysTypeOK /\ InPartition /\ [Next]_vars => InPartition'
  BY PartitionNext
<1> QED
  BY <1>1, <1>2, SysTypeCorrect, PTL DEF Spec
=============================================================================
