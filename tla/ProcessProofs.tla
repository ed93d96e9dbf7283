--------------------------- MODULE ProcessProofs ----------------------------
(***************************************************************************)
(* Proofs about process.c and syscall.c, for any number of processes and   *)
(* any size of the address space.                                          *)
(***************************************************************************)
EXTENDS Process, Syscalls, TLAPS

\* Where a process holds its own child_lock, its parent's, or sleeps on its
\* own child_condition.
HoldsOwn == {"exec_test", "wait_test", "wait_sleep", "wait_return"}
HoldsParents ==
  {"load_signal", "load_unlock", "exit_mark", "exit_unlock", "bye_signal", "bye_unlock"}
Asleep == {"exec_wait", "wait_wait"}

Waits == {"wait_lock", "wait_test", "wait_sleep", "wait_wait", "wait_return"}
Loading == {"load", "load_lock", "load_signal"}

\* Where the outcome of sys_exit is recorded, and from there to the grave.
Exiting == {"exit_unlock", "exit", "bye_lock", "bye_signal", "bye_unlock", "die", "none"}

Labels ==
  HoldsOwn \cup HoldsParents \cup Asleep \cup Waits \cup Loading \cup Exiting \cup
  {"run", "exec_create", "exec_list", "exec_lock", "exit_lock"}

Record == [listed : BOOLEAN, exited : BOOLEAN, waited : BOOLEAN, status : Int]

TypeOK ==
  /\ life \in [Proc -> {"unborn", "alive", "dead"}]
  /\ parent \in [Proc -> Proc \cup {NULL}]
  /\ pc \in [Proc -> Labels]
  /\ target \in [Proc -> Proc \cup {NULL}]
  /\ child_load \in [Proc -> {-1, 0, 1}]
  /\ child \in [Proc -> Record]
  /\ loaded \in [Proc -> BOOLEAN]
  /\ exit_arg \in [Proc -> Int]
  /\ ret \in [Proc -> [call : {"none", "exec", "wait"}, child : Proc \cup {NULL}, result : Int]]
  /\ alone \in [Proc -> BOOLEAN]
  /\ reaped \in [Proc -> Nat]
  /\ owner \in [Proc -> Proc \cup {NULL}]
  /\ waitq \in [Proc -> Seq(Proc)]
  /\ woken \in [Proc -> SUBSET Proc]

-----------------------------------------------------------------------------
(* The inductive invariant.                                                *)

\* Only the living have a label and only the born a parent, another process.
LifeOf(p) ==
  /\ pc[p] = "none" <=> life[p] # "alive"
  /\ life[p] = "unborn" => parent[p] = NULL
  /\ parent[p] # p

\* Whose locks p owns, and who waits on p's condition: nobody but p, and not
\* twice.
MonitorOf(p) ==
  /\ \A q \in Proc : owner[q] = p =>
       (q = p /\ pc[p] \in HoldsOwn) \/ (q = parent[p] /\ pc[p] \in HoldsParents)
  /\ waitq[p] \in {<<>>, <<p>>} /\ woken[p] \subseteq {p}
  /\ waitq[p] # <<>> => woken[p] = {}
  /\ waitq[p] # <<>> \/ woken[p] # {} => pc[p] \in Asleep

\* The process p is starting or waiting for is a child of p.
TargetOf(p) ==
  /\ target[p] # NULL => parent[target[p]] = p
  /\ pc[p] \in Waits \cup {"exec_list"} => target[p] # NULL
  /\ pc[p] = "exec_list" => reaped[target[p]] = 0
  /\ pc[p] = "wait_return" => life[target[p]] = "dead"

\* A record that says a child has exited says how, and the child does not
\* come back; a child whose status was returned is dead, and its record used.
RecordOf(c) ==
  /\ child[c].exited => /\ child[c].listed /\ pc[c] \in Exiting /\ life[c] # "unborn"
                        /\ child[c].status = exit_arg[c]
  /\ reaped[c] <= 1
  /\ reaped[c] # 0 => life[c] = "dead" /\ (child[c].listed => child[c].waited)

\* The result of process_wait.
WaitOf(p) ==
  ret[p].call = "wait" /\ ret[p].result # -1 =>
    /\ ret[p].child \in Proc /\ life[ret[p].child] = "dead"
    /\ exit_arg[ret[p].child] = ret[p].result

\* child_load of a process tells how its child t fares: not known yet, loaded
\* or failed.
Told(p, t) ==
  child_load[p] = IF pc[t] \in Loading THEN 0 ELSE IF loaded[t] THEN 1 ELSE -1

\* sys_exec by a process that has no other live child: child_load tells how
\* the one it is starting fares, and is set once.
InExec == {"exec_list", "exec_lock", "exec_test", "exec_wait"}
ExecOf(p) ==
  /\ pc[p] \in {"exec_lock", "exec_test", "exec_wait"} => p # main
  /\ p # main /\ alone[p] /\ pc[p] = "exec_create" =>
       child_load[p] = 0 /\ \A c \in Proc : parent[c] = p => life[c] = "dead"
  /\ p # main /\ alone[p] /\ pc[p] \in InExec =>
       /\ \A c \in Proc : parent[c] = p /\ c # target[p] => life[c] = "dead"
       /\ target[p] # NULL => Told(p, target[p])
  /\ alone[p] /\ ret[p].call = "exec" /\ ret[p].child # NULL =>
       /\ ret[p].child \in Proc /\ pc[ret[p].child] # "load" /\ life[ret[p].child] # "unborn"
       /\ ret[p].result # -1 <=> loaded[ret[p].child]

PInv ==
  /\ TypeOK
  /\ \A p \in Proc : LifeOf(p) /\ MonitorOf(p) /\ TargetOf(p)
  /\ \A p \in Proc : RecordOf(p) /\ WaitOf(p) /\ ExecOf(p)

-----------------------------------------------------------------------------
(* What a step changes.                                                    *)

\* A step from one label to another moves its process only.
LEMMA StepMoves ==
  ASSUME TypeOK, NEW r \in Proc, NEW from, NEW to \in Labels, Step(r, from, to)
  PROVE  /\ life' = life /\ parent' = parent /\ life[r] = "alive" /\ pc[r] = from
         /\ pc'[r] = to /\ pc' \in [Proc -> Labels]
         /\ \A p \in Proc : p # r => pc'[p] = pc[p]
  BY Zenon DEF Step, TypeOK

\* r moves on, and nobody is born or dies.
Moves(r) ==
  /\ life' = life /\ parent' = parent /\ life[r] = "alive"
  /\ pc' \in [Proc -> Labels] /\ pc'[r] # "none"
  /\ \A p \in Proc : p # r => pc'[p] = pc[p]

\* A step moves its process, creates one or ends it.
LEMMA StepShape ==
  ASSUME TypeOK, NEW r \in Proc, KernelStep(r) \/ UserStep(r)
  PROVE  Moves(r) \/ ExecCreate(r) \/ Die(r)
<1>1. ASSUME NEW from, NEW to \in Labels, to # "none", Step(r, from, to) PROVE Moves(r)
  BY <1>1, StepMoves, Zenon DEF Moves
<1> DEFINE L == Labels \ {"none"}
<1>2. /\ {"run", "exec_create", "exec_list", "exec_lock", "exec_test", "exec_wait"} \subseteq L
      /\ {"load", "load_lock", "load_signal", "load_unlock"} \subseteq L
      /\ {"wait_lock", "wait_test", "wait_sleep", "wait_wait", "wait_return"} \subseteq L
      /\ {"exit_lock", "exit_mark", "exit_unlock", "exit"} \subseteq L
      /\ {"bye_lock", "bye_signal", "bye_unlock", "die"} \subseteq L
  BY Zenon DEF Labels, HoldsOwn, HoldsParents, Asleep, Waits, Loading, Exiting
<1>3. ASSUME NEW from, NEW to \in L, Step(r, from, to) PROVE Moves(r)
  BY <1>1, <1>3, Zenon
<1> HIDE DEF L
<1>4. CASE UserStep(r)
  <2>1. \E to \in {"exec_create", "wait_lock", "exit_lock", "exit"} : Step(r, "run", to)
    BY <1>4, Zenon DEF UserStep, Exec, Wait, SysExit, Kill
  <2> QED
    BY <1>2, <1>3, <2>1, Zenon
<1>5. CASE \/ ExecCreateFails(r) \/ ExecList(r) \/ ExecLock(r) \/ ExecSleep(r)
           \/ ExecWake(r) \/ ExecReturn(r)
  <2>1. \E from, to : /\ Step(r, from, to)
                      /\ to \in {"run", "exec_lock", "exec_test", "exec_wait", "wait_lock"}
    BY <1>5, Zenon DEF ExecCreateFails, ExecList, ExecLock, ExecSleep, ExecWake, ExecReturn
  <2> QED
    BY <1>2, <1>3, <2>1, Zenon
<1>6. CASE Load(r) \/ LoadLock(r) \/ LoadSignal(r) \/ LoadUnlock(r)
  <2>1. \E from, to : /\ Step(r, from, to)
                      /\ to \in {"run", "exit", "load_lock", "load_signal", "load_unlock"}
    BY <1>6, Zenon DEF Load, LoadLock, LoadSignal, LoadUnlock, LocksParent
  <2> QED
    BY <1>2, <1>3, <2>1, Zenon
<1>7. CASE WaitLock(r) \/ WaitTest(r) \/ WaitSleep(r) \/ WaitWake(r) \/ WaitReturn(r)
  <2>1. \E from, to : /\ Step(r, from, to)
                      /\ to \in {"run", "wait_test", "wait_sleep", "wait_wait", "wait_return"}
    BY <1>7, Zenon DEF WaitLock, WaitTest, WaitSleep, WaitWake, WaitReturn
  <2> QED
    BY <1>2, <1>3, <2>1, Zenon
<1>8. CASE \/ ExitLock(r) \/ ExitMark(r) \/ ExitUnlock(r)
           \/ FreeChildren(r) \/ ByeLock(r) \/ ByeSignal(r) \/ ByeUnlock(r)
  <2>1. \E from, to : /\ Step(r, from, to)
                      /\ to \in {"exit_mark", "exit_unlock", "exit",
                                 "bye_lock", "bye_signal", "bye_unlock", "die"}
    BY <1>8, Zenon DEF ExitLock, ExitMark, ExitUnlock, FreeChildren, ByeLock, ByeSignal, ByeUnlock,
                LocksParent
  <2> QED
    BY <1>2, <1>3, <2>1, Zenon
<1> QED
  BY <1>4, <1>5, <1>6, <1>7, <1>8, Zenon DEF KernelStep

\* What belongs to the others stays as it is.
Others(r) ==
  \A p \in Proc : p # r =>
    /\ target'[p] = target[p] /\ alone'[p] = alone[p] /\ ret'[p] = ret[p]
    /\ loaded'[p] = loaded[p] /\ exit_arg'[p] = exit_arg[p]

\* What a step leaves alone of other processes.
LEMMA OthersKept ==
  ASSUME TypeOK, NEW r \in Proc, KernelStep(r) \/ UserStep(r)
  PROVE  Others(r)
<1> USE DEF TypeOK, Others, data_vars, rets
<1>1. CASE UserStep(r)
  BY <1>1, ZenonT(40) DEF UserStep, Exec, Wait, SysExit, Kill
<1>2. CASE ExecCreate(r) \/ ExecCreateFails(r) \/ ExecList(r) \/ ExecReturn(r)
  BY <1>2, Zenon DEF ExecCreate, ExecCreateFails, ExecList, ExecReturn
<1>3. CASE Load(r) \/ LoadLock(r) \/ LoadSignal(r) \/ LoadUnlock(r)
  BY <1>3, Zenon DEF Load, LoadLock, LoadSignal, LoadUnlock, LocksParent, Locks
<1>4. CASE \/ ExecLock(r) \/ ExecSleep(r) \/ ExecWake(r)
           \/ WaitLock(r) \/ WaitTest(r) \/ WaitSleep(r) \/ WaitWake(r) \/ WaitReturn(r)
  BY <1>4 DEF ExecLock, ExecSleep, ExecWake, WaitLock, WaitTest, WaitSleep, WaitWake, WaitReturn,
              Locks, Sleeps, Wakes
<1>5. CASE \/ ExitLock(r) \/ ExitMark(r) \/ ExitUnlock(r)
           \/ FreeChildren(r) \/ ByeLock(r) \/ ByeSignal(r) \/ ByeUnlock(r) \/ Die(r)
  BY <1>5, Zenon DEF ExitLock, ExitMark, ExitUnlock, FreeChildren, ByeLock, ByeSignal, ByeUnlock, Die,
              LocksParent, Locks
<1> QED
  BY <1>1, <1>2, <1>3, <1>4, <1>5, Zenon DEF KernelStep

-----------------------------------------------------------------------------
(* The monitors.                                                           *)

\* What a step of r does to the monitors.
NoLocking(r) ==
  /\ UNCHANGED mon_vars
  /\ pc[r] \in HoldsOwn => pc'[r] \in HoldsOwn
  /\ pc[r] \in HoldsParents => pc'[r] \in HoldsParents
  /\ pc[r] \notin Asleep
Acquires(r, q) ==
  /\ owner' = [owner EXCEPT ![q] = r] /\ waitq' = waitq /\ woken' = woken
  /\ pc[r] \notin HoldsOwn \cup HoldsParents \cup Asleep
  /\ (q = r /\ pc'[r] \in HoldsOwn) \/ (q = parent[r] /\ pc'[r] \in HoldsParents)
Releases(r, q) ==
  /\ owner' = [owner EXCEPT ![q] = NULL] /\ waitq' = waitq /\ woken' = woken
  /\ (q = r /\ pc[r] \in HoldsOwn) \/ (q = parent[r] /\ pc[r] \in HoldsParents)
FallsAsleep(r) ==
  /\ owner' = [owner EXCEPT ![r] = NULL]
  /\ waitq' = [waitq EXCEPT ![r] = Append(@, r)] /\ woken' = woken
  /\ pc[r] \in HoldsOwn /\ pc'[r] \in Asleep
WakesUp(r) ==
  /\ r \in woken[r]
  /\ owner' = [owner EXCEPT ![r] = r]
  /\ woken' = [woken EXCEPT ![r] = @ \ {r}] /\ waitq' = waitq
  /\ pc[r] \in Asleep /\ pc'[r] \in HoldsOwn
SignalsTo(r, q) ==
  /\ waitq[q] # <<>> /\ owner' = owner
  /\ waitq' = [waitq EXCEPT ![q] = Tail(@)]
  /\ woken' = [woken EXCEPT ![q] = @ \cup {Head(waitq[q])}]
  /\ pc[r] \in HoldsParents /\ pc'[r] \in HoldsParents

MonitorStep(r) ==
  \/ NoLocking(r) \/ FallsAsleep(r) \/ WakesUp(r)
  \/ \E q \in {r, parent[r]} : Acquires(r, q) \/ Releases(r, q) \/ SignalsTo(r, q)

\* A step does one operation on one lock or condition, or none.
LEMMA MonitorSteps ==
  ASSUME TypeOK, NEW r \in Proc, KernelStep(r) \/ UserStep(r)
  PROVE  MonitorStep(r)
<1> USE DEF TypeOK, HoldsOwn, HoldsParents, Asleep
<1>1. CASE UserStep(r)
  <2>1. NoLocking(r)
    BY <1>1, Zenon DEF UserStep, Exec, Wait, SysExit, Kill, Step, NoLocking
  <2> QED
    BY <2>1, Zenon DEF MonitorStep
<1>2. CASE \/ ExecCreate(r) \/ ExecCreateFails(r) \/ ExecList(r) \/ Load(r) \/ WaitTest(r)
           \/ ExitMark(r) \/ FreeChildren(r) \/ Die(r)
  <2>1. NoLocking(r)
    BY <1>2, Zenon DEF ExecCreate, ExecCreateFails, ExecList, Load, WaitTest, ExitMark, FreeChildren, Die,
                Step, NoLocking
  <2> QED
    BY <2>1 DEF MonitorStep
<1>3. CASE ExecLock(r) \/ WaitLock(r)
  <2>1. Acquires(r, r)
    BY <1>3, Zenon DEF ExecLock, WaitLock, Step, Locks, M!Acquire, Acquires
  <2> QED
    BY <2>1, Zenon DEF MonitorStep
<1>4. CASE LoadLock(r) \/ ExitLock(r) \/ ByeLock(r)
  <2>1. Acquires(r, parent[r]) \/ NoLocking(r)
    BY <1>4, Zenon DEF LoadLock, ExitLock, ByeLock, LocksParent, Step, Locks, M!Acquire, Acquires, NoLocking
  <2> QED
    BY <2>1, Zenon DEF MonitorStep
<1>5. CASE ExecReturn(r) \/ WaitReturn(r)
  <2>1. Releases(r, r)
    BY <1>5, Zenon DEF ExecReturn, WaitReturn, Step, Unlocks, M!Release, Releases
  <2> QED
    BY <2>1, Zenon DEF MonitorStep
<1>6. CASE LoadUnlock(r) \/ ExitUnlock(r) \/ ByeUnlock(r)
  <2>1. Releases(r, parent[r])
    BY <1>6, Zenon DEF LoadUnlock, ExitUnlock, ByeUnlock, Step, Unlocks, M!Release, Releases
  <2> QED
    BY <2>1, Zenon DEF MonitorStep
<1>7. CASE ExecSleep(r) \/ WaitSleep(r)
  <2>1. FallsAsleep(r)
    BY <1>7, Zenon DEF ExecSleep, WaitSleep, Step, Sleeps, M!Wait, FallsAsleep
  <2> QED
    BY <2>1, Zenon DEF MonitorStep
<1>8. CASE ExecWake(r) \/ WaitWake(r)
  <2>1. WakesUp(r)
    BY <1>8, Zenon DEF ExecWake, WaitWake, Step, Wakes, M!Reacquire, WakesUp
  <2> QED
    BY <2>1, Zenon DEF MonitorStep
<1>9. CASE LoadSignal(r) \/ ByeSignal(r)
  <2>1. SignalsTo(r, parent[r]) \/ NoLocking(r)
    BY <1>9, Zenon DEF LoadSignal, ByeSignal, Step, cond_signal, M!Signal, SignalsTo, NoLocking
  <2> QED
    BY <2>1, Zenon DEF MonitorStep
<1> QED
  BY <1>1, <1>2, <1>3, <1>4, <1>5, <1>6, <1>7, <1>8, <1>9, Zenon DEF KernelStep

\* The others stay where they are, but for the process r may give birth to.
Born(r, p) ==
  /\ life[p] = "unborn" /\ pc[p] = "none" /\ parent[p] = NULL
  /\ life'[p] = "alive" /\ pc'[p] = "load" /\ parent'[p] = r
  /\ pc[r] = "exec_create" /\ pc'[r] = "exec_list" /\ target'[r] = p

\* Other processes stay where they are, except one that is born.
LEMMA Neighbours ==
  ASSUME TypeOK, \A p \in Proc : LifeOf(p), NEW r \in Proc, KernelStep(r) \/ UserStep(r)
  PROVE  /\ life[r] = "alive" /\ pc[r] # "none" /\ parent'[r] = parent[r]
         /\ \A p \in Proc : p # r =>
              \/ pc'[p] = pc[p] /\ parent'[p] = parent[p] /\ life'[p] = life[p]
              \/ Born(r, p)
<1>1. CASE Moves(r)
  BY <1>1, Zenon DEF Moves, LifeOf
<1>2. CASE ExecCreate(r)
  <2>1. PICK c \in Proc : /\ life[c] = "unborn"
                          /\ life' = [life EXCEPT ![c] = "alive"]
                          /\ parent' = [parent EXCEPT ![c] = r]
                          /\ target' = [target EXCEPT ![r] = c]
                          /\ pc' = [pc EXCEPT ![r] = "exec_list", ![c] = "load"]
    BY <1>2, Zenon DEF ExecCreate
  <2>2. /\ life[r] = "alive" /\ pc[r] = "exec_create" /\ c # r
        /\ pc[c] = "none" /\ parent[c] = NULL
    BY <1>2, <2>1, Zenon DEF ExecCreate, LifeOf
  <2>3. /\ life'[c] = "alive" /\ pc'[c] = "load" /\ parent'[c] = r /\ target'[r] = c
        /\ pc'[r] = "exec_list" /\ parent'[r] = parent[r]
        /\ \A p \in Proc : p # r /\ p # c =>
             pc'[p] = pc[p] /\ parent'[p] = parent[p] /\ life'[p] = life[p]
    BY <2>1, <2>2, Zenon DEF TypeOK
  <2> QED
    BY <2>1, <2>2, <2>3, Zenon DEF Born
<1>3. CASE Die(r)
  BY <1>3, Zenon DEF Die, TypeOK
<1> QED
  BY <1>1, <1>2, <1>3, StepShape, Zenon

\* Every step keeps LifeOf.
LEMMA LifeKept ==
  ASSUME TypeOK, \A p \in Proc : LifeOf(p), NEW r \in Proc, KernelStep(r) \/ UserStep(r)
  PROVE  \A p \in Proc : LifeOf(p)'
<1>1. \A p \in Proc : p # r => LifeOf(p)'
  BY Neighbours DEF LifeOf, Born
<1>2. LifeOf(r)'
  <2>1. CASE Moves(r)
    BY <2>1, Zenon DEF Moves, LifeOf
  <2>2. CASE ExecCreate(r)
    BY <2>2 DEF ExecCreate, LifeOf, TypeOK
  <2>3. CASE Die(r)
    BY <2>3, Zenon DEF Die, LifeOf, TypeOK
  <2> QED
    BY <2>1, <2>2, <2>3, StepShape, Zenon
<1> QED
  BY <1>1, <1>2, Zenon

\* Locks are owned, and conditions waited on, only where the labels say so.
LEMMA MonitorKept ==
  ASSUME TypeOK, NEW r \in Proc, MonitorStep(r),
         \A p \in Proc : LifeOf(p) /\ MonitorOf(p),
         parent'[r] = parent[r],
         \A p \in Proc : p # r =>
           (pc'[p] = pc[p] /\ parent'[p] = parent[p]) \/ pc[p] = "none"
  PROVE  \A p \in Proc : MonitorOf(p)'
<1> DEFINE Owning(p) == \A q \in Proc : owner[q] = p =>
             (q = p /\ pc[p] \in HoldsOwn) \/ (q = parent[p] /\ pc[p] \in HoldsParents)
           Queue(p) == /\ waitq[p] \in {<<>>, <<p>>} /\ woken[p] \subseteq {p}
                       /\ waitq[p] # <<>> => woken[p] = {}
                       /\ waitq[p] # <<>> \/ woken[p] # {} => pc[p] \in Asleep
<1>1. \A p \in Proc : Owning(p) /\ Queue(p)
  BY Zenon DEF MonitorOf
<1>2. SUFFICES (\A p \in Proc : Owning(p)') /\ (\A p \in Proc : Queue(p)')
  BY Zenon DEF MonitorOf
<1>3. /\ HoldsOwn \cap HoldsParents = {} /\ HoldsOwn \cap Asleep = {}
      /\ HoldsParents \cap Asleep = {} /\ "none" \notin HoldsOwn \cup HoldsParents \cup Asleep
  BY Zenon DEF HoldsOwn, HoldsParents, Asleep
<1>4. /\ owner \in [Proc -> Proc \cup {NULL}] /\ waitq \in [Proc -> Seq(Proc)]
      /\ woken \in [Proc -> SUBSET Proc] /\ NULL \notin Proc
  BY ProcessAssumption, Zenon DEF TypeOK
<1> HIDE DEF Owning, Queue
<1>5. ASSUME NEW p \in Proc, p # r, \A q \in Proc : owner'[q] = p => owner[q] = p
      PROVE  Owning(p)'
  BY <1>1, <1>3, <1>5, Zenon DEF Owning
<1>6. ASSUME NEW p \in Proc, p # r, waitq'[p] = waitq[p], woken'[p] = woken[p]
      PROVE  Queue(p)'
  BY <1>1, <1>3, <1>6, Zenon DEF Queue
<1>7. ASSUME waitq'[r] = <<>>, woken'[r] = {}
      PROVE  Queue(r)'
  BY <1>7, Zenon DEF Queue
<1>8. pc[r] \notin Asleep => waitq[r] = <<>> /\ woken[r] = {}
  BY <1>1, Zenon DEF Queue
<1>9. CASE NoLocking(r)
  <2>1. Owning(r)'
    BY <1>1, <1>9, Zenon DEF Owning, NoLocking, mon_vars
  <2>2. Queue(r)'
    BY <1>7, <1>8, <1>9, Zenon DEF NoLocking, mon_vars
  <2> QED
    BY <1>5, <1>6, <1>9, <2>1, <2>2, Zenon DEF NoLocking, mon_vars
<1>10. ASSUME NEW q \in {r, parent[r]}, Acquires(r, q)
       PROVE  (\A p \in Proc : Owning(p)') /\ (\A p \in Proc : Queue(p)')
  <2>1. \A k \in Proc : owner'[k] = IF k = q THEN r ELSE owner[k]
    BY <1>4, <1>10, Zenon DEF Acquires
  <2>2. \A k \in Proc : owner[k] # r
    BY <1>1, <1>3, <1>10, Zenon DEF Acquires, Owning
  <2>3. Owning(r)'
    BY <1>10, <2>1, <2>2, Zenon DEF Owning, Acquires
  <2>4. Queue(r)'
    BY <1>7, <1>8, <1>10, Zenon DEF Acquires
  <2> QED
    BY <1>5, <1>6, <1>10, <2>1, <2>3, <2>4, Zenon DEF Acquires
<1>11. ASSUME NEW q \in {r, parent[r]}, Releases(r, q)
       PROVE  (\A p \in Proc : Owning(p)') /\ (\A p \in Proc : Queue(p)')
  <2>1. \A k \in Proc : owner'[k] = IF k = q THEN NULL ELSE owner[k]
    BY <1>4, <1>11, Zenon DEF Releases
  <2>2. \A k \in Proc : owner'[k] # r
    BY <1>1, <1>3, <1>4, <1>11, <2>1, Zenon DEF Releases, Owning
  <2>3. Owning(r)'
    BY <2>2, Zenon DEF Owning
  <2>4. Queue(r)'
    BY <1>3, <1>7, <1>8, <1>11, Zenon DEF Releases
  <2> QED
    BY <1>4, <1>5, <1>6, <1>11, <2>1, <2>3, <2>4, Zenon DEF Releases
<1>12. CASE FallsAsleep(r)
  <2>1. /\ \A k \in Proc : owner'[k] = IF k = r THEN NULL ELSE owner[k]
        /\ \A p \in Proc : p # r => waitq'[p] = waitq[p]
        /\ waitq'[r] = Append(waitq[r], r) /\ woken' = woken
    BY <1>4, <1>12, Zenon DEF FallsAsleep
  <2>2. \A k \in Proc : owner'[k] # r
    BY <1>1, <1>3, <1>4, <1>12, <2>1, Zenon DEF FallsAsleep, Owning
  <2>3. Owning(r)'
    BY <2>2, Zenon DEF Owning
  <2>4. waitq[r] = <<>> /\ woken[r] = {}
    BY <1>3, <1>8, <1>12, Zenon DEF FallsAsleep
  <2>5. waitq'[r] = <<r>> /\ woken'[r] = {}
    BY <2>1, <2>4
  <2>6. Queue(r)'
    BY <1>12, <2>5, Zenon DEF Queue, FallsAsleep
  <2> QED
    BY <1>4, <1>5, <1>6, <2>1, <2>3, <2>6, Zenon
<1>13. CASE WakesUp(r)
  <2>1. /\ \A k \in Proc : owner'[k] = IF k = r THEN r ELSE owner[k]
        /\ \A p \in Proc : p # r => woken'[p] = woken[p]
        /\ woken'[r] = woken[r] \ {r} /\ waitq' = waitq /\ r \in woken[r]
    BY <1>4, <1>13, Zenon DEF WakesUp
  <2>2. \A k \in Proc : owner[k] # r
    BY <1>1, <1>3, <1>13, Zenon DEF WakesUp, Owning
  <2>3. Owning(r)'
    BY <1>13, <2>1, <2>2, Zenon DEF Owning, WakesUp
  <2>4. waitq'[r] = <<>> /\ woken'[r] = {}
    BY <1>1, <2>1, Zenon DEF Queue
  <2> QED
    BY <1>5, <1>6, <1>7, <2>1, <2>3, <2>4, Zenon
<1>14. ASSUME NEW q \in {r, parent[r]}, SignalsTo(r, q)
       PROVE  (\A p \in Proc : Owning(p)') /\ (\A p \in Proc : Queue(p)')
  <2>1. Owning(r)'
    BY <1>1, <1>3, <1>14, Zenon DEF Owning, SignalsTo
  <2>2. CASE q \in Proc
    <3>1. /\ \A p \in Proc : p # q => waitq'[p] = waitq[p] /\ woken'[p] = woken[p]
          /\ waitq'[q] = Tail(waitq[q]) /\ woken'[q] = woken[q] \cup {Head(waitq[q])}
          /\ waitq[q] # <<>>
      BY <1>4, <1>14, <2>2, Zenon DEF SignalsTo
    <3>2. waitq[q] = <<q>> /\ woken[q] = {} /\ pc[q] \in Asleep
      BY <1>1, <2>2, <3>1, Zenon DEF Queue
    <3>3. waitq'[q] = <<>> /\ woken'[q] = {q}
      BY <3>1, <3>2
    <3>4. q # r /\ pc'[q] \in Asleep
      BY <1>3, <1>14, <2>2, <3>2, Zenon DEF SignalsTo
    <3>5. Queue(q)'
      BY <3>3, <3>4, Zenon DEF Queue
    <3>6. Queue(r)'
      BY <1>3, <1>7, <1>8, <1>14, <3>1, <3>4, Zenon DEF SignalsTo
    <3> QED
      BY <1>5, <1>6, <1>14, <2>1, <3>1, <3>5, <3>6, Zenon DEF SignalsTo
  <2>3. CASE q \notin Proc
    <3>1. waitq' = waitq /\ woken' = woken
      BY <1>4, <1>14, <2>3, Zenon DEF SignalsTo
    <3>2. Queue(r)'
      BY <1>3, <1>7, <1>8, <1>14, <3>1, Zenon DEF SignalsTo
    <3> QED
      BY <1>5, <1>6, <1>14, <2>1, <3>1, <3>2, Zenon DEF SignalsTo
  <2> QED
    BY <2>2, <2>3, Zenon
<1> QED
  BY <1>9, <1>10, <1>11, <1>12, <1>13, <1>14, Zenon DEF MonitorStep

-----------------------------------------------------------------------------
(* Types.                                                                  *)

\* The two records thread_create and process_execute start from.
LEMMA RecordTypes ==
  /\ NewRecord \in Record /\ NoRecord \in Record
  /\ NewRecord.listed /\ ~NewRecord.exited /\ ~NewRecord.waited
  /\ ~NoRecord.listed /\ ~NoRecord.exited /\ ~NoRecord.waited
<1>1. /\ NewRecord \in Record
      /\ NewRecord.listed = TRUE /\ NewRecord.exited = FALSE /\ NewRecord.waited = FALSE
  BY DEF NewRecord, Record
<1>2. NoRecord \in Record
  BY <1>1, Zenon DEF NoRecord, Record
<1>3. NoRecord.listed = FALSE /\ NoRecord.exited = FALSE /\ NoRecord.waited = FALSE
  BY <1>1, Zenon DEF NoRecord, Record
<1> QED
  BY <1>1, <1>2, <1>3, Zenon

\* ExitMark(): the record says that r has exited, and how.
LEMMA MarkFacts ==
  ASSUME TypeOK, NEW r \in Proc, ExitMark(r)
  PROVE  \/ child' = child
         \/ /\ child' \in [Proc -> Record]
            /\ child'[r].exited = TRUE /\ child'[r].status = exit_arg[r]
            /\ child[r].listed /\ child'[r].listed = TRUE /\ child'[r].waited = child[r].waited
            /\ \A c \in Proc : c # r => child'[c] = child[c]
<1>1. child \in [Proc -> Record] /\ exit_arg[r] \in Int /\ child[r].waited \in BOOLEAN
  BY Zenon DEF TypeOK, Record
<1>2. PICK rec \in Record :
        /\ rec.exited = TRUE /\ rec.status = exit_arg[r]
        /\ rec.listed = TRUE /\ rec.waited = child[r].waited
        /\ rec = [listed |-> TRUE, exited |-> TRUE, waited |-> child[r].waited,
                  status |-> exit_arg[r]]
  BY <1>1, Zenon DEF Record
<1>3. CASE child[r].listed /\ child' = [child EXCEPT ![r] = rec]
  BY <1>1, <1>2, <1>3, Zenon
<1> QED
  BY <1>2, <1>3, Zenon DEF ExitMark

\* Every step keeps the types.
LEMMA TypeKept ==
  ASSUME TypeOK, NEW r \in Proc, KernelStep(r) \/ UserStep(r), \A p \in Proc : TargetOf(p)
  PROVE  TypeOK'
<1>1. /\ life' \in [Proc -> {"unborn", "alive", "dead"}]
      /\ parent' \in [Proc -> Proc \cup {NULL}] /\ pc' \in [Proc -> Labels]
  <2>1. CASE Moves(r)
    BY <2>1, Zenon DEF Moves, TypeOK
  <2>2. "exec_list" \in Labels /\ "load" \in Labels /\ "none" \in Labels
    BY Zenon DEF Labels, Loading, Exiting
  <2>3. CASE ExecCreate(r)
    <3>1. PICK c \in Proc : /\ life' = [life EXCEPT ![c] = "alive"]
                            /\ parent' = [parent EXCEPT ![c] = r]
                            /\ pc' = [pc EXCEPT ![r] = "exec_list", ![c] = "load"]
      BY <2>3, Zenon DEF ExecCreate
    <3>2. pc' \in [Proc -> Labels]
      BY <2>2, <3>1, Zenon DEF TypeOK
    <3> QED
      BY <3>1, <3>2, Zenon DEF TypeOK
  <2>4. CASE Die(r)
    BY <2>2, <2>4, Zenon DEF Die, TypeOK
  <2> QED
    BY <2>1, <2>3, <2>4, StepShape, Zenon
<1>2. /\ owner' \in [Proc -> Proc \cup {NULL}] /\ waitq' \in [Proc -> Seq(Proc)]
      /\ woken' \in [Proc -> SUBSET Proc]
  <2>1. MonitorStep(r)
    BY MonitorSteps, Zenon
  <2>2. CASE NoLocking(r)
    BY <2>2, Zenon DEF NoLocking, mon_vars, TypeOK
  <2>3. CASE FallsAsleep(r) \/ WakesUp(r)
    <3>1. Append(waitq[r], r) \in Seq(Proc)
      BY DEF TypeOK
    <3>2. CASE FallsAsleep(r)
      BY <3>1, <3>2, Zenon DEF FallsAsleep, TypeOK
    <3>3. CASE WakesUp(r)
      BY <3>3, Zenon DEF WakesUp, TypeOK
    <3> QED
      BY <2>3, <3>2, <3>3, Zenon
  <2>4. ASSUME NEW q \in {r, parent[r]}, Acquires(r, q) \/ Releases(r, q)
        PROVE  /\ owner' \in [Proc -> Proc \cup {NULL}] /\ waitq' \in [Proc -> Seq(Proc)]
               /\ woken' \in [Proc -> SUBSET Proc]
    <3>1. CASE Acquires(r, q)
      BY <3>1, Zenon DEF Acquires, TypeOK
    <3>2. CASE Releases(r, q)
      BY <3>2, Zenon DEF Releases, TypeOK
    <3> QED
      BY <2>4, <3>1, <3>2, Zenon
  <2>5. ASSUME NEW q \in {r, parent[r]}, SignalsTo(r, q)
        PROVE  /\ owner' \in [Proc -> Proc \cup {NULL}] /\ waitq' \in [Proc -> Seq(Proc)]
               /\ woken' \in [Proc -> SUBSET Proc]
    <3>1. q \in Proc => waitq[q] \in Seq(Proc) /\ waitq[q] # <<>>
      BY <2>5, Zenon DEF SignalsTo, TypeOK
    <3>2. q \in Proc => Tail(waitq[q]) \in Seq(Proc) /\ Head(waitq[q]) \in Proc
      BY <3>1
    <3> QED
      BY <2>5, <3>2, Zenon DEF SignalsTo, TypeOK
  <2> QED
    BY <2>1, <2>2, <2>3, <2>4, <2>5, Zenon DEF MonitorStep
<1>3. /\ target' \in [Proc -> Proc \cup {NULL}] /\ child_load' \in [Proc -> {-1, 0, 1}]
      /\ loaded' \in [Proc -> BOOLEAN] /\ exit_arg' \in [Proc -> Int] /\ alone' \in [Proc -> BOOLEAN]
  <2> USE DEF TypeOK, data_vars, rets
  <2>1. CASE UserStep(r)
    <3>1. CASE Exec(r)
      <4>1. PICK b \in BOOLEAN : alone' = [alone EXCEPT ![r] = b]
        BY <3>1, Zenon DEF Exec
      <4>2. child_load' \in [Proc -> {-1, 0, 1}]
        BY <3>1, Zenon DEF Exec
      <4> QED
        BY <3>1, <4>1, <4>2, Zenon DEF Exec
    <3>2. CASE Wait(r)
      BY <3>2 DEF Wait
    <3>3. CASE SysExit(r) \/ Kill(r)
      BY <3>3, ProcessAssumption DEF SysExit, Kill
    <3> QED
      BY <2>1, <3>1, <3>2, <3>3, Zenon DEF UserStep
  <2>2. CASE ExecCreate(r) \/ ExecCreateFails(r) \/ ExecList(r) \/ ExecReturn(r)
    <3>1. PICK c \in Proc \cup {NULL} : target' = [target EXCEPT ![r] = c] \/ target' = target
      BY <2>2, Zenon DEF ExecCreate, ExecCreateFails, ExecList, ExecReturn
    <3>2. UNCHANGED <<child_load, loaded, exit_arg, alone>>
      BY <2>2, Zenon DEF ExecCreate, ExecCreateFails, ExecList, ExecReturn
    <3>3. target' \in [Proc -> Proc \cup {NULL}]
      <4>1. CASE target' = target
        BY <4>1, Zenon
      <4>2. CASE target' = [target EXCEPT ![r] = c]
        BY <4>2, Zenon
      <4> QED
        BY <3>1, <4>1, <4>2, Zenon
    <3> QED
      BY <3>2, <3>3, Zenon
  <2>3. CASE Load(r) \/ LoadLock(r) \/ LoadSignal(r) \/ LoadUnlock(r)
    <3>1. CASE Load(r)
      <4>1. PICK ok \in BOOLEAN : loaded' = [loaded EXCEPT ![r] = ok]
        BY <3>1, Zenon DEF Load
      <4>2. UNCHANGED <<target, child_load, exit_arg, alone>>
        BY <3>1, Zenon DEF Load
      <4> QED
        BY <4>1, <4>2, Zenon
    <3>2. CASE LoadSignal(r)
      BY <3>2, Zenon DEF LoadSignal
    <3>3. CASE LoadLock(r) \/ LoadUnlock(r)
      <4>1. UNCHANGED <<target, child_load, loaded, exit_arg, alone>>
        BY <3>3, Zenon DEF LoadLock, LoadUnlock, LocksParent, Locks
      <4> QED
        BY <4>1, Zenon
    <3> QED
      BY <2>3, <3>1, <3>2, <3>3, Zenon
  <2>4. CASE \/ ExecLock(r) \/ ExecSleep(r) \/ ExecWake(r)
             \/ WaitLock(r) \/ WaitTest(r) \/ WaitSleep(r) \/ WaitWake(r) \/ WaitReturn(r)
    <3>1. target' = [target EXCEPT ![r] = NULL] \/ target' = target
      BY <2>4, Zenon DEF ExecLock, ExecSleep, ExecWake, WaitLock, WaitTest, WaitSleep, WaitWake, WaitReturn,
                  Locks, Sleeps, Wakes
    <3>2. UNCHANGED <<child_load, loaded, exit_arg, alone>>
      BY <2>4, Zenon DEF ExecLock, ExecSleep, ExecWake, WaitLock, WaitTest, WaitSleep, WaitWake, WaitReturn,
                  Locks, Sleeps, Wakes
    <3> QED
      BY <3>1, <3>2, Zenon
  <2>5. CASE \/ ExitLock(r) \/ ExitMark(r) \/ ExitUnlock(r)
             \/ FreeChildren(r) \/ ByeLock(r) \/ ByeSignal(r) \/ ByeUnlock(r) \/ Die(r)
    <3>1. UNCHANGED <<target, loaded, exit_arg, alone>>
      BY <2>5, Zenon DEF ExitLock, ExitMark, ExitUnlock, FreeChildren, ByeLock, ByeSignal, ByeUnlock, Die,
                  LocksParent, Locks
    <3>2. CASE ByeSignal(r)
      BY <3>1, <3>2, Zenon DEF ByeSignal
    <3>3. CASE UNCHANGED child_load
      BY <3>1, <3>3, Zenon
    <3> QED
      BY <2>5, <3>2, <3>3, Zenon
        DEF ExitLock, ExitMark, ExitUnlock, FreeChildren, ByeLock, ByeUnlock, Die,
            LocksParent, Locks
  <2> QED
    BY <2>1, <2>2, <2>3, <2>4, <2>5, Zenon DEF KernelStep
<1>4. /\ child' \in [Proc -> Record] /\ reaped' \in [Proc -> Nat]
      /\ ret' \in [Proc -> [call : {"none", "exec", "wait"}, child : Proc \cup {NULL}, result : Int]]
  <2> DEFINE R == [call : {"none", "exec", "wait"}, child : Proc \cup {NULL}, result : Int]
  <2>1. /\ child \in [Proc -> Record] /\ reaped \in [Proc -> Nat] /\ ret \in [Proc -> R]
    BY Zenon DEF TypeOK
  <2>2. NoResult \in R
    BY DEF NoResult, Result
  <2>3. CASE UNCHANGED <<child, reaped, ret>>
    BY <2>1, <2>3, Zenon
  <2>4. CASE Exec(r) \/ Wait(r) \/ Die(r)
    <3>1. ret' = [ret EXCEPT ![r] = NoResult] /\ child' = child /\ reaped' = reaped
      BY <2>4, Zenon DEF Exec, Wait, Die
    <3> HIDE DEF R
    <3> QED
      BY <2>1, <2>2, <3>1, Zenon DEF R
  <2>5. CASE ExecReturn(r)
    <3>1. PICK n \in {-1, 0} : ret' = [ret EXCEPT ![r] = Result("exec", target[r], n)]
      BY <2>5, Zenon DEF ExecReturn
    <3>2. Result("exec", target[r], n) \in R /\ child' = child /\ reaped' = reaped
      BY <2>5 DEF ExecReturn, Result, TypeOK
    <3> HIDE DEF R
    <3> QED
      BY <2>1, <3>1, <3>2, Zenon DEF R
  <2>6. CASE WaitReturn(r)
    <3>1. PICK c \in Proc : c = target[r]
      BY <2>6, Zenon DEF WaitReturn, Step, TargetOf, Waits, TypeOK
    <3>2. PICK n \in Int : ret' = [ret EXCEPT ![r] = Result("wait", c, n)]
      <4>1. child[c].status \in Int /\ -1 \in Int
        BY <2>1 DEF Record
      <4> QED
        BY <2>6, <3>1, <4>1, Zenon DEF WaitReturn
    <3>3. Result("wait", c, n) \in R
      BY Zenon DEF Result
    <3>4. child' \in [Proc -> Record]
      <4>1. PICK b \in BOOLEAN : child' = [child EXCEPT ![c].waited = b]
        <5>1. child' = [child EXCEPT ![c].waited = child[c].waited \/ ~WaitFails(c)]
          BY <2>6, <3>1, Zenon DEF WaitReturn
        <5> QED
          BY <5>1, Zenon
      <4> QED
        BY <2>1, <4>1, ZenonT(40) DEF Record
    <3>5. reaped' \in [Proc -> Nat]
      <4>1. PICK n1 \in Nat : reaped' = [reaped EXCEPT ![c] = n1]
        <5>1. reaped' = [reaped EXCEPT ![c] = IF WaitFails(c) THEN reaped[c] ELSE reaped[c] + 1]
          BY <2>6, <3>1, Zenon DEF WaitReturn
        <5>2. reaped[c] \in Nat /\ reaped[c] + 1 \in Nat
          BY <2>1
        <5>3. CASE WaitFails(c)
          BY <5>1, <5>2, <5>3, Zenon
        <5>4. CASE ~WaitFails(c)
          BY <5>1, <5>2, <5>4, Zenon
        <5> QED
          BY <5>3, <5>4, Zenon
      <4> QED
        BY <2>1, <4>1, Zenon
    <3> HIDE DEF R
    <3> QED
      BY <2>1, <3>2, <3>3, <3>4, <3>5, Zenon DEF R
  <2>7. CASE ExecList(r) \/ FreeChildren(r)
    <3>1. ret' = ret /\ reaped' = reaped
      BY <2>7, Zenon DEF ExecList, FreeChildren, rets
    <3>2. child' \in [Proc -> Record]
      BY <2>1, <2>7, RecordTypes, Zenon DEF ExecList, FreeChildren
    <3> QED
      BY <2>1, <3>1, <3>2, Zenon
  <2>8. CASE ExitMark(r)
    <3>1. ret' = ret /\ reaped' = reaped /\ exit_arg[r] \in Int
      BY <2>8, Zenon DEF ExitMark, TypeOK
    <3>2. child' \in [Proc -> Record]
      BY <2>1, <2>8, MarkFacts, Zenon
    <3> QED
      BY <2>1, <3>1, <3>2, Zenon
  <2>9. CASE \/ SysExit(r) \/ Kill(r) \/ ExecCreate(r) \/ ExecCreateFails(r)
             \/ ExecLock(r) \/ ExecSleep(r) \/ ExecWake(r)
             \/ Load(r) \/ LoadLock(r) \/ LoadSignal(r) \/ LoadUnlock(r)
             \/ WaitLock(r) \/ WaitTest(r) \/ WaitSleep(r) \/ WaitWake(r)
             \/ ExitLock(r) \/ ExitUnlock(r) \/ ByeLock(r) \/ ByeSignal(r) \/ ByeUnlock(r)
    BY <2>3, <2>9, Zenon DEF SysExit, Kill, ExecCreate, ExecCreateFails, ExecLock, ExecSleep, ExecWake,
      Load, LoadLock, LoadSignal, LoadUnlock, WaitLock, WaitTest, WaitSleep, WaitWake,
      ExitLock, ExitUnlock, ByeLock, ByeSignal, ByeUnlock, LocksParent, Locks, Sleeps, Wakes,
      data_vars, rets
  <2> QED
    BY <2>4, <2>5, <2>6, <2>7, <2>8, <2>9, Zenon DEF KernelStep, UserStep
<1> QED
  BY <1>1, <1>2, <1>3, <1>4, Zenon DEF TypeOK

-----------------------------------------------------------------------------
(* Targets.                                                                *)

\* Only process_wait counts a status as returned.
LEMMA ReapedBy ==
  ASSUME TypeOK, NEW r \in Proc, KernelStep(r) \/ UserStep(r), NEW c \in Proc
  PROVE  reaped'[c] = reaped[c] \/ (WaitReturn(r) /\ c = target[r])
<1>1. CASE WaitReturn(r)
  BY <1>1, Zenon DEF WaitReturn, TypeOK
<1>2. CASE UserStep(r)
  BY <1>2, Zenon DEF UserStep, Exec, Wait, SysExit, Kill, data_vars, rets
<1>3. CASE \/ ExecCreate(r) \/ ExecCreateFails(r) \/ ExecList(r) \/ ExecLock(r) \/ ExecSleep(r)
           \/ ExecWake(r) \/ ExecReturn(r)
           \/ Load(r) \/ LoadLock(r) \/ LoadSignal(r) \/ LoadUnlock(r)
  BY <1>3, Zenon DEF ExecCreate, ExecCreateFails, ExecList, ExecLock, ExecSleep, ExecWake, ExecReturn,
              Load, LoadLock, LoadSignal, LoadUnlock, LocksParent, Locks, Sleeps, Wakes,
              data_vars, rets
<1>4. CASE \/ WaitLock(r) \/ WaitTest(r) \/ WaitSleep(r) \/ WaitWake(r)
           \/ ExitLock(r) \/ ExitMark(r) \/ ExitUnlock(r)
           \/ FreeChildren(r) \/ ByeLock(r) \/ ByeSignal(r) \/ ByeUnlock(r) \/ Die(r)
  BY <1>4, Zenon DEF WaitLock, WaitTest, WaitSleep, WaitWake, ExitLock, ExitMark, ExitUnlock,
              FreeChildren, ByeLock, ByeSignal, ByeUnlock, Die, LocksParent, Locks, Sleeps, Wakes,
              data_vars, rets
<1> QED
  BY <1>1, <1>2, <1>3, <1>4, Zenon DEF KernelStep

\* The dead stay dead.
LEMMA DeadStay ==
  ASSUME TypeOK, \A p \in Proc : LifeOf(p), NEW r \in Proc, KernelStep(r) \/ UserStep(r),
         NEW c \in Proc, life[c] = "dead"
  PROVE  c # r /\ life'[c] = "dead" /\ pc'[c] = pc[c] /\ exit_arg'[c] = exit_arg[c]
<1>1. c # r /\ (life'[c] = life[c] /\ pc'[c] = pc[c])
  BY Neighbours, Zenon DEF Born
<1> QED
  BY <1>1, OthersKept, Zenon DEF Others

\* A child keeps its parent.
LEMMA ParentKept ==
  ASSUME TypeOK, \A p \in Proc : LifeOf(p), NEW r \in Proc, KernelStep(r) \/ UserStep(r),
         NEW c \in Proc, parent[c] # NULL
  PROVE  parent'[c] = parent[c]
  BY Neighbours, Zenon DEF Born

\* Every step keeps TargetOf.
LEMMA TargetKept ==
  ASSUME TypeOK, NEW r \in Proc, KernelStep(r) \/ UserStep(r),
         \A p \in Proc : LifeOf(p) /\ TargetOf(p) /\ RecordOf(p)
  PROVE  \A p \in Proc : TargetOf(p)'
<1>0. NULL \notin Proc
  BY ProcessAssumption, Zenon
<1>1. \A p \in Proc : target[p] # NULL =>
        /\ target[p] \in Proc /\ parent[target[p]] = p /\ parent'[target[p]] = p
        /\ life[target[p]] = "dead" => life'[target[p]] = "dead"
  <2> SUFFICES ASSUME NEW p \in Proc, NEW c \in Proc, c = target[p], c # NULL
               PROVE  /\ parent[c] = p /\ parent'[c] = p
                      /\ life[c] = "dead" => life'[c] = "dead"
    BY DEF TypeOK
  <2>1. parent[c] = p
    BY Zenon DEF TargetOf
  <2> QED
    BY <1>0, <2>1, ParentKept, DeadStay, Zenon
<1>2. ASSUME NEW p \in Proc, p # r PROVE TargetOf(p)'
  <2>1. TargetOf(p) /\ target'[p] = target[p]
    BY <1>2, OthersKept, Zenon DEF Others
  <2>2. pc'[p] = pc[p] \/ pc'[p] = "load"
    BY <1>2, Neighbours DEF Born
  <2>3. pc[p] = "exec_list" => reaped'[target[p]] = reaped[target[p]]
    <3>1. CASE pc[p] = "exec_list"
      <4>1. PICK c \in Proc : c = target[p] /\ parent[c] = p
        BY <1>1, <2>1, <3>1, Zenon DEF TargetOf
      <4>2. ~(WaitReturn(r) /\ c = target[r])
        BY <1>0, <1>1, <1>2, <4>1, Zenon
      <4> QED
        BY <4>1, <4>2, ReapedBy, Zenon
    <3> QED
      BY <3>1, Zenon
  <2> QED
    BY <1>1, <2>1, <2>2, <2>3, Zenon DEF TargetOf, Waits
<1>3. TargetOf(r)'
  <2>1. CASE ExecCreate(r)
    <3>1. PICK c \in Proc : /\ life[c] = "unborn" /\ parent' = [parent EXCEPT ![c] = r]
                            /\ target' = [target EXCEPT ![r] = c]
                            /\ pc' = [pc EXCEPT ![r] = "exec_list", ![c] = "load"]
      BY <2>1, Zenon DEF ExecCreate
    <3>2. /\ parent'[c] = r /\ target'[r] = c /\ pc'[r] = "exec_list" /\ reaped' = reaped /\ c # r
      BY <2>1, <3>1 DEF ExecCreate, TypeOK, rets
    <3>3. reaped[c] = 0
      BY <3>1, Zenon DEF RecordOf
    <3> QED
      BY <1>0, <3>2, <3>3, Zenon DEF TargetOf, Waits
  <2>2. CASE ExecCreateFails(r) \/ ExecReturn(r) \/ WaitReturn(r)
    <3>1. target'[r] = NULL /\ pc'[r] \in {"run", "exec_lock"}
      BY <2>2, ZenonT(40) DEF ExecCreateFails, ExecReturn, WaitReturn, Step, TypeOK
    <3> QED
      BY <3>1, Zenon DEF TargetOf, Waits
  <2>3. CASE Wait(r)
    <3>1. PICK c \in Proc : parent[c] = r /\ target' = [target EXCEPT ![r] = c]
      BY <2>3, Zenon DEF Wait
    <3>2. parent'[c] = r /\ target'[r] = c /\ pc'[r] = "wait_lock"
      BY <2>3, <3>1, Zenon DEF Wait, Step, TypeOK
    <3> QED
      BY <1>0, <3>2, Zenon DEF TargetOf, Waits
  <2>4. CASE WaitTest(r)
    <3>1. /\ pc[r] = "wait_test" /\ target' = target /\ target[r] # NULL /\ life' = life
          /\ pc'[r] = IF thread_get_by_id(target[r]) THEN "wait_sleep" ELSE "wait_return"
      BY <2>4, Zenon DEF WaitTest, Step, TypeOK, data_vars, TargetOf, Waits
    <3>2. PICK c \in Proc : c = target[r] /\ c # NULL /\ parent[c] = r /\ parent'[c] = r
      BY <1>1, <3>1, Zenon
    <3>3. life[c] # "unborn"
      BY <1>0, <3>2, Zenon DEF LifeOf
    <3>4. pc'[r] = "wait_return" => life'[c] = "dead"
      BY <3>1, <3>2, <3>3, Zenon DEF thread_get_by_id, TypeOK
    <3>5. target'[r] = c /\ pc'[r] # "exec_list"
      BY <3>1, <3>2, Zenon
    <3> QED
      BY <1>0, <3>2, <3>4, <3>5, Zenon DEF TargetOf
  <2>5. ASSUME target'[r] = target[r], pc'[r] \notin {"exec_list", "wait_return"},
               pc'[r] \in Waits => pc[r] \in Waits \cup {"exec_list"}
        PROVE  TargetOf(r)'
    BY <1>1, <2>5, Zenon DEF TargetOf
  <2>6. CASE ExecList(r) \/ ExecLock(r) \/ ExecSleep(r) \/ ExecWake(r)
    BY <2>5, <2>6, Zenon DEF ExecList, ExecLock, ExecSleep, ExecWake, Step, TypeOK, Locks, Sleeps, Wakes,
                      data_vars, Waits
  <2>7. CASE \/ Load(r) \/ LoadLock(r) \/ LoadSignal(r) \/ LoadUnlock(r)
             \/ WaitLock(r) \/ WaitSleep(r) \/ WaitWake(r)
    BY <2>5, <2>7 DEF Load, LoadLock, LoadSignal, LoadUnlock, WaitLock, WaitSleep, WaitWake,
                      LocksParent, Step, TypeOK, Locks, Sleeps, Wakes, data_vars, Waits
  <2>8. CASE \/ ExitLock(r) \/ ExitMark(r) \/ ExitUnlock(r)
             \/ FreeChildren(r) \/ ByeLock(r) \/ ByeSignal(r) \/ ByeUnlock(r) \/ Die(r)
    BY <2>5, <2>8, ZenonT(40) DEF ExitLock, ExitMark, ExitUnlock, FreeChildren, ByeLock, ByeSignal, ByeUnlock,
                      Die, LocksParent, Step, TypeOK, Locks, data_vars, Waits
  <2>9. CASE Exec(r) \/ SysExit(r) \/ Kill(r)
    BY <2>5, <2>9 DEF Exec, SysExit, Kill, Step, TypeOK, data_vars, Waits
  <2> QED
    BY <2>1, <2>2, <2>3, <2>4, <2>6, <2>7, <2>8, <2>9, Zenon DEF KernelStep, UserStep
<1> QED
  BY <1>2, <1>3, Zenon

-----------------------------------------------------------------------------
(* Records and results.                                                    *)

\* The steps that change a child's record.
LEMMA RecordBy ==
  ASSUME TypeOK, NEW r \in Proc, KernelStep(r) \/ UserStep(r), NEW c \in Proc
  PROVE  \/ child'[c] = child[c]
         \/ ExecList(r) /\ c = target[r] /\ child'[c] = NewRecord
         \/ FreeChildren(r) /\ child'[c] = NoRecord
         \/ ExitMark(r) /\ c = r
         \/ WaitReturn(r) /\ c = target[r]
<1>0. child \in [Proc -> Record]
  BY Zenon DEF TypeOK
<1>1. CASE ExecList(r)
  BY <1>0, <1>1, Zenon DEF ExecList
<1>2. CASE FreeChildren(r)
  BY <1>0, <1>2, Zenon DEF FreeChildren
<1>3. CASE ExitMark(r)
  BY <1>3, MarkFacts, Zenon
<1>4. CASE WaitReturn(r)
  BY <1>0, <1>4, Zenon DEF WaitReturn
<1>5. CASE UserStep(r)
  BY <1>5, Zenon DEF UserStep, Exec, Wait, SysExit, Kill, data_vars
<1>6. CASE \/ ExecCreate(r) \/ ExecCreateFails(r) \/ ExecLock(r) \/ ExecSleep(r)
           \/ ExecWake(r) \/ ExecReturn(r)
           \/ Load(r) \/ LoadLock(r) \/ LoadSignal(r) \/ LoadUnlock(r)
  BY <1>6, Zenon DEF ExecCreate, ExecCreateFails, ExecLock, ExecSleep, ExecWake, ExecReturn,
              Load, LoadLock, LoadSignal, LoadUnlock, LocksParent, Locks, Sleeps, Wakes,
              data_vars
<1>7. CASE \/ WaitLock(r) \/ WaitTest(r) \/ WaitSleep(r) \/ WaitWake(r)
           \/ ExitLock(r) \/ ExitUnlock(r) \/ ByeLock(r) \/ ByeSignal(r) \/ ByeUnlock(r) \/ Die(r)
  BY <1>7, Zenon DEF WaitLock, WaitTest, WaitSleep, WaitWake, ExitLock, ExitUnlock,
              ByeLock, ByeSignal, ByeUnlock, Die, LocksParent, Locks, Sleeps, Wakes, data_vars
<1> QED
  BY <1>1, <1>2, <1>3, <1>4, <1>5, <1>6, <1>7, Zenon DEF KernelStep

\* Once a process is on its way out it stays so, and its status with it.
LEMMA ExitingOn ==
  ASSUME TypeOK, \A p \in Proc : LifeOf(p), NEW r \in Proc, KernelStep(r) \/ UserStep(r),
         NEW c \in Proc, pc[c] \in Exiting, life[c] # "unborn"
  PROVE  pc'[c] \in Exiting /\ exit_arg'[c] = exit_arg[c] /\ life'[c] # "unborn"
<1>1. CASE c # r
  BY <1>1, Neighbours, OthersKept DEF Others, Born
<1>2. CASE c = r
  <2>1. life[r] = "alive"
    BY Neighbours, Zenon
  <2>2. CASE ExitUnlock(r) \/ FreeChildren(r) \/ ByeLock(r) \/ ByeSignal(r) \/ ByeUnlock(r) \/ Die(r)
    BY <1>2, <2>1, <2>2, Zenon DEF ExitUnlock, FreeChildren, ByeLock, ByeSignal, ByeUnlock, Die,
      LocksParent, Locks, data_vars, Step, TypeOK, Exiting
  <2>3. UserStep(r) => pc[r] = "run"
    BY Zenon DEF UserStep, Exec, Wait, SysExit, Kill, Step
  <2>4. CASE \/ ExecCreate(r) \/ ExecCreateFails(r) \/ ExecList(r) \/ ExecLock(r) \/ ExecSleep(r)
             \/ ExecWake(r) \/ ExecReturn(r) \/ Load(r)
    <3>1. pc[r] \in {"exec_create", "exec_list", "exec_lock", "exec_test", "exec_wait", "load"}
      BY <2>4, Zenon DEF ExecCreate, ExecCreateFails, ExecList, ExecLock, ExecSleep, ExecWake, ExecReturn,
                  Load, Step
    <3> QED
      BY <1>2, <3>1, Zenon DEF Exiting
  <2>5. CASE \/ LoadLock(r) \/ LoadSignal(r) \/ LoadUnlock(r)
             \/ WaitLock(r) \/ WaitTest(r) \/ WaitSleep(r) \/ WaitWake(r) \/ WaitReturn(r)
             \/ ExitLock(r) \/ ExitMark(r)
    <3>1. pc[r] \in Waits \cup {"load_lock", "load_signal", "load_unlock", "exit_lock", "exit_mark"}
      BY <2>5, Zenon DEF LoadLock, LoadSignal, LoadUnlock, WaitLock, WaitTest, WaitSleep, WaitWake,
                  WaitReturn, ExitLock, ExitMark, LocksParent, Step, Waits
    <3> QED
      BY <1>2, <3>1, Zenon DEF Exiting, Waits
  <2> QED
    BY <1>2, <2>2, <2>3, <2>4, <2>5, Zenon DEF KernelStep, Exiting
<1> QED
  BY <1>1, <1>2, Zenon

\* What process_wait finds in the record of the dead child, and leaves there.
LEMMA WaitFinds ==
  ASSUME TypeOK, NEW r \in Proc, WaitReturn(r), \A p \in Proc : TargetOf(p) /\ RecordOf(p)
  PROVE  /\ target[r] \in Proc /\ life[target[r]] = "dead"
         /\ child'[target[r]].exited = child[target[r]].exited
         /\ child'[target[r]].listed = child[target[r]].listed
         /\ child'[target[r]].status = child[target[r]].status
         /\ \/ /\ WaitFails(target[r]) /\ reaped'[target[r]] = reaped[target[r]]
               /\ child'[target[r]].waited = child[target[r]].waited
               /\ ret'[r] = Result("wait", target[r], -1)
            \/ /\ reaped'[target[r]] = 1 /\ child'[target[r]].waited = TRUE
               /\ child[target[r]].exited
               /\ ret'[r] = Result("wait", target[r], child[target[r]].status)
<1>1. PICK c \in Proc : c = target[r] /\ life[c] = "dead"
  BY Zenon DEF WaitReturn, Step, TargetOf, Waits, TypeOK
<1>2. /\ child \in [Proc -> Record] /\ reaped \in [Proc -> Nat]
      /\ child[c].waited \in BOOLEAN /\ child[c].exited \in BOOLEAN
  BY Zenon DEF TypeOK, Record
<1>3. PICK b \in BOOLEAN : b = (child[c].waited \/ ~WaitFails(c)) /\ child' = [child EXCEPT ![c].waited = b]
  <2>1. child' = [child EXCEPT ![c].waited = child[c].waited \/ ~WaitFails(c)]
    BY <1>1, Zenon DEF WaitReturn
  <2> QED
    BY <2>1, Zenon
<1>4. /\ child'[c].exited = child[c].exited /\ child'[c].listed = child[c].listed
      /\ child'[c].status = child[c].status /\ child'[c].waited = b
  BY <1>2, <1>3, Zenon DEF Record
<1>5. CASE WaitFails(c)
  <2>1. ret'[r] = Result("wait", c, -1) /\ reaped'[c] = reaped[c]
    BY <1>1, <1>2, <1>5, Zenon DEF WaitReturn, TypeOK
  <2>2. b = child[c].waited
    BY <1>2, <1>3, <1>5, Zenon
  <2> QED
    BY <1>1, <1>4, <1>5, <2>1, <2>2, Zenon
<1>6. CASE ~WaitFails(c)
  <2>1. ret'[r] = Result("wait", c, child[c].status) /\ reaped'[c] = reaped[c] + 1
    BY <1>1, <1>2, <1>6, Zenon DEF WaitReturn, TypeOK
  <2>2. child[c].exited /\ ~child[c].waited
    BY <1>6, Zenon DEF WaitFails
  <2>3. reaped[c] = 0
    BY <2>2, Zenon DEF RecordOf
  <2>4. b = TRUE
    BY <1>3, <1>6, Zenon
  <2> QED
    BY <1>1, <1>4, <2>1, <2>2, <2>3, <2>4
<1> QED
  BY <1>5, <1>6, Zenon

\* Every step keeps RecordOf.
LEMMA RecordsKept ==
  ASSUME TypeOK, NEW r \in Proc, KernelStep(r) \/ UserStep(r),
         \A p \in Proc : LifeOf(p) /\ TargetOf(p) /\ RecordOf(p)
  PROVE  \A c \in Proc : RecordOf(c)'
<1> SUFFICES ASSUME NEW c \in Proc PROVE RecordOf(c)'
  BY Zenon
<1>1. /\ RecordOf(c) /\ life[r] = "alive" /\ reaped[c] \in Nat
      /\ life[c] = "dead" => life'[c] = "dead"
  BY Neighbours, DeadStay, Zenon DEF TypeOK
<1>2. child[c].exited => /\ pc'[c] \in Exiting /\ exit_arg'[c] = exit_arg[c]
                         /\ life'[c] # "unborn"
  BY <1>1, ExitingOn, Zenon DEF RecordOf
<1>3. CASE WaitReturn(r) /\ c = target[r]
  <2>1. /\ child'[c].exited = child[c].exited /\ child'[c].listed = child[c].listed
        /\ child'[c].status = child[c].status /\ life'[c] = "dead"
        /\ \/ reaped'[c] = reaped[c] /\ child'[c].waited = child[c].waited
           \/ reaped'[c] = 1 /\ child'[c].waited = TRUE
    BY <1>1, <1>3, WaitFinds, Zenon
  <2> QED
    BY <1>1, <1>2, <2>1 DEF RecordOf
<1>4. CASE ~(WaitReturn(r) /\ c = target[r])
  <2>1. reaped'[c] = reaped[c]
    BY <1>4, ReapedBy, Zenon
  <2>2. CASE child'[c] = child[c]
    BY <1>1, <1>2, <2>1, <2>2, Zenon DEF RecordOf
  <2>3. CASE ExecList(r) /\ c = target[r] /\ child'[c] = NewRecord
    <3>1. reaped[c] = 0
      BY <2>3, Zenon DEF ExecList, Step, TargetOf
    <3>2. ~child'[c].exited
      BY <2>3, RecordTypes, Zenon
    <3> QED
      BY <2>1, <3>1, <3>2, Zenon DEF RecordOf
  <2>4. CASE child'[c] = NoRecord
    <3>1. ~child'[c].exited /\ ~child'[c].listed
      BY <2>4, RecordTypes, Zenon
    <3> QED
      BY <1>1, <2>1, <3>1, Zenon DEF RecordOf
  <2>5. CASE ExitMark(r) /\ c = r /\ child'[c] # child[c]
    <3>1. child'[r].status = exit_arg[r] /\ child'[r].listed = TRUE
      BY <2>5, MarkFacts, Zenon
    <3>2. pc'[r] = "exit_unlock" /\ life'[r] = "alive" /\ exit_arg' = exit_arg
      BY <1>1, <2>5, Zenon DEF ExitMark, Step, TypeOK
    <3>3. reaped[r] = 0
      BY <1>1, <2>5, Zenon DEF RecordOf
    <3> QED
      BY <2>1, <2>5, <3>1, <3>2, <3>3, Zenon DEF RecordOf, Exiting
  <2> QED
    BY <1>4, <2>2, <2>3, <2>4, <2>5, RecordBy, Zenon
<1> QED
  BY <1>3, <1>4, Zenon

\* The steps that give the caller a result or take it back.
LEMMA RetBy ==
  ASSUME TypeOK, NEW r \in Proc, KernelStep(r) \/ UserStep(r)
  PROVE  \/ ret'[r] = ret[r] /\ alone'[r] = alone[r]
         \/ ret'[r] = NoResult
         \/ ExecReturn(r) /\ alone'[r] = alone[r]
         \/ WaitReturn(r)
<1>1. CASE Exec(r) \/ Wait(r) \/ Die(r)
  BY <1>1, Zenon DEF Exec, Wait, Die, TypeOK
<1>2. CASE ExecReturn(r)
  BY <1>2, Zenon DEF ExecReturn
<1>3. CASE SysExit(r) \/ Kill(r)
  BY <1>3, Zenon DEF SysExit, Kill, data_vars, rets
<1>4. CASE \/ ExecCreate(r) \/ ExecCreateFails(r) \/ ExecList(r) \/ ExecLock(r) \/ ExecSleep(r)
           \/ ExecWake(r) \/ Load(r) \/ LoadLock(r) \/ LoadSignal(r) \/ LoadUnlock(r)
  BY <1>4, Zenon DEF ExecCreate, ExecCreateFails, ExecList, ExecLock, ExecSleep, ExecWake,
              Load, LoadLock, LoadSignal, LoadUnlock, LocksParent, Locks, Sleeps, Wakes,
              data_vars, rets
<1>5. CASE \/ WaitLock(r) \/ WaitTest(r) \/ WaitSleep(r) \/ WaitWake(r)
           \/ ExitLock(r) \/ ExitMark(r) \/ ExitUnlock(r)
           \/ FreeChildren(r) \/ ByeLock(r) \/ ByeSignal(r) \/ ByeUnlock(r)
  BY <1>5, Zenon DEF WaitLock, WaitTest, WaitSleep, WaitWake, ExitLock, ExitMark, ExitUnlock,
              FreeChildren, ByeLock, ByeSignal, ByeUnlock, LocksParent, Locks, Sleeps, Wakes,
              data_vars, rets
<1> QED
  BY <1>1, <1>2, <1>3, <1>4, <1>5, Zenon DEF KernelStep, UserStep

\* The fields of a result.
LEMMA ResultFields ==
  ASSUME NEW k, NEW c, NEW n
  PROVE  /\ Result(k, c, n).call = k /\ Result(k, c, n).child = c /\ Result(k, c, n).result = n
         /\ NoResult.call = "none"
  BY Zenon DEF Result, NoResult

\* Every step keeps WaitOf.
LEMMA WaitResultsKept ==
  ASSUME TypeOK, NEW r \in Proc, KernelStep(r) \/ UserStep(r),
         \A p \in Proc : LifeOf(p) /\ TargetOf(p) /\ RecordOf(p) /\ WaitOf(p)
  PROVE  \A p \in Proc : WaitOf(p)'
<1> SUFFICES ASSUME NEW p \in Proc, ret'[p].call = "wait", ret'[p].result # -1
             PROVE  /\ ret'[p].child \in Proc /\ life'[ret'[p].child] = "dead"
                    /\ exit_arg'[ret'[p].child] = ret'[p].result
  BY Zenon DEF WaitOf
<1>1. CASE ret'[p] = ret[p]
  BY <1>1, DeadStay DEF WaitOf
<1>2. CASE p = r /\ WaitReturn(r)
  <2>1. PICK c \in Proc : /\ c = target[r] /\ life[c] = "dead" /\ child[c].exited
                          /\ ret'[p] = Result("wait", c, child[c].status)
    <3>1. Result("wait", target[r], -1).result = -1
      BY ResultFields
    <3> QED
      BY <1>2, <3>1, WaitFinds, Zenon
  <2>2. child[c].status = exit_arg[c]
    BY <2>1, Zenon DEF RecordOf
  <2>3. ret'[p].child = c /\ ret'[p].result = child[c].status
    BY <2>1, ResultFields
  <2> QED
    BY <2>1, <2>2, <2>3, DeadStay
<1>3. CASE p = r /\ (ret'[r] = NoResult \/ ExecReturn(r))
  <2>1. ExecReturn(r) => \E c, n : ret'[r] = Result("exec", c, n)
    BY DEF ExecReturn, TypeOK
  <2>2. ret'[r].call # "wait"
    BY <1>3, <2>1, ResultFields
  <2> QED
    BY <1>3, <2>2, Zenon
<1> QED
  BY <1>1, <1>2, <1>3, RetBy, OthersKept, Zenon DEF Others

-----------------------------------------------------------------------------
(* sys_exec.                                                               *)

\* The steps that change a process's child_load.
LEMMA LoadBy ==
  ASSUME TypeOK, NEW r \in Proc, KernelStep(r) \/ UserStep(r), NEW p \in Proc
  PROVE  \/ child_load'[p] = child_load[p]
         \/ Exec(r) /\ p = r
         \/ LoadSignal(r) /\ p = parent[r] /\ child_load'[p] = IF loaded[r] THEN 1 ELSE -1
         \/ ByeSignal(r) /\ p = parent[r] /\ child_load[p] = 0
<1>1. CASE Exec(r)
  BY <1>1, Zenon DEF Exec, TypeOK
<1>2. CASE LoadSignal(r)
  BY <1>2, Zenon DEF LoadSignal, TypeOK
<1>3. CASE ByeSignal(r)
  BY <1>3, Zenon DEF ByeSignal, TypeOK
<1>4. CASE Wait(r) \/ SysExit(r) \/ Kill(r)
  BY <1>4, Zenon DEF Wait, SysExit, Kill, data_vars
<1>5. CASE \/ ExecCreate(r) \/ ExecCreateFails(r) \/ ExecList(r) \/ ExecLock(r) \/ ExecSleep(r)
           \/ ExecWake(r) \/ ExecReturn(r) \/ Load(r) \/ LoadLock(r) \/ LoadUnlock(r)
  BY <1>5, Zenon DEF ExecCreate, ExecCreateFails, ExecList, ExecLock, ExecSleep, ExecWake, ExecReturn,
              Load, LoadLock, LoadUnlock, LocksParent, Locks, Sleeps, Wakes, data_vars
<1>6. CASE \/ WaitLock(r) \/ WaitTest(r) \/ WaitSleep(r) \/ WaitWake(r) \/ WaitReturn(r)
           \/ ExitLock(r) \/ ExitMark(r) \/ ExitUnlock(r)
           \/ FreeChildren(r) \/ ByeLock(r) \/ ByeUnlock(r) \/ Die(r)
  BY <1>6, Zenon DEF WaitLock, WaitTest, WaitSleep, WaitWake, WaitReturn, ExitLock, ExitMark, ExitUnlock,
              FreeChildren, ByeLock, ByeUnlock, Die, LocksParent, Locks, Sleeps, Wakes, data_vars
<1> QED
  BY <1>1, <1>2, <1>3, <1>4, <1>5, <1>6, Zenon DEF KernelStep, UserStep

\* A process passes through start_process once, and load() is part of it.
LEMMA LoadingOn ==
  ASSUME TypeOK, NEW r \in Proc, KernelStep(r) \/ UserStep(r)
  PROVE  /\ pc'[r] # "load"
         /\ pc[r] \notin Loading => pc'[r] \notin Loading /\ loaded'[r] = loaded[r]
         /\ pc[r] \in Loading => Load(r) \/ LoadLock(r) \/ LoadSignal(r)
<1> USE DEF Loading, TypeOK
<1>1. CASE UserStep(r)
  BY <1>1 DEF UserStep, Exec, Wait, SysExit, Kill, Step, data_vars
<1>2. CASE ExecCreate(r)
  <2>1. PICK c \in Proc : /\ life[c] = "unborn" /\ c # r
                          /\ pc' = [pc EXCEPT ![r] = "exec_list", ![c] = "load"]
    BY <1>2, Zenon DEF ExecCreate
  <2> QED
    BY <1>2, <2>1, Zenon DEF ExecCreate
<1>3. CASE \/ ExecCreateFails(r) \/ ExecList(r) \/ ExecLock(r) \/ ExecSleep(r)
           \/ ExecWake(r) \/ ExecReturn(r)
  BY <1>3, Zenon DEF ExecCreateFails, ExecList, ExecLock, ExecSleep, ExecWake, ExecReturn,
              Locks, Sleeps, Wakes, Step, data_vars
<1>4. CASE Load(r) \/ LoadLock(r) \/ LoadSignal(r) \/ LoadUnlock(r)
  BY <1>4, Zenon DEF Load, LoadLock, LoadSignal, LoadUnlock, LocksParent, Locks, Step, data_vars
<1>5. CASE \/ WaitLock(r) \/ WaitTest(r) \/ WaitSleep(r) \/ WaitWake(r) \/ WaitReturn(r)
           \/ ExitLock(r) \/ ExitMark(r) \/ ExitUnlock(r)
  BY <1>5, Zenon DEF WaitLock, WaitTest, WaitSleep, WaitWake, WaitReturn, ExitLock, ExitMark, ExitUnlock,
              LocksParent, Locks, Sleeps, Wakes, Step, data_vars
<1>6. CASE FreeChildren(r) \/ ByeLock(r) \/ ByeSignal(r) \/ ByeUnlock(r) \/ Die(r)
  BY <1>6, Zenon DEF FreeChildren, ByeLock, ByeSignal, ByeUnlock, Die, LocksParent, Locks, Step, data_vars
<1> QED
  BY <1>1, <1>2, <1>3, <1>4, <1>5, <1>6, Zenon DEF KernelStep

\* No other process's step makes Told untrue while t is the only child alive.
LEMMA ToldKept ==
  ASSUME TypeOK, \A q \in Proc : LifeOf(q), NEW r \in Proc, KernelStep(r) \/ UserStep(r),
         NEW p \in Proc, p # r, life[p] = "alive", NEW t \in Proc, parent[t] = p, Told(p, t),
         \A c \in Proc : parent[c] = p /\ c # t => life[c] = "dead"
  PROVE  Told(p, t)'
<1>0. NULL \notin Proc /\ life[r] = "alive"
  BY ProcessAssumption, Neighbours, Zenon
<1>1. CASE r # t
  <2>1. parent[r] # p
    BY <1>0, <1>1, Zenon
  <2>2. child_load'[p] = child_load[p]
    BY <2>1, LoadBy, Zenon
  <2>3. pc'[t] = pc[t] /\ loaded'[t] = loaded[t]
    BY <1>0, <1>1, Neighbours, OthersKept DEF Born, Others
  <2> QED
    BY <2>2, <2>3, Zenon DEF Told
<1>2. CASE r = t /\ pc[r] \notin Loading
  <2>1. pc'[t] \notin Loading /\ loaded'[t] = loaded[t]
    BY <1>2, LoadingOn, Zenon
  <2>2. ~LoadSignal(r) /\ child_load[p] # 0
    BY <1>2 DEF LoadSignal, Step, Loading, Told
  <2>3. child_load'[p] = child_load[p]
    BY <2>2, LoadBy, Zenon
  <2> QED
    BY <1>2, <2>1, <2>3, Zenon DEF Told
<1>3. CASE r = t /\ (Load(r) \/ LoadLock(r))
  <2>1. /\ pc[r] \in Loading /\ pc'[r] \in Loading /\ child_load'[p] = child_load[p]
    BY <1>0, <1>3, Zenon DEF Load, LoadLock, LocksParent, Locks, Step, thread_get_by_id, TypeOK, Loading,
                      data_vars
  <2> QED
    BY <1>3, <2>1, Zenon DEF Told
<1>4. CASE r = t /\ LoadSignal(r)
  <2>1. /\ pc'[r] \notin Loading /\ loaded'[r] = loaded[r]
        /\ child_load'[p] = IF loaded[r] THEN 1 ELSE -1
    BY <1>4, Zenon DEF LoadSignal, Step, TypeOK, Loading
  <2> QED
    BY <1>4, <2>1, Zenon DEF Told
<1> QED
  BY <1>1, <1>2, <1>3, <1>4, LoadingOn, Zenon

\* Another process's step leaves a caller of sys_exec what it knew.
LEMMA ExecOthers ==
  ASSUME TypeOK, NEW r \in Proc, KernelStep(r) \/ UserStep(r),
         \A q \in Proc : LifeOf(q) /\ TargetOf(q) /\ ExecOf(q),
         NEW p \in Proc, p # r
  PROVE  /\ p # main /\ alone'[p] /\ pc'[p] = "exec_create" =>
              child_load'[p] = 0 /\ \A c \in Proc : parent'[c] = p => life'[c] = "dead"
         /\ p # main /\ alone'[p] /\ pc'[p] \in InExec =>
              /\ \A c \in Proc : parent'[c] = p /\ c # target'[p] => life'[c] = "dead"
              /\ target'[p] # NULL => Told(p, target[p])'
<1>0. NULL \notin Proc /\ life[r] = "alive" /\ parent'[r] = parent[r]
  BY ProcessAssumption, Neighbours, Zenon
<1>1. alone'[p] = alone[p] /\ target'[p] = target[p]
  BY OthersKept, Zenon DEF Others
<1>2. pc'[p] = "load" \/ pc'[p] = pc[p]
  BY Neighbours, Zenon DEF Born
<1>3. \A c \in Proc : parent'[c] = p => parent[c] = p
  BY <1>0, Neighbours, ZenonT(40) DEF Born
<1>4. ASSUME p # main, alone'[p], pc'[p] = "exec_create"
      PROVE  child_load'[p] = 0 /\ \A c \in Proc : parent'[c] = p => life'[c] = "dead"
  <2>1. child_load[p] = 0 /\ \A c \in Proc : parent[c] = p => life[c] = "dead"
    BY <1>1, <1>2, <1>4, Zenon DEF ExecOf
  <2>2. parent[r] # p
    BY <1>0, <2>1, Zenon
  <2>3. child_load'[p] = 0
    BY <2>1, <2>2, LoadBy, Zenon
  <2> QED
    BY <1>3, <2>1, <2>3, DeadStay, Zenon
<1>5. ASSUME p # main, alone'[p], pc'[p] \in InExec
      PROVE  /\ \A c \in Proc : parent'[c] = p /\ c # target'[p] => life'[c] = "dead"
             /\ target'[p] # NULL => Told(p, target[p])'
  <2>1. pc[p] \in InExec /\ life[p] = "alive"
    BY <1>2, <1>5, Zenon DEF InExec, LifeOf
  <2>2. \A c \in Proc : parent[c] = p /\ c # target[p] => life[c] = "dead"
    BY <1>1, <1>5, <2>1, Zenon DEF ExecOf
  <2>3. \A c \in Proc : parent'[c] = p /\ c # target'[p] => life'[c] = "dead"
    BY <1>1, <1>3, <2>2, DeadStay, Zenon
  <2>4. ASSUME target'[p] # NULL PROVE Told(p, target[p])'
    <3>1. PICK t \in Proc : t = target[p]
      BY <1>1, <2>4, Zenon DEF TypeOK
    <3>2. Told(p, t) /\ parent[t] = p
      BY <1>1, <1>5, <2>1, <2>4, <3>1, Zenon DEF ExecOf, TargetOf
    <3>3. Told(p, t)'
      BY <2>1, <2>2, <3>1, <3>2, ToldKept, Zenon
    <3> QED
      BY <1>1, <3>1, <3>3, Zenon DEF Told
  <2> QED
    BY <2>3, <2>4, Zenon
<1> QED
  BY <1>4, <1>5, Zenon

\* The caller's own steps up to its return.
LEMMA ExecOwn ==
  ASSUME TypeOK, NEW r \in Proc, KernelStep(r) \/ UserStep(r),
         \A q \in Proc : LifeOf(q) /\ TargetOf(q) /\ ExecOf(q)
  PROVE  /\ pc'[r] \in {"exec_lock", "exec_test", "exec_wait"} => r # main
         /\ r # main /\ alone'[r] /\ pc'[r] = "exec_create" =>
              child_load'[r] = 0 /\ \A c \in Proc : parent'[c] = r => life'[c] = "dead"
         /\ r # main /\ alone'[r] /\ pc'[r] \in InExec =>
              /\ \A c \in Proc : parent'[c] = r /\ c # target'[r] => life'[c] = "dead"
              /\ target'[r] # NULL => Told(r, target[r])'
<1>0. NULL \notin Proc /\ life[r] = "alive"
  BY ProcessAssumption, Neighbours, Zenon
<1>1. CASE Exec(r)
  BY <1>1, Zenon DEF Exec, Step, TypeOK, InExec
<1>2. CASE ExecCreate(r)
  <2>1. PICK c \in Proc : /\ life[c] = "unborn" /\ c # r
                          /\ life' = [life EXCEPT ![c] = "alive"]
                          /\ parent' = [parent EXCEPT ![c] = r]
                          /\ target' = [target EXCEPT ![r] = c]
                          /\ pc' = [pc EXCEPT ![r] = "exec_list", ![c] = "load"]
    BY <1>0, <1>2, Zenon DEF ExecCreate
  <2>2. pc'[r] = "exec_list" /\ pc'[c] = "load" /\ target'[r] = c
    BY <2>1, Zenon DEF TypeOK
  <2>3. child_load' = child_load /\ alone' = alone /\ pc[r] = "exec_create"
    BY <1>2, Zenon DEF ExecCreate, rets
  <2>4. ASSUME r # main, alone'[r]
        PROVE  /\ \A d \in Proc : parent'[d] = r /\ d # c => life'[d] = "dead"
               /\ child_load'[r] = 0
    BY <2>1, <2>3, <2>4 DEF ExecOf, TypeOK
  <2>5. ASSUME r # main, alone'[r] PROVE Told(r, target[r])'
    BY <2>2, <2>4, <2>5, Zenon DEF Told, Loading
  <2> QED
    BY <2>2, <2>4, <2>5, Zenon
<1>3. CASE ExecCreateFails(r)
  BY <1>3, Zenon DEF ExecCreateFails, Step, rets, TypeOK, ExecOf, InExec
<1>4. CASE ExecList(r) \/ ExecLock(r) \/ ExecSleep(r) \/ ExecWake(r)
  <2>1. /\ pc[r] \in InExec /\ pc' = [pc EXCEPT ![r] = pc'[r]] /\ pc'[r] # "exec_create"
        /\ pc'[r] \in {"exec_lock", "exec_test", "exec_wait"} => r # main
    BY <1>4 DEF ExecList, ExecLock, ExecSleep, ExecWake, Step, InExec, ExecOf, TypeOK
  <2>2. /\ target' = target /\ alone' = alone /\ child_load' = child_load /\ loaded' = loaded
        /\ life' = life /\ parent' = parent
    BY <1>4, Zenon DEF ExecList, ExecLock, ExecSleep, ExecWake, Step, Locks, Sleeps, Wakes, rets, data_vars
  <2>3. ASSUME target[r] # NULL
        PROVE  target[r] \in Proc /\ pc'[target[r]] = pc[target[r]]
    BY <2>1, <2>3 DEF TypeOK, TargetOf, LifeOf
  <2>4. ASSUME r # main, alone'[r], target'[r] # NULL PROVE Told(r, target[r])'
    BY <2>1, <2>2, <2>3, <2>4, Zenon DEF Told, ExecOf
  <2> QED
    BY <2>1, <2>2, <2>4, Zenon DEF ExecOf
<1>5. CASE \/ ExecReturn(r) \/ Load(r) \/ LoadLock(r) \/ LoadSignal(r) \/ LoadUnlock(r)
           \/ Wait(r) \/ SysExit(r) \/ Kill(r)
  BY <1>5 DEF ExecReturn, Load, LoadLock, LoadSignal, LoadUnlock, Wait, SysExit, Kill,
              LocksParent, Locks, Step, InExec, TypeOK
<1>6. CASE \/ WaitLock(r) \/ WaitTest(r) \/ WaitSleep(r) \/ WaitWake(r) \/ WaitReturn(r)
           \/ ExitLock(r) \/ ExitMark(r) \/ ExitUnlock(r)
  BY <1>6 DEF WaitLock, WaitTest, WaitSleep, WaitWake, WaitReturn, ExitLock, ExitMark, ExitUnlock,
              LocksParent, Locks, Step, InExec, TypeOK
<1>7. CASE FreeChildren(r) \/ ByeLock(r) \/ ByeSignal(r) \/ ByeUnlock(r) \/ Die(r)
  BY <1>7 DEF FreeChildren, ByeLock, ByeSignal, ByeUnlock, Die, LocksParent, Locks, Step, InExec,
              TypeOK
<1> QED
  BY <1>1, <1>2, <1>3, <1>4, <1>5, <1>6, <1>7, Zenon DEF KernelStep, UserStep

\* What a process that is handed such a record reads in it.
LEMMA ResultRead ==
  ASSUME NEW x, NEW k, NEW c, NEW n, x = Result(k, c, n)
  PROVE  x.child = c /\ x.result = n
  BY Zenon DEF Result

\* The result of sys_exec, when it is returned and afterwards.
LEMMA ExecResultsKept ==
  ASSUME TypeOK, NEW r \in Proc, KernelStep(r) \/ UserStep(r),
         \A q \in Proc : LifeOf(q) /\ TargetOf(q) /\ ExecOf(q),
         NEW p \in Proc, alone'[p], ret'[p].call = "exec", ret'[p].child # NULL
  PROVE  /\ ret'[p].child \in Proc /\ pc'[ret'[p].child] # "load"
         /\ life'[ret'[p].child] # "unborn"
         /\ ret'[p].result # -1 <=> loaded'[ret'[p].child]
<1>0. NULL \notin Proc /\ life[r] = "alive"
  BY ProcessAssumption, Neighbours, Zenon
<1>1. ASSUME NEW c \in Proc, pc[c] # "load", life[c] # "unborn"
      PROVE  pc'[c] # "load" /\ life'[c] # "unborn" /\ loaded'[c] = loaded[c]
  <2>1. CASE c # r
    <3>1. (pc'[c] = pc[c] /\ life'[c] = life[c]) \/ Born(r, c)
      BY <2>1, Neighbours, Zenon
    <3>2. loaded'[c] = loaded[c]
      BY <2>1, OthersKept, Zenon DEF Others
    <3> QED
      BY <1>1, <3>1, <3>2, Zenon DEF Born
  <2>2. CASE c = r
    <3>1. pc'[r] # "load" /\ loaded'[r] = loaded[r]
      <4>1. CASE pc[r] \notin Loading
        BY <4>1, LoadingOn, Zenon
      <4>2. CASE LoadLock(r) \/ LoadSignal(r)
        BY <4>2, LoadingOn, Zenon DEF LoadLock, LoadSignal, LocksParent, Locks, data_vars
      <4>3. ~Load(r)
        BY <1>1, <2>2, Zenon DEF Load, Step
      <4> QED
        BY <4>1, <4>2, <4>3, LoadingOn, Zenon
    <3>2. life'[r] # "unborn"
      <4>1. CASE Moves(r)
        BY <1>0, <4>1, Zenon DEF Moves
      <4>2. CASE ExecCreate(r)
        BY <1>0, <4>2, Zenon DEF ExecCreate, TypeOK
      <4>3. CASE Die(r)
        BY <4>3, Zenon DEF Die, TypeOK
      <4> QED
        BY <4>1, <4>2, <4>3, StepShape, Zenon
    <3> QED
      BY <2>2, <3>1, <3>2, Zenon
  <2> QED
    BY <2>1, <2>2, Zenon
<1>2. CASE ret'[p] = ret[p] /\ alone'[p] = alone[p]
  <2>1. PICK c \in Proc : c = ret[p].child
    BY <1>2, Zenon DEF TypeOK
  <2>2. pc[c] # "load" /\ life[c] # "unborn" /\ (ret[p].result # -1 <=> loaded[c])
    BY <1>2, <2>1, Zenon DEF ExecOf
  <2> QED
    BY <1>1, <1>2, <2>1, <2>2, Zenon
<1>3. CASE p = r /\ ExecReturn(r) /\ alone'[r] = alone[r]
  <2> DEFINE status == IF target[r] = NULL THEN -1 ELSE IF child_load[r] = -1 THEN -1 ELSE 0
  <2>1. ret'[r].child = target[r] /\ ret'[r].result = status
    <3>1. ret'[r] = Result("exec", target[r], status)
      BY <1>3, Zenon DEF ExecReturn, TypeOK
    <3> HIDE DEF status
    <3> QED
      BY <3>1, ResultRead
  <2>2. PICK c \in Proc : c = target[r] /\ c = ret'[r].child
    <3>1. target[r] \in Proc \cup {NULL}
      BY Zenon DEF TypeOK
    <3> QED
      BY <1>3, <2>1, <3>1, Zenon
  <2>3. pc[r] = "exec_test" /\ child_load[r] # 0 /\ r # main
    BY <1>3, Zenon DEF ExecReturn, Step, ExecOf
  <2>4. Told(r, c) /\ parent[c] = r
    <3>1. target[r] # NULL /\ pc[r] \in InExec /\ alone[r]
      BY <1>0, <1>3, <2>2, <2>3, Zenon DEF InExec
    <3>2. parent[c] = r
      BY <2>2, <3>1, Zenon DEF TargetOf
    <3>3. Told(r, c)
      BY <2>2, <2>3, <3>1, Zenon DEF ExecOf
    <3> QED
      BY <3>2, <3>3, Zenon
  <2>5. pc[c] \notin Loading /\ child_load[r] = IF loaded[c] THEN 1 ELSE -1
    BY <2>3, <2>4, Zenon DEF Told
  <2>6. pc[c] # "load" /\ life[c] # "unborn"
    BY <1>0, <2>4, <2>5, Zenon DEF Loading, LifeOf
  <2>7. ret'[r].result = IF child_load[r] = -1 THEN -1 ELSE 0
    <3>1. target[r] # NULL
      BY <1>0, <2>2, Zenon
    <3> QED
      BY <2>1, <3>1, Zenon
  <2>8. ret'[r].result # -1 <=> loaded[c]
    <3>1. 1 # -1 /\ 0 # -1
      OBVIOUS
    <3> QED
      BY <2>5, <2>7, <3>1, Zenon
  <2> QED
    BY <1>1, <1>3, <2>2, <2>6, <2>8, ZenonT(40)
<1>4. CASE ret'[p] = NoResult
  BY <1>4, ResultFields, Zenon
<1>5. CASE p = r /\ WaitReturn(r)
  <2>1. PICK n : ret'[r] = Result("wait", target[r], n)
    BY <1>5, Zenon DEF WaitReturn, TypeOK
  <2> QED
    BY <1>5, <2>1, ResultFields
<1>6. CASE p # r
  BY <1>2, <1>6, OthersKept, Zenon DEF Others
<1> QED
  BY <1>2, <1>3, <1>4, <1>5, <1>6, RetBy, Zenon

\* Every step keeps ExecOf.
LEMMA ExecKept ==
  ASSUME TypeOK, NEW r \in Proc, KernelStep(r) \/ UserStep(r),
         \A p \in Proc : LifeOf(p) /\ TargetOf(p) /\ ExecOf(p)
  PROVE  \A p \in Proc : ExecOf(p)'
<1> SUFFICES ASSUME NEW p \in Proc PROVE ExecOf(p)'
  OBVIOUS
<1>1. pc'[p] \in {"exec_lock", "exec_test", "exec_wait"} => p # main
  <2>1. CASE p = r
    BY <2>1, ExecOwn, Zenon
  <2>2. CASE p # r
    BY <2>2, Neighbours, Zenon DEF Born, ExecOf
  <2> QED
    BY <2>1, <2>2, Zenon
<1>2. /\ p # main /\ alone'[p] /\ pc'[p] = "exec_create" =>
           child_load'[p] = 0 /\ \A c \in Proc : parent'[c] = p => life'[c] = "dead"
      /\ p # main /\ alone'[p] /\ pc'[p] \in InExec =>
           /\ \A c \in Proc : parent'[c] = p /\ c # target'[p] => life'[c] = "dead"
           /\ target'[p] # NULL => Told(p, target[p])'
  <2>1. CASE p = r
    BY <2>1, ExecOwn, Zenon
  <2>2. CASE p # r
    BY <2>2, ExecOthers, Zenon
  <2> QED
    BY <2>1, <2>2, Zenon
<1>3. alone'[p] /\ ret'[p].call = "exec" /\ ret'[p].child # NULL =>
        /\ ret'[p].child \in Proc /\ pc'[ret'[p].child] # "load"
        /\ life'[ret'[p].child] # "unborn"
        /\ ret'[p].result # -1 <=> loaded'[ret'[p].child]
  BY ExecResultsKept, Zenon
<1> QED
  BY <1>1, <1>2, <1>3, Zenon DEF ExecOf

-----------------------------------------------------------------------------
(* The theorems.                                                           *)

\* The first process is the only one.
LEMMA InitPInv == ProcessInit => PInv
<1> SUFFICES ASSUME ProcessInit PROVE PInv
  BY Zenon
<1>0. main \in Proc /\ NULL \notin Proc
  BY ProcessAssumption, Zenon
<1>1. TypeOK
  <2>1. NoRecord \in Record
    BY RecordTypes, Zenon
  <2>2. child \in [Proc -> Record]
    BY <2>1, Zenon DEF ProcessInit
  <2>3. ret \in [Proc -> [call : {"none", "exec", "wait"}, child : Proc \cup {NULL}, result : Int]]
    BY DEF ProcessInit, NoResult, Result
  <2>4. /\ life \in [Proc -> {"unborn", "alive", "dead"}] /\ parent \in [Proc -> Proc \cup {NULL}]
        /\ pc \in [Proc -> Labels] /\ target \in [Proc -> Proc \cup {NULL}]
        /\ child_load \in [Proc -> {-1, 0, 1}] /\ loaded \in [Proc -> BOOLEAN]
        /\ exit_arg \in [Proc -> Int] /\ alone \in [Proc -> BOOLEAN] /\ reaped \in [Proc -> Nat]
    BY DEF ProcessInit, Labels, Exiting
  <2>5. /\ owner \in [Proc -> Proc \cup {NULL}] /\ waitq \in [Proc -> Seq(Proc)]
        /\ woken \in [Proc -> SUBSET Proc]
    BY DEF ProcessInit, M!MonitorInit
  <2> QED
    BY <2>2, <2>3, <2>4, <2>5, Zenon DEF TypeOK
<1>2. ASSUME NEW p \in Proc PROVE LifeOf(p) /\ MonitorOf(p) /\ TargetOf(p)
  <2>1. LifeOf(p) /\ TargetOf(p)
    BY <1>0, <1>2, Zenon DEF ProcessInit, LifeOf, TargetOf, Waits
  <2>2. MonitorOf(p)
    BY <1>0, <1>2, Zenon DEF ProcessInit, M!MonitorInit, MonitorOf
  <2> QED
    BY <2>1, <2>2, Zenon
<1>3. ASSUME NEW p \in Proc PROVE RecordOf(p) /\ WaitOf(p) /\ ExecOf(p)
  <2>1. child[p].exited = FALSE /\ reaped[p] = 0
    BY <1>3, Zenon DEF ProcessInit, NoRecord, NewRecord
  <2>2. ret[p].call = "none" /\ pc[p] \in {"run", "none"}
    BY <1>3, ResultFields, Zenon DEF ProcessInit
  <2> QED
    BY <2>1, <2>2 DEF RecordOf, WaitOf, ExecOf, InExec
<1> QED
  BY <1>1, <1>2, <1>3, Zenon DEF PInv

\* Every step of every process keeps PInv.
LEMMA NextPInv == PInv /\ [ProcessNext]_vars => PInv'
<1> SUFFICES ASSUME PInv, [ProcessNext]_vars PROVE PInv'
  BY Zenon
<1>0. TypeOK /\ \A p \in Proc : /\ LifeOf(p) /\ MonitorOf(p) /\ TargetOf(p)
                                /\ RecordOf(p) /\ WaitOf(p) /\ ExecOf(p)
  BY Zenon DEF PInv
<1>1. ASSUME NEW r \in Proc, KernelStep(r) \/ UserStep(r) PROVE PInv'
  <2>1. TypeOK' /\ \A p \in Proc : LifeOf(p)'
    BY <1>0, <1>1, TypeKept, LifeKept, Zenon
  <2>2. \A p \in Proc : MonitorOf(p)'
    <3>1. /\ parent'[r] = parent[r]
          /\ \A p \in Proc : p # r => (pc'[p] = pc[p] /\ parent'[p] = parent[p]) \/ pc[p] = "none"
      BY <1>0, <1>1, Neighbours, Zenon DEF Born
    <3>2. MonitorStep(r)
      BY <1>0, <1>1, MonitorSteps, Zenon
    <3> QED
      BY <1>0, <3>1, <3>2, MonitorKept, Zenon
  <2>3. \A p \in Proc : TargetOf(p)'
    BY <1>0, <1>1, TargetKept, Zenon
  <2>4. \A p \in Proc : RecordOf(p)'
    BY <1>0, <1>1, RecordsKept, Zenon
  <2>5. \A p \in Proc : WaitOf(p)'
    BY <1>0, <1>1, WaitResultsKept, Zenon
  <2>6. \A p \in Proc : ExecOf(p)'
    BY <1>0, <1>1, ExecKept, Zenon
  <2> QED
    BY <2>1, <2>2, <2>3, <2>4, <2>5, <2>6, Zenon DEF PInv
<1>2. CASE UNCHANGED vars
  BY <1>2 DEF PInv, vars, data_vars, rets, mon_vars, TypeOK, LifeOf, MonitorOf, TargetOf, RecordOf,
              WaitOf, ExecOf, Told
<1> QED
  BY <1>1, <1>2, Zenon DEF ProcessNext

\* PInv holds at every moment.
LEMMA ProcessInvariant == ProcessSpec => []PInv
  BY InitPInv, NextPInv, PTL DEF ProcessSpec

\* process_exit (process.c:216): whatever the number of processes and however
\* their steps interleave, a process that is gone owns no child_lock and waits
\* on no condition.
THEOREM DeadReleaseAll == ProcessSpec => []DeadHoldNothing
<1>1. PInv => DeadHoldNothing
  <2> SUFFICES ASSUME PInv, NEW p \in Proc, life[p] = "dead", NEW q \in Proc
               PROVE  /\ owner[q] # p /\ p \notin woken[q]
                      /\ \A i \in DOMAIN waitq[q] : waitq[q][i] # p
    BY Zenon DEF DeadHoldNothing
  <2>1. pc[p] = "none"
    BY Zenon DEF PInv, LifeOf
  <2>2. owner[q] # p
    BY <2>1, Zenon DEF PInv, MonitorOf, HoldsOwn, HoldsParents
  <2>3. ASSUME p \in woken[q] \/ waitq[q] = <<p>> PROVE FALSE
    BY <2>1, <2>3 DEF PInv, MonitorOf, Asleep
  <2>4. ASSUME NEW i \in DOMAIN waitq[q], waitq[q][i] = p PROVE FALSE
    <3>1. waitq[q] = <<q>>
      <4>1. waitq[q] \in {<<>>, <<q>>}
        BY Zenon DEF PInv, MonitorOf
      <4> QED
        BY <2>4, <4>1
    <3>2. q = p
      BY <2>4, <3>1
    <3> QED
      BY <2>3, <3>1, <3>2, Zenon
  <2> QED
    BY <2>2, <2>3, <2>4, Zenon
<1> QED
  BY <1>1, ProcessInvariant, PTL

\* process_wait (process.c:162) returns the status its child exited with, once
\* the child is dead, and returns it at most once per child: for any number of
\* processes.
THEOREM WaitCorrect == ProcessSpec => []WaitSound
<1>1. PInv => WaitSound
  BY Zenon DEF PInv, WaitOf, RecordOf, WaitSound
<1> QED
  BY <1>1, ProcessInvariant, PTL

\* sys_exec (syscall.c:356) by a process with no other live child returns -1
\* exactly when the child's load() failed: for any number of processes.
THEOREM ExecCorrect == ProcessSpec => []ExecSound
<1>1. PInv => ExecSound
  BY Zenon DEF PInv, ExecOf, ExecSound
<1> QED
  BY <1>1, ProcessInvariant, PTL

-----------------------------------------------------------------------------
(***************************************************************************)
(* System calls.                                                           *)
(***************************************************************************)
\* A call as Int30 makes it.
Made(nr, args, junk, m) ==
  [nr |-> nr, args |-> args, frame |-> <<junk, junk, junk, junk>>, mapped |-> m]

\* The words checked, the pointers checked and the arguments fetched.
Does(words, ptrs, args) == [words |-> words, ptrs |-> ptrs, args |-> args]

\* The system calls, by their arguments and what the handler does with them.
Kinds(nr, w, h) ==
  \/ nr = "halt" /\ w = <<>> /\ h = Does({}, {}, <<>>)
  \/ nr \in {"exit", "wait", "tell", "filesize", "close"} /\ w = <<Number>> /\ h = Does({1}, {}, <<1>>)
  \/ nr \in {"exec", "open"} /\ w = <<Addr>> /\ h = Does({1}, {1}, <<1>>)
  \/ nr = "remove" /\ w = <<Addr>> /\ h = Does({4}, {4}, <<1>>)
  \/ nr = "munmap" /\ w = <<Number>> /\ h = Does({}, {}, <<1>>)
  \/ nr = "create" /\ w = <<Addr, Number>> /\ h = Does({4, 5}, {4}, <<4, 5>>)
  \/ nr = "seek" /\ w = <<Number, Number>> /\ h = Does({4, 5}, {}, <<4, 5>>)
  \/ nr = "mmap" /\ w = <<Number, Addr>> /\ h = Does({}, {}, <<1, 2>>)
  \/ nr \in {"read", "write"} /\ w = <<Number, Addr, Addr>> /\ h = Does({5, 6, 7}, {6}, <<5, 6, 7>>)

\* What each call is made of.
LEMMA Calls == ASSUME NEW nr \in Nr PROVE Kinds(nr, Wrapper[nr], Handler[nr])
<1>1. nr \in {"halt", "exit", "exec", "wait", "create", "remove", "open", "filesize",
            "read", "write", "seek", "tell", "close", "mmap", "munmap"}
  BY Zenon DEF Nr, Wrapper
<1>2. /\ Wrapper["halt"] = <<>> /\ Wrapper["exit"] = <<Number>>
      /\ Wrapper["exec"] = <<Addr>> /\ Wrapper["wait"] = <<Number>>
      /\ Wrapper["create"] = <<Addr, Number>> /\ Wrapper["remove"] = <<Addr>>
      /\ Wrapper["open"] = <<Addr>> /\ Wrapper["filesize"] = <<Number>> /\ Wrapper["read"] = <<Number, Addr, Addr>>
      /\ Wrapper["write"] = <<Number, Addr, Addr>>
      /\ Wrapper["seek"] = <<Number, Number>> /\ Wrapper["tell"] = <<Number>> /\ Wrapper["close"] = <<Number>>
      /\ Wrapper["mmap"] = <<Number, Addr>> /\ Wrapper["munmap"] = <<Number>>
  BY Zenon DEF Wrapper
<1>3. /\ Handler["halt"] = Does({}, {}, <<>>)
      /\ \A r \in {"exit", "wait", "tell", "filesize", "close"} : Handler[r] = Does({1}, {}, <<1>>)
      /\ \A r \in {"exec", "open"} : Handler[r] = Does({1}, {1}, <<1>>)
      /\ Handler["remove"] = Does({4}, {4}, <<1>>)
      /\ Handler["munmap"] = Does({}, {}, <<1>>)
  BY DEF Handler, Does
<1>4. /\ Handler["create"] = Does({4, 5}, {4}, <<4, 5>>)
      /\ Handler["seek"] = Does({4, 5}, {}, <<4, 5>>)
      /\ Handler["mmap"] = Does({}, {}, <<1, 2>>)
      /\ \A r \in {"read", "write"} : Handler[r] = Does({5, 6, 7}, {6}, <<5, 6, 7>>)
  BY DEF Handler, Does
<1>5. CASE nr = "halt"
  BY <1>2, <1>3, <1>4, <1>5, Zenon DEF Kinds
<1>6. CASE nr \in {"exit", "wait", "tell", "filesize", "close"}
  BY <1>2, <1>3, <1>4, <1>6, Zenon DEF Kinds
<1>7. CASE nr \in {"exec", "open"}
  BY <1>2, <1>3, <1>4, <1>7, Zenon DEF Kinds
<1>8. CASE nr = "remove"
  BY <1>2, <1>3, <1>4, <1>8, Zenon DEF Kinds
<1>9. CASE nr = "munmap"
  BY <1>2, <1>3, <1>4, <1>9, Zenon DEF Kinds
<1>10. CASE nr = "create"
  BY <1>2, <1>3, <1>4, <1>10, Zenon DEF Kinds
<1>11. CASE nr = "seek"
  BY <1>2, <1>3, <1>4, <1>11, Zenon DEF Kinds
<1>12. CASE nr = "mmap"
  BY <1>2, <1>3, <1>4, <1>12, Zenon DEF Kinds
<1>13. CASE nr \in {"read", "write"}
  BY <1>2, <1>3, <1>4, <1>13, Zenon DEF Kinds
<1> QED
  BY <1>1, <1>5, <1>6, <1>7, <1>8, <1>9, <1>10, <1>11, <1>12, <1>13, Zenon

\* The pointers the handler of reading, writing and mapping looks at.
LEMMA HandlerPtrs ==
  ASSUME NEW nr \in Nr
  PROVE  /\ nr \in {"read", "write"} => Handler[nr].ptrs = {6}
         /\ nr = "mmap" => Handler[nr].ptrs = {}
BY Calls DEF Kinds, Does

\* What two sequences put end to end hold.
LEMMA Joined ==
  ASSUME NEW S, NEW s \in Seq(S), NEW t \in Seq(S)
  PROVE  /\ s \o t \in Seq(S) /\ Len(s \o t) = Len(s) + Len(t)
         /\ \A i \in 1 .. Len(s) + Len(t) : (s \o t)[i] = IF i <= Len(s) THEN s[i] ELSE t[i - Len(s)]
<1>1. s \o t \in Seq(S)
  OBVIOUS
<1>2. Len(s \o t) = Len(s) + Len(t)
  OBVIOUS
<1>3. \A i \in 1 .. Len(s) + Len(t) : (s \o t)[i] = IF i <= Len(s) THEN s[i] ELSE t[i - Len(s)]
  OBVIOUS
<1> QED
  BY <1>1, <1>2, <1>3, Zenon

\* A sequence is the start of what it is extended to.
LEMMA ConcatStart ==
  ASSUME NEW S, NEW s \in Seq(S), NEW t \in Seq(S), NEW i \in 1 .. Len(s)
  PROVE  (s \o t)[i] = s[i]
<1>1. i \in 1 .. Len(s) + Len(t) /\ i <= Len(s)
  <2>1. Len(s) \in Nat /\ Len(t) \in Nat
    OBVIOUS
  <2> QED
    BY <2>1
<1> QED
  BY <1>1, Joined, Zenon

\* The words of the stack: the arguments as pushed, and again above the return
\* address as the wrapper's parameters.
LEMMA StackWords ==
  ASSUME NEW nr, NEW n \in Nat, NEW args \in [1 .. n -> Addr], NEW junk, NEW m
  PROVE  \A i \in 1 .. n : /\ Word(Made(nr, args, junk, m), i) = args[i]
                           /\ Word(Made(nr, args, junk, m), n + 1 + i) = args[i]
<1> DEFINE S == Addr \cup {nr, "return", junk}
           c == Made(nr, args, junk, m)
           frame == <<junk, junk, junk, junk>>
<1>1. /\ <<nr>> \in Seq(S) /\ Len(<<nr>>) = 1 /\ <<"return">> \in Seq(S) /\ Len(<<"return">>) = 1
      /\ frame \in Seq(S)
  OBVIOUS
<1>2. args \in Seq(S) /\ Len(args) = n
  OBVIOUS
<1> HIDE DEF S, frame
<1> DEFINE a == <<nr>> \o args
           b == a \o <<"return">>
           d == b \o args
<1>3. a \in Seq(S) /\ Len(a) = n + 1 /\ \A i \in 1 .. n : a[i + 1] = args[i]
  BY <1>1, <1>2, Joined
<1> HIDE DEF a
<1>4. b \in Seq(S) /\ Len(b) = n + 2 /\ \A i \in 1 .. n : b[i + 1] = args[i]
  BY <1>1, <1>3, Joined
<1> HIDE DEF b
<1>5. d \in Seq(S) /\ Len(d) = n + 2 + n /\ \A i \in 1 .. n : d[i + 1] = args[i] /\ d[n + 2 + i] = args[i]
  <2>1. /\ d \in Seq(S) /\ Len(d) = Len(b) + Len(args)
        /\ \A i \in 1 .. Len(b) + Len(args) : d[i] = IF i <= Len(b) THEN b[i] ELSE args[i - Len(b)]
    BY <1>2, <1>4, Joined, Zenon
  <2> HIDE DEF d
  <2>2. \A i \in 1 .. n : d[i + 1] = b[i + 1]
    BY <1>2, <1>4, <2>1
  <2>3. ASSUME NEW i \in 1 .. n PROVE d[n + 2 + i] = args[i]
    <3>1. n + 2 + i \in 1 .. Len(b) + Len(args) /\ ~(n + 2 + i <= Len(b)) /\ (n + 2 + i) - Len(b) = i
      BY <1>2, <1>4
    <3> DEFINE k == n + 2 + i
    <3> HIDE DEF k
    <3>2. d[k] = args[k - Len(b)]
      BY <2>1, <3>1, Zenon DEF k
    <3>3. k - Len(b) = i
      BY <3>1, Zenon DEF k
    <3> QED
      BY <3>2, <3>3, Zenon DEF k
  <2> QED
    BY <1>2, <1>4, <2>1, <2>2, <2>3, Zenon
<1> HIDE DEF d
<1>6. \A i \in 1 .. n : (d \o frame)[i + 1] = args[i] /\ (d \o frame)[n + 2 + i] = args[i]
  <2>1. \A i \in 1 .. Len(d) : (d \o frame)[i] = d[i]
    BY <1>1, <1>5, ConcatStart, Zenon
  <2>2. \A i \in 1 .. n : i + 1 \in 1 .. Len(d) /\ n + 2 + i \in 1 .. Len(d)
    <3>1. Len(d) = n + 2 + n
      BY <1>5, Zenon
    <3> QED
      BY <3>1
  <2> QED
    BY <1>5, <2>1, <2>2, Zenon
<1>7. Stack(c) = d \o frame
  BY Zenon DEF Stack, Made, a, b, d, frame
<1> HIDE DEF c
<1>8. \A i \in 1 .. n : Word(c, i) = (d \o frame)[i + 1] /\ Word(c, n + 1 + i) = (d \o frame)[n + 2 + i]
  <2>1. \A i \in 1 .. n : n + 1 + i + 1 = n + 2 + i
    OBVIOUS
  <2> QED
    BY <1>7, <2>1, Zenon DEF Word
<1> QED
  BY <1>6, <1>8, Zenon DEF c

\* How the words that are checked and fetched lie to the arguments.
Shape(nr, w, h) ==
  /\ Len(w) \in Nat /\ Len(w) <= 3 /\ DOMAIN h.args = 1 .. Len(w)
  /\ \A i \in 1 .. Len(w) : h.args[i] = i \/ h.args[i] = Len(w) + 1 + i
  /\ h.words \subseteq 1 .. Len(w) + 5
  /\ nr # "remove" => \A i \in h.ptrs : \E j \in 1 .. Len(w) : w[j] = Addr /\ h.args[j] = i
  /\ nr \in {"create", "open", "exec"} => 1 \in 1 .. Len(w) /\ h.args[1] \in h.ptrs
  /\ nr \in {"read", "write"} => Len(w) = 3 /\ h.args[2] = 6 /\ h.args[3] = 7

\* Every kind of call has that shape.
LEMMA HandlerShape ==
  ASSUME NEW nr, NEW w, NEW h, Kinds(nr, w, h)
  PROVE  Shape(nr, w, h)
<1>1. CASE nr = "halt" /\ w = <<>> /\ h = Does({}, {}, <<>>)
  BY <1>1 DEF Shape, Does
<1>2. CASE nr \in {"exit", "wait", "tell", "filesize", "close"} /\ w = <<Number>> /\ h = Does({1}, {}, <<1>>)
  BY <1>2 DEF Shape, Does
<1>3. CASE nr \in {"exec", "open"} /\ w = <<Addr>> /\ h = Does({1}, {1}, <<1>>)
  BY <1>3 DEF Shape, Does
<1>4. CASE nr = "remove" /\ w = <<Addr>> /\ h = Does({4}, {4}, <<1>>)
  BY <1>4 DEF Shape, Does
<1>5. CASE nr = "munmap" /\ w = <<Number>> /\ h = Does({}, {}, <<1>>)
  BY <1>5 DEF Shape, Does
<1>6. CASE nr = "create" /\ w = <<Addr, Number>> /\ h = Does({4, 5}, {4}, <<4, 5>>)
  BY <1>6 DEF Shape, Does
<1>7. CASE nr = "seek" /\ w = <<Number, Number>> /\ h = Does({4, 5}, {}, <<4, 5>>)
  BY <1>7 DEF Shape, Does
<1>8. CASE nr = "mmap" /\ w = <<Number, Addr>> /\ h = Does({}, {}, <<1, 2>>)
  BY <1>8 DEF Shape, Does
<1>9. CASE nr \in {"read", "write"} /\ w = <<Number, Addr, Addr>> /\ h = Does({5, 6, 7}, {6}, <<5, 6, 7>>)
  BY <1>9 DEF Shape, Does
<1> QED
  BY <1>1, <1>2, <1>3, <1>4, <1>5, <1>6, <1>7, <1>8, <1>9, Zenon DEF Kinds

\* syscall_handler fetches what the program passed.
LEMMA Fetched ==
  ASSUME NEW nr \in Nr, NEW args \in Args(nr), NEW junk, NEW m
  PROVE  /\ \A i \in 1 .. Len(Wrapper[nr]) : Word(Made(nr, args, junk, m), Handler[nr].args[i]) = args[i]
         /\ [i \in DOMAIN Handler[nr].args |-> Word(Made(nr, args, junk, m), Handler[nr].args[i])] = args
<1> DEFINE n == Len(Wrapper[nr])
           g == Handler[nr].args
           c == Made(nr, args, junk, m)
<1>1. n \in Nat /\ DOMAIN g = 1 .. n /\ \A i \in 1 .. n : g[i] = i \/ g[i] = n + 1 + i
  <2>1. Shape(nr, Wrapper[nr], Handler[nr])
    BY Calls, HandlerShape, Zenon
  <2> QED
    BY <2>1, Zenon DEF Shape
<1>2. args \in [1 .. n -> Addr]
  BY Zenon DEF Args
<1> HIDE DEF n, g
<1>3. \A i \in 1 .. n : Word(c, i) = args[i] /\ Word(c, n + 1 + i) = args[i]
  BY <1>1, <1>2, StackWords
<1> HIDE DEF c
<1>4. \A i \in 1 .. n : Word(c, g[i]) = args[i]
  BY <1>1, <1>3, Zenon
<1>5. [i \in DOMAIN g |-> Word(c, g[i])] = args
  BY <1>1, <1>2, <1>4, Zenon
<1> QED
  BY <1>4, <1>5, Zenon DEF g, c, n

-----------------------------------------------------------------------------
(* Buffers.                                                                *)

\* Sums of addresses wrap at most once.
LEMMA PlusIs ==
  ASSUME NEW x \in Addr, NEW y \in 0 .. AddrCnt
  PROVE  Plus(x, y) \in Addr /\ Plus(x, y) = IF x + y < AddrCnt THEN x + y ELSE x + y - AddrCnt
<1>1. AddrCnt \in Nat \ {0}
  BY VaddrAssumption DEF Addr
<1>2. \A a \in Nat : a < AddrCnt => a % AddrCnt = a
  BY <1>1
<1>3. \A a \in Nat : AddrCnt <= a /\ a < 2 * AddrCnt => a % AddrCnt = a - AddrCnt
  BY <1>1
<1> QED
  BY <1>1, <1>2, <1>3 DEF Plus, Addr

\* Going on from a sum.
LEMMA PlusTwice ==
  ASSUME NEW b \in Addr, NEW y \in Nat, NEW z \in Nat, y + z <= AddrCnt
  PROVE  Plus(Plus(b, y), z) = Plus(b, y + z)
<1>1. AddrCnt \in Nat \ {0} /\ b \in 0 .. AddrCnt - 1
  BY VaddrAssumption DEF Addr
<1>2. y \in 0 .. AddrCnt /\ y + z \in 0 .. AddrCnt /\ z \in 0 .. AddrCnt
  BY <1>1
<1>3. Plus(b, y) \in Addr /\ Plus(b, y) = IF b + y < AddrCnt THEN b + y ELSE b + y - AddrCnt
  BY <1>2, PlusIs, Zenon
<1> DEFINE w == y + z
           e == Plus(b, y)
<1>4. Plus(b, w) = IF b + w < AddrCnt THEN b + w ELSE b + w - AddrCnt
  BY <1>2, PlusIs, Zenon
<1>5. Plus(e, z) = IF e + z < AddrCnt THEN e + z ELSE e + z - AddrCnt
  BY <1>2, <1>3, PlusIs, Zenon
<1> QED
  BY <1>1, <1>2, <1>3, <1>4, <1>5

\* The last byte of a buffer, as the code computes it.
LEMMA LastByte ==
  ASSUME NEW b \in Addr, NEW s \in Addr, s > 0
  PROVE  Plus(Plus(b, s), AddrCnt - 1) = Plus(b, s - 1)
<1>1. AddrCnt \in Nat \ {0} /\ b \in 0 .. AddrCnt - 1 /\ s \in 1 .. AddrCnt - 1
  BY VaddrAssumption DEF Addr
<1>2. s \in 0 .. AddrCnt /\ s - 1 \in 0 .. AddrCnt /\ AddrCnt - 1 \in 0 .. AddrCnt
  BY <1>1
<1>3. Plus(b, s) \in Addr /\ Plus(b, s) = IF b + s < AddrCnt THEN b + s ELSE b + s - AddrCnt
  BY <1>2, PlusIs, Zenon
<1>4. Plus(b, s - 1) = IF b + (s - 1) < AddrCnt THEN b + (s - 1) ELSE b + (s - 1) - AddrCnt
  BY <1>2, PlusIs, Zenon
<1> DEFINE e == Plus(b, s)
<1>5. Plus(e, AddrCnt - 1) = IF e + (AddrCnt - 1) < AddrCnt THEN e + (AddrCnt - 1) ELSE e + (AddrCnt - 1) - AddrCnt
  BY <1>2, <1>3, PlusIs, Zenon
<1> QED
  BY <1>1, <1>3, <1>4, <1>5

\* A buffer shorter than the address space: its bytes are those before its end.
LEMMA BytesAre ==
  ASSUME NEW b \in Addr, NEW s \in Addr
  PROVE  Bytes(b, s) = {Plus(b, i) : i \in 0 .. s - 1}
<1>1. AddrCnt \in Nat \ {0} /\ b \in 0 .. AddrCnt - 1 /\ s \in 0 .. AddrCnt - 1
  BY VaddrAssumption DEF Addr
<1>2. ASSUME NEW i \in 0 .. s - 1 PROVE Plus(b, i) # Plus(b, s)
  <2>1. i \in 0 .. AddrCnt /\ s \in 0 .. AddrCnt
    BY <1>1
  <2>2. Plus(b, i) = IF b + i < AddrCnt THEN b + i ELSE b + i - AddrCnt
    BY <2>1, PlusIs, Zenon
  <2>3. Plus(b, s) = IF b + s < AddrCnt THEN b + s ELSE b + s - AddrCnt
    BY <2>1, PlusIs, Zenon
  <2> QED
    BY <1>1, <2>2, <2>3
<1>3. \A i \in 0 .. s : i \in 0 .. s - 1 \/ i = s
  BY <1>1
<1>4. \A i \in 0 .. s - 1 : i \in 0 .. s
  BY <1>1
<1>5. ASSUME NEW x PROVE x \in Bytes(b, s) <=> \E i \in 0 .. s - 1 : x = Plus(b, i)
  BY <1>2, <1>3, <1>4, Zenon DEF Bytes
<1> QED
  BY <1>5, Zenon

\* The bytes from the beginning of a page to the next one are those of the page.
LEMMA PageBytes ==
  ASSUME NEW S \in Nat \ {0}, NEW q \in Nat, NEW b \in Nat
  PROVE  b \div S = q <=> q * S <= b /\ b < q * S + S
PROOF
<1> QED
  BY SMT

\* An address between two valid ones less than a page apart is valid.
LEMMA Between ==
  ASSUME NEW x \in Addr, is_valid_ptr(x), NEW d \in 0 .. PGSIZE, is_valid_ptr(Plus(x, d)), NEW r \in 0 .. d
  PROVE  is_valid_ptr(Plus(x, r))
<1>1. /\ AddrCnt \in Nat /\ PHYS_BASE \in Nat /\ PGSIZE \in Nat \ {0} /\ PHYS_BASE + PGSIZE <= AddrCnt
      /\ x \in 0 .. AddrCnt - 1 /\ x # 0 /\ x < PHYS_BASE /\ x \div PGSIZE \in Mapped
  BY VaddrAssumption, Zenon DEF Addr, is_valid_ptr, is_user_vaddr
<1>2. d \in 0 .. AddrCnt /\ r \in 0 .. AddrCnt
  BY <1>1
<1>3. Plus(x, d) = x + d /\ Plus(x, r) = x + r
  <2>1. x + d < AddrCnt /\ x + r < AddrCnt
    BY <1>1
  <2>2. Plus(x, d) = IF x + d < AddrCnt THEN x + d ELSE x + d - AddrCnt
    BY <1>2, PlusIs, Zenon
  <2>3. Plus(x, r) = IF x + r < AddrCnt THEN x + r ELSE x + r - AddrCnt
    BY <1>2, PlusIs, Zenon
  <2> QED
    BY <2>1, <2>2, <2>3, Zenon
<1>4. x + d < PHYS_BASE /\ (x + d) \div PGSIZE \in Mapped
  BY <1>3, Zenon DEF is_valid_ptr, is_user_vaddr
<1>5. (x + r) \div PGSIZE = x \div PGSIZE \/ (x + r) \div PGSIZE = (x + d) \div PGSIZE
  <2> DEFINE q == x \div PGSIZE
  <2>1. q \in Nat /\ q + 1 \in Nat /\ x \in Nat /\ x + r \in Nat /\ x + d \in Nat
    BY <1>1
  <2>2. q * PGSIZE <= x /\ x < q * PGSIZE + PGSIZE
    BY <1>1, <2>1, PageBytes, Zenon
  <2> DEFINE base == q * PGSIZE
  <2>3. base \in Nat /\ (q + 1) * PGSIZE = base + PGSIZE
    BY <1>1, <2>1
  <2>4. CASE x + r < base + PGSIZE
    <3>1. base <= x + r
      BY <2>1, <2>2, <2>3
    <3> QED
      BY <1>1, <2>1, <2>4, <3>1, PageBytes, Zenon
  <2>5. CASE base + PGSIZE <= x + r
    <3> HIDE DEF base
    <3>1. base + PGSIZE <= x + d /\ x + r < base + PGSIZE + PGSIZE /\ x + d < base + PGSIZE + PGSIZE
      BY <1>1, <2>1, <2>2, <2>3, <2>5 DEF base
    <3>2. (x + r) \div PGSIZE = q + 1 /\ (x + d) \div PGSIZE = q + 1
      <4> DEFINE q1 == q + 1
      <4>1. /\ q1 * PGSIZE <= x + r /\ x + r < q1 * PGSIZE + PGSIZE
            /\ q1 * PGSIZE <= x + d /\ x + d < q1 * PGSIZE + PGSIZE
        BY <2>3, <2>5, <3>1, Zenon
      <4>2. q1 \in Nat
        BY <2>1, Zenon
      <4> HIDE DEF q1
      <4>3. (x + r) \div PGSIZE = q1 /\ (x + d) \div PGSIZE = q1
        BY <1>1, <2>1, <4>1, <4>2, PageBytes, Zenon
      <4> QED
        BY <4>3, Zenon DEF q1
    <3> QED
      BY <3>2, Zenon
  <2> QED
    BY <1>1, <2>1, <2>3, <2>4, <2>5
<1>6. x + r # 0 /\ x + r < PHYS_BASE
  BY <1>1, <1>4
<1> QED
  BY <1>1, <1>3, <1>4, <1>5, <1>6, Zenon DEF is_valid_ptr, is_user_vaddr

\* sys_write's walk: if the first byte of each page's worth of the buffer and
\* its last byte are valid, so are all its bytes.
LEMMA WalkCovers ==
  ASSUME NEW b \in Addr, NEW s \in Addr, \A p \in Visited(b, s) : is_valid_ptr(p)
  PROVE  \A p \in Bytes(b, s) : is_valid_ptr(p)
<1>1. /\ AddrCnt \in Nat \ {0} /\ PGSIZE \in Nat \ {0} /\ PGSIZE <= AddrCnt
      /\ b \in 0 .. AddrCnt - 1 /\ s \in 0 .. AddrCnt - 1
  BY VaddrAssumption DEF Addr
<1> SUFFICES ASSUME NEW i \in 0 .. s - 1 PROVE is_valid_ptr(Plus(b, i))
  BY BytesAre
<1>2. s > 0 /\ i \in Nat /\ i < s
  BY <1>1
<1> DEFINE q == i \div PGSIZE
           x == Plus(b, q * PGSIZE)
           r == i - q * PGSIZE
           d == IF (q + 1) * PGSIZE < s THEN PGSIZE ELSE s - 1 - q * PGSIZE
<1>3. q \in 0 .. s /\ q * PGSIZE \in Nat /\ q * PGSIZE <= i /\ i < q * PGSIZE + PGSIZE /\ (q + 1) * PGSIZE = q * PGSIZE + PGSIZE
  <2>1. q \in Nat
    BY <1>1, <1>2
  <2>2. q * PGSIZE <= i /\ i < q * PGSIZE + PGSIZE
    BY <1>1, <1>2, <2>1, PageBytes, Zenon
  <2>3. q * PGSIZE \in Nat /\ (q + 1) * PGSIZE = q * PGSIZE + PGSIZE /\ q <= q * PGSIZE
    BY <1>1, <2>1
  <2> QED
    BY <1>1, <1>2, <2>1, <2>2, <2>3
<1> DEFINE m == q * PGSIZE
           m1 == (q + 1) * PGSIZE
<1>4. is_valid_ptr(Plus(b, m))
  <2>1. q \in 0 .. s /\ q * PGSIZE < s
    BY <1>1, <1>2, <1>3
  <2> QED
    BY <2>1, Zenon DEF Visited
<1>5. is_valid_ptr(Plus(b, s - 1))
  <2>1. s # 0 /\ Plus(Plus(b, s), AddrCnt - 1) = Plus(b, s - 1)
    BY <1>2, LastByte
  <2> QED
    BY <2>1, Zenon DEF Visited
<1>6. m1 < s => is_valid_ptr(Plus(b, m1))
  <2> SUFFICES ASSUME m1 < s PROVE is_valid_ptr(Plus(b, m1))
    BY Zenon
  <2>1. q + 1 \in 0 .. s
    <3>1. q + 1 <= m1
      BY <1>1, <1>3
    <3> QED
      BY <1>1, <1>3, <3>1
  <2> QED
    BY <2>1, Zenon DEF Visited
<1> HIDE DEF q
<1>7. m \in 0 .. AddrCnt /\ d \in 0 .. PGSIZE /\ r \in 0 .. d /\ m + d \in 0 .. AddrCnt /\ m + r = i /\ i \in 0 .. AddrCnt
  BY <1>1, <1>2, <1>3
<1>8. x \in Addr /\ Plus(x, d) = Plus(b, m + d) /\ Plus(x, r) = Plus(b, m + r)
  BY <1>1, <1>7, PlusTwice, PlusIs
<1>9. is_valid_ptr(Plus(x, d))
  <2>1. CASE m1 < s
    <3>1. m + d = m1
      BY <1>3, <2>1, Zenon
    <3> QED
      BY <1>6, <1>8, <2>1, <3>1, Zenon
  <2>2. CASE ~(m1 < s)
    <3>1. m + d = s - 1
      BY <1>1, <1>3, <2>2
    <3> QED
      BY <1>5, <1>8, <3>1, Zenon
  <2> QED
    BY <2>1, <2>2, Zenon
<1> QED
  BY <1>4, <1>7, <1>8, <1>9, Between, Zenon

-----------------------------------------------------------------------------
(* The handler.                                                            *)

\* The handler turns the call down; it reads a word that is not there.
Refused(nr, args, c) ==
  \/ c.mapped = 0
  \/ \E i \in Handler[nr].words : i >= c.mapped
  \/ \E i \in Handler[nr].ptrs : ~is_valid_ptr(Word(c, i))
  \/ nr \in {"read", "write"} /\ ~EndsValid(Word(c, 6), Word(c, 7))
  \/ nr = "write" /\ \E p \in Visited(args[2], args[3]) : ~is_valid_ptr(p)
Missing(nr, c) == \E i \in DOMAIN Handler[nr].args : Handler[nr].args[i] >= c.mapped

\* What becomes of a call, in terms of its arguments.
LEMMA OutcomeIs ==
  ASSUME NEW nr \in Nr, NEW args \in Args(nr), NEW junk, NEW m
  PROVE  LET c == Made(nr, args, junk, m)
         IN Outcome(c) = IF Refused(nr, args, c) THEN [what |-> "exit", args |-> <<>>]
                         ELSE IF Missing(nr, c) THEN [what |-> "fault", args |-> <<>>]
                         ELSE [what |-> "call", args |-> args]
<1> DEFINE c == Made(nr, args, junk, m)
<1>1. c.nr = nr
  BY Zenon DEF Made
<1>2. [i \in DOMAIN Handler[nr].args |-> Word(c, Handler[nr].args[i])] = args
  BY Fetched
<1> HIDE DEF c
<1>3. (\E i \in {Handler[nr].args[j] : j \in DOMAIN Handler[nr].args} : i >= c.mapped) <=> Missing(nr, c)
  BY Zenon DEF Missing
<1>4. Refused(nr, args, c) <=>
        \/ c.mapped = 0
        \/ \E i \in Handler[c.nr].words : i >= c.mapped
        \/ \E i \in Handler[c.nr].ptrs : ~is_valid_ptr(Word(c, i))
        \/ c.nr \in {"read", "write"} /\ ~EndsValid(Word(c, 6), Word(c, 7))
        \/ c.nr = "write" /\ \E p \in Visited(args[2], args[3]) : ~is_valid_ptr(p)
  BY <1>1, Zenon DEF Refused
<1>5. Outcome(c) = IF Refused(nr, args, c) THEN [what |-> "exit", args |-> <<>>]
                   ELSE IF Missing(nr, c) THEN [what |-> "fault", args |-> <<>>]
                   ELSE [what |-> "call", args |-> args]
  BY <1>1, <1>2, <1>3, <1>4, Zenon DEF Outcome
<1> QED
  BY <1>5, Zenon DEF c

\* What the handler needs to know of the arguments.
LEMMA ArgumentWords ==
  ASSUME NEW nr \in Nr, NEW args \in Args(nr), NEW junk, NEW m, NEW c, c = Made(nr, args, junk, m)
  PROVE  /\ Len(args) = Len(Wrapper[nr]) /\ DOMAIN args = 1 .. Len(args) /\ Len(args) \in Nat
         /\ \A i \in DOMAIN args : args[i] \in Addr
         /\ nr # "remove" => \A i \in Handler[nr].ptrs :
                               \E j \in DOMAIN args : Wrapper[nr][j] = Addr /\ Word(c, i) = args[j]
         /\ nr \in {"create", "open", "exec"} => \E i \in Handler[nr].ptrs : Word(c, i) = args[1]
         /\ nr \in {"read", "write"} => Word(c, 6) = args[2] /\ Word(c, 7) = args[3] /\ DOMAIN args = 1 .. 3
<1> DEFINE w == Wrapper[nr]
           h == Handler[nr]
<1>1. Shape(nr, w, h)
  BY Calls, HandlerShape, Zenon
<1>2. args \in [1 .. Len(w) -> Addr]
  BY Zenon DEF Args
<1>3. \A i \in 1 .. Len(w) : Word(c, h.args[i]) = args[i]
  BY Fetched
<1> HIDE DEF w, h
<1>4. Len(w) \in Nat
  BY <1>1, Zenon DEF Shape
<1>5. Len(args) = Len(w) /\ DOMAIN args = 1 .. Len(w) /\ \A i \in DOMAIN args : args[i] \in Addr
  <2> DEFINE n == Len(w)
  <2>1. n \in Nat /\ args \in [1 .. n -> Addr]
    BY <1>2, <1>4, Zenon
  <2> HIDE DEF n
  <2>2. args \in Seq(Addr) /\ Len(args) = n /\ DOMAIN args = 1 .. n
    BY <2>1
  <2>3. \A i \in DOMAIN args : args[i] \in Addr
    BY <2>1, Zenon
  <2> QED
    BY <2>2, <2>3, Zenon DEF n
<1>6. nr # "remove" => \A i \in h.ptrs : \E j \in DOMAIN args : w[j] = Addr /\ Word(c, i) = args[j]
  <2>1. nr # "remove" => \A i \in h.ptrs : \E j \in 1 .. Len(w) : w[j] = Addr /\ h.args[j] = i
    BY <1>1, Zenon DEF Shape
  <2> QED
    BY <1>3, <1>5, <2>1
<1>7. nr \in {"create", "open", "exec"} => \E i \in h.ptrs : Word(c, i) = args[1]
  BY <1>1, <1>3, Zenon DEF Shape
<1>8. nr \in {"read", "write"} => Word(c, 6) = args[2] /\ Word(c, 7) = args[3] /\ DOMAIN args = 1 .. 3
  <2> SUFFICES ASSUME nr \in {"read", "write"} PROVE Word(c, 6) = args[2] /\ Word(c, 7) = args[3] /\ DOMAIN args = 1 .. 3
    BY Zenon
  <2>1. Len(w) = 3 /\ h.args[2] = 6 /\ h.args[3] = 7
    BY <1>1, Zenon DEF Shape
  <2>2. 2 \in 1 .. Len(w) /\ 3 \in 1 .. Len(w)
    BY <2>1
  <2> QED
    BY <1>3, <1>5, <2>1, <2>2, Zenon
<1> QED
  BY <1>4, <1>5, <1>6, <1>7, <1>8, Zenon DEF w, h

\* A call made by Int30 and answered by the handler.
LEMMA MadeArrives ==
  ASSUME NEW nr \in Nr, NEW args \in Args(nr), NEW junk, NEW m \in Nat,
         syscall = Made(nr, args, junk, m), result = Outcome(syscall)
  PROVE  CallsArrive
<1> DEFINE c == syscall
<1>1. c.nr = nr /\ c.args = args /\ c.mapped = m
  BY Zenon DEF Made
<1>2. result = IF Refused(nr, args, c) THEN [what |-> "exit", args |-> <<>>]
               ELSE IF Missing(nr, c) THEN [what |-> "fault", args |-> <<>>]
               ELSE [what |-> "call", args |-> args]
  <2>1. LET d == Made(nr, args, junk, m)
        IN Outcome(d) = IF Refused(nr, args, d) THEN [what |-> "exit", args |-> <<>>]
                        ELSE IF Missing(nr, d) THEN [what |-> "fault", args |-> <<>>]
                        ELSE [what |-> "call", args |-> args]
    BY OutcomeIs, ZenonT(40)
  <2>2. result = Outcome(c) /\ c = Made(nr, args, junk, m)
    BY Zenon
  <2> QED
    BY <2>1, <2>2, Zenon
<1>3. /\ Len(args) = Len(Wrapper[nr]) /\ DOMAIN args = 1 .. Len(args) /\ Len(args) \in Nat
      /\ \A i \in DOMAIN args : args[i] \in Addr
      /\ nr # "remove" => \A i \in Handler[nr].ptrs :
                            \E j \in DOMAIN args : Wrapper[nr][j] = Addr /\ Word(c, i) = args[j]
      /\ nr \in {"create", "open", "exec"} => \E i \in Handler[nr].ptrs : Word(c, i) = args[1]
      /\ nr \in {"read", "write"} => Word(c, 6) = args[2] /\ Word(c, 7) = args[3] /\ DOMAIN args = 1 .. 3
  BY ArgumentWords
<1>4. nr \in {"read", "write"} => args[2] \in Addr /\ args[3] \in Addr
  BY <1>3
<1>5. ASSUME WholeStack(c), nr # "remove",
             IF nr \in {"read", "write"}
             THEN args[3] > 0 /\ args[3] < AddrCnt - PHYS_BASE
                  /\ \A b \in Bytes(args[2], args[3]) : is_valid_ptr(b)
             ELSE nr = "mmap" \/ \A p \in Pointers(c) : is_valid_ptr(p)
      PROVE  result = [what |-> "call", args |-> args]
  <2>1. m = Len(args) + 6
    BY <1>1, <1>5, Zenon DEF WholeStack
  <2>2. Shape(nr, Wrapper[nr], Handler[nr])
    BY Calls, HandlerShape, Zenon
  <2>3. ~Missing(nr, c)
    <3> DEFINE n == Len(Wrapper[nr])
               g == Handler[nr].args
    <3>1. n \in Nat /\ DOMAIN g = 1 .. n /\ \A i \in 1 .. n : g[i] = i \/ g[i] = n + 1 + i
      BY <2>2, Zenon DEF Shape
    <3>2. m = n + 6
      BY <1>3, <2>1, Zenon
    <3> HIDE DEF n, g
    <3>3. n <= 3
      BY <2>2, Zenon DEF Shape, n
    <3>4. \A i \in 1 .. n : i < m /\ n + 1 + i < m
      BY <3>1, <3>2, <3>3
    <3>5. \A i \in 1 .. n : ~(g[i] >= m)
      BY <3>1, <3>2, <3>4, SMTT(30)
    <3> QED
      BY <1>1, <3>1, <3>5, Zenon DEF Missing, g
  <2>4. m # 0 /\ ~\E i \in Handler[nr].words : i >= m
    BY <1>3, <2>1, <2>2 DEF Shape
  <2>5. CASE nr \in {"read", "write"}
    <3>1. \A i \in 0 .. args[3] - 1 : is_valid_ptr(Plus(args[2], i))
      BY <1>4, <1>5, <2>5, BytesAre, Zenon
    <3>a. AddrCnt \in Nat /\ args[2] \in 0 .. AddrCnt - 1 /\ args[3] \in 1 .. AddrCnt - 1 /\ PGSIZE \in Nat \ {0}
      BY <1>4, <1>5, <2>5, VaddrAssumption DEF Addr
    <3>2. Plus(args[2], 0) = args[2]
      <4>1. args[2] \in Addr /\ 0 \in 0 .. AddrCnt
        BY <3>a DEF Addr
      <4>2. Plus(args[2], 0) = IF args[2] + 0 < AddrCnt THEN args[2] + 0 ELSE args[2] + 0 - AddrCnt
        BY <4>1, PlusIs, Zenon
      <4> QED
        BY <4>2, <3>a
    <3>3. Plus(Plus(args[2], args[3]), AddrCnt - 1) = Plus(args[2], args[3] - 1)
      BY <1>4, <1>5, <2>5, LastByte, Zenon
    <3>4. EndsValid(args[2], args[3])
      BY <3>1, <3>2, <3>3, <3>a DEF EndsValid
    <3>5. ASSUME NEW p \in Visited(args[2], args[3]) PROVE is_valid_ptr(p)
      <4>1. CASE p = Plus(Plus(args[2], args[3]), AddrCnt - 1)
        BY <3>1, <3>3, <3>a, <4>1
      <4>2. CASE \E k \in 0 .. args[3] : (k = 0 \/ k * PGSIZE < args[3]) /\ p = Plus(args[2], k * PGSIZE)
        <5>1. PICK k \in 0 .. args[3] : (k = 0 \/ k * PGSIZE < args[3]) /\ p = Plus(args[2], k * PGSIZE)
          BY <4>2, Zenon
        <5>2. k * PGSIZE \in 0 .. args[3] - 1
          BY <3>a, <5>1
        <5> QED
          BY <3>1, <5>1, <5>2, Zenon
      <4> QED
        BY <3>5, <3>a, <4>1, <4>2, Zenon DEF Visited
    <3>6. \A i \in Handler[nr].ptrs : is_valid_ptr(Word(c, i))
      BY <2>5, <3>4, HandlerPtrs, <1>3, Zenon DEF EndsValid
    <3> QED
      BY <1>1, <1>2, <1>3, <2>3, <2>4, <2>5, <3>4, <3>5, <3>6, Zenon DEF Refused
  <2>6. CASE nr \notin {"read", "write"}
    <3>1. \A i \in Handler[nr].ptrs : is_valid_ptr(Word(c, i))
      <4>1. CASE nr = "mmap"
        BY <4>1, HandlerPtrs, Zenon
      <4>2. CASE nr # "mmap"
        <5>1. \A p \in Pointers(c) : is_valid_ptr(p)
          BY <1>5, <2>6, <4>2, Zenon
        <5>2. \A j \in DOMAIN args : Wrapper[nr][j] = Addr => args[j] \in Pointers(c)
          BY <1>1, Zenon DEF Pointers
        <5> QED
          BY <1>3, <1>5, <5>1, <5>2, Zenon
      <4> QED
        BY <4>1, <4>2, Zenon
    <3> QED
      BY <1>1, <1>2, <2>3, <2>4, <2>6, <3>1, Zenon DEF Refused
  <2> QED
    BY <2>5, <2>6, Zenon
<1>6. ArgsIntact /\ ArgsArrive
  <2>1. result.what = "call" => result.args = args
    BY <1>2
  <2>2. [what |-> "call", args |-> args].what = "call"
    BY Zenon
  <2> QED
    BY <1>1, <1>5, <2>1, <2>2, Zenon DEF ArgsIntact, ArgsArrive
<1>7. BadPointersRejected
  <2> SUFFICES ASSUME result.what = "call" PROVE BadPointersRejected
    BY Zenon DEF BadPointersRejected
  <2>1. ~Refused(nr, args, c) /\ result = [what |-> "call", args |-> args]
    BY <1>2
  <2>2. nr \in {"create", "open", "exec"} => is_valid_ptr(args[1])
    BY <1>3, <2>1, Zenon DEF Refused
  <2>3. nr = "write" => \A p \in Visited(args[2], args[3]) : is_valid_ptr(p)
    BY <2>1, Zenon DEF Refused
  <2>4. nr = "write" => \A b \in Bytes(args[2], args[3]) : is_valid_ptr(b)
    BY <1>4, <2>3, WalkCovers, Zenon
  <2>5. nr = "read" => EndsValid(args[2], args[3])
    BY <1>3, <2>1, Zenon DEF Refused
  <2>6. result.args = args
    BY <2>1
  <2> QED
    BY <1>1, <2>2, <2>4, <2>5, <2>6, Zenon DEF BadPointersRejected
<1> QED
  BY <1>6, <1>7, Zenon DEF CallsArrive

\* Between calls there is nothing, and during one the handler's answer to it.
SyscallsInv ==
  \/ syscall = NoCall /\ result = [what |-> "none", args |-> <<>>]
  \/ \E nr \in Nr : \E args \in Args(nr), junk \in Number, m \in Nat :
       syscall = Made(nr, args, junk, m) /\ result = Outcome(syscall)

\* syscall_handler and sys_write: every call that reaches its implementation
\* has exactly the arguments the program passed, a valid one reaches it, and
\* none but remove goes on with an invalid pointer, for any sizes of pages and
\* of the address space.
THEOREM CallsCorrect == SyscallsSpec => []CallsArrive
<1>1. SyscallsInit => SyscallsInv
  BY Zenon DEF SyscallsInit, SyscallsInv
<1>2. SyscallsInv /\ [SyscallsNext]_syscallVars => SyscallsInv'
  <2> SUFFICES ASSUME SyscallsInv, [SyscallsNext]_syscallVars PROVE SyscallsInv'
    OBVIOUS
  <2>1. CASE ReturnToUser
    BY <2>1, Zenon DEF ReturnToUser, SyscallsInv
  <2>2. ASSUME NEW nr \in Nr, Int30(nr) PROVE SyscallsInv'
    <3>1. PICK args \in Args(nr), junk \in Number, m \in 0 .. Len(Wrapper[nr]) + 6 :
            /\ syscall' = [nr |-> nr, args |-> args, frame |-> <<junk, junk, junk, junk>>, mapped |-> m]
            /\ result' = Outcome(syscall')
      BY <2>2, Zenon DEF Int30
    <3>2. m \in Nat
      BY Calls, HandlerShape DEF Shape
    <3>3. syscall' = Made(nr, args, junk, m)
      BY <3>1, Zenon DEF Made
    <3> QED
      BY <3>1, <3>2, <3>3, Zenon DEF SyscallsInv
  <2>3. CASE UNCHANGED syscallVars
    BY <2>3, Zenon DEF SyscallsInv, syscallVars
  <2> QED
    BY <2>1, <2>2, <2>3, Zenon DEF SyscallsNext
<1>3. SyscallsInv => CallsArrive
  <2>1. CASE syscall = NoCall /\ result = [what |-> "none", args |-> <<>>]
    <3>1. ~WholeStack(syscall) /\ result.what # "call"
      BY <2>1, Zenon DEF WholeStack, NoCall
    <3> QED
      BY <3>1, Zenon DEF CallsArrive, ArgsIntact, ArgsArrive, BadPointersRejected
  <2> QED
    BY <2>1, MadeArrives, Zenon DEF SyscallsInv
<1> QED
  BY <1>1, <1>2, <1>3, PTL DEF SyscallsSpec
=============================================================================
