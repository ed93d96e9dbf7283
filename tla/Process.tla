------------------------------ MODULE Process ------------------------------
(***************************************************************************)
(* How processes start, wait for each other and die: process_execute,      *)
(* start_process, process_wait and process_exit (userprog/process.c),      *)
(* sys_exec and sys_exit (userprog/syscall.c), exit and kill               *)
(* (userprog/exception.c), thread_exit and thread_get_by_id                *)
(* (threads/thread.c).                                                     *)
(*                                                                         *)
(* A process is named by its tid; allocate_tid() never hands one out       *)
(* twice.  Each process has one lock, child_lock, one condition,           *)
(* child_condition, and one word, child_load, that all its children share. *)
(* The lock and the condition are those of module Monitor, which module    *)
(* Synch implements.  Any live process may take the next step: the         *)
(* scheduler can preempt it between any two of the actions below.          *)
(***************************************************************************)
EXTENDS Integers, Sequences, FiniteSets, TLC, Kernel

CONSTANTS
  Proc,           \* the processes that may ever exist
  main,           \* the kernel's main thread, which runs the first programs
  Status,         \* arguments of exit()
  CreateMayFail,  \* BOOLEAN: there may be no page for a new thread
  MaxCalls        \* bound: calls of sys_exec and process_wait by each process

ASSUME ProcessAssumption ==
  /\ main \in Proc /\ NULL \notin Proc
  /\ Status \subseteq Int
  /\ CreateMayFail \in BOOLEAN
  /\ MaxCalls \in Nat

\* The processes other than main are interchangeable.
Symmetry == Permutations(Proc \ {main})

VARIABLES
  life,           \* life[p]: "unborn", "alive" (on all_list, not dying), "dead"
  parent,         \* parent[p]: p->parent_tid
  pc,             \* pc[p]: where p stands in its kernel code
  target,         \* target[p]: the child p is starting or waiting for
  calls,          \* calls[p]: sys_exec and process_wait calls made so far
  child_load,     \* child_load[p]: 0 loading, 1 loaded, -1 failed
  child,          \* child[p]: p's child_status record in its parent's list
  loaded,         \* loaded[p]: load() succeeded
  exit_arg,       \* exit_arg[p]: what p passed to exit(), -1 until it does
  ret,            \* ret[p]: p's last call of sys_exec or process_wait once it has
                  \* returned, its child, and its result: -1, or the status (0 for an id)
  alone,          \* alone[p]: when p last called sys_exec it had no live child
  reaped,         \* reaped[c]: how often process_wait returned c's status
  stale,          \* the processes that used memory of a destroyed parent
  owner, waitq, woken   \* the monitors, one per process

mon_vars == <<owner, waitq, woken>>
rets == <<ret, alone, reaped, stale>>
data_vars == <<target, calls, child_load, child, loaded, exit_arg, rets>>
vars == <<life, parent, pc, data_vars, mon_vars>>

M == INSTANCE Monitor WITH
       Thread <- Proc, Lock <- Proc, Cond <- Proc, lock_of <- [p \in Proc |-> p]

-----------------------------------------------------------------------------
\* A fresh child_status record, and its absence from the list.
NewRecord == [listed |-> TRUE, exited |-> FALSE, waited |-> FALSE, status |-> 0]
NoRecord == [NewRecord EXCEPT !.listed = FALSE]

Result(call, c, r) == [call |-> call, child |-> c, result |-> r]
NoResult == Result("none", NULL, -1)

\* thread_get_by_id(p) finds p.
thread_get_by_id(p) == p # NULL /\ life[p] = "alive"

\* p goes from label `from' to label `to', neither being born nor dying.
Step(p, from, to) ==
  /\ life[p] = "alive" /\ pc[p] = from
  /\ pc' = [pc EXCEPT ![p] = to]
  /\ UNCHANGED <<life, parent>>

\* lock_acquire, lock_release, cond_wait before and after it sleeps, on the
\* monitor of q.
Locks(p, q) == M!Acquire(p, q) /\ UNCHANGED data_vars
Unlocks(p, q) == M!Release(p, q)
Sleeps(p) == M!Wait(p, p) /\ UNCHANGED data_vars
Wakes(p) == M!Reacquire(p, p) /\ UNCHANGED data_vars

\* cond_signal(&q->child_condition): with nobody waiting it does nothing.
cond_signal(p, q) ==
  IF waitq[q] = <<>> THEN UNCHANGED mon_vars ELSE M!Signal(p, q)

\* p's pointer to its parent points to a page that is still a thread's.
ParentInMemory(p) == life[parent[p]] = "alive"

\* p takes the child_lock of its parent, found alive a while ago.  If the
\* parent's page is gone, what follows is undefined.
LocksParent(p, from, to) ==
  /\ Step(p, from, to)
  /\ \/ ParentInMemory(p) /\ Locks(p, parent[p])
     \/ /\ ~ParentInMemory(p)
        /\ stale' = stale \cup {p}
        /\ UNCHANGED <<target, calls, child_load, child, loaded, exit_arg, ret, alone, reaped,
                       mon_vars>>

\* Bound: nobody starts a process when Proc would not be large enough.
RoomForChild ==
  Cardinality({c \in Proc : life[c] = "unborn"}) >
  Cardinality({p \in Proc : pc[p] = "exec_create"})

-----------------------------------------------------------------------------
(* sys_exec.                                                               *)

\* The file exists; child_load is reset without taking child_lock.  main, in
\* run_task(), calls process_execute() directly and resets nothing.
Exec(p) ==
  /\ calls[p] < MaxCalls /\ RoomForChild
  /\ Step(p, "run", "exec_create")
  /\ calls' = [calls EXCEPT ![p] = @ + 1]
  /\ child_load' = [child_load EXCEPT ![p] = IF p = main THEN @ ELSE 0]
  /\ alone' = [alone EXCEPT ![p] = \A c \in Proc : parent[c] = p => life[c] = "dead"]
  /\ ret' = [ret EXCEPT ![p] = NoResult]
  /\ UNCHANGED <<target, child, loaded, exit_arg, reaped, stale, mon_vars>>

\* process_execute() up to thread_create(), which succeeds...
ExecCreate(p) ==
  /\ life[p] = "alive" /\ pc[p] = "exec_create"
  /\ \E c \in Proc :
       /\ life[c] = "unborn"
       /\ life' = [life EXCEPT ![c] = "alive"]
       /\ parent' = [parent EXCEPT ![c] = p]
       /\ target' = [target EXCEPT ![p] = c]
       /\ pc' = [pc EXCEPT ![p] = "exec_list", ![c] = "load"]
  /\ UNCHANGED <<calls, child_load, child, loaded, exit_arg, rets, mon_vars>>

\* ... or returns TID_ERROR.
ExecCreateFails(p) ==
  /\ CreateMayFail
  /\ Step(p, "exec_create", IF p = main THEN "run" ELSE "exec_lock")
  /\ target' = [target EXCEPT ![p] = NULL]
  /\ UNCHANGED <<calls, child_load, child, loaded, exit_arg, rets, mon_vars>>

\* The end of process_execute(): only now is the child's record listed.  main
\* goes on with process_wait().
ExecList(p) ==
  /\ Step(p, "exec_list", IF p = main THEN "wait_lock" ELSE "exec_lock")
  /\ child' = [child EXCEPT ![target[p]] = NewRecord]
  /\ UNCHANGED <<target, calls, child_load, loaded, exit_arg, rets, mon_vars>>

ExecLock(p) == Step(p, "exec_lock", "exec_test") /\ Locks(p, p)
ExecSleep(p) == child_load[p] = 0 /\ Step(p, "exec_test", "exec_wait") /\ Sleeps(p)

ExecWake(p) == Step(p, "exec_wait", "exec_test") /\ Wakes(p)

ExecReturn(p) ==
  /\ child_load[p] # 0
  /\ Step(p, "exec_test", "run")
  /\ ret' = [ret EXCEPT ![p] =
               Result("exec", target[p], IF target[p] = NULL THEN -1
                                         ELSE IF child_load[p] = -1 THEN -1 ELSE 0)]
  /\ target' = [target EXCEPT ![p] = NULL]
  /\ Unlocks(p, p)
  /\ UNCHANGED <<calls, child_load, child, loaded, exit_arg, alone, reaped, stale>>

-----------------------------------------------------------------------------
(* start_process.                                                          *)

\* load() succeeds or fails, and then the parent is looked up.
Load(p) ==
  \E ok \in BOOLEAN :
    /\ Step(p, "load", IF thread_get_by_id(parent[p]) THEN "load_lock"
                       ELSE IF ok THEN "run" ELSE "exit")
    /\ loaded' = [loaded EXCEPT ![p] = ok]
    /\ UNCHANGED <<target, calls, child_load, child, exit_arg, rets, mon_vars>>

LoadLock(p) == LocksParent(p, "load_lock", "load_signal")

\* Mutant: the outcome of load() is not looked at.
LoadSignalOK(p) ==
  /\ Step(p, "load_signal", "load_unlock")
  /\ child_load' = [child_load EXCEPT ![parent[p]] = 1]
  /\ cond_signal(p, parent[p])
  /\ UNCHANGED <<target, calls, child, loaded, exit_arg, rets>>

LoadSignal(p) ==
  /\ Step(p, "load_signal", "load_unlock")
  /\ child_load' = [child_load EXCEPT ![parent[p]] = IF loaded[p] THEN 1 ELSE -1]
  /\ cond_signal(p, parent[p])
  /\ UNCHANGED <<target, calls, child, loaded, exit_arg, rets>>

LoadUnlock(p) ==
  /\ Step(p, "load_unlock", IF loaded[p] THEN "run" ELSE "exit")
  /\ Unlocks(p, parent[p])
  /\ UNCHANGED data_vars

-----------------------------------------------------------------------------
(* process_wait.                                                           *)

\* The caller's list is searched; for a tid not on it -1 is returned at once.
Wait(p) ==
  /\ p # main /\ calls[p] < MaxCalls
  /\ Step(p, "run", "wait_lock")
  /\ \E c \in Proc : /\ parent[c] = p /\ child[c].listed
                     /\ target' = [target EXCEPT ![p] = c]
  /\ calls' = [calls EXCEPT ![p] = @ + 1]
  /\ ret' = [ret EXCEPT ![p] = NoResult]
  /\ UNCHANGED <<child_load, child, loaded, exit_arg, alone, reaped, stale, mon_vars>>

WaitLock(p) == Step(p, "wait_lock", "wait_test") /\ Locks(p, p)

\* Mutant: the loop is left when the exit status is there.
WaitTestExited(p) ==
  /\ Step(p, "wait_test", IF ~child[target[p]].exited THEN "wait_sleep" ELSE "wait_return")
  /\ UNCHANGED <<data_vars, mon_vars>>

\* thread_get_by_id(child_tid): the child goes on all_list and off it without
\* this lock.
WaitTest(p) ==
  /\ Step(p, "wait_test", IF thread_get_by_id(target[p]) THEN "wait_sleep" ELSE "wait_return")
  /\ UNCHANGED <<data_vars, mon_vars>>

WaitSleep(p) == Step(p, "wait_sleep", "wait_wait") /\ Sleeps(p)
WaitWake(p) == Step(p, "wait_wait", "wait_test") /\ Wakes(p)

\* The child never called exit, or it has been waited for.
WaitFails(c) == ~child[c].exited \/ child[c].waited

WaitReturn(p) ==
  LET c == target[p] IN
  /\ Step(p, "wait_return", "run")
  /\ ret' = [ret EXCEPT ![p] =
               Result("wait", c, IF WaitFails(c) THEN -1 ELSE child[c].status)]
  /\ target' = [target EXCEPT ![p] = NULL]
  /\ reaped' = [reaped EXCEPT ![c] = IF WaitFails(c) THEN @ ELSE @ + 1]
  /\ child' = [child EXCEPT ![c].waited = @ \/ ~WaitFails(c)]
  /\ Unlocks(p, p)
  /\ UNCHANGED <<calls, child_load, loaded, exit_arg, alone, stale>>

-----------------------------------------------------------------------------
(* sys_exit and exit, kill, process_exit and thread_exit.                  *)

\* sys_exit(): the parent is looked up and its list searched, unlocked, for
\* this process's record.
SysExit(p) ==
  /\ p # main
  /\ \E s \in Status : exit_arg' = [exit_arg EXCEPT ![p] = s]
  /\ Step(p, "run", IF thread_get_by_id(parent[p]) /\ child[p].listed
                    THEN "exit_lock" ELSE "exit")
  /\ UNCHANGED <<target, calls, child_load, child, loaded, rets, mon_vars>>

ExitLock(p) == LocksParent(p, "exit_lock", "exit_mark")

ExitMark(p) ==
  /\ Step(p, "exit_mark", "exit_unlock")
  /\ \/ /\ child[p].listed
        /\ child' = [child EXCEPT ![p] = [listed |-> TRUE, exited |-> TRUE, waited |-> @.waited,
                                          status |-> exit_arg[p]]]
        /\ UNCHANGED stale
     \/ /\ ~child[p].listed      \* the parent has freed the record
        /\ stale' = stale \cup {p}
        /\ UNCHANGED child
  /\ UNCHANGED <<target, calls, child_load, loaded, exit_arg, ret, alone, reaped, mon_vars>>

ExitUnlock(p) ==
  /\ Step(p, "exit_unlock", "exit")
  /\ Unlocks(p, parent[p])
  /\ UNCHANGED data_vars

\* kill(): a user exception goes straight to thread_exit(), as main() does
\* when its tasks are done.
Kill(p) ==
  /\ Step(p, "run", "exit")
  /\ UNCHANGED <<data_vars, mon_vars>>

\* process_exit() frees the records of p's children and looks up the parent.
FreeChildren(p) ==
  /\ Step(p, "exit", IF thread_get_by_id(parent[p]) THEN "bye_lock" ELSE "die")
  /\ child' = [c \in Proc |-> IF parent[c] = p THEN NoRecord ELSE child[c]]
  /\ UNCHANGED <<target, calls, child_load, loaded, exit_arg, rets, mon_vars>>

ByeLock(p) == LocksParent(p, "bye_lock", "bye_signal")

ByeSignal(p) ==
  /\ Step(p, "bye_signal", "bye_unlock")
  /\ child_load' = [child_load EXCEPT ![parent[p]] = IF @ = 0 THEN -1 ELSE @]
  /\ cond_signal(p, parent[p])
  /\ UNCHANGED <<target, calls, child, loaded, exit_arg, rets>>

\* Mutant: the parent's child_lock stays locked.
ByeUnlockForgotten(p) ==
  /\ Step(p, "bye_unlock", "die")
  /\ UNCHANGED <<data_vars, mon_vars>>

ByeUnlock(p) ==
  /\ Step(p, "bye_unlock", "die")
  /\ Unlocks(p, parent[p])
  /\ UNCHANGED data_vars

\* The rest of process_exit(), and thread_exit() from intr_disable() on: p
\* leaves all_list and its page is released.
Die(p) ==
  /\ life[p] = "alive" /\ pc[p] = "die"
  /\ life' = [life EXCEPT ![p] = "dead"]
  /\ pc' = [pc EXCEPT ![p] = "none"]
  /\ ret' = [ret EXCEPT ![p] = NoResult]
  /\ UNCHANGED <<parent, target, calls, child_load, child, loaded, exit_arg, alone, reaped,
                 stale, mon_vars>>
-----------------------------------------------------------------------------
ProcessInit ==
  /\ life = [p \in Proc |-> IF p = main THEN "alive" ELSE "unborn"]
  /\ parent = [p \in Proc |-> NULL]
  /\ pc = [p \in Proc |-> IF p = main THEN "run" ELSE "none"]
  /\ target = [p \in Proc |-> NULL]
  /\ calls = [p \in Proc |-> 0]
  /\ child_load = [p \in Proc |-> 0]
  /\ child = [p \in Proc |-> NoRecord]
  /\ loaded = [p \in Proc |-> FALSE]
  /\ exit_arg = [p \in Proc |-> -1]
  /\ ret = [p \in Proc |-> NoResult]
  /\ alone = [p \in Proc |-> TRUE]
  /\ reaped = [p \in Proc |-> 0]
  /\ stale = {}
  /\ M!MonitorInit

\* What p does once it is in the kernel.
KernelStep(p) ==
  \/ ExecCreate(p) \/ ExecCreateFails(p) \/ ExecList(p) \/ ExecLock(p) \/ ExecSleep(p)
  \/ ExecWake(p) \/ ExecReturn(p)
  \/ Load(p) \/ LoadLock(p) \/ LoadSignal(p) \/ LoadUnlock(p)
  \/ WaitLock(p) \/ WaitTest(p) \/ WaitSleep(p) \/ WaitWake(p) \/ WaitReturn(p)
  \/ ExitLock(p) \/ ExitMark(p) \/ ExitUnlock(p)
  \/ FreeChildren(p) \/ ByeLock(p) \/ ByeSignal(p) \/ ByeUnlock(p) \/ Die(p)

\* What the program of p asks of the kernel.
UserStep(p) == Exec(p) \/ Wait(p) \/ SysExit(p) \/ Kill(p)

\* Memory corrupted by a stale pointer makes the future undefined: no step
\* is described from there on.
ProcessNext == stale = {} /\ \E p \in Proc : KernelStep(p) \/ UserStep(p)

ProcessSpec == ProcessInit /\ [][ProcessNext]_vars

\* Every process gets on with the kernel code it is in: the scheduler is
\* round robin (ReadyRuns of module Threads).  Programs may do as they like.
ProcessFairSpec ==
  ProcessSpec /\ \A p \in Proc : WF_vars(stale = {} /\ KernelStep(p))

-----------------------------------------------------------------------------
(* Properties.                                                             *)

\* process.c:162-167: a status that process_wait returns is the one the child
\* passed to exit, the child is dead by then, and no child's status is
\* returned twice.
WaitSound ==
  /\ \A p \in Proc :
       LET r == ret[p] IN
       r.call = "wait" /\ r.result # -1 =>
         life[r.child] = "dead" /\ exit_arg[r.child] = r.result
  /\ \A c \in Proc : reaped[c] <= 1

\* A process that is gone neither owns a child_lock nor waits for a signal,
\* so nobody waits for it on a lock it can no longer release.
DeadHoldNothing ==
  \A p \in Proc : life[p] = "dead" =>
    \A q \in Proc : owner[q] # p /\ p \notin woken[q] /\ \A i \in DOMAIN waitq[q] : waitq[q][i] # p

\* syscall.c:356 and 364: sys_exec returns the child's id if the child's
\* load() succeeded, and -1 if it failed, for a process that starts a child
\* only after its other children died.  (An older child that exits during the
\* call would overwrite child_load, which all children share.)
ExecSound ==
  \A p \in Proc :
    LET r == ret[p] IN
    r.call = "exec" /\ r.child # NULL /\ alone[p] => (r.result # -1 <=> loaded[r.child])

\* process.c:162: a process_wait for a child that has died returns.
InWait(p) == pc[p] \in {"wait_lock", "wait_test", "wait_sleep", "wait_wait", "wait_return"}
WaitReturns ==
  \A p \in Proc : InWait(p) /\ life[target[p]] = "dead" ~> pc[p] = "run"
=============================================================================
