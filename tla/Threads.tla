------------------------------ MODULE Threads ------------------------------
(***************************************************************************)
(* The kernel thread scheduler: threads/thread.c, with the timer interrupt *)
(* of devices/timer.c that preempts.                                       *)
(*                                                                         *)
(* There is one CPU, so only the thread `current' takes steps.  Code that  *)
(* runs with interrupts off is one atomic action; where interrupts are on  *)
(* a timer tick or a device interrupt may come between any two actions.    *)
(* pc[t] says where thread t stands in the kernel code the project models. *)
(* The labels in IntrOffLabels are those at which a thread is resumed with *)
(* interrupts still off.                                                   *)
(*                                                                         *)
(* A thread is identified with its page.  "FREE" is the status of a page   *)
(* that holds no thread.                                                   *)
(***************************************************************************)
EXTENDS Naturals, Sequences

CONSTANTS
  Thread,           \* the pages a thread other than idle may live in
  initial_thread,   \* the page of main(), not obtained from palloc
  idle_thread,      \* the idle thread
  TIME_SLICE        \* timer ticks given to each thread

ASSUME ThreadsAssumption ==
  /\ initial_thread \in Thread
  /\ idle_thread \notin Thread
  /\ TIME_SLICE \in Nat \ {0}

VARIABLES
  status,           \* status[t]: t->status
  ready_list,       \* FIFO of threads ready to run
  current,          \* the thread that owns the CPU
  thread_ticks,     \* timer ticks since `current' was switched in
  pc,               \* pc[t]: where t stands in its kernel code
  arg               \* arg[t]: the object the code at pc[t] works on

sched_vars == <<status, ready_list, current, thread_ticks>>
vars == <<status, ready_list, current, thread_ticks, pc, arg>>

AnyThread == Thread \cup {idle_thread}
thread_status == {"FREE", "RUNNING", "READY", "BLOCKED", "DYING"}

\* "blocked": thread_block() was called and interrupts are still off.
\* "down": inside the loop of sema_down() (module Synch).
IntrOffLabels == {"blocked", "down"}

\* intr_get_level() = INTR_ON in the running thread.
IntrOn == pc[current] \notin IntrOffLabels

-----------------------------------------------------------------------------
(* thread.c internals, as operators on the scheduler's variables.          *)

next_thread_to_run(rl) == IF rl = <<>> THEN idle_thread ELSE Head(rl)

\* thread_schedule_tail(): a dying thread we switched away from loses its
\* page, except initial_thread.
StatusOfPrev(st, next) ==
  IF current # next /\ st[current] = "DYING" /\ current # initial_thread
  THEN "FREE" ELSE st[current]

\* schedule() entered with the statuses st and the run queue rl.
schedule(st, rl) ==
  LET next == next_thread_to_run(rl) IN
  /\ status' = [st EXCEPT ![current] = StatusOfPrev(st, next), ![next] = "RUNNING"]
  /\ ready_list' = IF rl = <<>> THEN rl ELSE Tail(rl)
  /\ current' = next
  /\ thread_ticks' = 0

thread_block == schedule([status EXCEPT ![current] = "BLOCKED"], ready_list)

\* Mutant: the thread is put at the front of the run queue.
thread_unblockFront(t) ==
  /\ ready_list' = <<t>> \o ready_list
  /\ status' = [status EXCEPT ![t] = "READY"]
  /\ UNCHANGED <<current, thread_ticks>>

thread_unblock(t) ==
  /\ ready_list' = Append(ready_list, t)
  /\ status' = [status EXCEPT ![t] = "READY"]
  /\ UNCHANGED <<current, thread_ticks>>

thread_yield ==
  schedule([status EXCEPT ![current] = "READY"],
           IF current # idle_thread THEN Append(ready_list, current) ELSE ready_list)

-----------------------------------------------------------------------------
(* What a thread may do.                                                   *)

\* The running thread stands at label l.
At(l) == pc[current] = l
Goto(l) == pc' = [pc EXCEPT ![current] = l]

Yield ==
  /\ At("run")
  /\ thread_yield
  /\ UNCHANGED <<pc, arg>>

\* thread_create() up to init_thread(): a page is allocated and initialised
\* as a blocked thread.  palloc failing (no FREE page) returns TID_ERROR and
\* changes nothing.
Create ==
  /\ At("run")
  /\ \E t \in Thread :
       /\ status[t] = "FREE"
       /\ status' = [status EXCEPT ![t] = "BLOCKED"]
       /\ pc' = [pc EXCEPT ![t] = "new", ![current] = "create"]
       /\ arg' = [arg EXCEPT ![current] = t]
  /\ UNCHANGED <<ready_list, current, thread_ticks>>

\* The end of thread_create(): the new thread goes on the run queue.  The
\* first thing it does when it runs is kernel_thread().
CreateUnblock ==
  /\ At("create")
  /\ thread_unblock(arg[current])
  /\ pc' = [pc EXCEPT ![arg[current]] = "run", ![current] = "run"]
  /\ arg' = [arg EXCEPT ![current] = current]

\* Mutant: the page is released while its thread stays on the run queue.
ExitAfterYield ==
  /\ At("run")
  /\ schedule([status EXCEPT ![current] = "DYING"], Append(ready_list, current))
  /\ Goto("none")
  /\ UNCHANGED arg

\* thread_exit() from intr_disable() on.
Exit ==
  /\ At("run")
  /\ schedule([status EXCEPT ![current] = "DYING"], ready_list)
  /\ Goto("none")
  /\ UNCHANGED arg

\* Kernel code that blocks itself, with interrupts off (for one, wait() of
\* intq.c), and what it does when it is resumed.
Block ==
  /\ At("run")
  /\ thread_block
  /\ Goto("blocked")
  /\ UNCHANGED arg

Resume ==
  /\ At("blocked")
  /\ Goto("run")
  /\ UNCHANGED <<sched_vars, arg>>

Unblock ==
  /\ At("run")
  /\ \E t \in Thread : status[t] = "BLOCKED" /\ pc[t] = "blocked" /\ thread_unblock(t)
  /\ UNCHANGED <<pc, arg>>

\* Mutant: idle() re-enables interrupts and halts without thread_block().
IdleNoBlock ==
  /\ At("idle")
  /\ Goto("hlt")
  /\ UNCHANGED <<sched_vars, arg>>

\* idle(): intr_disable(), thread_block().  When idle runs again it executes
\* "sti; hlt".
Idle ==
  /\ At("idle")
  /\ thread_block
  /\ Goto("hlt")
  /\ UNCHANGED arg

-----------------------------------------------------------------------------
(* Interrupts.                                                             *)

\* An interrupt ends a hlt: when idle runs on it is at the top of its loop.
LeaveHlt == pc' = IF At("hlt") THEN [pc EXCEPT ![current] = "idle"] ELSE pc

\* timer_interrupt(), thread_tick(), and the thread_yield() that
\* intr_handler() makes on return when the time slice is used up.
Tick ==
  /\ IntrOn
  /\ \/ /\ thread_ticks + 1 >= TIME_SLICE
        /\ thread_yield
     \/ /\ thread_ticks + 1 < TIME_SLICE
        /\ thread_ticks' = thread_ticks + 1
        /\ UNCHANGED <<status, ready_list, current>>
  /\ LeaveHlt
  /\ UNCHANGED arg

\* A device's handler unblocks a thread (for one, signal() of intq.c).
IntrUnblock ==
  /\ IntrOn
  /\ \E t \in Thread : status[t] = "BLOCKED" /\ pc[t] = "blocked" /\ thread_unblock(t)
  /\ LeaveHlt
  /\ UNCHANGED arg

-----------------------------------------------------------------------------
\* After thread_start(): main runs, idle has started, upped idle_started and
\* blocked.
Init ==
  /\ status = [t \in AnyThread |-> IF t = initial_thread THEN "RUNNING"
                                   ELSE IF t = idle_thread THEN "BLOCKED" ELSE "FREE"]
  /\ ready_list = <<>>
  /\ current = initial_thread
  /\ thread_ticks = 0
  /\ pc = [t \in AnyThread |-> IF t = initial_thread THEN "run"
                               ELSE IF t = idle_thread THEN "hlt" ELSE "none"]
  /\ arg = [t \in AnyThread |-> t]

\* The steps the scheduler's fairness is about: code that runs with
\* interrupts off is never held up, and the timer never stops.
Next ==
  \/ Yield \/ Create \/ CreateUnblock \/ Exit
  \/ Block \/ Resume \/ Unblock
  \/ Idle
  \/ Tick \/ IntrUnblock

Spec == Init /\ [][Next]_vars
FairSpec == Spec /\ WF_vars(Tick) /\ WF_vars(Resume)

-----------------------------------------------------------------------------
(* Properties.                                                             *)

ThreadLabels == {"none", "new", "run", "create", "blocked", "idle", "hlt"}

SchedTypeOK ==
  /\ status \in [AnyThread -> thread_status]
  /\ ready_list \in Seq(Thread)
  /\ current \in AnyThread
  /\ thread_ticks \in 0..(TIME_SLICE - 1)

\* The variables of the scheduler have the types thread.c declares.
TypeOK ==
  /\ SchedTypeOK
  /\ pc \in [AnyThread -> ThreadLabels]
  /\ arg \in [AnyThread -> AnyThread]

OnReadyList(t) == \E i \in DOMAIN ready_list : ready_list[i] = t

\* thread.h:89-94 and thread.c:386-394: exactly the threads in the ready
\* state are on the run queue, each once, so its `elem' is in one place; the
\* running thread alone is THREAD_RUNNING; idle is never on the run queue
\* and its page, like every page on the queue, is that of a live thread.
RunQueueConsistent ==
  /\ \A t \in AnyThread : status[t] = "RUNNING" <=> t = current
  /\ \A t \in Thread : status[t] = "READY" <=> OnReadyList(t)
  /\ \A i, j \in DOMAIN ready_list : ready_list[i] = ready_list[j] => i = j
  /\ status[idle_thread] \in {"RUNNING", "READY", "BLOCKED"}

\* thread.c:408-416: the CPU never sits in hlt while a thread is ready to
\* run; whenever an interrupt made one ready, idle is about to give way.
NeverHaltedWithWork ==
  current = idle_thread /\ ready_list # <<>> => pc[idle_thread] = "idle"

\* No thread on the run queue is overtaken by one queued later.
KeepsOrder ==
  \A i \in DOMAIN ready_list :
    \/ i = 1 /\ current' = ready_list[i]
    \/ \E j \in DOMAIN ready_list' : j <= i /\ ready_list'[j] = ready_list[i]

\* next_thread_to_run() and thread_unblock() serve the run queue first in,
\* first out, whatever step is taken.
NoOvertaking == [][KeepsOrder]_vars

\* Round robin: thanks to the time slice every ready thread gets the CPU,
\* whatever the others do.
ReadyRuns == \A t \in Thread : status[t] = "READY" ~> current = t
=============================================================================
