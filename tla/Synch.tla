------------------------------- MODULE Synch -------------------------------
(***************************************************************************)
(* Semaphores, locks and condition variables: threads/synch.c, running on  *)
(* the scheduler of module Threads.                                        *)
(*                                                                         *)
(* sema_down, sema_try_down and sema_up run with interrupts off and are    *)
(* atomic up to thread_block().  Everything else runs with interrupts on:  *)
(* a thread can lose the CPU between taking a lock's semaphore and setting *)
(* its holder, between clearing the holder and upping the semaphore, and   *)
(* between any two calls cond_wait and cond_signal make.                   *)
(*                                                                         *)
(* A semaphore is named by what embeds it: a semaphore of its own, a lock, *)
(* or a thread, for the semaphore of the `waiter' that cond_wait keeps on  *)
(* that thread's stack.                                                    *)
(***************************************************************************)
EXTENDS Threads, FiniteSets

CONSTANTS
  Sema,         \* semaphores of their own
  Lock,         \* locks
  Cond,         \* condition variables
  lock_of,      \* lock_of[c]: the one lock that protects c
  NULL,         \* null pointer
  MaxValue      \* bound: callers up a semaphore in Sema only below this value

AnySema == Sema \cup Lock \cup Thread

ASSUME SynchAssumption ==
  /\ Sema \cap Lock = {} /\ AnyThread \cap (Sema \cup Lock) = {}
  /\ lock_of \in [Cond -> Lock]
  /\ NULL \notin AnySema \cup AnyThread \cup Cond
  /\ MaxValue \in Nat \ {0}

VARIABLES
  value,        \* value[s]: sema->value
  waiters,      \* waiters[s]: sema->waiters, first in first out
  holder,       \* holder[l]: lock->holder
  cond_waiters, \* cond_waiters[c]: the threads whose waiter is on c's list
  cv            \* cv[t]: the condition t waits on or broadcasts to, or NULL

synch_vars == <<value, waiters, holder, cond_waiters, cv>>
all_vars == <<vars, synch_vars>>

\* arg[t] = t: no argument.
SetArg(a) == arg' = [arg EXCEPT ![current] = a]
NoArg == SetArg(current)

-----------------------------------------------------------------------------
(* Semaphores.                                                             *)

\* Where a thread that has downed s goes on.
AfterDown(s) ==
  IF s \in Lock THEN "own" ELSE IF s \in Sema THEN "run" ELSE "wait3"

\* One turn of the loop of sema_down(s) in the running thread.
sema_down(s) ==
  /\ \/ /\ value[s] = 0
        /\ waiters' = [waiters EXCEPT ![s] = Append(@, current)]
        /\ thread_block
        /\ Goto("down") /\ SetArg(s)
        /\ UNCHANGED value
     \/ /\ value[s] > 0
        /\ value' = [value EXCEPT ![s] = @ - 1]
        /\ Goto(AfterDown(s)) /\ SetArg(IF s \in Lock THEN s ELSE current)
        /\ UNCHANGED <<sched_vars, waiters>>
  /\ UNCHANGED <<holder, cond_waiters, cv>>

\* Mutant: the waiter is looked at, not popped.
sema_upFront(s) ==
  /\ \/ /\ waiters[s] = <<>>
        /\ UNCHANGED <<sched_vars, waiters>>
     \/ /\ waiters[s] # <<>>
        /\ thread_unblock(Head(waiters[s]))
        /\ UNCHANGED waiters
  /\ value' = [value EXCEPT ![s] = @ + 1]

\* Mutant: a waiter is woken only when the value was zero.
sema_upIfZero(s) ==
  /\ \/ /\ waiters[s] = <<>> \/ value[s] > 0
        /\ UNCHANGED <<sched_vars, waiters>>
     \/ /\ waiters[s] # <<>> /\ value[s] = 0
        /\ thread_unblock(Head(waiters[s]))
        /\ waiters' = [waiters EXCEPT ![s] = Tail(@)]
  /\ value' = [value EXCEPT ![s] = @ + 1]

sema_up(s) ==
  /\ \/ /\ waiters[s] = <<>>
        /\ UNCHANGED <<sched_vars, waiters>>
     \/ /\ waiters[s] # <<>>
        /\ thread_unblock(Head(waiters[s]))
        /\ waiters' = [waiters EXCEPT ![s] = Tail(@)]
  /\ value' = [value EXCEPT ![s] = @ + 1]

\* sema_try_down(s) that succeeds; one that fails changes nothing.
sema_try_down(s) ==
  /\ value[s] > 0
  /\ value' = [value EXCEPT ![s] = @ - 1]
  /\ UNCHANGED waiters

SemaDown == At("run") /\ \E s \in Sema : sema_down(s)

\* thread_block() has returned inside sema_down: look at the value again.
DownAgain == At("down") /\ sema_down(arg[current])

SemaTryDown ==
  /\ At("run")
  /\ \E s \in Sema : sema_try_down(s)
  /\ UNCHANGED <<vars, holder, cond_waiters, cv>>

SemaUp ==
  /\ At("run")
  /\ \E s \in Sema : value[s] < MaxValue /\ sema_up(s)
  /\ UNCHANGED <<pc, arg, holder, cond_waiters, cv>>

\* An interrupt handler may up a semaphore (ide.c) or try to down one.
IntrSemaUp ==
  /\ IntrOn
  /\ \E s \in Sema : value[s] < MaxValue /\ sema_up(s)
  /\ LeaveHlt
  /\ UNCHANGED <<arg, holder, cond_waiters, cv>>

IntrSemaTryDown ==
  /\ IntrOn
  /\ \E s \in Sema : sema_try_down(s)
  /\ LeaveHlt
  /\ UNCHANGED <<sched_vars, arg, holder, cond_waiters, cv>>

-----------------------------------------------------------------------------
(* Locks.                                                                  *)

lock_held_by_current_thread(l) == holder[l] = current

LockAcquire ==
  /\ At("run")
  /\ \E l \in Lock : ~lock_held_by_current_thread(l) /\ sema_down(l)

\* Mutant: the lock counts as free when it has no holder.
LockTryAcquireByHolder ==
  /\ At("run")
  /\ \E l \in Lock : /\ holder[l] = NULL
                     /\ value' = [value EXCEPT ![l] = 0]
                     /\ SetArg(l)
  /\ Goto("own")
  /\ UNCHANGED <<sched_vars, waiters, holder, cond_waiters, cv>>

\* lock_try_acquire() that succeeds.
LockTryAcquire ==
  /\ At("run")
  /\ \E l \in Lock : /\ ~lock_held_by_current_thread(l)
                     /\ sema_try_down(l)
                     /\ SetArg(l)
  /\ Goto("own")
  /\ UNCHANGED <<sched_vars, holder, cond_waiters, cv>>

\* lock->holder = thread_current (): lock_acquire() returns, and with it the
\* cond_wait() that may have called it.
SetHolder ==
  /\ At("own")
  /\ holder' = [holder EXCEPT ![arg[current]] = current]
  /\ cv' = [cv EXCEPT ![current] = NULL]
  /\ Goto("run") /\ NoArg
  /\ UNCHANGED <<sched_vars, value, waiters, cond_waiters>>

\* lock_release(l) up to lock->holder = NULL.
ClearHolder(l) ==
  /\ lock_held_by_current_thread(l)
  /\ holder' = [holder EXCEPT ![l] = NULL]
  /\ Goto("unlock") /\ SetArg(l)
  /\ UNCHANGED <<sched_vars, value, waiters, cond_waiters, cv>>

LockRelease == At("run") /\ \E l \in Lock : ClearHolder(l)

\* The sema_up() of lock_release().
Unlock ==
  /\ At("unlock")
  /\ sema_up(arg[current])
  /\ Goto(IF cv[current] = NULL THEN "run" ELSE "wait2") /\ NoArg
  /\ UNCHANGED <<holder, cond_waiters, cv>>

-----------------------------------------------------------------------------
(* Condition variables.                                                    *)

\* cond_wait(): the waiter is initialised and queued.
CondWait ==
  /\ At("run")
  /\ \E c \in Cond :
       /\ lock_held_by_current_thread(lock_of[c])
       /\ value' = [value EXCEPT ![current] = 0]
       /\ waiters' = [waiters EXCEPT ![current] = <<>>]
       /\ cond_waiters' = [cond_waiters EXCEPT ![c] = Append(@, current)]
       /\ cv' = [cv EXCEPT ![current] = c]
  /\ Goto("wait1")
  /\ UNCHANGED <<sched_vars, arg, holder>>

\* Its lock_release(), sema_down() and lock_acquire().
CondWaitRelease == At("wait1") /\ ClearHolder(lock_of[cv[current]])

\* Mutant: the waiter's semaphore is initialised only here.
CondWaitDownInit ==
  /\ At("wait2")
  /\ waiters' = [waiters EXCEPT ![current] = Append(<<>>, current)]
  /\ value' = [value EXCEPT ![current] = 0]
  /\ thread_block
  /\ Goto("down") /\ SetArg(current)
  /\ UNCHANGED <<holder, cond_waiters, cv>>

CondWaitDown == At("wait2") /\ sema_down(current)
CondWaitAcquire == At("wait3") /\ sema_down(lock_of[cv[current]])

\* Mutant: the waiter that came last is popped.
PopWaiterBack(c) ==
  /\ lock_held_by_current_thread(lock_of[c])
  /\ cond_waiters[c] # <<>>
  /\ cond_waiters' = [cond_waiters EXCEPT ![c] = SubSeq(@, 1, Len(@) - 1)]
  /\ Goto("signal") /\ SetArg(cond_waiters[c][Len(cond_waiters[c])])
  /\ UNCHANGED <<sched_vars, value, waiters, holder>>

\* cond_signal(c) up to list_pop_front(); with no waiter it does nothing.
PopWaiter(c) ==
  /\ lock_held_by_current_thread(lock_of[c])
  /\ cond_waiters[c] # <<>>
  /\ cond_waiters' = [cond_waiters EXCEPT ![c] = Tail(@)]
  /\ Goto("signal") /\ SetArg(Head(cond_waiters[c]))
  /\ UNCHANGED <<sched_vars, value, waiters, holder>>

CondSignal == At("run") /\ \E c \in Cond : PopWaiter(c) /\ UNCHANGED cv

\* The sema_up() of cond_signal().
SignalUp ==
  /\ At("signal")
  /\ sema_up(arg[current])
  /\ Goto(IF cv[current] = NULL THEN "run" ELSE "bcast") /\ NoArg
  /\ UNCHANGED <<holder, cond_waiters, cv>>

\* cond_broadcast(c): its loop, entered and left.
CondBroadcast ==
  /\ At("run")
  /\ \E c \in Cond : PopWaiter(c) /\ cv' = [cv EXCEPT ![current] = c]

BroadcastNext == At("bcast") /\ PopWaiter(cv[current]) /\ UNCHANGED cv

BroadcastDone ==
  /\ At("bcast")
  /\ cond_waiters[cv[current]] = <<>>
  /\ cv' = [cv EXCEPT ![current] = NULL]
  /\ Goto("run")
  /\ UNCHANGED <<sched_vars, arg, value, waiters, holder, cond_waiters>>

-----------------------------------------------------------------------------
\* A caller releases its locks before it exits.
ExitUnlocked ==
  /\ \A l \in Lock : ~lock_held_by_current_thread(l)
  /\ Exit

\* The scheduler's own actions.
SchedStep ==
  /\ Yield \/ Create \/ CreateUnblock \/ ExitUnlocked \/ Idle \/ Tick
  /\ UNCHANGED synch_vars

SynchInit ==
  /\ Init
  /\ value = [s \in AnySema |-> IF s \in Lock THEN 1 ELSE 0]
  /\ waiters = [s \in AnySema |-> <<>>]
  /\ holder = [l \in Lock |-> NULL]
  /\ cond_waiters = [c \in Cond |-> <<>>]
  /\ cv = [t \in AnyThread |-> NULL]

\* Steps that complete an operation a thread has begun.
Continue ==
  \/ DownAgain \/ SetHolder \/ Unlock
  \/ CondWaitRelease \/ CondWaitDown \/ CondWaitAcquire
  \/ SignalUp \/ BroadcastNext \/ BroadcastDone

SynchNext ==
  \/ SchedStep
  \/ SemaDown \/ SemaTryDown \/ SemaUp \/ IntrSemaUp \/ IntrSemaTryDown
  \/ LockAcquire \/ LockTryAcquire \/ LockRelease
  \/ CondWait \/ CondSignal \/ CondBroadcast
  \/ Continue

SynchSpec == SynchInit /\ [][SynchNext]_all_vars

\* The timer never stops, and a thread that gets the CPU again and again gets
\* on with the operation it has begun: a time slice is many instructions.
SynchFairSpec ==
  /\ SynchSpec
  /\ WF_all_vars(Tick /\ UNCHANGED synch_vars)
  /\ \A t \in Thread : SF_all_vars(current = t /\ Continue)

-----------------------------------------------------------------------------
(* Properties.                                                             *)

SynchLabels ==
  {"none", "new", "run", "create", "down", "own", "unlock", "wait1", "wait2",
   "wait3", "signal", "bcast", "idle", "hlt"}

\* The variables have the types synch.h and thread.h declare; a value never
\* goes below zero and a lock's never above one.
SynchTypeOK ==
  /\ SchedTypeOK
  /\ pc \in [AnyThread -> SynchLabels]
  /\ arg \in [AnyThread -> AnySema \cup {idle_thread}]
  /\ value \in [AnySema -> Nat]
  /\ waiters \in [AnySema -> Seq(Thread)]
  /\ holder \in [Lock -> Thread \cup {NULL}]
  /\ cond_waiters \in [Cond -> Seq(Thread)]
  /\ cv \in [AnyThread -> Cond \cup {NULL}]

OnList(list, t) == \E i \in DOMAIN list : list[i] = t
NoDuplicates(list) == \A i, j \in DOMAIN list : list[i] = list[j] => i = j

\* t is blocked inside sema_down(s).
Asleep(t, s) == status[t] = "BLOCKED" /\ pc[t] = "down" /\ arg[t] = s

WaitListsConsistent ==
  /\ \A s \in AnySema : NoDuplicates(waiters[s])
  /\ \A s \in AnySema, t \in Thread : OnList(waiters[s], t) <=> Asleep(t, s)
  /\ \A t \in Thread : status[t] = "BLOCKED" => pc[t] \in {"new", "down"}

\* thread.h:89-94: a thread's `elem' is on one list at most, and once.  The
\* run queue is as RunQueueConsistent says, and a thread is on a semaphore's
\* wait list exactly while it is blocked inside sema_down on that semaphore.
\* So the ASSERT of thread_unblock() never fails.
ElemOnOneList == RunQueueConsistent /\ WaitListsConsistent

\* t has downed the semaphore of l and not upped it yet.
Owns(t, l) == holder[l] = t \/ (pc[t] \in {"own", "unlock"} /\ arg[t] = l)

\* synch.c:160-163: a lock is owned by at most one thread, at every point of
\* lock_acquire, lock_try_acquire, lock_release and cond_wait, and its
\* semaphore is 1 exactly when nobody owns it.
LockExclusion ==
  \A l \in Lock :
    /\ \A t, u \in Thread : Owns(t, l) /\ Owns(u, l) => t = u
    /\ value[l] = IF \E t \in Thread : Owns(t, l) THEN 0 ELSE 1

\* Threads sema_up(s) has woken and that have yet to look at the value again.
WokenFor(s) == {t \in Thread : pc[t] = "down" /\ arg[t] = s /\ status[t] # "BLOCKED"}

\* A semaphore never has units to spare while threads sleep on it: for each
\* unit some thread has been woken that can still take it (synch.c:104-107).
NoLostWakeup ==
  \A s \in AnySema :
    waiters[s] # <<>> => Cardinality(WokenFor(s)) >= value[s]

\* A thread that has released the lock in cond_wait is queued on the
\* condition, or a signaller has popped it and is about to up its semaphore,
\* or that semaphore is up: exactly one of the three, so no signal is lost
\* and none is delivered twice.
NoLostSignal ==
  \A t \in Thread :
    pc[t] = "wait2" \/ (pc[t] = "down" /\ arg[t] = t) =>
      LET queued == OnList(cond_waiters[cv[t]], t)
          popped == \E u \in Thread : pc[u] = "signal" /\ arg[u] = t
      IN  /\ value[t] \in {0, 1}
          /\ value[t] = 1 => ~queued /\ ~popped
          /\ value[t] = 0 => (queued <=> ~popped)

\* A signalled thread gets to the lock_acquire() of its cond_wait: nobody
\* else can take the unit its signaller put into its semaphore.
SignalDelivered ==
  \A t \in Thread : value[t] = 1 ~> pc[t] = "wait3"

-----------------------------------------------------------------------------
(* Refinement: locks and conditions keep the promises of module Monitor.   *)

Owner(l) ==
  IF \E t \in Thread : Owns(t, l) THEN CHOOSE t \in Thread : Owns(t, l) ELSE NULL

\* A thread starts to wait when its lock_release() ups the lock.  Until then
\* it owns the lock, and is the last on the list.
Waiting(c) ==
  LET q == cond_waiters[c] IN
  IF q # <<>> /\ pc[q[Len(q)]] \in {"wait1", "unlock"}
  THEN SubSeq(q, 1, Len(q) - 1) ELSE q

Woken(c) ==
  {t \in Thread : /\ cv[t] = c
                  /\ pc[t] \in {"wait2", "down", "wait3"}
                  /\ ~OnList(cond_waiters[c], t)}

M == INSTANCE Monitor WITH
       owner <- [l \in Lock |-> Owner(l)],
       waitq <- [c \in Cond |-> Waiting(c)],
       woken <- [c \in Cond |-> Woken(c)]

\* Every step of synch.c is a step of Monitor or leaves it unchanged: a lock
\* has one owner, cond_wait atomically releases the lock and waits, it
\* returns with the lock held, and signals go to the longest waiter.
ImplementsMonitor == M!MonitorSpec
=============================================================================
