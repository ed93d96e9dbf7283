------------------------------ MODULE Monitor ------------------------------
(***************************************************************************)
(* What locks and condition variables promise their callers (the comments  *)
(* before lock_init and cond_wait in threads/synch.c): a lock has at most  *)
(* one owner; cond_wait releases the lock and starts to wait in one step,  *)
(* and returns with the lock held again; cond_signal wakes the thread that *)
(* has waited longest.  Signals are not handed over ("Mesa" style): the    *)
(* woken thread competes for the lock with everyone else.                  *)
(*                                                                         *)
(* Module Synch implements this specification; module Process is built on  *)
(* its actions.                                                            *)
(***************************************************************************)
EXTENDS Naturals, Sequences

CONSTANTS
  Thread,     \* the callers
  Lock,       \* the locks
  Cond,       \* the condition variables
  lock_of,    \* lock_of[c]: the lock that protects c
  NULL        \* no thread

VARIABLES
  owner,      \* owner[l]: the thread that owns l, or NULL
  waitq,      \* waitq[c]: the threads waiting on c, longest first
  woken       \* woken[c]: signalled threads that have yet to reacquire the lock

monitor_vars == <<owner, waitq, woken>>

MonitorInit ==
  /\ owner = [l \in Lock |-> NULL]
  /\ waitq = [c \in Cond |-> <<>>]
  /\ woken = [c \in Cond |-> {}]

\* t is inside no cond_wait.
Outside(t) ==
  \A c \in Cond : t \notin woken[c] /\ \A i \in DOMAIN waitq[c] : waitq[c][i] # t

Acquire(t, l) ==
  /\ Outside(t)
  /\ owner[l] = NULL
  /\ owner' = [owner EXCEPT ![l] = t]
  /\ UNCHANGED <<waitq, woken>>

Release(t, l) ==
  /\ owner[l] = t
  /\ owner' = [owner EXCEPT ![l] = NULL]
  /\ UNCHANGED <<waitq, woken>>

\* Atomically releases the lock and waits.
Wait(t, c) ==
  /\ owner[lock_of[c]] = t
  /\ owner' = [owner EXCEPT ![lock_of[c]] = NULL]
  /\ waitq' = [waitq EXCEPT ![c] = Append(@, t)]
  /\ UNCHANGED woken

Signal(t, c) ==
  /\ owner[lock_of[c]] = t
  /\ waitq[c] # <<>>
  /\ waitq' = [waitq EXCEPT ![c] = Tail(@)]
  /\ woken' = [woken EXCEPT ![c] = @ \cup {Head(waitq[c])}]
  /\ UNCHANGED owner

\* A woken thread owns the lock again: its cond_wait is about to return.
Reacquire(t, c) ==
  /\ t \in woken[c]
  /\ owner[lock_of[c]] = NULL
  /\ owner' = [owner EXCEPT ![lock_of[c]] = t]
  /\ woken' = [woken EXCEPT ![c] = @ \ {t}]
  /\ UNCHANGED waitq

MonitorNext ==
  \E t \in Thread :
    \/ \E l \in Lock : Acquire(t, l) \/ Release(t, l)
    \/ \E c \in Cond : Wait(t, c) \/ Signal(t, c) \/ Reacquire(t, c)

MonitorSpec == MonitorInit /\ [][MonitorNext]_monitor_vars
=============================================================================
