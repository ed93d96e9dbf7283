--------------------------- MODULE MonitorProofs ---------------------------
(***************************************************************************)
(* More proofs about synch.c, for any number of threads, semaphores, locks *)
(* and conditions: no wake-up and no signal is lost, and locks and         *)
(* conditions implement module Monitor.                                    *)
(***************************************************************************)
EXTENDS SynchProofs

\* t is in cond_wait and has yet to be signalled, or to notice that it was.
Sleeping(t) == pc[t] = "wait2" \/ (pc[t] = "down" /\ arg[t] = t)

\* t is in cond_wait and has yet to release the lock.
Entering(t) == pc[t] = "wait1" \/ (pc[t] = "unlock" /\ cv[t] # NULL)

Queued(t) == OnList(cond_waiters[cv[t]], t)
Popped(t) == \E u \in Thread : pc[u] = "signal" /\ arg[u] = t

\* What t's call knows of its condition: it is the one whose lock t is about
\* to get, has or is giving back, and a signaller holds the lock of the
\* thread it is about to wake.
CallOf(t) ==
  /\ pc[t] \in {"none", "new", "run", "create"} => cv[t] = NULL
  /\ pc[t] = "down" /\ arg[t] \in Sema => cv[t] = NULL
  /\ pc[t] \in {"down", "own", "unlock"} /\ arg[t] \in Lock /\ cv[t] # NULL =>
       lock_of[cv[t]] = arg[t]
  /\ pc[t] \in {"wait1", "bcast"} => holder[lock_of[cv[t]]] = t
  /\ pc[t] = "signal" => /\ Sleeping(arg[t])
                         /\ holder[lock_of[cv[arg[t]]]] = t
                         /\ cv[t] \in {NULL, cv[arg[t]]}

\* A thread is queued on its condition at most once, from the moment it
\* enters cond_wait, and until it has released the lock it is the last.
QueueOf(t) ==
  /\ \A c \in Cond : OnList(cond_waiters[c], t) =>
       cv[t] = c /\ (Sleeping(t) \/ Entering(t))
  /\ Entering(t) => /\ cond_waiters[cv[t]] # <<>>
                    /\ cond_waiters[cv[t]][Len(cond_waiters[cv[t]])] = t
                    /\ value[t] = 0

SignalOf(t) ==
  Sleeping(t) =>
    /\ value[t] \in {0, 1}
    /\ value[t] = 1 => ~Queued(t) /\ ~Popped(t)
    /\ value[t] = 0 => (Queued(t) <=> ~Popped(t))

OnePopper ==
  \A t, u \in Thread : pc[t] = "signal" /\ pc[u] = "signal" /\ arg[t] = arg[u] => t = u

SigInv ==
  /\ \A t \in Thread : CallOf(t)
  /\ \A c \in Cond : NoDuplicates(cond_waiters[c])
  /\ \A t \in Thread : QueueOf(t)
  /\ OnePopper
  /\ \A t \in Thread : SignalOf(t)

-----------------------------------------------------------------------------
(* What the operations on semaphores do, thread by thread.                 *)

\* One turn of the loop of sema_down(s): the caller falls asleep or takes a
\* unit.
LEMMA DownMoves ==
  ASSUME SInv, current \in Thread, NEW s \in AnySema, sema_down(s)
  PROVE  /\ holder' = holder /\ cond_waiters' = cond_waiters /\ cv' = cv
         /\ \A t \in Thread : t # current =>
              /\ pc'[t] = pc[t] /\ arg'[t] = arg[t]
              /\ status'[t] = "BLOCKED" <=> status[t] = "BLOCKED"
         /\ \/ /\ value[s] = 0 /\ value' = value
               /\ pc'[current] = "down" /\ arg'[current] = s
               /\ status'[current] = "BLOCKED"
               /\ \A r \in AnySema : r # s => waiters'[r] = waiters[r]
            \/ /\ value[s] > 0 /\ value'[s] = value[s] - 1
               /\ \A r \in AnySema : r # s => value'[r] = value[r]
               /\ waiters' = waiters /\ status' = status
               /\ s \in Lock => pc'[current] = "own" /\ arg'[current] = s
               /\ s \in Sema => pc'[current] = "run" /\ arg'[current] = current
               /\ s \in Thread => pc'[current] = "wait3" /\ arg'[current] = current
<1>1. /\ SynchTypeOK /\ SchedTypeOK /\ RunQueueConsistent
      /\ value \in [AnySema -> Nat] /\ waiters \in [AnySema -> Seq(Thread)]
      /\ current \in AnySema \cup {idle_thread} /\ s \in AnySema \cup {idle_thread}
  BY Names, Zenon DEF SInv, SynchTypeOK, ElemOnOneList
<1>2. holder' = holder /\ cond_waiters' = cond_waiters /\ cv' = cv
  BY Zenon DEF sema_down
<1>3. CASE /\ value[s] = 0
           /\ waiters' = [waiters EXCEPT ![s] = Append(@, current)]
           /\ thread_block
           /\ Goto("down") /\ SetArg(s)
           /\ UNCHANGED value
  <2>1. /\ \A t \in Thread : t # current =>
             (status'[t] = "BLOCKED" <=> status[t] = "BLOCKED")
        /\ status'[current] = "BLOCKED"
    BY <1>1, <1>3, BlockSched, Zenon DEF thread_block
  <2>2. /\ pc'[current] = "down" /\ arg'[current] = s
        /\ \A t \in Thread : t # current => pc'[t] = pc[t] /\ arg'[t] = arg[t]
    BY <1>1, <1>3, GotoFacts, Zenon DEF SynchLabels
  <2>3. \A r \in AnySema : r # s => waiters'[r] = waiters[r]
    BY <1>1, <1>3, Zenon
  <2> QED
    BY <1>2, <1>3, <2>1, <2>2, <2>3, Zenon
<1>4. CASE /\ value[s] > 0
           /\ value' = [value EXCEPT ![s] = @ - 1]
           /\ Goto(AfterDown(s)) /\ SetArg(IF s \in Lock THEN s ELSE current)
           /\ UNCHANGED <<sched_vars, waiters>>
  <2>1. PICK l \in SynchLabels, a \in AnySema \cup {idle_thread} :
          /\ Goto(l) /\ SetArg(a)
          /\ s \in Lock => l = "own" /\ a = s
          /\ s \in Sema => l = "run" /\ a = current
          /\ s \in Thread => l = "wait3" /\ a = current
    BY <1>1, <1>4, Names, Zenon DEF AfterDown, SynchLabels
  <2>2. /\ pc'[current] = l /\ arg'[current] = a
        /\ \A t \in Thread : t # current => pc'[t] = pc[t] /\ arg'[t] = arg[t]
    BY <1>1, <2>1, GotoFacts, Zenon
  <2>3. /\ value'[s] = value[s] - 1
        /\ \A r \in AnySema : r # s => value'[r] = value[r]
        /\ waiters' = waiters /\ status' = status
    BY <1>1, <1>4, Zenon DEF sched_vars
  <2> QED
    BY <1>2, <1>4, <2>1, <2>2, <2>3, Zenon
<1> QED
  BY <1>3, <1>4, Zenon DEF sema_down

\* sema_up(s): a unit is added and the thread that has slept longest, if any,
\* made ready.
LEMMA UpMoves ==
  ASSUME SInv, NEW s \in AnySema, sema_up(s)
  PROVE  /\ value'[s] = value[s] + 1
         /\ \A r \in AnySema : r # s => value'[r] = value[r] /\ waiters'[r] = waiters[r]
         /\ \/ waiters[s] = <<>> /\ waiters' = waiters /\ status' = status
            \/ /\ waiters[s] # <<>>
               /\ \E w \in Thread :
                    /\ Asleep(w, s) /\ status'[w] = "READY"
                    /\ \A t \in Thread : t # w => status'[t] = status[t]
<1>1. /\ SchedTypeOK /\ RunQueueConsistent /\ WaitListsConsistent
      /\ value \in [AnySema -> Nat] /\ waiters \in [AnySema -> Seq(Thread)]
  BY Zenon DEF SInv, SynchTypeOK, ElemOnOneList
<1>2. /\ value'[s] = value[s] + 1
      /\ \A r \in AnySema : r # s => value'[r] = value[r] /\ waiters'[r] = waiters[r]
  BY <1>1, Zenon DEF sema_up
<1>3. CASE waiters[s] = <<>>
  BY <1>2, <1>3, Zenon DEF sema_up, sched_vars
<1>4. CASE waiters[s] # <<>>
  <2>1. PICK w \in Thread : thread_unblock(w) /\ OnList(waiters[s], w)
    BY <1>1, <1>4, TailFacts DEF sema_up, OnList
  <2>2. Asleep(w, s)
    BY <1>1, <2>1, Zenon DEF WaitListsConsistent
  <2>3. /\ status'[w] = "READY"
        /\ \A t \in AnyThread : t # w => status'[t] = status[t]
    BY <1>1, <2>1, <2>2, UnblockSched, Zenon DEF Asleep
  <2> QED
    BY <1>2, <1>4, <2>2, <2>3, Names, Zenon
<1> QED
  BY <1>3, <1>4, Zenon

-----------------------------------------------------------------------------
(* Signals.                                                                *)

\* t is at none of the points where the condition variables' queues matter.
Calm(t) == ~Sleeping(t) /\ ~Entering(t) /\ pc[t] # "signal"

\* Steps that leave the queues alone and move calm threads only.
LEMMA CalmStep ==
  ASSUME SInv, SigInv, cond_waiters' = cond_waiters,
         \A t \in Thread : value'[t] = value[t],
         \A t \in Thread :
           \/ /\ pc'[t] = pc[t] /\ arg'[t] = arg[t] /\ cv'[t] = cv[t]
              /\ \A l \in Lock : holder[l] = t => holder'[l] = t
           \/ Calm(t) /\ Calm(t)' /\ CallOf(t)'
  PROVE  SigInv'
<1> DEFINE Same(t) == /\ pc'[t] = pc[t] /\ arg'[t] = arg[t] /\ cv'[t] = cv[t]
                      /\ \A l \in Lock : holder[l] = t => holder'[l] = t
<1>1. ASSUME NEW t \in Thread
      PROVE  /\ Sleeping(t)' <=> Sleeping(t)
             /\ Entering(t)' <=> Entering(t)
             /\ ~Calm(t) => Same(t)
             /\ pc'[t] = "signal" <=> pc[t] = "signal"
             /\ pc[t] = "signal" => Same(t)
  BY Zenon DEF Calm, Sleeping, Entering
<1>2. ASSUME NEW t \in Thread, Sleeping(t)
      PROVE  cv[t] \in Cond /\ lock_of[cv[t]] \in Lock
  BY <1>2, Names, Zenon DEF SInv, InCall, InCallOf, Sleeping
<1>3. ASSUME NEW t \in Thread PROVE CallOf(t)'
  <2>1. CASE Calm(t)' /\ CallOf(t)'
    BY <2>1, Zenon
  <2>2. CASE Same(t)
    <3>1. pc[t] \in {"wait1", "bcast"} => lock_of[cv[t]] \in Lock
      BY Names, Zenon DEF SInv, InCall, InCallOf
    <3>2. ASSUME pc[t] = "signal"
          PROVE  /\ Sleeping(arg[t])' /\ cv'[t] \in {NULL, cv'[arg'[t]]}
                 /\ holder'[lock_of[cv'[arg'[t]]]] = t
      <4>1. PICK w \in Thread : w = arg[t] /\ arg'[t] = w
        BY <2>2, <3>2, Zenon DEF SInv, InCall, InCallOf
      <4>2. Sleeping(w) /\ holder[lock_of[cv[w]]] = t /\ cv[t] \in {NULL, cv[w]}
        BY <3>2, <4>1 DEF SigInv, CallOf
      <4>3. cv'[w] = cv[w] /\ lock_of[cv[w]] \in Lock /\ Sleeping(w)'
        BY <1>1, <1>2, <4>2, Zenon DEF Calm
      <4> QED
        BY <2>2, <4>1, <4>2, <4>3, Zenon
    <3>3. CallOf(t)
      BY Zenon DEF SigInv
    <3> QED
      BY <2>2, <3>1, <3>2, <3>3, Zenon DEF CallOf
  <2> QED
    BY <2>1, <2>2, Zenon
<1>4. ASSUME NEW t \in Thread PROVE QueueOf(t)'
  <2>1. QueueOf(t)
    BY Zenon DEF SigInv
  <2>2. \A c \in Cond : OnList(cond_waiters[c], t)' <=> OnList(cond_waiters[c], t)
    BY Zenon DEF OnList
  <2>3. Sleeping(t) \/ Entering(t) => cv'[t] = cv[t]
    BY <1>1, Zenon DEF Calm
  <2> QED
    BY <1>1, <2>1, <2>2, <2>3, Zenon DEF QueueOf
<1>5. ASSUME NEW t \in Thread PROVE SignalOf(t)'
  <2>1. SignalOf(t)
    BY Zenon DEF SigInv
  <2>2. Popped(t)' <=> Popped(t)
    BY <1>1, Zenon DEF Popped
  <2>3. Sleeping(t) => cv'[t] = cv[t]
    BY <1>1, Zenon DEF Calm
  <2>4. Sleeping(t) => (Queued(t)' <=> Queued(t))
    BY <2>3, Zenon DEF Queued, OnList
  <2> QED
    BY <1>1, <2>1, <2>2, <2>4, Zenon DEF SignalOf
<1>6. OnePopper'
  <2>1. ASSUME NEW t \in Thread, NEW u \in Thread,
               pc'[t] = "signal", pc'[u] = "signal", arg'[t] = arg'[u]
        PROVE  t = u
    <3>1. pc[t] = "signal" /\ pc[u] = "signal" /\ arg[t] = arg[u]
      BY <1>1, <2>1, Zenon
    <3> QED
      BY <3>1, Zenon DEF SigInv, OnePopper
  <2> QED
    BY <2>1, Zenon DEF OnePopper
<1>7. \A c \in Cond : NoDuplicates(cond_waiters[c])'
  BY Zenon DEF SigInv, NoDuplicates
<1> QED
  BY <1>3, <1>4, <1>5, <1>6, <1>7, Zenon DEF SigInv

\* A thread in thread.c, or in an operation on a semaphore of its own or on a
\* lock, is calm.
LEMMA CalmAt ==
  ASSUME NEW t \in Thread,
         \/ pc[t] \in {"none", "new", "run", "create", "own", "wait3", "bcast"}
         \/ pc[t] = "down" /\ arg[t] # t
         \/ pc[t] = "unlock" /\ cv[t] = NULL
  PROVE  Calm(t)
  BY Zenon DEF Calm, Sleeping, Entering

\* sema_down on a semaphore of its own, or on a lock that is acquired from
\* outside cond_wait or at the end of it.
LEMMA DownCalm ==
  ASSUME SInv, SigInv, current \in Thread, NEW s \in Sema \cup Lock, sema_down(s),
         Calm(current),
         s \in Sema => cv[current] = NULL,
         s \in Lock /\ cv[current] # NULL => lock_of[cv[current]] = s
  PROVE  SigInv'
<1>0. PICK me \in Thread : me = current
  BY Zenon
<1>1. s \in AnySema /\ s \notin Thread /\ (s \in Sema => s \notin Lock)
  BY Names, Zenon
<1>2. /\ holder' = holder /\ cond_waiters' = cond_waiters /\ cv' = cv
      /\ \A t \in Thread : t # current => pc'[t] = pc[t] /\ arg'[t] = arg[t]
      /\ \A t \in Thread : value'[t] = value[t]
      /\ \/ pc'[current] = "down" /\ arg'[current] = s
         \/ s \in Lock /\ pc'[current] = "own" /\ arg'[current] = s
         \/ s \in Sema /\ pc'[current] = "run"
  BY <1>1, DownMoves, Names, Zenon
<1>3. Calm(me)'
  BY <1>0, <1>1, <1>2, Zenon DEF Calm, Sleeping, Entering
<1>4. CallOf(me)'
  BY <1>0, <1>1, <1>2, Zenon DEF CallOf
<1> QED
  BY <1>0, <1>2, <1>3, <1>4, CalmStep, Zenon

\* The steps that have nothing to do with condition variables, and those at
\* the end of cond_wait and cond_broadcast.
LEMMA SigCalm ==
  ASSUME SInv, SigInv,
         \/ SchedStep \/ SemaDown \/ SemaTryDown \/ SemaUp \/ IntrSemaUp \/ IntrSemaTryDown
         \/ LockAcquire \/ LockTryAcquire \/ LockRelease \/ SetHolder
         \/ CondWaitAcquire \/ BroadcastDone
  PROVE  SigInv'
<1>1. CASE SchedStep
  <2>1. SchedShape /\ UNCHANGED synch_vars
    BY <1>1, SchedStepShape, Zenon
  <2>2. /\ value' = value /\ holder' = holder /\ cond_waiters' = cond_waiters /\ cv' = cv
        /\ \A t \in Thread :
             \/ pc'[t] = pc[t] /\ arg'[t] = arg[t]
             \/ {pc[t], pc'[t]} \subseteq {"none", "new", "run", "create"}
    BY <2>1, Zenon DEF SchedShape, synch_vars
  <2>3. ASSUME NEW t \in Thread, {pc[t], pc'[t]} \subseteq {"none", "new", "run", "create"}
        PROVE  Calm(t) /\ Calm(t)' /\ CallOf(t)'
    <3>1. cv[t] = NULL /\ cv'[t] = NULL
      BY <2>2, <2>3, Zenon DEF SigInv, CallOf
    <3> QED
      BY <2>3, <3>1, Zenon DEF Calm, Sleeping, Entering, CallOf
  <2> QED
    BY <2>2, <2>3, CalmStep, Zenon
<1>2. CASE SemaTryDown \/ SemaUp \/ IntrSemaUp \/ IntrSemaTryDown
  <2>1. /\ pc \in [AnyThread -> SynchLabels] /\ current \in AnyThread /\ Labelled
        /\ value \in [AnySema -> Nat]
    BY Zenon DEF SInv, SynchTypeOK, SchedTypeOK
  <2>2. /\ UNCHANGED <<arg, holder, cond_waiters, cv>> /\ \A t \in Thread : pc'[t] = pc[t]
    <3>1. CASE UNCHANGED pc
      BY <1>2, <3>1, Zenon DEF SemaTryDown, SemaUp, IntrSemaUp, IntrSemaTryDown, vars
    <3>2. CASE LeaveHlt
      BY <1>2, <2>1, <3>2, LeaveHltFacts, Zenon
        DEF SemaTryDown, SemaUp, IntrSemaUp, IntrSemaTryDown, vars, SynchLabels
    <3> QED
      BY <1>2, <3>1, <3>2, Zenon DEF SemaTryDown, SemaUp, IntrSemaUp, IntrSemaTryDown, vars
  <2>3. PICK s \in Sema : sema_try_down(s) \/ sema_up(s)
    BY <1>2, Zenon DEF SemaTryDown, SemaUp, IntrSemaUp, IntrSemaTryDown
  <2>4. \A t \in Thread : value'[t] = value[t]
    BY <2>1, <2>3, Names DEF sema_try_down, sema_up
  <2> QED
    BY <2>2, <2>4, CalmStep, Zenon
<1>3. CASE SemaDown \/ LockAcquire
  <2>1. current \in Thread /\ pc[current] = "run"
    BY <1>3, AtCall, Zenon DEF SemaDown, LockAcquire
  <2>2. PICK s \in Sema \cup Lock : sema_down(s)
    BY <1>3, Zenon DEF SemaDown, LockAcquire
  <2>3. cv[current] = NULL /\ Calm(current)
    BY <2>1, CalmAt, Zenon DEF SigInv, CallOf
  <2> QED
    BY <2>1, <2>2, <2>3, DownCalm, Zenon
<1>4. CASE CondWaitAcquire
  <2>1. current \in Thread /\ pc[current] = "wait3" /\ InCallOf(current)
    BY <1>4, AtCall, Zenon DEF CondWaitAcquire
  <2>2. PICK l \in Lock : l = lock_of[cv[current]] /\ sema_down(l) /\ l \notin Sema
    BY <1>4, <2>1, Names, Zenon DEF CondWaitAcquire, InCallOf
  <2>3. Calm(current)
    BY <2>1, CalmAt, Zenon
  <2> QED
    BY <2>1, <2>2, <2>3, DownCalm, Zenon
<1>5. CASE LockTryAcquire
  <2>1. /\ SynchTypeOK /\ current \in Thread /\ pc[current] = "run" /\ Goto("own")
        /\ UNCHANGED <<holder, cond_waiters, cv>>
    BY <1>5, AtCall, Zenon DEF LockTryAcquire
  <2>2. PICK k \in Lock : sema_try_down(k) /\ SetArg(k)
    BY <1>5, Zenon DEF LockTryAcquire
  <2>3. k \in AnySema \cup {idle_thread} /\ "own" \in SynchLabels
    BY Names, Zenon DEF SynchLabels
  <2>4. /\ pc'[current] = "own" /\ arg'[current] = k
        /\ \A t \in Thread : t # current => pc'[t] = pc[t] /\ arg'[t] = arg[t]
    BY <2>1, <2>2, <2>3, GotoFacts, Zenon
  <2>5. \A t \in Thread : value'[t] = value[t]
    BY <2>1, <2>2, Names, Zenon DEF sema_try_down, SynchTypeOK
  <2>6. cv[current] = NULL /\ Calm(current)
    BY <2>1, CalmAt, Zenon DEF SigInv, CallOf
  <2>0. PICK me \in Thread : me = current
    BY <2>1, Zenon
  <2>7. Calm(me)' /\ CallOf(me)'
    BY <2>0, <2>1, <2>4, <2>6, Zenon DEF Calm, Sleeping, Entering, CallOf
  <2> QED
    BY <2>0, <2>1, <2>4, <2>5, <2>6, <2>7, CalmStep, Zenon
<1>6. CASE SetHolder
  <2>1. /\ SynchTypeOK /\ current \in Thread /\ pc[current] = "own" /\ InCallOf(current)
        /\ UNCHANGED <<value, cond_waiters>> /\ Goto("run") /\ SetArg(current)
    BY <1>6, AtCall, Zenon DEF SetHolder, NoArg
  <2>2. PICK k \in Lock : /\ holder[k] = NULL /\ holder' = [holder EXCEPT ![k] = current]
                          /\ cv' = [cv EXCEPT ![current] = NULL]
    BY <1>6, <2>1, Zenon DEF SetHolder, InCallOf
  <2>3. current \in AnySema \cup {idle_thread} /\ "run" \in SynchLabels /\ current \in AnyThread
    BY <2>1, Names, Zenon DEF SynchLabels
  <2>4. /\ pc'[current] = "run"
        /\ \A t \in Thread : t # current => pc'[t] = pc[t] /\ arg'[t] = arg[t]
    BY <2>1, <2>3, GotoFacts, Zenon
  <2>5. /\ cv'[current] = NULL /\ \A t \in Thread : t # current => cv'[t] = cv[t]
        /\ \A t \in Thread, l \in Lock : holder[l] = t => holder'[l] = t
    BY <2>1, <2>2, <2>3, Names, Zenon DEF SynchTypeOK
  <2>6. Calm(current)
    BY <2>1, CalmAt, Zenon
  <2>0. PICK me \in Thread : me = current
    BY <2>1, Zenon
  <2>7. Calm(me)' /\ CallOf(me)'
    BY <2>0, <2>4, <2>5, Zenon DEF Calm, Sleeping, Entering, CallOf
  <2> QED
    BY <2>0, <2>1, <2>4, <2>5, <2>6, <2>7, CalmStep
<1>7. CASE LockRelease
  <2>1. SynchTypeOK /\ current \in Thread /\ pc[current] = "run"
    BY <1>7, AtCall, Zenon DEF LockRelease
  <2>2. PICK k \in Lock : ClearHolder(k)
    BY <1>7, Zenon DEF LockRelease
  <2>3. /\ holder[k] = current /\ holder' = [holder EXCEPT ![k] = NULL]
        /\ UNCHANGED <<value, cond_waiters, cv>> /\ Goto("unlock") /\ SetArg(k)
        /\ k \in AnySema \cup {idle_thread} /\ "unlock" \in SynchLabels
    BY <2>2, Names, Zenon DEF ClearHolder, lock_held_by_current_thread, SynchLabels
  <2>4. /\ pc'[current] = "unlock" /\ arg'[current] = k
        /\ \A t \in Thread : t # current => pc'[t] = pc[t] /\ arg'[t] = arg[t]
    BY <2>1, <2>3, GotoFacts, Zenon
  <2>5. \A t \in Thread, l \in Lock : t # current /\ holder[l] = t => holder'[l] = t
    BY <2>1, <2>3, Zenon DEF SynchTypeOK
  <2>6. cv[current] = NULL /\ Calm(current)
    BY <2>1, CalmAt, Zenon DEF SigInv, CallOf
  <2>0. PICK me \in Thread : me = current
    BY <2>1, Zenon
  <2>7. Calm(me)' /\ CallOf(me)'
    BY <2>0, <2>3, <2>4, <2>6, Zenon DEF Calm, Sleeping, Entering, CallOf
  <2> QED
    BY <2>0, <2>3, <2>4, <2>5, <2>6, <2>7, CalmStep, Zenon
<1>8. CASE BroadcastDone
  <2>1. /\ SynchTypeOK /\ current \in Thread /\ current \in AnyThread /\ pc[current] = "bcast"
        /\ UNCHANGED <<arg, value, holder, cond_waiters>>
        /\ cv' = [cv EXCEPT ![current] = NULL] /\ pc' = [pc EXCEPT ![current] = "run"]
    BY <1>8, AtCall, Names, Zenon DEF BroadcastDone, Goto
  <2>2. /\ pc'[current] = "run" /\ cv'[current] = NULL
        /\ \A t \in Thread : t # current => pc'[t] = pc[t] /\ cv'[t] = cv[t]
    BY <2>1, Names, Zenon DEF SynchTypeOK
  <2>0. PICK me \in Thread : me = current
    BY <2>1, Zenon
  <2>3. Calm(me) /\ Calm(me)' /\ CallOf(me)'
    BY <2>0, <2>1, <2>2, Zenon DEF Calm, Sleeping, Entering, CallOf
  <2> QED
    BY <2>0, <2>1, <2>2, <2>3, CalmStep, Zenon
<1> QED
  BY <1>1, <1>2, <1>3, <1>4, <1>5, <1>6, <1>7, <1>8

\* A thread that is entering cond_wait still owns the condition's lock, so
\* nobody else holds it.
LEMMA EnteringOwns ==
  ASSUME SInv, SigInv, NEW t \in Thread, Entering(t)
  PROVE  /\ cv[t] \in Cond /\ Owns(t, lock_of[cv[t]])
         /\ \A u \in Thread : holder[lock_of[cv[t]]] = u => u = t
<1>1. InCallOf(t) /\ CallOf(t) /\ LockExclusion /\ cv[t] \in Cond \cup {NULL}
  BY Names, Zenon DEF SInv, SigInv, InCall, SynchTypeOK
<1>2. cv[t] \in Cond /\ lock_of[cv[t]] \in Lock
  BY <1>1, Names, Zenon DEF InCallOf, Entering
<1>3. Owns(t, lock_of[cv[t]])
  BY <1>1, <1>2, Zenon DEF InCallOf, CallOf, Entering, Owns
<1> QED
  BY <1>1, <1>2, <1>3 DEF LockExclusion, Owns

\* A thread that moves through cond_wait while the others and the queues stay
\* as they are.
LEMMA WaiterStep ==
  ASSUME SInv, SigInv, NEW me \in Thread,
         pc[me] # "signal", pc'[me] # "signal", cond_waiters' = cond_waiters,
         \A t \in Thread : t # me =>
           /\ pc'[t] = pc[t] /\ arg'[t] = arg[t] /\ cv'[t] = cv[t] /\ value'[t] = value[t]
           /\ \A l \in Lock : holder[l] = t => holder'[l] = t,
         Popped(me) => Sleeping(me)' /\ cv'[me] = cv[me],
         CallOf(me)', QueueOf(me)', SignalOf(me)'
  PROVE  SigInv'
<1>1. ASSUME NEW t \in Thread, t # me
      PROVE  /\ Sleeping(t)' <=> Sleeping(t)
             /\ Entering(t)' <=> Entering(t)
             /\ Popped(t)' <=> Popped(t)
             /\ Queued(t)' <=> Queued(t)
             /\ \A c \in Cond : OnList(cond_waiters[c], t)' <=> OnList(cond_waiters[c], t)
  <2>1. Sleeping(t)' <=> Sleeping(t)
    BY <1>1, Zenon DEF Sleeping
  <2>2. Entering(t)' <=> Entering(t)
    BY <1>1, Zenon DEF Entering
  <2>3. Popped(t)' <=> Popped(t)
    BY <1>1, Zenon DEF Popped
  <2>4. \A c \in Cond : OnList(cond_waiters[c], t)' <=> OnList(cond_waiters[c], t)
    BY Zenon DEF OnList
  <2>5. Queued(t)' <=> Queued(t)
    BY <1>1, Zenon DEF Queued, OnList
  <2> QED
    BY <2>1, <2>2, <2>3, <2>4, <2>5, Zenon
<1>2. ASSUME NEW t \in Thread, t # me PROVE CallOf(t)'
  <2>1. CallOf(t)
    BY Zenon DEF SigInv
  <2>2. pc[t] \in {"wait1", "bcast"} => lock_of[cv[t]] \in Lock
    BY Names, Zenon DEF SInv, InCall, InCallOf
  <2>3. ASSUME pc[t] = "signal"
        PROVE  /\ Sleeping(arg[t])' /\ cv'[t] \in {NULL, cv'[arg'[t]]}
               /\ holder'[lock_of[cv'[arg'[t]]]] = t
    <3>1. PICK w \in Thread : w = arg[t] /\ arg'[t] = w
      BY <1>2, <2>3, Zenon DEF SInv, InCall, InCallOf
    <3>2. Sleeping(w) /\ holder[lock_of[cv[w]]] = t /\ cv[t] \in {NULL, cv[w]}
      BY <2>1, <2>3, <3>1, Zenon DEF CallOf
    <3>3. Sleeping(w)' /\ cv'[w] = cv[w] /\ lock_of[cv[w]] \in Lock
      <4>1. lock_of[cv[w]] \in Lock
        BY <3>2, Names, Zenon DEF SInv, InCall, InCallOf, Sleeping
      <4>2. CASE w = me
        BY <2>3, <3>1, <4>1, <4>2, Zenon DEF Popped
      <4>3. CASE w # me
        BY <1>1, <3>2, <4>1, <4>3, Zenon
      <4> QED
        BY <4>2, <4>3, Zenon
    <3>4. holder'[lock_of[cv[w]]] = t /\ cv'[t] = cv[t]
      BY <1>2, <3>2, <3>3, Zenon
    <3> QED
      BY <3>1, <3>2, <3>3, <3>4, Zenon
  <2> QED
    BY <1>2, <2>1, <2>2, <2>3, ZenonT(40) DEF CallOf
<1>3. ASSUME NEW t \in Thread, t # me PROVE QueueOf(t)' /\ SignalOf(t)'
  <2>1. QueueOf(t) /\ SignalOf(t)
    BY Zenon DEF SigInv
  <2>2. QueueOf(t)'
    BY <1>1, <1>3, <2>1, Zenon DEF QueueOf
  <2>3. SignalOf(t)'
    BY <1>1, <1>3, <2>1, Zenon DEF SignalOf
  <2> QED
    BY <2>2, <2>3, Zenon
<1>4. OnePopper'
  <2>1. ASSUME NEW t \in Thread, NEW u \in Thread,
               pc'[t] = "signal", pc'[u] = "signal", arg'[t] = arg'[u]
        PROVE  t = u
    <3>1. pc[t] = "signal" /\ pc[u] = "signal" /\ arg[t] = arg[u]
      BY <2>1, Zenon
    <3> QED
      BY <3>1, Zenon DEF SigInv, OnePopper
  <2> QED
    BY <2>1, Zenon DEF OnePopper
<1>5. \A c \in Cond : NoDuplicates(cond_waiters[c])'
  BY Zenon DEF SigInv, NoDuplicates
<1> QED
  BY <1>2, <1>3, <1>4, <1>5, Zenon DEF SigInv

\* cond_wait clears the holder of its lock.
LEMMA SigRelease ==
  ASSUME SInv, SigInv, CondWaitRelease
  PROVE  SigInv'
<1>1. /\ SynchTypeOK /\ current \in Thread /\ pc[current] = "wait1" /\ InCallOf(current)
  BY AtCall, Zenon DEF CondWaitRelease
<1>2. PICK me \in Thread : me = current
  BY <1>1, Zenon
<1>3. PICK k \in Lock : k = lock_of[cv[me]] /\ ClearHolder(k) /\ cv[me] \in Cond
  BY <1>1, <1>2, Names, Zenon DEF CondWaitRelease, InCallOf
<1>4. /\ holder[k] = me /\ holder' = [holder EXCEPT ![k] = NULL]
      /\ UNCHANGED <<value, cond_waiters, cv>> /\ Goto("unlock") /\ SetArg(k)
      /\ k \in AnySema \cup {idle_thread} /\ "unlock" \in SynchLabels /\ k \notin Sema
  BY <1>2, <1>3, Names, Zenon DEF ClearHolder, lock_held_by_current_thread, SynchLabels
<1>5. /\ pc'[me] = "unlock" /\ arg'[me] = k
      /\ \A t \in Thread : t # me => pc'[t] = pc[t] /\ arg'[t] = arg[t]
  BY <1>1, <1>2, <1>4, GotoFacts, Zenon
<1>6. \A t \in Thread, l \in Lock : t # me /\ holder[l] = t => holder'[l] = t
  BY <1>1, <1>4, Zenon DEF SynchTypeOK
<1>7. /\ pc[me] = "wait1" /\ Entering(me) /\ ~Sleeping(me) /\ Entering(me)' /\ ~Sleeping(me)'
  BY <1>1, <1>2, <1>3, <1>4, <1>5, Names, Zenon DEF Entering, Sleeping
<1>8. ~Popped(me)
  BY <1>7, Zenon DEF SigInv, CallOf, Popped
<1>9. CallOf(me)'
  BY <1>3, <1>4, <1>5, Zenon DEF CallOf
<1>10. QueueOf(me)'
  <2>1. QueueOf(me)
    BY Zenon DEF SigInv
  <2>2. \A c \in Cond : OnList(cond_waiters[c], me)' <=> OnList(cond_waiters[c], me)
    BY <1>4, Zenon DEF OnList
  <2> QED
    BY <1>4, <1>7, <2>1, <2>2, Zenon DEF QueueOf
<1>11. SignalOf(me)'
  BY <1>7, Zenon DEF SignalOf
<1>12. ASSUME NEW t \in Thread, t # me
       PROVE  /\ pc'[t] = pc[t] /\ arg'[t] = arg[t] /\ cv'[t] = cv[t] /\ value'[t] = value[t]
              /\ \A l \in Lock : holder[l] = t => holder'[l] = t
  BY <1>4, <1>5, <1>6, <1>12, Zenon
<1>13. pc[me] # "signal" /\ pc'[me] # "signal" /\ cond_waiters' = cond_waiters
  BY <1>4, <1>5, <1>7, Zenon
<1> QED
  BY <1>8, <1>9, <1>10, <1>11, <1>12, <1>13, WaiterStep, Zenon

\* The sema_up() of a lock_release(): in cond_wait the thread has released
\* the lock and is queued.
LEMMA SigUnlock ==
  ASSUME SInv, SigInv, Unlock
  PROVE  SigInv'
<1>1. /\ SynchTypeOK /\ current \in Thread /\ pc[current] = "unlock" /\ InCallOf(current)
      /\ UNCHANGED <<holder, cond_waiters, cv>>
  BY AtCall, Zenon DEF Unlock
<1>2. PICK me \in Thread : me = current
  BY <1>1, Zenon
<1>3. PICK k \in Lock : k = arg[me] /\ sema_up(k) /\ k \in AnySema
  BY <1>1, <1>2, Names, Zenon DEF Unlock, InCallOf
<1>4. PICK l \in {"run", "wait2"} :
        /\ Goto(l) /\ SetArg(current) /\ (l = "wait2" <=> cv[me] # NULL)
        /\ l \in SynchLabels /\ current \in AnySema \cup {idle_thread}
  BY <1>1, <1>2, Names, Zenon DEF Unlock, NoArg, SynchLabels
<1>5. /\ pc'[me] = l
      /\ \A t \in Thread : t # me => pc'[t] = pc[t] /\ arg'[t] = arg[t]
  BY <1>1, <1>2, <1>4, GotoFacts, Zenon
<1>6. \A t \in Thread : value'[t] = value[t]
  BY <1>3, UpMoves, Names, Zenon
<1>7. pc[me] = "unlock" /\ ~Sleeping(me)
  BY <1>1, <1>2, Zenon DEF Sleeping
<1>8. ~Popped(me)
  BY <1>7, Zenon DEF SigInv, CallOf, Popped
<1>9. CallOf(me)'
  BY <1>1, <1>4, <1>5, Zenon DEF CallOf
<1>10. \A c \in Cond : OnList(cond_waiters[c], me)' <=> OnList(cond_waiters[c], me)
  BY <1>1, Zenon DEF OnList
<1>11. QueueOf(me)
  BY Zenon DEF SigInv
<1>12. CASE cv[me] = NULL
  <2>1. ~Entering(me) /\ ~Entering(me)' /\ ~Sleeping(me)'
    BY <1>4, <1>5, <1>7, <1>12, Zenon DEF Entering, Sleeping
  <2>2. QueueOf(me)' /\ SignalOf(me)'
    BY <1>7, <1>10, <1>11, <2>1, Zenon DEF QueueOf, SignalOf
  <2> QED
    BY <1>1, <1>4, <1>5, <1>6, <1>7, <1>8, <1>9, <2>2, WaiterStep, Zenon
<1>13. CASE cv[me] # NULL
  <2>1. Entering(me) /\ ~Entering(me)' /\ Sleeping(me)' /\ pc'[me] = "wait2"
    BY <1>4, <1>5, <1>7, <1>13, Zenon DEF Entering, Sleeping
  <2>2. cv[me] \in Cond /\ cond_waiters \in [Cond -> Seq(Thread)]
    BY <2>1, EnteringOwns, Zenon DEF SInv, SynchTypeOK
  <2>3. QueueOf(me)'
    BY <1>1, <1>10, <1>11, <2>1, Zenon DEF QueueOf
  <2>4. /\ cond_waiters[cv[me]] # <<>>
        /\ cond_waiters[cv[me]][Len(cond_waiters[cv[me]])] = me
        /\ value[me] = 0
    BY <1>11, <2>1, Zenon DEF QueueOf
  <2>5. Len(cond_waiters[cv[me]]) \in DOMAIN cond_waiters[cv[me]]
    BY <2>2, <2>4
  <2>6. Queued(me)'
    BY <1>1, <2>4, <2>5, Zenon DEF Queued, OnList
  <2>7. ~Popped(me)'
    BY <1>5, <1>7, <1>8, <2>1, Zenon DEF Popped
  <2>8. SignalOf(me)'
    BY <1>6, <2>4, <2>6, <2>7 DEF SignalOf
  <2> QED
    BY <1>1, <1>4, <1>5, <1>6, <1>7, <1>8, <1>9, <2>3, <2>8, WaiterStep, Zenon
<1> QED
  BY <1>12, <1>13, Zenon

\* cond_wait sleeps on its waiter's semaphore, or finds it up and goes on.
LEMMA SigDown ==
  ASSUME SInv, SigInv, CondWaitDown \/ DownAgain
  PROVE  SigInv'
<1>1. /\ SynchTypeOK /\ current \in Thread /\ InCallOf(current)
      /\ pc[current] \in {"wait2", "down"}
  BY AtCall, Zenon DEF CondWaitDown, DownAgain
<1>2. PICK me \in Thread : me = current
  BY <1>1, Zenon
<1>3. CASE pc[me] = "down" /\ arg[me] # me
  <2>1. PICK s \in Sema \cup Lock : s = arg[current] /\ sema_down(s)
    BY <1>1, <1>2, <1>3, Zenon DEF DownAgain, CondWaitDown, InCallOf, At
  <2>2. Calm(current)
    BY <1>1, <1>2, <1>3, CalmAt, Zenon
  <2>3. /\ s \in Sema => cv[current] = NULL
        /\ s \in Lock /\ cv[current] # NULL => lock_of[cv[current]] = s
    BY <1>1, <1>2, <1>3, <2>1, Zenon DEF SigInv, CallOf
  <2> QED
    BY <1>1, <2>1, <2>2, <2>3, DownCalm, Zenon
<1>4. CASE Sleeping(me)
  <2>1. sema_down(me) /\ me \in AnySema /\ cv[me] \in Cond /\ me \notin Lock /\ me \notin Sema
    BY <1>1, <1>2, <1>4, Names, Zenon DEF Sleeping, CondWaitDown, DownAgain, At, InCallOf
  <2>2. /\ holder' = holder /\ cond_waiters' = cond_waiters /\ cv' = cv
        /\ \A t \in Thread : t # me => pc'[t] = pc[t] /\ arg'[t] = arg[t]
        /\ \A t \in Thread : t # me => value'[t] = value[t]
        /\ \/ value[me] = 0 /\ value' = value /\ pc'[me] = "down" /\ arg'[me] = me
           \/ value[me] > 0 /\ pc'[me] = "wait3"
    BY <1>1, <1>2, <2>1, DownMoves, Names, ZenonT(40)
  <2>3. CallOf(me)'
    BY <1>2, <2>1, <2>2, Zenon DEF CallOf
  <2>4. /\ \A c \in Cond : OnList(cond_waiters[c], me)' <=> OnList(cond_waiters[c], me)
        /\ Queued(me)' <=> Queued(me)
    BY <2>2, Zenon DEF OnList, Queued
  <2>5. pc[me] # "signal" /\ pc'[me] # "signal" /\ ~Entering(me) /\ ~Entering(me)'
    BY <1>1, <1>2, <2>2, Zenon DEF Entering
  <2>6. Popped(me)' <=> Popped(me)
    BY <2>2, <2>5, Zenon DEF Popped
  <2>7. QueueOf(me) /\ SignalOf(me)
    BY Zenon DEF SigInv
  <2>8. CASE value[me] = 0
    <3>1. Sleeping(me)' /\ value' = value
      BY <2>2, <2>8 DEF Sleeping
    <3>2. QueueOf(me)' /\ SignalOf(me)'
      BY <1>4, <2>2, <2>4, <2>5, <2>6, <2>7, <3>1, Zenon DEF QueueOf, SignalOf
    <3> QED
      BY <2>2, <2>3, <2>5, <3>1, <3>2, WaiterStep, Zenon
  <2>9. CASE value[me] > 0
    <3>1. ~Sleeping(me)'
      BY <2>2, <2>9 DEF Sleeping
    <3>2. value[me] = 1 /\ ~Queued(me) /\ ~Popped(me)
      BY <1>4, <2>7, <2>9 DEF SignalOf
    <3>3. \A c \in Cond : ~OnList(cond_waiters[c], me)
      BY <2>7, <3>2, Zenon DEF QueueOf, Queued
    <3>4. QueueOf(me)' /\ SignalOf(me)'
      BY <2>4, <2>5, <3>1, <3>3, Zenon DEF QueueOf, SignalOf
    <3> QED
      BY <2>2, <2>3, <2>5, <3>2, <3>4, WaiterStep, Zenon
  <2>10. value[me] \in Nat
    BY <2>1, Zenon DEF SInv, SynchTypeOK
  <2> QED
    BY <2>8, <2>9, <2>10
<1> QED
  BY <1>1, <1>2, <1>3, <1>4, Zenon DEF Sleeping

\* cond_wait() queues the running thread.
LEMMA SigEnter ==
  ASSUME SInv, SigInv, CondWait
  PROVE  SigInv'
<1>1. /\ SynchTypeOK /\ current \in Thread /\ pc[current] = "run" /\ pc \in [AnyThread -> SynchLabels]
      /\ UNCHANGED <<arg, holder>> /\ pc' = [pc EXCEPT ![current] = "wait1"]
  BY AtCall, Zenon DEF CondWait, Goto, SynchTypeOK
<1>2. PICK me \in Thread : me = current
  BY <1>1, Zenon
<1>3. PICK c \in Cond :
        /\ holder[lock_of[c]] = me
        /\ value' = [value EXCEPT ![me] = 0]
        /\ cond_waiters' = [cond_waiters EXCEPT ![c] = Append(@, me)]
        /\ cv' = [cv EXCEPT ![me] = c]
  BY <1>2, Zenon DEF CondWait, lock_held_by_current_thread
<1>4. /\ me \in AnyThread /\ me \in AnySema /\ c # NULL /\ lock_of[c] \in Lock
      /\ cond_waiters \in [Cond -> Seq(Thread)] /\ value \in [AnySema -> Nat]
      /\ cv \in [AnyThread -> Cond \cup {NULL}]
  BY <1>1, Names, Zenon DEF SynchTypeOK
<1>5. /\ pc[me] = "run" /\ pc'[me] = "wait1" /\ cv'[me] = c /\ value'[me] = 0
      /\ \A t \in Thread : t # me => pc'[t] = pc[t] /\ cv'[t] = cv[t] /\ value'[t] = value[t]
  BY <1>1, <1>2, <1>3, <1>4, Names, Zenon
<1> DEFINE q == cond_waiters[c]
<1>6. /\ cond_waiters'[c] = Append(q, me) /\ q \in Seq(Thread) /\ NoDuplicates(q)
      /\ \A d \in Cond : d # c => cond_waiters'[d] = cond_waiters[d]
  BY <1>3, <1>4, Zenon DEF SigInv
<1>7. ~Sleeping(me) /\ ~Entering(me) /\ ~Sleeping(me)' /\ Entering(me)'
  BY <1>5, Zenon DEF Sleeping, Entering
<1>8. \A d \in Cond : ~OnList(cond_waiters[d], me)
  BY <1>7, Zenon DEF SigInv, QueueOf
<1> HIDE DEF q
<1>9. /\ NoDuplicates(Append(q, me))
      /\ \A t : OnList(Append(q, me), t) <=> OnList(q, t) \/ t = me
      /\ Append(q, me) # <<>> /\ Append(q, me)[Len(Append(q, me))] = me
  <2>1. ~OnList(q, me)
    BY <1>8, Zenon DEF q
  <2>2. Append(q, me) # <<>> /\ Append(q, me)[Len(Append(q, me))] = me
    BY <1>6
  <2> QED
    BY <1>6, <2>1, <2>2, QueuedList, Zenon
<1>10. ASSUME NEW t \in Thread, t # me, NEW d \in Cond
       PROVE  OnList(cond_waiters[d], t)' <=> OnList(cond_waiters[d], t)
  <2>1. CASE d = c
    BY <1>6, <1>9, <1>10, <2>1, SMTT(30) DEF OnList, q
  <2>2. CASE d # c
    BY <1>6, <2>2, Zenon DEF OnList
  <2> QED
    BY <2>1, <2>2, Zenon
<1>11. ASSUME NEW t \in Thread, t # me
       PROVE  /\ Sleeping(t)' <=> Sleeping(t)
              /\ Entering(t)' <=> Entering(t)
              /\ Popped(t)' <=> Popped(t)
              /\ Sleeping(t) => (Queued(t)' <=> Queued(t))
  <2>1. Sleeping(t)' <=> Sleeping(t)
    BY <1>1, <1>5, <1>11, Zenon DEF Sleeping
  <2>2. Entering(t)' <=> Entering(t)
    BY <1>5, <1>11, Zenon DEF Entering
  <2>3. Popped(t)' <=> Popped(t)
    BY <1>1, <1>5, Zenon DEF Popped
  <2>4. Sleeping(t) => cv[t] \in Cond
    BY Zenon DEF Sleeping, SInv, InCall, InCallOf
  <2>5. Sleeping(t) => (Queued(t)' <=> Queued(t))
    BY <1>5, <1>10, <1>11, <2>4, Zenon DEF Queued
  <2> QED
    BY <2>1, <2>2, <2>3, <2>5, Zenon
<1>12. ASSUME NEW t \in Thread PROVE CallOf(t)'
  <2>1. CASE t = me
    BY <1>1, <1>3, <1>5, <2>1, Zenon DEF CallOf
  <2>2. CASE t # me
    <3>1. pc[t] = "signal" => arg[t] \in Thread /\ Sleeping(arg[t]) /\ arg[t] # me
      BY <1>7, Zenon DEF SigInv, CallOf, SInv, InCall, InCallOf
    <3>2. CallOf(t)
      BY Zenon DEF SigInv
    <3>3. pc[t] = "signal" => Sleeping(arg[t])'
      <4>1. ASSUME pc[t] = "signal" PROVE Sleeping(arg[t])'
        <5>1. PICK w \in Thread : w = arg[t] /\ Sleeping(w) /\ w # me /\ w = arg'[t]
          BY <1>1, <3>1, <4>1, Zenon
        <5>2. Sleeping(w)'
          BY <1>11, <5>1, Zenon
        <5> QED
          BY <5>1, <5>2, Zenon
      <4> QED
        BY <4>1, Zenon
    <3> QED
      BY <1>1, <1>5, <2>2, <3>1, <3>2, <3>3, Zenon DEF CallOf
  <2> QED
    BY <2>1, <2>2, Zenon
<1>13. ASSUME NEW t \in Thread PROVE QueueOf(t)'
  <2>1. CASE t = me
    <3>1. ASSUME NEW d \in Cond, OnList(cond_waiters[d], me)' PROVE d = c
      BY <1>6, <1>8, <3>1, Zenon DEF OnList
    <3> QED
      BY <1>5, <1>6, <1>7, <1>9, <2>1, <3>1, Zenon DEF QueueOf
  <2>2. CASE t # me
    <3>1. QueueOf(t)
      BY Zenon DEF SigInv
    <3>2. Entering(t) => cv[t] \in Cond /\ cv[t] # c
      BY <1>3, <2>2, EnteringOwns, Zenon
    <3> QED
      BY <1>5, <1>6, <1>10, <1>11, <2>2, <3>1, <3>2, ZenonT(40) DEF QueueOf
  <2> QED
    BY <2>1, <2>2
<1>14. ASSUME NEW t \in Thread PROVE SignalOf(t)'
  <2>1. CASE t = me
    BY <1>7, <2>1, Zenon DEF SignalOf
  <2>2. CASE t # me
    BY <1>5, <1>11, <2>2, Zenon DEF SigInv, SignalOf
  <2> QED
    BY <2>1, <2>2
<1>15. OnePopper'
  BY <1>1, <1>5 DEF SigInv, OnePopper
<1>16. \A d \in Cond : NoDuplicates(cond_waiters[d])'
  BY <1>6, <1>9, Zenon DEF SigInv, NoDuplicates
<1> QED
  BY <1>12, <1>13, <1>14, <1>15, <1>16, Zenon DEF SigInv

\* What a signaller finds: the first on the queue has released the lock, its
\* semaphore is down, and nobody else is about to up it.
LEMMA HeadSleeps ==
  ASSUME SInv, SigInv, NEW me \in Thread, pc[me] \in {"run", "bcast"},
         NEW c \in Cond, holder[lock_of[c]] = me, cond_waiters[c] # <<>>
  PROVE  /\ Head(cond_waiters[c]) \in Thread /\ OnList(cond_waiters[c], Head(cond_waiters[c]))
         /\ \A t \in Thread : OnList(cond_waiters[c], t) =>
              Sleeping(t) /\ cv[t] = c /\ value[t] = 0 /\ ~Popped(t)
         /\ \A t \in Thread : Entering(t) => cv[t] # c
<1>1. cond_waiters \in [Cond -> Seq(Thread)] /\ ~Entering(me)
  BY Zenon DEF SInv, SynchTypeOK, Entering
<1>2. Head(cond_waiters[c]) \in Thread /\ OnList(cond_waiters[c], Head(cond_waiters[c]))
  BY <1>1, TailFacts, Zenon DEF OnList
<1>3. \A t \in Thread : Entering(t) => cv[t] # c
  BY <1>1, EnteringOwns, Zenon
<1>4. ASSUME NEW t \in Thread, OnList(cond_waiters[c], t)
      PROVE  Sleeping(t) /\ cv[t] = c /\ value[t] = 0 /\ ~Popped(t)
  <2>1. cv[t] = c /\ Sleeping(t)
    BY <1>3, <1>4, Zenon DEF SigInv, QueueOf
  <2> QED
    BY <1>4, <2>1, Zenon DEF SigInv, SignalOf, Queued
<1> QED
  BY <1>2, <1>3, <1>4, Zenon

\* cond_signal() and cond_broadcast() pop a waiter.
LEMMA SigPop ==
  ASSUME SInv, SigInv, NEW c \in Cond, PopWaiter(c), At("run") \/ (At("bcast") /\ cv[current] = c),
         cv' = cv \/ cv' = [cv EXCEPT ![current] = c]
  PROVE  SigInv'
<1>1. SynchTypeOK /\ current \in Thread /\ pc[current] \in {"run", "bcast"}
  BY AtCall, Zenon
<1>2. PICK me \in Thread : me = current
  BY <1>1, Zenon
<1>3. /\ holder[lock_of[c]] = me /\ cond_waiters[c] # <<>> /\ holder' = holder /\ value' = value
      /\ cond_waiters' = [cond_waiters EXCEPT ![c] = Tail(@)]
      /\ lock_of[c] \in Lock /\ cond_waiters \in [Cond -> Seq(Thread)]
      /\ pc[me] \in {"run", "bcast"} /\ cv \in [AnyThread -> Cond \cup {NULL}] /\ me \in AnyThread
  BY <1>1, <1>2, Names, Zenon DEF PopWaiter, lock_held_by_current_thread, SynchTypeOK
<1>4. PICK w \in Thread : /\ w = Head(cond_waiters[c]) /\ OnList(cond_waiters[c], w)
                          /\ Sleeping(w) /\ cv[w] = c /\ value[w] = 0 /\ ~Popped(w)
  BY <1>3, HeadSleeps, SMTT(30)
<1>5. \A t \in Thread : Entering(t) => cv[t] # c
  BY <1>3, HeadSleeps, ZenonT(40)
<1>6. /\ pc'[me] = "signal" /\ arg'[me] = w
      /\ \A t \in Thread : t # me => pc'[t] = pc[t] /\ arg'[t] = arg[t]
  <2>1. w \in AnySema \cup {idle_thread} /\ "signal" \in SynchLabels /\ Goto("signal") /\ SetArg(w)
    BY <1>4, Names, Zenon DEF PopWaiter, SynchLabels
  <2> QED
    BY <1>1, <1>2, <2>1, GotoFacts, Zenon
<1>7. /\ cv'[me] \in {NULL, c} /\ \A t \in Thread : t # me => cv'[t] = cv[t]
  <2>1. cv[me] \in {NULL, c}
    BY <1>2, <1>3, Zenon DEF SigInv, CallOf, At
  <2> QED
    BY <1>2, <1>3, <2>1, Names, Zenon
<1>8. ~Sleeping(me) /\ ~Entering(me) /\ ~Sleeping(me)' /\ ~Entering(me)' /\ w # me
  BY <1>3, <1>4, <1>6, Zenon DEF Sleeping, Entering
<1>9. /\ \A d \in Cond : NoDuplicates(cond_waiters[d])'
      /\ \A d \in Cond, t \in Thread :
           OnList(cond_waiters[d], t)' <=> OnList(cond_waiters[d], t) /\ (d = c => t # w)
      /\ \A d \in Cond : d # c => cond_waiters'[d] = cond_waiters[d]
  <2> DEFINE q == cond_waiters[c]
  <2>1. /\ cond_waiters'[c] = Tail(q) /\ q \in Seq(Thread) /\ q # <<>> /\ w = Head(q)
        /\ \A d \in Cond : d # c => cond_waiters'[d] = cond_waiters[d]
        /\ \A d \in Cond : NoDuplicates(cond_waiters[d])
    BY <1>3, <1>4, Zenon DEF SigInv
  <2>2. NoDuplicates(q)
    BY <2>1, Zenon
  <2> HIDE DEF q
  <2>3. NoDuplicates(Tail(q)) /\ \A t : OnList(Tail(q), t) <=> OnList(q, t) /\ t # w
    BY <2>1, <2>2, PoppedList, Zenon
  <2>4. \A d \in Cond : NoDuplicates(cond_waiters[d])'
    BY <2>1, <2>3, Zenon DEF NoDuplicates
  <2>5. ASSUME NEW d \in Cond, NEW t \in Thread
        PROVE  OnList(cond_waiters[d], t)' <=> OnList(cond_waiters[d], t) /\ (d = c => t # w)
    <3>1. CASE d = c
      <4>1. OnList(cond_waiters[d], t)' <=> OnList(Tail(q), t)
        BY <2>1, <3>1, Zenon DEF OnList
      <4>2. OnList(cond_waiters[d], t) <=> OnList(q, t)
        BY <3>1, Zenon DEF q
      <4> QED
        BY <2>3, <3>1, <4>1, <4>2, Zenon
    <3>2. CASE d # c
      BY <2>1, <3>2, Zenon DEF OnList
    <3> QED
      BY <3>1, <3>2, Zenon
  <2> QED
    BY <2>1, <2>4, <2>5, Zenon
<1>10. ASSUME NEW t \in Thread
       PROVE  /\ Sleeping(t)' <=> Sleeping(t)
              /\ Entering(t)' <=> Entering(t)
              /\ Popped(t)' <=> Popped(t) \/ t = w
              /\ t # me => cv'[t] = cv[t]
  <2>1. Popped(t)' <=> Popped(t) \/ t = w
    BY <1>3, <1>6, Zenon DEF Popped
  <2>2. CASE t = me
    BY <1>8, <2>1, <2>2, Zenon
  <2>3. CASE t # me
    <3>1. pc'[t] = pc[t] /\ arg'[t] = arg[t] /\ cv'[t] = cv[t]
      BY <1>6, <1>7, <2>3, Zenon
    <3> QED
      BY <2>1, <3>1, Zenon DEF Sleeping, Entering
  <2> QED
    BY <2>2, <2>3, Zenon
<1>11. ASSUME NEW t \in Thread PROVE CallOf(t)'
  <2>1. CASE t = me
    <3>1. Sleeping(w)' /\ cv'[w] = c
      BY <1>4, <1>7, <1>8, <1>10, Zenon
    <3>2. pc'[t] = "signal" /\ arg'[t] = w /\ cv'[t] \in {NULL, c} /\ holder'[lock_of[c]] = t
      BY <1>3, <1>6, <1>7, <2>1, Zenon
    <3>3. Sleeping(arg[t])'
      BY <3>1, <3>2, Zenon
    <3> QED
      BY <3>1, <3>2, <3>3, Zenon DEF CallOf
  <2>2. CASE t # me
    <3>1. CallOf(t)
      BY Zenon DEF SigInv
    <3>2. ASSUME pc[t] = "signal"
          PROVE  /\ Sleeping(arg[t])' /\ cv'[t] \in {NULL, cv'[arg'[t]]}
                 /\ holder'[lock_of[cv'[arg'[t]]]] = t
      <4>1. PICK x \in Thread : x = arg[t] /\ arg'[t] = x
        BY <1>6, <2>2, <3>2, Zenon DEF SInv, InCall, InCallOf
      <4>2. Sleeping(x) /\ holder[lock_of[cv[x]]] = t /\ cv[t] \in {NULL, cv[x]} /\ x # me
        BY <1>8, <3>1, <3>2, <4>1, Zenon DEF CallOf
      <4>3. Sleeping(x)' /\ cv'[x] = cv[x] /\ cv'[t] = cv[t]
        BY <1>10, <2>2, <4>2, Zenon
      <4> QED
        BY <1>3, <4>1, <4>2, <4>3, Zenon
    <3> QED
      BY <1>3, <1>6, <1>7, <2>2, <3>1, <3>2, Zenon DEF CallOf
  <2> QED
    BY <2>1, <2>2, Zenon
<1>12. ASSUME NEW t \in Thread PROVE QueueOf(t)' /\ SignalOf(t)'
  <2>1. QueueOf(t) /\ SignalOf(t)
    BY Zenon DEF SigInv
  <2>2. CASE t = me
    BY <1>8, <1>9, <2>1, <2>2, Zenon DEF QueueOf, SignalOf
  <2>3. CASE t # me
    <3>1. QueueOf(t)'
      <4>1. Entering(t) => cv[t] \in Cond /\ cv[t] # c
        BY <1>5, EnteringOwns, Zenon
      <4> QED
        BY <1>3, <1>9, <1>10, <2>1, <2>3, <4>1, Zenon DEF QueueOf
    <3>2. ASSUME Sleeping(t) PROVE Queued(t)' <=> Queued(t) /\ t # w
      <4>1. cv[t] \in Cond /\ cv'[t] = cv[t]
        BY <1>10, <2>3, <3>2, Zenon DEF Sleeping, SInv, InCall, InCallOf
      <4> QED
        BY <1>4, <1>9, <4>1, Zenon DEF Queued
    <3>3. SignalOf(t)'
      BY <1>3, <1>4, <1>10, <2>1, <3>2, Zenon DEF SignalOf
    <3> QED
      BY <3>1, <3>3, Zenon
  <2> QED
    BY <2>2, <2>3, Zenon
<1>13. OnePopper'
  <2>1. \A u \in Thread : pc[u] = "signal" => arg[u] # w
    BY <1>4, Zenon DEF Popped
  <2> QED
    BY <1>6, <2>1 DEF SigInv, OnePopper
<1> QED
  BY <1>9, <1>11, <1>12, <1>13, Zenon DEF SigInv

\* The sema_up() of cond_signal().
LEMMA SigUp ==
  ASSUME SInv, SigInv, SignalUp
  PROVE  SigInv'
<1>1. /\ SynchTypeOK /\ current \in Thread /\ pc[current] = "signal" /\ InCallOf(current)
      /\ UNCHANGED <<holder, cond_waiters, cv>>
  BY AtCall, Zenon DEF SignalUp
<1>2. PICK me \in Thread : me = current
  BY <1>1, Zenon
<1>3. PICK w \in Thread : w = arg[me] /\ sema_up(w) /\ w \in AnySema
  BY <1>1, <1>2, Names, Zenon DEF SignalUp, InCallOf
<1>4. PICK l \in {"run", "bcast"} :
        /\ Goto(l) /\ SetArg(current) /\ (l = "bcast" <=> cv[me] # NULL)
        /\ l \in SynchLabels /\ current \in AnySema \cup {idle_thread}
  BY <1>1, <1>2, Names, Zenon DEF SignalUp, NoArg, SynchLabels
<1>5. /\ pc'[me] = l
      /\ \A t \in Thread : t # me => pc'[t] = pc[t] /\ arg'[t] = arg[t]
  BY <1>1, <1>2, <1>4, GotoFacts, Zenon
<1>6. value'[w] = value[w] + 1 /\ \A t \in Thread : t # w => value'[t] = value[t]
  BY <1>3, UpMoves, Names
<1>7. /\ Sleeping(w) /\ Popped(w) /\ holder[lock_of[cv[w]]] = me /\ cv[me] \in {NULL, cv[w]}
      /\ pc[me] = "signal" /\ w # me
  BY <1>1, <1>2, <1>3, Zenon DEF SigInv, CallOf, Popped, Sleeping
<1>8. value[w] = 0 /\ ~Queued(w)
  BY <1>7, Zenon DEF SigInv, SignalOf
<1>9. ASSUME NEW t \in Thread
      PROVE  /\ Sleeping(t)' <=> Sleeping(t)
             /\ Entering(t)' <=> Entering(t)
             /\ Popped(t)' <=> Popped(t) /\ t # w
             /\ Queued(t)' <=> Queued(t)
             /\ \A c \in Cond : OnList(cond_waiters[c], t)' <=> OnList(cond_waiters[c], t)
  <2>1. Popped(t)' <=> Popped(t) /\ t # w
    <3>1. \A u \in Thread : pc[u] = "signal" /\ arg[u] = w => u = me
      BY <1>3, <1>7, Zenon DEF SigInv, OnePopper
    <3>2. \A u \in Thread : pc'[u] = "signal" <=> pc[u] = "signal" /\ u # me
      BY <1>5, <1>4, Zenon
    <3> QED
      BY <1>3, <1>5, <3>1, <3>2, Zenon DEF Popped
  <2>2. /\ Queued(t)' <=> Queued(t)
        /\ \A c \in Cond : OnList(cond_waiters[c], t)' <=> OnList(cond_waiters[c], t)
    BY <1>1, Zenon DEF Queued, OnList
  <2>3. (Sleeping(t)' <=> Sleeping(t)) /\ (Entering(t)' <=> Entering(t))
    <3>1. CASE t = me
      BY <1>4, <1>5, <1>7, <3>1, Zenon DEF Sleeping, Entering
    <3>2. CASE t # me
      BY <1>1, <1>5, <3>2, Zenon DEF Sleeping, Entering
    <3> QED
      BY <3>1, <3>2, Zenon
  <2> QED
    BY <2>1, <2>2, <2>3, Zenon
<1>10. ASSUME NEW t \in Thread PROVE CallOf(t)'
  <2>1. CASE t = me
    BY <1>1, <1>4, <1>5, <1>7, <2>1, Zenon DEF CallOf
  <2>2. CASE t # me
    <3>1. CallOf(t) /\ pc'[t] = pc[t] /\ arg'[t] = arg[t]
      BY <1>5, <2>2, Zenon DEF SigInv
    <3>2. ASSUME pc[t] = "signal" PROVE Sleeping(arg[t])'
      <4>1. PICK x \in Thread : x = arg[t] /\ arg'[t] = x /\ Sleeping(x)
        BY <3>1, <3>2, Zenon DEF SInv, InCall, InCallOf, CallOf
      <4>2. Sleeping(x)'
        BY <1>9, <4>1, Zenon
      <4> QED
        BY <4>1, <4>2, Zenon
    <3> QED
      BY <1>1, <3>1, <3>2, Zenon DEF CallOf
  <2> QED
    BY <2>1, <2>2, Zenon
<1>11. ASSUME NEW t \in Thread PROVE QueueOf(t)' /\ SignalOf(t)'
  <2>1. QueueOf(t) /\ SignalOf(t)
    BY Zenon DEF SigInv
  <2>2. ~Entering(w)
    BY <1>7, Zenon DEF Sleeping, Entering
  <2>3. QueueOf(t)'
    BY <1>1, <1>6, <1>9, <2>1, <2>2, Zenon DEF QueueOf
  <2>4. CASE t = w
    <3>1. value'[w] = 1
      BY <1>6, <1>8
    <3> QED
      BY <1>8, <1>9, <2>3, <2>4, <3>1 DEF SignalOf
  <2>5. CASE t # w
    BY <1>6, <1>9, <2>1, <2>3, <2>5, Zenon DEF SignalOf
  <2> QED
    BY <2>4, <2>5, Zenon
<1>12. OnePopper'
  BY <1>4, <1>5, Zenon DEF SigInv, OnePopper
<1>13. \A c \in Cond : NoDuplicates(cond_waiters[c])'
  BY <1>1, Zenon DEF SigInv, NoDuplicates
<1> QED
  BY <1>10, <1>11, <1>12, <1>13, Zenon DEF SigInv

\* At boot nobody is in cond_wait.
LEMMA InitSigInv == SynchInit => SigInv
<1> SUFFICES ASSUME SynchInit PROVE SigInv
  BY Zenon
<1>1. /\ \A t \in Thread : pc[t] \in {"run", "none"} /\ cv[t] = NULL
      /\ \A c \in Cond : cond_waiters[c] = <<>> /\ DOMAIN cond_waiters[c] = {}
  BY Names DEF SynchInit, Init, AnyThread
<1>2. \A t \in Thread : ~Sleeping(t) /\ ~Entering(t)
  BY <1>1, Zenon DEF Sleeping, Entering
<1> QED
  BY <1>1, <1>2, Zenon DEF SigInv, CallOf, QueueOf, SignalOf, OnePopper, NoDuplicates, OnList

\* Every step keeps SigInv.
LEMMA NextSigInv == SInv /\ SigInv /\ [SynchNext]_all_vars => SigInv'
<1> SUFFICES ASSUME SInv, SigInv, [SynchNext]_all_vars PROVE SigInv'
  BY Zenon
<1>1. CASE \/ SchedStep \/ SemaDown \/ SemaTryDown \/ SemaUp \/ IntrSemaUp \/ IntrSemaTryDown
           \/ LockAcquire \/ LockTryAcquire \/ LockRelease \/ SetHolder
           \/ CondWaitAcquire \/ BroadcastDone
  BY <1>1, SigCalm, Zenon
<1>2. CASE CondWait
  BY <1>2, SigEnter, Zenon
<1>3. CASE CondWaitRelease
  BY <1>3, SigRelease
<1>4. CASE Unlock
  BY <1>4, SigUnlock
<1>5. CASE CondWaitDown \/ DownAgain
  BY <1>5, SigDown, Zenon
<1>6. CASE CondSignal
  BY <1>6, SigPop, Zenon DEF CondSignal
<1>7. CASE CondBroadcast
  BY <1>7, SigPop, Zenon DEF CondBroadcast
<1>8. CASE BroadcastNext
  <2>1. cv[current] \in Cond
    BY <1>8, AtCall, Zenon DEF BroadcastNext, InCallOf
  <2>2. PICK c \in Cond : PopWaiter(c) /\ c = cv[current]
    BY <1>8, <2>1, Zenon DEF BroadcastNext
  <2> QED
    BY <1>8, <2>2, SigPop, Zenon DEF BroadcastNext
<1>9. CASE SignalUp
  BY <1>9, SigUp
<1>10. CASE UNCHANGED all_vars
  <2>1. /\ pc' = pc /\ arg' = arg /\ value' = value /\ holder' = holder
        /\ cond_waiters' = cond_waiters /\ cv' = cv
    BY <1>10, Zenon DEF all_vars, vars, synch_vars
  <2> QED
    BY <2>1, CalmStep, Zenon
<1> QED
  BY <1>1, <1>2, <1>3, <1>4, <1>5, <1>6, <1>7, <1>8, <1>9, <1>10, Zenon DEF SynchNext, Continue

\* No signal is lost and none is delivered twice, however many threads wait
\* on however many conditions: from the moment a thread has released the lock
\* in cond_wait it is queued, or popped, or signalled, and only one of these.
THEOREM SignalsKept == SynchSpec => []NoLostSignal
<1>1. SigInv => NoLostSignal
  BY Zenon DEF SigInv, SignalOf, NoLostSignal, Sleeping, Queued, Popped
<1> QED
  BY <1>1, InitSInv, NextSInv, InitSigInv, NextSigInv, PTL DEF SynchSpec

-----------------------------------------------------------------------------
(* Refinement: how the abstract state follows from the threads' labels.    *)

\* Owner(l) is the thread that owns l.
OwnersNamed ==
  \A l \in Lock :
    /\ \A t \in Thread : Owner(l) = t <=> Owns(t, l)
    /\ Owner(l) = NULL <=> \A t \in Thread : ~Owns(t, l)
    /\ Owner(l) \in Thread \cup {NULL}

\* A lock's owner under the mapping is the one that Owns it, in this state, ...
LEMMA OwnerIs == SInv => OwnersNamed
<1> SUFFICES ASSUME SInv, NEW l \in Lock
             PROVE  /\ \A t \in Thread : Owner(l) = t <=> Owns(t, l)
                    /\ Owner(l) = NULL <=> \A t \in Thread : ~Owns(t, l)
                    /\ Owner(l) \in Thread \cup {NULL}
  BY Zenon DEF OwnersNamed
<1>1. \A t, u \in Thread : Owns(t, l) /\ Owns(u, l) => t = u
  BY Zenon DEF SInv, LockExclusion
<1>2. CASE \E t \in Thread : Owns(t, l)
  <2>1. Owner(l) = CHOOSE t \in Thread : Owns(t, l)
    BY <1>2, Zenon DEF Owner
  <2>2. Owner(l) \in Thread /\ Owns(Owner(l), l)
    BY <1>2, <2>1, Zenon
  <2> QED
    BY <1>1, <1>2, <2>2, Names, Zenon
<1>3. CASE \A t \in Thread : ~Owns(t, l)
  BY <1>3, Names, Zenon DEF Owner
<1> QED
  BY <1>2, <1>3, Zenon

\* ... and in the next.
LEMMA OwnerNext == SInv' => OwnersNamed'
  BY OwnerIs, PTL

\* A lock's owner changes only with what the threads own.
LEMMA OwnerSame ==
  ASSUME SInv, SInv', NEW l \in Lock, \A t \in Thread : Owns(t, l)' <=> Owns(t, l)
  PROVE  Owner(l)' = Owner(l)
<1>1. OwnersNamed /\ OwnersNamed'
  BY OwnerIs, OwnerNext, Zenon
<1> QED
  BY <1>1, Zenon DEF OwnersNamed

\* t has yet to do the sema_up() of a lock_release().
Leaving(t) == pc[t] \in {"wait1", "unlock"}

\* t has left c's lock in a cond_wait(c) and not got it back.
Inside(t, c) == cv[t] = c /\ pc[t] \in {"wait2", "down", "wait3"}

\* A thread that is in no operation on a condition is on no queue.
LEMMA NotQueued ==
  ASSUME SInv, SigInv, NEW t \in Thread, cv[t] = NULL, NEW c \in Cond
  PROVE  ~OnList(cond_waiters[c], t)
  BY Names, Zenon DEF SigInv, QueueOf

\* Who waits on c stays, if nobody queued on it passes the release of its lock.
LEMMA WaitingSame ==
  ASSUME SInv, SigInv, NEW c \in Cond, cond_waiters'[c] = cond_waiters[c],
         \A t \in Thread : OnList(cond_waiters[c], t) => (Leaving(t)' <=> Leaving(t))
  PROVE  Waiting(c)' = Waiting(c)
<1> DEFINE q == cond_waiters[c]
<1>1. q \in Seq(Thread)
  BY Zenon DEF SInv, SynchTypeOK
<1>2. q # <<>> => q[Len(q)] \in Thread /\ OnList(q, q[Len(q)])
  BY <1>1 DEF OnList
<1>3. q # <<>> => (pc'[q[Len(q)]] \in {"wait1", "unlock"} <=> pc[q[Len(q)]] \in {"wait1", "unlock"})
  BY <1>2, Zenon DEF Leaving
<1> QED
  BY <1>3, Zenon DEF Waiting

\* Who was signalled on c stays, if nobody enters or leaves.
LEMMA WokenSame ==
  ASSUME NEW c \in Cond, cond_waiters'[c] = cond_waiters[c],
         \A t \in Thread : Inside(t, c)' <=> Inside(t, c)
  PROVE  Woken(c)' = Woken(c)
<1>1. \A t \in Thread : OnList(cond_waiters[c], t)' <=> OnList(cond_waiters[c], t)
  BY Zenon DEF OnList
<1> QED
  BY <1>1, Zenon DEF Woken, Inside

\* Who waits is on the condition's queue.
LEMMA WaitingQueued ==
  ASSUME SInv, NEW c \in Cond, NEW i \in DOMAIN Waiting(c)
  PROVE  OnList(cond_waiters[c], Waiting(c)[i])
<1> DEFINE q == cond_waiters[c]
           m == Len(q) - 1
<1>1. q \in Seq(Thread)
  BY Zenon DEF SInv, SynchTypeOK
<1>2. CASE Waiting(c) = q
  BY <1>2, Zenon DEF OnList
<1>3. CASE q # <<>> /\ Waiting(c) = SubSeq(q, 1, m)
  <2>1. m \in Nat /\ Len(q) = m + 1 /\ \A j \in 1..m : q[j] \in Thread
    BY <1>1, <1>3
  <2> HIDE DEF m, q
  <2>2. /\ Len(SubSeq(q, 1, m)) = m /\ \A j \in 1..m : SubSeq(q, 1, m)[j] = q[j]
        /\ SubSeq(q, 1, m) \in Seq(Thread)
    BY <1>1, <2>1
  <2>3. i \in 1..m /\ i \in DOMAIN q
    BY <1>1, <1>3, <2>1, <2>2
  <2> QED
    BY <1>3, <2>2, <2>3, Zenon DEF OnList, q
<1> QED
  BY <1>2, <1>3, Zenon DEF Waiting

\* A thread that is in no operation on a condition may take any lock.
LEMMA OutsideWaits ==
  ASSUME SInv, SigInv, NEW t \in Thread, cv[t] = NULL
  PROVE  M!Outside(t)
<1>1. ASSUME NEW c \in Cond PROVE t \notin Woken(c) /\ \A i \in DOMAIN Waiting(c) : Waiting(c)[i] # t
  BY NotQueued, WaitingQueued, Names, Zenon DEF Woken
<1> QED
  BY <1>1, Zenon DEF M!Outside

-----------------------------------------------------------------------------
(* Refinement: every step of synch.c is a step of Monitor or of nothing.   *)

\* No condition's abstract queues change while the concrete ones do not, and
\* nobody on them, or inside a cond_wait, comes or goes.
LEMMA QueuesSame ==
  ASSUME SInv, SigInv, cond_waiters' = cond_waiters,
         \A t \in Thread : (Leaving(t)' <=> Leaving(t)) \/ cv[t] = NULL,
         \A t \in Thread, c \in Cond : Inside(t, c)' <=> Inside(t, c)
  PROVE  \A c \in Cond : Waiting(c)' = Waiting(c) /\ Woken(c)' = Woken(c)
<1> SUFFICES ASSUME NEW c \in Cond PROVE Waiting(c)' = Waiting(c) /\ Woken(c)' = Woken(c)
  BY Zenon
<1>1. \A t \in Thread : OnList(cond_waiters[c], t) => (Leaving(t)' <=> Leaving(t))
  BY NotQueued, Zenon
<1> QED
  BY <1>1, WaitingSame, WokenSame, Zenon

\* A step that changes no owner, no queue and no place in cond_wait is not
\* seen.
LEMMA MonitorSame ==
  ASSUME SInv, SInv', SigInv, cond_waiters' = cond_waiters,
         \A t \in Thread, l \in Lock : Owns(t, l)' <=> Owns(t, l),
         \A t \in Thread : (Leaving(t)' <=> Leaving(t)) \/ cv[t] = NULL,
         \A t \in Thread, c \in Cond : Inside(t, c)' <=> Inside(t, c)
  PROVE  UNCHANGED M!monitor_vars
<1>1. \A l \in Lock : Owner(l)' = Owner(l)
  BY OwnerSame, Zenon
<1>2. \A c \in Cond : Waiting(c)' = Waiting(c) /\ Woken(c)' = Woken(c)
  BY QueuesSame, Zenon
<1> QED
  BY <1>1, <1>2, Zenon DEF M!monitor_vars

\* The running thread takes a lock's semaphore: a lock_acquire() or a
\* cond_wait() gets the lock.
LEMMA TakesLock ==
  ASSUME SInv, SInv', SigInv, NEW me \in Thread, NEW l \in Lock, value[l] > 0,
         holder' = holder, cond_waiters' = cond_waiters, cv' = cv,
         pc[me] \in {"run", "wait3", "down"}, pc[me] = "down" => arg[me] = l,
         pc[me] = "wait3" => lock_of[cv[me]] = l,
         pc'[me] = "own", arg'[me] = l,
         \A t \in Thread : t # me => pc'[t] = pc[t] /\ arg'[t] = arg[t]
  PROVE  M!MonitorNext
<1>1. /\ InCallOf(me) /\ CallOf(me) /\ QueueOf(me) /\ cv[me] \in Cond \cup {NULL}
      /\ OwnersNamed /\ OwnersNamed'
  BY Names, OwnerIs, OwnerNext, Zenon DEF SInv, SigInv, InCall, SynchTypeOK
<1>2. \A t \in Thread : ~Owns(t, l)
  BY FreeLock, Zenon DEF SInv
<1>3. Owner(l) = NULL
  BY <1>1, <1>2, Zenon DEF OwnersNamed
<1>4. Owns(me, l)'
  BY Zenon DEF Owns
<1>5. Owner(l)' = me
  BY <1>1, <1>4, Zenon DEF OwnersNamed
<1>6. ASSUME NEW k \in Lock, k # l PROVE Owner(k)' = Owner(k)
  <2>1. \A t \in Thread : Owns(t, k)' <=> Owns(t, k)
    BY <1>6, Zenon DEF Owns
  <2> QED
    BY <2>1, OwnerSame, Zenon
<1>7. \A c \in Cond : Waiting(c)' = Waiting(c)
  BY WaitingSame, Zenon DEF Leaving
<1>8. CASE cv[me] = NULL
  <2>1. \A c \in Cond, t \in Thread : Inside(t, c)' <=> Inside(t, c)
    BY <1>8, Names, Zenon DEF Inside
  <2>2. \A c \in Cond : Woken(c)' = Woken(c)
    BY <2>1, WokenSame, Zenon
  <2>3. M!Outside(me)
    BY <1>8, OutsideWaits, Zenon
  <2>4. M!Acquire(me, l)
    BY <1>3, <1>5, <1>6, <1>7, <2>2, <2>3, Zenon DEF M!Acquire
  <2> QED
    BY <2>4, Zenon DEF M!MonitorNext
<1>9. CASE cv[me] \in Cond
  <2>1. PICK c \in Cond : c = cv[me] /\ lock_of[c] = l /\ Inside(me, c) /\ ~OnList(cond_waiters[c], me)
    BY <1>1, <1>9, Names, Zenon DEF CallOf, QueueOf, Sleeping, Entering, Inside
  <2>2. me \in Woken(c) /\ ~Inside(me, c)'
    BY <2>1, Zenon DEF Woken, Inside
  <2>3. Woken(c)' = Woken(c) \ {me}
    <3>1. \A t \in Thread : OnList(cond_waiters[c], t)' <=> OnList(cond_waiters[c], t)
      BY Zenon DEF OnList
    <3> QED
      BY <2>2, <3>1, Zenon DEF Woken, Inside
  <2>4. ASSUME NEW d \in Cond, d # c PROVE Woken(d)' = Woken(d)
    <3>1. \A t \in Thread : Inside(t, d)' <=> Inside(t, d)
      BY <2>1, <2>4, Zenon DEF Inside
    <3> QED
      BY <3>1, WokenSame, Zenon
  <2>5. M!Reacquire(me, c)
    BY <1>3, <1>5, <1>6, <1>7, <2>1, <2>2, <2>3, <2>4, Zenon DEF M!Reacquire
  <2> QED
    BY <2>5, Zenon DEF M!MonitorNext
<1> QED
  BY <1>1, <1>8, <1>9, Zenon

\* One turn of the loop of sema_down.
LEMMA DownRefines ==
  ASSUME SInv, SInv', SigInv,
         SemaDown \/ LockAcquire \/ CondWaitDown \/ CondWaitAcquire \/ DownAgain
  PROVE  M!MonitorNext \/ UNCHANGED M!monitor_vars
<1>1. PICK me \in Thread : /\ me = current /\ InCallOf(me)
                           /\ pc[me] \in {"run", "wait2", "wait3", "down"}
  BY AtCall, Zenon DEF SemaDown, LockAcquire, CondWaitDown, CondWaitAcquire, DownAgain
<1>2. PICK s \in AnySema :
        /\ sema_down(s)
        /\ pc[me] = "run" => s \in Sema \cup Lock
        /\ pc[me] = "wait2" => s = me
        /\ pc[me] = "wait3" => s = lock_of[cv[me]]
        /\ pc[me] = "down" => s = arg[me]
  BY <1>1, Names, Zenon
    DEF SemaDown, LockAcquire, CondWaitDown, CondWaitAcquire, DownAgain, InCallOf, At
<1>3. CallOf(me) /\ (pc[me] \in {"wait2", "wait3"} => cv[me] \in Cond)
  BY <1>1, Zenon DEF SigInv, InCallOf
<1>4. /\ holder' = holder /\ cond_waiters' = cond_waiters /\ cv' = cv
      /\ \A t \in Thread : t # me => pc'[t] = pc[t] /\ arg'[t] = arg[t]
      /\ \/ pc'[me] = "down"
         \/ /\ value[s] > 0
            /\ s \in Lock => pc'[me] = "own" /\ arg'[me] = s
            /\ s \in Sema => pc'[me] = "run"
            /\ s \in Thread => pc'[me] = "wait3"
  BY <1>1, <1>2, DownMoves, Zenon
<1>5. CASE s \in Lock /\ value[s] > 0 /\ pc'[me] = "own" /\ arg'[me] = s
  <2>1. pc[me] \in {"run", "wait3", "down"}
    BY <1>1, <1>2, <1>5, Names, Zenon
  <2>2. M!MonitorNext
    BY <1>2, <1>4, <1>5, <2>1, TakesLock, Zenon
  <2> QED
    BY <2>2, Zenon
<1>6. CASE pc'[me] = "down" \/ (s \in Sema /\ pc'[me] = "run") \/ (s \in Thread /\ pc'[me] = "wait3")
  <2>1. ASSUME NEW c \in Cond PROVE Inside(me, c)' <=> Inside(me, c)
    <3>1. CASE pc[me] = "run" \/ s \in Sema
      <4>1. cv[me] # c
        BY <1>1, <1>2, <1>3, <3>1, Names, Zenon DEF CallOf
      <4> QED
        BY <1>4, <4>1, Zenon DEF Inside
    <3>2. CASE pc[me] # "run" /\ s \notin Sema
      <4>1. pc'[me] \in {"down", "wait3"} /\ pc[me] \in {"wait2", "wait3", "down"}
        BY <1>1, <1>6, <3>2, Zenon
      <4> QED
        BY <1>4, <4>1, Zenon DEF Inside
    <3> QED
      BY <3>1, <3>2, Zenon
  <2>2. \A t \in Thread, c \in Cond : Inside(t, c)' <=> Inside(t, c)
    BY <1>4, <2>1, Zenon DEF Inside
  <2>3. ~Leaving(me) /\ ~Leaving(me)'
    BY <1>1, <1>6, Zenon DEF Leaving
  <2>4. \A t \in Thread : Leaving(t)' <=> Leaving(t)
    BY <1>4, <2>3, Zenon DEF Leaving
  <2>5. \A t \in Thread, l \in Lock : Owns(t, l)' <=> Owns(t, l)
    BY <1>1, <1>4, <1>6, Zenon DEF Owns
  <2>6. UNCHANGED M!monitor_vars
    BY <1>4, <2>2, <2>4, <2>5, MonitorSame, Zenon
  <2> QED
    BY <2>6, Zenon
<1> QED
  BY <1>4, <1>5, <1>6, Zenon DEF AnySema

\* lock_try_acquire().
LEMMA TryAcquireRefines ==
  ASSUME SInv, SInv', SigInv, LockTryAcquire
  PROVE  M!MonitorNext
<1>1. PICK me \in Thread : me = current /\ pc[me] = "run" /\ SynchTypeOK
  BY AtCall, Zenon DEF LockTryAcquire
<1>2. PICK l \in Lock : value[l] > 0 /\ SetArg(l)
  BY Zenon DEF LockTryAcquire, sema_try_down
<1>3. /\ Goto("own") /\ holder' = holder /\ cond_waiters' = cond_waiters /\ cv' = cv
      /\ "own" \in SynchLabels /\ l \in AnySema \cup {idle_thread}
  BY Names, Zenon DEF LockTryAcquire, SynchLabels
<1>4. /\ pc'[me] = "own" /\ arg'[me] = l
      /\ \A t \in Thread : t # me => pc'[t] = pc[t] /\ arg'[t] = arg[t]
  BY <1>1, <1>2, <1>3, GotoFacts, Zenon
<1> QED
  BY <1>1, <1>2, <1>3, <1>4, TakesLock

\* A queue is what is in front of its last element, and that element.
LEMMA FrontAndLast ==
  ASSUME NEW S, NEW q \in Seq(S), q # <<>>
  PROVE  /\ SubSeq(q, 1, Len(q) - 1) \in Seq(S)
         /\ q = Append(SubSeq(q, 1, Len(q) - 1), q[Len(q)])
<1>1. PICK m \in Nat : m = Len(q) - 1 /\ Len(q) = m + 1
  OBVIOUS
<1>2. SubSeq(q, 1, m) \in Seq(S) /\ q = Append(SubSeq(q, 1, m), q[m + 1])
  BY <1>1
<1> QED
  BY <1>1, <1>2, Zenon

\* The sema_up() of lock_release(): the lock is free, and in a cond_wait()
\* the thread waits from here on.
LEMMA UnlockRefines ==
  ASSUME SInv, SInv', SigInv, Unlock
  PROVE  M!MonitorNext
<1>1. PICK me \in Thread : /\ me = current /\ pc[me] = "unlock" /\ InCallOf(me) /\ SynchTypeOK
                           /\ me \in AnySema \cup {idle_thread}
  BY AtCall, Names, Zenon DEF Unlock
<1>2. PICK l \in Lock : l = arg[me] /\ holder[l] = NULL
  BY <1>1, Zenon DEF InCallOf
<1>3. PICK lab \in {"run", "wait2"} :
        /\ Goto(lab) /\ SetArg(me) /\ holder' = holder /\ cond_waiters' = cond_waiters /\ cv' = cv
        /\ lab = IF cv[me] = NULL THEN "run" ELSE "wait2"
        /\ lab \in SynchLabels
  BY <1>1, Zenon DEF Unlock, NoArg, SynchLabels
<1>4. /\ pc'[me] = lab
      /\ \A t \in Thread : t # me => pc'[t] = pc[t] /\ arg'[t] = arg[t]
  BY <1>1, <1>3, GotoFacts, Zenon
<1>5. /\ CallOf(me) /\ QueueOf(me) /\ cv[me] \in Cond \cup {NULL}
      /\ OwnersNamed /\ OwnersNamed'
  BY Names, OwnerIs, OwnerNext, Zenon DEF SInv, SigInv, SynchTypeOK
<1>6. Owns(me, l) /\ \A t \in Thread : ~Owns(t, l)'
  <2>1. Owns(me, l)
    BY <1>1, <1>2, Zenon DEF Owns
  <2>2. \A t \in Thread : Owns(t, l) => t = me
    BY <2>1, Zenon DEF SInv, LockExclusion
  <2>3. \A t \in Thread : t # me => ~Owns(t, l)'
    BY <1>3, <1>4, <2>2, Zenon DEF Owns
  <2>4. ~Owns(me, l)'
    BY <1>2, <1>3, <1>4, Names, Zenon DEF Owns
  <2> QED
    BY <2>1, <2>3, <2>4, Zenon
<1>7. Owner(l) = me /\ Owner(l)' = NULL
  BY <1>5, <1>6, Zenon DEF OwnersNamed
<1>8. ASSUME NEW k \in Lock, k # l PROVE Owner(k)' = Owner(k)
  <2>1. \A t \in Thread : Owns(t, k)' <=> Owns(t, k)
    BY <1>1, <1>2, <1>3, <1>4, <1>8 DEF Owns
  <2> QED
    BY <2>1, OwnerSame, Zenon
<1>9. CASE cv[me] = NULL
  <2>1. /\ \A t \in Thread : (Leaving(t)' <=> Leaving(t)) \/ cv[t] = NULL
        /\ \A t \in Thread, c \in Cond : Inside(t, c)' <=> Inside(t, c)
    BY <1>3, <1>4, <1>9, Names, Zenon DEF Leaving, Inside
  <2>2. \A c \in Cond : Waiting(c)' = Waiting(c) /\ Woken(c)' = Woken(c)
    BY <1>3, <2>1, QueuesSame, Zenon
  <2>3. M!Release(me, l)
    BY <1>7, <1>8, <2>2, Zenon DEF M!Release
  <2> QED
    BY <2>3, Zenon DEF M!MonitorNext
<1>10. CASE cv[me] \in Cond
  <2>1. PICK c \in Cond : /\ c = cv[me] /\ lock_of[c] = l /\ Entering(me)
                          /\ lab = "wait2"
    BY <1>1, <1>2, <1>3, <1>5, <1>10, Names, SMTT(30) DEF CallOf, Entering
  <2> DEFINE q == cond_waiters[c]
  <2>2. q \in Seq(Thread) /\ q # <<>> /\ q[Len(q)] = me /\ OnList(q, me)
    <3>1. q \in Seq(Thread) /\ q # <<>> /\ q[Len(q)] = me
      BY <1>1, <1>5, <2>1, Zenon DEF QueueOf, SynchTypeOK
    <3> QED
      BY <3>1 DEF OnList
  <2>3. Waiting(c) = SubSeq(q, 1, Len(q) - 1) /\ Waiting(c)' = q
    BY <1>1, <1>3, <1>4, <2>1, <2>2 DEF Waiting
  <2>4. Waiting(c)' = Append(Waiting(c), me)
    BY <2>2, <2>3, FrontAndLast, Zenon
  <2>5. ASSUME NEW d \in Cond, d # c PROVE Waiting(d)' = Waiting(d) /\ Woken(d)' = Woken(d)
    <3>1. ~OnList(cond_waiters[d], me)
      BY <1>5, <2>1, <2>5, Zenon DEF QueueOf
    <3>2. /\ \A t \in Thread : OnList(cond_waiters[d], t) => (Leaving(t)' <=> Leaving(t))
          /\ \A t \in Thread : Inside(t, d)' <=> Inside(t, d)
      BY <1>3, <1>4, <2>1, <2>5, <3>1, Zenon DEF Leaving, Inside
    <3> QED
      BY <1>3, <3>2, WaitingSame, WokenSame, Zenon
  <2>6. Woken(c)' = Woken(c)
    <3>1. \A t \in Thread : OnList(cond_waiters[c], t)' <=> OnList(cond_waiters[c], t)
      BY <1>3, Zenon DEF OnList
    <3>2. me \notin Woken(c) /\ me \notin Woken(c)'
      BY <2>2, <3>1, Zenon DEF Woken
    <3>3. \A t \in Thread : t # me => (t \in Woken(c)' <=> t \in Woken(c))
      BY <1>3, <1>4, <3>1, Zenon DEF Woken
    <3> QED
      BY <3>2, <3>3, Zenon DEF Woken
  <2>7. M!Wait(me, c)
    BY <1>7, <1>8, <2>1, <2>4, <2>5, <2>6, Zenon DEF M!Wait
  <2> QED
    BY <2>7, Zenon DEF M!MonitorNext
<1> QED
  BY <1>5, <1>9, <1>10, Zenon

\* While a thread holds the lock of c nobody is on the way into cond_wait(c):
\* all on the queue wait.
LEMMA AllWait ==
  ASSUME SInv, SigInv, NEW me \in Thread, pc[me] \in {"run", "bcast"},
         NEW c \in Cond, holder[lock_of[c]] = me
  PROVE  /\ Waiting(c) = cond_waiters[c]
         /\ \A t \in Thread : OnList(cond_waiters[c], t) => ~Leaving(t)
<1> DEFINE q == cond_waiters[c]
<1>1. q \in Seq(Thread) /\ ~Entering(me)
  BY Zenon DEF SInv, SynchTypeOK, Entering
<1>2. ASSUME NEW t \in Thread, OnList(q, t) PROVE ~Leaving(t)
  <2>1. cv[t] = c /\ (Sleeping(t) \/ Entering(t))
    BY <1>2, Zenon DEF SigInv, QueueOf
  <2>2. ~Entering(t)
    BY <1>1, <2>1, EnteringOwns, Zenon
  <2> QED
    BY <2>1, <2>2, Zenon DEF Sleeping, Leaving
<1>3. q # <<>> => q[Len(q)] \in Thread /\ OnList(q, q[Len(q)])
  BY <1>1 DEF OnList
<1> QED
  BY <1>2, <1>3, Zenon DEF Waiting, Leaving

\* cond_signal() and cond_broadcast() pop a waiter: the one that has waited
\* longest is woken.
LEMMA PopRefines ==
  ASSUME SInv, SInv', SigInv, NEW c \in Cond, PopWaiter(c), At("run") \/ At("bcast"),
         \A t \in Thread : t # current => cv'[t] = cv[t]
  PROVE  M!MonitorNext
<1>1. PICK me \in Thread : me = current /\ pc[me] \in {"run", "bcast"} /\ SynchTypeOK
  BY AtCall, Zenon
<1>2. /\ holder[lock_of[c]] = me /\ cond_waiters[c] # <<>> /\ holder' = holder
      /\ cond_waiters' = [cond_waiters EXCEPT ![c] = Tail(@)]
      /\ lock_of[c] \in Lock /\ cond_waiters \in [Cond -> Seq(Thread)]
  BY <1>1, Names, Zenon DEF PopWaiter, lock_held_by_current_thread, SynchTypeOK
<1>3. PICK w \in Thread : /\ w = Head(cond_waiters[c]) /\ Sleeping(w) /\ cv[w] = c
  BY <1>1, <1>2, HeadSleeps, Zenon
<1>4. /\ pc'[me] = "signal" /\ arg'[me] = w
      /\ \A t \in Thread : t # me => pc'[t] = pc[t] /\ arg'[t] = arg[t] /\ cv'[t] = cv[t]
  <2>1. w \in AnySema \cup {idle_thread} /\ "signal" \in SynchLabels /\ Goto("signal") /\ SetArg(w)
    BY <1>3, Names, Zenon DEF PopWaiter, SynchLabels
  <2> QED
    BY <1>1, <2>1, GotoFacts, Zenon
<1> DEFINE q == cond_waiters[c]
<1>5. /\ q \in Seq(Thread) /\ q # <<>> /\ NoDuplicates(q) /\ w = Head(q)
      /\ cond_waiters'[c] = Tail(q) /\ \A d \in Cond : d # c => cond_waiters'[d] = cond_waiters[d]
  BY <1>2, <1>3, Zenon DEF SigInv
<1>6. Waiting(c) = q /\ \A t \in Thread : OnList(q, t) => ~Leaving(t)
  BY <1>1, <1>2, AllWait, Zenon
<1> HIDE DEF q
<1>7. \A t : OnList(Tail(q), t) <=> OnList(q, t) /\ t # w
  BY <1>5, PoppedList, Zenon
<1>8. Waiting(c)' = Tail(q)
  <2>1. Tail(q) \in Seq(Thread)
    BY <1>5, TailFacts, Zenon
  <2>2. Tail(q) # <<>> => Tail(q)[Len(Tail(q))] \in Thread /\ OnList(Tail(q), Tail(q)[Len(Tail(q))])
    BY <2>1, SMTT(30) DEF OnList
  <2>3. Tail(q) # <<>> => pc'[Tail(q)[Len(Tail(q))]] \notin {"wait1", "unlock"}
    BY <1>4, <1>6, <1>7, <2>2, Zenon DEF Leaving
  <2> QED
    BY <1>5, <2>3, Zenon DEF Waiting
<1>9. \A d \in Cond : ~Inside(me, d) /\ ~Inside(me, d)'
  BY <1>1, <1>4, Zenon DEF Inside
<1>10. Woken(c)' = Woken(c) \cup {w}
  <2>1. \A t \in Thread : OnList(cond_waiters[c], t)' <=> OnList(Tail(q), t)
    BY <1>5, Zenon DEF OnList
  <2>2. \A t \in Thread : OnList(cond_waiters[c], t) <=> OnList(q, t)
    BY Zenon DEF q
  <2>3. \A t \in Thread : Inside(t, c)' <=> Inside(t, c)
    BY <1>4, <1>9, Zenon DEF Inside
  <2>4. Inside(w, c)
    BY <1>3, Zenon DEF Inside, Sleeping
  <2>5. \A t \in Thread : t \in Woken(c)' <=> t \in Woken(c) \/ t = w
    BY <1>7, <2>1, <2>2, <2>3, <2>4, Zenon DEF Woken, Inside
  <2> QED
    BY <2>5, Zenon DEF Woken
<1>11. ASSUME NEW d \in Cond, d # c PROVE Waiting(d)' = Waiting(d) /\ Woken(d)' = Woken(d)
  <2>1. \A t \in Thread : Leaving(t)' <=> Leaving(t)
    BY <1>1, <1>4, Zenon DEF Leaving
  <2>2. \A t \in Thread : Inside(t, d)' <=> Inside(t, d)
    BY <1>4, <1>9, Zenon DEF Inside
  <2> QED
    BY <1>5, <1>11, <2>1, <2>2, WaitingSame, WokenSame, Zenon
<1>12. \A l \in Lock : Owner(l)' = Owner(l)
  <2>1. \A t \in Thread, l \in Lock : Owns(t, l)' <=> Owns(t, l)
    BY <1>1, <1>2, <1>4, Zenon DEF Owns
  <2> QED
    BY <2>1, OwnerSame, Zenon
<1>13. Owner(lock_of[c]) = me
  BY <1>2, OwnerIs DEF OwnersNamed, Owns
<1>14. M!Signal(me, c)
  BY <1>5, <1>6, <1>8, <1>10, <1>11, <1>12, <1>13, <1>2, Zenon DEF M!Signal
<1> QED
  BY <1>14, Zenon DEF M!MonitorNext

\* cond_wait() queues the running thread, which does not wait yet.
LEMMA EnterRefines ==
  ASSUME SInv, SInv', SigInv, CondWait
  PROVE  UNCHANGED M!monitor_vars
<1>1. PICK me \in Thread : /\ me = current /\ pc[me] = "run" /\ SynchTypeOK
                           /\ pc' = [pc EXCEPT ![me] = "wait1"] /\ arg' = arg /\ holder' = holder
  BY AtCall, Zenon DEF CondWait, Goto
<1>2. PICK c \in Cond :
        /\ holder[lock_of[c]] = me
        /\ cond_waiters' = [cond_waiters EXCEPT ![c] = Append(@, me)]
        /\ cv' = [cv EXCEPT ![me] = c]
  BY <1>1, Zenon DEF CondWait, lock_held_by_current_thread
<1>3. /\ pc'[me] = "wait1" /\ \A t \in Thread : t # me => pc'[t] = pc[t] /\ cv'[t] = cv[t]
  BY <1>1, <1>2, Names, Zenon DEF SynchTypeOK
<1> DEFINE q == cond_waiters[c]
<1>4. /\ q \in Seq(Thread) /\ NoDuplicates(q) /\ cond_waiters'[c] = Append(q, me)
      /\ \A d \in Cond : d # c => cond_waiters'[d] = cond_waiters[d]
  BY <1>1, <1>2, Zenon DEF SynchTypeOK, SigInv
<1>5. Waiting(c) = q
  BY <1>1, <1>2, AllWait, Zenon
<1>6. cv[me] = NULL
  BY <1>1, Zenon DEF SigInv, CallOf
<1>7. ~OnList(q, me)
  BY <1>6, NotQueued, Zenon
<1> HIDE DEF q
<1>8. Waiting(c)' = q
  <2>1. /\ Append(q, me) # <<>> /\ Append(q, me)[Len(Append(q, me))] = me
        /\ Len(Append(q, me)) - 1 = Len(q)
    BY <1>4
  <2>2. SubSeq(Append(q, me), 1, Len(q)) = q
    BY <1>4
  <2> QED
    BY <1>3, <1>4, <2>1, <2>2, Zenon DEF Waiting
<1>9. \A d \in Cond, t \in Thread : Inside(t, d)' <=> Inside(t, d)
  BY <1>1, <1>3, Zenon DEF Inside
<1>10. Woken(c)' = Woken(c)
  <2>1. \A t \in Thread : OnList(cond_waiters[c], t)' <=> OnList(q, t) \/ t = me
    <3>1. \A t : OnList(Append(q, me), t) <=> OnList(q, t) \/ t = me
      BY <1>4, <1>7, QueuedList, Zenon
    <3>2. \A t \in Thread : OnList(cond_waiters[c], t)' <=> OnList(Append(q, me), t)
      BY <1>4, Zenon DEF OnList
    <3> QED
      BY <3>1, <3>2, Zenon
  <2>2. \A t \in Thread : OnList(cond_waiters[c], t) <=> OnList(q, t)
    BY Zenon DEF q
  <2>3. ~Inside(me, c)
    BY <1>1, Zenon DEF Inside
  <2>4. \A t \in Thread : t \in Woken(c)' <=> t \in Woken(c)
    BY <1>9, <2>1, <2>2, <2>3, ZenonT(40) DEF Woken, Inside
  <2> QED
    BY <2>4, Zenon DEF Woken
<1>11. ASSUME NEW d \in Cond, d # c PROVE Waiting(d)' = Waiting(d) /\ Woken(d)' = Woken(d)
  <2>1. \A t \in Thread : OnList(cond_waiters[d], t) => (Leaving(t)' <=> Leaving(t))
    BY <1>3, <1>6, NotQueued, Zenon DEF Leaving
  <2> QED
    BY <1>4, <1>9, <1>11, <2>1, WaitingSame, WokenSame, SMTT(30)
<1>12. \A l \in Lock : Owner(l)' = Owner(l)
  <2>1. \A t \in Thread, l \in Lock : Owns(t, l)' <=> Owns(t, l)
    BY <1>1, <1>3, Zenon DEF Owns
  <2> QED
    BY <2>1, OwnerSame, Zenon
<1> QED
  BY <1>5, <1>8, <1>10, <1>11, <1>12, Zenon DEF M!monitor_vars

\* The steps that the abstract state does not show: the scheduler's, those on
\* semaphores of their own, the assignments to a lock's holder, and the ends
\* of cond_signal and cond_broadcast.
LEMMA StutterRefines ==
  ASSUME SInv, SInv', SigInv,
         \/ SchedStep \/ SemaTryDown \/ SemaUp \/ IntrSemaUp \/ IntrSemaTryDown
         \/ LockRelease \/ CondWaitRelease \/ SetHolder \/ SignalUp \/ BroadcastDone
  PROVE  UNCHANGED M!monitor_vars
<1>1. CASE SchedStep
  <2>1. SchedShape /\ UNCHANGED synch_vars
    BY <1>1, SchedStepShape, Zenon
  <2>2. /\ holder' = holder /\ cond_waiters' = cond_waiters /\ cv' = cv
        /\ \A t \in Thread :
             \/ pc'[t] = pc[t] /\ arg'[t] = arg[t]
             \/ {pc[t], pc'[t]} \subseteq {"none", "new", "run", "create"}
    BY <2>1, Zenon DEF SchedShape, synch_vars
  <2>3. \A t \in Thread, l \in Lock : Owns(t, l)' <=> Owns(t, l)
    BY <2>2, OwnsSame, Zenon
  <2>4. /\ \A t \in Thread : Leaving(t)' <=> Leaving(t)
        /\ \A t \in Thread, c \in Cond : Inside(t, c)' <=> Inside(t, c)
    BY <2>2, Zenon DEF Leaving, Inside
  <2> QED
    BY <2>2, <2>3, <2>4, MonitorSame, Zenon
<1>2. CASE SemaTryDown \/ SemaUp \/ IntrSemaUp \/ IntrSemaTryDown
  <2>1. pc \in [AnyThread -> SynchLabels] /\ current \in AnyThread /\ Labelled
    BY Zenon DEF SInv, SynchTypeOK, SchedTypeOK
  <2>2. /\ UNCHANGED <<arg, holder, cond_waiters, cv>> /\ \A t \in Thread : pc'[t] = pc[t]
    <3>1. CASE UNCHANGED pc
      BY <1>2, <3>1, Zenon DEF SemaTryDown, SemaUp, IntrSemaUp, IntrSemaTryDown, vars
    <3>2. CASE LeaveHlt
      BY <1>2, <2>1, <3>2, LeaveHltFacts, Zenon
        DEF SemaTryDown, SemaUp, IntrSemaUp, IntrSemaTryDown, vars, SynchLabels
    <3> QED
      BY <1>2, <3>1, <3>2, Zenon DEF SemaTryDown, SemaUp, IntrSemaUp, IntrSemaTryDown, vars
  <2>3. /\ \A t \in Thread, l \in Lock : Owns(t, l)' <=> Owns(t, l)
        /\ \A t \in Thread : Leaving(t)' <=> Leaving(t)
        /\ \A t \in Thread, c \in Cond : Inside(t, c)' <=> Inside(t, c)
    BY <2>2, Zenon DEF Owns, Leaving, Inside
  <2> QED
    BY <2>2, <2>3, MonitorSame, Zenon
<1>3. CASE LockRelease \/ CondWaitRelease
  <2>1. PICK me \in Thread : /\ me = current /\ InCallOf(me) /\ CallOf(me) /\ SynchTypeOK
                             /\ pc[me] \in {"run", "wait1"}
    BY <1>3, AtCall, Zenon DEF LockRelease, CondWaitRelease, SigInv
  <2>2. PICK k \in Lock : ClearHolder(k)
    BY <1>3, <2>1, Names, Zenon DEF LockRelease, CondWaitRelease, InCallOf, At
  <2>3. /\ holder[k] = me /\ holder' = [holder EXCEPT ![k] = NULL]
        /\ UNCHANGED <<cond_waiters, cv>> /\ Goto("unlock") /\ SetArg(k)
        /\ k \in AnySema \cup {idle_thread} /\ "unlock" \in SynchLabels
    BY <2>1, <2>2, Names, Zenon DEF ClearHolder, lock_held_by_current_thread, SynchLabels
  <2>4. /\ pc'[me] = "unlock" /\ arg'[me] = k
        /\ \A t \in Thread : t # me => pc'[t] = pc[t] /\ arg'[t] = arg[t]
    BY <2>1, <2>3, GotoFacts, Zenon
  <2>5. /\ holder'[k] = NULL /\ \A l \in Lock : l # k => holder'[l] = holder[l]
    BY <2>1, <2>3, ZenonT(40) DEF SynchTypeOK
  <2>6. \A t \in Thread, l \in Lock : Owns(t, l)' <=> Owns(t, l)
    BY <2>1, <2>3, <2>4, <2>5, Names, SMTT(30) DEF Owns
  <2>7. /\ \A t \in Thread : (Leaving(t)' <=> Leaving(t)) \/ cv[t] = NULL
        /\ \A t \in Thread, c \in Cond : Inside(t, c)' <=> Inside(t, c)
    BY <2>1, <2>3, <2>4, Zenon DEF Leaving, Inside, CallOf
  <2> QED
    BY <2>3, <2>6, <2>7, MonitorSame, Zenon
<1>4. CASE SetHolder
  <2>1. PICK me \in Thread : /\ me = current /\ InCallOf(me) /\ SynchTypeOK /\ pc[me] = "own"
                             /\ me \in AnySema \cup {idle_thread} /\ me \in AnyThread
    BY <1>4, AtCall, Names, Zenon DEF SetHolder
  <2>2. PICK k \in Lock : k = arg[me] /\ holder[k] = NULL
    BY <2>1, Zenon DEF InCallOf
  <2>3. /\ holder' = [holder EXCEPT ![k] = me] /\ cv' = [cv EXCEPT ![me] = NULL]
        /\ UNCHANGED cond_waiters /\ Goto("run") /\ SetArg(me) /\ "run" \in SynchLabels
    BY <1>4, <2>1, <2>2, Zenon DEF SetHolder, NoArg, SynchLabels
  <2>4. /\ pc'[me] = "run" /\ arg'[me] = me
        /\ \A t \in Thread : t # me => pc'[t] = pc[t] /\ arg'[t] = arg[t]
    BY <2>1, <2>3, GotoFacts, Zenon
  <2>5. /\ holder'[k] = me /\ \A l \in Lock : l # k => holder'[l] = holder[l]
        /\ \A t \in Thread : t # me => cv'[t] = cv[t]
    BY <2>1, <2>3, Names, Zenon DEF SynchTypeOK
  <2>6. \A t \in Thread, l \in Lock : Owns(t, l)' <=> Owns(t, l)
    <3>1. \A l \in Lock : Owns(me, l)' <=> Owns(me, l)
      BY <2>1, <2>2, <2>4, <2>5, Zenon DEF Owns
    <3>2. \A t \in Thread, l \in Lock : t # me => (Owns(t, l)' <=> Owns(t, l))
      BY <2>2, <2>4, <2>5, Names, Zenon DEF Owns
    <3> QED
      BY <3>1, <3>2, Zenon
  <2>7. /\ \A t \in Thread : Leaving(t)' <=> Leaving(t)
        /\ \A t \in Thread, c \in Cond : Inside(t, c)' <=> Inside(t, c)
    BY <2>1, <2>4, <2>5, Zenon DEF Leaving, Inside
  <2> QED
    BY <2>3, <2>6, <2>7, MonitorSame, Zenon
<1>5. CASE SignalUp \/ BroadcastDone
  <2>1. PICK me \in Thread : /\ me = current /\ SynchTypeOK /\ pc[me] \in {"signal", "bcast"}
                             /\ me \in AnySema \cup {idle_thread} /\ me \in AnyThread
    BY <1>5, AtCall, Names, Zenon DEF SignalUp, BroadcastDone
  <2>2. /\ holder' = holder /\ cond_waiters' = cond_waiters
        /\ cv' = cv \/ cv' = [cv EXCEPT ![me] = NULL]
        /\ Goto("run") \/ Goto("bcast")
        /\ arg' = arg \/ SetArg(me)
    BY <1>5, <2>1, Zenon DEF SignalUp, BroadcastDone, NoArg
  <2>3. /\ pc'[me] \in {"run", "bcast"}
        /\ \A t \in Thread : t # me => pc'[t] = pc[t] /\ arg'[t] = arg[t] /\ cv'[t] = cv[t]
    BY <2>1, <2>2, Names, Zenon DEF Goto, SetArg, SynchTypeOK
  <2>4. /\ \A t \in Thread, l \in Lock : Owns(t, l)' <=> Owns(t, l)
    BY <2>1, <2>2, <2>3, OwnsSame, Zenon
  <2>5. /\ \A t \in Thread : Leaving(t)' <=> Leaving(t)
        /\ \A t \in Thread, c \in Cond : Inside(t, c)' <=> Inside(t, c)
    BY <2>1, <2>3, Zenon DEF Leaving, Inside
  <2> QED
    BY <2>2, <2>4, <2>5, MonitorSame, Zenon
<1> QED
  BY <1>1, <1>2, <1>3, <1>4, <1>5, Zenon

\* At boot no lock is owned and nobody waits.
LEMMA InitRefines == SynchInit => M!MonitorInit
<1> SUFFICES ASSUME SynchInit PROVE M!MonitorInit
  OBVIOUS
<1>1. \A t \in Thread, l \in Lock : ~Owns(t, l)
  BY Names, Zenon DEF SynchInit, Init, Owns, AnyThread
<1>2. \A l \in Lock : Owner(l) = NULL
  BY <1>1, Zenon DEF Owner
<1>3. \A c \in Cond : Waiting(c) = <<>>
  BY Zenon DEF SynchInit, Waiting
<1>4. \A c \in Cond : Woken(c) = {}
  BY Names, Zenon DEF SynchInit, Woken, AnyThread
<1> QED
  BY <1>2, <1>3, <1>4, Zenon DEF M!MonitorInit

\* Every step is one of the monitor, or none.
LEMMA NextRefines ==
  SInv /\ SInv' /\ SigInv /\ [SynchNext]_all_vars => [M!MonitorNext]_(M!monitor_vars)
<1> SUFFICES ASSUME SInv, SInv', SigInv, [SynchNext]_all_vars
             PROVE  M!MonitorNext \/ UNCHANGED M!monitor_vars
  BY Zenon
<1>1. CASE \/ SchedStep \/ SemaTryDown \/ SemaUp \/ IntrSemaUp \/ IntrSemaTryDown
           \/ LockRelease \/ CondWaitRelease \/ SetHolder \/ SignalUp \/ BroadcastDone
  <2>1. UNCHANGED M!monitor_vars
    BY <1>1, StutterRefines, Zenon
  <2> QED
    BY <2>1, Zenon
<1>2. CASE SemaDown \/ LockAcquire \/ CondWaitDown \/ CondWaitAcquire \/ DownAgain
  BY <1>2, DownRefines, Zenon
<1>3. CASE LockTryAcquire
  BY <1>3, TryAcquireRefines, Zenon
<1>4. CASE Unlock
  BY <1>4, UnlockRefines, Zenon
<1>5. CASE CondWait
  <2>1. UNCHANGED M!monitor_vars
    BY <1>5, EnterRefines, Zenon
  <2> QED
    BY <2>1
<1>6. CASE CondSignal \/ CondBroadcast \/ BroadcastNext
  <2>1. /\ current \in Thread /\ InCallOf(current) /\ SynchTypeOK
        /\ pc[current] = "bcast" => cv[current] \in Cond
    BY <1>6, AtCall, Zenon DEF CondSignal, CondBroadcast, BroadcastNext, InCallOf
  <2>2. PICK c \in Cond : PopWaiter(c) /\ (cv' = cv \/ cv' = [cv EXCEPT ![current] = c])
    BY <1>6, <2>1, Zenon DEF CondSignal, CondBroadcast, BroadcastNext, At
  <2>3. \A t \in Thread : t # current => cv'[t] = cv[t]
    BY <2>1, <2>2, Names, Zenon DEF SynchTypeOK
  <2>4. M!MonitorNext
    BY <1>6, <2>2, <2>3, PopRefines, Zenon DEF CondSignal, CondBroadcast, BroadcastNext
  <2> QED
    BY <2>4, Zenon
<1>7. CASE UNCHANGED all_vars
  <2>1. pc' = pc /\ arg' = arg /\ cv' = cv /\ holder' = holder /\ cond_waiters' = cond_waiters
    BY <1>7, Zenon DEF all_vars, vars, synch_vars
  <2>2. /\ \A t \in Thread, l \in Lock : Owns(t, l)' <=> Owns(t, l)
        /\ \A t \in Thread : Leaving(t)' <=> Leaving(t)
        /\ \A t \in Thread, c \in Cond : Inside(t, c)' <=> Inside(t, c)
    BY <2>1, Zenon DEF Owns, Leaving, Inside
  <2>3. UNCHANGED M!monitor_vars
    BY <2>1, <2>2, MonitorSame, Zenon
  <2> QED
    BY <2>3
<1> QED
  BY <1>1, <1>2, <1>3, <1>4, <1>5, <1>6, <1>7, Zenon DEF SynchNext, Continue

\* Locks and conditions implement the monitor of module Monitor: cond_wait
\* releases the lock and waits in one step, it returns with the lock held,
\* and cond_signal wakes the thread that has waited longest.
THEOREM MonitorImplemented == SynchSpec => ImplementsMonitor
<1> SUFFICES SynchSpec => M!MonitorInit /\ [][M!MonitorNext]_(M!monitor_vars)
  BY Zenon DEF ImplementsMonitor, M!MonitorSpec
<1> QED
  BY InitSInv, NextSInv, InitSigInv, NextSigInv, InitRefines, NextRefines, PTL DEF SynchSpec

-----------------------------------------------------------------------------
(* Wake-ups.                                                               *)

\* What the argument needs to know of finite sets (proved at the end).
Counting ==
  /\ \A S : IsFiniteSet(S) => Cardinality(S) \in Nat
  /\ \A S, x : IsFiniteSet(S) /\ x \notin S =>
       IsFiniteSet(S \cup {x}) /\ Cardinality(S \cup {x}) = Cardinality(S) + 1
  /\ \A S, x : IsFiniteSet(S) =>
       /\ IsFiniteSet(S \ {x})
       /\ Cardinality(S \ {x}) = IF x \in S THEN Cardinality(S) - 1 ELSE Cardinality(S)

\* Finitely many threads have been woken for s, and if others still sleep
\* they are enough for all its units.
WakeOf(s) ==
  /\ IsFiniteSet(WokenFor(s))
  /\ waiters[s] # <<>> => Cardinality(WokenFor(s)) >= value[s]

WakeInv == \A s \in AnySema : WakeOf(s)

\* Nothing changes for a semaphore with the same sleepers and no more units.
LEMMA WakeSame ==
  ASSUME Counting, SInv, NEW s \in AnySema, WakeOf(s), waiters'[s] = waiters[s],
         value'[s] \in Nat, value'[s] <= value[s],
         \A t \in Thread : t \in WokenFor(s)' <=> t \in WokenFor(s)
  PROVE  WakeOf(s)'
<1>1. WokenFor(s)' = WokenFor(s)
  BY Zenon DEF WokenFor
<1>2. value[s] \in Nat /\ Cardinality(WokenFor(s)) \in Nat
  BY Zenon DEF Counting, SInv, SynchTypeOK, WakeOf
<1> QED
  BY <1>1, <1>2 DEF WakeOf

\* A step that adds no unit, puts no thread to sleep and wakes none.
LEMMA WakeFrame ==
  ASSUME Counting, SInv, SInv', WakeInv, waiters' = waiters,
         \A s \in AnySema : value'[s] <= value[s],
         \A t \in Thread :
           \/ /\ pc'[t] = pc[t] /\ arg'[t] = arg[t]
              /\ status'[t] = "BLOCKED" <=> status[t] = "BLOCKED"
           \/ pc[t] # "down" /\ pc'[t] # "down"
  PROVE  WakeInv'
<1>1. ASSUME NEW s \in AnySema PROVE WakeOf(s)'
  <2>1. \A t \in Thread : t \in WokenFor(s)' <=> t \in WokenFor(s)
    BY Zenon DEF WokenFor
  <2>2. value'[s] \in Nat /\ value'[s] <= value[s] /\ waiters'[s] = waiters[s] /\ WakeOf(s)
    BY Zenon DEF SInv, SynchTypeOK, WakeInv
  <2> QED
    BY <2>1, <2>2, WakeSame, Zenon
<1> QED
  BY <1>1, Zenon DEF WakeInv

\* sema_up(s) wakes a thread whenever one sleeps.
LEMMA WakeUp ==
  ASSUME Counting, SInv, SInv', WakeInv, NEW s \in AnySema, sema_up(s),
         \A t \in Thread : \/ pc'[t] = pc[t] /\ arg'[t] = arg[t]
                           \/ pc[t] # "down" /\ pc'[t] # "down"
  PROVE  WakeInv'
<1>1. /\ value \in [AnySema -> Nat] /\ value' \in [AnySema -> Nat]
      /\ value'[s] = value[s] + 1
      /\ \A r \in AnySema : r # s => value'[r] = value[r] /\ waiters'[r] = waiters[r]
  BY UpMoves, Zenon DEF SInv, SynchTypeOK
<1>2. CASE waiters[s] = <<>> /\ waiters' = waiters /\ status' = status
  <2>1. \A r \in AnySema, t \in Thread : t \in WokenFor(r)' <=> t \in WokenFor(r)
    BY <1>2, Zenon DEF WokenFor
  <2>2. ASSUME NEW r \in AnySema, r # s PROVE WakeOf(r)'
    <3>1. value'[r] \in Nat /\ value'[r] <= value[r] /\ waiters'[r] = waiters[r] /\ WakeOf(r)
      BY <1>1, <2>2 DEF WakeInv
    <3> QED
      BY <2>1, <3>1, WakeSame, Zenon
  <2>3. WokenFor(s)' = WokenFor(s) /\ WakeOf(s)
    BY <2>1, Zenon DEF WokenFor, WakeInv
  <2>4. WakeOf(s)'
    BY <1>2, <2>3, Zenon DEF WakeOf
  <2> QED
    BY <2>2, <2>4, Zenon DEF WakeInv
<1>3. CASE /\ waiters[s] # <<>>
           /\ \E w \in Thread : /\ Asleep(w, s) /\ status'[w] = "READY"
                                /\ \A t \in Thread : t # w => status'[t] = status[t]
  <2>1. PICK w \in Thread : /\ Asleep(w, s) /\ status'[w] = "READY"
                            /\ \A t \in Thread : t # w => status'[t] = status[t]
    BY <1>3, Zenon
  <2>2. pc[w] = "down" /\ arg[w] = s /\ pc'[w] = "down" /\ arg'[w] = s /\ status[w] = "BLOCKED"
    BY <2>1, Zenon DEF Asleep
  <2>3. ASSUME NEW r \in AnySema, r # s PROVE WakeOf(r)'
    <3>1. value'[r] \in Nat /\ value'[r] <= value[r] /\ waiters'[r] = waiters[r] /\ WakeOf(r)
      BY <1>1, <2>3 DEF WakeInv
    <3>2. \A t \in Thread : t \in WokenFor(r)' <=> t \in WokenFor(r)
      BY <2>1, <2>2, <2>3, Zenon DEF WokenFor
    <3> QED
      BY <3>1, <3>2, WakeSame, Zenon
  <2>4. WokenFor(s)' = WokenFor(s) \cup {w} /\ w \notin WokenFor(s)
    BY <2>1, <2>2, Zenon DEF WokenFor
  <2>5. WakeOf(s) /\ value[s] \in Nat
    BY <1>1, Zenon DEF WakeInv
  <2>6. /\ IsFiniteSet(WokenFor(s)') /\ Cardinality(WokenFor(s)') = Cardinality(WokenFor(s)) + 1
        /\ Cardinality(WokenFor(s)) \in Nat
    BY <2>4, <2>5, SMTT(30) DEF Counting, WakeOf
  <2>7. WakeOf(s)'
    BY <1>1, <1>3, <2>5, <2>6, SMTT(30) DEF WakeOf
  <2> QED
    BY <2>3, <2>7, Zenon DEF WakeInv
<1> QED
  BY <1>2, <1>3, UpMoves, Zenon

\* One woken thread less is enough for one unit less.
LEMMA OneLess ==
  ASSUME NEW v \in Nat, NEW w, NEW a \in Nat, NEW b \in Nat, w = v - 1, b >= a - 1, a >= v
  PROVE  b >= w
<1> QED
  BY SMT

\* A woken thread gives up its place only when it takes a unit or finds none.
LEMMA WakeDown ==
  ASSUME Counting, SInv, SInv', WakeInv, current \in Thread, NEW s \in AnySema, sema_down(s),
         pc[current] = "down" => arg[current] = s
  PROVE  WakeInv'
<1>1. PICK me \in Thread : me = current /\ status[me] = "RUNNING"
  BY Names, Zenon DEF SInv, ElemOnOneList, RunQueueConsistent
<1>2. /\ \A t \in Thread : t # me =>
           /\ pc'[t] = pc[t] /\ arg'[t] = arg[t]
           /\ status'[t] = "BLOCKED" <=> status[t] = "BLOCKED"
      /\ \/ /\ value[s] = 0 /\ value' = value
            /\ pc'[me] = "down" /\ arg'[me] = s
            /\ status'[me] = "BLOCKED"
            /\ \A r \in AnySema : r # s => waiters'[r] = waiters[r]
         \/ /\ value[s] > 0 /\ value'[s] = value[s] - 1
            /\ \A r \in AnySema : r # s => value'[r] = value[r]
            /\ waiters' = waiters
            /\ pc'[me] # "down"
  BY <1>1, DownMoves, Zenon DEF AnySema
<1>3. /\ value \in [AnySema -> Nat] /\ value' \in [AnySema -> Nat]
  BY Zenon DEF SInv, SynchTypeOK
<1>4. ASSUME NEW r \in AnySema, r # s PROVE WakeOf(r)'
  <2>1. value'[r] \in Nat /\ value'[r] <= value[r] /\ waiters'[r] = waiters[r] /\ WakeOf(r)
    BY <1>2, <1>3, <1>4 DEF WakeInv
  <2>2. me \notin WokenFor(r) /\ me \notin WokenFor(r)'
    BY <1>1, <1>2, <1>4, Zenon DEF WokenFor
  <2>3. \A t \in Thread : t # me => (t \in WokenFor(r)' <=> t \in WokenFor(r))
    BY <1>2, Zenon DEF WokenFor
  <2> QED
    BY <2>1, <2>2, <2>3, WakeSame, Zenon
<1>5. WokenFor(s)' = WokenFor(s) \ {me}
  BY <1>1, <1>2, ZenonT(40) DEF WokenFor
<1>6. WakeOf(s) /\ value[s] \in Nat /\ value'[s] \in Nat
  BY <1>3, Zenon DEF WakeInv
<1>7. /\ IsFiniteSet(WokenFor(s)') /\ Cardinality(WokenFor(s)') \in Nat
      /\ Cardinality(WokenFor(s)') >= Cardinality(WokenFor(s)) - 1
      /\ Cardinality(WokenFor(s)) \in Nat
  <2>1. IsFiniteSet(WokenFor(s)) /\ Cardinality(WokenFor(s)) \in Nat
    BY <1>6, Zenon DEF Counting, WakeOf
  <2>2. /\ IsFiniteSet(WokenFor(s) \ {me})
        /\ Cardinality(WokenFor(s) \ {me}) =
             IF me \in WokenFor(s) THEN Cardinality(WokenFor(s)) - 1 ELSE Cardinality(WokenFor(s))
    BY <2>1, Zenon DEF Counting
  <2>3. Cardinality(WokenFor(s) \ {me}) \in Nat
    BY <2>2, Zenon DEF Counting
  <2> QED
    BY <1>5, <2>1, <2>2, <2>3
<1>8. WakeOf(s)'
  <2>1. CASE value'[s] = 0
    BY <1>7, <2>1 DEF WakeOf
  <2>2. CASE value'[s] = value[s] - 1 /\ waiters' = waiters
    <3>1. ASSUME Cardinality(WokenFor(s)) >= value[s] PROVE Cardinality(WokenFor(s)') >= value'[s]
      BY <1>6, <1>7, <2>2, <3>1, OneLess, Zenon
    <3>2. waiters[s] # <<>> => Cardinality(WokenFor(s)) >= value[s]
      BY <1>6, Zenon DEF WakeOf
    <3> QED
      BY <1>7, <2>2, <3>1, <3>2, Zenon DEF WakeOf
  <2> QED
    BY <1>2, <2>1, <2>2, ZenonT(40)
<1> QED
  BY <1>4, <1>8, Zenon DEF WakeInv

\* No step strands a sleeper: an up wakes one, a down consumes a unit, the
\* rest touch neither the units nor the threads on their way to them.
LEMMA NextWakeInv == Counting /\ SInv /\ SInv' /\ WakeInv /\ [SynchNext]_all_vars => WakeInv'
<1> SUFFICES ASSUME Counting, SInv, SInv', WakeInv, [SynchNext]_all_vars PROVE WakeInv'
  BY Zenon
<1>1. /\ value \in [AnySema -> Nat] /\ SynchTypeOK
      /\ pc \in [AnyThread -> SynchLabels] /\ current \in AnyThread /\ Labelled
  BY Zenon DEF SInv, SynchTypeOK, SchedTypeOK
<1>2. CASE SchedStep
  <2>1. SchedShape /\ UNCHANGED synch_vars
    BY <1>2, SchedStepShape, Zenon
  <2>2. /\ waiters' = waiters
        /\ \A t \in Thread :
             \/ /\ pc'[t] = pc[t] /\ arg'[t] = arg[t]
                /\ status'[t] = "BLOCKED" <=> status[t] = "BLOCKED"
             \/ pc[t] # "down" /\ pc'[t] # "down"
    BY <2>1, Zenon DEF SchedShape, synch_vars
  <2>3. \A s \in AnySema : value'[s] <= value[s]
    BY <1>1, <2>1 DEF synch_vars
  <2> QED
    BY <2>2, <2>3, WakeFrame, Zenon
<1>3. CASE SemaTryDown \/ SemaUp \/ IntrSemaUp \/ IntrSemaTryDown
  <2>1. arg' = arg /\ \A t \in Thread : pc'[t] = pc[t]
    <3>1. CASE UNCHANGED pc
      BY <1>3, <3>1, Zenon DEF SemaTryDown, SemaUp, IntrSemaUp, IntrSemaTryDown, vars
    <3>2. CASE LeaveHlt
      BY <1>1, <1>3, <3>2, LeaveHltFacts, Zenon
        DEF SemaTryDown, SemaUp, IntrSemaUp, IntrSemaTryDown, vars, SynchLabels
    <3> QED
      BY <1>3, <3>1, <3>2, Zenon DEF SemaTryDown, SemaUp, IntrSemaUp, IntrSemaTryDown, vars
  <2>2. PICK s \in Sema : sema_up(s) \/ (sema_try_down(s) /\ status' = status)
    BY <1>3, Zenon DEF SemaTryDown, SemaUp, IntrSemaUp, IntrSemaTryDown, vars, sched_vars
  <2>3. s \in AnySema
    BY Names, Zenon
  <2>4. CASE sema_up(s)
    BY <2>1, <2>3, <2>4, WakeUp, Zenon
  <2>5. CASE sema_try_down(s) /\ status' = status
    <3>1. waiters' = waiters /\ \A r \in AnySema : value'[r] <= value[r]
      BY <1>1, <2>3, <2>5 DEF sema_try_down
    <3> QED
      BY <2>1, <2>5, <3>1, WakeFrame, Zenon
  <2> QED
    BY <2>2, <2>4, <2>5, Zenon
<1>4. CASE SemaDown \/ LockAcquire \/ CondWaitDown \/ CondWaitAcquire \/ DownAgain
  <2>1. /\ current \in Thread /\ InCallOf(current)
        /\ pc[current] \in {"run", "wait2", "wait3", "down"}
    BY <1>4, AtCall, Zenon DEF SemaDown, LockAcquire, CondWaitDown, CondWaitAcquire, DownAgain
  <2>2. PICK s \in AnySema : sema_down(s) /\ (pc[current] = "down" => arg[current] = s)
    BY <1>4, <2>1, Names, Zenon
      DEF SemaDown, LockAcquire, CondWaitDown, CondWaitAcquire, DownAgain, InCallOf, At
  <2> QED
    BY <2>1, <2>2, WakeDown, Zenon
<1>5. CASE Unlock \/ SignalUp
  <2>1. PICK me \in Thread : /\ me = current /\ pc[me] \in {"unlock", "signal"} /\ InCallOf(me)
                             /\ me \in AnySema \cup {idle_thread}
    BY <1>5, AtCall, Names, Zenon DEF Unlock, SignalUp
  <2>2. PICK s \in AnySema : sema_up(s)
    BY <1>5, <2>1, Names, Zenon DEF Unlock, SignalUp, InCallOf
  <2>3. PICK l \in {"run", "wait2", "bcast"} : Goto(l) /\ SetArg(me) /\ l \in SynchLabels
    BY <1>5, <2>1, Zenon DEF Unlock, SignalUp, NoArg, SynchLabels
  <2>4. pc'[me] = l /\ \A t \in Thread : t # me => pc'[t] = pc[t] /\ arg'[t] = arg[t]
    BY <1>1, <2>1, <2>3, GotoFacts, Zenon
  <2> QED
    BY <2>1, <2>2, <2>3, <2>4, WakeUp, Zenon
<1>6. ASSUME NEW me \in Thread, me = current, status' = status, waiters' = waiters,
             pc[me] # "down", pc'[me] # "down",
             \A t \in Thread : t # me => pc'[t] = pc[t] /\ arg'[t] = arg[t],
             \A s \in AnySema : value'[s] <= value[s]
      PROVE  WakeInv'
  BY <1>6, WakeFrame, Zenon
<1>7. CASE LockTryAcquire \/ SetHolder \/ LockRelease \/ CondWaitRelease
  <2>1. PICK me \in Thread : me = current /\ pc[me] \in {"run", "own", "wait1"} /\ me \in AnySema
    BY <1>7, AtCall, Names, Zenon DEF LockTryAcquire, SetHolder, LockRelease, CondWaitRelease
  <2>2. /\ status' = status /\ waiters' = waiters
        /\ \E l \in {"own", "run", "unlock"} : Goto(l)
    BY <1>7, Zenon DEF LockTryAcquire, SetHolder, LockRelease, CondWaitRelease, ClearHolder,
                sema_try_down, sched_vars
  <2>3. pc'[me] # "down" /\ \A t \in Thread : t # me => pc'[t] = pc[t]
    BY <1>1, <2>1, <2>2, Names, Zenon DEF Goto, SynchTypeOK
  <2>4. \A t \in Thread : t # me => arg'[t] = arg[t]
    <3>1. \E a : SetArg(a)
      BY <1>7, Zenon DEF LockTryAcquire, SetHolder, LockRelease, CondWaitRelease, ClearHolder, NoArg
    <3> QED
      BY <1>1, <2>1, <3>1, Names, Zenon DEF SetArg, SynchTypeOK
  <2>5. \A s \in AnySema : value'[s] <= value[s]
    <3>1. CASE LockTryAcquire
      BY <1>1, <3>1, Names DEF LockTryAcquire, sema_try_down
    <3>2. CASE value' = value
      BY <1>1, <3>2
    <3> QED
      BY <1>7, <3>1, <3>2, Zenon DEF SetHolder, LockRelease, CondWaitRelease, ClearHolder
  <2> QED
    BY <1>6, <2>1, <2>2, <2>3, <2>4, <2>5, Zenon
<1>8. CASE CondWait
  <2>1. SInv /\ pc[current] = "run" /\ current \in Thread /\ WaitListsConsistent
        /\ status[current] = "RUNNING"
    BY <1>8, AtCall, Zenon DEF CondWait
  <2>2. PICK me \in Thread : me = current /\ me \in AnySema /\ me \in AnyThread
    BY <2>1, Names, Zenon
  <2>3. waiters' = waiters
    BY <1>8, WaiterUnused, Zenon
  <2>4. /\ status' = status /\ arg' = arg /\ value' = [value EXCEPT ![me] = 0]
        /\ pc' = [pc EXCEPT ![me] = "wait1"]
    BY <1>8, <2>2, Zenon DEF CondWait, Goto, sched_vars
  <2>5. pc'[me] # "down" /\ \A t \in Thread : t # me => pc'[t] = pc[t]
    BY <1>1, <2>2, <2>4, Names, Zenon
  <2>6. \A s \in AnySema : value'[s] <= value[s]
    BY <1>1, <2>4
  <2> QED
    BY <1>6, <2>1, <2>2, <2>3, <2>4, <2>5, <2>6, Zenon
<1>9. CASE CondSignal \/ CondBroadcast \/ BroadcastNext \/ BroadcastDone
  <2>1. PICK me \in Thread : me = current /\ pc[me] \in {"run", "bcast"} /\ me \in AnyThread
    BY <1>9, AtCall, Names, Zenon DEF CondSignal, CondBroadcast, BroadcastNext, BroadcastDone
  <2>2. /\ status' = status /\ waiters' = waiters /\ value' = value
        /\ \E l \in {"run", "signal"} : Goto(l)
        /\ arg' = arg \/ \E a : SetArg(a)
    BY <1>9, Zenon DEF CondSignal, CondBroadcast, BroadcastNext, BroadcastDone, PopWaiter, sched_vars
  <2>3. /\ pc'[me] # "down" /\ \A t \in Thread : t # me => pc'[t] = pc[t]
        /\ \A t \in Thread : t # me => arg'[t] = arg[t]
    BY <1>1, <2>1, <2>2, Names, Zenon DEF Goto, SetArg, SynchTypeOK
  <2>4. \A s \in AnySema : value'[s] <= value[s]
    BY <1>1, <2>2
  <2> QED
    BY <1>6, <2>1, <2>2, <2>3, <2>4, Zenon
<1>10. CASE UNCHANGED all_vars
  <2>1. /\ pc' = pc /\ arg' = arg /\ value' = value /\ waiters' = waiters /\ status' = status
    BY <1>10, Zenon DEF all_vars, vars, synch_vars
  <2>2. \A s \in AnySema : value'[s] <= value[s]
    BY <1>1, <2>1
  <2> QED
    BY <2>1, <2>2, WakeFrame, Zenon
<1> QED
  BY <1>2, <1>3, <1>4, <1>5, <1>7, <1>8, <1>9, <1>10, Zenon DEF SynchNext, Continue

INSTANCE FiniteSetTheorems

\* Finite sets are as Counting says.
LEMMA CountingHolds == Counting
  BY FS_CardinalityType, FS_AddElement, FS_RemoveElement DEF Counting

\* At boot nobody sleeps on a semaphore.
LEMMA InitWakeInv == SynchInit => WakeInv
<1> SUFFICES ASSUME SynchInit, NEW s \in AnySema PROVE WakeOf(s)
  BY Zenon DEF WakeInv
<1>1. waiters[s] = <<>>
  BY Zenon DEF SynchInit
<1>2. WokenFor(s) = {}
  BY Names, Zenon DEF SynchInit, Init, WokenFor, AnyThread
<1> QED
  BY <1>1, <1>2, FS_EmptySet, Zenon DEF WakeOf

\* A semaphore's units and its sleepers never go together without as many
\* woken threads on their way, whoever ups it and whoever gets ahead of them.
THEOREM WakeupsKept == SynchSpec => []NoLostWakeup
<1>1. WakeInv => NoLostWakeup
  BY Zenon DEF WakeInv, WakeOf, NoLostWakeup
<1>2. SInv /\ SInv' /\ WakeInv /\ [SynchNext]_all_vars => WakeInv'
  BY CountingHolds, NextWakeInv, Zenon
<1> QED
  BY <1>1, <1>2, InitSInv, NextSInv, InitWakeInv, PTL DEF SynchSpec
=============================================================================
