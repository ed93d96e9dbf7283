---------------------------- MODULE SynchProofs ----------------------------
(***************************************************************************)
(* Proofs about the scheduler, for any number of threads and any length of *)
(* the time slice, and, building on them, about synch.c, for any number of *)
(* threads, semaphores, locks and conditions.                              *)
(***************************************************************************)
EXTENDS Synch, TLAPS

(***************************************************************************)
(* thread.c.                                                               *)
(***************************************************************************)

\* What makes RunQueueConsistent inductive: a thread stands at a label of its
\* kind, a page without a thread stands nowhere, and thread_create() hands
\* thread_unblock() a blocked thread nobody else is about to unblock.
Labelled ==
  /\ pc[idle_thread] \in {"idle", "hlt"}
  /\ \A t \in Thread : pc[t] \notin {"idle", "hlt"}
  /\ \A t \in Thread : status[t] \in {"FREE", "DYING"} => pc[t] = "none"
  /\ \A t \in Thread : pc[t] = "create" =>
       arg[t] \in Thread /\ status[arg[t]] = "BLOCKED" /\ pc[arg[t]] = "new"
  /\ \A t, u \in Thread : pc[t] = "create" /\ pc[u] = "create" /\ arg[t] = arg[u] => t = u

IInv == TypeOK /\ RunQueueConsistent /\ Labelled

-----------------------------------------------------------------------------
(* The operators of thread.c.                                              *)

\* Taking the head off a run queue of distinct threads: the rest are the
\* others, in their order.
LEMMA TailFacts ==
  ASSUME NEW S, NEW q \in Seq(S), q # <<>>
  PROVE  /\ Head(q) \in S /\ Head(q) = q[1] /\ 1 \in DOMAIN q
         /\ Tail(q) \in Seq(S)
         /\ \A i \in DOMAIN Tail(q) : i + 1 \in DOMAIN q /\ Tail(q)[i] = q[i + 1]
         /\ \A i \in DOMAIN q : i # 1 => i - 1 \in DOMAIN Tail(q) /\ Tail(q)[i - 1] = q[i]
  OBVIOUS

\* Queueing a thread leaves the others where they are.
LEMMA AppendFacts ==
  ASSUME NEW S, NEW q \in Seq(S), NEW e \in S
  PROVE  /\ Append(q, e) \in Seq(S)
         /\ DOMAIN Append(q, e) = DOMAIN q \cup {Len(q) + 1}
         /\ Len(q) + 1 \notin DOMAIN q
         /\ \A i \in DOMAIN q : Append(q, e)[i] = q[i]
         /\ Append(q, e)[Len(q) + 1] = e
         /\ Append(q, e) # <<>>
  OBVIOUS

\* The run queue rl holds exactly the threads that st says are ready, once.
Queue(st, rl) ==
  /\ \A t \in Thread : st[t] = "READY" <=> \E i \in DOMAIN rl : rl[i] = t
  /\ \A i, j \in DOMAIN rl : rl[i] = rl[j] => i = j

Switchable(st, rl) ==
  /\ st \in [AnyThread -> thread_status] /\ rl \in Seq(Thread)
  /\ \A t \in AnyThread : st[t] # "RUNNING"
  /\ st[idle_thread] \in {"READY", "BLOCKED"}
  /\ Queue(st, rl)

\* schedule() called with a consistent run queue and nobody running leaves a
\* consistent run queue, with somebody running; blocked threads stay blocked
\* and no page is freed but that of a dying thread.
LEMMA ScheduleFacts ==
  ASSUME SchedTypeOK, NEW st, NEW rl, Switchable(st, rl), schedule(st, rl)
  PROVE  /\ status' \in [AnyThread -> thread_status]
         /\ ready_list' \in Seq(Thread)
         /\ current' \in AnyThread
         /\ thread_ticks' \in 0..(TIME_SLICE - 1)
         /\ RunQueueConsistent'
         /\ \A t \in Thread : st[t] = "BLOCKED" <=> status'[t] = "BLOCKED"
         /\ \A t \in Thread : status'[t] \in {"FREE", "DYING"} => st[t] \in {"FREE", "DYING"}
<1> DEFINE next == next_thread_to_run(rl)
<1>1. /\ status' = [st EXCEPT ![current] = StatusOfPrev(st, next), ![next] = "RUNNING"]
      /\ ready_list' = IF rl = <<>> THEN rl ELSE Tail(rl)
      /\ current' = next
      /\ thread_ticks' = 0
  BY DEF schedule
<1>2. /\ st \in [AnyThread -> thread_status] /\ rl \in Seq(Thread)
      /\ \A t \in AnyThread : st[t] # "RUNNING"
      /\ st[idle_thread] \in {"READY", "BLOCKED"}
      /\ \A t \in Thread : st[t] = "READY" <=> \E i \in DOMAIN rl : rl[i] = t
      /\ \A i, j \in DOMAIN rl : rl[i] = rl[j] => i = j
  BY DEF Switchable, Queue
<1>3. current \in AnyThread
  BY DEF SchedTypeOK
<1>4. /\ next \in AnyThread
      /\ rl = <<>> => next = idle_thread
      /\ rl # <<>> => next \in Thread /\ next = rl[1] /\ st[next] = "READY"
  BY <1>2, TailFacts DEF next_thread_to_run, AnyThread
<1>5. /\ StatusOfPrev(st, next) \in thread_status
      /\ StatusOfPrev(st, next) # "RUNNING"
      /\ \/ StatusOfPrev(st, next) = st[current]
         \/ /\ st[current] = "DYING" /\ StatusOfPrev(st, next) = "FREE"
            /\ current # next
  BY <1>2, <1>3 DEF StatusOfPrev, thread_status
<1>6. /\ status' \in [AnyThread -> thread_status]
      /\ status'[next] = "RUNNING"
      /\ current # next => status'[current] = StatusOfPrev(st, next)
      /\ \A t \in AnyThread : t # next /\ t # current => status'[t] = st[t]
  BY <1>1, <1>2, <1>3, <1>4, <1>5 DEF thread_status
<1>7. ready_list' \in Seq(Thread)
  BY <1>1, <1>2, TailFacts
<1>8. thread_ticks' \in 0..(TIME_SLICE - 1)
  BY <1>1, ThreadsAssumption
<1>9. \A t \in AnyThread : status'[t] = "RUNNING" <=> t = current'
  BY <1>1, <1>2, <1>3, <1>5, <1>6
<1>10. \A t \in Thread : status'[t] = "READY" <=> (st[t] = "READY" /\ t # next)
  BY <1>2, <1>3, <1>5, <1>6 DEF AnyThread
<1>11. /\ \A t \in Thread : status'[t] = "READY" <=> \E i \in DOMAIN ready_list' : ready_list'[i] = t
       /\ \A i, j \in DOMAIN ready_list' : ready_list'[i] = ready_list'[j] => i = j
  <2>1. CASE rl = <<>>
    <3>1. ready_list' = <<>> /\ next = idle_thread
      BY <2>1, <1>1, <1>4
    <3>2. DOMAIN ready_list' = {}
      BY <3>1
    <3>3. \A t \in Thread : st[t] # "READY"
      BY <1>2, <2>1, <3>1, <3>2
    <3> QED
      BY <3>2, <3>3, <1>10
  <2>2. CASE rl # <<>>
    <3>1. ready_list' = Tail(rl) /\ next = rl[1] /\ 1 \in DOMAIN rl
      BY <2>2, <1>1, <1>2, <1>4, TailFacts
    <3>2. /\ \A i \in DOMAIN Tail(rl) : i + 1 \in DOMAIN rl /\ Tail(rl)[i] = rl[i + 1]
          /\ \A i \in DOMAIN rl : i # 1 => i - 1 \in DOMAIN Tail(rl) /\ Tail(rl)[i - 1] = rl[i]
      BY <2>2, <1>2, TailFacts
    <3>3. \A i \in DOMAIN Tail(rl) : i \in Nat /\ i >= 1
      BY <1>2, <2>2
    <3>4. ASSUME NEW t \in Thread, st[t] = "READY", t # next
          PROVE  \E i \in DOMAIN Tail(rl) : Tail(rl)[i] = t
      <4>1. PICK i \in DOMAIN rl : rl[i] = t
        BY <3>4, <1>2
      <4>2. i # 1
        BY <3>4, <3>1, <4>1
      <4>3. i - 1 \in DOMAIN Tail(rl) /\ Tail(rl)[i - 1] = t
        BY <3>2, <4>1, <4>2
      <4> QED
        BY <4>3
    <3>5. ASSUME NEW i \in DOMAIN Tail(rl)
          PROVE  /\ Tail(rl)[i] # next
                 /\ \A t \in Thread : Tail(rl)[i] = t => st[t] = "READY"
      BY <1>2, <3>1, <3>2, <3>3
    <3>6. \A i, j \in DOMAIN Tail(rl) : Tail(rl)[i] = Tail(rl)[j] => i = j
      BY <1>2, <3>2, <3>3
    <3> QED
      BY <1>10, <3>1, <3>4, <3>5, <3>6
  <2> QED
    BY <2>1, <2>2
<1>12. status'[idle_thread] \in {"RUNNING", "READY", "BLOCKED"}
  BY <1>2, <1>3, <1>5, <1>6 DEF AnyThread
<1>13. /\ \A t \in Thread : st[t] = "BLOCKED" <=> status'[t] = "BLOCKED"
       /\ \A t \in Thread : status'[t] \in {"FREE", "DYING"} => st[t] \in {"FREE", "DYING"}
  BY <1>2, <1>3, <1>4, <1>5, <1>6, ThreadsAssumption DEF AnyThread
<1> QED
  BY <1>1, <1>4, <1>6, <1>7, <1>8, <1>9, <1>11, <1>12, <1>13, Zenon DEF RunQueueConsistent, OnReadyList

\* The three ways to call schedule(): yielding, blocking and dying.
LEMMA YieldSwitches ==
  ASSUME SchedTypeOK, RunQueueConsistent
  PROVE  Switchable([status EXCEPT ![current] = "READY"],
                    IF current # idle_thread THEN Append(ready_list, current) ELSE ready_list)
<1> DEFINE st == [status EXCEPT ![current] = "READY"]
           rl == IF current # idle_thread THEN Append(ready_list, current) ELSE ready_list
<1>1. /\ current \in AnyThread /\ ready_list \in Seq(Thread)
      /\ st \in [AnyThread -> thread_status]
  BY DEF SchedTypeOK, thread_status
<1>2. /\ \A t \in AnyThread : st[t] = IF t = current THEN "READY" ELSE status[t]
      /\ \A t \in AnyThread : status[t] = "RUNNING" <=> t = current
      /\ \A t \in Thread : status[t] = "READY" <=> \E i \in DOMAIN ready_list : ready_list[i] = t
      /\ \A i, j \in DOMAIN ready_list : ready_list[i] = ready_list[j] => i = j
      /\ status[idle_thread] \in {"RUNNING", "READY", "BLOCKED"}
  BY <1>1 DEF SchedTypeOK, RunQueueConsistent, OnReadyList
<1>3. /\ \A t \in AnyThread : st[t] # "RUNNING"
      /\ st[idle_thread] \in {"READY", "BLOCKED"}
  BY <1>2 DEF AnyThread
<1>4. rl \in Seq(Thread) /\ Queue(st, rl)
  <2>1. CASE current = idle_thread
    BY <1>1, <1>2, <2>1, ThreadsAssumption DEF Queue, AnyThread
  <2>2. CASE current # idle_thread
    <3>1. current \in Thread /\ rl = Append(ready_list, current)
      BY <1>1, <2>2 DEF AnyThread
    <3>2. /\ rl \in Seq(Thread)
          /\ DOMAIN rl = DOMAIN ready_list \cup {Len(ready_list) + 1}
          /\ Len(ready_list) + 1 \notin DOMAIN ready_list
          /\ \A i \in DOMAIN ready_list : rl[i] = ready_list[i]
          /\ rl[Len(ready_list) + 1] = current
      BY <1>1, <3>1, AppendFacts
    <3>3. \A i \in DOMAIN ready_list : ready_list[i] \in Thread
      BY <1>1
    <3>4. \A i \in DOMAIN ready_list : ready_list[i] # current
      BY <1>1, <1>2, <3>1, <3>3
    <3>5. \A t \in Thread : st[t] = "READY" <=> \E i \in DOMAIN rl : rl[i] = t
      <4> HIDE DEF st, rl
      <4>1. st[current] = "READY" /\ \A t \in Thread : t # current => st[t] = status[t]
        BY <1>1, <1>2 DEF AnyThread
      <4>2. \E i \in DOMAIN rl : rl[i] = current
        BY <3>2
      <4>3. \A t \in Thread : t # current =>
              ((\E i \in DOMAIN rl : rl[i] = t) <=> \E i \in DOMAIN ready_list : ready_list[i] = t)
        BY <3>2
      <4> QED
        BY <1>2, <4>1, <4>2, <4>3, ZenonT(40)
    <3>6. \A i, j \in DOMAIN rl : rl[i] = rl[j] => i = j
      BY <1>2, <3>2, <3>4
    <3> QED
      BY <3>2, <3>5, <3>6 DEF Queue
  <2> QED
    BY <2>1, <2>2
<1> QED
  BY <1>1, <1>3, <1>4 DEF Switchable

\* thread_block and thread_exit leave states that schedule can switch from.
LEMMA BlockSwitches ==
  ASSUME SchedTypeOK, RunQueueConsistent, NEW s \in {"BLOCKED", "DYING"},
         s = "DYING" => current # idle_thread
  PROVE  Switchable([status EXCEPT ![current] = s], ready_list)
<1> DEFINE st == [status EXCEPT ![current] = s]
<1>1. /\ current \in AnyThread /\ ready_list \in Seq(Thread)
      /\ st \in [AnyThread -> thread_status]
  BY DEF SchedTypeOK, thread_status
<1>2. /\ \A t \in AnyThread : st[t] = IF t = current THEN s ELSE status[t]
      /\ \A t \in AnyThread : status[t] = "RUNNING" <=> t = current
      /\ \A t \in Thread : status[t] = "READY" <=> \E i \in DOMAIN ready_list : ready_list[i] = t
      /\ \A i, j \in DOMAIN ready_list : ready_list[i] = ready_list[j] => i = j
      /\ status[idle_thread] \in {"RUNNING", "READY", "BLOCKED"}
  BY <1>1 DEF SchedTypeOK, RunQueueConsistent, OnReadyList
<1>3. /\ \A t \in AnyThread : st[t] # "RUNNING"
      /\ st[idle_thread] \in {"READY", "BLOCKED"}
  BY <1>2 DEF AnyThread
<1>4. \A t \in Thread : st[t] = "READY" <=> status[t] = "READY"
  BY <1>1, <1>2, Zenon DEF AnyThread
<1> QED
  BY <1>1, <1>2, <1>3, <1>4 DEF Switchable, Queue

\* What a thread_yield() does, whoever calls it.
LEMMA YieldSched ==
  ASSUME SchedTypeOK, RunQueueConsistent, thread_yield
  PROVE  /\ SchedTypeOK' /\ RunQueueConsistent'
         /\ \A t \in Thread : status'[t] = "BLOCKED" <=> status[t] = "BLOCKED"
         /\ \A t \in Thread : status'[t] \in {"FREE", "DYING"} => status[t] \in {"FREE", "DYING"}
<1> DEFINE st == [status EXCEPT ![current] = "READY"]
           rl == IF current # idle_thread THEN Append(ready_list, current) ELSE ready_list
<1>1. Switchable(st, rl) /\ schedule(st, rl)
  BY YieldSwitches DEF thread_yield
<1>2. \A t \in Thread : /\ st[t] = "BLOCKED" <=> status[t] = "BLOCKED"
                        /\ st[t] \in {"FREE", "DYING"} => status[t] \in {"FREE", "DYING"}
  BY Zenon DEF SchedTypeOK, RunQueueConsistent, AnyThread
<1> HIDE DEF st, rl
<1> QED
  BY <1>1, <1>2, ScheduleFacts DEF SchedTypeOK

\* What thread_block() and the end of thread_exit() do.
LEMMA BlockSched ==
  ASSUME SchedTypeOK, RunQueueConsistent, NEW s \in {"BLOCKED", "DYING"},
         s = "DYING" => current # idle_thread,
         schedule([status EXCEPT ![current] = s], ready_list)
  PROVE  /\ SchedTypeOK' /\ RunQueueConsistent'
         /\ \A t \in Thread : t # current =>
              /\ status'[t] = "BLOCKED" <=> status[t] = "BLOCKED"
              /\ status'[t] \in {"FREE", "DYING"} => status[t] \in {"FREE", "DYING"}
         /\ current \in Thread => (status'[current] = "BLOCKED" <=> s = "BLOCKED")
<1> DEFINE st == [status EXCEPT ![current] = s]
<1>1. Switchable(st, ready_list) /\ schedule(st, ready_list)
  BY BlockSwitches, Zenon
<1>2. /\ \A t \in Thread : t # current => st[t] = status[t]
      /\ current \in AnyThread /\ st[current] = s
  BY DEF SchedTypeOK, AnyThread
<1> HIDE DEF st
<1> QED
  BY <1>1, <1>2, ScheduleFacts DEF SchedTypeOK

\* thread_unblock() of a blocked thread.
LEMMA UnblockSched ==
  ASSUME SchedTypeOK, RunQueueConsistent,
         NEW t \in Thread, status[t] = "BLOCKED", thread_unblock(t)
  PROVE  /\ SchedTypeOK' /\ RunQueueConsistent'
         /\ current' = current
         /\ status'[t] = "READY"
         /\ \A u \in AnyThread : u # t => status'[u] = status[u]
<1>1. /\ ready_list' = Append(ready_list, t)
      /\ status' = [status EXCEPT ![t] = "READY"]
      /\ current' = current /\ thread_ticks' = thread_ticks
      /\ ready_list \in Seq(Thread) /\ status \in [AnyThread -> thread_status]
      /\ t \in AnyThread
  BY DEF thread_unblock, SchedTypeOK, AnyThread
<1>2. /\ status' \in [AnyThread -> thread_status]
      /\ status'[t] = "READY"
      /\ \A u \in AnyThread : u # t => status'[u] = status[u]
  BY <1>1 DEF thread_status
<1>3. /\ ready_list' \in Seq(Thread)
      /\ DOMAIN ready_list' = DOMAIN ready_list \cup {Len(ready_list) + 1}
      /\ Len(ready_list) + 1 \notin DOMAIN ready_list
      /\ \A i \in DOMAIN ready_list : ready_list'[i] = ready_list[i]
      /\ ready_list'[Len(ready_list) + 1] = t
  BY <1>1, AppendFacts
<1>4. /\ \A u \in AnyThread : status[u] = "RUNNING" <=> u = current
      /\ \A u \in Thread : status[u] = "READY" <=> \E i \in DOMAIN ready_list : ready_list[i] = u
      /\ \A i, j \in DOMAIN ready_list : ready_list[i] = ready_list[j] => i = j
      /\ status[idle_thread] \in {"RUNNING", "READY", "BLOCKED"}
  BY DEF RunQueueConsistent, OnReadyList
<1>5. \A u \in AnyThread : status'[u] = "RUNNING" <=> u = current'
  BY <1>1, <1>2, <1>4
<1>6. \A u \in Thread : status'[u] = "READY" <=> \E i \in DOMAIN ready_list' : ready_list'[i] = u
  BY <1>2, <1>3, <1>4 DEF AnyThread
<1>7. \A i \in DOMAIN ready_list : ready_list[i] # t
  BY <1>4
<1>8. \A i, j \in DOMAIN ready_list' : ready_list'[i] = ready_list'[j] => i = j
  BY <1>3, <1>4, <1>7
<1>9. status'[idle_thread] \in {"RUNNING", "READY", "BLOCKED"}
  BY <1>2, <1>4 DEF AnyThread
<1> QED
  BY <1>1, <1>2, <1>3, <1>5, <1>6, <1>8, <1>9 DEF SchedTypeOK, RunQueueConsistent, OnReadyList

-----------------------------------------------------------------------------
(* The inductive invariant.                                                *)

\* Steps that neither start nor finish a thread_create().
LEMMA LabelledKept ==
  ASSUME Labelled, pc'[idle_thread] \in {"idle", "hlt"},
         \A t \in Thread : pc[t] = "create" => arg'[t] = arg[t] \/ pc'[t] # "create",
         \A t \in Thread : \/ pc'[t] = pc[t]
                           \/ pc[t] # "new" /\ pc'[t] \notin {"idle", "hlt", "create"},
         \A t \in Thread : status'[t] \in {"FREE", "DYING"} => pc'[t] = "none",
         \A t \in Thread : status[t] = "BLOCKED" /\ pc[t] = "new" => status'[t] = "BLOCKED"
  PROVE  Labelled'
  BY DEF Labelled

\* The first thread runs and nobody else exists.
LEMMA InitIInv == Init => IInv
<1> SUFFICES ASSUME Init PROVE IInv
  OBVIOUS
<1>1. TypeOK
  BY ThreadsAssumption DEF Init, TypeOK, SchedTypeOK, AnyThread, thread_status, ThreadLabels
<1>2. DOMAIN ready_list = {}
  BY DEF Init
<1>3. RunQueueConsistent
  BY <1>2, ThreadsAssumption, Zenon DEF Init, RunQueueConsistent, OnReadyList, AnyThread
<1>4. Labelled
  BY ThreadsAssumption DEF Init, Labelled, AnyThread
<1> QED
  BY <1>1, <1>3, <1>4 DEF IInv

\* A thread_yield() from wherever the running thread is.
LEMMA YieldKeeps ==
  ASSUME IInv, thread_yield, arg' = arg, pc' \in [AnyThread -> ThreadLabels],
         \A t \in Thread : pc'[t] = pc[t], pc'[idle_thread] \in {"idle", "hlt"}
  PROVE  IInv'
<1>1. TypeOK /\ SchedTypeOK /\ RunQueueConsistent /\ Labelled
  BY DEF IInv, TypeOK
<1>2. /\ SchedTypeOK' /\ RunQueueConsistent'
      /\ \A t \in Thread : status'[t] = "BLOCKED" <=> status[t] = "BLOCKED"
      /\ \A t \in Thread : status'[t] \in {"FREE", "DYING"} => status[t] \in {"FREE", "DYING"}
  BY <1>1, YieldSched
<1>3. TypeOK'
  BY <1>1, <1>2 DEF TypeOK
<1>4. \A t \in Thread : status'[t] \in {"FREE", "DYING"} => pc'[t] = "none"
  BY <1>1, <1>2 DEF Labelled
<1> QED
  BY <1>1, <1>2, <1>3, <1>4, LabelledKept DEF IInv

\* A thread_block() or the schedule() of thread_exit().
LEMMA BlockKeeps ==
  ASSUME IInv, NEW s \in {"BLOCKED", "DYING"}, s = "DYING" => current # idle_thread,
         schedule([status EXCEPT ![current] = s], ready_list),
         arg' = arg, pc' \in [AnyThread -> ThreadLabels],
         \A t \in AnyThread : t # current => pc'[t] = pc[t],
         current = idle_thread => pc'[current] \in {"idle", "hlt"},
         current # idle_thread =>
           pc[current] # "new" /\ pc'[current] = IF s = "DYING" THEN "none" ELSE "blocked"
  PROVE  IInv'
<1>1. /\ TypeOK /\ SchedTypeOK /\ RunQueueConsistent /\ Labelled
      /\ current \in AnyThread
  BY DEF IInv, TypeOK, SchedTypeOK
<1>2. /\ SchedTypeOK' /\ RunQueueConsistent'
      /\ \A t \in Thread : t # current =>
           /\ status'[t] = "BLOCKED" <=> status[t] = "BLOCKED"
           /\ status'[t] \in {"FREE", "DYING"} => status[t] \in {"FREE", "DYING"}
      /\ current \in Thread => (status'[current] = "BLOCKED" <=> s = "BLOCKED")
  BY <1>1, BlockSched, Zenon
<1>3. TypeOK'
  BY <1>1, <1>2 DEF TypeOK
<1>4. /\ \A t \in Thread : status'[t] \in {"FREE", "DYING"} => pc'[t] = "none"
      /\ \A t \in Thread : status[t] = "BLOCKED" /\ pc[t] = "new" => status'[t] = "BLOCKED"
  BY <1>1, <1>2, ThreadsAssumption DEF Labelled, AnyThread
<1>5. /\ \A t \in Thread : \/ pc'[t] = pc[t]
                           \/ pc[t] # "new" /\ pc'[t] \in {"run", "blocked", "none"}
      /\ pc'[idle_thread] \in {"idle", "hlt"}
  BY <1>1, ThreadsAssumption DEF Labelled, AnyThread
<1> QED
  BY <1>1, <1>2, <1>3, <1>4, <1>5, LabelledKept DEF IInv

\* A thread_unblock() that does not end a thread_create().
LEMMA UnblockKeeps ==
  ASSUME IInv, arg' = arg, pc' \in [AnyThread -> ThreadLabels],
         \A u \in Thread : pc'[u] = pc[u], pc'[idle_thread] \in {"idle", "hlt"},
         NEW t \in Thread, status[t] = "BLOCKED", pc[t] = "blocked", thread_unblock(t)
  PROVE  IInv'
<1>1. TypeOK /\ SchedTypeOK /\ RunQueueConsistent /\ Labelled
  BY DEF IInv, TypeOK
<1>2. /\ SchedTypeOK' /\ RunQueueConsistent'
      /\ status'[t] = "READY"
      /\ \A u \in AnyThread : u # t => status'[u] = status[u]
  BY <1>1, UnblockSched
<1>3. TypeOK'
  BY <1>1, <1>2 DEF TypeOK
<1>4. /\ \A u \in Thread : status'[u] \in {"FREE", "DYING"} => pc'[u] = "none"
      /\ \A u \in Thread : status[u] = "BLOCKED" /\ pc[u] = "new" => status'[u] = "BLOCKED"
  BY <1>1, <1>2 DEF Labelled, AnyThread
<1> QED
  BY <1>1, <1>2, <1>3, <1>4, LabelledKept DEF IInv

\* An interrupt changes no pc but idle's.
LEMMA LeaveHltFacts ==
  ASSUME NEW L, "idle" \in L, pc \in [AnyThread -> L], current \in AnyThread,
         Labelled, LeaveHlt
  PROVE  /\ pc' \in [AnyThread -> L]
         /\ \A t \in Thread : pc'[t] = pc[t]
         /\ pc'[idle_thread] \in {"idle", "hlt"}
         /\ current = idle_thread => pc'[idle_thread] = "idle"
<1>1. idle_thread \in AnyThread /\ idle_thread \notin Thread
  BY ThreadsAssumption DEF AnyThread
<1>2. CASE pc[current] = "hlt"
  <2>1. current = idle_thread
    BY <1>1, <1>2 DEF Labelled, AnyThread
  <2> QED
    BY <1>1, <1>2, <2>1 DEF LeaveHlt, At
<1>3. CASE pc[current] # "hlt"
  BY <1>1, <1>3 DEF LeaveHlt, At, Labelled
<1> QED
  BY <1>2, <1>3

\* thread_create(): its first part, and the thread_unblock() that ends it.  L
\* and A are the labels and arguments in use.
LEMMA CreateSched ==
  ASSUME SchedTypeOK, RunQueueConsistent, Labelled, Create,
         NEW L, {"new", "create"} \subseteq L, pc \in [AnyThread -> L],
         NEW A, Thread \subseteq A, arg \in [AnyThread -> A]
  PROVE  /\ SchedTypeOK' /\ pc' \in [AnyThread -> L] /\ arg' \in [AnyThread -> A]
         /\ RunQueueConsistent' /\ Labelled'
         /\ \A u \in Thread :
              \/ pc'[u] = pc[u] /\ arg'[u] = arg[u] /\ status'[u] = status[u]
              \/ pc[u] = "none" /\ pc'[u] = "new"
              \/ pc[u] = "run" /\ pc'[u] = "create" /\ status'[u] = "RUNNING"
<1>1. SchedTypeOK /\ RunQueueConsistent /\ Labelled
  OBVIOUS
<1>2. /\ current \in AnyThread /\ status[current] = "RUNNING"
      /\ pc[idle_thread] \in {"idle", "hlt"}
      /\ current # idle_thread => current \in Thread
  BY DEF SchedTypeOK, RunQueueConsistent, Labelled, AnyThread
<1>3. PICK t \in Thread :
        /\ status[t] = "FREE"
        /\ status' = [status EXCEPT ![t] = "BLOCKED"]
        /\ pc' = [pc EXCEPT ![t] = "new", ![current] = "create"]
        /\ arg' = [arg EXCEPT ![current] = t]
  BY Zenon DEF Create
<1>4. /\ UNCHANGED <<ready_list, current, thread_ticks>>
      /\ pc[current] = "run" /\ current # idle_thread /\ t # current /\ current \in Thread
      /\ t \in AnyThread /\ pc[t] = "none"
  BY <1>1, <1>2, <1>3 DEF Create, At, AnyThread, Labelled
<1>5. /\ \A u \in AnyThread : status'[u] = IF u = t THEN "BLOCKED" ELSE status[u]
      /\ \A u \in AnyThread : pc'[u] = IF u = t THEN "new"
                                       ELSE IF u = current THEN "create" ELSE pc[u]
      /\ \A u \in AnyThread : arg'[u] = IF u = current THEN t ELSE arg[u]
  BY <1>1, <1>2, <1>3, <1>4 DEF SchedTypeOK
<1>6. SchedTypeOK' /\ pc' \in [AnyThread -> L] /\ arg' \in [AnyThread -> A]
  BY <1>1, <1>3, <1>4 DEF SchedTypeOK, thread_status, AnyThread
<1>7. RunQueueConsistent'
  <2>1. /\ ready_list' = ready_list /\ current' = current
        /\ \A u \in AnyThread : u # t => status'[u] = status[u]
        /\ status'[t] = "BLOCKED"
        /\ \A u \in Thread : u \in AnyThread
        /\ idle_thread \in AnyThread /\ idle_thread # t
    BY <1>4, <1>5, ThreadsAssumption DEF AnyThread
  <2> QED
    BY <1>1, <1>3, <1>4, <2>1 DEF RunQueueConsistent, OnReadyList
<1>8. Labelled'
  <2>1. /\ \A u \in Thread : u \in AnyThread
        /\ idle_thread \in AnyThread /\ idle_thread # t /\ idle_thread # current
        /\ pc[idle_thread] \in {"idle", "hlt"}
        /\ \A u \in Thread : pc[u] \notin {"idle", "hlt"}
    BY <1>1, <1>2, <1>4, ThreadsAssumption DEF AnyThread, Labelled
  <2>2. \A u \in Thread : status'[u] \in {"FREE", "DYING"} => pc'[u] = "none"
    BY <1>1, <1>2, <1>4, <1>5, <2>1 DEF Labelled
  <2>3. \A u \in Thread : u # current /\ pc'[u] = "create" =>
          /\ pc[u] = "create" /\ arg'[u] = arg[u] /\ arg[u] # t /\ arg[u] # current
          /\ arg[u] \in Thread /\ status'[arg[u]] = "BLOCKED" /\ pc'[arg[u]] = "new"
    <3> SUFFICES ASSUME NEW u \in Thread, u # current, pc'[u] = "create"
                 PROVE  /\ pc[u] = "create" /\ arg'[u] = arg[u]
                        /\ arg[u] # t /\ arg[u] # current
                        /\ arg[u] \in Thread /\ status'[arg[u]] = "BLOCKED"
                        /\ pc'[arg[u]] = "new"
      OBVIOUS
    <3>1. pc[u] = "create" /\ arg'[u] = arg[u]
      BY <1>5, <2>1
    <3>2. /\ arg[u] \in Thread /\ status[arg[u]] = "BLOCKED" /\ pc[arg[u]] = "new"
          /\ arg[u] # t /\ arg[u] # current
      BY <1>1, <1>2, <1>3, <1>4, <3>1 DEF Labelled
    <3> QED
      BY <1>5, <2>1, <3>1, <3>2
  <2>4. arg'[current] = t /\ status'[t] = "BLOCKED" /\ pc'[t] = "new"
    BY <1>2, <1>4, <1>5
  <2>5. \A u \in Thread : pc'[u] = "create" =>
          arg'[u] \in Thread /\ status'[arg'[u]] = "BLOCKED" /\ pc'[arg'[u]] = "new"
    BY <2>3, <2>4
  <2>6. \A u, v \in Thread :
          pc'[u] = "create" /\ pc'[v] = "create" /\ arg'[u] = arg'[v] => u = v
    BY <1>1, <2>3, <2>4 DEF Labelled
  <2>7. pc'[idle_thread] \in {"idle", "hlt"} /\ \A u \in Thread : pc'[u] \notin {"idle", "hlt"}
    BY <1>5, <2>1
  <2> QED
    BY <2>2, <2>5, <2>6, <2>7 DEF Labelled
<1> QED
  BY <1>2, <1>3, <1>4, <1>5, <1>6, <1>7, <1>8 DEF AnyThread

\* thread_create's unblocking of the new thread, which may preempt its creator.
LEMMA CreateUnblockSched ==
  ASSUME SchedTypeOK, RunQueueConsistent, Labelled, CreateUnblock,
         NEW L, "run" \in L, pc \in [AnyThread -> L],
         NEW A, Thread \subseteq A, arg \in [AnyThread -> A]
  PROVE  /\ SchedTypeOK' /\ pc' \in [AnyThread -> L] /\ arg' \in [AnyThread -> A]
         /\ RunQueueConsistent' /\ Labelled'
         /\ \A u \in Thread :
              \/ pc'[u] = pc[u] /\ arg'[u] = arg[u] /\ status'[u] = status[u]
              \/ /\ pc[u] \in {"new", "create"} /\ pc'[u] = "run"
                 /\ status'[u] \in {"READY", "RUNNING"}
<1>1. SchedTypeOK /\ RunQueueConsistent /\ Labelled
  OBVIOUS
<1>2. /\ current \in AnyThread /\ status[current] = "RUNNING"
      /\ pc[idle_thread] \in {"idle", "hlt"}
      /\ current # idle_thread => current \in Thread
  BY DEF SchedTypeOK, RunQueueConsistent, Labelled, AnyThread
<1> DEFINE t == arg[current]
<1>3. /\ current \in Thread /\ pc[current] = "create"
      /\ t \in Thread /\ status[t] = "BLOCKED" /\ pc[t] = "new" /\ t # current
      /\ thread_unblock(t)
      /\ pc' = [pc EXCEPT ![t] = "run", ![current] = "run"]
      /\ arg' = [arg EXCEPT ![current] = current]
  BY <1>1, <1>2 DEF CreateUnblock, At, Labelled
<1> HIDE DEF t
<1>4. /\ SchedTypeOK' /\ RunQueueConsistent' /\ current' = current
      /\ status'[t] = "READY"
      /\ \A u \in AnyThread : u # t => status'[u] = status[u]
  BY <1>1, <1>3, UnblockSched
<1>5. pc' \in [AnyThread -> L] /\ arg' \in [AnyThread -> A]
  BY <1>3 DEF AnyThread
<1>6. /\ \A u \in AnyThread : pc'[u] = IF u = current \/ u = t THEN "run" ELSE pc[u]
      /\ \A u \in AnyThread : u # current => arg'[u] = arg[u]
  BY <1>2, <1>3 DEF AnyThread
<1>7. Labelled'
  <2>1. /\ \A u \in Thread : u \in AnyThread
        /\ idle_thread \in AnyThread /\ idle_thread # t /\ idle_thread # current
    BY <1>3, ThreadsAssumption DEF AnyThread
  <2>2. \A u \in Thread : pc'[u] = "create" =>
          /\ u # current /\ pc[u] = "create" /\ arg'[u] = arg[u]
          /\ arg[u] # t /\ arg[u] # current
          /\ arg[u] \in Thread /\ status'[arg[u]] = "BLOCKED" /\ pc'[arg[u]] = "new"
    <3> SUFFICES ASSUME NEW u \in Thread, pc'[u] = "create"
                 PROVE  /\ u # current /\ pc[u] = "create" /\ arg'[u] = arg[u]
                        /\ arg[u] # t /\ arg[u] # current
                        /\ arg[u] \in Thread /\ status'[arg[u]] = "BLOCKED"
                        /\ pc'[arg[u]] = "new"
      OBVIOUS
    <3>1. u # current /\ pc[u] = "create" /\ arg'[u] = arg[u]
      BY <1>6, <2>1
    <3>2. /\ arg[u] \in Thread /\ status[arg[u]] = "BLOCKED" /\ pc[arg[u]] = "new"
          /\ arg[u] # t
      BY <1>1, <1>3, <3>1 DEF Labelled, t
    <3> QED
      BY <1>2, <1>4, <1>6, <2>1, <3>1, <3>2
  <2>3. /\ \A u \in Thread : status'[u] \in {"FREE", "DYING"} => pc'[u] = "none"
        /\ pc'[idle_thread] \in {"idle", "hlt"}
        /\ \A u \in Thread : pc'[u] \notin {"idle", "hlt"}
    BY <1>1, <1>2, <1>4, <1>6, <2>1 DEF Labelled
  <2> QED
    BY <1>1, <2>2, <2>3 DEF Labelled
<1> QED
  BY <1>2, <1>3, <1>4, <1>5, <1>6, <1>7 DEF AnyThread

\* No step of the scheduler disturbs its invariant.
LEMMA NextIInv == IInv /\ [Next]_vars => IInv'
<1> SUFFICES ASSUME IInv, [Next]_vars PROVE IInv'
  OBVIOUS
<1>1. TypeOK /\ SchedTypeOK /\ RunQueueConsistent /\ Labelled
  BY DEF IInv, TypeOK
<1>2. /\ current \in AnyThread /\ status[current] = "RUNNING"
      /\ pc \in [AnyThread -> ThreadLabels] /\ arg \in [AnyThread -> AnyThread]
      /\ pc[idle_thread] \in {"idle", "hlt"}
      /\ current # idle_thread => current \in Thread
  BY <1>1 DEF TypeOK, SchedTypeOK, RunQueueConsistent, Labelled, AnyThread
<1>3. CASE Yield
  BY <1>2, <1>3, YieldKeeps DEF Yield
<1>4. CASE Create
  <2>1. SchedTypeOK' /\ pc' \in [AnyThread -> ThreadLabels] /\ arg' \in [AnyThread -> AnyThread]
        /\ RunQueueConsistent' /\ Labelled'
    <3>1. /\ {"new", "create", "run"} \subseteq ThreadLabels /\ Thread \subseteq AnyThread
          /\ pc \in [AnyThread -> ThreadLabels] /\ arg \in [AnyThread -> AnyThread]
      BY <1>2 DEF ThreadLabels, AnyThread
    <3> QED
      BY <1>1, <1>4, <3>1, CreateSched, SMTT(30)
  <2> QED
    BY <2>1 DEF IInv, TypeOK
<1>5. CASE CreateUnblock
  <2>1. SchedTypeOK' /\ pc' \in [AnyThread -> ThreadLabels] /\ arg' \in [AnyThread -> AnyThread]
        /\ RunQueueConsistent' /\ Labelled'
    <3>1. /\ {"new", "create", "run"} \subseteq ThreadLabels /\ Thread \subseteq AnyThread
          /\ pc \in [AnyThread -> ThreadLabels] /\ arg \in [AnyThread -> AnyThread]
      BY <1>2 DEF ThreadLabels, AnyThread
    <3> QED
      BY <1>1, <1>5, <3>1, CreateUnblockSched
  <2> QED
    BY <2>1 DEF IInv, TypeOK
<1>6. CASE Exit
  <2>1. /\ current # idle_thread /\ pc[current] = "run"
        /\ pc' = [pc EXCEPT ![current] = "none"] /\ arg' = arg
        /\ schedule([status EXCEPT ![current] = "DYING"], ready_list)
    BY <1>2, <1>6 DEF Exit, At, Goto
  <2>2. /\ pc' \in [AnyThread -> ThreadLabels] /\ pc'[current] = "none"
        /\ \A t \in AnyThread : t # current => pc'[t] = pc[t]
    BY <1>2, <2>1 DEF ThreadLabels
  <2> QED
    BY <2>1, <2>2, BlockKeeps
<1>7. CASE Block
  <2>1. /\ current # idle_thread /\ pc[current] = "run"
        /\ pc' = [pc EXCEPT ![current] = "blocked"] /\ arg' = arg
        /\ schedule([status EXCEPT ![current] = "BLOCKED"], ready_list)
    BY <1>2, <1>7 DEF Block, At, Goto, thread_block
  <2>2. /\ pc' \in [AnyThread -> ThreadLabels] /\ pc'[current] = "blocked"
        /\ \A t \in AnyThread : t # current => pc'[t] = pc[t]
    BY <1>2, <2>1 DEF ThreadLabels
  <2> QED
    BY <2>1, <2>2, BlockKeeps
<1>8. CASE Resume
  <2>1. /\ pc[current] = "blocked" /\ current \in Thread /\ current # idle_thread
        /\ pc' = [pc EXCEPT ![current] = "run"]
        /\ UNCHANGED <<status, ready_list, current, thread_ticks, arg>>
    BY <1>2, <1>8, ThreadsAssumption DEF Resume, At, Goto, sched_vars
  <2>2. /\ pc' \in [AnyThread -> ThreadLabels]
        /\ pc'[current] = "run" /\ \A t \in AnyThread : t # current => pc'[t] = pc[t]
    BY <1>2, <2>1 DEF ThreadLabels
  <2>3. TypeOK' /\ RunQueueConsistent'
    BY <1>1, <2>1, <2>2 DEF TypeOK, SchedTypeOK, RunQueueConsistent, OnReadyList
  <2>4. /\ \A t \in Thread : \/ pc'[t] = pc[t]
                             \/ pc[t] # "new" /\ pc'[t] \in {"run", "blocked", "none"}
        /\ \A t \in Thread : status'[t] \in {"FREE", "DYING"} => pc'[t] = "none"
        /\ pc'[idle_thread] \in {"idle", "hlt"}
    BY <1>1, <1>2, <2>1, <2>2 DEF Labelled, AnyThread
  <2> QED
    BY <1>1, <2>1, <2>3, <2>4, LabelledKept DEF IInv
<1>9. CASE Unblock
  BY <1>1, <1>2, <1>9, UnblockKeeps DEF Unblock
<1>10. CASE Idle
  <2>1. /\ current = idle_thread /\ pc[current] = "idle"
        /\ pc' = [pc EXCEPT ![current] = "hlt"] /\ arg' = arg
        /\ schedule([status EXCEPT ![current] = "BLOCKED"], ready_list)
    BY <1>1, <1>2, <1>10 DEF Idle, At, Goto, thread_block, Labelled
  <2>2. /\ pc' \in [AnyThread -> ThreadLabels] /\ pc'[current] = "hlt"
        /\ \A t \in AnyThread : t # current => pc'[t] = pc[t]
    BY <1>2, <2>1 DEF ThreadLabels
  <2> QED
    BY <2>1, <2>2, BlockKeeps
<1>11. CASE Tick
  <2>1. /\ pc' \in [AnyThread -> ThreadLabels] /\ arg' = arg
        /\ \A t \in Thread : pc'[t] = pc[t]
        /\ pc'[idle_thread] \in {"idle", "hlt"}
    BY <1>1, <1>2, <1>11, LeaveHltFacts, Zenon DEF Tick, ThreadLabels
  <2>2. CASE thread_yield
    BY <2>1, <2>2, YieldKeeps
  <2>3. CASE /\ thread_ticks + 1 < TIME_SLICE
             /\ thread_ticks' = thread_ticks + 1
             /\ UNCHANGED <<status, ready_list, current>>
    <3>1. TypeOK'
      BY <1>1, <2>1, <2>3, ThreadsAssumption DEF TypeOK, SchedTypeOK
    <3>2. RunQueueConsistent'
      BY <1>1, <2>3 DEF RunQueueConsistent, OnReadyList
    <3>3. Labelled'
      BY <1>1, <2>1, <2>3, LabelledKept DEF Labelled
    <3> QED
      BY <3>1, <3>2, <3>3 DEF IInv
  <2> QED
    BY <1>11, <2>2, <2>3 DEF Tick
<1>12. CASE IntrUnblock
  <2>1. /\ pc' \in [AnyThread -> ThreadLabels] /\ arg' = arg
        /\ \A t \in Thread : pc'[t] = pc[t]
        /\ pc'[idle_thread] \in {"idle", "hlt"}
    BY <1>1, <1>2, <1>12, LeaveHltFacts, Zenon DEF IntrUnblock, ThreadLabels
  <2> QED
    BY <1>12, <2>1, UnblockKeeps DEF IntrUnblock
<1>13. CASE UNCHANGED vars
  BY <1>1, <1>13 DEF vars, IInv, TypeOK, SchedTypeOK, RunQueueConsistent, OnReadyList, Labelled
<1> QED
  BY <1>3, <1>4, <1>5, <1>6, <1>7, <1>8, <1>9, <1>10, <1>11, <1>12, <1>13 DEF Next

\* The scheduler's variables keep the types thread.c gives them.
THEOREM TypeCorrect == Spec => []TypeOK
<1>1. IInv => TypeOK
  BY DEF IInv
<1> QED
  BY <1>1, InitIInv, NextIInv, PTL DEF Spec

\* Whatever the threads and the interrupts do, the run queue holds exactly
\* the ready threads, each once, and one thread is running.
THEOREM RunQueueCorrect == Spec => []RunQueueConsistent
<1>1. IInv => RunQueueConsistent
  BY DEF IInv
<1> QED
  BY <1>1, InitIInv, NextIInv, PTL DEF Spec

-----------------------------------------------------------------------------
(* The order of the run queue.                                             *)

\* schedule() called with the run queue as it is, or with the running thread
\* queued last, runs the first thread and moves the others up; it chooses
\* idle only when nobody is left waiting.
LEMMA ScheduleOrder ==
  ASSUME ready_list \in Seq(Thread), NEW st, NEW rl, schedule(st, rl),
         rl = ready_list \/ (current \in Thread /\ rl = Append(ready_list, current))
  PROVE  /\ KeepsOrder
         /\ current' = idle_thread => ready_list' = <<>>
<1>1. rl \in Seq(Thread) /\ \A i \in DOMAIN ready_list : i \in DOMAIN rl /\ rl[i] = ready_list[i]
  BY AppendFacts
<1>2. CASE rl = <<>>
  <2>1. DOMAIN rl = {}
    BY <1>2
  <2> QED
    BY <1>1, <1>2, <2>1 DEF schedule, KeepsOrder
<1>3. CASE rl # <<>>
  <2>1. current' = rl[1] /\ ready_list' = Tail(rl) /\ current' \in Thread
    BY <1>1, <1>3, TailFacts DEF schedule, next_thread_to_run
  <2>2. ASSUME NEW i \in DOMAIN ready_list, i # 1
        PROVE  \E j \in DOMAIN ready_list' : j <= i /\ ready_list'[j] = ready_list[i]
    <3>1. /\ i \in Nat /\ i - 1 \in DOMAIN Tail(rl)
          /\ Tail(rl)[i - 1] = rl[i] /\ i - 1 <= i
      BY <1>1, <1>3, <2>2, TailFacts
    <3> QED
      BY <1>1, <2>1, <3>1
  <2>3. \A i \in DOMAIN ready_list : i = 1 => current' = ready_list[i]
    BY <1>1, <2>1
  <2> QED
    BY <2>1, <2>2, <2>3, ThreadsAssumption DEF KeepsOrder
<1> QED
  BY <1>2, <1>3

\* A thread queued at the end overtakes nobody.
LEMMA QueuedInPlace ==
  ASSUME ready_list \in Seq(Thread),
         \/ ready_list' = ready_list
         \/ \E t \in Thread : ready_list' = Append(ready_list, t)
  PROVE  KeepsOrder
<1>1. \A i \in DOMAIN ready_list : /\ i \in DOMAIN ready_list' /\ i <= i
                                   /\ ready_list'[i] = ready_list[i]
  BY AppendFacts
<1> QED
  BY <1>1 DEF KeepsOrder

\* A step either calls schedule(), or leaves the CPU with the running thread
\* and queues at most one thread behind the others; if idle is running, an
\* interrupt has then ended its hlt.
LEMMA StepShape ==
  ASSUME IInv, Next
  PROVE  \/ \E st, rl :
              /\ schedule(st, rl)
              /\ rl = ready_list \/ (current \in Thread /\ rl = Append(ready_list, current))
         \/ /\ current' = current
            /\ \/ ready_list' = ready_list
               \/ \E t \in Thread : ready_list' = Append(ready_list, t)
            /\ current = idle_thread => pc'[idle_thread] = "idle"
<1>1. TypeOK /\ Labelled /\ current \in AnyThread
  BY DEF IInv, TypeOK, SchedTypeOK
<1>2. current = idle_thread => pc[current] \in {"idle", "hlt"}
  BY <1>1 DEF Labelled
<1>3. ASSUME thread_yield
      PROVE  \E st, rl :
               /\ schedule(st, rl)
               /\ rl = ready_list \/ (current \in Thread /\ rl = Append(ready_list, current))
  <2>1. CASE current = idle_thread
    BY <1>3, <2>1 DEF thread_yield
  <2>2. CASE current # idle_thread
    BY <1>1, <1>3, <2>2, Zenon DEF thread_yield, AnyThread
  <2> QED
    BY <2>1, <2>2
<1>4. CASE Yield
  BY <1>3, <1>4 DEF Yield
<1>5. CASE Create \/ Resume
  BY <1>2, <1>5 DEF Create, Resume, At, sched_vars
<1>6. CASE CreateUnblock
  <2>1. current \in Thread /\ current # idle_thread /\ arg[current] \in Thread
    BY <1>1, <1>2, <1>6 DEF CreateUnblock, At, AnyThread, Labelled
  <2> QED
    BY <1>6, <2>1 DEF CreateUnblock, thread_unblock
<1>7. CASE Exit \/ Block \/ Idle
  BY <1>7 DEF Exit, Block, Idle, thread_block
<1>8. CASE Unblock
  BY <1>2, <1>8 DEF Unblock, At, thread_unblock
<1>9. CASE Tick
  <2>1. current = idle_thread => pc'[idle_thread] = "idle"
    BY <1>1, <1>9, LeaveHltFacts, Zenon DEF Tick, TypeOK, ThreadLabels
  <2> QED
    BY <1>3, <1>9, <2>1 DEF Tick
<1>10. CASE IntrUnblock
  <2>1. current = idle_thread => pc'[idle_thread] = "idle"
    BY <1>1, <1>10, LeaveHltFacts, Zenon DEF IntrUnblock, TypeOK, ThreadLabels
  <2> QED
    BY <1>10, <2>1 DEF IntrUnblock, thread_unblock
<1> QED
  BY <1>4, <1>5, <1>6, <1>7, <1>8, <1>9, <1>10 DEF Next

\* The run queue is served first in, first out.
THEOREM FirstComeFirstServed == Spec => NoOvertaking
<1>1. IInv /\ [Next]_vars => [KeepsOrder]_vars
  <2> SUFFICES ASSUME IInv, Next PROVE KeepsOrder
    BY DEF KeepsOrder
  <2>1. ready_list \in Seq(Thread)
    BY DEF IInv, TypeOK, SchedTypeOK
  <2> QED
    BY <2>1, StepShape, ScheduleOrder, QueuedInPlace
<1> QED
  BY <1>1, InitIInv, NextIInv, PTL DEF Spec, NoOvertaking

\* The CPU is never halted while a thread waits for it.
THEOREM NeverHalted == Spec => []NeverHaltedWithWork
<1>1. Init => NeverHaltedWithWork
  BY DEF Init, NeverHaltedWithWork
<1>2. IInv /\ NeverHaltedWithWork /\ [Next]_vars => NeverHaltedWithWork'
  <2> SUFFICES ASSUME IInv, NeverHaltedWithWork, [Next]_vars PROVE NeverHaltedWithWork'
    OBVIOUS
  <2>1. ready_list \in Seq(Thread)
    BY DEF IInv, TypeOK, SchedTypeOK
  <2>2. CASE Next
    BY <2>1, <2>2, StepShape, ScheduleOrder DEF NeverHaltedWithWork
  <2>3. CASE UNCHANGED vars
    BY <2>3 DEF vars, NeverHaltedWithWork
  <2> QED
    BY <2>2, <2>3
<1> QED
  BY <1>1, <1>2, InitIInv, NextIInv, PTL DEF Spec

-----------------------------------------------------------------------------
(***************************************************************************)
(* synch.c.                                                                *)
(***************************************************************************)

\* What the arguments of the call t is in may be: where t holds a lock's
\* semaphore without being its holder the holder is not set, and nobody but t
\* sleeps on the semaphore of t's waiter.
InCallOf(t) ==
  /\ pc[t] = "down" => arg[t] \in Sema \cup Lock \cup {t}
  /\ pc[t] = "down" /\ arg[t] = t => cv[t] \in Cond
  /\ pc[t] = "signal" => arg[t] \in Thread
  /\ pc[t] \in {"own", "unlock"} => arg[t] \in Lock /\ holder[arg[t]] = NULL
  /\ pc[t] \in {"wait1", "wait2", "wait3", "bcast"} => cv[t] \in Cond

InCall == \A t \in Thread : InCallOf(t)

SInv == SynchTypeOK /\ ElemOnOneList /\ LockExclusion /\ Labelled /\ InCall

-----------------------------------------------------------------------------
(* Steps that change the label and the argument of the running thread.     *)

\* Threads, locks, semaphores and conditions are told apart.
LEMMA Names ==
  /\ \A l \in Lock : l \notin Thread /\ l \notin Sema /\ l # idle_thread /\ l \in AnySema
  /\ \A s \in Sema : s \notin Thread /\ s \in AnySema
  /\ \A t \in Thread : t \in AnyThread /\ t \in AnySema /\ t # NULL /\ t # idle_thread
  /\ \A c \in Cond : lock_of[c] \in Lock /\ c # NULL
  /\ NULL \notin Lock
  BY ThreadsAssumption, SynchAssumption, Zenon DEF AnyThread, AnySema

\* A step that moves the running thread to another point moves no other.
LEMMA GotoFacts ==
  ASSUME SynchTypeOK, current \in Thread, NEW l \in SynchLabels, Goto(l),
         NEW a \in AnySema \cup {idle_thread}, SetArg(a)
  PROVE  /\ pc' \in [AnyThread -> SynchLabels] /\ arg' \in [AnyThread -> AnySema \cup {idle_thread}]
         /\ pc'[current] = l /\ arg'[current] = a
         /\ \A t \in Thread : t # current => pc'[t] = pc[t] /\ arg'[t] = arg[t]
         /\ pc'[idle_thread] = pc[idle_thread]
<1>1. current \in AnyThread /\ idle_thread \in AnyThread /\ current # idle_thread
  BY ThreadsAssumption, Zenon DEF AnyThread
<1> QED
  BY <1>1, Names, Zenon DEF SynchTypeOK, Goto, SetArg

\* The labels a call can move to without ending up in thread_create().
CallLabels == SynchLabels \ {"none", "new", "create", "idle", "hlt"}

\* Moving the running thread within its calls leaves the labels right.
LEMMA LabelledStep ==
  ASSUME SynchTypeOK, Labelled, current \in Thread, pc[current] # "new",
         NEW l \in CallLabels, Goto(l), NEW a \in AnySema \cup {idle_thread}, SetArg(a),
         status'[current] \notin {"FREE", "DYING"},
         \A t \in Thread : t # current =>
           /\ status'[t] \in {"FREE", "DYING"} => status[t] \in {"FREE", "DYING"}
           /\ status[t] = "BLOCKED" /\ pc[t] = "new" => status'[t] = "BLOCKED"
  PROVE  Labelled'
<1>1. /\ pc'[current] = l /\ pc'[idle_thread] = pc[idle_thread]
      /\ \A t \in Thread : t # current => pc'[t] = pc[t] /\ arg'[t] = arg[t]
  BY GotoFacts, Zenon DEF CallLabels
<1>2. l \notin {"idle", "hlt", "create"}
  BY Zenon DEF CallLabels
<1>3. /\ pc'[idle_thread] \in {"idle", "hlt"}
      /\ \A t \in Thread : \/ pc'[t] = pc[t]
                           \/ pc[t] # "new" /\ pc'[t] \notin {"idle", "hlt", "create"}
      /\ \A t \in Thread : pc[t] = "create" => arg'[t] = arg[t] \/ pc'[t] # "create"
  BY <1>1, <1>2, Zenon DEF Labelled
<1>4. /\ \A t \in Thread : status'[t] \in {"FREE", "DYING"} => pc'[t] = "none"
      /\ \A t \in Thread : status[t] = "BLOCKED" /\ pc[t] = "new" => status'[t] = "BLOCKED"
  BY <1>1, Zenon DEF Labelled
<1> QED
  BY <1>3, <1>4, LabelledKept, Zenon

\* A step that puts nobody on a wait list and takes nobody off one.
LEMMA WaitListsKept ==
  ASSUME WaitListsConsistent, waiters' = waiters,
         \A t \in Thread :
           \/ /\ pc'[t] = pc[t] /\ arg'[t] = arg[t]
              /\ status'[t] = "BLOCKED" <=> status[t] = "BLOCKED"
           \/ /\ status[t] = "BLOCKED" => pc[t] # "down"
              /\ status'[t] = "BLOCKED" => pc'[t] = "new"
  PROVE  WaitListsConsistent'
<1>1. \A s \in AnySema, t \in Thread : Asleep(t, s)' <=> Asleep(t, s)
  BY Zenon DEF Asleep
<1>2. \A t \in Thread : status'[t] = "BLOCKED" => pc'[t] \in {"new", "down"}
  BY Zenon DEF WaitListsConsistent
<1>3. /\ \A s \in AnySema : NoDuplicates(waiters[s])'
      /\ \A s \in AnySema, t \in Thread : OnList(waiters[s], t)' <=> OnList(waiters[s], t)
  BY Zenon DEF WaitListsConsistent, NoDuplicates, OnList
<1> QED
  BY <1>1, <1>2, <1>3, Zenon DEF WaitListsConsistent

\* Exclusion is about the values of the locks and their owners only.
LEMMA OwnersKept ==
  ASSUME LockExclusion, \A l \in Lock : value'[l] = value[l],
         \A t \in Thread, l \in Lock : Owns(t, l)' <=> Owns(t, l)
  PROVE  LockExclusion'
  BY Zenon DEF LockExclusion

\* Whether t owns l does not change while l's holder stays what it is to t, and
\* t is at the same point or on neither of the two points that matter.
LEMMA OwnsSame ==
  ASSUME NEW t \in Thread, NEW l \in Lock, holder'[l] = t <=> holder[l] = t,
         \/ pc'[t] = pc[t] /\ arg'[t] = arg[t]
         \/ /\ pc[t] \notin {"own", "unlock"} \/ arg[t] # l
            /\ pc'[t] \notin {"own", "unlock"} \/ arg'[t] # l
  PROVE  Owns(t, l)' <=> Owns(t, l)
  BY Zenon DEF Owns

\* A thread that does not move stays where its call allows.
LEMMA InCallSame ==
  ASSUME NEW t \in Thread, InCallOf(t),
         pc'[t] = pc[t], arg'[t] = arg[t], cv'[t] = cv[t],
         \A l \in Lock : pc[t] \in {"own", "unlock"} /\ arg[t] = l /\ holder[l] = NULL
                           => holder'[l] = NULL
  PROVE  InCallOf(t)'
  BY Zenon DEF InCallOf

\* A step of the running thread that leaves the scheduler and all wait lists
\* alone.
LEMMA LocalStep ==
  ASSUME SInv, current \in Thread, pc[current] # "new", UNCHANGED <<sched_vars, waiters>>,
         NEW l \in CallLabels, Goto(l), NEW a \in AnySema \cup {idle_thread}, SetArg(a)
  PROVE  SchedTypeOK' /\ ElemOnOneList' /\ Labelled'
<1>1. /\ SynchTypeOK /\ SchedTypeOK /\ RunQueueConsistent /\ WaitListsConsistent /\ Labelled
      /\ status[current] = "RUNNING"
      /\ status' = status /\ ready_list' = ready_list /\ current' = current
      /\ thread_ticks' = thread_ticks
  BY Names, Zenon DEF SInv, SynchTypeOK, ElemOnOneList, RunQueueConsistent, sched_vars
<1>2. SchedTypeOK' /\ RunQueueConsistent'
  BY <1>1, Zenon DEF SchedTypeOK, RunQueueConsistent, OnReadyList
<1>3. Labelled'
  BY <1>1, LabelledStep, Zenon
<1>4. \A t \in Thread : t # current => pc'[t] = pc[t] /\ arg'[t] = arg[t]
  BY <1>1, GotoFacts, Zenon DEF CallLabels
<1>5. WaitListsConsistent'
  BY <1>1, <1>4, WaitListsKept, Zenon
<1> QED
  BY <1>2, <1>3, <1>5, Zenon DEF ElemOnOneList

-----------------------------------------------------------------------------
(* Semaphores.                                                             *)

\* list_pop_front takes one element off and leaves the others.
LEMMA PoppedList ==
  ASSUME NEW S, NEW q \in Seq(S), q # <<>>, NoDuplicates(q)
  PROVE  /\ NoDuplicates(Tail(q))
         /\ OnList(q, Head(q))
         /\ \A t : OnList(Tail(q), t) <=> OnList(q, t) /\ t # Head(q)
<1>1. /\ Head(q) = q[1] /\ 1 \in DOMAIN q
      /\ \A i \in DOMAIN Tail(q) : i + 1 \in DOMAIN q /\ Tail(q)[i] = q[i + 1]
      /\ \A i \in DOMAIN q : i # 1 => i - 1 \in DOMAIN Tail(q) /\ Tail(q)[i - 1] = q[i]
  BY TailFacts, Zenon
<1>2. \A i \in DOMAIN Tail(q) : i \in Nat /\ i >= 1
  OBVIOUS
<1>3. \A i, j \in DOMAIN q : q[i] = q[j] => i = j
  BY Zenon DEF NoDuplicates
<1>4. NoDuplicates(Tail(q))
  BY <1>1, <1>2, <1>3 DEF NoDuplicates
<1>5. ASSUME NEW t, OnList(Tail(q), t) PROVE OnList(q, t) /\ t # Head(q)
  BY <1>1, <1>2, <1>3, <1>5 DEF OnList
<1>6. ASSUME NEW t, OnList(q, t), t # Head(q) PROVE OnList(Tail(q), t)
  BY <1>1, <1>6, Zenon DEF OnList
<1> QED
  BY <1>1, <1>4, <1>5, <1>6, Zenon DEF OnList

\* list_push_back adds one element at the end.
LEMMA QueuedList ==
  ASSUME NEW S, NEW q \in Seq(S), NEW e \in S, NoDuplicates(q), ~OnList(q, e)
  PROVE  /\ NoDuplicates(Append(q, e))
         /\ \A t : OnList(Append(q, e), t) <=> OnList(q, t) \/ t = e
<1>1. /\ DOMAIN Append(q, e) = DOMAIN q \cup {Len(q) + 1}
      /\ Len(q) + 1 \notin DOMAIN q
      /\ \A i \in DOMAIN q : Append(q, e)[i] = q[i]
      /\ Append(q, e)[Len(q) + 1] = e
  BY AppendFacts
<1> QED
  BY <1>1, Zenon DEF NoDuplicates, OnList

\* sema_up(s) by the running thread or by a handler that interrupts it.
LEMMA UpFacts ==
  ASSUME SInv, NEW s \in AnySema, sema_up(s),
         \A t \in Thread : t # current => pc'[t] = pc[t] /\ arg'[t] = arg[t]
  PROVE  /\ SchedTypeOK' /\ ElemOnOneList' /\ current' = current
         /\ value' \in [AnySema -> Nat] /\ value'[s] = value[s] + 1
         /\ \A r \in AnySema : r # s => value'[r] = value[r]
         /\ waiters' \in [AnySema -> Seq(Thread)]
         /\ \A t \in Thread :
              /\ status'[t] \in {"FREE", "DYING"} => status[t] \in {"FREE", "DYING"}
              /\ status[t] = "BLOCKED" /\ pc[t] = "new" => status'[t] = "BLOCKED"
<1>1. /\ SchedTypeOK /\ RunQueueConsistent /\ WaitListsConsistent
      /\ value \in [AnySema -> Nat] /\ waiters \in [AnySema -> Seq(Thread)]
      /\ current \in AnyThread /\ status[current] = "RUNNING"
  BY Zenon DEF SInv, SynchTypeOK, SchedTypeOK, ElemOnOneList, RunQueueConsistent
<1>2. /\ value' \in [AnySema -> Nat] /\ value'[s] = value[s] + 1
      /\ \A r \in AnySema : r # s => value'[r] = value[r]
  BY <1>1 DEF sema_up
<1>3. CASE waiters[s] = <<>>
  <2>1. /\ status' = status /\ ready_list' = ready_list /\ current' = current
        /\ thread_ticks' = thread_ticks /\ waiters' = waiters
    BY <1>3, Zenon DEF sema_up, sched_vars
  <2>2. SchedTypeOK' /\ RunQueueConsistent'
    BY <1>1, <2>1, Zenon DEF SchedTypeOK, RunQueueConsistent, OnReadyList
  <2>3. WaitListsConsistent'
    BY <1>1, <2>1, WaitListsKept, Zenon
  <2> QED
    BY <1>1, <1>2, <2>1, <2>2, <2>3, Zenon DEF ElemOnOneList
<1>4. CASE waiters[s] # <<>>
  <2> DEFINE q == waiters[s]
             w == Head(waiters[s])
  <2>1. /\ thread_unblock(w) /\ waiters' = [waiters EXCEPT ![s] = Tail(q)]
        /\ q \in Seq(Thread) /\ q # <<>> /\ NoDuplicates(q)
    BY <1>1, <1>4, Zenon DEF sema_up, WaitListsConsistent
  <2>2. /\ waiters' \in [AnySema -> Seq(Thread)] /\ waiters'[s] = Tail(q)
        /\ \A r \in AnySema : r # s => waiters'[r] = waiters[r]
        /\ w \in Thread
    BY <1>1, <2>1, TailFacts, Zenon
  <2>3. /\ NoDuplicates(Tail(q)) /\ OnList(q, w)
        /\ \A t : OnList(Tail(q), t) <=> OnList(q, t) /\ t # w
    BY <2>1, PoppedList, Zenon
  <2>4. /\ Asleep(w, s)
        /\ \A r \in AnySema, t \in Thread : OnList(waiters[r], t) <=> Asleep(t, r)
        /\ \A r \in AnySema : NoDuplicates(waiters[r])
        /\ \A t \in Thread : status[t] = "BLOCKED" => pc[t] \in {"new", "down"}
    BY <1>1, <2>2, <2>3, Zenon DEF WaitListsConsistent
  <2> HIDE DEF q, w
  <2>5. /\ SchedTypeOK' /\ RunQueueConsistent' /\ current' = current
        /\ status'[w] = "READY"
        /\ \A u \in AnyThread : u # w => status'[u] = status[u]
    BY <1>1, <2>1, <2>2, <2>4, UnblockSched, Zenon DEF Asleep
  <2>6. \A t \in Thread, r \in AnySema : Asleep(t, r)' <=> Asleep(t, r) /\ t # w
    BY <1>1, <2>5, Names, Zenon DEF Asleep
  <2>7. \A r \in AnySema : r # s => ~Asleep(w, r)
    BY <2>4, Zenon DEF Asleep
  <2>8. \A r \in AnySema, t \in Thread : OnList(waiters[r], t)' <=> Asleep(t, r)'
    <3> SUFFICES ASSUME NEW r \in AnySema, NEW t \in Thread
                 PROVE  OnList(waiters[r], t)' <=> Asleep(t, r)'
      BY Zenon
    <3>1. CASE r = s
      <4>1. OnList(waiters[r], t)' <=> OnList(Tail(q), t)
        BY <2>2, <3>1, Zenon DEF OnList
      <4>2. OnList(q, t) <=> Asleep(t, s)
        BY <2>4, Zenon DEF q
      <4> QED
        BY <2>3, <2>6, <3>1, <4>1, <4>2, Zenon
    <3>2. CASE r # s
      <4>1. OnList(waiters[r], t)' <=> OnList(waiters[r], t)
        BY <2>2, <3>2, Zenon DEF OnList
      <4> QED
        BY <2>4, <2>6, <2>7, <3>2, <4>1, Zenon
    <3> QED
      BY <3>1, <3>2, Zenon
  <2>9. \A r \in AnySema : NoDuplicates(waiters[r])'
    BY <2>2, <2>3, <2>4, Zenon DEF NoDuplicates
  <2>10. \A t \in Thread : status'[t] = "BLOCKED" => pc'[t] \in {"new", "down"}
    BY <1>1, <2>4, <2>5, Names, Zenon
  <2>11. \A t \in Thread :
              /\ status'[t] \in {"FREE", "DYING"} => status[t] \in {"FREE", "DYING"}
              /\ status[t] = "BLOCKED" /\ pc[t] = "new" => status'[t] = "BLOCKED"
    BY <2>4, <2>5, Names, Zenon DEF Asleep
  <2> QED
    BY <1>2, <2>2, <2>5, <2>8, <2>9, <2>10, <2>11, Zenon DEF ElemOnOneList, WaitListsConsistent
<1> QED
  BY <1>3, <1>4, Zenon

\* A lock nobody owns has no holder.
LEMMA FreeLock ==
  ASSUME SynchTypeOK, LockExclusion, NEW l \in Lock
  PROVE  /\ value[l] \in {0, 1}
         /\ value[l] > 0 => value[l] = 1 /\ holder[l] = NULL /\ \A t \in Thread : ~Owns(t, l)
         /\ \A t \in Thread : Owns(t, l) => value[l] = 0
<1>1. value[l] = IF \E t \in Thread : Owns(t, l) THEN 0 ELSE 1
  BY Zenon DEF LockExclusion
<1>2. /\ holder[l] \in Thread => Owns(holder[l], l)
      /\ holder[l] \in Thread \cup {NULL}
  BY Zenon DEF Owns, SynchTypeOK
<1>3. CASE \E t \in Thread : Owns(t, l)
  <2>1. value[l] = 0
    BY <1>1, <1>3, Zenon
  <2> QED
    BY <2>1
<1>4. CASE \A t \in Thread : ~Owns(t, l)
  BY <1>1, <1>2, <1>4, Zenon
<1> QED
  BY <1>3, <1>4, Zenon

\* One turn of the loop of sema_down(s), for a semaphore, a lock that is being
\* acquired, or the caller's own waiter.
LEMMA DownKeeps ==
  ASSUME SInv, current \in Thread, NEW s \in AnySema, sema_down(s),
         pc[current] \notin {"new", "own", "unlock"},
         s \in Thread => s = current /\ cv[current] \in Cond
  PROVE  SInv'
<1>1. /\ SynchTypeOK /\ SchedTypeOK /\ RunQueueConsistent /\ WaitListsConsistent
      /\ LockExclusion /\ Labelled /\ InCall
      /\ value \in [AnySema -> Nat] /\ waiters \in [AnySema -> Seq(Thread)]
      /\ status[current] = "RUNNING"
  BY Names, Zenon DEF SInv, SynchTypeOK, ElemOnOneList, RunQueueConsistent
<1>2. holder' = holder /\ cond_waiters' = cond_waiters /\ cv' = cv
  BY Zenon DEF sema_down
<1>3. CASE /\ value[s] = 0
           /\ waiters' = [waiters EXCEPT ![s] = Append(@, current)]
           /\ thread_block
           /\ Goto("down") /\ SetArg(s)
           /\ UNCHANGED value
  <2>1. /\ SchedTypeOK' /\ RunQueueConsistent'
        /\ \A t \in Thread : t # current =>
             /\ status'[t] = "BLOCKED" <=> status[t] = "BLOCKED"
             /\ status'[t] \in {"FREE", "DYING"} => status[t] \in {"FREE", "DYING"}
        /\ status'[current] = "BLOCKED"
    BY <1>1, <1>3, BlockSched, Zenon DEF thread_block
  <2>2. /\ pc' \in [AnyThread -> SynchLabels] /\ arg' \in [AnyThread -> AnySema \cup {idle_thread}]
        /\ pc'[current] = "down" /\ arg'[current] = s
        /\ \A t \in Thread : t # current => pc'[t] = pc[t] /\ arg'[t] = arg[t]
    BY <1>1, <1>3, GotoFacts, Zenon DEF SynchLabels
  <2>3. Labelled'
    BY <1>1, <1>3, <2>1, LabelledStep, Zenon DEF CallLabels, SynchLabels
  <2>4. /\ \A r \in AnySema : NoDuplicates(waiters[r])
        /\ \A r \in AnySema, t \in Thread : OnList(waiters[r], t) <=> Asleep(t, r)
        /\ \A t \in Thread : status[t] = "BLOCKED" => pc[t] \in {"new", "down"}
        /\ \A r \in AnySema : ~Asleep(current, r)
    BY <1>1, Zenon DEF WaitListsConsistent, Asleep
  <2>5. /\ waiters' \in [AnySema -> Seq(Thread)] /\ waiters'[s] = Append(waiters[s], current)
        /\ \A r \in AnySema : r # s => waiters'[r] = waiters[r]
    BY <1>1, <1>3, AppendFacts, Zenon
  <2>6. /\ NoDuplicates(Append(waiters[s], current))
        /\ \A t : OnList(Append(waiters[s], current), t) <=> OnList(waiters[s], t) \/ t = current
    BY <1>1, <2>4, QueuedList
  <2>7. \A r \in AnySema, t \in Thread :
          Asleep(t, r)' <=> Asleep(t, r) \/ (t = current /\ r = s)
    BY <1>1, <2>1, <2>2, Zenon DEF Asleep
  <2>8. \A r \in AnySema, t \in Thread : OnList(waiters[r], t)' <=> Asleep(t, r)'
    <3> SUFFICES ASSUME NEW r \in AnySema, NEW t \in Thread
                 PROVE  OnList(waiters[r], t)' <=> Asleep(t, r)'
      BY Zenon
    <3>1. CASE r = s
      <4>1. OnList(waiters[r], t)' <=> OnList(Append(waiters[s], current), t)
        BY <2>5, <3>1, Zenon DEF OnList
      <4> QED
        BY <2>4, <2>6, <2>7, <3>1, <4>1, Zenon
    <3>2. CASE r # s
      <4>1. OnList(waiters[r], t)' <=> OnList(waiters[r], t)
        BY <2>5, <3>2, Zenon DEF OnList
      <4> QED
        BY <2>4, <2>7, <3>2, <4>1, Zenon
    <3> QED
      BY <3>1, <3>2, Zenon
  <2>9. \A r \in AnySema : NoDuplicates(waiters[r])'
    BY <2>4, <2>5, <2>6, Zenon DEF NoDuplicates
  <2>10. \A t \in Thread : status'[t] = "BLOCKED" => pc'[t] \in {"new", "down"}
    BY <2>1, <2>2, <2>4, Zenon
  <2>11. ElemOnOneList'
    BY <2>1, <2>8, <2>9, <2>10, Zenon DEF ElemOnOneList, WaitListsConsistent
  <2>12. LockExclusion'
    <3>1. ASSUME NEW t \in Thread, NEW l \in Lock PROVE Owns(t, l)' <=> Owns(t, l)
      <4>1. CASE t = current
        BY <1>2, <2>2, <4>1, OwnsSame, Zenon
      <4>2. CASE t # current
        BY <1>2, <2>2, <4>2, OwnsSame, Zenon
      <4> QED
        BY <4>1, <4>2, Zenon
    <3> QED
      BY <1>1, <1>3, <3>1, OwnersKept, Zenon
  <2>13. InCall'
    <3>1. ASSUME NEW t \in Thread, t # current PROVE InCallOf(t)'
      BY <1>1, <1>2, <2>2, <3>1, InCallSame, Zenon DEF InCall
    <3>2. ASSUME NEW t \in Thread, t = current PROVE InCallOf(t)'
      BY <1>2, <2>2, <3>2, Zenon DEF InCallOf, AnySema
    <3> QED
      BY <3>1, <3>2, Zenon DEF InCall
  <2>14. SynchTypeOK'
    BY <1>1, <1>2, <1>3, <2>1, <2>2, <2>5, Zenon DEF SynchTypeOK
  <2> QED
    BY <2>3, <2>11, <2>12, <2>13, <2>14, Zenon DEF SInv
<1>4. CASE /\ value[s] > 0
           /\ value' = [value EXCEPT ![s] = @ - 1]
           /\ Goto(AfterDown(s)) /\ SetArg(IF s \in Lock THEN s ELSE current)
           /\ UNCHANGED <<sched_vars, waiters>>
  <2> DEFINE l == AfterDown(s)
             a == IF s \in Lock THEN s ELSE current
  <2>1. /\ l \in CallLabels /\ l \in SynchLabels /\ a \in AnySema \cup {idle_thread}
        /\ s \in Lock => l = "own" /\ a = s
        /\ s \in Sema => l = "run"
        /\ s \in Thread => l = "wait3"
        /\ l = "own" => s \in Lock
        /\ l \in {"own", "run", "wait3"}
    BY Names, Zenon DEF AfterDown, CallLabels, SynchLabels, AnySema
  <2>2. Goto(l) /\ SetArg(a) /\ UNCHANGED <<sched_vars, waiters>>
    BY <1>4, Zenon
  <2> HIDE DEF l, a
  <2>3. SchedTypeOK' /\ ElemOnOneList' /\ Labelled'
    BY <2>1, <2>2, LocalStep, Zenon
  <2>4. /\ pc' \in [AnyThread -> SynchLabels] /\ arg' \in [AnyThread -> AnySema \cup {idle_thread}]
        /\ pc'[current] = l /\ arg'[current] = a
        /\ \A t \in Thread : t # current => pc'[t] = pc[t] /\ arg'[t] = arg[t]
    BY <1>1, <2>1, <2>2, GotoFacts, Zenon
  <2>5. /\ value' \in [AnySema -> Nat] /\ value'[s] = value[s] - 1
        /\ \A r \in AnySema : r # s => value'[r] = value[r]
    BY <1>1, <1>4
  <2>6. SynchTypeOK'
    BY <1>1, <1>2, <1>4, <2>3, <2>4, <2>5, Zenon DEF SynchTypeOK
  <2>7. LockExclusion'
    <3>1. CASE s \in Lock
      <4>1. value[s] = 1 /\ holder[s] = NULL /\ \A t \in Thread : ~Owns(t, s)
        BY <1>1, <1>4, <3>1, FreeLock, Zenon
      <4>2. ASSUME NEW t \in Thread
            PROVE  /\ Owns(t, s)' <=> t = current
                   /\ \A k \in Lock : k # s => (Owns(t, k)' <=> Owns(t, k))
        <5>1. CASE t = current
          <6>1. pc'[t] = "own" /\ arg'[t] = s /\ pc[t] \notin {"own", "unlock"} /\ holder' = holder
            BY <1>2, <2>1, <2>4, <3>1, <5>1, Zenon
          <6> QED
            BY <5>1, <6>1, Zenon DEF Owns
        <5>2. CASE t # current
          <6>1. pc'[t] = pc[t] /\ arg'[t] = arg[t] /\ holder' = holder /\ ~Owns(t, s)
            BY <1>2, <2>4, <4>1, <5>2, Zenon
          <6> QED
            BY <3>1, <5>2, <6>1, OwnsSame, Zenon
        <5> QED
          BY <5>1, <5>2, Zenon
      <4>4. value'[s] = 0 /\ \A k \in Lock : k # s => value'[k] = value[k]
        BY <2>5, <4>1, Names
      <4>5. ASSUME NEW k \in Lock
            PROVE  /\ \A t, u \in Thread : Owns(t, k)' /\ Owns(u, k)' => t = u
                   /\ value'[k] = IF \E t \in Thread : Owns(t, k)' THEN 0 ELSE 1
        <5>1. CASE k = s
          BY <4>2, <4>4, <5>1, Zenon
        <5>2. CASE k # s
          BY <1>1, <4>2, <4>4, <5>2, Zenon DEF LockExclusion
        <5> QED
          BY <5>1, <5>2, Zenon
      <4> QED
        BY <4>5, Zenon DEF LockExclusion
    <3>2. CASE s \notin Lock
      <4>1. ASSUME NEW t \in Thread, NEW k \in Lock PROVE Owns(t, k)' <=> Owns(t, k)
        <5>1. CASE t = current
          <6>1. pc'[t] \notin {"own", "unlock"} /\ pc[t] \notin {"own", "unlock"}
            BY <2>1, <2>4, <3>2, <5>1, Zenon
          <6> QED
            BY <1>2, <6>1, OwnsSame, Zenon
        <5>2. CASE t # current
          BY <1>2, <2>4, <5>2, OwnsSame, Zenon
        <5> QED
          BY <5>1, <5>2
      <4>2. \A k \in Lock : value'[k] = value[k]
        BY <2>5, <3>2, Names, Zenon
      <4> QED
        BY <1>1, <4>1, <4>2, OwnersKept, Zenon
    <3> QED
      BY <3>1, <3>2, Zenon
  <2>8. InCall'
    <3>1. ASSUME NEW t \in Thread, t # current PROVE InCallOf(t)'
      BY <1>1, <1>2, <2>4, <3>1, InCallSame, Zenon DEF InCall
    <3>2. s \in Lock => holder[s] = NULL
      BY <1>1, <1>4, FreeLock, Zenon
    <3>3. ASSUME NEW t \in Thread, t = current PROVE InCallOf(t)'
      BY <1>2, <2>1, <2>4, <3>2, <3>3, Zenon DEF InCallOf, AnySema
    <3> QED
      BY <3>1, <3>3 DEF InCall
  <2> QED
    BY <2>3, <2>6, <2>7, <2>8, Zenon DEF SInv
<1> QED
  BY <1>3, <1>4, Zenon DEF sema_down

-----------------------------------------------------------------------------
(* The scheduler's own steps.                                              *)

\* A step of the scheduler: no thread moves inside an operation of synch.c,
\* nor falls asleep or wakes up there.
SchedShape ==
  /\ SchedTypeOK' /\ RunQueueConsistent' /\ Labelled'
  /\ pc' \in [AnyThread -> SynchLabels]
  /\ arg' \in [AnyThread -> AnySema \cup {idle_thread}]
  /\ \A t \in Thread :
       \/ /\ pc'[t] = pc[t] /\ arg'[t] = arg[t]
          /\ status'[t] = "BLOCKED" <=> status[t] = "BLOCKED"
       \/ /\ {pc[t], pc'[t]} \subseteq {"none", "new", "run", "create"}
          /\ status'[t] = "BLOCKED" => pc'[t] = "new"

\* Such a step keeps the invariant.
LEMMA SchedKeeps ==
  ASSUME SInv, UNCHANGED synch_vars, SchedShape
  PROVE  SInv'
<1>1. /\ SynchTypeOK /\ WaitListsConsistent /\ LockExclusion /\ InCall
      /\ value' = value /\ waiters' = waiters /\ holder' = holder
      /\ cond_waiters' = cond_waiters /\ cv' = cv
  BY Zenon DEF SInv, ElemOnOneList, synch_vars
<1>2. SynchTypeOK'
  BY <1>1, Zenon DEF SynchTypeOK, SchedShape
<1>3. WaitListsConsistent'
  BY <1>1, WaitListsKept, Zenon DEF SchedShape
<1>4. LockExclusion'
  <2>1. \A t \in Thread, l \in Lock : Owns(t, l)' <=> Owns(t, l)
    BY <1>1, Zenon DEF Owns, SchedShape
  <2> QED
    BY <1>1, <2>1, OwnersKept, Zenon
<1>5. InCall'
  <2>1. ASSUME NEW t \in Thread PROVE InCallOf(t)'
    <3>1. CASE pc'[t] = pc[t] /\ arg'[t] = arg[t]
      BY <1>1, <3>1, InCallSame, Zenon DEF InCall
    <3>2. CASE pc'[t] \in {"none", "new", "run", "create"}
      BY <3>2, Zenon DEF InCallOf
    <3> QED
      BY <3>1, <3>2, Zenon DEF SchedShape
  <2> QED
    BY <2>1, Zenon DEF InCall
<1> QED
  BY <1>2, <1>3, <1>4, <1>5, Zenon DEF SInv, ElemOnOneList, SchedShape

\* The steps of thread.c are such steps.
LEMMA SchedStepShape == SInv /\ SchedStep => SchedShape /\ UNCHANGED synch_vars
<1> SUFFICES ASSUME SInv, SchedStep PROVE SchedShape /\ UNCHANGED synch_vars
  BY Zenon
<1>1. /\ SynchTypeOK /\ SchedTypeOK /\ RunQueueConsistent /\ WaitListsConsistent /\ Labelled
      /\ pc \in [AnyThread -> SynchLabels] /\ arg \in [AnyThread -> AnySema \cup {idle_thread}]
      /\ current \in AnyThread /\ status[current] = "RUNNING"
      /\ current # idle_thread => current \in Thread
      /\ idle_thread \in AnyThread
      /\ UNCHANGED synch_vars
  BY Zenon DEF SInv, SynchTypeOK, SchedTypeOK, ElemOnOneList, RunQueueConsistent, SchedStep, AnyThread
<1> SUFFICES SchedShape
  BY <1>1, Zenon
<1>2. /\ {"new", "create", "run"} \subseteq SynchLabels
      /\ Thread \subseteq AnySema \cup {idle_thread}
  BY Names, Zenon DEF SynchLabels
<1>3. ASSUME thread_yield, arg' = arg, pc' \in [AnyThread -> SynchLabels],
             \A t \in Thread : pc'[t] = pc[t], pc'[idle_thread] \in {"idle", "hlt"}
      PROVE  SchedShape
  <2>1. /\ SchedTypeOK' /\ RunQueueConsistent'
        /\ \A t \in Thread : status'[t] = "BLOCKED" <=> status[t] = "BLOCKED"
        /\ \A t \in Thread : status'[t] \in {"FREE", "DYING"} => status[t] \in {"FREE", "DYING"}
    BY <1>1, <1>3, YieldSched, Zenon
  <2>2. \A t \in Thread : status'[t] \in {"FREE", "DYING"} => pc'[t] = "none"
    BY <1>1, <1>3, <2>1, Zenon DEF Labelled
  <2>3. Labelled'
    BY <1>1, <1>3, <2>1, <2>2, LabelledKept, Zenon
  <2> QED
    BY <1>1, <1>3, <2>1, <2>3, Zenon DEF SchedShape
<1>4. CASE Yield
  BY <1>1, <1>3, <1>4, Zenon DEF Yield, Labelled
<1>5. CASE Create
  <2>1. /\ SchedTypeOK' /\ pc' \in [AnyThread -> SynchLabels]
        /\ arg' \in [AnyThread -> AnySema \cup {idle_thread}]
        /\ RunQueueConsistent' /\ Labelled'
        /\ \A u \in Thread :
             \/ pc'[u] = pc[u] /\ arg'[u] = arg[u] /\ status'[u] = status[u]
             \/ pc[u] = "none" /\ pc'[u] = "new"
             \/ pc[u] = "run" /\ pc'[u] = "create" /\ status'[u] = "RUNNING"
    BY <1>1, <1>2, <1>5, CreateSched, Zenon
  <2> QED
    BY <2>1, Zenon DEF SchedShape
<1>6. CASE CreateUnblock
  <2>1. /\ SchedTypeOK' /\ pc' \in [AnyThread -> SynchLabels]
        /\ arg' \in [AnyThread -> AnySema \cup {idle_thread}]
        /\ RunQueueConsistent' /\ Labelled'
        /\ \A u \in Thread :
             \/ pc'[u] = pc[u] /\ arg'[u] = arg[u] /\ status'[u] = status[u]
             \/ /\ pc[u] \in {"new", "create"} /\ pc'[u] = "run"
                /\ status'[u] \in {"READY", "RUNNING"}
    BY <1>1, <1>2, <1>6, CreateUnblockSched, Zenon
  <2> QED
    BY <2>1, Zenon DEF SchedShape
<1>7. CASE ExitUnlocked
  <2>1. /\ current \in Thread /\ current # idle_thread /\ pc[current] = "run"
        /\ pc' = [pc EXCEPT ![current] = "none"] /\ arg' = arg
        /\ schedule([status EXCEPT ![current] = "DYING"], ready_list)
    BY <1>1, <1>7, Zenon DEF ExitUnlocked, Exit, At, Goto, Labelled
  <2>2. /\ pc' \in [AnyThread -> SynchLabels] /\ pc'[current] = "none"
        /\ \A t \in AnyThread : t # current => pc'[t] = pc[t]
    BY <1>1, <2>1, Zenon DEF SynchLabels
  <2>3. /\ SchedTypeOK' /\ RunQueueConsistent'
        /\ \A t \in Thread : t # current =>
             /\ status'[t] = "BLOCKED" <=> status[t] = "BLOCKED"
             /\ status'[t] \in {"FREE", "DYING"} => status[t] \in {"FREE", "DYING"}
        /\ status'[current] # "BLOCKED"
    BY <1>1, <2>1, BlockSched, Zenon
  <2>4. /\ \A t \in Thread : status'[t] \in {"FREE", "DYING"} => pc'[t] = "none"
        /\ \A t \in Thread : status[t] = "BLOCKED" /\ pc[t] = "new" => status'[t] = "BLOCKED"
        /\ \A t \in Thread : \/ pc'[t] = pc[t]
                             \/ pc[t] # "new" /\ pc'[t] \notin {"idle", "hlt", "create"}
        /\ pc'[idle_thread] \in {"idle", "hlt"}
    BY <1>1, <2>1, <2>2, <2>3, Names, Zenon DEF Labelled
  <2>5. Labelled'
    BY <1>1, <2>1, <2>4, LabelledKept, Zenon
  <2>6. \A t \in Thread :
           \/ /\ pc'[t] = pc[t] /\ arg'[t] = arg[t]
              /\ status'[t] = "BLOCKED" <=> status[t] = "BLOCKED"
           \/ /\ {pc[t], pc'[t]} \subseteq {"none", "new", "run", "create"}
              /\ status'[t] = "BLOCKED" => pc'[t] = "new"
    BY <2>1, <2>2, <2>3, Names, Zenon
  <2> QED
    BY <1>1, <2>1, <2>2, <2>3, <2>5, <2>6, Zenon DEF SchedShape
<1>8. CASE Idle
  <2>1. /\ current = idle_thread
        /\ pc' = [pc EXCEPT ![current] = "hlt"] /\ arg' = arg
        /\ schedule([status EXCEPT ![current] = "BLOCKED"], ready_list)
    BY <1>1, <1>8, Zenon DEF Idle, At, Goto, thread_block, Labelled
  <2>2. /\ pc' \in [AnyThread -> SynchLabels] /\ pc'[idle_thread] = "hlt"
        /\ \A t \in Thread : pc'[t] = pc[t]
    BY <1>1, <2>1, Names, Zenon DEF SynchLabels
  <2>3. /\ SchedTypeOK' /\ RunQueueConsistent'
        /\ \A t \in Thread :
             /\ status'[t] = "BLOCKED" <=> status[t] = "BLOCKED"
             /\ status'[t] \in {"FREE", "DYING"} => status[t] \in {"FREE", "DYING"}
    BY <1>1, <2>1, BlockSched, Names, Zenon
  <2>4. \A t \in Thread : status'[t] \in {"FREE", "DYING"} => pc'[t] = "none"
    BY <1>1, <2>2, <2>3, Zenon DEF Labelled
  <2>5. Labelled'
    BY <1>1, <2>1, <2>2, <2>3, <2>4, LabelledKept, Zenon
  <2> QED
    BY <1>1, <2>1, <2>2, <2>3, <2>5, Zenon DEF SchedShape
<1>9. CASE Tick
  <2>1. /\ pc' \in [AnyThread -> SynchLabels] /\ arg' = arg
        /\ \A t \in Thread : pc'[t] = pc[t]
        /\ pc'[idle_thread] \in {"idle", "hlt"}
    BY <1>1, <1>9, LeaveHltFacts, Zenon DEF Tick, SynchLabels
  <2>2. CASE thread_yield
    BY <1>3, <2>1, <2>2, Zenon
  <2>3. CASE /\ thread_ticks + 1 < TIME_SLICE
             /\ thread_ticks' = thread_ticks + 1
             /\ UNCHANGED <<status, ready_list, current>>
    <3>1. SchedTypeOK' /\ RunQueueConsistent'
      BY <1>1, <2>3, ThreadsAssumption DEF SchedTypeOK, RunQueueConsistent, OnReadyList
    <3>2. Labelled'
      BY <1>1, <2>1, <2>3, LabelledKept, Zenon DEF Labelled
    <3> QED
      BY <1>1, <2>1, <2>3, <3>1, <3>2, Zenon DEF SchedShape
  <2> QED
    BY <1>9, <2>2, <2>3, Zenon DEF Tick
<1> QED
  BY <1>4, <1>5, <1>6, <1>7, <1>8, <1>9, Zenon DEF SchedStep

\* The scheduler's own steps disturb no lock, semaphore or condition.
LEMMA SchedStepKeeps == SInv /\ SchedStep => SInv'
  BY SchedStepShape, SchedKeeps, Zenon

-----------------------------------------------------------------------------
(* The operations of synch.c.                                              *)

\* What every operation may start from.
LEMMA AtCall ==
  ASSUME SInv, NEW l, At(l), l \notin {"idle", "hlt"}
  PROVE  /\ SynchTypeOK /\ SchedTypeOK /\ RunQueueConsistent /\ WaitListsConsistent
         /\ LockExclusion /\ Labelled /\ InCall
         /\ current \in Thread /\ status[current] = "RUNNING" /\ pc[current] = l
         /\ InCallOf(current)
<1>1. current \in AnyThread /\ SynchTypeOK /\ ElemOnOneList /\ Labelled /\ LockExclusion /\ InCall
  BY Zenon DEF SInv, SynchTypeOK, SchedTypeOK
<1>2. current \in Thread
  BY <1>1, Zenon DEF At, AnyThread, Labelled
<1> QED
  BY <1>1, <1>2, Zenon DEF At, InCall, SynchTypeOK, ElemOnOneList, RunQueueConsistent, AnyThread

\* A sema_try_down of a semaphore that is no lock's.
LEMMA TakeFacts ==
  ASSUME SInv, NEW s \in Sema, sema_try_down(s)
  PROVE  /\ value' \in [AnySema -> Nat] /\ \A l \in Lock : value'[l] = value[l]
         /\ waiters' = waiters
<1>1. value \in [AnySema -> Nat] /\ s \in AnySema
  BY Names, Zenon DEF SInv, SynchTypeOK
<1> QED
  BY <1>1, Names DEF sema_try_down

\* A handler, or the running thread, that changes semaphores only.
LEMMA SemaOnlyKeeps ==
  ASSUME SInv, SchedTypeOK', ElemOnOneList', Labelled',
         pc' \in [AnyThread -> SynchLabels], arg' = arg, \A t \in Thread : pc'[t] = pc[t],
         value' \in [AnySema -> Nat], \A l \in Lock : value'[l] = value[l],
         waiters' \in [AnySema -> Seq(Thread)], UNCHANGED <<holder, cond_waiters, cv>>
  PROVE  SInv'
<1>1. SynchTypeOK'
  BY Zenon DEF SInv, SynchTypeOK
<1>2. LockExclusion'
  <2>1. \A t \in Thread, l \in Lock : Owns(t, l)' <=> Owns(t, l)
    BY Zenon DEF Owns
  <2> QED
    BY <2>1, OwnersKept, Zenon DEF SInv
<1>3. InCall'
  BY Zenon DEF SInv, InCall, InCallOf
<1> QED
  BY <1>1, <1>2, <1>3, Zenon DEF SInv

\* sema_try_down and sema_up, by threads and by interrupt handlers.
LEMMA SemaSteps ==
  ASSUME SInv, SemaTryDown \/ SemaUp \/ IntrSemaUp \/ IntrSemaTryDown
  PROVE  SInv'
<1>1. /\ SynchTypeOK /\ SchedTypeOK /\ RunQueueConsistent /\ WaitListsConsistent /\ Labelled
      /\ pc \in [AnyThread -> SynchLabels] /\ current \in AnyThread
      /\ waiters \in [AnySema -> Seq(Thread)]
  BY Zenon DEF SInv, SynchTypeOK, SchedTypeOK, ElemOnOneList
<1>2. /\ UNCHANGED <<arg, holder, cond_waiters, cv>>
      /\ pc' \in [AnyThread -> SynchLabels] /\ \A t \in Thread : pc'[t] = pc[t]
      /\ pc'[idle_thread] \in {"idle", "hlt"}
  <2>1. CASE UNCHANGED pc
    BY <1>1, <2>1, Zenon DEF SemaTryDown, SemaUp, IntrSemaUp, IntrSemaTryDown, vars, Labelled
  <2>2. CASE LeaveHlt
    BY <1>1, <2>2, LeaveHltFacts, Zenon
      DEF SemaTryDown, SemaUp, IntrSemaUp, IntrSemaTryDown, vars, SynchLabels
  <2> QED
    BY <2>1, <2>2, Zenon DEF SemaTryDown, SemaUp, IntrSemaUp, IntrSemaTryDown, vars
<1>3. CASE SemaTryDown \/ IntrSemaTryDown
  <2>1. PICK s \in Sema : sema_try_down(s)
    BY <1>3, Zenon DEF SemaTryDown, IntrSemaTryDown
  <2>2. /\ value' \in [AnySema -> Nat] /\ \A l \in Lock : value'[l] = value[l]
        /\ waiters' = waiters
    BY <2>1, TakeFacts, Zenon
  <2>3. /\ status' = status /\ ready_list' = ready_list /\ current' = current
        /\ thread_ticks' = thread_ticks
    BY <1>3, Zenon DEF SemaTryDown, IntrSemaTryDown, vars, sched_vars
  <2>4. SchedTypeOK' /\ RunQueueConsistent'
    BY <1>1, <2>3, Zenon DEF SchedTypeOK, RunQueueConsistent, OnReadyList
  <2>5. WaitListsConsistent'
    BY <1>1, <1>2, <2>2, <2>3, WaitListsKept, Zenon
  <2>6. Labelled'
    BY <1>1, <1>2, <2>3, LabelledKept, Zenon DEF Labelled
  <2> QED
    BY <1>1, <1>2, <2>2, <2>4, <2>5, <2>6, SemaOnlyKeeps, Zenon DEF ElemOnOneList
<1>4. CASE SemaUp \/ IntrSemaUp
  <2>1. PICK s \in Sema : sema_up(s)
    BY <1>4, Zenon DEF SemaUp, IntrSemaUp
  <2>2. s \in AnySema
    BY Names, Zenon
  <2>3. /\ SchedTypeOK' /\ ElemOnOneList'
        /\ value' \in [AnySema -> Nat]
        /\ \A r \in AnySema : r # s => value'[r] = value[r]
        /\ waiters' \in [AnySema -> Seq(Thread)]
        /\ \A t \in Thread :
             /\ status'[t] \in {"FREE", "DYING"} => status[t] \in {"FREE", "DYING"}
             /\ status[t] = "BLOCKED" /\ pc[t] = "new" => status'[t] = "BLOCKED"
    BY <1>2, <2>1, <2>2, UpFacts, Zenon
  <2>4. \A l \in Lock : value'[l] = value[l]
    BY <2>3, Names, Zenon
  <2>5. \A t \in Thread : status'[t] \in {"FREE", "DYING"} => pc'[t] = "none"
    BY <1>1, <1>2, <2>3, Zenon DEF Labelled
  <2>6. Labelled'
    BY <1>1, <1>2, <2>3, <2>5, LabelledKept, Zenon
  <2> QED
    BY <1>2, <2>3, <2>4, <2>6, SemaOnlyKeeps, Zenon
<1> QED
  BY <1>3, <1>4, Zenon

\* sema_down in all its uses.
LEMMA DownSteps ==
  ASSUME SInv, SemaDown \/ DownAgain \/ LockAcquire \/ CondWaitDown \/ CondWaitAcquire
  PROVE  SInv'
<1>1. CASE SemaDown
  <2>1. current \in Thread /\ pc[current] = "run"
    BY <1>1, AtCall, Zenon DEF SemaDown
  <2>2. PICK s \in Sema : sema_down(s)
    BY <1>1, Zenon DEF SemaDown
  <2>3. s \in AnySema /\ s \notin Thread
    BY Names, Zenon
  <2> QED
    BY <2>1, <2>2, <2>3, DownKeeps, Zenon
<1>2. CASE DownAgain
  <2>1. /\ current \in Thread /\ pc[current] = "down" /\ InCallOf(current)
    BY <1>2, AtCall, Zenon DEF DownAgain
  <2>2. /\ arg[current] \in AnySema
        /\ arg[current] \in Thread => arg[current] = current /\ cv[current] \in Cond
    BY <2>1, Names, Zenon DEF InCallOf
  <2> QED
    BY <1>2, <2>1, <2>2, DownKeeps, Zenon DEF DownAgain
<1>3. CASE LockAcquire
  <2>1. current \in Thread /\ pc[current] = "run"
    BY <1>3, AtCall, Zenon DEF LockAcquire
  <2>2. PICK l \in Lock : sema_down(l)
    BY <1>3, Zenon DEF LockAcquire
  <2>3. l \in AnySema /\ l \notin Thread
    BY Names, Zenon
  <2> QED
    BY <2>1, <2>2, <2>3, DownKeeps
<1>4. CASE CondWaitDown
  <2>1. current \in Thread /\ pc[current] = "wait2" /\ InCallOf(current)
    BY <1>4, AtCall, Zenon DEF CondWaitDown
  <2>2. current \in AnySema /\ cv[current] \in Cond
    BY <2>1, Names, Zenon DEF InCallOf
  <2> QED
    BY <1>4, <2>1, <2>2, DownKeeps, Zenon DEF CondWaitDown
<1>5. CASE CondWaitAcquire
  <2>1. current \in Thread /\ pc[current] = "wait3" /\ InCallOf(current)
    BY <1>5, AtCall, Zenon DEF CondWaitAcquire
  <2>2. /\ lock_of[cv[current]] \in AnySema /\ lock_of[cv[current]] \notin Thread
    BY <2>1, Names, Zenon DEF InCallOf
  <2> QED
    BY <1>5, <2>1, <2>2, DownKeeps, Zenon DEF CondWaitAcquire
<1> QED
  BY <1>1, <1>2, <1>3, <1>4, <1>5, Zenon

\* The owners of the other locks stay as they are when a step changes who
\* owns lock k.
LEMMA OwnerChanges ==
  ASSUME LockExclusion, NEW k \in Lock,
         \A l \in Lock : l # k => value'[l] = value[l],
         \A t \in Thread, l \in Lock : l # k => (Owns(t, l)' <=> Owns(t, l)),
         \A t, u \in Thread : Owns(t, k)' /\ Owns(u, k)' => t = u,
         value'[k] = IF \E t \in Thread : Owns(t, k)' THEN 0 ELSE 1
  PROVE  LockExclusion'
<1>1. ASSUME NEW l \in Lock
      PROVE  /\ \A t, u \in Thread : Owns(t, l)' /\ Owns(u, l)' => t = u
             /\ value'[l] = IF \E t \in Thread : Owns(t, l)' THEN 0 ELSE 1
  <2>1. CASE l = k
    BY <2>1, Zenon
  <2>2. CASE l # k
    <3>1. /\ \A t \in Thread : Owns(t, l)' <=> Owns(t, l)
          /\ value'[l] = value[l]
      BY <2>2, Zenon
    <3>2. /\ \A t, u \in Thread : Owns(t, l) /\ Owns(u, l) => t = u
          /\ value[l] = IF \E t \in Thread : Owns(t, l) THEN 0 ELSE 1
      BY Zenon DEF LockExclusion
    <3> QED
      BY <3>1, <3>2, Zenon
  <2> QED
    BY <2>1, <2>2, Zenon
<1> QED
  BY <1>1, Zenon DEF LockExclusion

\* lock_try_acquire() succeeds.
LEMMA LockTryAcquireKeeps == SInv /\ LockTryAcquire => SInv'
<1> SUFFICES ASSUME SInv, LockTryAcquire PROVE SInv'
  BY Zenon
<1>1. /\ SynchTypeOK /\ LockExclusion /\ InCall /\ current \in Thread /\ pc[current] = "run"
      /\ UNCHANGED <<sched_vars, holder, cond_waiters, cv>> /\ Goto("own")
  BY AtCall, Zenon DEF LockTryAcquire
<1>2. PICK k \in Lock : sema_try_down(k) /\ SetArg(k)
  BY Zenon DEF LockTryAcquire
<1>3. k \in AnySema /\ k \in AnySema \cup {idle_thread}
      /\ "own" \in CallLabels /\ "own" \in SynchLabels
  BY Names, Zenon DEF CallLabels, SynchLabels
<1>4. /\ waiters' = waiters
      /\ value' \in [AnySema -> Nat] /\ value'[k] = value[k] - 1 /\ value[k] > 0
      /\ \A r \in AnySema : r # k => value'[r] = value[r]
  BY <1>1, <1>2, <1>3 DEF sema_try_down, SynchTypeOK
<1>5. SchedTypeOK' /\ ElemOnOneList' /\ Labelled'
  BY <1>1, <1>2, <1>3, <1>4, LocalStep, Zenon
<1>6. /\ pc' \in [AnyThread -> SynchLabels] /\ arg' \in [AnyThread -> AnySema \cup {idle_thread}]
      /\ pc'[current] = "own" /\ arg'[current] = k
      /\ \A t \in Thread : t # current => pc'[t] = pc[t] /\ arg'[t] = arg[t]
  BY <1>1, <1>2, <1>3, GotoFacts, Zenon
<1>7. value[k] = 1 /\ holder[k] = NULL /\ \A t \in Thread : ~Owns(t, k)
  BY <1>1, <1>4, FreeLock, Zenon
<1>8. LockExclusion'
  <2>1. ASSUME NEW t \in Thread
        PROVE  /\ Owns(t, k)' <=> t = current
               /\ \A l \in Lock : l # k => (Owns(t, l)' <=> Owns(t, l))
    <3>1. holder' = holder /\ holder[k] = NULL /\ t # NULL /\ ~Owns(t, k)
      BY <1>1, <1>7, Names, Zenon
    <3>2. CASE t = current
      BY <1>1, <1>6, <3>1, <3>2, Zenon DEF Owns
    <3>3. CASE t # current
      BY <1>6, <3>1, <3>3, Zenon DEF Owns
    <3> QED
      BY <3>2, <3>3, Zenon
  <2>2. value'[k] = 0 /\ \A l \in Lock : l # k => value'[l] = value[l]
    <3>1. value'[k] = 0
      BY <1>4, <1>7
    <3>2. \A l \in Lock : l # k => value'[l] = value[l]
      BY <1>4, Names, Zenon
    <3> QED
      BY <3>1, <3>2, Zenon
  <2>3. /\ \A t, u \in Thread : Owns(t, k)' /\ Owns(u, k)' => t = u
        /\ \E t \in Thread : Owns(t, k)'
    BY <1>1, <2>1, Zenon
  <2> QED
    BY <1>1, <2>1, <2>2, <2>3, OwnerChanges, Zenon
<1>9. InCall'
  <2>1. ASSUME NEW t \in Thread, t # current PROVE InCallOf(t)'
    BY <1>1, <1>6, <2>1, InCallSame, Zenon DEF InCall
  <2>2. ASSUME NEW t \in Thread, t = current PROVE InCallOf(t)'
    BY <1>1, <1>6, <1>7, <2>2, Zenon DEF InCallOf
  <2> QED
    BY <2>1, <2>2, Zenon DEF InCall
<1>10. SynchTypeOK'
  BY <1>1, <1>4, <1>5, <1>6, Zenon DEF SynchTypeOK
<1> QED
  BY <1>5, <1>8, <1>9, <1>10, Zenon DEF SInv

\* The lock's owner becomes its holder.
LEMMA SetHolderKeeps == SInv /\ SetHolder => SInv'
<1> SUFFICES ASSUME SInv, SetHolder PROVE SInv'
  OBVIOUS
<1>1. /\ SynchTypeOK /\ LockExclusion /\ InCall /\ current \in Thread /\ pc[current] = "own"
      /\ UNCHANGED <<sched_vars, value, waiters, cond_waiters>> /\ Goto("run") /\ SetArg(current)
      /\ InCallOf(current)
  BY AtCall, Zenon DEF SetHolder, NoArg
<1>2. PICK k \in Lock :
        /\ k = arg[current] /\ holder' = [holder EXCEPT ![k] = current]
        /\ cv' = [cv EXCEPT ![current] = NULL] /\ holder[k] = NULL
        /\ current \in AnySema \cup {idle_thread} /\ "run" \in CallLabels /\ "run" \in SynchLabels
  BY <1>1, Names, Zenon DEF SetHolder, InCallOf, CallLabels, SynchLabels
<1>3. Owns(current, k)
  BY <1>1, <1>2, Zenon DEF Owns
<1>4. SchedTypeOK' /\ ElemOnOneList' /\ Labelled'
  BY <1>1, <1>2, LocalStep, Zenon
<1>5. /\ pc' \in [AnyThread -> SynchLabels] /\ arg' \in [AnyThread -> AnySema \cup {idle_thread}]
      /\ pc'[current] = "run"
      /\ \A t \in Thread : t # current => pc'[t] = pc[t] /\ arg'[t] = arg[t]
  BY <1>1, <1>2, GotoFacts, Zenon
<1>6. /\ holder' \in [Lock -> Thread \cup {NULL}] /\ holder'[k] = current
      /\ \A l \in Lock : l # k => holder'[l] = holder[l]
      /\ cv' \in [AnyThread -> Cond \cup {NULL}]
      /\ \A t \in Thread : t # current => cv'[t] = cv[t]
  BY <1>1, <1>2, Names, Zenon DEF SynchTypeOK
<1>7. SynchTypeOK'
  BY <1>1, <1>4, <1>5, <1>6, Zenon DEF SynchTypeOK
<1>8. LockExclusion'
  <2>2. ASSUME NEW t \in Thread, NEW l \in Lock PROVE Owns(t, l)' <=> Owns(t, l)
    <3>1. CASE t = current
      <4>1. /\ pc[t] = "own" /\ arg[t] = k /\ pc'[t] = "run"
            /\ holder'[k] = t /\ (l # k => holder'[l] = holder[l])
        BY <1>1, <1>2, <1>5, <1>6, <3>1, Zenon
      <4> QED
        BY <4>1, Zenon DEF Owns
    <3>2. CASE t # current
      <4>1. pc'[t] = pc[t] /\ arg'[t] = arg[t] /\ (holder'[l] = t <=> holder[l] = t)
        BY <1>2, <1>5, <1>6, <3>2, Names, Zenon
      <4> QED
        BY <4>1, OwnsSame, Zenon
    <3> QED
      BY <3>1, <3>2, Zenon
  <2> QED
    BY <1>1, <2>2, OwnersKept, Zenon
<1>9. InCall'
  <2>1. ASSUME NEW t \in Thread, t # current PROVE InCallOf(t)'
    <3>1. ~Owns(t, k)
      BY <1>1, <1>2, <1>3, <2>1, Zenon DEF LockExclusion
    <3>2. \A l \in Lock : pc[t] \in {"own", "unlock"} /\ arg[t] = l => holder'[l] = holder[l]
      BY <1>6, <3>1, Zenon DEF Owns
    <3>3. InCallOf(t)
      BY <1>1, Zenon DEF InCall
    <3> QED
      BY <1>5, <1>6, <2>1, <3>2, <3>3, InCallSame, Zenon
  <2>2. ASSUME NEW t \in Thread, t = current PROVE InCallOf(t)'
    BY <1>5, <2>2, Zenon DEF InCallOf
  <2> QED
    BY <2>1, <2>2 DEF InCall
<1> QED
  BY <1>4, <1>7, <1>8, <1>9, Zenon DEF SInv

\* lock_release(k) up to lock->holder = NULL, called on its own or by
\* cond_wait.
LEMMA ClearHolderKeeps ==
  ASSUME SInv, NEW k \in Lock, ClearHolder(k), At("run") \/ At("wait1")
  PROVE  SInv'
<1>1. /\ SynchTypeOK /\ LockExclusion /\ InCall /\ current \in Thread
      /\ pc[current] \in {"run", "wait1"}
  BY AtCall, Zenon
<1>2. /\ holder[k] = current /\ holder' = [holder EXCEPT ![k] = NULL]
      /\ UNCHANGED <<sched_vars, value, waiters, cond_waiters, cv>>
      /\ Goto("unlock") /\ SetArg(k)
      /\ k \in AnySema \cup {idle_thread} /\ "unlock" \in CallLabels /\ "unlock" \in SynchLabels
  BY Names, Zenon DEF ClearHolder, lock_held_by_current_thread, CallLabels, SynchLabels
<1>3. SchedTypeOK' /\ ElemOnOneList' /\ Labelled'
  BY <1>1, <1>2, LocalStep, Zenon
<1>4. /\ pc' \in [AnyThread -> SynchLabels] /\ arg' \in [AnyThread -> AnySema \cup {idle_thread}]
      /\ pc'[current] = "unlock" /\ arg'[current] = k
      /\ \A t \in Thread : t # current => pc'[t] = pc[t] /\ arg'[t] = arg[t]
  BY <1>1, <1>2, GotoFacts, Zenon
<1>5. /\ holder' \in [Lock -> Thread \cup {NULL}] /\ holder'[k] = NULL
      /\ \A l \in Lock : l # k => holder'[l] = holder[l]
  BY <1>1, <1>2, Zenon DEF SynchTypeOK
<1>6. SynchTypeOK'
  BY <1>1, <1>2, <1>3, <1>4, <1>5, Zenon DEF SynchTypeOK
<1>7. LockExclusion'
  <2>2. ASSUME NEW t \in Thread, NEW l \in Lock PROVE Owns(t, l)' <=> Owns(t, l)
    <3>1. CASE t = current
      <4>1. /\ pc[t] \notin {"own", "unlock"} /\ pc'[t] = "unlock" /\ arg'[t] = k
            /\ holder[k] = t /\ (l # k => holder'[l] = holder[l])
        BY <1>1, <1>2, <1>4, <1>5, <3>1, Zenon
      <4> QED
        BY <4>1, Zenon DEF Owns
    <3>2. CASE t # current
      <4>1. pc'[t] = pc[t] /\ arg'[t] = arg[t] /\ (holder'[l] = t <=> holder[l] = t)
        BY <1>2, <1>4, <1>5, <3>2, Names, Zenon
      <4> QED
        BY <4>1, OwnsSame, Zenon
    <3> QED
      BY <3>1, <3>2, Zenon
  <2> QED
    BY <1>1, <1>2, <2>2, OwnersKept, Zenon
<1>8. InCall'
  <2>1. ASSUME NEW t \in Thread, t # current PROVE InCallOf(t)'
    <3>1. \A l \in Lock : holder[l] = NULL => holder'[l] = NULL
      BY <1>5, Zenon
    <3>2. InCallOf(t)
      BY <1>1, Zenon DEF InCall
    <3> QED
      BY <1>2, <1>4, <2>1, <3>1, <3>2, InCallSame, Zenon
  <2>2. ASSUME NEW t \in Thread, t = current PROVE InCallOf(t)'
    BY <1>4, <1>5, <2>2, Zenon DEF InCallOf
  <2> QED
    BY <2>1, <2>2, Zenon DEF InCall
<1> QED
  BY <1>3, <1>6, <1>7, <1>8, Zenon DEF SInv

\* The sema_up() that ends lock_release().
LEMMA UnlockKeeps == SInv /\ Unlock => SInv'
<1> SUFFICES ASSUME SInv, Unlock PROVE SInv'
  OBVIOUS
<1>1. /\ SynchTypeOK /\ LockExclusion /\ Labelled /\ InCall /\ current \in Thread
      /\ pc[current] = "unlock" /\ status[current] = "RUNNING" /\ InCallOf(current)
      /\ UNCHANGED <<holder, cond_waiters, cv>>
  BY AtCall, Zenon DEF Unlock
<1>2. PICK k \in Lock : k = arg[current] /\ holder[k] = NULL /\ sema_up(k) /\ k \in AnySema
  BY <1>1, Names, Zenon DEF Unlock, InCallOf
<1>3. PICK l \in {"run", "wait2"} :
        /\ Goto(l) /\ SetArg(current) /\ (l = "wait2" => cv[current] # NULL)
        /\ l \in SynchLabels /\ l \in CallLabels /\ current \in AnySema \cup {idle_thread}
  BY <1>1, Names, Zenon DEF Unlock, NoArg, CallLabels, SynchLabels
<1>4. /\ pc' \in [AnyThread -> SynchLabels] /\ arg' \in [AnyThread -> AnySema \cup {idle_thread}]
      /\ pc'[current] = l
      /\ \A t \in Thread : t # current => pc'[t] = pc[t] /\ arg'[t] = arg[t]
  BY <1>1, <1>3, GotoFacts, Zenon
<1>5. /\ SchedTypeOK' /\ ElemOnOneList' /\ current' = current
      /\ value' \in [AnySema -> Nat] /\ value'[k] = value[k] + 1
      /\ \A r \in AnySema : r # k => value'[r] = value[r]
      /\ waiters' \in [AnySema -> Seq(Thread)]
      /\ \A t \in Thread :
           /\ status'[t] \in {"FREE", "DYING"} => status[t] \in {"FREE", "DYING"}
           /\ status[t] = "BLOCKED" /\ pc[t] = "new" => status'[t] = "BLOCKED"
  BY <1>2, <1>4, UpFacts, Zenon
<1>6. Labelled'
  BY <1>1, <1>3, <1>5, LabelledStep, Zenon
<1>7. SynchTypeOK'
  BY <1>1, <1>4, <1>5, Zenon DEF SynchTypeOK
<1>8. LockExclusion'
  <2>1. \A t \in Thread : Owns(t, k) <=> t = current
    BY <1>1, <1>2, Zenon DEF LockExclusion, Owns
  <2>2. value[k] = 0
    BY <1>1, <2>1, FreeLock, Zenon
  <2>3. ASSUME NEW t \in Thread
        PROVE  /\ ~Owns(t, k)'
               /\ \A j \in Lock : j # k => (Owns(t, j)' <=> Owns(t, j))
    <3>1. holder' = holder /\ holder[k] = NULL /\ t # NULL /\ (Owns(t, k) <=> t = current)
      BY <1>1, <1>2, <2>1, Names, Zenon
    <3>2. CASE t = current
      <4>1. pc[t] = "unlock" /\ arg[t] = k /\ pc'[t] \in {"run", "wait2"}
        BY <1>1, <1>2, <1>3, <1>4, <3>2, Zenon
      <4> QED
        BY <3>1, <4>1, Zenon DEF Owns
    <3>3. CASE t # current
      BY <1>4, <3>1, <3>3, Zenon DEF Owns
    <3> QED
      BY <3>2, <3>3, Zenon
  <2>4. \A j \in Lock : j # k => value'[j] = value[j]
    BY <1>5, Names, Zenon
  <2>5. value'[k] = 1
    <3>1. value'[k] = value[k] + 1
      BY <1>5, Zenon
    <3> QED
      BY <2>2, <3>1
  <2> QED
    BY <1>1, <2>3, <2>4, <2>5, OwnerChanges, Zenon
<1>9. InCall'
  <2>1. ASSUME NEW t \in Thread, t # current PROVE InCallOf(t)'
    BY <1>1, <1>4, <2>1, InCallSame, Zenon DEF InCall
  <2>2. ASSUME NEW t \in Thread, t = current PROVE InCallOf(t)'
    <3>1. cv'[t] = cv[t] /\ (l = "wait2" => cv[t] \in Cond)
      BY <1>1, <1>3, <2>2, Names, Zenon DEF SynchTypeOK
    <3> QED
      BY <1>3, <1>4, <2>2, <3>1, Zenon DEF InCallOf
  <2> QED
    BY <2>1, <2>2, Zenon DEF InCall
<1> QED
  BY <1>5, <1>6, <1>7, <1>8, <1>9, Zenon DEF SInv

\* A step of a condition variable's operation, which changes no lock and no
\* semaphore that anybody sleeps on.
LEMMA CondKeeps ==
  ASSUME SInv, current \in Thread, pc[current] \notin {"new", "own", "unlock"},
         UNCHANGED <<sched_vars, waiters, holder>>,
         NEW l \in CallLabels \ {"own", "unlock", "down"}, Goto(l),
         NEW a \in AnySema \cup {idle_thread}, SetArg(a),
         l = "signal" => a \in Thread,
         value' \in [AnySema -> Nat], \A k \in Lock : value'[k] = value[k],
         cond_waiters' \in [Cond -> Seq(Thread)], cv' \in [AnyThread -> Cond \cup {NULL}],
         \A t \in Thread : t # current => cv'[t] = cv[t],
         l \in {"wait1", "wait2", "wait3", "bcast"} => cv'[current] \in Cond
  PROVE  SInv'
<1>1. /\ SynchTypeOK /\ LockExclusion /\ InCall
      /\ l \in CallLabels /\ l \in SynchLabels /\ l \notin {"own", "unlock", "down"}
      /\ waiters' = waiters /\ holder' = holder
  BY Zenon DEF SInv, CallLabels
<1>2. SchedTypeOK' /\ ElemOnOneList' /\ Labelled'
  BY <1>1, LocalStep, Zenon
<1>3. /\ pc' \in [AnyThread -> SynchLabels] /\ arg' \in [AnyThread -> AnySema \cup {idle_thread}]
      /\ pc'[current] = l /\ arg'[current] = a
      /\ \A t \in Thread : t # current => pc'[t] = pc[t] /\ arg'[t] = arg[t]
  BY <1>1, GotoFacts, Zenon
<1>4. SynchTypeOK'
  BY <1>1, <1>2, <1>3, Zenon DEF SynchTypeOK
<1>5. ASSUME NEW t \in Thread, NEW k \in Lock PROVE Owns(t, k)' <=> Owns(t, k)
  <2>1. CASE t = current
    BY <1>1, <1>3, <2>1, OwnsSame, Zenon
  <2>2. CASE t # current
    BY <1>1, <1>3, <2>2, OwnsSame, Zenon
  <2> QED
    BY <2>1, <2>2, Zenon
<1>6. LockExclusion'
  BY <1>1, <1>5, OwnersKept, Zenon
<1>7. InCall'
  <2>1. ASSUME NEW t \in Thread, t # current PROVE InCallOf(t)'
    BY <1>1, <1>3, <2>1, InCallSame, Zenon DEF InCall
  <2>2. ASSUME NEW t \in Thread, t = current PROVE InCallOf(t)'
    BY <1>1, <1>3, <2>2, Zenon DEF InCallOf
  <2> QED
    BY <2>1, <2>2, Zenon DEF InCall
<1> QED
  BY <1>2, <1>4, <1>6, <1>7, Zenon DEF SInv

\* A thread whose argument stays has set it to what it was.
LEMMA SameArg ==
  ASSUME SynchTypeOK, current \in Thread, arg' = arg
  PROVE  \E a \in AnySema \cup {idle_thread} : SetArg(a)
<1>1. arg[current] \in AnySema \cup {idle_thread}
  BY Names, Zenon DEF SynchTypeOK
<1>2. SetArg(arg[current])
  BY Names, Zenon DEF SynchTypeOK, SetArg
<1> QED
  BY <1>1, <1>2, Zenon

\* Nobody sleeps on the semaphore of the waiter that cond_wait() initialises.
LEMMA WaiterUnused == SInv /\ CondWait => waiters' = waiters
<1> SUFFICES ASSUME SInv, CondWait PROVE waiters' = waiters
  BY Zenon
<1>1. /\ SynchTypeOK /\ WaitListsConsistent /\ InCall /\ current \in Thread
      /\ pc[current] = "run" /\ status[current] = "RUNNING"
      /\ waiters' = [waiters EXCEPT ![current] = <<>>]
  BY AtCall, Zenon DEF CondWait
<1>2. waiters \in [AnySema -> Seq(Thread)] /\ current \in AnySema
  BY <1>1, Names, Zenon DEF SynchTypeOK
<1>3. ASSUME waiters[current] # <<>> PROVE FALSE
  <2>1. Head(waiters[current]) \in Thread /\ OnList(waiters[current], Head(waiters[current]))
    BY <1>2, <1>3, TailFacts, Zenon DEF OnList
  <2>2. PICK t \in Thread : Asleep(t, current)
    BY <1>1, <1>2, <2>1, Zenon DEF WaitListsConsistent
  <2>3. t = current
    BY <1>1, <2>2, Names, Zenon DEF Asleep, InCall, InCallOf
  <2> QED
    BY <1>1, <2>2, <2>3, Zenon DEF Asleep
<1> QED
  BY <1>1, <1>2, <1>3, Zenon

\* cond_wait() queues the running thread, which keeps the lock for now.
LEMMA CondWaitKeeps == SInv /\ CondWait => SInv'
<1> SUFFICES ASSUME SInv, CondWait PROVE SInv'
  OBVIOUS
<1>1. /\ SynchTypeOK /\ WaitListsConsistent /\ InCall /\ current \in Thread
      /\ pc[current] = "run" /\ status[current] = "RUNNING"
      /\ UNCHANGED <<sched_vars, holder>> /\ arg' = arg
      /\ Goto("wait1")
  BY AtCall, Zenon DEF CondWait
<1>2. PICK c \in Cond :
        /\ value' = [value EXCEPT ![current] = 0]
        /\ waiters' = [waiters EXCEPT ![current] = <<>>]
        /\ cond_waiters' = [cond_waiters EXCEPT ![c] = Append(@, current)]
        /\ cv' = [cv EXCEPT ![current] = c]
  BY Zenon DEF CondWait
<1>3. waiters' = waiters
  BY WaiterUnused, Zenon
<1>4. /\ value' \in [AnySema -> Nat] /\ \A k \in Lock : value'[k] = value[k]
      /\ cond_waiters' \in [Cond -> Seq(Thread)] /\ cv' \in [AnyThread -> Cond \cup {NULL}]
      /\ cv'[current] \in Cond /\ \A t \in Thread : t # current => cv'[t] = cv[t]
  BY <1>1, <1>2, AppendFacts, Names, Zenon DEF SynchTypeOK
<1>5. PICK a \in AnySema \cup {idle_thread} : SetArg(a)
  BY <1>1, SameArg, Zenon
<1>6. "wait1" \in CallLabels \ {"own", "unlock", "down"}
  BY Zenon DEF CallLabels, SynchLabels
<1> QED
  BY <1>1, <1>3, <1>4, <1>5, <1>6, CondKeeps, Zenon

\* cond_signal() pops a waiter; in cond_broadcast() the running thread
\* remembers the condition.
LEMMA PopWaiterKeeps ==
  ASSUME SInv, NEW c \in Cond, PopWaiter(c), At("run") \/ At("bcast"),
         cv' = cv \/ cv' = [cv EXCEPT ![current] = c]
  PROVE  SInv'
<1>1. /\ SynchTypeOK /\ current \in Thread /\ pc[current] \in {"run", "bcast"}
  BY AtCall, Zenon
<1>2. PICK a \in Thread : SetArg(a) /\ a \in AnySema \cup {idle_thread}
  BY <1>1, TailFacts, Names, Zenon DEF PopWaiter, SynchTypeOK
<1>3. /\ UNCHANGED <<sched_vars, waiters, holder>> /\ Goto("signal")
      /\ value' \in [AnySema -> Nat] /\ \A k \in Lock : value'[k] = value[k]
  BY <1>1, Zenon DEF PopWaiter, SynchTypeOK
<1>4. cond_waiters' \in [Cond -> Seq(Thread)]
  <2>1. /\ cond_waiters \in [Cond -> Seq(Thread)] /\ cond_waiters[c] # <<>>
        /\ cond_waiters' = [cond_waiters EXCEPT ![c] = Tail(@)]
    BY <1>1, Zenon DEF PopWaiter, SynchTypeOK
  <2>2. Tail(cond_waiters[c]) \in Seq(Thread)
    BY <2>1, TailFacts, Zenon
  <2> QED
    BY <2>1, <2>2, Zenon
<1>5. cv' \in [AnyThread -> Cond \cup {NULL}] /\ \A t \in Thread : t # current => cv'[t] = cv[t]
  <2>1. cv \in [AnyThread -> Cond \cup {NULL}] /\ \A t \in Thread : t \in AnyThread
    BY <1>1, Names, Zenon DEF SynchTypeOK
  <2> QED
    BY <2>1, Zenon
<1>6. "signal" \in CallLabels \ {"own", "unlock", "down"}
  BY Zenon DEF CallLabels, SynchLabels
<1> QED
  BY <1>1, <1>2, <1>3, <1>4, <1>5, <1>6, CondKeeps, Zenon

\* cond_broadcast returns when nobody waits any more.
LEMMA BroadcastDoneKeeps == SInv /\ BroadcastDone => SInv'
<1> SUFFICES ASSUME SInv, BroadcastDone PROVE SInv'
  OBVIOUS
<1>1. /\ SynchTypeOK /\ current \in Thread /\ pc[current] = "bcast"
      /\ UNCHANGED <<sched_vars, waiters, holder>> /\ arg' = arg /\ value' = value
      /\ cond_waiters' = cond_waiters /\ cv' = [cv EXCEPT ![current] = NULL] /\ Goto("run")
  BY AtCall, Zenon DEF BroadcastDone
<1>2. /\ value' \in [AnySema -> Nat] /\ \A k \in Lock : value'[k] = value[k]
      /\ cond_waiters' \in [Cond -> Seq(Thread)] /\ cv' \in [AnyThread -> Cond \cup {NULL}]
      /\ \A t \in Thread : t # current => cv'[t] = cv[t]
  BY <1>1, Names, Zenon DEF SynchTypeOK
<1>3. PICK a \in AnySema \cup {idle_thread} : SetArg(a)
  BY <1>1, SameArg, Zenon
<1>4. "run" \in CallLabels \ {"own", "unlock", "down"}
  BY Zenon DEF CallLabels, SynchLabels
<1> QED
  BY <1>1, <1>2, <1>3, <1>4, CondKeeps, Zenon

\* The sema_up() of cond_signal().
LEMMA SignalUpKeeps == SInv /\ SignalUp => SInv'
<1> SUFFICES ASSUME SInv, SignalUp PROVE SInv'
  OBVIOUS
<1>1. /\ SynchTypeOK /\ LockExclusion /\ Labelled /\ InCall /\ current \in Thread
      /\ pc[current] = "signal" /\ status[current] = "RUNNING" /\ InCallOf(current)
      /\ UNCHANGED <<holder, cond_waiters, cv>>
  BY AtCall, Zenon DEF SignalUp
<1>2. PICK w \in Thread : sema_up(w) /\ w \in AnySema
  BY <1>1, Names, Zenon DEF SignalUp, InCallOf
<1>3. PICK l \in {"run", "bcast"} :
        /\ Goto(l) /\ SetArg(current) /\ (l = "bcast" => cv[current] # NULL)
        /\ l \in SynchLabels /\ l \in CallLabels /\ current \in AnySema \cup {idle_thread}
  BY <1>1, Names, Zenon DEF SignalUp, NoArg, CallLabels, SynchLabels
<1>4. /\ pc' \in [AnyThread -> SynchLabels] /\ arg' \in [AnyThread -> AnySema \cup {idle_thread}]
      /\ pc'[current] = l
      /\ \A t \in Thread : t # current => pc'[t] = pc[t] /\ arg'[t] = arg[t]
  BY <1>1, <1>3, GotoFacts, Zenon
<1>5. /\ SchedTypeOK' /\ ElemOnOneList' /\ current' = current
      /\ value' \in [AnySema -> Nat]
      /\ \A r \in AnySema : r # w => value'[r] = value[r]
      /\ waiters' \in [AnySema -> Seq(Thread)]
      /\ \A t \in Thread :
           /\ status'[t] \in {"FREE", "DYING"} => status[t] \in {"FREE", "DYING"}
           /\ status[t] = "BLOCKED" /\ pc[t] = "new" => status'[t] = "BLOCKED"
  BY <1>2, <1>4, UpFacts, Zenon
<1>6. Labelled'
  BY <1>1, <1>3, <1>5, LabelledStep, Zenon
<1>7. SynchTypeOK'
  BY <1>1, <1>4, <1>5, Zenon DEF SynchTypeOK
<1>8. LockExclusion'
  <2>1. \A k \in Lock : value'[k] = value[k]
    BY <1>5, Names, Zenon
  <2>2. ASSUME NEW t \in Thread, NEW k \in Lock PROVE Owns(t, k)' <=> Owns(t, k)
    <3>1. CASE t = current
      BY <1>1, <1>3, <1>4, <3>1, OwnsSame, Zenon
    <3>2. CASE t # current
      BY <1>1, <1>4, <3>2, OwnsSame, Zenon
    <3> QED
      BY <3>1, <3>2, Zenon
  <2> QED
    BY <1>1, <2>1, <2>2, OwnersKept, Zenon
<1>9. InCall'
  <2>1. ASSUME NEW t \in Thread, t # current PROVE InCallOf(t)'
    BY <1>1, <1>4, <2>1, InCallSame, Zenon DEF InCall
  <2>2. ASSUME NEW t \in Thread, t = current PROVE InCallOf(t)'
    <3>1. cv'[t] = cv[t] /\ (l = "bcast" => cv[t] \in Cond)
      BY <1>1, <1>3, <2>2, Names, Zenon DEF SynchTypeOK
    <3> QED
      BY <1>3, <1>4, <2>2, <3>1, Zenon DEF InCallOf
  <2> QED
    BY <2>1, <2>2, Zenon DEF InCall
<1> QED
  BY <1>5, <1>6, <1>7, <1>8, <1>9, Zenon DEF SInv

-----------------------------------------------------------------------------
(* The theorems.                                                           *)

\* Before the first call every lock is free and every list empty.
LEMMA InitSInv == SynchInit => SInv
<1> SUFFICES ASSUME SynchInit PROVE SInv
  BY Zenon
<1>1. SchedTypeOK /\ RunQueueConsistent /\ Labelled
  BY InitIInv, Zenon DEF SynchInit, IInv, TypeOK
<1>2. SynchTypeOK
  <2>1. pc \in [AnyThread -> SynchLabels] /\ arg \in [AnyThread -> AnySema \cup {idle_thread}]
    BY Names, Zenon DEF SynchInit, Init, SynchLabels, AnyThread
  <2>2. value \in [AnySema -> Nat] /\ cv \in [AnyThread -> Cond \cup {NULL}]
    BY Zenon DEF SynchInit
  <2>3. <<>> \in Seq(Thread)
    OBVIOUS
  <2>4. /\ waiters \in [AnySema -> Seq(Thread)] /\ cond_waiters \in [Cond -> Seq(Thread)]
        /\ holder \in [Lock -> Thread \cup {NULL}]
    BY <2>3, Zenon DEF SynchInit
  <2> QED
    BY <1>1, <2>1, <2>2, <2>4, Zenon DEF SynchTypeOK
<1>3. \A s \in AnySema : waiters[s] = <<>> /\ DOMAIN waiters[s] = {}
  BY DEF SynchInit
<1>4. /\ \A t \in Thread : status[t] # "BLOCKED" /\ pc[t] \in {"run", "none"}
      /\ \A l \in Lock : holder[l] = NULL /\ value[l] = 1
  BY Names, ThreadsAssumption, Zenon DEF SynchInit, Init, AnyThread
<1>5. WaitListsConsistent
  BY <1>3, <1>4, Zenon DEF WaitListsConsistent, NoDuplicates, OnList, Asleep
<1>6. LockExclusion
  BY <1>4, Names, Zenon DEF LockExclusion, Owns
<1>7. InCall
  BY <1>4, Zenon DEF InCall, InCallOf
<1> QED
  BY <1>1, <1>2, <1>5, <1>6, <1>7, Zenon DEF SInv, ElemOnOneList

\* No step disturbs the invariant of locks, semaphores and conditions.
LEMMA NextSInv == SInv /\ [SynchNext]_all_vars => SInv'
<1> SUFFICES ASSUME SInv, [SynchNext]_all_vars PROVE SInv'
  BY Zenon
<1>1. CASE SchedStep
  BY <1>1, SchedStepKeeps, Zenon
<1>2. CASE SemaTryDown \/ SemaUp \/ IntrSemaUp \/ IntrSemaTryDown
  BY <1>2, SemaSteps, Zenon
<1>3. CASE SemaDown \/ DownAgain \/ LockAcquire \/ CondWaitDown \/ CondWaitAcquire
  BY <1>3, DownSteps, Zenon
<1>4. CASE LockTryAcquire
  BY <1>4, LockTryAcquireKeeps
<1>5. CASE SetHolder
  BY <1>5, SetHolderKeeps
<1>6. CASE LockRelease
  BY <1>6, ClearHolderKeeps, Zenon DEF LockRelease
<1>7. CASE CondWaitRelease
  <2>1. lock_of[cv[current]] \in Lock
    BY <1>7, AtCall, Names, Zenon DEF CondWaitRelease, InCallOf
  <2>2. PICK k \in Lock : ClearHolder(k)
    BY <1>7, <2>1, Zenon DEF CondWaitRelease
  <2> QED
    BY <1>7, <2>2, ClearHolderKeeps, Zenon DEF CondWaitRelease
<1>8. CASE Unlock
  BY <1>8, UnlockKeeps
<1>9. CASE CondWait
  BY <1>9, CondWaitKeeps
<1>10. CASE CondSignal
  BY <1>10, PopWaiterKeeps, Zenon DEF CondSignal
<1>11. CASE CondBroadcast
  BY <1>11, PopWaiterKeeps, Zenon DEF CondBroadcast
<1>12. CASE BroadcastNext
  <2>1. cv[current] \in Cond
    BY <1>12, AtCall, Zenon DEF BroadcastNext, InCallOf
  <2>2. PICK c \in Cond : PopWaiter(c)
    BY <1>12, <2>1, Zenon DEF BroadcastNext
  <2> QED
    BY <1>12, <2>2, PopWaiterKeeps, Zenon DEF BroadcastNext
<1>13. CASE SignalUp
  BY <1>13, SignalUpKeeps
<1>14. CASE BroadcastDone
  BY <1>14, BroadcastDoneKeeps
<1>15. CASE UNCHANGED all_vars
  <2>1. /\ status' = status /\ ready_list' = ready_list /\ current' = current
        /\ thread_ticks' = thread_ticks /\ pc' = pc /\ arg' = arg
        /\ value' = value /\ waiters' = waiters /\ holder' = holder
        /\ cond_waiters' = cond_waiters /\ cv' = cv
    BY <1>15, Zenon DEF all_vars, vars, synch_vars
  <2>2. SynchTypeOK'
    BY <2>1, Zenon DEF SInv, SynchTypeOK, SchedTypeOK
  <2>3. RunQueueConsistent'
    BY <2>1, Zenon DEF SInv, ElemOnOneList, RunQueueConsistent, OnReadyList
  <2>4. WaitListsConsistent'
    BY <2>1, WaitListsKept, Zenon DEF SInv, ElemOnOneList
  <2>5. LockExclusion'
    <3>1. \A t \in Thread, l \in Lock : Owns(t, l)' <=> Owns(t, l)
      BY <2>1, Zenon DEF Owns
    <3> QED
      BY <2>1, <3>1, OwnersKept, Zenon DEF SInv
  <2>6. InCall'
    BY <2>1, InCallSame, Zenon DEF SInv, InCall
  <2>7. Labelled'
    BY <2>1, Zenon DEF SInv, Labelled
  <2> QED
    BY <2>2, <2>3, <2>4, <2>5, <2>6, <2>7, Zenon DEF SInv, ElemOnOneList
<1> QED
  BY <1>1, <1>2, <1>3, <1>4, <1>5, <1>6, <1>7, <1>8, <1>9, <1>10, <1>11, <1>12, <1>13,
     <1>14, <1>15, Zenon DEF SynchNext, Continue

\* Semaphore values never go below zero, and all of synch.c's state keeps its
\* type.
THEOREM SynchTypeCorrect == SynchSpec => []SynchTypeOK
<1>1. SInv => SynchTypeOK
  BY Zenon DEF SInv
<1> QED
  BY <1>1, InitSInv, NextSInv, PTL DEF SynchSpec

\* A thread's list element is on at most one list, so thread_unblock() is
\* only ever given a blocked thread.
THEOREM ElemsConsistent == SynchSpec => []ElemOnOneList
<1>1. SInv => ElemOnOneList
  BY Zenon DEF SInv
<1> QED
  BY <1>1, InitSInv, NextSInv, PTL DEF SynchSpec

\* Mutual exclusion: no lock has two owners, and its semaphore says whether
\* it has one.
THEOREM MutualExclusion == SynchSpec => []LockExclusion
<1>1. SInv => LockExclusion
  BY Zenon DEF SInv
<1> QED
  BY <1>1, InitSInv, NextSInv, PTL DEF SynchSpec
=============================================================================
