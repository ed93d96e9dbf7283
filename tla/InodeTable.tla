----------------------------- MODULE InodeTable -----------------------------
(***************************************************************************)
(* The table of open inodes of filesys/inode.c under preemption.  System   *)
(* calls (Locker) open and close files with filesys_lock held; load() and  *)
(* process_exit() (Loader) open and close the executable without it.       *)
(*                                                                         *)
(* A step is what a thread does between two points at which another may    *)
(* run and be noticed.  Memory malloc() returns keeps what it held before. *)
(***************************************************************************)
EXTENDS Naturals, FiniteSets, Kernel

CONSTANTS Locker, Loader,   \* threads
          Inode,            \* struct inode objects in memory
          InodeSector

ASSUME InodeTableAssumption ==
  IsFiniteSet(Locker \cup Loader) /\ NULL \notin Locker \cup Loader \cup Inode

VARIABLES pc,            \* [Thread -> where it is]
          want,          \* [Thread -> the sector it opens]
          ptr,           \* [Thread -> the inode it works on, or NULL]
          open_list,     \* open_inodes: the inodes on the list
          allocated,     \* inodes malloc() returned and free() did not get
          inode,         \* [Inode -> struct inode]
          filesys_lock,  \* its owner, or NULL
          met            \* two calls have been on the table at one time

tableVars == <<pc, want, ptr, open_list, allocated, inode, filesys_lock, met>>
Thread == Locker \cup Loader

\* Where a thread is in the middle of inode_open or inode_close.
Inside == {"found", "alloc", "pushed", "reading", "unlink"}

TableInit ==
  /\ pc = [t \in Thread |-> "closed"]
  /\ want \in [Thread -> InodeSector]
  /\ ptr = [t \in Thread |-> NULL]
  /\ open_list = {} /\ allocated = {}
  /\ inode = [i \in Inode |-> [sector |-> NULL, open_cnt |-> 0, read |-> FALSE]]
  /\ filesys_lock = NULL /\ met = FALSE

\* lock_acquire (&filesys_lock) before a system call touches the table; the
\* lock goes with the step that ends the call.
MayEnter(t) == t \in Locker => filesys_lock = NULL
OwnerAfterEntry(t) == IF t \in Locker THEN t ELSE filesys_lock
OwnerAfterReturn(t) == IF t \in Locker THEN NULL ELSE filesys_lock

\* A call that begins notes whether another is under way.
Meets(t) == met' = (met \/ \E u \in Thread \ {t} : pc[u] \in Inside)

\* Mutant: the list is not searched.
SearchNot(t) ==
  /\ pc[t] = "closed" /\ MayEnter(t) /\ Meets(t)
  /\ filesys_lock' = OwnerAfterEntry(t)
  /\ pc' = [pc EXCEPT ![t] = "alloc"]
  /\ UNCHANGED <<want, ptr, open_list, allocated, inode>>

\* inode_open: the search.
Search(t) ==
  /\ pc[t] = "closed" /\ MayEnter(t) /\ Meets(t)
  /\ filesys_lock' = OwnerAfterEntry(t)
  /\ \/ \E i \in open_list : /\ inode[i].sector = want[t]
                               /\ ptr' = [ptr EXCEPT ![t] = i]
                               /\ pc' = [pc EXCEPT ![t] = "found"]
     \/ /\ \A i \in open_list : inode[i].sector # want[t]
        /\ pc' = [pc EXCEPT ![t] = "alloc"]
        /\ UNCHANGED ptr
  /\ UNCHANGED <<want, open_list, allocated, inode>>

inode_reopen(t) ==
  /\ pc[t] = "found"
  /\ inode' = [inode EXCEPT ![ptr[t]].open_cnt = @ + 1]
  /\ pc' = [pc EXCEPT ![t] = "open"]
  /\ filesys_lock' = OwnerAfterReturn(t)
  /\ UNCHANGED <<want, ptr, open_list, allocated, met>>

\* malloc, then list_push_front; without memory inode_open fails.
Push(t) ==
  /\ pc[t] = "alloc"
  /\ \/ \E i \in Inode \ allocated :
          /\ allocated' = allocated \cup {i}
          /\ open_list' = open_list \cup {i}
          /\ ptr' = [ptr EXCEPT ![t] = i]
          /\ pc' = [pc EXCEPT ![t] = "pushed"]
          /\ UNCHANGED filesys_lock
     \/ /\ pc' = [pc EXCEPT ![t] = "closed"]
        /\ filesys_lock' = OwnerAfterReturn(t)
        /\ UNCHANGED <<allocated, open_list, ptr>>
  /\ UNCHANGED <<want, inode, met>>

Initialize(t) ==
  /\ pc[t] = "pushed"
  /\ inode' = [inode EXCEPT ![ptr[t]] = [sector |-> want[t], open_cnt |-> 1, read |-> FALSE]]
  /\ pc' = [pc EXCEPT ![t] = "reading"]
  /\ UNCHANGED <<want, ptr, open_list, allocated, filesys_lock, met>>

\* block_read returns, and inode_open with it.
Read(t) ==
  /\ pc[t] = "reading"
  /\ inode' = [inode EXCEPT ![ptr[t]].read = TRUE]
  /\ pc' = [pc EXCEPT ![t] = "open"]
  /\ filesys_lock' = OwnerAfterReturn(t)
  /\ UNCHANGED <<want, ptr, open_list, allocated, met>>

\* inode_close: the count, and for the last opener the list and the memory.
\* A closed thread opens the same or another sector next.
Close(t) ==
  /\ pc[t] = "open" /\ MayEnter(t) /\ Meets(t)
  /\ inode' = [inode EXCEPT ![ptr[t]].open_cnt = @ - 1]
  /\ IF inode[ptr[t]].open_cnt = 1
     THEN /\ pc' = [pc EXCEPT ![t] = "unlink"]
          /\ filesys_lock' = OwnerAfterEntry(t)
          /\ UNCHANGED <<want, ptr>>
     ELSE /\ pc' = [pc EXCEPT ![t] = "closed"]
          /\ ptr' = [ptr EXCEPT ![t] = NULL]
          /\ \E s \in InodeSector : want' = [want EXCEPT ![t] = s]
          /\ UNCHANGED filesys_lock
  /\ UNCHANGED <<open_list, allocated>>

Unlink(t) ==
  /\ pc[t] = "unlink"
  /\ open_list' = open_list \ {ptr[t]}
  /\ allocated' = allocated \ {ptr[t]}
  /\ ptr' = [ptr EXCEPT ![t] = NULL]
  /\ pc' = [pc EXCEPT ![t] = "closed"]
  /\ \E s \in InodeSector : want' = [want EXCEPT ![t] = s]
  /\ filesys_lock' = OwnerAfterReturn(t)
  /\ UNCHANGED <<inode, met>>

TableNext ==
  \E t \in Thread : \/ Search(t) \/ inode_reopen(t) \/ Push(t) \/ Initialize(t)
                    \/ Read(t) \/ Close(t) \/ Unlink(t)

TableSpec == TableInit /\ [][TableNext]_tableVars
-----------------------------------------------------------------------------
\* An inode that a thread is taking apart or has not finished setting up.
InTransit(i) == \E t \in Thread : ptr[t] = i /\ pc[t] \in {"pushed", "unlink"}

\* Opening one inode twice returns the same struct inode: no two live inodes on
\* the list are for the same sector (inode_open, open_list).
OneInodePerSector ==
  \A i, j \in open_list : i # j /\ ~InTransit(i) /\ ~InTransit(j)
                              => inode[i].sector # inode[j].sector

\* Whoever has inode_open's result holds an inode in memory, of the sector
\* asked for, whose data has been read, and is counted (inode_open, inode_close).
OpenMeansReady ==
  \A t \in Thread : pc[t] = "open" =>
    /\ ptr[t] \in allocated
    /\ inode[ptr[t]].sector = want[t]
    /\ inode[ptr[t]].read
    /\ inode[ptr[t]].open_cnt = Cardinality({u \in Thread : pc[u] = "open" /\ ptr[u] = ptr[t]})

\* Calls that hold filesys_lock never meet on the table, and as long as none
\* has met a call of load() or process_exit(), which do not hold it, the table
\* is sound, whoever opens and closes.
OpenInodesSound ==
  /\ \A t, u \in Locker : pc[t] \in Inside /\ pc[u] \in Inside => t = u
  /\ ~met => OneInodePerSector /\ OpenMeansReady
=============================================================================
