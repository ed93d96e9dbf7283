------------------------------ MODULE FdTable -------------------------------
(***************************************************************************)
(* The file system calls of userprog/syscall.c that go through a           *)
(* process's list of descriptors, and what exit does to that list.  Every  *)
(* call runs under filesys_lock; the list is the process's own.            *)
(*                                                                         *)
(* The length of a file is fixed and a transfer moves positions only: the  *)
(* bytes are InodeIO's, names and removal are FileSys's.                   *)
(***************************************************************************)
EXTENDS Naturals, Sequences, FiniteSets, Kernel

CONSTANTS Proc, Inode,
          Length,      \* bytes in every file
          Fd,          \* descriptor numbers programs use
          Sentinel,    \* what stands where fd_num would be in front of the list's
                       \* own head and tail: the thread's priority and a pointer
          MaxFd,       \* bound: no more opens once next_fd is this
          Habits       \* what programs may do: "close_any" descriptor, not only
                       \* the oldest; pass a name that runs into an unmapped
                       \* page ("name_fault"); read the keyboard ("stdin")

ASSUME FdTableAssumption == Length \in Nat /\ NULL \notin Inode /\ NULL \notin Proc /\ NULL # [op |-> "exit"]

VARIABLES open_files,  \* [Proc -> sequence of [fd_num, file, pos]]
          next_fd,     \* [Proc -> Nat]
          call,        \* [Proc -> the call in progress or NULL]
          alive,       \* [Proc -> BOOLEAN]
          filesys_lock,\* holder or NULL
          open_cnt,    \* [Inode -> struct files open on it]: inode's open_cnt
          wild         \* kernel memory has been taken for a struct file

fdVars == <<open_files, next_fd, call, alive, filesys_lock, open_cnt, wild>>
STDIN_FILENO == 0
STDOUT_FILENO == 1

\* thread_create: no descriptors, the first will be 2.
FdTableInit ==
  /\ open_files = [p \in Proc |-> <<>>]
  /\ next_fd = [p \in Proc |-> 2]
  /\ call = [p \in Proc |-> NULL]
  /\ alive = [p \in Proc |-> TRUE]
  /\ filesys_lock = NULL
  /\ open_cnt = [f \in Inode |-> 0]
  /\ wild = FALSE

\* The index of the descriptor, as a set of one or none.  The loop also looks
\* at the list's head, first of all, and at its tail, which are no descriptors:
\* index 0.
retrieve_file(p, fd) ==
  IF fd \in Sentinel THEN {0} ELSE {i \in DOMAIN open_files[p] : open_files[p][i].fd_num = fd}

\* A program makes a call and waits for filesys_lock.
Calls(p) ==
  [op : {"open"}, file : Inode \cup {NULL}] \cup [op : {"filesize", "tell"}, fd : Fd]
  \cup [op : {"seek"}, fd : Fd, pos : {0, Length + 1}]
  \cup [op : {"read", "write"}, fd : Fd \cup {STDOUT_FILENO}, size : {1}]
  \cup (IF "stdin" \in Habits THEN [op : {"read"}, fd : {STDIN_FILENO}, size : {1}] ELSE {})
  \cup (IF "name_fault" \in Habits THEN [op : {"bad_name"}] ELSE {})
  \cup {c \in [op : {"close"}, fd : Fd] :
          "close_any" \in Habits \/ \A i \in retrieve_file(p, c.fd) : i <= 1}

Enter(p) ==
  /\ ~wild /\ alive[p] /\ call[p] = NULL
  /\ \E c \in Calls(p) :
       /\ c.op = "open" => next_fd[p] < MaxFd
       /\ call' = [call EXCEPT ![p] = c]
  /\ UNCHANGED <<open_files, next_fd, alive, filesys_lock, open_cnt, wild>>

lock_acquire(p) ==
  /\ ~wild /\ alive[p] /\ call[p] # NULL /\ call[p].op # "exit" /\ filesys_lock = NULL
  /\ filesys_lock' = p
  /\ UNCHANGED <<open_files, next_fd, call, alive, open_cnt, wild>>

Inside(p, op) == ~wild /\ filesys_lock = p /\ alive[p] /\ call[p] # NULL /\ call[p].op = op

\* lock_release and return.
Leave(p) == filesys_lock' = NULL /\ call' = [call EXCEPT ![p] = NULL] /\ UNCHANGED alive

\* sys_open; a NULL file stands for a name that filesys_open does not find.
sys_open(p) ==
  /\ Inside(p, "open")
  /\ LET f == call[p].file
     IN IF f = NULL THEN UNCHANGED <<open_files, next_fd, open_cnt>>
        ELSE /\ open_files' = [open_files EXCEPT ![p] =
                  Append(@, [fd_num |-> next_fd[p], file |-> f, pos |-> 0])]
             /\ next_fd' = [next_fd EXCEPT ![p] = @ + 1]
             /\ open_cnt' = [open_cnt EXCEPT ![f] = @ + 1]
  /\ Leave(p) /\ UNCHANGED wild

\* exit: a call in progress is abandoned where it is, with what it holds.
Exit(p) ==
  /\ call' = [call EXCEPT ![p] = [op |-> "exit"]]
  /\ UNCHANGED <<open_files, next_fd, alive, filesys_lock, wild>>

\* sys_open without memory for the descriptor: its stores through the null
\* pointer fault, the process exits, and the struct file belongs to nobody.
OpenWithoutMemory(p) ==
  /\ Inside(p, "open") /\ call[p].file # NULL
  /\ open_cnt' = [open_cnt EXCEPT ![call[p].file] = @ + 1]
  /\ Exit(p)

\* sys_filesize and sys_tell only look.
Look(p) ==
  /\ Inside(p, "filesize") \/ Inside(p, "tell")
  /\ UNCHANGED <<open_files, next_fd, open_cnt, wild>>
  /\ Leave(p)

\* file_seek, file_read and file_write on what is no struct file change memory
\* that is not theirs.
Astray(p) == wild' = (0 \in retrieve_file(p, call[p].fd))

sys_seek(p) ==
  /\ Inside(p, "seek")
  /\ open_files' = [open_files EXCEPT ![p] =
       [i \in DOMAIN @ |-> IF i \in retrieve_file(p, call[p].fd)
                           THEN [@[i] EXCEPT !.pos = call[p].pos] ELSE @[i]]]
  /\ Astray(p)
  /\ UNCHANGED <<next_fd, open_cnt>>
  /\ Leave(p)

\* file_read and file_write: bytes moved from a position, files do not grow.
Moved(pos, size) ==
  IF pos >= Length THEN 0 ELSE IF size < Length - pos THEN size ELSE Length - pos
Advanced(d, size) == [d EXCEPT !.pos = d.pos + Moved(d.pos, size)]

\* sys_read and sys_write; 0 and 1 are no descriptors of the list.
sys_transfer(p) ==
  /\ Inside(p, "read") \/ Inside(p, "write")
  /\ call[p].fd # STDIN_FILENO
  /\ open_files' = [open_files EXCEPT ![p] =
       [i \in DOMAIN @ |-> IF i \in retrieve_file(p, call[p].fd)
                           THEN Advanced(@[i], call[p].size) ELSE @[i]]]
  /\ Astray(p)
  /\ UNCHANGED <<next_fd, open_cnt>>
  /\ Leave(p)

\* sys_read from the keyboard waits, with the lock, until a key comes.
KeyPressed(p) ==
  /\ Inside(p, "read") /\ call[p].fd = STDIN_FILENO
  /\ UNCHANGED <<open_files, next_fd, open_cnt, wild>>
  /\ Leave(p)

\* close_extra_files steps back to the list head after every element, so its
\* loop ends only if the first element is the one to close.
close_extra_files(p, fd) ==
  /\ open_files[p][1].fd_num = fd
  /\ open_files' = [open_files EXCEPT ![p] = Tail(@)]
  /\ open_cnt' = [open_cnt EXCEPT ![open_files[p][1].file] = @ - 1]

\* The head and the tail do not have the process for owner.
sys_close(p) ==
  /\ Inside(p, "close")
  /\ IF retrieve_file(p, call[p].fd) \subseteq {0} THEN UNCHANGED <<open_files, open_cnt>>
     ELSE close_extra_files(p, call[p].fd)
  /\ UNCHANGED <<next_fd, wild>>
  /\ Leave(p)

Exiting(p) == ~wild /\ alive[p] /\ call[p] # NULL /\ call[p].op = "exit"

\* Mutant: a turn forgets file_close.
close_thread_filesFew(p) ==
  /\ Exiting(p) /\ open_files[p] # <<>>
  /\ open_files' = [open_files EXCEPT ![p] = SubSeq(@, 1, Len(@) - 1)]
  /\ UNCHANGED <<next_fd, call, alive, filesys_lock, open_cnt, wild>>

\* A turn of the loop, from the tail and without filesys_lock.
close_thread_files(p) ==
  /\ Exiting(p) /\ open_files[p] # <<>>
  /\ LET n == Len(open_files[p])
     IN /\ open_files' = [open_files EXCEPT ![p] = SubSeq(@, 1, n - 1)]
        /\ open_cnt' = [open_cnt EXCEPT ![open_files[p][n].file] = @ - 1]
  /\ UNCHANGED <<next_fd, call, alive, filesys_lock, wild>>

\* The rest of process_exit and thread_exit.
Gone(p) ==
  /\ Exiting(p) /\ open_files[p] = <<>>
  /\ alive' = [alive EXCEPT ![p] = FALSE]
  /\ call' = [call EXCEPT ![p] = NULL]
  /\ UNCHANGED <<open_files, next_fd, filesys_lock, open_cnt, wild>>

\* A program that calls exit, or faults, outside of these calls.
ExitOutside(p) == ~wild /\ alive[p] /\ call[p] = NULL /\ Exit(p) /\ UNCHANGED open_cnt

\* page_fault in the file system, on the unmapped part of a name.
FaultInCall(p) == Inside(p, "bad_name") /\ Exit(p) /\ UNCHANGED open_cnt

Progress(p) ==
  \/ lock_acquire(p) \/ sys_open(p) \/ OpenWithoutMemory(p) \/ Look(p) \/ sys_seek(p) \/ sys_transfer(p)
  \/ sys_close(p) \/ FaultInCall(p) \/ close_thread_files(p) \/ Gone(p)
FdTableNext == \E p \in Proc : Enter(p) \/ Progress(p) \/ KeyPressed(p) \/ ExitOutside(p)

FdTableSpec == FdTableInit /\ [][FdTableNext]_fdVars

\* lock_acquire is served in order (sema_up, Synch), and a thread in the
\* kernel gets the CPU again (ReadyRuns, Threads).
FdTableFairSpec == FdTableSpec /\ \A p \in Proc : SF_fdVars(lock_acquire(p)) /\ WF_fdVars(Progress(p))
-----------------------------------------------------------------------------
\* The elements of the process's list that are struct files on f.
On(p, f) == {i \in DOMAIN open_files[p] : open_files[p][i].file = f}

\* The descriptors, by process and number, that are open on f.
OpenOn(f) == UNION {{<<p, open_files[p][i].fd_num>> : i \in On(p, f)} : p \in Proc}

\* The one struct file that sys_open lost for want of memory, if any: the
\* process that lost it still has filesys_lock, and never gives it back.
Lost(f) ==
  /\ open_cnt[f] = Cardinality(OpenOn(f)) + 1
  /\ \A g \in Inode \ {f} : open_cnt[g] = Cardinality(OpenOn(g))
  /\ \E p \in Proc : filesys_lock = p /\ (alive[p] => call[p] # NULL /\ call[p].op = "exit")

\* Every struct file belongs to exactly one descriptor of one live process, a
\* number names at most one of them, and exit leaves none behind, whatever
\* call it ends in (sys_open, close_extra_files, close_thread_files).  The
\* exception is the one lost by a sys_open without memory, after which no
\* file is opened any more.
DescriptorsMatch ==
  /\ (\A f \in Inode : open_cnt[f] = Cardinality(OpenOn(f))) \/ \E f \in Inode : Lost(f)
  /\ \A p \in Proc : ~alive[p] => open_files[p] = <<>>
  /\ \A p \in Proc : \A i, j \in DOMAIN open_files[p] :
       /\ open_files[p][i].fd_num \in 2 .. next_fd[p] - 1
       /\ i < j => open_files[p][i].fd_num < open_files[p][j].fd_num

\* The descriptors' positions are independent: a step moves at most the one
\* position its caller named, however often the file is open (sys_seek,
\* sys_read, sys_write; sys_open's comment promises it).
PositionsIndependent ==
  \A p \in Proc : \A i \in DOMAIN open_files[p] : \A j \in DOMAIN open_files'[p] :
    LET d == open_files[p][i]
        e == open_files'[p][j]
    IN d.fd_num = e.fd_num /\ d # e =>
         d.file = e.file /\ filesys_lock = p /\ call[p].fd = d.fd_num

\* syscall.c's descriptors: every step leaves each struct file with exactly one
\* descriptor of one live process, also when a process ends in a call, and
\* moves at most the position its caller named; until a call takes the list's
\* head or tail for a descriptor and changes what is no struct file.
DescriptorsSound == [][DescriptorsMatch' /\ PositionsIndependent]_fdVars

\* Every call comes back, or ends its process.
CallsReturn == \A p \in Proc : call[p] # NULL ~> call[p] = NULL
=============================================================================
