----------------------------- MODULE UserMemory -----------------------------
(***************************************************************************)
(* The address space of one process after load(): mmap and munmap of       *)
(* syscall.c with mmfiles_insert of process.c, the supplemental page table *)
(* of vm/page.c, the page fault handler of exception.c and the pages       *)
(* sys_read brings in for its buffer.                                      *)
(*                                                                         *)
(* load_segment fills its pages at once and nothing is ever swapped out,   *)
(* so every supplemental page entry is of type MMF.  The table of mapped   *)
(* files is never initialised (start_process initialises suppl_page_table  *)
(* only): its hash function is a null pointer, and calling it is a page    *)
(* fault at address NULL, which ends the process.                          *)
(***************************************************************************)
EXTENDS Naturals, FiniteSets, Kernel

CONSTANTS PageCnt,    \* user pages, 0 .. PageCnt - 1, the stack the last; then the kernel's
          StackLow,   \* lowest page within STACK_SIZE of PHYS_BASE
          File,       \* files the process has open
          Pages,      \* length of every file, in pages
          MaxMap      \* bound: struct files made by mmap

ASSUME UserMemoryAssumption ==
  PageCnt \in Nat \ {0} /\ Pages \in Nat \ {0} /\ NULL # "stack"

VARIABLES spt,        \* suppl_page_table: function from pages to entries
          installed,  \* [Page -> content of its frame, or NULL]
          mapid,      \* mapid_allocator
          reopened,   \* struct files mmap made and nobody has closed
          state       \* "runs", "exit(-1)", "killed" or "panic"

memVars == <<spt, installed, mapid, reopened, state>>
Page == 0 .. PageCnt - 1
Alive == state = "runs"

UserMemoryInit ==
  /\ spt = [v \in {} |-> NULL]
  /\ installed = [v \in Page |-> IF v = PageCnt - 1 THEN "stack" ELSE NULL]
  /\ mapid = 0 /\ reopened = 0
  /\ state = "runs"

\* process_exit: pages, directory and entries go.
Ends(how) ==
  /\ state' = how
  /\ installed' = [v \in Page |-> NULL]
  /\ spt' = [v \in {} |-> NULL]

\* Mutant: only the first page is checked.
VacantFirst(start) == start \notin DOMAIN spt /\ installed[start] = NULL

\* mmap's check of every page of the range, from the lowest.  A range that goes
\* on into the kernel's pages is refused at the stack.
Vacant(start) ==
  \A v \in (start .. start + Pages - 1) \cap Page : v \notin DOMAIN spt /\ installed[v] = NULL

\* mmfiles_insert: there is no memory for the mapping; or n entries go in, there
\* is none for the next one, and the call fails with the n entries in place; or
\* all are in, and hash_insert into the mapped files follows the null pointer.
mmfiles_insert(f, start) ==
  \/ UNCHANGED <<spt, installed, mapid, state>>
  \/ /\ mapid' = mapid + 1
     /\ \/ \E n \in 0 .. Pages - 1 :
             /\ spt' = [v \in DOMAIN spt \cup (start .. start + n - 1) |->
                          IF v \in DOMAIN spt THEN spt[v]
                          ELSE [file |-> f, ofs |-> v - start, loaded |-> FALSE]]
             /\ UNCHANGED <<installed, state>>
        \/ Ends("exit(-1)")

\* mmap.  pagedir_get_page asserts that the address is a user's.
mmap(f, start) ==
  /\ Alive /\ reopened < MaxMap /\ start # 0
  /\ \/ /\ start \in Page /\ Vacant(start)
        /\ reopened' = reopened + 1
        /\ mmfiles_insert(f, start)
     \/ start \notin Page /\ state' = "panic" /\ UNCHANGED <<spt, installed, mapid, reopened>>

\* munmap: hash_delete on the mapped files calls the null hash function.
munmap == Alive /\ Ends("exit(-1)") /\ UNCHANGED <<mapid, reopened>>

\* load_page of an MMF entry, when there is a frame.
load_page_mmf(v) ==
  /\ installed' = [installed EXCEPT ![v] = <<spt[v].file, spt[v].ofs>>]
  /\ spt' = [spt EXCEPT ![v].loaded = TRUE]

\* A page of sys_read's buffer that is not in the page directory.  load_page may
\* fail: the page is then still missing when file_read stores in it (page_fault).
sys_read(v) ==
  /\ Alive /\ installed[v] = NULL
  /\ v \in DOMAIN spt /\ ~spt[v].loaded
  /\ load_page_mmf(v) \/ UNCHANGED <<spt, installed>>
  /\ UNCHANGED <<state, mapid, reopened>>

\* The same, of a page without such an entry.  The look at spte->loaded of a
\* missing entry is a fault below the first user page.
sys_readNothing(v) ==
  /\ Alive /\ installed[v] = NULL /\ ~(v \in DOMAIN spt /\ ~spt[v].loaded)
  /\ Ends("exit(-1)") /\ UNCHANGED <<mapid, reopened>>

\* page_fault on a missing page; near: the address is not below f->esp - 32.
\* A page that was brought in, or a stack that was grown, is no reason to
\* return: the handler goes on to kill (f), which ends the process, or the
\* kernel if the fault was the kernel's.
Served(v, near) ==
  \/ v \in DOMAIN spt /\ ~spt[v].loaded
  \/ v \notin DOMAIN spt /\ near /\ v >= StackLow
page_fault(v, near, user) ==
  /\ Alive /\ installed[v] = NULL
  /\ IF v # 0 /\ Served(v, near)
     THEN \/ user /\ Ends("killed")
          \/ ~user /\ state' = "panic" /\ UNCHANGED <<spt, installed>>
     ELSE Ends("exit(-1)")
  /\ UNCHANGED <<mapid, reopened>>

UserMemoryNext ==
  \/ \E f \in File, v \in 0 .. PageCnt : mmap(f, v)
  \/ munmap
  \/ \E v \in Page : sys_read(v) \/ sys_readNothing(v)
  \/ \E v \in Page, near, user \in BOOLEAN : page_fault(v, near, user)

UserMemorySpec == UserMemoryInit /\ [][UserMemoryNext]_memVars
-----------------------------------------------------------------------------
\* What failed mmaps leave behind stays coherent: the entries of one attempt
\* are the first pages of one file, in order and never all of them, an entry is
\* loaded exactly if its page is in the page directory, with that page of the
\* file, and the stack is never covered (mmap, mmfiles_insert, load_page_mmf).
\* Every attempt that left entries has a mapid and a struct file of its own,
\* and that stays open: no failure and no exit closes it.
MappingsSound ==
  /\ \A v \in DOMAIN spt :
       /\ spt[v].ofs < Pages - 1
       /\ spt[v].ofs > 0 => /\ v - 1 \in DOMAIN spt
                            /\ spt[v - 1].file = spt[v].file /\ spt[v - 1].ofs = spt[v].ofs - 1
       /\ installed[v] = IF spt[v].loaded THEN <<spt[v].file, spt[v].ofs>> ELSE NULL
  /\ \A v \in Page \ DOMAIN spt : installed[v] \in {NULL, "stack"}
  /\ Alive => installed[PageCnt - 1] = "stack"
  /\ Cardinality({v \in DOMAIN spt : spt[v].ofs = 0}) <= mapid /\ mapid <= reopened
=============================================================================
