----------------------------- MODULE MCUserprog -----------------------------
(***************************************************************************)
(* Small instances of the parts that run a user program: Syscalls, FdTable,*)
(* Load, Argv, UserMemory, FrameTable and Pagedir.  They share no state: a *)
(* behaviour runs one of them, the `subject', and the run covers the       *)
(* behaviours of all.  Argv has v1, v2 and so on for variables; the others *)
(* have their own, which rest when another part is the subject.            *)
(***************************************************************************)
EXTENDS Naturals, Sequences, Syscalls, Load, Pagedir, FrameTable, UserMemory, FdTable

VARIABLES subject, v1, v2, v3, v4, v5, v6

\* One segment with all the ways its numbers can relate to pages, the file and
\* the ends of the address space, or two that may share a page.
Hdr(t, o, v, f, m, w) ==
  [type |-> t, offset |-> o, vaddr |-> v, filesz |-> f, memsz |-> m, writable |-> w]
Single ==
  {<<Hdr("LOAD", o, v, f, m, FALSE)>> :
     o \in 0 .. 10, v \in {2, 4, 5, 6, 11, 12, 19, 20, 21, 24, 26}, f \in {0, 1, 3, 6, 9},
     m \in {0, 1, 3, 6, 10, 27}}
Pairs ==
  {<<Hdr(t, 0, 4, 3, m, FALSE), Hdr("LOAD", 4, v, 3, 4, TRUE)>> :
     t \in {"LOAD", "IGNORED", "DYNAMIC", "SHORT"}, m \in {4, 5}, v \in {4, 8, 12}}
Executables == Single \cup Pairs \cup {<<>>}

\* Up to four words of up to four characters, with which the stack is a full
\* page and not a byte more.
AG == INSTANCE Argv WITH
  PHYS_BASE <- 128, PGSIZE <- 52, Commands <- UNION {[1 .. n -> 1 .. 4] : n \in 1 .. 4},
  words <- v1, pc <- v2, esp <- v3, argv <- v4, i <- v5, stack <- v6

-----------------------------------------------------------------------------
argvVars == <<v1, v2, v3, v4, v5, v6>>
vars == <<subject, argvVars, syscallVars, loadVars, pagedirVars, ftVars, memVars, fdVars>>
Blank == v1 = 0 /\ v2 = 0 /\ v3 = 0 /\ v4 = 0 /\ v5 = 0 /\ v6 = 0

\* Of the parts with variables of their own, at most one leaves its first state.
AtRest ==
  /\ subject # "pagedir" => current = CHOOSE t \in Thread : TRUE
  /\ subject # "load" => phdrs = <<>>
  /\ SyscallsInit /\ LoadInit /\ PagedirInit /\ FrameTableInit /\ UserMemoryInit /\ FdTableInit
Rests(part, itsVars) == subject # part => UNCHANGED itsVars

MCInit ==
  /\ \/ subject = "argv" /\ AG!ArgvInit
     \/ subject \in {"syscalls", "load", "pagedir", "frametable", "usermemory", "fdtable"} /\ Blank
  /\ AtRest

MCNext ==
  /\ \/ subject = "syscalls" /\ SyscallsNext
     \/ subject = "load" /\ LoadNext
     \/ subject = "argv" /\ AG!ArgvNext
     \/ subject = "pagedir" /\ PagedirNext
     \/ subject = "frametable" /\ FrameTableNext
     \/ subject = "usermemory" /\ UserMemoryNext
     \/ subject = "fdtable" /\ FdTableNext
  /\ Rests("argv", argvVars) /\ Rests("syscalls", syscallVars) /\ Rests("load", loadVars)
  /\ Rests("pagedir", pagedirVars) /\ Rests("frametable", ftVars) /\ Rests("usermemory", memVars)
  /\ Rests("fdtable", fdVars)
  /\ UNCHANGED subject

MCSpec == MCInit /\ [][MCNext]_vars

-----------------------------------------------------------------------------
\* setup_stack(): main finds its arguments.
ArgumentsFound == subject = "argv" => AG!MainFindsArguments
=============================================================================
