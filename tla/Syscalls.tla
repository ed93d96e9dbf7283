------------------------------ MODULE Syscalls ------------------------------
(***************************************************************************)
(* How the arguments of a system call travel: the wrappers of              *)
(* lib/user/syscall.c push them, syscall_handler of userprog/syscall.c     *)
(* validates words of the user stack and fetches the arguments, and        *)
(* sys_write validates the pages of its buffer.                            *)
(*                                                                         *)
(* Addresses are bytes of an address space of AddrCnt bytes that wraps, as *)
(* 32-bit pointers do.  The stack is known by the words at and above esp;  *)
(* the wrappers are compiled without a frame of their own, which is what   *)
(* the handler's offsets 4 to 7 rely on: above the pushed words are the    *)
(* return address and the wrapper's own parameters.                        *)
(***************************************************************************)
EXTENDS Naturals, Sequences, Vaddr

CONSTANTS Mapped,      \* user pages in the page directory
          Number       \* values of arguments that are not pointers

VARIABLES syscall,  \* the call a user program makes
          result    \* what the handler makes of it
syscallVars == <<syscall, result>>

is_valid_ptr(p) == p # 0 /\ is_user_vaddr(p) /\ p \div PGSIZE \in Mapped

\* The wrappers, by the kinds of their arguments.
Wrapper ==
  [halt |-> <<>>, exit |-> <<Number>>, exec |-> <<Addr>>, wait |-> <<Number>>,
   create |-> <<Addr, Number>>, remove |-> <<Addr>>, open |-> <<Addr>>,
   filesize |-> <<Number>>, read |-> <<Number, Addr, Addr>>, write |-> <<Number, Addr, Addr>>,
   seek |-> <<Number, Number>>, tell |-> <<Number>>, close |-> <<Number>>,
   mmap |-> <<Number, Addr>>, munmap |-> <<Number>>]
Nr == DOMAIN Wrapper
Args(nr) == {a \in [1 .. Len(Wrapper[nr]) -> Addr] : \A i \in DOMAIN a : a[i] \in Wrapper[nr][i]}

\* The words from esp up: syscall0 .. syscall3 push number and arguments; then
\* the return address, the wrapper's parameters and the caller's frame.
Stack(c) == <<c.nr>> \o c.args \o <<"return">> \o c.args \o c.frame
Word(c, i) == Stack(c)[i + 1]

\* Mutant: every argument is taken one word too high.
HandlerHigh == [nr \in Nr |-> [words |-> {}, ptrs |-> {},
                                  args |-> [i \in DOMAIN Wrapper[nr] |-> Len(Wrapper[nr]) + 2 + i]]]

\* syscall_handler: the words whose address is checked, those whose content is
\* checked as a pointer, and those fetched as arguments.
Handler ==
  [halt     |-> [words |-> {},        ptrs |-> {},  args |-> <<>>],
   exit     |-> [words |-> {1},       ptrs |-> {},  args |-> <<1>>],
   wait     |-> [words |-> {1},       ptrs |-> {},  args |-> <<1>>],
   create   |-> [words |-> {4, 5},    ptrs |-> {4}, args |-> <<4, 5>>],
   remove   |-> [words |-> {4},       ptrs |-> {4}, args |-> <<1>>],
   write    |-> [words |-> {5, 6, 7}, ptrs |-> {6}, args |-> <<5, 6, 7>>],
   read     |-> [words |-> {5, 6, 7}, ptrs |-> {6}, args |-> <<5, 6, 7>>],
   seek     |-> [words |-> {4, 5},    ptrs |-> {},  args |-> <<4, 5>>],
   tell     |-> [words |-> {1},       ptrs |-> {},  args |-> <<1>>],
   exec     |-> [words |-> {1},       ptrs |-> {1}, args |-> <<1>>],
   open     |-> [words |-> {1},       ptrs |-> {1}, args |-> <<1>>],
   filesize |-> [words |-> {1},       ptrs |-> {},  args |-> <<1>>],
   close    |-> [words |-> {1},       ptrs |-> {},  args |-> <<1>>],
   mmap     |-> [words |-> {},        ptrs |-> {},  args |-> <<1, 2>>],
   munmap   |-> [words |-> {},        ptrs |-> {},  args |-> <<1>>]]

\* The handler's own check of a buffer: its first and its last byte.
EndsValid(buffer, size) ==
  is_valid_ptr(buffer) /\ is_valid_ptr(Plus(Plus(buffer, size), AddrCnt - 1))

\* sys_write walks the buffer page by page and looks at its last byte.
Visited(buffer, size) ==
  {Plus(buffer, k * PGSIZE) : k \in {i \in 0 .. size : i = 0 \/ i * PGSIZE < size}}
    \cup (IF size = 0 THEN {} ELSE {Plus(Plus(buffer, size), AddrCnt - 1)})

\* What becomes of a call whose first c.mapped stack words are mapped.
Outcome(c) ==
  LET h == Handler[c.nr]
      used == {h.args[i] : i \in DOMAIN h.args}
      args == [i \in DOMAIN h.args |-> Word(c, h.args[i])]
      buffered == c.nr \in {"read", "write"}
      refused == \/ c.mapped = 0
                 \/ \E i \in h.words : i >= c.mapped
                 \/ \E i \in h.ptrs : ~is_valid_ptr(Word(c, i))
                 \/ buffered /\ ~EndsValid(Word(c, 6), Word(c, 7))
                 \/ c.nr = "write" /\ \E p \in Visited(args[2], args[3]) : ~is_valid_ptr(p)
  IN IF refused THEN [what |-> "exit", args |-> <<>>]
     ELSE IF \E i \in used : i >= c.mapped THEN [what |-> "fault", args |-> <<>>]
     ELSE [what |-> "call", args |-> args]

NoCall == [nr |-> "none", args |-> <<>>, frame |-> <<>>, mapped |-> 0]

\* The program runs.
SyscallsInit == syscall = NoCall /\ result = [what |-> "none", args |-> <<>>]

\* It calls a wrapper; the words of its own frame hold anything.
Int30(nr) ==
  /\ syscall = NoCall
  /\ \E args \in Args(nr), junk \in Number, mapped \in 0 .. Len(Wrapper[nr]) + 6 :
       /\ syscall' = [nr |-> nr, args |-> args, frame |-> <<junk, junk, junk, junk>>,
                      mapped |-> mapped]
       /\ result' = Outcome(syscall')

\* The handler returns to the program, or to the next one.
ReturnToUser ==
  /\ syscall # NoCall
  /\ syscall' = NoCall
  /\ result' = [what |-> "none", args |-> <<>>]

SyscallsNext == ReturnToUser \/ \E nr \in Nr : Int30(nr)
SyscallsSpec == SyscallsInit /\ [][SyscallsNext]_syscallVars
-----------------------------------------------------------------------------
Pointers(c) == {c.args[i] : i \in {j \in DOMAIN c.args : Wrapper[c.nr][j] = Addr}}
WholeStack(c) == c.nr # "none" /\ c.mapped = Len(c.args) + 6

\* Every byte of a buffer, the addresses wrapping as the machine's do.
Bytes(buffer, size) == {Plus(buffer, k) : k \in 0 .. size} \ {Plus(buffer, size)}

\* Whatever call reaches its implementation has exactly the arguments the
\* program passed to the wrapper: the pushed words and the wrapper's own
\* parameters, which the handler takes from different places, agree.
ArgsIntact == result.what = "call" => result.args = syscall.args

\* A call made with a mapped stack and valid arguments reaches its
\* implementation.  (read and write take a buffer of at least a byte.  remove
\* is checked on its own, below: a word of the caller's frame decides.)
ArgsArrive ==
  LET c == syscall
      valid == IF c.nr \in {"read", "write"}
               THEN c.args[3] > 0 /\ c.args[3] < AddrCnt - PHYS_BASE
                    /\ \A b \in Bytes(c.args[2], c.args[3]) : is_valid_ptr(b)
               ELSE c.nr = "mmap" \/ \A p \in Pointers(c) : is_valid_ptr(p)
  IN WholeStack(c) /\ c.nr # "remove" /\ valid => result.what = "call"

\* create, open and exec get on only with a valid pointer, sys_write only with
\* a buffer every byte of which is in a mapped user page, and sys_read with one
\* whose ends are: the pages between it brings in itself, and mmap's address is
\* meant to be unmapped (both in UserMemory).
BadPointersRejected ==
  result.what = "call" =>
    /\ syscall.nr \in {"create", "open", "exec"} => is_valid_ptr(result.args[1])
    /\ syscall.nr = "write" => \A b \in Bytes(result.args[2], result.args[3]) : is_valid_ptr(b)
    /\ syscall.nr = "read" => EndsValid(result.args[2], result.args[3])

\* syscall_handler: every call that reaches its implementation has the
\* arguments the program passed, a valid one does reach it, and none but remove
\* goes on with a pointer that is_valid_ptr rejects.
CallsArrive == ArgsIntact /\ ArgsArrive /\ BadPointersRejected

\* "All of these types of invalid pointers must be rejected" (is_valid_ptr), the
\* name of the file to remove included.  The handler does not reject it.
RemoveRejectsBadPointer ==
  result.what = "call" /\ syscall.nr = "remove" => is_valid_ptr(result.args[1])
=============================================================================
