------------------------------- MODULE Vaddr --------------------------------
(***************************************************************************)
(* The address space of threads/vaddr.h: AddrCnt bytes in pages, of which  *)
(* a process has those below PHYS_BASE.                                    *)
(***************************************************************************)
EXTENDS Naturals

CONSTANTS AddrCnt,     \* 2^32 in the code
          PHYS_BASE,   \* first kernel address
          PGSIZE

\* PHYS_BASE is the start of a page and neither of the first two, and the kernel
\* has at least a page of the address space.
ASSUME VaddrAssumption ==
  /\ PGSIZE \in Nat \ {0}
  /\ AddrCnt \in Nat /\ PHYS_BASE \in Nat
  /\ PHYS_BASE % PGSIZE = 0 /\ PHYS_BASE >= 2 * PGSIZE
  /\ PHYS_BASE + PGSIZE <= AddrCnt

Addr == 0 .. AddrCnt - 1

\* Addresses are unsigned and wrap around.
Plus(a, b) == (a + b) % AddrCnt

is_user_vaddr(a) == a < PHYS_BASE
=============================================================================
