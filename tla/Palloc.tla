------------------------------- MODULE Palloc -------------------------------
(***************************************************************************)
(* A pool of threads/palloc.c, with the bitmap operations it is made of    *)
(* taken bit by bit: an allocation scans and sets used_map under the       *)
(* pool's lock, a release clears bits without it, and threads are          *)
(* preempted between any two bits.  Zeroing and poisoning the pages is     *)
(* left out.                                                               *)
(***************************************************************************)
EXTENDS Naturals, Kernel

CONSTANTS Client,
          page_cnt    \* pages in the pool

ASSUME PallocAssumption == page_cnt \in Nat /\ NULL \notin Client

VARIABLES used_map,   \* pages whose bit is set
          lock,       \* holder of pool->lock, or NULL
          pc,         \* [Client -> where it is in palloc]
          idx, cnt, k,\* [Client -> Nat]: group being worked on, its size, bits done
          groups      \* <<first page, number of pages>> of the groups in use

pallocVars == <<used_map, lock, pc, idx, cnt, k, groups>>
Page == 0 .. page_cnt - 1
Span(first, n) == first .. first + n - 1

PallocInit ==
  /\ used_map = {} /\ lock = NULL /\ groups = {}
  /\ pc = [t \in Client |-> "out"]
  /\ idx = [t \in Client |-> 0]
  /\ cnt = [t \in Client |-> 0]
  /\ k = [t \in Client |-> 0]

\* palloc_get_multiple is called for n pages; for 0 it returns at once.
palloc_get_multiple(t, n) ==
  /\ pc[t] = "out" /\ n > 0
  /\ pc' = [pc EXCEPT ![t] = "lock"]
  /\ cnt' = [cnt EXCEPT ![t] = n]
  /\ UNCHANGED <<used_map, lock, idx, k, groups>>

\* Mutant: the lock is not waited for.
MayLockAlways(t) == pc[t] = "lock"

MayLock(t) == pc[t] = "lock" /\ lock = NULL

\* lock_acquire and the start of bitmap_scan.
lock_acquire(t) ==
  /\ MayLock(t)
  /\ lock' = t
  /\ pc' = [pc EXCEPT ![t] = IF cnt[t] <= page_cnt THEN "scan" ELSE "unlock"]
  /\ idx' = [idx EXCEPT ![t] = 0]
  /\ k' = [k EXCEPT ![t] = 0]
  /\ UNCHANGED <<used_map, cnt, groups>>

\* bitmap_contains looks at one more bit of the group at idx, and the bit is
\* free; behind the last bit of the group bitmap_scan returns.
ScanFree(t) ==
  /\ pc[t] = "scan" /\ idx[t] + k[t] \notin used_map
  /\ IF k[t] + 1 < cnt[t] THEN k' = [k EXCEPT ![t] = @ + 1] /\ UNCHANGED pc
     ELSE k' = [k EXCEPT ![t] = 0] /\ pc' = [pc EXCEPT ![t] = "set"]
  /\ UNCHANGED <<used_map, lock, idx, cnt, groups>>

\* The bit is set: the next group, or none.
ScanUsed(t) ==
  /\ pc[t] = "scan" /\ idx[t] + k[t] \in used_map
  /\ k' = [k EXCEPT ![t] = 0]
  /\ IF idx[t] + 1 + cnt[t] <= page_cnt THEN idx' = [idx EXCEPT ![t] = @ + 1] /\ UNCHANGED pc
     ELSE pc' = [pc EXCEPT ![t] = "unlock"] /\ UNCHANGED idx
  /\ UNCHANGED <<used_map, lock, cnt, groups>>

\* bitmap_set_multiple sets one more bit.
bitmap_mark(t) ==
  /\ pc[t] = "set" /\ k[t] < cnt[t]
  /\ used_map' = used_map \cup {idx[t] + k[t]}
  /\ k' = [k EXCEPT ![t] = @ + 1]
  /\ UNCHANGED <<lock, pc, idx, cnt, groups>>

\* lock_release, and the group is the caller's.
Got(t) ==
  /\ pc[t] = "set" /\ k[t] = cnt[t]
  /\ lock' = NULL
  /\ pc' = [pc EXCEPT ![t] = "out"]
  /\ groups' = groups \cup {<<idx[t], cnt[t]>>}
  /\ UNCHANGED <<used_map, idx, cnt, k>>

\* lock_release, and a null pointer is returned.
Failed(t) ==
  /\ pc[t] = "unlock"
  /\ lock' = NULL
  /\ pc' = [pc EXCEPT ![t] = "out"]
  /\ UNCHANGED <<used_map, idx, cnt, k, groups>>

ClearCnt(g) == g[2]

\* palloc_free_multiple of a group, by any thread.
palloc_free_multiple(t, g) ==
  /\ pc[t] = "out" /\ g \in groups
  /\ pc' = [pc EXCEPT ![t] = "free"]
  /\ idx' = [idx EXCEPT ![t] = g[1]]
  /\ cnt' = [cnt EXCEPT ![t] = ClearCnt(g)]
  /\ k' = [k EXCEPT ![t] = 0]
  /\ groups' = groups \ {g}
  /\ UNCHANGED <<used_map, lock>>

\* bitmap_set_multiple clears one more bit.
bitmap_reset(t) ==
  /\ pc[t] = "free" /\ k[t] < cnt[t]
  /\ used_map' = used_map \ {idx[t] + k[t]}
  /\ k' = [k EXCEPT ![t] = @ + 1]
  /\ UNCHANGED <<lock, pc, idx, cnt, groups>>

Freed(t) ==
  /\ pc[t] = "free" /\ k[t] = cnt[t]
  /\ pc' = [pc EXCEPT ![t] = "out"]
  /\ UNCHANGED <<used_map, lock, idx, cnt, k, groups>>

Inside(t) ==
  \/ lock_acquire(t) \/ ScanFree(t) \/ ScanUsed(t) \/ bitmap_mark(t)
  \/ Got(t) \/ Failed(t) \/ bitmap_reset(t) \/ Freed(t)

PallocNext ==
  \E t \in Client :
    \/ \E n \in 1 .. page_cnt + 1 : palloc_get_multiple(t, n)
    \/ \E g \in groups : palloc_free_multiple(t, g)
    \/ Inside(t)

PallocSpec == PallocInit /\ [][PallocNext]_pallocVars
-----------------------------------------------------------------------------
\* The pages a thread inside palloc answers for: those it has set so far, or
\* has still to clear.
Mine(t) ==
  IF pc[t] = "set" THEN Span(idx[t], k[t])
  ELSE IF pc[t] = "free" THEN Span(idx[t] + k[t], cnt[t] - k[t]) ELSE {}

\* No page is ever in two groups, or in a group and in the hands of a thread
\* that is setting or clearing bits, although bits are cleared without the lock
\* in the middle of other threads' scans; and every page in a group has its bit
\* set, which is what palloc_free_multiple asserts.
NoDoubleAllocation ==
  /\ \A g, h \in groups : g # h => Span(g[1], g[2]) \cap Span(h[1], h[2]) = {}
  /\ \A g \in groups : Span(g[1], g[2]) \subseteq used_map
  /\ \A t \in Client : \A g \in groups : Mine(t) \cap Span(g[1], g[2]) = {}
  /\ \A t, u \in Client : t # u => Mine(t) \cap Mine(u) = {}

\* No page is lost: a bit that is set is in a group, or a thread is working on
\* it.
NoLeak ==
  \A p \in used_map : \/ \E g \in groups : p \in Span(g[1], g[2])
                      \/ \E t \in Client : p \in Mine(t)

\* The two together, which is what callers of palloc rely on.
PagesAccounted == NoDoubleAllocation /\ NoLeak
=============================================================================
