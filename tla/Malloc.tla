------------------------------- MODULE Malloc -------------------------------
(***************************************************************************)
(* threads/malloc.c: blocks of a few sizes cut out of one-page arenas, and *)
(* big blocks of whole pages.  A descriptor's free list and its arenas'    *)
(* counts change only under the descriptor's lock, so a call is one step.  *)
(***************************************************************************)
EXTENDS Naturals, SequencesExt

CONSTANTS PageCnt,    \* pages of the kernel pool
          PGSIZE,
          HDR,        \* sizeof (struct arena)
          MINSIZE,    \* smallest block size: 16 in the code
          SIZE_MOD,   \* size_t wraps here: 2^32 in the code
          Sizes,      \* arguments of malloc
          Products,   \* pairs of arguments of calloc
          NULL

VARIABLES used,       \* pages allocated from palloc
          arena,      \* [Page -> [desc, free_cnt] or NULL]: the header on a page
          free_list,  \* [block sizes -> sequence of <<page, index>>]
          live        \* blocks given out: [page, idx, asked]
mallocVars == <<used, arena, free_list, live>>

Page == 0 .. PageCnt - 1
\* malloc_init: one descriptor for every size up to half a page.
BlockSizes == {s \in {MINSIZE * 2 ^ i : i \in 0 .. 9} : 2 * s < PGSIZE}
\* Mutant: the header is forgotten.
blocks_per_arenaBare(d) == PGSIZE \div d

blocks_per_arena(d) == (PGSIZE - HDR) \div d
Blocks(a, d) == {<<a, i>> : i \in 0 .. blocks_per_arena(d) - 1}
BIG == 0   \* a->desc = NULL

MallocInit ==
  /\ used = {} /\ live = {}
  /\ arena = [p \in Page |-> NULL]
  /\ free_list = [d \in BlockSizes |-> <<>>]

\* palloc_get_multiple: where n pages fit, lowest first (Palloc).
PlacesFor(n) == {p \in Page : p + n <= PageCnt /\ (p .. p + n - 1) \cap used = {}}

\* DIV_ROUND_UP (size + sizeof *a, PGSIZE), in size_t.
BigPages(n) == (((n + HDR) + PGSIZE - 1) % SIZE_MOD) \div PGSIZE

\* malloc's results as [used, arena, free_list, block]; block is NULL on failure.
MallocBig(n) ==
  LET cnt == BigPages(n)
      p == Min(PlacesFor(cnt))
  IN IF cnt = 0 \/ PlacesFor(cnt) = {}
     THEN [used |-> used, arena |-> arena, free_list |-> free_list, block |-> NULL]
     ELSE [used |-> used \cup (p .. p + cnt - 1),
           arena |-> [arena EXCEPT ![p] = [desc |-> BIG, free_cnt |-> cnt]],
           free_list |-> free_list,
           block |-> [page |-> p, idx |-> 0, asked |-> n]]

\* The free list, with the blocks of a new arena if it was empty.
MallocSmall(n, d) ==
  LET p == Min(PlacesFor(1))
      fresh == free_list[d] = <<>>
      list == IF fresh THEN [i \in 1 .. blocks_per_arena(d) |-> <<p, i - 1>>] ELSE free_list[d]
      a == Head(list)[1]
      cnt == IF fresh THEN blocks_per_arena(d) ELSE arena[a].free_cnt
  IN IF fresh /\ PlacesFor(1) = {}
     THEN [used |-> used, arena |-> arena, free_list |-> free_list, block |-> NULL]
     ELSE [used |-> IF fresh THEN used \cup {p} ELSE used,
           arena |-> [arena EXCEPT ![a] = [desc |-> d, free_cnt |-> cnt - 1]],
           free_list |-> [free_list EXCEPT ![d] = Tail(list)],
           block |-> [page |-> a, idx |-> Head(list)[2], asked |-> n]]

Fitting(n) == {d \in BlockSizes : d >= n}
Malloc(n) == IF Fitting(n) = {} THEN MallocBig(n) ELSE MallocSmall(n, Min(Fitting(n)))

Take(r, asked) ==
  /\ used' = r.used /\ arena' = r.arena /\ free_list' = r.free_list
  /\ live' = IF r.block = NULL THEN live ELSE live \cup {[r.block EXCEPT !.asked = asked]}

malloc(n) == n # 0 /\ Take(Malloc(n), n)

\* calloc: the product wraps; the caller wants a * b bytes.
calloc(a, b) ==
  LET n == (a * b) % SIZE_MOD
  IN /\ n >= a /\ n >= b /\ n # 0
     /\ Take(Malloc(n), a * b)

WithoutArena(list, a) == SelectSeq(list, LAMBDA b : b[1] # a)

\* free: back to the front of the list; an arena with all blocks free goes.
free(b) ==
  /\ b \in live
  /\ live' = live \ {b}
  /\ LET a == b.page
         d == arena[a].desc
         list == <<<<a, b.idx>>>> \o free_list[d]
         cnt == arena[a].free_cnt
     IN \/ /\ d = BIG
           /\ used' = used \ (a .. a + cnt - 1)
           /\ arena' = [arena EXCEPT ![a] = NULL]
           /\ UNCHANGED free_list
        \/ /\ d # BIG /\ cnt + 1 < blocks_per_arena(d)
           /\ free_list' = [free_list EXCEPT ![d] = list]
           /\ arena' = [arena EXCEPT ![a].free_cnt = cnt + 1]
           /\ UNCHANGED used
        \/ /\ d # BIG /\ cnt + 1 >= blocks_per_arena(d)
           /\ free_list' = [free_list EXCEPT ![d] = WithoutArena(list, a)]
           /\ used' = used \ {a}
           /\ arena' = [arena EXCEPT ![a] = NULL]

MallocNext ==
  \/ \E n \in Sizes : malloc(n)
  \/ \E s \in Products : calloc(s[1], s[2])
  \/ \E b \in live : free(b)

MallocSpec == MallocInit /\ [][MallocNext]_mallocVars
-----------------------------------------------------------------------------
\* block_size, and the bytes a block covers.
block_size(b) ==
  LET a == arena[b.page]
  IN IF a.desc # BIG THEN a.desc ELSE PGSIZE * a.free_cnt - HDR
First(b) == PGSIZE * b.page + HDR + b.idx * (IF arena[b.page].desc = BIG THEN 0 ELSE arena[b.page].desc)
Extent(b) == First(b) .. First(b) + block_size(b) - 1

\* Live blocks lie in allocated pages, off every arena header, apart from each
\* other, and apart from the free blocks (malloc, free, block_to_arena's
\* assertions).
BlocksDisjoint ==
  /\ \A b \in live :
       /\ arena[b.page] # NULL
       /\ \A x \in Extent(b) : x \div PGSIZE \in used
       /\ \A p \in Page : arena[p] # NULL => Extent(b) \cap (PGSIZE * p .. PGSIZE * p + HDR - 1) = {}
       /\ \A d \in BlockSizes : \A i \in DOMAIN free_list[d] : free_list[d][i] # <<b.page, b.idx>>
  /\ \A b, c \in live : b # c => Extent(b) \cap Extent(c) = {}

\* Every arena's blocks are live or on its descriptor's free list, once, its
\* count says how many are free, and no arena is kept that nobody uses
\* (malloc, free).
ArenasConsistent ==
  /\ \A d \in BlockSizes : IsInjective(free_list[d])
  /\ \A p \in Page : arena[p] # NULL /\ arena[p].desc # BIG =>
       LET spare == Blocks(p, arena[p].desc) \cap ToSet(free_list[arena[p].desc])
       IN /\ arena[p].free_cnt = Cardinality(spare) /\ arena[p].free_cnt < blocks_per_arena(arena[p].desc)
          /\ Blocks(p, arena[p].desc) = spare \cup {<<b.page, b.idx>> : b \in {x \in live : x.page = p}}
  /\ \A d \in BlockSizes : \A i \in DOMAIN free_list[d] :
       arena[free_list[d][i][1]] # NULL /\ arena[free_list[d][i][1]].desc = d

\* The size, with the header and rounded up to pages, is a size_t.
FitsSizeT(n) == n + HDR + PGSIZE - 1 < SIZE_MOD

\* A block has at least the bytes that were asked for (malloc's comment) if
\* their number does not wrap.  If it does, malloc's sum and calloc's product
\* give a block that is too short, against the comment; no caller in the
\* kernel asks for that much.  The heap stays sound even then.
AtLeastSize == \A b \in live : FitsSizeT(b.asked) => b.asked <= block_size(b)
=============================================================================
