--------------------------- MODULE UserprogProofs ---------------------------
(***************************************************************************)
(* Proofs about the memory and the descriptors of user programs, for any   *)
(* number of threads, processes, pages and files.                          *)
(***************************************************************************)
EXTENDS UserMemory, Pagedir, FdTable, TLAPS

\* A non-empty set of numbers has a least one, as LeastHolds shows.
Least == \A S \in SUBSET Nat : S # {} => \E m \in S : \A t \in S : m <= t

\* What is used of the library's theory of finite sets: descriptors and
\* mappings are counted, one by one.
Counting ==
  /\ IsFiniteSet({}) /\ Cardinality({}) = 0
  /\ \A S : IsFiniteSet(S) => Cardinality(S) \in Nat
  /\ \A S, x : IsFiniteSet(S) /\ x \notin S =>
       IsFiniteSet(S \cup {x}) /\ Cardinality(S \cup {x}) = Cardinality(S) + 1
  /\ \A S, x : IsFiniteSet(S) /\ x \in S =>
       IsFiniteSet(S \ {x}) /\ Cardinality(S \ {x}) = Cardinality(S) - 1

-----------------------------------------------------------------------------
(***************************************************************************)
(* vm/page.c and mmap.                                                     *)
(***************************************************************************)
SuppEntry == [file : File, ofs : Nat, loaded : BOOLEAN]

\* The supplemental page table is a table of pages.
UserMemoryTypeOK ==
  /\ DOMAIN spt \subseteq Page
  /\ spt = [v \in DOMAIN spt |-> spt[v]]
  /\ \A v \in DOMAIN spt : spt[v] \in SuppEntry
  /\ installed = [v \in Page |-> installed[v]]
  /\ mapid \in Nat /\ reopened \in Nat

\* Where the attempts to map begin, as far as they left entries.
Heads == {v \in DOMAIN spt : spt[v].ofs = 0}

UserMemoryInv == UserMemoryTypeOK /\ MappingsSound /\ IsFiniteSet(Heads)

\* The end of a process leaves no entry and no page.
LEMMA EndsKeeps ==
  ASSUME Counting, UserMemoryInv, NEW how, how # "runs", Ends(how),
         mapid' \in Nat, reopened' \in Nat, mapid' <= reopened'
  PROVE  UserMemoryInv'
<1>1. Heads' = {}
  BY Zenon DEF Heads, Ends
<1>2. IsFiniteSet(Heads') /\ Cardinality(Heads') = 0
  BY <1>1, Zenon DEF Counting
<1>3. Cardinality({v \in DOMAIN spt : spt[v].ofs = 0})' <= mapid'
  <2>1. Cardinality({v \in DOMAIN spt : spt[v].ofs = 0})' = 0
    BY <1>2, Zenon DEF Heads
  <2> QED
    BY <2>1
<1>4. UserMemoryTypeOK'
  BY Zenon DEF Ends, UserMemoryTypeOK
<1> QED
  BY <1>2, <1>3, <1>4, Zenon DEF Ends, UserMemoryInv, MappingsSound, Alive

\* An attempt to map adds the first entries of one file to vacant pages.
LEMMA MmapKeeps ==
  ASSUME Counting, UserMemoryInv, NEW f \in File, NEW start \in Page,
         Alive, start # 0, Vacant(start), reopened' = reopened + 1, mmfiles_insert(f, start)
  PROVE  UserMemoryInv'
<1>n. /\ mapid \in Nat /\ reopened \in Nat /\ mapid <= reopened
      /\ UserMemoryTypeOK /\ MappingsSound /\ IsFiniteSet(Heads) /\ Cardinality(Heads) <= mapid
  BY Zenon DEF UserMemoryInv, UserMemoryTypeOK, MappingsSound, Heads
<1>r. /\ reopened' \in Nat /\ mapid <= reopened' /\ mapid + 1 <= reopened'
      /\ mapid + 1 \in Nat
  BY <1>n
<1>s. start + Pages <= PageCnt
  <2>1. /\ start \in Nat /\ start < PageCnt /\ Pages \in Nat \ {0} /\ PageCnt \in Nat \ {0}
        /\ PageCnt - 1 \in Page
    BY UserMemoryAssumption DEF Page
  <2>2. installed[PageCnt - 1] = "stack" /\ "stack" # NULL
    BY UserMemoryAssumption, <1>n, Zenon DEF MappingsSound
  <2>3. PageCnt - 1 \notin start .. start + Pages - 1
    BY <2>1, <2>2, Zenon DEF Vacant
  <2> QED
    BY <2>1, <2>3
<1>0. CASE UNCHANGED <<spt, installed, mapid, state>>
  <2>1. UserMemoryTypeOK'
    BY <1>0, <1>n, <1>r, Zenon DEF UserMemoryTypeOK
  <2>2. MappingsSound'
    BY <1>0, <1>n, <1>r, Zenon DEF MappingsSound, Alive
  <2>3. Heads' = Heads
    BY <1>0, Zenon DEF Heads
  <2> QED
    BY <1>n, <2>1, <2>2, <2>3, Zenon DEF UserMemoryInv
<1>1. CASE \E n \in 0 .. Pages - 1 :
             /\ spt' = [v \in DOMAIN spt \cup (start .. start + n - 1) |->
                          IF v \in DOMAIN spt THEN spt[v]
                          ELSE [file |-> f, ofs |-> v - start, loaded |-> FALSE]]
             /\ UNCHANGED <<installed, state>> /\ mapid' = mapid + 1
  <2>1. PICK n \in 0 .. Pages - 1 :
             /\ spt' = [v \in DOMAIN spt \cup (start .. start + n - 1) |->
                          IF v \in DOMAIN spt THEN spt[v]
                          ELSE [file |-> f, ofs |-> v - start, loaded |-> FALSE]]
             /\ UNCHANGED <<installed, state>> /\ mapid' = mapid + 1
    BY <1>1, Zenon
  <2> DEFINE New == start .. start + n - 1
  <2>2. /\ start \in Nat /\ n \in Nat /\ n <= Pages - 1 /\ start + Pages <= PageCnt
        /\ Pages \in Nat /\ PageCnt \in Nat
    BY <1>s, UserMemoryAssumption DEF Page
  <2>3. New \subseteq Page
    BY <2>2 DEF Page
  <2>4. \A v \in New : v \notin DOMAIN spt /\ installed[v] = NULL
    <3>1. New \subseteq start .. start + Pages - 1
      BY <2>2
    <3> QED
      BY <2>3, <3>1, Zenon DEF Vacant
  <2>5. /\ DOMAIN spt' = DOMAIN spt \cup New
        /\ \A v \in DOMAIN spt : spt'[v] = spt[v]
        /\ \A v \in New : spt'[v] = [file |-> f, ofs |-> v - start, loaded |-> FALSE]
    BY <2>1, <2>4, Zenon
  <2>6. \A v \in New : v - start \in Nat /\ v - start < Pages - 1
    BY <2>2
  <2>7. \A v \in New : v - start > 0 => v - 1 \in New /\ (v - 1) - start = (v - start) - 1
    BY <2>2
  <2> HIDE DEF New
  <2>8. UserMemoryTypeOK'
    <3>1. \A v \in New : spt'[v] \in SuppEntry
      <4>1. \A o \in Nat : [file |-> f, ofs |-> o, loaded |-> FALSE] \in SuppEntry
        BY SMTT(30) DEF SuppEntry
      <4> QED
        BY <2>5, <2>6, <4>1, Zenon
    <3>2. spt' = [v \in DOMAIN spt' |-> spt'[v]]
      BY <2>1, Zenon
    <3>3. installed' = [v \in Page |-> installed'[v]]
      BY <2>1, SMTT(30) DEF UserMemoryInv, UserMemoryTypeOK
    <3> QED
      BY <1>r, <2>1, <2>3, <2>5, <3>1, <3>2, <3>3, Zenon DEF UserMemoryInv, UserMemoryTypeOK
  <2>h. IsFiniteSet(Heads') /\ Cardinality(Heads') <= mapid'
    <3>1. Cardinality(Heads) \in Nat
      BY <1>n, Zenon DEF Counting
    <3>2. \A v \in New : v - start = 0 <=> v = start
      BY <2>2 DEF New
    <3>3. \A v \in New : spt'[v].ofs = v - start
      <4>1. \A o : [file |-> f, ofs |-> o, loaded |-> FALSE].ofs = o
        BY SMT
      <4> QED
        BY <2>5, <4>1, Zenon
    <3>4. CASE start \in New
      <4>1. Heads' = Heads \cup {start} /\ start \notin Heads
        BY <2>4, <2>5, <3>2, <3>3, <3>4, Zenon DEF Heads
      <4>2. IsFiniteSet(Heads') /\ Cardinality(Heads') = Cardinality(Heads) + 1
        BY <1>n, <4>1, Zenon DEF Counting
      <4> QED
        BY <1>n, <2>1, <3>1, <4>2
    <3>5. CASE start \notin New
      <4>1. Heads' = Heads
        BY <2>5, <3>2, <3>3, <3>5, Zenon DEF Heads
      <4> QED
        BY <1>n, <2>1, <3>1, <4>1
    <3> QED
      BY <3>4, <3>5, Zenon
  <2>9. MappingsSound'
    <3>1. ASSUME NEW v \in New
          PROVE  /\ spt'[v].ofs < Pages - 1
                 /\ spt'[v].ofs > 0 =>
                      /\ v - 1 \in DOMAIN spt'
                      /\ spt'[v - 1].file = spt'[v].file /\ spt'[v - 1].ofs = spt'[v].ofs - 1
                 /\ ~spt'[v].loaded /\ installed'[v] = NULL
      BY <2>1, <2>4, <2>5, <2>6, <2>7, Zenon
    <3>2. ASSUME NEW v \in DOMAIN spt
          PROVE  /\ spt'[v].ofs < Pages - 1
                 /\ spt'[v].ofs > 0 =>
                      /\ v - 1 \in DOMAIN spt'
                      /\ spt'[v - 1].file = spt'[v].file /\ spt'[v - 1].ofs = spt'[v].ofs - 1
                 /\ installed'[v] = IF spt'[v].loaded THEN <<spt'[v].file, spt'[v].ofs>> ELSE NULL
      <4>1. spt'[v] = spt[v] /\ installed' = installed
        BY <2>1, <2>5, SMTT(30)
      <4>2. spt[v].ofs > 0 => v - 1 \in DOMAIN spt /\ spt'[v - 1] = spt[v - 1]
        BY <2>5, Zenon DEF UserMemoryInv, MappingsSound
      <4> QED
        BY <2>5, <4>1, <4>2, Zenon DEF UserMemoryInv, MappingsSound
    <3>3. \A v \in Page \ DOMAIN spt' : installed'[v] \in {NULL, "stack"}
      BY <2>1, <2>5, Zenon DEF UserMemoryInv, MappingsSound
    <3>4. Alive' => installed'[PageCnt - 1] = "stack"
      BY <1>n, <2>1, Zenon DEF MappingsSound, Alive
    <3>5. /\ Cardinality({v \in DOMAIN spt : spt[v].ofs = 0})' <= mapid' /\ mapid' <= reopened'
      BY <1>r, <2>1, <2>h, Zenon DEF Heads
    <3> QED
      BY <2>5, <3>1, <3>2, <3>3, <3>4, <3>5, Zenon DEF MappingsSound
  <2> QED
    BY <2>8, <2>9, <2>h, Zenon DEF UserMemoryInv
<1>2. CASE Ends("exit(-1)") /\ mapid' = mapid + 1
  <2>1. "exit(-1)" # "runs"
    OBVIOUS
  <2> QED
    BY <1>2, <1>r, <2>1, EndsKeeps, Zenon
<1> QED
  BY <1>0, <1>1, <1>2, Zenon DEF mmfiles_insert

\* load_page brings in the page an entry stands for.
LEMMA LoadPageKeeps ==
  ASSUME UserMemoryInv, NEW v \in DOMAIN spt, ~spt[v].loaded,
         load_page_mmf(v), UNCHANGED <<state, mapid, reopened>>
  PROVE  UserMemoryInv'
<1> DEFINE e == [spt[v] EXCEPT !.loaded = TRUE]
<1>t. UserMemoryTypeOK /\ v \in Page /\ spt[v] \in SuppEntry
  BY Zenon DEF UserMemoryInv, UserMemoryTypeOK
<1>1. e \in SuppEntry /\ e.file = spt[v].file /\ e.ofs = spt[v].ofs /\ e.loaded
  BY <1>t, Zenon DEF SuppEntry
<1>2. spt' = [spt EXCEPT ![v] = e]
  BY Zenon DEF load_page_mmf
<1>3. installed' = [installed EXCEPT ![v] = <<spt[v].file, spt[v].ofs>>]
  BY Zenon DEF load_page_mmf
<1> HIDE DEF e
<1>4. DOMAIN spt' = DOMAIN spt /\ \A u \in DOMAIN spt : spt'[u] = IF u = v THEN e ELSE spt[u]
  BY <1>t, <1>2, Zenon DEF UserMemoryTypeOK
<1>5. \A u \in Page : installed'[u] = IF u = v THEN <<spt[v].file, spt[v].ofs>> ELSE installed[u]
  BY <1>t, <1>3, Zenon DEF UserMemoryTypeOK
<1>6. UserMemoryTypeOK'
  <2>1. spt' = [u \in DOMAIN spt' |-> spt'[u]]
    BY <1>2, Zenon
  <2>2. installed' = [u \in Page |-> installed'[u]]
    BY <1>3, <1>t, Zenon DEF UserMemoryTypeOK
  <2> QED
    BY <1>t, <1>1, <1>4, <2>1, <2>2, Zenon DEF UserMemoryTypeOK
<1>h. Heads' = Heads
  BY <1>1, <1>4, Zenon DEF Heads
<1>7. MappingsSound'
  <2>1. \A u \in DOMAIN spt : spt'[u].file = spt[u].file /\ spt'[u].ofs = spt[u].ofs
    BY <1>1, <1>4, Zenon
  <2>2. \A u \in DOMAIN spt :
          installed'[u] = IF spt'[u].loaded THEN <<spt'[u].file, spt'[u].ofs>> ELSE NULL
    <3> TAKE u \in DOMAIN spt
    <3>0. u \in Page
      BY <1>t, Zenon DEF UserMemoryTypeOK
    <3>1. CASE u = v
      BY <1>1, <1>4, <1>5, <3>0, <3>1, Zenon
    <3>2. CASE u # v
      BY <1>4, <1>5, <3>0, <3>2, Zenon DEF UserMemoryInv, MappingsSound
    <3> QED
      BY <3>1, <3>2, Zenon
  <2>3. \A u \in Page \ DOMAIN spt' : installed'[u] \in {NULL, "stack"}
    BY <1>4, <1>5, Zenon DEF UserMemoryInv, MappingsSound
  <2>4. Alive' => installed'[PageCnt - 1] = "stack"
    <3>1. Alive => v # PageCnt - 1
      BY UserMemoryAssumption, Zenon DEF UserMemoryInv, MappingsSound
    <3>2. PageCnt - 1 \in Page
      BY UserMemoryAssumption DEF Page
    <3> QED
      BY <1>5, <3>1, <3>2, Zenon DEF UserMemoryInv, MappingsSound, Alive
  <2>5. Cardinality({u \in DOMAIN spt : spt[u].ofs = 0})' <= mapid' /\ mapid' <= reopened'
    <3>1. Cardinality(Heads) <= mapid /\ mapid <= reopened
      BY Zenon DEF UserMemoryInv, MappingsSound, Heads
    <3>2. Cardinality(Heads') <= mapid' /\ mapid' <= reopened'
      BY <1>h, <3>1, Zenon
    <3> QED
      BY <3>2, Zenon DEF Heads
  <2> QED
    BY <1>4, <2>1, <2>2, <2>3, <2>4, <2>5, Zenon DEF UserMemoryInv, MappingsSound
<1> QED
  BY <1>6, <1>7, <1>h, Zenon DEF UserMemoryInv

\* A step that leaves the memory alone, and may stop the kernel.
LEMMA MemoryAlone ==
  ASSUME UserMemoryInv, UNCHANGED <<spt, installed, mapid, reopened>>, Alive' => Alive
  PROVE  UserMemoryInv'
<1>1. UserMemoryTypeOK' /\ Heads' = Heads
  BY Zenon DEF UserMemoryInv, UserMemoryTypeOK, Heads
<1>2. MappingsSound'
  BY Zenon DEF UserMemoryInv, MappingsSound
<1> QED
  BY <1>1, <1>2, Zenon DEF UserMemoryInv

\* Every step keeps the inductive invariant.
LEMMA UserMemoryNextInv ==
  ASSUME Counting, UserMemoryInv, [UserMemoryNext]_memVars
  PROVE  UserMemoryInv'
<1>0. mapid \in Nat /\ reopened \in Nat /\ mapid <= reopened
  BY Zenon DEF UserMemoryInv, UserMemoryTypeOK, MappingsSound
<1>s. "exit(-1)" # "runs" /\ "killed" # "runs" /\ "panic" # "runs"
  OBVIOUS
<1>1. ASSUME NEW f \in File, NEW v \in 0 .. PageCnt, mmap(f, v)
      PROVE  UserMemoryInv'
  <2>1. CASE v \in Page
    BY <1>1, <2>1, MmapKeeps, Zenon DEF mmap
  <2>2. CASE v \notin Page
    BY <1>1, <1>s, <2>2, MemoryAlone, Zenon DEF mmap, Alive
  <2> QED
    BY <2>1, <2>2, Zenon
<1>2. CASE munmap
  BY <1>0, <1>2, <1>s, EndsKeeps, Zenon DEF munmap
<1>3. ASSUME NEW v \in Page, sys_read(v)
      PROVE  UserMemoryInv'
  BY <1>3, LoadPageKeeps, MemoryAlone, Zenon DEF sys_read, Alive
<1>4. ASSUME NEW v \in Page, sys_readNothing(v)
      PROVE  UserMemoryInv'
  BY <1>0, <1>4, <1>s, EndsKeeps, Zenon DEF sys_readNothing
<1>5. ASSUME NEW v \in Page, NEW near \in BOOLEAN, NEW user \in BOOLEAN, page_fault(v, near, user)
      PROVE  UserMemoryInv'
  <2>1. /\ mapid' = mapid /\ reopened' = reopened
        /\ Ends("killed") \/ Ends("exit(-1)") \/ (state' = "panic" /\ UNCHANGED <<spt, installed>>)
    BY <1>5, Zenon DEF page_fault
  <2> QED
    BY <1>0, <1>s, <2>1, EndsKeeps, MemoryAlone, Zenon DEF Alive
<1>6. CASE UNCHANGED memVars
  BY <1>6, MemoryAlone, Zenon DEF memVars, Alive
<1> QED
  BY <1>1, <1>2, <1>3, <1>4, <1>5, <1>6, Zenon DEF UserMemoryNext

\* A new process has its stack, and nothing mapped.
LEMMA UserMemoryInitInv ==
  ASSUME Counting, UserMemoryInit
  PROVE  UserMemoryInv
<1>1. Heads = {}
  BY Zenon DEF UserMemoryInit, Heads
<1>2. IsFiniteSet(Heads) /\ Cardinality(Heads) <= mapid /\ mapid <= reopened
  <2>1. IsFiniteSet(Heads) /\ Cardinality(Heads) = 0 /\ mapid = 0 /\ reopened = 0
    BY <1>1, Zenon DEF Counting, UserMemoryInit
  <2> QED
    BY <2>1
<1>3. mapid \in Nat /\ reopened \in Nat
  BY DEF UserMemoryInit
<1>4. PageCnt - 1 \in Page
  BY UserMemoryAssumption DEF Page
<1>5. UserMemoryTypeOK
  BY <1>3, Zenon DEF UserMemoryInit, UserMemoryTypeOK
<1>6. MappingsSound
  BY <1>2, <1>4, Zenon DEF UserMemoryInit, MappingsSound, Heads
<1> QED
  BY <1>2, <1>5, <1>6, Zenon DEF UserMemoryInv

-----------------------------------------------------------------------------
(***************************************************************************)
(* pagedir.c.                                                              *)
(***************************************************************************)
Entry4 == [p : BOOLEAN, kpage : KPage \cup {NULL}, a : BOOLEAN, d : BOOLEAN]

PagedirTypeOK ==
  /\ current \in Thread
  /\ pagedir \in [Thread -> KPage \cup {NULL}]
  /\ exiting \in [Thread -> [at : {"no", "forgot", "left"}, pd : KPage \cup {NULL}]]
  /\ pde \in [Thread -> [Tables -> KPage \cup {NULL}]]
  /\ pte \in [Thread -> [UPages -> Entry4]]
  /\ cr3 \in KPage \cup {NULL}
  /\ tlb \in [DOMAIN tlb -> [kpage : KPage, d : BOOLEAN]] /\ DOMAIN tlb \subseteq UPages
  /\ free_pages \subseteq KPage
  /\ used \subseteq Thread \X UPages /\ written \subseteq Thread \X UPages

\* A thread has its directory in pagedir or, while it exits, in exiting, and
\* without a directory it has no page tables and no mapped pages.
DirectoryOrNone ==
  \A t \in Thread :
    /\ exiting[t].at = "no" <=> exiting[t].pd = NULL
    /\ exiting[t].pd # NULL => pagedir[t] = NULL
    /\ pagedir[t] = NULL /\ exiting[t].pd = NULL =>
         \A u \in UPages : ~pte[t][u].p
    /\ pagedir[t] = NULL /\ exiting[t].pd = NULL =>
         \A n \in Tables : pde[t][n] = NULL
    /\ \A u \in UPages : pte[t][u].p =>
         pde[t][TableOf(u)] # NULL /\ pte[t][u].kpage # NULL

\* The active directory is the running thread's, but for a thread in
\* process_exit that has forgotten its own and not yet left it.
ActiveIsCurrent ==
  IF exiting[current].at = "forgot" THEN cr3 \in {NULL, exiting[current].pd}
  ELSE cr3 = pagedir[current]

\* What the TLB holds is of the active directory, with the bits the entry has.
CachedIsMapped ==
  \A u \in DOMAIN tlb :
    /\ cr3 # NULL
    /\ pte[current][u].p /\ pte[current][u].kpage = tlb[u].kpage
    /\ pte[current][u].a
    /\ tlb[u].d => pte[current][u].d

\* The uses a page can have, and the page in each.
Holder ==
  ({"directory"} \X Thread \X {0}) \cup ({"table"} \X Thread \X Tables)
    \cup ({"frame"} \X Thread \X UPages)
Held(h) ==
  IF h[1] = "directory" THEN IF pagedir[h[2]] # NULL THEN pagedir[h[2]] ELSE exiting[h[2]].pd
  ELSE IF h[1] = "table" THEN pde[h[2]][h[3]]
  ELSE IF pte[h[2]][h[3]].p THEN pte[h[2]][h[3]].kpage ELSE NULL
Holding == [h \in Holder |-> Held(h)]

\* Each page is free or in one use of H.
OwnedOnce(H, F) ==
  /\ \A h, g \in Holder : H[h] # NULL /\ H[h] = H[g] => h = g
  /\ \A h \in Holder : H[h] \notin F
  /\ \A k \in KPage \ F : \E h \in Holder : H[h] = k

PagedirInv ==
  /\ PagedirTypeOK /\ DirectoryOrNone /\ ActiveIsCurrent /\ CachedIsMapped
  /\ BitsTell /\ OwnedOnce(Holding, free_pages)

-----------------------------------------------------------------------------
(* Taking pages and giving them back.                                      *)

\* A non-empty set of pages has a lowest one.
LEMMA LowestIn ==
  ASSUME Least, NEW S \in SUBSET KPage, S # {}
  PROVE  Lowest(S) \in S
<1>1. S \in SUBSET Nat
  BY PagedirAssumption, Zenon
<1> QED
  BY <1>1, Zenon DEF Least, Lowest

\* A free page is put to a use that had none.
LEMMA OwnTake ==
  ASSUME NEW H, NEW G, NEW F, OwnedOnce(H, F), F \subseteq KPage,
         NEW k \in F, NEW x \in Holder, H[x] = NULL, G[x] = k,
         \A h \in Holder \ {x} : G[h] = H[h]
  PROVE  OwnedOnce(G, F \ {k})
<1>0. \A h \in Holder \ {x} : G[h] # k
  BY Zenon DEF OwnedOnce
<1>1. \A h, g \in Holder : G[h] # NULL /\ G[h] = G[g] => h = g
  BY <1>0 DEF OwnedOnce
<1>2. \A h \in Holder : G[h] \notin F \ {k}
  BY Zenon DEF OwnedOnce
<1>3. k # NULL
  BY PagedirAssumption, Zenon
<1>4. ASSUME NEW j \in KPage \ (F \ {k}) PROVE \E h \in Holder : G[h] = j
  <2>1. CASE j = k
    BY <2>1, Zenon
  <2>2. CASE j # k
    <3>1. PICK h \in Holder : H[h] = j
      BY <1>4, <2>2, Zenon DEF OwnedOnce
    <3>2. j # NULL
      BY PagedirAssumption, Zenon
    <3> QED
      BY <3>1, <3>2, Zenon
  <2> QED
    BY <2>1, <2>2, Zenon
<1> QED
  BY <1>1, <1>2, <1>4, Zenon DEF OwnedOnce

\* The uses in S end and their pages are free.
LEMMA OwnGive ==
  ASSUME NEW H, NEW G, NEW F, OwnedOnce(H, F), F \subseteq KPage,
         NEW S \in SUBSET Holder, \A h \in S : G[h] = NULL,
         \A h \in Holder \ S : G[h] = H[h],
         NEW E, \A k : k \in E <=> k \in F \/ (k # NULL /\ \E h \in S : H[h] = k)
  PROVE  OwnedOnce(G, E)
<1>1. \A h, g \in Holder : G[h] # NULL /\ G[h] = G[g] => h = g
  BY ZenonT(40) DEF OwnedOnce
<1>2. NULL \notin E
  BY PagedirAssumption, Zenon
<1>3. ASSUME NEW h \in Holder PROVE G[h] \notin E
  <2>1. CASE h \in S
    BY <1>2, <2>1, Zenon
  <2>2. CASE h \notin S
    <3>1. G[h] = H[h] /\ H[h] \notin F
      BY <2>2, Zenon DEF OwnedOnce
    <3>2. ASSUME NEW g \in S, H[g] = H[h], H[h] # NULL PROVE FALSE
      BY <2>2, <3>2, Zenon DEF OwnedOnce
    <3> QED
      BY <3>1, <3>2, Zenon
  <2> QED
    BY <2>1, <2>2, Zenon
<1>4. ASSUME NEW k \in KPage \ E PROVE \E h \in Holder : G[h] = k
  <2>1. PICK h \in Holder : H[h] = k
    BY Zenon DEF OwnedOnce
  <2>2. h \notin S
    BY <2>1, PagedirAssumption, Zenon
  <2> QED
    BY <2>1, <2>2, Zenon
<1> QED
  BY <1>1, <1>3, <1>4, Zenon DEF OwnedOnce

\* No use of a page changes.
LEMMA OwnSame ==
  ASSUME NEW H, NEW G, NEW F, OwnedOnce(H, F), \A h \in Holder : G[h] = H[h]
  PROVE  OwnedOnce(G, F)
  BY Zenon DEF OwnedOnce

\* The page in each use, by the kind of use.
HeldAre ==
  /\ \A t \in Thread : Holding[<<"directory", t, 0>>] =
       IF pagedir[t] # NULL THEN pagedir[t] ELSE exiting[t].pd
  /\ \A t \in Thread, n \in Tables : Holding[<<"table", t, n>>] = pde[t][n]
  /\ \A t \in Thread, u \in UPages : Holding[<<"frame", t, u>>] =
       IF pte[t][u].p THEN pte[t][u].kpage ELSE NULL

\* A page is held as a directory, as a page table or as a user page.
LEMMA Holders ==
  /\ \A t \in Thread : <<"directory", t, 0>> \in Holder
  /\ \A t \in Thread, n \in Tables : <<"table", t, n>> \in Holder
  /\ \A t \in Thread, u \in UPages : <<"frame", t, u>> \in Holder
  /\ \A h \in Holder : \/ \E t \in Thread : h = <<"directory", t, 0>>
                       \/ \E t \in Thread, n \in Tables : h = <<"table", t, n>>
                       \/ \E t \in Thread, u \in UPages : h = <<"frame", t, u>>
  BY DEF Holder

\* What each holder holds, in this state, ...
LEMMA HeldNow == HeldAre
  BY Holders, Zenon DEF HeldAre, Holding, Held

\* The uses of a page, kind by kind.
UsedFor(k, x) ==
  \/ \E t \in Thread : k \in {pagedir[t], exiting[t].pd} /\ x = <<"directory", t, 0>>
  \/ \E t \in Thread, n \in Tables : pde[t][n] = k /\ x = <<"table", t, n>>
  \/ \E t \in Thread, u \in UPages : pagedir_get_page(t, u) /\ pte[t][u].kpage = k /\ x = <<"frame", t, u>>
LEMMA UsedAsIs == ASSUME NEW k, NEW x PROVE x \in UsedAs(k) <=> UsedFor(k, x)
<1>1. ASSUME x \in UsedAs(k) PROVE UsedFor(k, x)
  BY <1>1, Zenon DEF UsedAs, UsedFor
<1>2. ASSUME NEW t \in Thread, k \in {pagedir[t], exiting[t].pd} PROVE <<"directory", t, 0>> \in UsedAs(k)
  BY <1>2, Zenon DEF UsedAs
<1>3. ASSUME NEW t \in Thread, NEW n \in Tables, pde[t][n] = k PROVE <<"table", t, n>> \in UsedAs(k)
  <2>1. <<t, n>> \in {y \in Thread \X Tables : pde[y[1]][y[2]] = k}
    BY <1>3, Zenon
  <2> QED
    BY <2>1 DEF UsedAs
<1>4. ASSUME NEW t \in Thread, NEW u \in UPages, pagedir_get_page(t, u) /\ pte[t][u].kpage = k
      PROVE  <<"frame", t, u>> \in UsedAs(k)
  <2>1. <<t, u>> \in {y \in Thread \X UPages : pagedir_get_page(y[1], y[2]) /\ pte[y[1]][y[2]].kpage = k}
    BY <1>4, Zenon
  <2> QED
    BY <2>1 DEF UsedAs
<1> QED
  BY <1>1, <1>2, <1>3, <1>4, Zenon DEF UsedFor

\* ... and in the next.
LEMMA HeldNext == HeldAre'
  BY HeldNow, PTL

\* The uses and the free pages after a step.
LEMMA OwnedNext ==
  ASSUME NEW F, OwnedOnce(Holding', F), free_pages' = F
  PROVE  OwnedOnce(Holding, free_pages)'
  BY Zenon DEF OwnedOnce

\* A step that leaves the directories and tables alone leaves every page to
\* its use.
LEMMA HoldingKept ==
  ASSUME OwnedOnce(Holding, free_pages), UNCHANGED <<pagedir, exiting, pde, pte, free_pages>>
  PROVE  OwnedOnce(Holding, free_pages)'
<1>1. Holding' = Holding /\ free_pages' = free_pages
  BY Zenon DEF Holding, Held
<1> QED
  BY <1>1, OwnedNext, Zenon

-----------------------------------------------------------------------------
(* One lemma for each step.                                                *)

\* At first no thread has a page directory.
LEMMA PagedirInitInv == PagedirInit => PagedirInv
<1> SUFFICES ASSUME PagedirInit PROVE PagedirInv
  BY Zenon
<1>1. PagedirTypeOK
  BY Zenon DEF PagedirInit, PagedirTypeOK, NotExiting, Zero, NoTlb, Entry4
<1>2. DirectoryOrNone /\ ActiveIsCurrent
  BY Zenon DEF PagedirInit, DirectoryOrNone, ActiveIsCurrent, NotExiting, Zero
<1>3. CachedIsMapped /\ BitsTell
  BY Zenon DEF PagedirInit, CachedIsMapped, BitsTell, NoTlb
<1>4. \A h \in Holder : Holding[h] = NULL
  BY Holders, HeldNow DEF PagedirInit, HeldAre, NotExiting, Zero
<1>5. OwnedOnce(Holding, free_pages)
  BY <1>4, PagedirAssumption, Zenon DEF PagedirInit, OwnedOnce
<1> QED
  BY <1>1, <1>2, <1>3, <1>5, Zenon DEF PagedirInv

\* process_activate loads the directory of the thread that gets to run.
LEMMA SwitchKeeps == ASSUME PagedirInv, NEW t \in Thread, Switch(t) PROVE PagedirInv'
<1> USE DEF Switch, process_activate, pagedir_activate, PagedirInv
<1>1. PagedirTypeOK'
  BY Zenon DEF PagedirTypeOK, NoTlb
<1>2. DirectoryOrNone'
  BY Zenon DEF DirectoryOrNone, TableOf, Tables
<1>3. ActiveIsCurrent'
  BY Zenon DEF ActiveIsCurrent, DirectoryOrNone, PagedirTypeOK
<1>4. CachedIsMapped' /\ BitsTell'
  BY Zenon DEF CachedIsMapped, BitsTell, NoTlb
<1>5. OwnedOnce(Holding, free_pages)'
  BY HoldingKept, Zenon
<1> QED
  BY <1>1, <1>2, <1>3, <1>4, <1>5, Zenon

\* pagedir_create takes a free page for the directory and activates it.
LEMMA CreateKeeps == ASSUME Least, PagedirInv, pagedir_create PROVE PagedirInv'
<1> DEFINE k == Lowest(free_pages)
<1> USE DEF PagedirInv
<1>0. k \in free_pages /\ k \in KPage /\ k # NULL /\ current \in Thread
  BY LowestIn, PagedirAssumption, Zenon DEF PagedirTypeOK, pagedir_create
<1> HIDE DEF k
<1>a. /\ pagedir[current] = NULL /\ exiting[current].at = "no" /\ exiting[current].pd = NULL
      /\ pagedir' = [pagedir EXCEPT ![current] = k] /\ free_pages' = free_pages \ {k}
      /\ cr3' = k /\ tlb' = NoTlb
      /\ UNCHANGED <<current, exiting, pde, pte, used, written>>
  BY DEF pagedir_create, pagedir_activate, NotExiting, k
<1>1. PagedirTypeOK'
  BY <1>0, <1>a, Zenon DEF PagedirTypeOK, NoTlb
<1>2. DirectoryOrNone'
  BY <1>0, <1>a DEF DirectoryOrNone, PagedirTypeOK
<1>3. ActiveIsCurrent'
  BY <1>0, <1>a, Zenon DEF ActiveIsCurrent, PagedirTypeOK
<1>4. CachedIsMapped' /\ BitsTell'
  BY <1>a, Zenon DEF CachedIsMapped, BitsTell, NoTlb
<1>5. OwnedOnce(Holding, free_pages)'
  <2>1. Holding[<<"directory", current, 0>>] = NULL /\ Holding'[<<"directory", current, 0>>] = k
    BY <1>0, <1>a, HeldNow, HeldNext, Zenon DEF HeldAre, PagedirTypeOK
  <2>2. ASSUME NEW h \in Holder \ {<<"directory", current, 0>>} PROVE Holding'[h] = Holding[h]
    <3>0. exiting' = exiting /\ pde' = pde /\ pte' = pte
      BY <1>a, Zenon
    <3>1. ASSUME NEW t \in Thread, h = <<"directory", t, 0>> PROVE Holding'[h] = Holding[h]
      <4>1. t # current
        BY <2>2, <3>1, Zenon
      <4>2. pagedir'[t] = pagedir[t] /\ exiting' = exiting
        BY <1>a, <4>1, Zenon DEF PagedirTypeOK
      <4> QED
        BY <3>1, <4>2, HeldNow, HeldNext, ZenonT(40) DEF HeldAre
    <3>2. ASSUME NEW t \in Thread, NEW n \in Tables, h = <<"table", t, n>> PROVE Holding'[h] = Holding[h]
      BY <3>0, <3>2, HeldNow, HeldNext, Zenon DEF HeldAre
    <3>3. ASSUME NEW t \in Thread, NEW u \in UPages, h = <<"frame", t, u>> PROVE Holding'[h] = Holding[h]
      BY <3>0, <3>3, HeldNow, HeldNext, SMTT(30) DEF HeldAre
    <3> QED
      BY <3>1, <3>2, <3>3, Holders, Zenon
  <2> QED
    BY <1>0, <1>a, <2>1, <2>2, Holders, OwnTake, ZenonT(40) DEF PagedirTypeOK
<1> QED
  BY <1>1, <1>2, <1>3, <1>4, <1>5, Zenon

\* process_exit clears the thread's pointer before anything else.
LEMMA ForgetKeeps == ASSUME PagedirInv, ForgetPagedir PROVE PagedirInv'
<1> USE DEF PagedirInv, ForgetPagedir
<1>1. PagedirTypeOK'
  BY Zenon DEF PagedirTypeOK
<1>2. DirectoryOrNone'
  BY DEF DirectoryOrNone, PagedirTypeOK, NotExiting
<1>3. ActiveIsCurrent'
  BY DEF ActiveIsCurrent, PagedirTypeOK, NotExiting
<1>4. CachedIsMapped' /\ BitsTell'
  BY Zenon DEF CachedIsMapped, BitsTell
<1>5. OwnedOnce(Holding, free_pages)'
  <2>1. ASSUME NEW h \in Holder PROVE Holding'[h] = Holding[h]
    BY Zenon DEF Holding, Held, Holder, PagedirTypeOK, DirectoryOrNone
  <2> QED
    BY <2>1, OwnSame, Zenon
<1> QED
  BY <1>1, <1>2, <1>3, <1>4, <1>5, Zenon

\* process_exit goes over to the kernel's directory.
LEMMA LeaveKeeps == ASSUME PagedirInv, LeavePagedir PROVE PagedirInv'
<1> USE DEF PagedirInv, LeavePagedir, pagedir_activate
<1>1. PagedirTypeOK'
  BY ZenonT(40) DEF PagedirTypeOK, NoTlb
<1>2. DirectoryOrNone'
  BY DEF DirectoryOrNone, PagedirTypeOK
<1>3. ActiveIsCurrent'
  BY Zenon DEF ActiveIsCurrent, PagedirTypeOK, DirectoryOrNone
<1>4. CachedIsMapped' /\ BitsTell'
  BY Zenon DEF CachedIsMapped, BitsTell, NoTlb
<1>5. OwnedOnce(Holding, free_pages)'
  <2>0. \A t \in Thread : exiting'[t].pd = exiting[t].pd
    BY Zenon DEF PagedirTypeOK
  <2>1. \A h \in Holder : Holding'[h] = Holding[h]
    BY <2>0, Holders DEF Holding, Held
  <2>2. free_pages' = free_pages /\ OwnedOnce(Holding, free_pages)
    BY Zenon
  <2>3. OwnedOnce(Holding', free_pages)
    BY <2>1, <2>2, OwnSame, Zenon
  <2> QED
    BY <2>2, <2>3, OwnedNext, Zenon
<1> QED
  BY <1>1, <1>2, <1>3, <1>4, <1>5, Zenon

\* install_page's step: the frame, and first a page table if there is none.
LEMMA SetPageKeeps ==
  ASSUME Least, PagedirInv, NEW u \in UPages, pagedir_set_page(u)
  PROVE  PagedirInv'
<1> DEFINE k == Lowest(free_pages)
           rest == free_pages \ {k}
           n == TableOf(u)
           j == Lowest(rest)
           new == [p |-> TRUE, kpage |-> k, a |-> FALSE, d |-> FALSE]
<1> USE DEF PagedirInv
<1>0. k \in free_pages /\ k \in KPage /\ k # NULL /\ current \in Thread /\ n \in Tables
  BY LowestIn, PagedirAssumption, Zenon DEF PagedirTypeOK, pagedir_set_page, Tables
<1>b. ASSUME rest # {} PROVE j \in rest /\ j \in KPage /\ j # NULL
  <2>1. rest \in SUBSET KPage
    BY Zenon DEF PagedirTypeOK
  <2> HIDE DEF rest
  <2> QED
    BY <1>b, <2>1, LowestIn, PagedirAssumption, Zenon
<1> HIDE DEF k, n, j
<1>a. /\ pagedir[current] # NULL
      /\ ~(pde[current][n] # NULL /\ pte[current][u].p)
      /\ pte' = [pte EXCEPT ![current][u] = new]
      /\ used' = used \ {<<current, u>>} /\ written' = written \ {<<current, u>>}
      /\ UNCHANGED <<current, pagedir, exiting, cr3, tlb>>
      /\ \/ pde[current][n] # NULL /\ pde' = pde /\ free_pages' = rest
         \/ /\ pde[current][n] = NULL /\ rest # {}
            /\ pde' = [pde EXCEPT ![current][n] = j] /\ free_pages' = rest \ {j}
  BY SMTT(30) DEF pagedir_set_page, pagedir_get_page, lookup_page, k, n, j
<1>c. ~pte[current][u].p
  BY <1>0, <1>a, Zenon DEF DirectoryOrNone, n
<1>d. /\ pde' \in [Thread -> [Tables -> KPage \cup {NULL}]]
      /\ \A t \in Thread : \A m \in Tables : pde[t][m] # NULL => pde'[t][m] = pde[t][m]
      /\ \A t \in Thread \ {current} : pde'[t] = pde[t]
      /\ pde'[current][n] # NULL
  <2>1. CASE pde[current][n] # NULL
    BY <1>a, <2>1, Zenon DEF PagedirTypeOK
  <2>2. CASE pde[current][n] = NULL
    <3>1. j \in KPage /\ j # NULL /\ pde' = [pde EXCEPT ![current][n] = j]
      BY <1>a, <1>b, <2>2, Zenon
    <3> QED
      BY <1>0, <2>2, <3>1, Zenon DEF PagedirTypeOK
  <2> QED
    BY <2>1, <2>2, Zenon
<1>e. /\ pte' \in [Thread -> [UPages -> Entry4]]
      /\ \A t \in Thread : \A v \in UPages :
           pte'[t][v] = IF t = current /\ v = u THEN new ELSE pte[t][v]
  BY <1>0, <1>a, Zenon DEF PagedirTypeOK, Entry4
<1>1. PagedirTypeOK'
  BY <1>a, <1>d, <1>e, Zenon DEF PagedirTypeOK
<1>2. DirectoryOrNone'
  <2>1. \A t \in Thread \ {current} : pte'[t] = pte[t] /\ pde'[t] = pde[t]
    BY <1>0, <1>a, <1>d, Zenon DEF PagedirTypeOK
  <2>2. ASSUME NEW v \in UPages, pte'[current][v].p
        PROVE  pde'[current][TableOf(v)] # NULL /\ pte'[current][v].kpage # NULL
    <3>1. CASE v = u
      BY <1>0, <1>d, <1>e, <3>1 DEF n
    <3>2. CASE v # u
      <4>1. pte[current][v].p /\ pte'[current][v].kpage = pte[current][v].kpage
        BY <1>0, <1>e, <2>2, <3>2, Zenon
      <4>2. TableOf(v) \in Tables
        BY Zenon DEF Tables
      <4>3. pde[current][TableOf(v)] # NULL /\ pte[current][v].kpage # NULL
        BY <1>0, <4>1, Zenon DEF DirectoryOrNone
      <4> QED
        BY <1>0, <1>d, <4>1, <4>2, <4>3, Zenon
    <3> QED
      BY <3>1, <3>2, Zenon
  <2> QED
    BY <1>0, <1>a, <2>1, <2>2 DEF DirectoryOrNone
<1>3. ActiveIsCurrent'
  BY <1>a, Zenon DEF ActiveIsCurrent
<1>4. CachedIsMapped'
  BY <1>0, <1>a, <1>c, <1>e DEF CachedIsMapped, PagedirTypeOK
<1>5. BitsTell'
  <2>1. \A x \in Thread \X UPages : x # <<current, u>> => pte'[x[1]][x[2]] = pte[x[1]][x[2]]
    BY <1>e
  <2> QED
    BY <1>a, <2>1, Zenon DEF BitsTell, PagedirTypeOK
<1>6. OwnedOnce(Holding, free_pages)'
  <2> DEFINE f == <<"frame", current, u>>
             tb == <<"table", current, n>>
             H == [h \in Holder |-> IF h = f THEN k ELSE Holding[h]]
  <2>1. f \in Holder /\ tb \in Holder /\ f # tb
    BY <1>0, Holders, Zenon
  <2>2. Holding[f] = NULL
    BY <1>0, <1>c, HeldNow, Zenon DEF HeldAre
  <2>3. OwnedOnce(H, rest)
    BY <1>0, <2>1, <2>2, OwnTake, Zenon DEF PagedirTypeOK
  <2>4. ASSUME NEW h \in Holder, h # tb PROVE Holding'[h] = H[h]
    <3>1. \A t \in Thread : \A m \in Tables : <<t, m>> # <<current, n>> => pde'[t][m] = pde[t][m]
      BY <1>0, <1>a DEF PagedirTypeOK
    <3>2. CASE \E t \in Thread : h = <<"directory", t, 0>>
      BY <1>a, <3>2, HeldNow, HeldNext DEF HeldAre
    <3>3. CASE \E t \in Thread, m \in Tables : h = <<"table", t, m>>
      BY <2>4, <3>1, <3>3, HeldNow, HeldNext DEF HeldAre
    <3>4. CASE \E t \in Thread, v \in UPages : h = <<"frame", t, v>>
      BY <1>e, <3>4, HeldNow, HeldNext DEF HeldAre
    <3> QED
      BY <3>2, <3>3, <3>4, Holders, Zenon
  <2>5. H[tb] = pde[current][n] /\ Holding'[tb] = pde'[current][n]
    BY <1>0, <2>1, HeldNow, HeldNext, Zenon DEF HeldAre
  <2>6. CASE pde[current][n] # NULL
    <3>1. \A h \in Holder : Holding'[h] = H[h]
      BY <1>a, <2>4, <2>5, <2>6, Zenon
    <3> HIDE DEF H, rest
    <3>2. OwnedOnce(Holding', rest)
      BY <2>3, <3>1, OwnSame, Zenon
    <3> QED
      BY <1>a, <2>6, <3>2, OwnedNext, Zenon
  <2>7. CASE pde[current][n] = NULL
    <3>1. H[tb] = NULL /\ Holding'[tb] = j
      BY <1>0, <1>a, <2>5, <2>7 DEF PagedirTypeOK
    <3>2. /\ j \in rest /\ rest \subseteq KPage
          /\ \A h \in Holder \ {tb} : Holding'[h] = H[h]
      BY <1>a, <1>b, <2>4, <2>7, Zenon DEF PagedirTypeOK
    <3> HIDE DEF rest, H, tb
    <3>3. OwnedOnce(Holding', rest \ {j})
      BY <2>1, <2>3, <3>1, <3>2, OwnTake, Zenon
    <3> QED
      BY <1>a, <2>7, <3>3, OwnedNext, Zenon DEF rest
  <2> QED
    BY <2>6, <2>7, Zenon
<1> QED
  BY <1>1, <1>2, <1>3, <1>4, <1>5, <1>6, Zenon

\* One entry of a page table is changed.
LEMMA EntrySet ==
  ASSUME NEW q \in [Thread -> [UPages -> Entry4]], NEW t \in Thread, NEW u \in UPages,
         NEW e \in Entry4
  PROVE  LET r == [q EXCEPT ![t][u] = e]
         IN /\ r \in [Thread -> [UPages -> Entry4]]
            /\ \A s \in Thread : \A v \in UPages :
                 r[s][v] = IF <<s, v>> = <<t, u>> THEN e ELSE q[s][v]
  BY Zenon

\* After invalidate_pagedir the TLB is empty or has nothing of t.
LEMMA InvalidatedOf ==
  ASSUME PagedirInv, NEW t \in Thread, pagedir[t] # NULL, invalidate_pagedir(pagedir[t])
  PROVE  cr3' = cr3 /\ (tlb' = NoTlb \/ (tlb' = tlb /\ t # current))
<1>1. CASE cr3 = pagedir[t]
  BY <1>1, Zenon DEF invalidate_pagedir, pagedir_activate
<1>2. CASE cr3 # pagedir[t]
  <2>1. cr3' = cr3 /\ tlb' = tlb
    BY <1>2, Zenon DEF invalidate_pagedir
  <2>2. exiting[t].at # "forgot"
    BY Zenon DEF PagedirInv, DirectoryOrNone
  <2>3. t # current
    BY <1>2, <2>2, Zenon DEF PagedirInv, ActiveIsCurrent
  <2> QED
    BY <2>1, <2>3, Zenon
<1> QED
  BY <1>1, <1>2, Zenon

\* pagedir_clear_page marks a page not present and flushes the TLB.
LEMMA ClearPageKeeps ==
  ASSUME PagedirInv, NEW t \in Thread, NEW u \in UPages, pagedir_clear_page(t, u)
  PROVE  PagedirInv'
<1> DEFINE k == pte[t][u].kpage
<1> USE DEF PagedirInv
<1>a. /\ pagedir[t] # NULL /\ pte[t][u].p
      /\ pte' = [pte EXCEPT ![t][u].p = FALSE] /\ free_pages' = free_pages \cup {k}
      /\ UNCHANGED <<current, pagedir, exiting, pde, used, written>>
  BY Zenon DEF pagedir_clear_page, pagedir_get_page
<1>b. cr3' = cr3 /\ (tlb' = NoTlb \/ (tlb' = tlb /\ t # current))
  BY InvalidatedOf, Zenon DEF pagedir_clear_page
<1>c. k \in KPage /\ k # NULL
  BY <1>a DEF PagedirTypeOK, DirectoryOrNone, Entry4
<1>e. /\ pte' \in [Thread -> [UPages -> Entry4]]
      /\ \A s \in Thread : \A v \in UPages :
           /\ pte'[s][v].kpage = pte[s][v].kpage
           /\ pte'[s][v].a = pte[s][v].a /\ pte'[s][v].d = pte[s][v].d
           /\ pte'[s][v].p <=> pte[s][v].p /\ <<s, v>> # <<t, u>>
  <2> DEFINE e == [pte[t][u] EXCEPT !.p = FALSE]
  <2>1. pte[t][u] \in Entry4
    BY DEF PagedirTypeOK
  <2>2. /\ e \in Entry4 /\ ~e.p
        /\ e.kpage = pte[t][u].kpage /\ e.a = pte[t][u].a /\ e.d = pte[t][u].d
    BY <2>1, Zenon DEF Entry4
  <2>3. pte' = [pte EXCEPT ![t][u] = e] /\ pte \in [Thread -> [UPages -> Entry4]]
    BY <1>a, Zenon DEF PagedirTypeOK
  <2> HIDE DEF e
  <2>4. /\ pte' \in [Thread -> [UPages -> Entry4]]
        /\ \A s \in Thread : \A v \in UPages :
             pte'[s][v] = IF <<s, v>> = <<t, u>> THEN e ELSE pte[s][v]
    BY <2>2, <2>3, EntrySet
  <2>5. \A s \in Thread : \A v \in UPages :
          /\ <<s, v>> = <<t, u>> => pte'[s][v] = e
          /\ <<s, v>> # <<t, u>> => pte'[s][v] = pte[s][v]
    BY <2>4, Zenon
  <2>6. \A s \in Thread : \A v \in UPages :
          <<s, v>> = <<t, u>> => pte[s][v] = pte[t][u]
    BY Zenon
  <2>7. ASSUME NEW s \in Thread, NEW v \in UPages
        PROVE  /\ pte'[s][v].kpage = pte[s][v].kpage
               /\ pte'[s][v].a = pte[s][v].a /\ pte'[s][v].d = pte[s][v].d
               /\ pte'[s][v].p <=> pte[s][v].p /\ <<s, v>> # <<t, u>>
    <3>1. CASE <<s, v>> = <<t, u>>
      <4>1. pte'[s][v] = e /\ pte[s][v] = pte[t][u]
        BY <2>5, <2>6, <3>1, Zenon
      <4> QED
        BY <2>2, <3>1, <4>1, Zenon
    <3>2. CASE <<s, v>> # <<t, u>>
      <4>1. pte'[s][v] = pte[s][v]
        BY <2>5, <3>2, Zenon
      <4> QED
        BY <3>2, <4>1, Zenon
    <3> QED
      BY <3>1, <3>2, Zenon
  <2> QED
    BY <2>4, <2>7, Zenon
<1>1. PagedirTypeOK'
  BY <1>a, <1>b, <1>c, <1>e, Zenon DEF PagedirTypeOK, NoTlb
<1>2. DirectoryOrNone'
  BY <1>a, <1>e DEF DirectoryOrNone
<1>3. ActiveIsCurrent'
  BY <1>a, <1>b, Zenon DEF ActiveIsCurrent
<1>4. CachedIsMapped'
  BY <1>a, <1>b, <1>e DEF CachedIsMapped, PagedirTypeOK, NoTlb
<1>5. BitsTell'
  BY <1>a, <1>e DEF BitsTell, PagedirTypeOK
<1>6. OwnedOnce(Holding, free_pages)'
  <2> DEFINE f == <<"frame", t, u>>
  <2>1. f \in Holder /\ Holding[f] = k /\ Holding'[f] = NULL
    BY <1>a, <1>e, Holders, HeldNow, HeldNext, Zenon DEF HeldAre
  <2>2. \A h \in Holder \ {f} : Holding'[h] = Holding[h]
    BY <1>a, <1>e, Holders, HeldNow, HeldNext DEF HeldAre
  <2>3. free_pages \subseteq KPage /\ OwnedOnce(Holding, free_pages)
    BY Zenon DEF PagedirTypeOK
  <2> DEFINE S == {f}
             E == free_pages \cup {k}
  <2>4. /\ S \in SUBSET Holder /\ \A h \in S : Holding'[h] = NULL
        /\ \A x : x \in E <=> x \in free_pages \/ (x # NULL /\ \E h \in S : Holding[h] = x)
    BY <1>c, <2>1, Zenon
  <2>5. \A h \in Holder \ S : Holding'[h] = Holding[h]
    BY <2>2, Zenon
  <2> HIDE DEF S, E
  <2>6. OwnedOnce(Holding', E)
    BY <2>3, <2>4, <2>5, OwnGive
  <2> QED
    BY <1>a, <2>6, OwnedNext, Zenon DEF E
<1> QED
  BY <1>1, <1>2, <1>3, <1>4, <1>5, <1>6, Zenon

\* A step that changes only bits of entries, and the TLB, keeps every page to
\* its use.
LEMMA BitsHolding ==
  ASSUME OwnedOnce(Holding, free_pages), UNCHANGED <<pagedir, exiting, pde, free_pages>>,
         \A s \in Thread : \A v \in UPages :
           pte'[s][v].p = pte[s][v].p /\ pte'[s][v].kpage = pte[s][v].kpage
  PROVE  OwnedOnce(Holding, free_pages)'
<1>1. \A h \in Holder : Holding'[h] = Holding[h]
  BY Holders, HeldNow, HeldNext DEF HeldAre
<1>2. OwnedOnce(Holding', free_pages)
  BY <1>1, OwnSame, ZenonT(40)
<1> QED
  BY <1>2, OwnedNext, Zenon

\* pagedir_set_accessed changes the bit the processor may have cached.
LEMMA SetAccessedKeeps ==
  ASSUME PagedirInv, NEW t \in Thread, NEW u \in UPages, NEW b \in BOOLEAN,
         pagedir_set_accessed(t, u, b)
  PROVE  PagedirInv'
<1> USE DEF PagedirInv
<1>a. /\ pagedir[t] # NULL
      /\ pte' = [pte EXCEPT ![t][u].a = b]
      /\ UNCHANGED <<current, pagedir, exiting, pde, free_pages, written>>
      /\ b => UNCHANGED <<cr3, tlb, used>>
      /\ ~b => used' = used \ {<<t, u>>}
  BY Zenon DEF pagedir_set_accessed
<1>b. cr3' = cr3 /\ (tlb' = NoTlb \/ (tlb' = tlb /\ (b \/ t # current)))
  <2>1. CASE b
    BY <1>a, <2>1, Zenon
  <2>2. CASE ~b
    <3>1. invalidate_pagedir(pagedir[t])
      BY <2>2, Zenon DEF pagedir_set_accessed
    <3> QED
      BY <1>a, <3>1, InvalidatedOf, Zenon
  <2> QED
    BY <2>1, <2>2, Zenon
<1>e. /\ pte' \in [Thread -> [UPages -> Entry4]]
      /\ \A s \in Thread : \A v \in UPages :
           /\ pte'[s][v].p = pte[s][v].p /\ pte'[s][v].kpage = pte[s][v].kpage
           /\ pte'[s][v].d = pte[s][v].d
           /\ pte'[s][v].a = IF <<s, v>> = <<t, u>> THEN b ELSE pte[s][v].a
  <2> DEFINE e == [pte[t][u] EXCEPT !.a = b]
  <2>1. pte[t][u] \in Entry4
    BY DEF PagedirTypeOK
  <2>2. /\ e \in Entry4 /\ e.a = b
        /\ e.kpage = pte[t][u].kpage /\ e.p = pte[t][u].p /\ e.d = pte[t][u].d
    BY <2>1, Zenon DEF Entry4
  <2>3. pte' = [pte EXCEPT ![t][u] = e] /\ pte \in [Thread -> [UPages -> Entry4]]
    BY <1>a, Zenon DEF PagedirTypeOK
  <2> HIDE DEF e
  <2>4. /\ pte' \in [Thread -> [UPages -> Entry4]]
        /\ \A s \in Thread : \A v \in UPages :
             pte'[s][v] = IF <<s, v>> = <<t, u>> THEN e ELSE pte[s][v]
    BY <2>2, <2>3, EntrySet
  <2> QED
    BY <2>2, <2>4, Zenon
<1>1. PagedirTypeOK'
  BY <1>a, <1>b, <1>e, Zenon DEF PagedirTypeOK, NoTlb
<1>2. DirectoryOrNone'
  BY <1>a, <1>e DEF DirectoryOrNone
<1>3. ActiveIsCurrent'
  BY <1>a, <1>b, Zenon DEF ActiveIsCurrent
<1>4. CachedIsMapped'
  BY <1>a, <1>b, <1>e DEF CachedIsMapped, PagedirTypeOK, NoTlb
<1>5. BitsTell'
  BY <1>a, <1>e DEF BitsTell, PagedirTypeOK
<1>6. OwnedOnce(Holding, free_pages)'
  BY <1>a, <1>e, BitsHolding
<1> QED
  BY <1>1, <1>2, <1>3, <1>4, <1>5, <1>6, Zenon

\* pagedir_set_dirty changes the bit the processor may have cached.
LEMMA SetDirtyKeeps ==
  ASSUME PagedirInv, NEW t \in Thread, NEW u \in UPages, NEW b \in BOOLEAN,
         pagedir_set_dirty(t, u, b)
  PROVE  PagedirInv'
<1> USE DEF PagedirInv
<1>a. /\ pagedir[t] # NULL
      /\ pte' = [pte EXCEPT ![t][u].d = b]
      /\ UNCHANGED <<current, pagedir, exiting, pde, free_pages, used>>
      /\ b => UNCHANGED <<cr3, tlb, written>>
      /\ ~b => written' = written \ {<<t, u>>}
  BY Zenon DEF pagedir_set_dirty
<1>b. cr3' = cr3 /\ (tlb' = NoTlb \/ (tlb' = tlb /\ (b \/ t # current)))
  <2>1. CASE b
    BY <1>a, <2>1, Zenon
  <2>2. CASE ~b
    <3>1. invalidate_pagedir(pagedir[t])
      BY <2>2, Zenon DEF pagedir_set_dirty
    <3> QED
      BY <1>a, <3>1, InvalidatedOf, Zenon
  <2> QED
    BY <2>1, <2>2, Zenon
<1>e. /\ pte' \in [Thread -> [UPages -> Entry4]]
      /\ \A s \in Thread : \A v \in UPages :
           /\ pte'[s][v].p = pte[s][v].p /\ pte'[s][v].kpage = pte[s][v].kpage
           /\ pte'[s][v].a = pte[s][v].a
           /\ pte'[s][v].d = IF <<s, v>> = <<t, u>> THEN b ELSE pte[s][v].d
  <2> DEFINE e == [pte[t][u] EXCEPT !.d = b]
  <2>1. pte[t][u] \in Entry4
    BY DEF PagedirTypeOK
  <2>2. /\ e \in Entry4 /\ e.d = b
        /\ e.kpage = pte[t][u].kpage /\ e.p = pte[t][u].p /\ e.a = pte[t][u].a
    BY <2>1, Zenon DEF Entry4
  <2>3. pte' = [pte EXCEPT ![t][u] = e] /\ pte \in [Thread -> [UPages -> Entry4]]
    BY <1>a, Zenon DEF PagedirTypeOK
  <2> HIDE DEF e
  <2>4. /\ pte' \in [Thread -> [UPages -> Entry4]]
        /\ \A s \in Thread : \A v \in UPages :
             pte'[s][v] = IF <<s, v>> = <<t, u>> THEN e ELSE pte[s][v]
    BY <2>2, <2>3, EntrySet
  <2> QED
    BY <2>2, <2>4, Zenon
<1>1. PagedirTypeOK'
  BY <1>a, <1>b, <1>e, Zenon DEF PagedirTypeOK, NoTlb
<1>2. DirectoryOrNone'
  BY <1>a, <1>e DEF DirectoryOrNone
<1>3. ActiveIsCurrent'
  BY <1>a, <1>b, Zenon DEF ActiveIsCurrent
<1>4. CachedIsMapped'
  BY <1>a, <1>b, <1>e DEF CachedIsMapped, PagedirTypeOK, NoTlb
<1>5. BitsTell'
  BY <1>a, <1>e DEF BitsTell, PagedirTypeOK
<1>6. OwnedOnce(Holding, free_pages)'
  BY <1>a, <1>e, BitsHolding
<1> QED
  BY <1>1, <1>2, <1>3, <1>4, <1>5, <1>6, Zenon

\* The processor sets the bits of a page it uses, and caches the entry.
LEMMA AccessKeeps ==
  ASSUME PagedirInv, NEW u \in UPages, NEW write \in BOOLEAN, Access(u, write)
  PROVE  PagedirInv'
<1> USE DEF PagedirInv
<1>a. /\ pagedir[current] # NULL /\ current \in Thread
      /\ used' = used \cup {<<current, u>>}
      /\ written' = IF write THEN written \cup {<<current, u>>} ELSE written
      /\ UNCHANGED <<current, pagedir, exiting, pde, cr3, free_pages>>
  BY Zenon DEF Access, PagedirTypeOK
<1>b. cr3 = pagedir[current]
  BY <1>a, Zenon DEF DirectoryOrNone, ActiveIsCurrent
<1>1. CASE u \in DOMAIN tlb /\ (write => tlb[u].d)
  <2>1. pte' = pte /\ tlb' = tlb
    BY <1>1, Zenon DEF Access
  <2>2. PagedirTypeOK'
    BY <1>a, <2>1, SMTT(30) DEF PagedirTypeOK
  <2>3. DirectoryOrNone' /\ ActiveIsCurrent' /\ CachedIsMapped'
    BY <1>a, <2>1 DEF DirectoryOrNone, ActiveIsCurrent, CachedIsMapped
  <2>4. BitsTell'
    <3>1. pte[current][u].a /\ (write => pte[current][u].d)
      BY <1>1, Zenon DEF CachedIsMapped
    <3> QED
      BY <1>a, <2>1, <3>1 DEF BitsTell
  <2>5. OwnedOnce(Holding, free_pages)'
    BY <1>a, <2>1, HoldingKept, Zenon
  <2> QED
    BY <2>2, <2>3, <2>4, <2>5, Zenon
<1>2. CASE ~(u \in DOMAIN tlb /\ (write => tlb[u].d))
  <2> DEFINE d == write \/ pte[current][u].d
             e == [pte[current][u] EXCEPT !.a = TRUE, !.d = d]
  <2>1. /\ pte[current][u].p
        /\ pte' = [pte EXCEPT ![current][u] = e]
        /\ tlb' = [v \in DOMAIN tlb \cup {u} |->
                     IF v = u THEN [kpage |-> pte[current][u].kpage, d |-> d] ELSE tlb[v]]
    BY <1>2, Zenon DEF Access, pagedir_get_page
  <2>2. pte[current][u] \in Entry4 /\ pte \in [Thread -> [UPages -> Entry4]]
    BY <1>a, Zenon DEF PagedirTypeOK
  <2>3. pte[current][u].kpage \in KPage /\ d \in BOOLEAN
    BY <1>a, <2>1, <2>2, Zenon DEF DirectoryOrNone, Entry4
  <2>4. /\ e \in Entry4 /\ e.a /\ e.d = d
        /\ e.kpage = pte[current][u].kpage /\ e.p = pte[current][u].p
    BY <2>2, <2>3, Zenon DEF Entry4
  <2>5. d = (write \/ pte[current][u].d)
    BY Zenon
  <2> HIDE DEF d, e
  <2>6. /\ pte' \in [Thread -> [UPages -> Entry4]]
        /\ \A s \in Thread : \A v \in UPages :
             pte'[s][v] = IF <<s, v>> = <<current, u>> THEN e ELSE pte[s][v]
    BY <1>a, <2>1, <2>2, <2>4, EntrySet
  <2>7. /\ \A s \in Thread : \A v \in UPages :
             /\ pte'[s][v].p = pte[s][v].p /\ pte'[s][v].kpage = pte[s][v].kpage
             /\ pte[s][v].a => pte'[s][v].a
             /\ pte[s][v].d => pte'[s][v].d
        /\ pte'[current][u].a /\ (write => pte'[current][u].d)
        /\ pte'[current][u].d = d
    BY <1>a, <2>4, <2>5, <2>6, ZenonT(40)
  <2>8. /\ DOMAIN tlb' = DOMAIN tlb \cup {u}
        /\ tlb'[u].kpage = pte[current][u].kpage /\ tlb'[u].d = d
        /\ \A v \in DOMAIN tlb \ {u} : tlb'[v] = tlb[v]
        /\ tlb' \in [DOMAIN tlb' -> [kpage : KPage, d : BOOLEAN]]
    BY <2>1, <2>3, Zenon DEF PagedirTypeOK
  <2>9. PagedirTypeOK'
    BY <1>a, <2>6, <2>8 DEF PagedirTypeOK
  <2>10. DirectoryOrNone' /\ ActiveIsCurrent'
    BY <1>a, <2>7 DEF DirectoryOrNone, ActiveIsCurrent
  <2>11. CachedIsMapped'
    BY <1>a, <1>b, <2>1, <2>7, <2>8 DEF CachedIsMapped, PagedirTypeOK
  <2>12. BitsTell'
    <3>1. \A x \in Thread \X UPages :
            /\ pte[x[1]][x[2]].a => pte'[x[1]][x[2]].a
            /\ pte[x[1]][x[2]].d => pte'[x[1]][x[2]].d
      BY <2>7, Zenon
    <3>2. \A x \in used \cup {<<current, u>>} : pte'[x[1]][x[2]].a
      BY <2>7, <3>1 DEF BitsTell, PagedirTypeOK
    <3>3. \A x \in written' : pte'[x[1]][x[2]].d
      BY <1>a, <2>7, <3>1 DEF BitsTell, PagedirTypeOK
    <3> QED
      BY <1>a, <3>2, <3>3, Zenon DEF BitsTell
  <2>13. OwnedOnce(Holding, free_pages)'
    BY <1>a, <2>7, BitsHolding, Zenon
  <2> QED
    BY <2>9, <2>10, <2>11, <2>12, <2>13, Zenon
<1> QED
  BY <1>1, <1>2, Zenon

\* pagedir_destroy gives back the pages, the page tables and the directory.
LEMMA DestroyKeeps == ASSUME PagedirInv, pagedir_destroy PROVE PagedirInv'
<1> USE DEF PagedirInv
<1>a. /\ exiting[current].at = "left" /\ current \in Thread
      /\ free_pages' = free_pages \cup Owned(current) \cup {exiting[current].pd}
      /\ pde' = [pde EXCEPT ![current] = [n \in Tables |-> NULL]]
      /\ pte' = [pte EXCEPT ![current] = [u \in UPages |-> Zero]]
      /\ exiting' = [exiting EXCEPT ![current] = NotExiting]
      /\ used' = {x \in used : x[1] # current} /\ written' = {x \in written : x[1] # current}
      /\ UNCHANGED <<current, pagedir, cr3, tlb>>
  BY Zenon DEF pagedir_destroy, PagedirTypeOK
<1>b. /\ exiting[current].pd # NULL /\ exiting[current].pd \in KPage
      /\ pagedir[current] = NULL /\ cr3 = NULL
  BY <1>a, Zenon DEF DirectoryOrNone, ActiveIsCurrent, PagedirTypeOK
<1>c. DOMAIN tlb = {}
  BY <1>b, Zenon DEF CachedIsMapped
<1>d. /\ \A t \in Thread \ {current} : pde'[t] = pde[t] /\ pte'[t] = pte[t] /\ exiting'[t] = exiting[t]
      /\ \A n \in Tables : pde'[current][n] = NULL
      /\ \A u \in UPages : pte'[current][u] = Zero
      /\ exiting'[current] = NotExiting
  BY <1>a, Zenon DEF PagedirTypeOK
<1>e. Owned(current) \subseteq KPage
  BY <1>a DEF Owned, PagedirTypeOK, DirectoryOrNone, pagedir_get_page, Entry4
<1>1. PagedirTypeOK'
  <2>1. Zero \in Entry4 /\ NotExiting \in [at : {"no", "forgot", "left"}, pd : KPage \cup {NULL}]
    BY Zenon DEF Zero, Entry4, NotExiting
  <2>2. /\ pde' \in [Thread -> [Tables -> KPage \cup {NULL}]]
        /\ pte' \in [Thread -> [UPages -> Entry4]]
    BY <1>a, <2>1, Zenon DEF PagedirTypeOK
  <2>3. exiting' \in [Thread -> [at : {"no", "forgot", "left"}, pd : KPage \cup {NULL}]]
    BY <1>a, <2>1, Zenon DEF PagedirTypeOK
  <2>4. free_pages' \subseteq KPage
    BY <1>a, <1>b, <1>e, Zenon DEF PagedirTypeOK
  <2> QED
    BY <1>a, <2>2, <2>3, <2>4, Zenon DEF PagedirTypeOK
<1>2. DirectoryOrNone'
  BY <1>a, <1>b, <1>d DEF DirectoryOrNone, Zero, NotExiting
<1>3. ActiveIsCurrent'
  BY <1>a, <1>b, <1>d, Zenon DEF ActiveIsCurrent, NotExiting
<1>4. CachedIsMapped'
  BY <1>a, <1>c, Zenon DEF CachedIsMapped
<1>5. BitsTell'
  BY <1>a, <1>d, Zenon DEF BitsTell, PagedirTypeOK
<1>6. OwnedOnce(Holding, free_pages)'
  <2> DEFINE S == {h \in Holder : h[2] = current}
             E == free_pages'
  <2>1. /\ \A h \in S : Holding'[h] = NULL
        /\ \A h \in Holder \ S : Holding'[h] = Holding[h]
    <3>1. ASSUME NEW h \in Holder
          PROVE  Holding'[h] = IF h[2] = current THEN NULL ELSE Holding[h]
      <4>1. CASE \E t \in Thread : h = <<"directory", t, 0>>
        BY <1>a, <1>b, <1>d, <4>1, HeldNow, HeldNext, SMTT(30) DEF HeldAre, NotExiting
      <4>2. CASE \E t \in Thread, n \in Tables : h = <<"table", t, n>>
        <5>1. PICK t \in Thread, n \in Tables : h = <<"table", t, n>>
          BY <4>2, Zenon
        <5>2. Holding[h] = pde[t][n] /\ Holding'[h] = pde'[t][n] /\ h[2] = t
          BY <5>1, HeldNow, HeldNext, Zenon DEF HeldAre
        <5> QED
          BY <5>2, <1>d, ZenonT(40)
      <4>3. CASE \E t \in Thread, u \in UPages : h = <<"frame", t, u>>
        BY <1>d, <4>3, HeldNow, HeldNext DEF HeldAre, Zero
      <4> QED
        BY <4>1, <4>2, <4>3, Holders, Zenon
    <3> QED
      BY <3>1, Zenon
  <2>2. ASSUME NEW x
        PROVE  x \in E <=> x \in free_pages \/ (x # NULL /\ \E h \in S : Holding[h] = x)
    <3>1. ASSUME x \in Owned(current) PROVE x # NULL /\ \E h \in S : Holding[h] = x
      <4>1. x # NULL
        BY <1>e, <3>1, PagedirAssumption, Zenon
      <4>2. CASE \E u \in UPages : pte[current][u].p /\ x = pte[current][u].kpage
        <5>1. PICK u \in UPages : pte[current][u].p /\ x = pte[current][u].kpage
          BY <4>2, Zenon
        <5>2. <<"frame", current, u>> \in S /\ Holding[<<"frame", current, u>>] = x
          BY <1>a, <5>1, Holders, HeldNow, Zenon DEF HeldAre
        <5> QED
          BY <4>1, <5>2, Zenon
      <4>3. CASE \E n \in Tables : x = pde[current][n]
        <5>1. PICK n \in Tables : x = pde[current][n]
          BY <4>3, Zenon
        <5>2. <<"table", current, n>> \in S /\ Holding[<<"table", current, n>>] = x
          BY <1>a, <5>1, Holders, HeldNow, Zenon DEF HeldAre
        <5> QED
          BY <4>1, <5>2, Zenon
      <4> QED
        BY <3>1, <4>2, <4>3, Zenon DEF Owned, pagedir_get_page
    <3>2. \E h \in S : Holding[h] = exiting[current].pd
      <4>1. /\ <<"directory", current, 0>> \in S
            /\ Holding[<<"directory", current, 0>>] = exiting[current].pd
        BY <1>a, <1>b, Holders, HeldNow, Zenon DEF HeldAre
      <4> QED
        BY <4>1, Zenon
    <3>3. ASSUME NEW h \in S, Holding[h] = x, x # NULL
          PROVE  x \in Owned(current) \cup {exiting[current].pd}
      <4>1. CASE \E t \in Thread : h = <<"directory", t, 0>>
        BY <1>a, <1>b, <3>3, <4>1, HeldNow, SMTT(30) DEF HeldAre
      <4>2. CASE \E t \in Thread, n \in Tables : h = <<"table", t, n>>
        BY <3>3, <4>2, HeldNow DEF HeldAre, Owned
      <4>3. CASE \E t \in Thread, u \in UPages : h = <<"frame", t, u>>
        <5>1. PICK u \in UPages : h = <<"frame", current, u>>
          BY <3>3, <4>3
        <5>2. pte[current][u].p /\ pte[current][u].kpage = x
          BY <1>a, <3>3, <5>1, HeldNow, Zenon DEF HeldAre
        <5>3. pagedir_get_page(current, u)
          BY <1>a, <5>2, Zenon DEF DirectoryOrNone, pagedir_get_page
        <5> QED
          BY <5>2, <5>3, Zenon DEF Owned
      <4> QED
        BY <3>3, <4>1, <4>2, <4>3, Holders, Zenon
    <3> QED
      BY <1>a, <1>b, <3>1, <3>2, <3>3, Zenon
  <2>3. S \in SUBSET Holder /\ free_pages \subseteq KPage /\ OwnedOnce(Holding, free_pages)
    BY Zenon DEF PagedirTypeOK
  <2>4. \A x : x \in E <=> x \in free_pages \/ (x # NULL /\ \E h \in S : Holding[h] = x)
    BY <2>2, Zenon
  <2> HIDE DEF S, E
  <2>5. OwnedOnce(Holding', E)
    BY <2>1, <2>3, <2>4, OwnGive
  <2> QED
    BY <2>5, OwnedNext, Zenon DEF E
<1> QED
  BY <1>1, <1>2, <1>3, <1>4, <1>5, <1>6, Zenon

\* No step disturbs the invariant of the page directories.
LEMMA PagedirNextInv ==
  ASSUME Least, PagedirInv, [PagedirNext]_pagedirVars PROVE PagedirInv'
<1>1. CASE PagedirNext
  BY <1>1, SwitchKeeps, CreateKeeps, ForgetKeeps, LeaveKeeps, DestroyKeeps, SetPageKeeps,
     ClearPageKeeps, SetAccessedKeeps, SetDirtyKeeps, AccessKeeps, Zenon DEF PagedirNext
<1>2. CASE UNCHANGED pagedirVars
  <2> USE <1>2 DEF pagedirVars, PagedirInv
  <2>1. PagedirTypeOK' /\ DirectoryOrNone' /\ ActiveIsCurrent'
    BY SMTT(30) DEF PagedirTypeOK, DirectoryOrNone, ActiveIsCurrent
  <2>2. CachedIsMapped' /\ BitsTell'
    BY Zenon DEF CachedIsMapped, BitsTell
  <2>3. OwnedOnce(Holding, free_pages)'
    BY HoldingKept, Zenon
  <2> QED
    BY <2>1, <2>2, <2>3, SMTT(30)
<1> QED
  BY <1>1, <1>2, Zenon

\* The invariant implies what callers of pagedir.c rely on.
LEMMA PagedirInvSound == PagedirInv => PageTablesSound
<1> SUFFICES ASSUME PagedirInv PROVE PageTablesSound
  BY Zenon
<1> USE DEF PagedirInv
<1>1. TranslationsCurrent
  <2>1. current \in Thread /\ cr3 \in {NULL, pagedir[current], exiting[current].pd}
    BY Zenon DEF ActiveIsCurrent, PagedirTypeOK
  <2>2. cr3 # NULL => cr3 = Holding[<<"directory", current, 0>>]
    BY <2>1, HeldNow, Zenon DEF HeldAre, DirectoryOrNone, ActiveIsCurrent
  <2>3. cr3 # NULL => cr3 \notin free_pages
    BY <2>1, <2>2, Holders, ZenonT(40) DEF OwnedOnce
  <2>4. ASSUME NEW u \in DOMAIN tlb
        PROVE  /\ cr3 \in {pagedir[current], exiting[current].pd}
               /\ pagedir_get_page(current, u) /\ pte[current][u].kpage = tlb[u].kpage
               /\ pte[current][u].kpage \notin free_pages
    <3>1. u \in UPages /\ cr3 # NULL /\ pte[current][u].p /\ pte[current][u].kpage = tlb[u].kpage
      BY Zenon DEF CachedIsMapped, PagedirTypeOK
    <3>2. pagedir_get_page(current, u)
      BY <2>1, <3>1, Zenon DEF DirectoryOrNone, pagedir_get_page
    <3>3. Holding[<<"frame", current, u>>] = pte[current][u].kpage
      BY <2>1, <3>1, HeldNow, Zenon DEF HeldAre
    <3>4. pte[current][u].kpage \notin free_pages
      BY <2>1, <3>1, <3>3, Holders, Zenon DEF OwnedOnce
    <3> QED
      BY <2>1, <3>1, <3>2, <3>4, Zenon
  <2> QED
    BY <2>1, <2>3, <2>4, Zenon DEF TranslationsCurrent
<1>2. PagesOwnedOnce
  <2>1. ASSUME NEW k \in KPage, NEW x PROVE x \in UsedAs(k) <=> x \in Holder /\ Holding[x] = k
    <3>0. k # NULL
      BY PagedirAssumption, Zenon
    <3>1. ASSUME x \in UsedAs(k) PROVE x \in Holder /\ Holding[x] = k
      <4>1. CASE \E t \in Thread : k \in {pagedir[t], exiting[t].pd} /\ x = <<"directory", t, 0>>
        <5>1. PICK t \in Thread : k \in {pagedir[t], exiting[t].pd} /\ x = <<"directory", t, 0>>
          BY <4>1, Zenon
        <5>2. k = IF pagedir[t] # NULL THEN pagedir[t] ELSE exiting[t].pd
          BY <3>0, <5>1, Zenon DEF DirectoryOrNone
        <5> QED
          BY <5>1, <5>2, Holders, HeldNow, Zenon DEF HeldAre
      <4>2. CASE \E t \in Thread, n \in Tables : pde[t][n] = k /\ x = <<"table", t, n>>
        BY <4>2, Holders, HeldNow DEF HeldAre
      <4>3. CASE \E t \in Thread, u \in UPages : pagedir_get_page(t, u) /\ pte[t][u].kpage = k
                                                 /\ x = <<"frame", t, u>>
        <5>1. PICK t \in Thread, u \in UPages : pagedir_get_page(t, u) /\ pte[t][u].kpage = k /\ x = <<"frame", t, u>>
          BY <4>3, Zenon
        <5>2. pte[t][u].p
          BY <5>1, Zenon DEF pagedir_get_page
        <5> QED
          BY <5>1, <5>2, Holders, HeldNow, Zenon DEF HeldAre
      <4> QED
        BY <3>1, <4>1, <4>2, <4>3, UsedAsIs, Zenon DEF UsedFor
    <3>2. ASSUME x \in Holder, Holding[x] = k PROVE x \in UsedAs(k)
      <4>1. ASSUME NEW t \in Thread, x = <<"directory", t, 0>>  PROVE UsedFor(k, x)
        <5>1. k = IF pagedir[t] # NULL THEN pagedir[t] ELSE exiting[t].pd
          BY <3>2, <4>1, HeldNow, Zenon DEF HeldAre
        <5>2. k \in {pagedir[t], exiting[t].pd}
          BY <5>1, Zenon
        <5> QED
          BY <4>1, <5>2, Zenon DEF UsedFor
      <4>2. ASSUME NEW t \in Thread, NEW n \in Tables, x = <<"table", t, n>>  PROVE UsedFor(k, x)
        BY <3>2, <4>2, HeldNow, Zenon DEF HeldAre, UsedFor
      <4>3. ASSUME NEW t \in Thread, NEW u \in UPages, x = <<"frame", t, u>>  PROVE UsedFor(k, x)
        <5>1. pte[t][u].p /\ pte[t][u].kpage = k
          BY <3>0, <3>2, <4>3, HeldNow, Zenon DEF HeldAre
        <5>2. pagedir_get_page(t, u)
          BY <5>1, Zenon DEF DirectoryOrNone, pagedir_get_page
        <5> QED
          BY <4>3, <5>1, <5>2, Zenon DEF UsedFor
      <4> QED
        BY <3>2, <4>1, <4>2, <4>3, Holders, UsedAsIs, Zenon
    <3> QED
      BY <3>1, <3>2, Zenon
  <2>2. ASSUME NEW k \in KPage PROVE k \in free_pages <=> UsedAs(k) = {}
    <3>1. \A x : x \in UsedAs(k) <=> x \in Holder /\ Holding[x] = k
      BY <2>1, Zenon
    <3> QED
      BY <3>1, Zenon DEF OwnedOnce
  <2>3. ASSUME NEW k \in KPage, NEW x \in UsedAs(k), NEW y \in UsedAs(k) PROVE x = y
    <3>1. x \in Holder /\ y \in Holder /\ Holding[x] = k /\ Holding[y] = k /\ k # NULL
      BY <2>1, PagedirAssumption, Zenon
    <3> QED
      BY <3>1, Zenon DEF OwnedOnce
  <2> QED
    BY <2>2, <2>3, Zenon DEF PagesOwnedOnce
<1> QED
  BY <1>1, <1>2, Zenon DEF PageTablesSound

-----------------------------------------------------------------------------
(***************************************************************************)
(* syscall.c's descriptors.                                                *)
(***************************************************************************)
FdEntry == [fd_num : Nat, file : Inode, pos : Nat]

FdTypeOK ==
  /\ open_files \in [Proc -> Seq(FdEntry)]
  /\ next_fd \in [Proc -> Nat] /\ \A p \in Proc : next_fd[p] >= 2
  /\ call = [p \in Proc |-> call[p]]
  /\ alive \in [Proc -> BOOLEAN]
  /\ open_cnt \in [Inode -> Nat]

\* A call in progress has the arguments of its kind.
CallsTyped ==
  \A p \in Proc : call[p] # NULL =>
    /\ call[p].op = "open" => call[p].file \in Inode \cup {NULL}
    /\ call[p].op = "seek" => call[p].pos \in Nat
    /\ call[p].op \in {"read", "write"} => call[p].size \in Nat

\* Numbers grow along the list, up to the one sys_open gives next.
Numbered(files, next) ==
  \A p \in Proc : \A i, j \in DOMAIN files[p] :
    /\ files[p][i].fd_num \in 2 .. next[p] - 1
    /\ i < j => files[p][i].fd_num < files[p][j].fd_num

\* A number below next_fd stays so when next_fd grows.
LEMMA Below == \A k \in Nat : \A n \in 2 .. k - 1 : n \in 2 .. (k + 1) - 1 /\ n < k
OBVIOUS

\* The process has number n open on f; the descriptors open on f.
HasOpen(files, p, n, f) == \E i \in DOMAIN files[p] : files[p][i].fd_num = n /\ files[p][i].file = f
OpenBy(files, f) == {x \in Proc \X Nat : HasOpen(files, x[1], x[2], f)}

\* The counts are those of the descriptors, but for one more on l.
Counted(files, cnt, l) ==
  \A f \in Inode : /\ IsFiniteSet(OpenBy(files, f))
                   /\ cnt[f] = IF f = l THEN Cardinality(OpenBy(files, f)) + 1 ELSE Cardinality(OpenBy(files, f))

FdInv ==
  /\ FdTypeOK /\ CallsTyped
  /\ Numbered(open_files, next_fd)
  /\ \A p \in Proc : ~alive[p] => open_files[p] = <<>>

\* filesys_lock is held by a process that exits or has exited.
Stuck == \E p \in Proc : filesys_lock = p /\ (alive[p] => call[p] # NULL /\ call[p].op = "exit")

\* l is the file sys_open has lost a struct file of, or NULL.
FdCount(l) == Counted(open_files, open_cnt, l) /\ (l # NULL => Stuck)

\* While a call holds filesys_lock nothing is lost.
LEMMA NotStuck ==
  ASSUME NEW l, FdCount(l), NEW p \in Proc, NEW op, Inside(p, op), op # "exit"
  PROVE  l = NULL
BY Zenon DEF FdCount, Stuck, Inside

\* Counting numbers is counting struct files.
LEMMA OpenOnIs == FdTypeOK => \A f \in Inode : OpenOn(f) = OpenBy(open_files, f)
PROOF
<1> SUFFICES ASSUME FdTypeOK, NEW f \in Inode  PROVE OpenOn(f) = OpenBy(open_files, f)
  BY Zenon
<1>1. \A p \in Proc : \A i \in DOMAIN open_files[p] : open_files[p][i].fd_num \in Nat
  <2> DEFINE T == FdEntry
  <2>1. \A e \in T : e.fd_num \in Nat
    BY Zenon DEF FdEntry
  <2>2. \A p \in Proc : open_files[p] \in Seq(T)
    BY Zenon DEF FdTypeOK
  <2> HIDE DEF T
  <2> QED
    BY <2>1, <2>2
<1>2. \A p \in Proc, n \in Nat : <<p, n>> \in OpenOn(f) <=> HasOpen(open_files, p, n, f)
  BY DEF OpenOn, On, HasOpen
<1>3. OpenOn(f) \subseteq Proc \X Nat
  <2>1. \A x \in OpenOn(f) : \E p \in Proc : \E i \in DOMAIN open_files[p] : x = <<p, open_files[p][i].fd_num>>
    BY Zenon DEF OpenOn, On
  <2> QED
    BY <2>1, <1>1
<1>4. \A x \in Proc \X Nat : x = <<x[1], x[2]>> /\ x[1] \in Proc /\ x[2] \in Nat
  OBVIOUS
<1>5. \A x \in Proc \X Nat : x \in OpenOn(f) <=> HasOpen(open_files, x[1], x[2], f)
  BY <1>2, <1>4, SMTT(30)
<1> QED
  BY <1>3, <1>5, Zenon DEF OpenBy

\* At first no process has a file open.
LEMMA FdInitInv == ASSUME Counting, FdTableInit PROVE FdInv /\ FdCount(NULL)
PROOF
<1>1. FdTypeOK
  <2> DEFINE T == FdEntry
  <2> HIDE DEF T
  <2>1. <<>> \in Seq(T)
    OBVIOUS
  <2>2. open_files \in [Proc -> Seq(T)]
    BY <2>1, Zenon DEF FdTableInit
  <2>3. call = [p \in Proc |-> call[p]]
    BY Zenon DEF FdTableInit
  <2> QED
    BY <2>2, <2>3 DEF FdTableInit, FdTypeOK, T
<1>2. CallsTyped
  BY Zenon DEF FdTableInit, CallsTyped
<1>3. \A p \in Proc : open_files[p] = <<>> /\ DOMAIN open_files[p] = {}
  BY DEF FdTableInit
<1>4. \A f \in Inode : OpenBy(open_files, f) = {}
  BY <1>3, Zenon DEF OpenBy, HasOpen
<1>5. Counted(open_files, open_cnt, NULL)
  BY <1>4, FdTableAssumption, Zenon DEF Counting, Counted, FdTableInit
<1>6. Numbered(open_files, next_fd)
  BY <1>3, Zenon DEF Numbered
<1> QED
  BY <1>1, <1>2, <1>3, <1>5, <1>6, Zenon DEF FdInv, FdCount

\* What the proof needs of a list of descriptors.
LEMMA FdEntries ==
  ASSUME FdTypeOK, NEW p \in Proc
  PROVE  /\ open_files[p] \in Seq(FdEntry) /\ Len(open_files[p]) \in Nat
         /\ DOMAIN open_files[p] = 1 .. Len(open_files[p])
         /\ \A i \in DOMAIN open_files[p] :
              /\ open_files[p][i] \in FdEntry
              /\ open_files[p][i].fd_num \in Nat /\ open_files[p][i].file \in Inode
              /\ open_files[p][i].pos \in Nat
PROOF
<1> DEFINE T == FdEntry
<1>1. \A e \in T : e.fd_num \in Nat /\ e.file \in Inode /\ e.pos \in Nat
  BY Zenon DEF FdEntry
<1>2. open_files[p] \in Seq(T)
  BY Zenon DEF FdTypeOK
<1> HIDE DEF T
<1>3. Len(open_files[p]) \in Nat /\ DOMAIN open_files[p] = 1 .. Len(open_files[p])
      /\ \A i \in DOMAIN open_files[p] : open_files[p][i] \in T
  BY <1>2
<1> QED
  BY <1>1, <1>2, <1>3, Zenon DEF T

\* Steps that open and close nothing leave the counts alone.
LEMMA SameDescriptors ==
  ASSUME NEW old, NEW new,
         \A p \in Proc : /\ DOMAIN new[p] = DOMAIN old[p]
                         /\ \A i \in DOMAIN old[p] : new[p][i].fd_num = old[p][i].fd_num
                                                     /\ new[p][i].file = old[p][i].file
  PROVE  /\ \A f \in Inode : OpenBy(new, f) = OpenBy(old, f)
         /\ \A cnt, l : Counted(old, cnt, l) => Counted(new, cnt, l)
         /\ \A next : Numbered(old, next) => Numbered(new, next)
PROOF
<1>1. \A f \in Inode : \A p \in Proc : \A n : HasOpen(new, p, n, f) <=> HasOpen(old, p, n, f)
  BY DEF HasOpen
<1>2. \A x \in Proc \X Nat : x[1] \in Proc
  BY Zenon
<1>3. \A f \in Inode : OpenBy(new, f) = OpenBy(old, f)
  BY <1>1, <1>2, Zenon DEF OpenBy
<1>4. \A cnt, l : Counted(old, cnt, l) => Counted(new, cnt, l)
  BY <1>3, Zenon DEF Counted
<1>5. \A next : Numbered(old, next) => Numbered(new, next)
  BY DEF Numbered
<1> QED
  BY <1>3, <1>4, <1>5, SMTT(30)

\* Leaving a call keeps the other calls.
LEMMA EndCallKeeps ==
  ASSUME FdTypeOK, CallsTyped, NEW p \in Proc, Leave(p)
  PROVE  /\ call' = [q \in Proc |-> call'[q]] /\ alive' = alive
         /\ CallsTyped'
PROOF
<1>1. call' = [call EXCEPT ![p] = NULL] /\ alive' = alive
  BY Zenon DEF Leave
<1>2. call = [q \in Proc |-> call[q]]
  BY Zenon DEF FdTypeOK
<1>3. call' = [q \in Proc |-> call'[q]] /\ \A q \in Proc : call'[q] = IF q = p THEN NULL ELSE call[q]
  BY <1>1, <1>2, Zenon
<1>4. CallsTyped'
  BY <1>3, Zenon DEF CallsTyped
<1> QED
  BY <1>1, <1>3, <1>4, Zenon

\* Entering a call, taking filesys_lock, and the calls that change no list.
LEMMA QuietKeeps ==
  ASSUME FdInv, NEW l, FdCount(l), NEW p \in Proc, Enter(p) \/ lock_acquire(p) \/ Look(p) \/ KeyPressed(p)
  PROVE  FdInv' /\ FdCount(l)'
PROOF
<1>i. FdTypeOK /\ CallsTyped /\ Numbered(open_files, next_fd)
      /\ \A q \in Proc : ~alive[q] => open_files[q] = <<>>
  BY Zenon DEF FdInv
<1>1. UNCHANGED <<open_files, next_fd, open_cnt, alive>>
  BY Zenon DEF Enter, lock_acquire, Look, KeyPressed, Leave
<1>2. CallsTyped' /\ call' = [q \in Proc |-> call'[q]]
  <2>1. CASE Enter(p)
    <3>1. PICK c \in Calls(p) : call' = [call EXCEPT ![p] = c]
      BY <2>1, Zenon DEF Enter
    <3>2. call = [q \in Proc |-> call[q]]
      BY <1>i, Zenon DEF FdTypeOK
    <3>3. call' = [q \in Proc |-> call'[q]] /\ \A q \in Proc : call'[q] = IF q = p THEN c ELSE call[q]
      BY <3>1, <3>2, Zenon
    <3>4. /\ c.op = "open" => c.file \in Inode \cup {NULL}
          /\ c.op = "seek" => c.pos \in Nat
          /\ c.op \in {"read", "write"} => c.size \in Nat
      BY FdTableAssumption, SMTT(30) DEF Calls
    <3>5. CallsTyped'
      BY <3>3, <3>4, <1>i, Zenon DEF CallsTyped
    <3> QED
      BY <3>3, <3>5, SMTT(30)
  <2>2. CASE lock_acquire(p)
    <3>1. call' = call
      BY <2>2, Zenon DEF lock_acquire
    <3> QED
      BY <3>1, <1>i, Zenon DEF CallsTyped, FdTypeOK
  <2>3. CASE Look(p) \/ KeyPressed(p)
    BY <2>3, <1>i, EndCallKeeps, SMTT(30) DEF Look, KeyPressed
  <2> QED
    BY <2>1, <2>2, <2>3, Zenon
<1>3. FdTypeOK'
  BY <1>1, <1>2, <1>i, Zenon DEF FdTypeOK
<1>4. FdInv'
  BY <1>1, <1>2, <1>3, <1>i, SMTT(30) DEF FdInv
<1>5. Counted(open_files, open_cnt, l)'
  BY <1>1, Zenon DEF FdCount, Counted, OpenBy, HasOpen
<1>6. l # NULL => Stuck'
  <2>1. CASE Enter(p)
    <3> SUFFICES ASSUME l # NULL PROVE Stuck'
      BY Zenon
    <3>1. PICK q \in Proc : filesys_lock = q /\ (alive[q] => call[q] # NULL /\ call[q].op = "exit")
      BY Zenon DEF FdCount, Stuck
    <3>2. p # q \/ ~alive[q]
      BY <2>1, <3>1, Zenon DEF Enter
    <3>3. alive[p] /\ filesys_lock' = filesys_lock /\ \E c : call' = [call EXCEPT ![p] = c]
      BY <2>1, Zenon DEF Enter
    <3>4. call'[q] = call[q]
      BY <1>i, <3>2, <3>3, Zenon DEF FdTypeOK
    <3> QED
      BY <1>1, <3>1, <3>3, <3>4, Zenon DEF Stuck
  <2>2. CASE lock_acquire(p)
    BY <2>2, FdTableAssumption, Zenon DEF lock_acquire, FdCount, Stuck
  <2>3. CASE Look(p) \/ KeyPressed(p)
    <3>1. PICK op \in {"filesize", "tell", "read"} : Inside(p, op)
      BY <2>3, Zenon DEF Look, KeyPressed
    <3>2. op # "exit"
      BY <3>1
    <3> QED
      BY <3>1, <3>2, NotStuck, Zenon
  <2> QED
    BY <2>1, <2>2, <2>3, Zenon
<1> QED
  BY <1>4, <1>5, <1>6, Zenon DEF FdCount

\* The lists after sys_seek, sys_read or sys_write: one position has moved.
OneMoves(p) ==
  \E to \in [DOMAIN open_files[p] -> Nat] :
    open_files' = [open_files EXCEPT ![p] =
      [i \in DOMAIN open_files[p] |-> IF i \in retrieve_file(p, call[p].fd)
                                      THEN [open_files[p][i] EXCEPT !.pos = to[i]] ELSE open_files[p][i]]]

\* seek, read and write move the position of one descriptor of their process.
LEMMA MoveIs ==
  ASSUME FdInv, NEW p \in Proc, sys_seek(p) \/ sys_transfer(p)
  PROVE  /\ OneMoves(p) /\ Leave(p) /\ UNCHANGED <<next_fd, open_cnt>>
         /\ filesys_lock = p
PROOF
<1>i. FdTypeOK /\ CallsTyped
  BY Zenon DEF FdInv
<1>1. Leave(p) /\ UNCHANGED <<next_fd, open_cnt>> /\ filesys_lock = p
  BY Zenon DEF sys_seek, sys_transfer, Inside
<1>2. CASE sys_seek(p)
  <2>1. call[p].pos \in Nat
    BY <1>2, <1>i, SMTT(30) DEF sys_seek, Inside, CallsTyped
  <2> DEFINE to == [i \in DOMAIN open_files[p] |-> call[p].pos]
  <2>2. to \in [DOMAIN open_files[p] -> Nat] /\ \A i \in DOMAIN open_files[p] : to[i] = call[p].pos
    BY <2>1, Zenon
  <2>3. open_files' = [open_files EXCEPT ![p] =
          [i \in DOMAIN open_files[p] |-> IF i \in retrieve_file(p, call[p].fd)
                                          THEN [open_files[p][i] EXCEPT !.pos = to[i]] ELSE open_files[p][i]]]
    BY <1>2, <1>i, ZenonT(40) DEF sys_seek, FdTypeOK
  <2> HIDE DEF to
  <2> QED
    BY <1>1, <2>2, <2>3, Zenon DEF OneMoves
<1>3. CASE sys_transfer(p)
  <2>1. call[p].size \in Nat
    BY <1>3, <1>i, Zenon DEF sys_transfer, Inside, CallsTyped
  <2> DEFINE to == [i \in DOMAIN open_files[p] |-> open_files[p][i].pos + Moved(open_files[p][i].pos, call[p].size)]
  <2>2. \A i \in DOMAIN open_files[p] : open_files[p][i].pos \in Nat
    BY <1>i, FdEntries, Zenon
  <2>3. \A n \in Nat : n + Moved(n, call[p].size) \in Nat
    BY <2>1, FdTableAssumption, SMTT(30) DEF Moved
  <2>4. to \in [DOMAIN open_files[p] -> Nat]
    BY <2>2, <2>3, Zenon
  <2> DEFINE moved == [i \in DOMAIN open_files[p] |->
                         IF i \in retrieve_file(p, call[p].fd)
                         THEN Advanced(open_files[p][i], call[p].size) ELSE open_files[p][i]]
  <2>5. open_files' = [open_files EXCEPT ![p] = moved]
    BY <1>3, Zenon DEF sys_transfer
  <2>6. moved = [i \in DOMAIN open_files[p] |-> IF i \in retrieve_file(p, call[p].fd)
                                                THEN [open_files[p][i] EXCEPT !.pos = to[i]] ELSE open_files[p][i]]
    <3>1. \A i \in DOMAIN open_files[p] : to[i] = open_files[p][i].pos + Moved(open_files[p][i].pos, call[p].size)
      BY Zenon
    <3> HIDE DEF to
    <3>2. \A i \in DOMAIN open_files[p] :
            Advanced(open_files[p][i], call[p].size) = [open_files[p][i] EXCEPT !.pos = to[i]]
      BY <3>1, Zenon DEF Advanced
    <3> QED
      BY <3>2, Zenon
  <2> HIDE DEF to, moved
  <2> QED
    BY <1>1, <2>4, <2>5, <2>6, Zenon DEF OneMoves
<1> QED
  BY <1>2, <1>3, SMTT(30)

\* A number stands at one place of a list.
LEMMA OnePlace ==
  ASSUME FdInv, NEW p \in Proc, NEW i \in DOMAIN open_files[p], NEW j \in DOMAIN open_files[p],
         open_files[p][i].fd_num = open_files[p][j].fd_num
  PROVE  i = j
PROOF
<1>1. DOMAIN open_files[p] = 1 .. Len(open_files[p]) /\ open_files[p][i].fd_num \in Nat
  BY FdEntries, Zenon DEF FdInv
<1>2. /\ i < j => open_files[p][i].fd_num < open_files[p][j].fd_num
      /\ j < i => open_files[p][j].fd_num < open_files[p][i].fd_num
  BY Zenon DEF FdInv, Numbered
<1>3. i \in Nat /\ j \in Nat
  BY <1>1
<1> QED
  BY <1>1, <1>2, <1>3

\* sys_seek, sys_read and sys_write.
LEMMA FdMoveKeeps ==
  ASSUME FdInv, NEW l, FdCount(l), NEW p \in Proc, sys_seek(p) \/ sys_transfer(p)
  PROVE  FdInv' /\ FdCount(l)' /\ PositionsIndependent
PROOF
<1>i. FdTypeOK /\ CallsTyped /\ Numbered(open_files, next_fd)
      /\ \A q \in Proc : ~alive[q] => open_files[q] = <<>>
  BY Zenon DEF FdInv
<1>1. OneMoves(p) /\ Leave(p) /\ UNCHANGED <<next_fd, open_cnt>> /\ filesys_lock = p
  BY MoveIs, Zenon
<1>2. CallsTyped' /\ alive' = alive /\ call' = [q \in Proc |-> call'[q]]
  BY <1>1, <1>i, EndCallKeeps, Zenon
<1>3. PICK to \in [DOMAIN open_files[p] -> Nat] :
        open_files' = [open_files EXCEPT ![p] =
          [i \in DOMAIN open_files[p] |-> IF i \in retrieve_file(p, call[p].fd)
                                          THEN [open_files[p][i] EXCEPT !.pos = to[i]] ELSE open_files[p][i]]]
  BY <1>1, Zenon DEF OneMoves
<1>4. open_files \in [Proc -> Seq(FdEntry)]
  BY <1>i, Zenon DEF FdTypeOK
<1>5. \A q \in Proc : q # p => open_files'[q] = open_files[q]
  BY <1>3, <1>4, Zenon
<1>6. open_files'[p] = [i \in DOMAIN open_files[p] |->
                         IF i \in retrieve_file(p, call[p].fd)
                         THEN [open_files[p][i] EXCEPT !.pos = to[i]] ELSE open_files[p][i]]
  BY <1>3, <1>4, Zenon
<1>7. \A i \in DOMAIN open_files[p] :
        /\ open_files'[p][i] \in FdEntry
        /\ open_files'[p][i].fd_num = open_files[p][i].fd_num
        /\ open_files'[p][i].file = open_files[p][i].file
        /\ open_files'[p][i] # open_files[p][i] => open_files[p][i].fd_num = call[p].fd
  <2> TAKE i \in DOMAIN open_files[p]
  <2>1. open_files[p][i] \in FdEntry
    BY <1>i, FdEntries, Zenon
  <2>2. to[i] \in Nat
    BY Zenon
  <2>3. \A e \in FdEntry, n \in Nat : /\ [e EXCEPT !.pos = n] \in FdEntry
                                      /\ [e EXCEPT !.pos = n].fd_num = e.fd_num
                                      /\ [e EXCEPT !.pos = n].file = e.file
    BY Zenon DEF FdEntry
  <2>4. CASE i \in retrieve_file(p, call[p].fd)
    <3>1. open_files'[p][i] = [open_files[p][i] EXCEPT !.pos = to[i]] /\ open_files[p][i].fd_num = call[p].fd
      <4>1. i # 0
        BY <1>i, FdEntries
      <4>2. i \in {j \in DOMAIN open_files[p] : open_files[p][j].fd_num = call[p].fd}
        BY <2>4, <4>1, Zenon DEF retrieve_file
      <4> QED
        BY <1>6, <2>4, <4>2, Zenon
    <3>2. /\ [open_files[p][i] EXCEPT !.pos = to[i]] \in FdEntry
          /\ [open_files[p][i] EXCEPT !.pos = to[i]].fd_num = open_files[p][i].fd_num
          /\ [open_files[p][i] EXCEPT !.pos = to[i]].file = open_files[p][i].file
      BY <2>1, <2>2, <2>3, Zenon
    <3> QED
      BY <3>1, <3>2, Zenon
  <2>5. CASE i \notin retrieve_file(p, call[p].fd)
    <3>1. open_files'[p][i] = open_files[p][i]
      BY <1>6, <2>5, Zenon
    <3> QED
      BY <3>1, <2>1, Zenon
  <2> QED
    BY <2>4, <2>5, Zenon
<1>8. open_files' \in [Proc -> Seq(FdEntry)] /\ DOMAIN open_files'[p] = DOMAIN open_files[p]
  <2> DEFINE T == FdEntry
  <2>1. \A i \in DOMAIN open_files[p] : open_files'[p][i] \in T
    BY <1>7, Zenon
  <2>2. open_files \in [Proc -> Seq(T)]
    BY <1>4, Zenon
  <2> DEFINE new == open_files'[p]
  <2>3. new = [i \in DOMAIN open_files[p] |-> new[i]] /\ DOMAIN new = DOMAIN open_files[p]
    BY <1>6, Zenon
  <2> HIDE DEF T
  <2>4. DOMAIN open_files[p] = 1 .. Len(open_files[p]) /\ Len(open_files[p]) \in Nat
    BY <2>2
  <2>5. \A i \in DOMAIN open_files[p] : new[i] \in T
    BY <2>1, Zenon
  <2> HIDE DEF new
  <2>6. new \in Seq(T)
    <3> DEFINE n == Len(open_files[p])
    <3>1. n \in Nat /\ DOMAIN open_files[p] = 1 .. n
      BY <2>4, Zenon
    <3> HIDE DEF n
    <3>2. new \in [1 .. n -> T]
      BY <3>1, <2>3, <2>5, Zenon
    <3> QED
      BY <3>1, <3>2
  <2>7. open_files' = [open_files EXCEPT ![p] = new]
    BY <1>3, <1>6, Zenon DEF new
  <2>8. open_files' \in [Proc -> Seq(T)]
    BY <2>2, <2>6, <2>7, Zenon
  <2> QED
    BY <2>3, <2>8, SMTT(30) DEF T, new
<1>9. \A q \in Proc : /\ DOMAIN open_files'[q] = DOMAIN open_files[q]
                      /\ \A i \in DOMAIN open_files[q] : open_files'[q][i].fd_num = open_files[q][i].fd_num
                                                         /\ open_files'[q][i].file = open_files[q][i].file
  BY <1>5, <1>7, <1>8, Zenon
<1>10. Counted(open_files', open_cnt, l) /\ Numbered(open_files', next_fd)
  BY <1>9, <1>i, SameDescriptors, Zenon DEF FdCount
<1>11. FdTypeOK'
  BY <1>1, <1>2, <1>8, <1>i, Zenon DEF FdTypeOK
<1>12. \A q \in Proc : ~alive'[q] => open_files'[q] = <<>>
  <2>1. alive[p]
    BY Zenon DEF sys_seek, sys_transfer, Inside
  <2> QED
    BY <2>1, <1>2, <1>5, <1>i, Zenon
<1>13. FdInv' /\ FdCount(l)'
  <2>1. PICK op \in {"seek", "read", "write"} : Inside(p, op)
    BY Zenon DEF sys_seek, sys_transfer
  <2>2. op # "exit"
    BY <2>1
  <2>3. l = NULL
    BY <2>1, <2>2, NotStuck, Zenon
  <2> QED
    BY <1>1, <1>2, <1>10, <1>11, <1>12, <2>3, SMTT(30) DEF FdInv, FdCount
<1>14. ASSUME NEW q \in Proc, NEW i \in DOMAIN open_files[q], NEW j \in DOMAIN open_files'[q],
              open_files[q][i].fd_num = open_files'[q][j].fd_num, open_files[q][i] # open_files'[q][j]
       PROVE  open_files[q][i].file = open_files'[q][j].file /\ filesys_lock = q /\ call[q].fd = open_files[q][i].fd_num
  <2>1. j \in DOMAIN open_files[q] /\ open_files[q][i].fd_num = open_files[q][j].fd_num
    BY <1>9, <1>14, Zenon
  <2>2. i = j
    BY <2>1, OnePlace, Zenon
  <2>3. q = p
    BY <2>2, <1>5, <1>14, Zenon
  <2> QED
    BY <2>2, <2>3, <1>1, <1>7, <1>14, ZenonT(40)
<1>15. PositionsIndependent
  BY <1>14, Zenon DEF PositionsIndependent
<1> QED
  BY <1>13, <1>15, SMTT(30)

\* Descriptors that are as they were, or have numbers never given before, have
\* not moved.
LEMMA PositionsStay ==
  ASSUME FdInv,
         \A p \in Proc : \A j \in DOMAIN open_files'[p] :
           \/ \E i \in DOMAIN open_files[p] : open_files'[p][j] = open_files[p][i]
           \/ open_files'[p][j].fd_num = next_fd[p]
  PROVE  PositionsIndependent
PROOF
<1>1. ASSUME NEW p \in Proc, NEW i \in DOMAIN open_files[p], NEW j \in DOMAIN open_files'[p],
             open_files[p][i].fd_num = open_files'[p][j].fd_num
      PROVE  open_files[p][i] = open_files'[p][j]
  <2>1. open_files'[p][j].fd_num # next_fd[p]
    <3>1. open_files[p][i].fd_num \in 2 .. next_fd[p] - 1 /\ next_fd[p] \in Nat
      BY SMTT(30) DEF FdInv, Numbered, FdTypeOK
    <3> QED
      BY <3>1, <1>1, SMTT(30)
  <2>2. PICK k \in DOMAIN open_files[p] : open_files'[p][j] = open_files[p][k]
    BY <2>1, Zenon
  <2>3. k = i
    BY <2>2, <1>1, OnePlace
  <2> QED
    BY <2>2, <2>3, Zenon
<1> QED
  BY <1>1, Zenon DEF PositionsIndependent

\* Steps that leave every list alone.
LEMMA SamePositions ==
  ASSUME FdInv, open_files' = open_files
  PROVE  PositionsIndependent
PROOF
<1> QED
  BY PositionsStay, Zenon

\* sys_open.
LEMMA FdOpenKeeps ==
  ASSUME Counting, FdInv, NEW l, FdCount(l), NEW p \in Proc, sys_open(p)
  PROVE  FdInv' /\ FdCount(l)' /\ PositionsIndependent
PROOF
<1>i. FdTypeOK /\ CallsTyped /\ Numbered(open_files, next_fd)
      /\ \A q \in Proc : ~alive[q] => open_files[q] = <<>>
  BY Zenon DEF FdInv
<1>l. /\ l = NULL
      /\ \A f \in Inode : IsFiniteSet(OpenBy(open_files, f)) /\ open_cnt[f] = Cardinality(OpenBy(open_files, f))
  <2>1. Inside(p, "open") /\ "open" # "exit"
    BY DEF sys_open
  <2>2. l = NULL
    BY <2>1, NotStuck, Zenon
  <2> QED
    BY <2>2, FdTableAssumption, Zenon DEF FdCount, Counted
<1>1. Leave(p) /\ alive[p] /\ call[p].file \in Inode \cup {NULL}
  BY <1>i, Zenon DEF sys_open, Inside, CallsTyped
<1>2. CallsTyped' /\ alive' = alive /\ call' = [q \in Proc |-> call'[q]]
  BY <1>1, <1>i, EndCallKeeps, Zenon
<1>3. CASE call[p].file = NULL
  <2>1. UNCHANGED <<open_files, next_fd, open_cnt>>
    BY <1>3, Zenon DEF sys_open
  <2>2. FdTypeOK'
    BY <2>1, <1>2, <1>i, SMTT(30) DEF FdTypeOK
  <2>3. FdInv'
    BY <2>1, <2>2, <1>2, <1>i, SMTT(30) DEF FdInv
  <2>4. FdCount(l)'
    <3>1. Counted(open_files, open_cnt, l)'
      BY <2>1, Zenon DEF FdCount, Counted, OpenBy, HasOpen
    <3> QED
      BY <1>l, <3>1, Zenon DEF FdCount
  <2> QED
    BY <2>1, <2>3, <2>4, SamePositions, Zenon
<1>4. CASE call[p].file # NULL
  <2> DEFINE f == call[p].file
             n == next_fd[p]
             e == [fd_num |-> n, file |-> f, pos |-> 0]
             x == <<p, n>>
  <2>1. /\ open_files' = [open_files EXCEPT ![p] = Append(open_files[p], e)]
        /\ next_fd' = [next_fd EXCEPT ![p] = @ + 1]
        /\ open_cnt' = [open_cnt EXCEPT ![f] = @ + 1]
    BY <1>4, SMTT(30) DEF sys_open
  <2>2. f \in Inode /\ n \in Nat /\ e \in FdEntry /\ e.fd_num = n /\ e.file = f
    BY <1>1, <1>4, <1>i, SMTT(30) DEF FdTypeOK, FdEntry
  <2> HIDE DEF e, f, n
  <2>3. /\ open_files' \in [Proc -> Seq(FdEntry)]
        /\ \A q \in Proc : q # p => open_files'[q] = open_files[q]
        /\ open_files'[p] = Append(open_files[p], e)
    <3> DEFINE T == FdEntry
    <3>1. open_files \in [Proc -> Seq(T)] /\ e \in T
      BY <2>2, <1>i, Zenon DEF FdTypeOK
    <3> HIDE DEF T
    <3>2. Append(open_files[p], e) \in Seq(T)
      BY <3>1
    <3>3. /\ open_files' \in [Proc -> Seq(T)]
          /\ \A q \in Proc : q # p => open_files'[q] = open_files[q]
          /\ open_files'[p] = Append(open_files[p], e)
      BY <3>1, <3>2, <2>1, SMTT(30)
    <3> QED
      BY <3>3, Zenon DEF T
  <2>4. /\ Len(open_files[p]) \in Nat /\ DOMAIN open_files[p] = 1 .. Len(open_files[p])
        /\ DOMAIN open_files'[p] = 1 .. Len(open_files[p]) + 1
        /\ \A i \in 1 .. Len(open_files[p]) : open_files'[p][i] = open_files[p][i]
        /\ open_files'[p][Len(open_files[p]) + 1] = e
    <3> DEFINE T == FdEntry
    <3>1. open_files[p] \in Seq(T) /\ e \in T
      BY <2>2, <1>i, SMTT(30) DEF FdTypeOK
    <3> HIDE DEF T
    <3> QED
      BY <3>1, <2>3, SMTT(30)
  <2>5. \A i \in DOMAIN open_files'[p] : i \in DOMAIN open_files[p] \/ open_files'[p][i] = e
    BY <2>4, SMTT(30)
  <2>6. /\ next_fd' \in [Proc -> Nat] /\ (\A q \in Proc : next_fd'[q] >= 2) /\ next_fd'[p] = n + 1
        /\ \A q \in Proc : q # p => next_fd'[q] = next_fd[q]
    BY <2>1, <1>i, SMTT(30) DEF FdTypeOK, n
  <2>7. Numbered(open_files', next_fd')
    <3>1. ASSUME NEW i \in DOMAIN open_files'[p], NEW j \in DOMAIN open_files'[p]
          PROVE  /\ open_files'[p][i].fd_num \in 2 .. next_fd'[p] - 1
                 /\ i < j => open_files'[p][i].fd_num < open_files'[p][j].fd_num
      <4>1. n >= 2
        BY <1>i, SMTT(30) DEF FdTypeOK, n
      <4>2. CASE i \in DOMAIN open_files[p] /\ j \in DOMAIN open_files[p]
        <5>1. open_files'[p][i] = open_files[p][i] /\ open_files'[p][j] = open_files[p][j]
          BY <4>2, <2>4, ZenonT(40)
        <5> QED
          <6>1. /\ open_files[p][i].fd_num \in 2 .. next_fd[p] - 1
                /\ i < j => open_files[p][i].fd_num < open_files[p][j].fd_num
            BY <4>2, <1>i, Zenon DEF Numbered
          <6>2. next_fd'[p] = next_fd[p] + 1 /\ next_fd[p] \in Nat
            BY <2>2, <2>6, Zenon DEF n
          <6>3. open_files[p][i].fd_num \in 2 .. (next_fd[p] + 1) - 1
            BY <6>1, <6>2, Below, Zenon
          <6> QED
            BY <5>1, <6>1, <6>2, <6>3, Zenon
      <4>3. CASE i \in DOMAIN open_files[p] /\ j \notin DOMAIN open_files[p]
        <5>1. open_files'[p][i] = open_files[p][i] /\ open_files'[p][j] = e
          BY <4>3, <2>4, <2>5, Zenon
        <5>2. open_files[p][i].fd_num \in 2 .. n - 1
          BY <4>3, <1>i, Zenon DEF Numbered, n
        <5>3. open_files[p][i].fd_num \in 2 .. (n + 1) - 1 /\ open_files[p][i].fd_num < n
          BY <5>2, <2>2, Below, Zenon
        <5> QED
          BY <5>1, <5>3, <2>2, <2>6, Zenon
      <4>4. CASE i \notin DOMAIN open_files[p]
        <5>1. open_files'[p][i] = e /\ ~(i < j)
          BY <4>4, <2>4, SMTT(30)
        <5> QED
          BY <5>1, <4>1, <2>2, <2>6, SMTT(30)
      <4> QED
        BY <4>2, <4>3, <4>4, Zenon
    <3> QED
      BY <3>1, <2>3, <2>6, <1>i, Zenon DEF Numbered
  <2>8. \A q \in Proc, m \in Nat, g \in Inode :
          HasOpen(open_files', q, m, g) <=> HasOpen(open_files, q, m, g) \/ (<<q, m>> = x /\ g = f)
    <3>1. Len(open_files[p]) + 1 \in DOMAIN open_files'[p] /\ DOMAIN open_files[p] \subseteq DOMAIN open_files'[p]
      BY <2>4, SMTT(30)
    <3>2. \A m \in Nat, g \in Inode : HasOpen(open_files', p, m, g) <=> HasOpen(open_files, p, m, g) \/ (m = n /\ g = f)
      BY <3>1, <2>2, <2>4, <2>5, Zenon DEF HasOpen
    <3>3. \A q \in Proc, m \in Nat, g \in Inode : q # p => (HasOpen(open_files', q, m, g) <=> HasOpen(open_files, q, m, g))
      BY <2>3, Zenon DEF HasOpen
    <3> QED
      BY <3>2, <3>3, SMTT(30)
  <2>9. ~HasOpen(open_files, p, n, f)
    BY <2>2, <1>i, SMTT(30) DEF HasOpen, Numbered, n
  <2>10. \A g \in Inode : OpenBy(open_files', g) = IF g = f THEN OpenBy(open_files, f) \cup {x} ELSE OpenBy(open_files, g)
    <3>1. x \in Proc \X Nat /\ x[1] = p /\ x[2] = n
      BY <2>2, Zenon
    <3>2. \A y \in Proc \X Nat : y = <<y[1], y[2]>> /\ y[1] \in Proc /\ y[2] \in Nat
      OBVIOUS
    <3>3. \A y \in Proc \X Nat, g \in Inode :
            HasOpen(open_files', y[1], y[2], g) <=> HasOpen(open_files, y[1], y[2], g) \/ (y = x /\ g = f)
      BY <3>2, <2>8
    <3> HIDE DEF x
    <3> QED
      BY <3>1, <3>3, Zenon DEF OpenBy
  <2>11. x \notin OpenBy(open_files, f)
    BY <2>9, Zenon DEF OpenBy
  <2>12. open_cnt' \in [Inode -> Nat] /\ \A g \in Inode : open_cnt'[g] = IF g = f THEN open_cnt[f] + 1 ELSE open_cnt[g]
    BY <2>1, <2>2, <1>i DEF FdTypeOK
  <2>13. Counted(open_files', open_cnt', l)
    <3> HIDE DEF x
    <3>1. IsFiniteSet(OpenBy(open_files, f)) /\ open_cnt[f] = Cardinality(OpenBy(open_files, f))
      BY <2>2, <1>l, Zenon
    <3>2. IsFiniteSet(OpenBy(open_files, f) \cup {x})
          /\ Cardinality(OpenBy(open_files, f) \cup {x}) = Cardinality(OpenBy(open_files, f)) + 1
      BY <3>1, <2>11, Zenon DEF Counting
    <3> QED
      BY <3>1, <3>2, <2>10, <2>12, <1>l, FdTableAssumption, Zenon DEF Counted
  <2>14. FdTypeOK'
    BY <2>3, <2>6, <2>12, <1>2, <1>i, SMTT(30) DEF FdTypeOK
  <2>15. FdInv' /\ FdCount(l)'
    <3>1. \A q \in Proc : ~alive'[q] => open_files'[q] = <<>>
      BY <2>3, <1>1, <1>2, <1>i, Zenon
    <3> QED
      BY <3>1, <2>7, <2>13, <2>14, <1>2, <1>l, SMTT(30) DEF FdInv, FdCount
  <2>16. \A q \in Proc : \A j \in DOMAIN open_files'[q] :
           \/ \E i \in DOMAIN open_files[q] : open_files'[q][j] = open_files[q][i]
           \/ open_files'[q][j].fd_num = next_fd[q]
    <3>1. \A j \in DOMAIN open_files'[p] :
           \/ \E i \in DOMAIN open_files[p] : open_files'[p][j] = open_files[p][i]
           \/ open_files'[p][j].fd_num = next_fd[p]
      BY <2>2, <2>4, <2>5, Zenon DEF n
    <3> QED
      BY <3>1, <2>3, Zenon
  <2> QED
    BY <2>15, <2>16, PositionsStay, Zenon
<1> QED
  BY <1>3, <1>4, SMTT(30)

\* The process's list without its k-th descriptor, whose file is closed.
Removed(p, k) ==
  LET s == open_files[p]
      u == open_files'[p]
  IN /\ open_files' \in [Proc -> Seq(FdEntry)]
     /\ \A q \in Proc : q # p => open_files'[q] = open_files[q]
     /\ \A i \in DOMAIN u : \E j \in DOMAIN s : j # k /\ u[i] = s[j]
     /\ \A j \in DOMAIN s : j = k \/ \E i \in DOMAIN u : u[i] = s[j]
     /\ open_cnt' = [open_cnt EXCEPT ![s[k].file] = @ - 1]

\* Removing a descriptor counts one struct file less.
LEMMA RemovedKeeps ==
  ASSUME Counting, FdInv, NEW l, FdCount(l), NEW p \in Proc, NEW k \in DOMAIN open_files[p], Removed(p, k)
  PROVE  /\ Counted(open_files', open_cnt', l) /\ open_cnt' \in [Inode -> Nat]
         /\ PositionsIndependent
PROOF
<1> DEFINE s == open_files[p]
           f == s[k].file
           n == s[k].fd_num
           x == <<p, n>>
<1>i. FdTypeOK /\ Counted(open_files, open_cnt, l)
  BY Zenon DEF FdInv, FdCount
<1>1. f \in Inode /\ n \in Nat
  BY <1>i, FdEntries, Zenon
<1>2. /\ \A q \in Proc : q # p => open_files'[q] = open_files[q]
      /\ \A i \in DOMAIN open_files'[p] : \E j \in DOMAIN s : j # k /\ open_files'[p][i] = s[j]
      /\ \A j \in DOMAIN s : j = k \/ \E i \in DOMAIN open_files'[p] : open_files'[p][i] = s[j]
      /\ open_cnt' = [open_cnt EXCEPT ![f] = @ - 1]
  BY Zenon DEF Removed
<1>3. \A i \in DOMAIN s : s[i].fd_num = n => i = k
  BY OnePlace, Zenon
<1> HIDE DEF f, n
<1>4. \A q \in Proc, m \in Nat, g \in Inode :
        HasOpen(open_files', q, m, g) <=> HasOpen(open_files, q, m, g) /\ <<q, m>> # x
  <2>1. ASSUME NEW m \in Nat, NEW g \in Inode
        PROVE  HasOpen(open_files', p, m, g) <=> HasOpen(open_files, p, m, g) /\ m # n
    <3>1. ASSUME HasOpen(open_files', p, m, g)  PROVE HasOpen(open_files, p, m, g) /\ m # n
      <4>1. PICK i \in DOMAIN open_files'[p] : open_files'[p][i].fd_num = m /\ open_files'[p][i].file = g
        BY <3>1, Zenon DEF HasOpen
      <4>2. PICK j \in DOMAIN s : j # k /\ open_files'[p][i] = s[j]
        BY <1>2, Zenon
      <4>3. s[j].fd_num = m /\ s[j].file = g
        BY <4>1, <4>2, Zenon
      <4> QED
        BY <4>2, <4>3, <1>3, Zenon DEF HasOpen
    <3>2. ASSUME HasOpen(open_files, p, m, g), m # n  PROVE HasOpen(open_files', p, m, g)
      <4>1. PICK i \in DOMAIN s : s[i].fd_num = m /\ s[i].file = g
        BY <3>2, Zenon DEF HasOpen
      <4>2. i # k
        BY <3>2, <4>1, Zenon DEF n
      <4>3. PICK j \in DOMAIN open_files'[p] : open_files'[p][j] = s[i]
        BY <1>2, <4>2, Zenon
      <4> QED
        BY <4>1, <4>3, Zenon DEF HasOpen
    <3> QED
      BY <3>1, <3>2, Zenon
  <2>2. \A q \in Proc, m \in Nat, g \in Inode : q # p => (HasOpen(open_files', q, m, g) <=> HasOpen(open_files, q, m, g))
    BY <1>2, Zenon DEF HasOpen
  <2> QED
    BY <2>1, <2>2, Zenon
<1>5. HasOpen(open_files, p, n, f) /\ \A g \in Inode : HasOpen(open_files, p, n, g) => g = f
  BY <1>1, <1>3, Zenon DEF HasOpen, n, f
<1>6. \A g \in Inode : OpenBy(open_files', g) = IF g = f THEN OpenBy(open_files, f) \ {x} ELSE OpenBy(open_files, g)
  <2>1. x \in Proc \X Nat /\ x[1] = p /\ x[2] = n
    BY <1>1, Zenon
  <2>2. \A y \in Proc \X Nat : y = <<y[1], y[2]>> /\ y[1] \in Proc /\ y[2] \in Nat
    OBVIOUS
  <2>3. \A y \in Proc \X Nat, g \in Inode :
          HasOpen(open_files', y[1], y[2], g) <=> HasOpen(open_files, y[1], y[2], g) /\ y # x
    BY <2>2, <1>4, Zenon
  <2> HIDE DEF x
  <2>4. \A g \in Inode : g # f => x \notin OpenBy(open_files, g)
    BY <2>1, <1>5, SMTT(30) DEF OpenBy
  <2> QED
    BY <2>1, <2>3, <2>4, SMTT(30) DEF OpenBy
<1>7. x \in OpenBy(open_files, f)
  BY <1>1, <1>5, ZenonT(40) DEF OpenBy
<1> HIDE DEF x
<1> DEFINE old == OpenBy(open_files, f)
           c == Cardinality(old)
<1>8. IsFiniteSet(old) /\ open_cnt[f] = IF f = l THEN c + 1 ELSE c
  BY <1>1, <1>i, Zenon DEF Counted
<1>9. IsFiniteSet(old \ {x}) /\ Cardinality(old \ {x}) = c - 1
  BY <1>7, <1>8, Zenon DEF Counting
<1>10. c \in Nat /\ c - 1 \in Nat
  <2>1. Cardinality(old \ {x}) \in Nat /\ c \in Nat
    BY <1>8, <1>9, Zenon DEF Counting
  <2> QED
    BY <2>1, <1>9, Zenon
<1> HIDE DEF c
<1>11. /\ open_cnt[f] - 1 \in Nat
       /\ open_cnt[f] - 1 = IF f = l THEN (c - 1) + 1 ELSE c - 1
  BY <1>8, <1>10
<1>12. open_cnt' \in [Inode -> Nat] /\ \A g \in Inode : open_cnt'[g] = IF g = f THEN open_cnt[f] - 1 ELSE open_cnt[g]
  BY <1>1, <1>2, <1>11, <1>i, Zenon DEF FdTypeOK
<1>13. Counted(open_files', open_cnt', l)
  <2> SUFFICES ASSUME NEW g \in Inode
               PROVE  /\ IsFiniteSet(OpenBy(open_files', g))
                      /\ open_cnt'[g] = IF g = l THEN Cardinality(OpenBy(open_files', g)) + 1
                                        ELSE Cardinality(OpenBy(open_files', g))
    BY Zenon DEF Counted
  <2>1. CASE g = f
    <3>1. OpenBy(open_files', g) = old \ {x} /\ open_cnt'[g] = open_cnt[f] - 1
      BY <2>1, <1>6, <1>12, Zenon
    <3>2. Cardinality(OpenBy(open_files', g)) = c - 1 /\ IsFiniteSet(OpenBy(open_files', g))
      BY <3>1, <1>9, Zenon
    <3> QED
      BY <2>1, <3>1, <3>2, <1>11, Zenon
  <2>2. CASE g # f
    <3>1. OpenBy(open_files', g) = OpenBy(open_files, g) /\ open_cnt'[g] = open_cnt[g]
      BY <2>2, <1>6, <1>12, Zenon
    <3> QED
      BY <3>1, <1>i, Zenon DEF Counted
  <2> QED
    BY <2>1, <2>2, Zenon
<1>14. \A q \in Proc : \A j \in DOMAIN open_files'[q] :
         \E i \in DOMAIN open_files[q] : open_files'[q][j] = open_files[q][i]
  <2> TAKE q \in Proc
  <2>1. CASE q = p
    BY <2>1, <1>2, Zenon
  <2>2. CASE q # p
    BY <2>2, <1>2, Zenon
  <2> QED
    BY <2>1, <2>2, Zenon
<1>15. PositionsIndependent
  BY <1>14, PositionsStay, Zenon
<1> QED
  BY <1>12, <1>13, <1>15, Zenon

\* sys_close, which closes the first descriptor of the list or none.
LEMMA FdCloseKeeps ==
  ASSUME Counting, FdInv, NEW l, FdCount(l), NEW p \in Proc, sys_close(p)
  PROVE  FdInv' /\ FdCount(l)' /\ PositionsIndependent
PROOF
<1>i. FdTypeOK /\ CallsTyped /\ Numbered(open_files, next_fd)
      /\ \A q \in Proc : ~alive[q] => open_files[q] = <<>>
  BY Zenon DEF FdInv
<1>l. l = NULL
  <2>1. Inside(p, "close") /\ "close" # "exit"
    BY DEF sys_close
  <2> QED
    BY <2>1, NotStuck, Zenon
<1>1. Leave(p) /\ alive[p] /\ next_fd' = next_fd
  BY Zenon DEF sys_close, Inside
<1>2. CallsTyped' /\ alive' = alive /\ call' = [q \in Proc |-> call'[q]]
  BY <1>1, <1>i, EndCallKeeps, Zenon
<1>3. CASE retrieve_file(p, call[p].fd) \subseteq {0}
  <2>1. UNCHANGED <<open_files, open_cnt>>
    BY <1>3, Zenon DEF sys_close
  <2>2. FdTypeOK'
    BY <2>1, <1>1, <1>2, <1>i, SMTT(30) DEF FdTypeOK
  <2>3. FdInv'
    BY <2>1, <2>2, <1>1, <1>2, <1>i, SMTT(30) DEF FdInv
  <2>4. FdCount(l)'
    <3>1. Counted(open_files, open_cnt, l)'
      BY <2>1, Zenon DEF FdCount, Counted, OpenBy, HasOpen
    <3> QED
      BY <1>l, <3>1, Zenon DEF FdCount
  <2> QED
    BY <2>1, <2>3, <2>4, SamePositions, Zenon
<1>4. CASE ~(retrieve_file(p, call[p].fd) \subseteq {0})
  <2> DEFINE s == open_files[p]
  <2>1. /\ open_files' = [open_files EXCEPT ![p] = Tail(s)]
        /\ open_cnt' = [open_cnt EXCEPT ![s[1].file] = @ - 1]
    BY <1>4, ZenonT(40) DEF sys_close, close_extra_files
  <2>2. Len(s) \in Nat /\ DOMAIN s = 1 .. Len(s) /\ s # <<>> /\ 1 \in DOMAIN s
    <3>1. Len(s) \in Nat /\ DOMAIN s = 1 .. Len(s)
      BY <1>i, FdEntries, ZenonT(40)
    <3>2. DOMAIN s # {}
      BY <1>4, Zenon DEF retrieve_file
    <3>3. 1 \in DOMAIN s
      BY <3>1, <3>2
    <3> QED
      BY <3>1, <3>2, <3>3, SMTT(30)
  <2>3. /\ open_files' \in [Proc -> Seq(FdEntry)]
        /\ \A q \in Proc : q # p => open_files'[q] = open_files[q]
        /\ DOMAIN open_files'[p] = 1 .. Len(s) - 1
        /\ \A i \in 1 .. Len(s) - 1 : open_files'[p][i] = s[i + 1]
    <3> DEFINE T == FdEntry
    <3>1. open_files \in [Proc -> Seq(T)]
      BY <1>i, Zenon DEF FdTypeOK
    <3> HIDE DEF T
    <3>2. Tail(s) \in Seq(T) /\ DOMAIN Tail(s) = 1 .. Len(s) - 1 /\ \A i \in 1 .. Len(s) - 1 : Tail(s)[i] = s[i + 1]
      BY <3>1, <2>2, SMTT(30)
    <3>3. /\ open_files' \in [Proc -> Seq(T)]
          /\ \A q \in Proc : q # p => open_files'[q] = open_files[q]
          /\ open_files'[p] = Tail(s)
      BY <3>1, <3>2, <2>1, SMTT(30)
    <3> QED
      BY <3>2, <3>3, Zenon DEF T
  <2>4. \A i \in DOMAIN open_files'[p] : i \in Nat /\ i + 1 \in DOMAIN s /\ i + 1 # 1 /\ open_files'[p][i] = s[i + 1]
    BY <2>2, <2>3, SMTT(30)
  <2>5. \A i \in DOMAIN s : i = 1 \/ (i - 1 \in DOMAIN open_files'[p] /\ open_files'[p][i - 1] = s[i])
    <3> TAKE i \in DOMAIN s
    <3>1. i = 1 \/ (i - 1 \in 1 .. Len(s) - 1 /\ (i - 1) + 1 = i)
      BY <2>2, SMTT(30)
    <3> QED
      BY <3>1, <2>3, SMTT(30)
  <2>6. Numbered(open_files', next_fd)
    <3>1. ASSUME NEW i \in DOMAIN open_files'[p], NEW j \in DOMAIN open_files'[p]
          PROVE  /\ open_files'[p][i].fd_num \in 2 .. next_fd[p] - 1
                 /\ i < j => open_files'[p][i].fd_num < open_files'[p][j].fd_num
      <4>1. i < j => i + 1 < j + 1
        BY <2>4, SMTT(30)
      <4> QED
        BY <4>1, <2>4, <1>i, ZenonT(40) DEF Numbered
    <3> QED
      BY <3>1, <2>3, <1>i, ZenonT(40) DEF Numbered
  <2>7. Removed(p, 1)
    BY <2>1, <2>3, <2>4, <2>5, Zenon DEF Removed
  <2>8. Counted(open_files', open_cnt', l) /\ open_cnt' \in [Inode -> Nat] /\ PositionsIndependent
    BY <2>2, <2>7, RemovedKeeps, Zenon
  <2>9. FdTypeOK'
    BY <2>3, <2>8, <1>1, <1>2, <1>i, SMTT(30) DEF FdTypeOK
  <2>10. \A q \in Proc : ~alive'[q] => open_files'[q] = <<>>
    BY <2>3, <1>1, <1>2, <1>i, Zenon
  <2> QED
    BY <2>6, <2>8, <2>9, <2>10, <1>1, <1>2, <1>l, SMTT(30) DEF FdInv, FdCount
<1> QED
  BY <1>3, <1>4, SMTT(30)

\* A turn of close_thread_files closes the last descriptor.
LEMMA FdExitingKeeps ==
  ASSUME Counting, FdInv, NEW l, FdCount(l), NEW p \in Proc, close_thread_files(p)
  PROVE  FdInv' /\ FdCount(l)' /\ PositionsIndependent
PROOF
<1> DEFINE s == open_files[p]
           n == Len(s)
<1>i. FdTypeOK /\ CallsTyped /\ Numbered(open_files, next_fd)
      /\ \A q \in Proc : ~alive[q] => open_files[q] = <<>>
  BY Zenon DEF FdInv
<1>1. /\ open_files' = [open_files EXCEPT ![p] = SubSeq(s, 1, n - 1)]
      /\ open_cnt' = [open_cnt EXCEPT ![s[n].file] = @ - 1]
      /\ UNCHANGED <<next_fd, call, alive, filesys_lock>> /\ alive[p] /\ s # <<>>
  BY ZenonT(40) DEF close_thread_files, Exiting
<1>2. n \in Nat /\ DOMAIN s = 1 .. n /\ n \in DOMAIN s
  <2> DEFINE T == FdEntry
  <2>1. s \in Seq(T)
    BY <1>i, FdEntries, Zenon
  <2> HIDE DEF T
  <2> QED
    BY <2>1, <1>1
<1>3. /\ open_files' \in [Proc -> Seq(FdEntry)]
      /\ \A q \in Proc : q # p => open_files'[q] = open_files[q]
      /\ DOMAIN open_files'[p] = 1 .. n - 1
      /\ \A i \in 1 .. n - 1 : open_files'[p][i] = s[i]
  <2> DEFINE T == FdEntry
  <2>1. open_files \in [Proc -> Seq(T)]
    BY <1>i, Zenon DEF FdTypeOK
  <2> HIDE DEF T
  <2>2. /\ SubSeq(s, 1, n - 1) \in Seq(T) /\ DOMAIN SubSeq(s, 1, n - 1) = 1 .. n - 1
        /\ \A i \in 1 .. n - 1 : SubSeq(s, 1, n - 1)[i] = s[i]
    BY <2>1, <1>2, SMTT(30)
  <2>3. /\ open_files' \in [Proc -> Seq(T)]
        /\ \A q \in Proc : q # p => open_files'[q] = open_files[q]
        /\ open_files'[p] = SubSeq(s, 1, n - 1)
    BY <2>1, <2>2, <1>1, Zenon
  <2> QED
    BY <2>2, <2>3, Zenon DEF T
<1>4. \A i \in DOMAIN s : i = n \/ i \in DOMAIN open_files'[p]
  BY <1>2, <1>3
<1>5. \A i \in DOMAIN open_files'[p] : i \in DOMAIN s /\ i # n /\ open_files'[p][i] = s[i]
  <2>1. \A i \in 1 .. n - 1 : i \in DOMAIN s /\ i # n
    BY <1>2
  <2> QED
    BY <2>1, <1>3, Zenon
<1>6. Numbered(open_files', next_fd)
  <2>1. ASSUME NEW i \in DOMAIN open_files'[p], NEW j \in DOMAIN open_files'[p]
        PROVE  /\ open_files'[p][i].fd_num \in 2 .. next_fd[p] - 1
               /\ i < j => open_files'[p][i].fd_num < open_files'[p][j].fd_num
    <3>1. i \in DOMAIN s /\ j \in DOMAIN s /\ open_files'[p][i] = s[i] /\ open_files'[p][j] = s[j]
      BY <1>5, Zenon
    <3> QED
      BY <3>1, <1>i, Zenon DEF Numbered
  <2> QED
    BY <2>1, <1>3, <1>i, ZenonT(40) DEF Numbered
<1>7. Removed(p, n)
  BY <1>1, <1>3, <1>4, <1>5, Zenon DEF Removed
<1>8. Counted(open_files', open_cnt', l) /\ open_cnt' \in [Inode -> Nat] /\ PositionsIndependent
  BY <1>2, <1>7, RemovedKeeps, Zenon
<1>9. FdTypeOK' /\ CallsTyped'
  BY <1>1, <1>3, <1>8, <1>i, Zenon DEF FdTypeOK, CallsTyped
<1>10. \A q \in Proc : ~alive'[q] => open_files'[q] = <<>>
  BY <1>1, <1>3, <1>i, Zenon
<1>11. l # NULL => Stuck'
  BY <1>1, Zenon DEF FdCount, Stuck
<1>12. FdInv'
  BY <1>1, <1>6, <1>9, <1>10, Zenon DEF FdInv
<1> QED
  BY <1>8, <1>11, <1>12, Zenon DEF FdCount

\* A process that begins to exit.
LEMMA ExitTyped ==
  ASSUME FdInv, NEW p \in Proc, UNCHANGED <<open_files, next_fd, alive>>, open_cnt' \in [Inode -> Nat] \/ open_cnt' = open_cnt,
         call' = [call EXCEPT ![p] = [op |-> "exit"]]
  PROVE  FdInv'
PROOF
<1>1. FdTypeOK /\ CallsTyped /\ Numbered(open_files, next_fd)
      /\ \A q \in Proc : ~alive[q] => open_files[q] = <<>>
  BY Zenon DEF FdInv
<1>2. call' = [q \in Proc |-> call'[q]] /\ \A q \in Proc : call'[q] = IF q = p THEN [op |-> "exit"] ELSE call[q]
  BY <1>1, Zenon DEF FdTypeOK
<1>3. [op |-> "exit"].op \notin {"open", "seek", "read", "write"}
  OBVIOUS
<1>4. CallsTyped'
  BY <1>1, <1>2, <1>3, Zenon DEF CallsTyped
<1>5. FdTypeOK'
  BY <1>1, <1>2, Zenon DEF FdTypeOK
<1> QED
  BY <1>1, <1>4, <1>5, Zenon DEF FdInv

\* exit begins, in a call or outside of one.
LEMMA FdExitKeeps ==
  ASSUME FdInv, NEW l, FdCount(l), NEW p \in Proc, ExitOutside(p) \/ FaultInCall(p)
  PROVE  FdInv' /\ FdCount(l)' /\ PositionsIndependent
PROOF
<1>1. Exit(p) /\ open_cnt' = open_cnt
  BY Zenon DEF ExitOutside, FaultInCall
<1>2. UNCHANGED <<open_files, next_fd, alive, filesys_lock, open_cnt>> /\ call' = [call EXCEPT ![p] = [op |-> "exit"]]
  BY <1>1, Zenon DEF Exit
<1>3. FdInv'
  BY <1>2, ExitTyped, Zenon
<1>4. Counted(open_files, open_cnt, l)'
  BY <1>2, Zenon DEF FdCount, Counted, OpenBy, HasOpen
<1>5. \A q \in Proc : call'[q] = IF q = p THEN [op |-> "exit"] ELSE call[q]
  BY <1>2, Zenon DEF FdInv, FdTypeOK
<1>6. l # NULL => Stuck'
  <2> SUFFICES ASSUME l # NULL PROVE Stuck'
    BY Zenon
  <2>1. PICK q \in Proc : filesys_lock = q /\ (alive[q] => call[q] # NULL /\ call[q].op = "exit")
    BY Zenon DEF FdCount, Stuck
  <2>2. [op |-> "exit"].op = "exit"
    BY Zenon
  <2>3. q # p
    <3>1. "bad_name" # "exit" /\ (FaultInCall(p) => Inside(p, "bad_name"))
      BY DEF FaultInCall
    <3>2. ~FaultInCall(p)
      BY <3>1, NotStuck, Zenon
    <3> QED
      BY <3>2, <2>1, Zenon DEF ExitOutside
  <2> QED
    BY <1>2, <1>5, <2>1, <2>3, Zenon DEF Stuck
<1> QED
  BY <1>2, <1>3, <1>4, <1>6, SamePositions, Zenon DEF FdCount

\* sys_open without memory loses a struct file of f, and filesys_lock with it.
LEMMA OpenLoses ==
  ASSUME FdInv, NEW l, FdCount(l), NEW p \in Proc, OpenWithoutMemory(p)
  PROVE  FdInv' /\ PositionsIndependent /\ \E f \in Inode : FdCount(f)'
PROOF
<1> DEFINE f == call[p].file
<1>1. /\ Inside(p, "open") /\ call[p].file # NULL
      /\ open_cnt' = [open_cnt EXCEPT ![f] = @ + 1] /\ Exit(p)
  BY ZenonT(40) DEF OpenWithoutMemory
<1>2. UNCHANGED <<open_files, next_fd, alive, filesys_lock>> /\ call' = [call EXCEPT ![p] = [op |-> "exit"]]
  BY <1>1, Zenon DEF Exit
<1>3. PICK g \in Inode : g = f
  BY <1>1, Zenon DEF Inside, FdInv, CallsTyped
<1>4. l = NULL
  <2>1. "open" # "exit"
    OBVIOUS
  <2> QED
    BY <1>1, <2>1, NotStuck, Zenon
<1>5. \A i \in Inode : IsFiniteSet(OpenBy(open_files, i)) /\ open_cnt[i] = Cardinality(OpenBy(open_files, i))
  BY <1>4, FdTableAssumption, Zenon DEF FdCount, Counted
<1>6. open_cnt' \in [Inode -> Nat] /\ \A i \in Inode : open_cnt'[i] = IF i = g THEN open_cnt[i] + 1 ELSE open_cnt[i]
  <2>1. open_cnt \in [Inode -> Nat]
    BY Zenon DEF FdInv, FdTypeOK
  <2>2. open_cnt[g] + 1 \in Nat
    BY <2>1
  <2> QED
    BY <1>1, <1>3, <2>1, <2>2, Zenon
<1>7. Counted(open_files, open_cnt', g)
  BY <1>5, <1>6, Zenon DEF Counted
<1>8. FdInv'
  BY <1>2, <1>6, ExitTyped, Zenon
<1>9. Stuck'
  <2>1. call'[p] = [op |-> "exit"]
    BY <1>2, Zenon DEF FdInv, FdTypeOK
  <2>2. [op |-> "exit"] # NULL
    BY FdTableAssumption, Zenon
  <2>3. [op |-> "exit"].op = "exit"
    BY Zenon
  <2> QED
    BY <1>1, <1>2, <2>1, <2>2, <2>3, Zenon DEF Stuck, Inside
<1>10. FdCount(g)'
  BY <1>2, <1>7, <1>9, Zenon DEF FdCount
<1> QED
  BY <1>2, <1>8, <1>10, SamePositions, Zenon

\* A process that has closed its files is gone.
LEMMA GoneKeeps ==
  ASSUME FdInv, NEW l, FdCount(l), NEW p \in Proc, Gone(p)
  PROVE  FdInv' /\ FdCount(l)' /\ PositionsIndependent
PROOF
<1>1. /\ UNCHANGED <<open_files, next_fd, filesys_lock, open_cnt>> /\ open_files[p] = <<>>
      /\ alive' = [alive EXCEPT ![p] = FALSE] /\ call' = [call EXCEPT ![p] = NULL]
  BY Zenon DEF Gone
<1>2. FdTypeOK /\ CallsTyped /\ Numbered(open_files, next_fd)
      /\ \A q \in Proc : ~alive[q] => open_files[q] = <<>>
  BY Zenon DEF FdInv
<1>3. /\ call' = [q \in Proc |-> call'[q]]
      /\ \A q \in Proc : call'[q] = IF q = p THEN NULL ELSE call[q]
  BY <1>1, <1>2, Zenon DEF FdTypeOK
<1>4. alive' \in [Proc -> BOOLEAN] /\ \A q \in Proc : alive'[q] = IF q = p THEN FALSE ELSE alive[q]
  BY <1>1, <1>2, Zenon DEF FdTypeOK
<1>5. CallsTyped'
  BY <1>2, <1>3, Zenon DEF CallsTyped
<1>6. FdTypeOK'
  BY <1>1, <1>2, <1>3, <1>4, Zenon DEF FdTypeOK
<1>7. FdInv'
  BY <1>1, <1>2, <1>4, <1>5, <1>6, Zenon DEF FdInv
<1>8. Counted(open_files, open_cnt, l)'
  BY <1>1, Zenon DEF FdCount, Counted, OpenBy, HasOpen
<1>9. l # NULL => Stuck'
  BY <1>1, <1>3, <1>4, Zenon DEF FdCount, Stuck
<1> QED
  BY <1>1, <1>7, <1>8, <1>9, SamePositions, Zenon DEF FdCount

\* Every step of FdTable.
LEMMA FdStep ==
  ASSUME Counting, FdInv, NEW l, FdCount(l), [FdTableNext]_fdVars
  PROVE  FdInv' /\ PositionsIndependent /\ (FdCount(l)' \/ \E f \in Inode : FdCount(f)')
PROOF
<1>1. CASE UNCHANGED fdVars
  <2>1. UNCHANGED <<open_files, next_fd, call, alive, filesys_lock, open_cnt>>
    BY <1>1, Zenon DEF fdVars
  <2>2. FdTypeOK' /\ CallsTyped'
    BY <2>1, SMTT(30) DEF FdInv, FdTypeOK, CallsTyped
  <2>3. FdInv'
    BY <2>1, <2>2, Zenon DEF FdInv
  <2>4. FdCount(l)'
    BY <2>1, Zenon DEF FdCount, Counted, OpenBy, HasOpen, Stuck
  <2> QED
    BY <2>1, <2>3, <2>4, SamePositions, Zenon
<1>2. ASSUME NEW p \in Proc, Enter(p) \/ lock_acquire(p) \/ Look(p) \/ KeyPressed(p)
      PROVE  FdInv' /\ FdCount(l)' /\ PositionsIndependent
  <2>1. open_files' = open_files
    BY <1>2, Zenon DEF Enter, lock_acquire, Look, KeyPressed
  <2> QED
    BY <2>1, <1>2, QuietKeeps, SamePositions, Zenon
<1> QED
  BY <1>1, <1>2, FdOpenKeeps, FdCloseKeeps, FdMoveKeeps, FdExitKeeps, FdExitingKeeps, OpenLoses, GoneKeeps, Zenon
     DEF FdTableNext, Progress

-----------------------------------------------------------------------------
(***************************************************************************)
(* The theorems that rest on least elements and on counting, and what the  *)
(* library says of both.                                                   *)
(***************************************************************************)
INSTANCE FiniteSetTheorems

\* A page or directory takes the lowest free page: there is one.
LEMMA LeastHolds == Least
<1> SUFFICES ASSUME NEW S \in SUBSET Nat, S # {}
             PROVE  \E m \in S : \A t \in S : m <= t
  BY Zenon DEF Least
<1>1. PICK m \in S : \A t \in S : <<t, m>> \notin OpToRel(<, Nat)
  BY NatLessThanWellFounded, WFMin, Zenon
<1>2. \A t \in S : ~(t < m)
  BY <1>1, Zenon DEF OpToRel
<1> QED
  BY <1>2

\* Descriptors and mappings can be counted.
LEMMA CountingHolds == Counting
<1>1. IsFiniteSet({}) /\ Cardinality({}) = 0
  BY FS_EmptySet, Zenon
<1>2. \A S : IsFiniteSet(S) => Cardinality(S) \in Nat
  BY FS_CardinalityType, Zenon
<1>3. \A S, x : IsFiniteSet(S) /\ x \notin S =>
        IsFiniteSet(S \cup {x}) /\ Cardinality(S \cup {x}) = Cardinality(S) + 1
  BY FS_AddElement, Zenon
<1>4. \A S, x : IsFiniteSet(S) /\ x \in S =>
        IsFiniteSet(S \ {x}) /\ Cardinality(S \ {x}) = Cardinality(S) - 1
  BY FS_RemoveElement, Zenon
<1> QED
  BY <1>1, <1>2, <1>3, <1>4, Zenon DEF Counting

\* For every size of the address space and of files: what failed mmaps leave
\* behind stays coherent with the page directory, page by page
\* (mmap, mmfiles_insert, load_page_mmf, sys_read, page_fault).
THEOREM MappingsCorrect == UserMemorySpec => []MappingsSound
<1>1. UserMemoryInit => UserMemoryInv
  BY CountingHolds, UserMemoryInitInv, Zenon
<1>2. UserMemoryInv /\ [UserMemoryNext]_memVars => UserMemoryInv'
  BY CountingHolds, UserMemoryNextInv, Zenon
<1>3. UserMemoryInv => MappingsSound
  BY Zenon DEF UserMemoryInv
<1> QED
  BY <1>1, <1>2, <1>3, PTL DEF UserMemorySpec

\* The TLB never translates to anything but what the active directory says,
\* pagedir_is_accessed and pagedir_is_dirty tell the truth, and every page of
\* memory is free or used once, for any number of threads and pages, and in
\* whatever order they switch, exit and change each other's entries.
THEOREM PageTablesCorrect == PagedirSpec => []PageTablesSound
<1>1. PagedirInit => PagedirInv
  BY PagedirInitInv, Zenon
<1>2. PagedirInv /\ [PagedirNext]_pagedirVars => PagedirInv'
  BY LeastHolds, PagedirNextInv, Zenon
<1>3. PagedirInv => PageTablesSound
  BY PagedirInvSound, Zenon
<1> QED
  BY <1>1, <1>2, <1>3, PTL DEF PagedirSpec

\* Every struct file has one descriptor of one live process after every step,
\* also after an exit inside a call, but for the one that a sys_open without
\* memory loses together with filesys_lock, and no step moves a position that
\* its caller did not name: for any processes, files and descriptor numbers,
\* until a call takes the list's head or tail for a descriptor.
THEOREM DescriptorsCorrect == FdTableSpec => DescriptorsSound
PROOF
<1> DEFINE Inv == FdInv /\ \E l \in Inode \cup {NULL} : FdCount(l)
<1>1. FdTableInit => Inv
  BY CountingHolds, FdInitInv, Zenon
<1>2. Inv /\ [FdTableNext]_fdVars => Inv' /\ PositionsIndependent
  BY CountingHolds, FdStep, Zenon
<1>3. Inv => DescriptorsMatch
  <2> SUFFICES ASSUME FdInv, NEW l \in Inode \cup {NULL}, FdCount(l)  PROVE DescriptorsMatch
    BY Zenon
  <2>1. \A f \in Inode : OpenOn(f) = OpenBy(open_files, f)
    BY OpenOnIs, Zenon DEF FdInv
  <2>2. CASE l = NULL
    <3>1. \A f \in Inode : open_cnt[f] = Cardinality(OpenOn(f))
      BY <2>1, <2>2, FdTableAssumption, Zenon DEF FdCount, Counted
    <3> QED
      BY <3>1, ZenonT(40) DEF DescriptorsMatch, FdInv, Numbered
  <2>3. CASE l # NULL
    <3>1. l \in Inode /\ Lost(l)
      BY <2>1, <2>3, Zenon DEF FdCount, Counted, Stuck, Lost
    <3> QED
      BY <3>1, ZenonT(40) DEF DescriptorsMatch, FdInv, Numbered
  <2> QED
    BY <2>2, <2>3, Zenon
<1> QED
  BY <1>1, <1>2, <1>3, PTL DEF FdTableSpec, DescriptorsSound
=============================================================================
