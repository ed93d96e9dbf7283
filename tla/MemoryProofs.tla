---------------------------- MODULE MemoryProofs ----------------------------
(***************************************************************************)
(* For any threads and any pool size: the page allocator never gives a     *)
(* page out twice and loses none.  For any elements: the lists that the    *)
(* kernel links its threads, waiters and blocks into stay whole.  For any  *)
(* executables: load() puts a program in memory as its headers say.        *)
(***************************************************************************)
EXTENDS Palloc, List, Load, TLAPS

-----------------------------------------------------------------------------
(***************************************************************************)
(* palloc.c.                                                               *)
(***************************************************************************)
PallocTypeOK ==
  /\ lock \in Client \cup {NULL}
  /\ used_map \subseteq Nat
  /\ pc \in [Client -> {"out", "lock", "scan", "set", "unlock", "free"}]
  /\ idx \in [Client -> Nat] /\ cnt \in [Client -> Nat] /\ k \in [Client -> Nat]
  /\ groups \subseteq Nat \X Nat

\* Why it works: only the owner of the lock sets bits, so bits a scan found
\* clear stay clear until it sets them; and a bit is cleared only by the thread
\* whose group it is in.
PallocInv ==
  /\ PallocTypeOK
  /\ \A t \in Client : pc[t] \in {"scan", "set", "unlock"} => lock = t
  /\ \A t \in Client : pc[t] = "scan" => \A p \in Span(idx[t], k[t]) : p \notin used_map
  /\ \A t \in Client : pc[t] = "scan" => k[t] < cnt[t]
  /\ \A t \in Client : pc[t] = "lock" => 0 < cnt[t]
  /\ \A t \in Client : pc[t] = "set" =>
       /\ k[t] <= cnt[t]
       /\ \A p \in Span(idx[t] + k[t], cnt[t] - k[t]) : p \notin used_map
  /\ \A t \in Client : pc[t] = "free" => k[t] <= cnt[t]
  /\ \A t \in Client : Mine(t) \subseteq used_map
  /\ NoDoubleAllocation

\* The invariant holds when the pool has been initialised.
LEMMA InitInv == PallocInit => PallocInv
BY PallocAssumption DEF PallocInit, PallocInv, PallocTypeOK, NoDoubleAllocation, Mine, Span

\* Without its first page a span is the span that begins one page later.
LEMMA SpanTail ==
  ASSUME NEW a \in Nat, NEW n \in Nat, NEW c \in Nat, n < c
  PROVE  /\ a + n \in Span(a + n, c - n)
         /\ Span(a + (n + 1), c - (n + 1)) = Span(a + n, c - n) \ {a + n}
  BY DEF Span

\* What bitmap_reset leaves to the thread that clears bits.
LEMMA ResetLeaves ==
  ASSUME PallocTypeOK, NEW t \in Client, bitmap_reset(t)
  PROVE  idx[t] + k[t] \in Mine(t) /\ Mine(t)' = Mine(t) \ {idx[t] + k[t]}
<1>1. /\ pc[t] = "free" /\ pc'[t] = "free" /\ idx'[t] = idx[t] /\ cnt'[t] = cnt[t] /\ k[t] < cnt[t]
      /\ k'[t] = k[t] + 1
  BY Zenon DEF bitmap_reset, PallocTypeOK
<1>2. idx[t] \in Nat /\ k[t] \in Nat /\ cnt[t] \in Nat
  BY Zenon DEF PallocTypeOK
<1>3. Mine(t) = Span(idx[t] + k[t], cnt[t] - k[t])
  BY <1>1, Zenon DEF Mine
<1>4. Mine(t)' = Span(idx[t] + (k[t] + 1), cnt[t] - (k[t] + 1))
  BY <1>1, Zenon DEF Mine, Span
<1> QED
  BY <1>1, <1>2, <1>3, <1>4, SpanTail

\* Every step of every thread preserves it.
LEMMA StepInv == PallocInv /\ [PallocNext]_pallocVars => PallocInv'
<1> SUFFICES ASSUME PallocInv, [PallocNext]_pallocVars PROVE PallocInv'
  BY Zenon
<1> USE PallocAssumption
<1>1. CASE UNCHANGED pallocVars
  BY <1>1 DEF PallocInv, PallocTypeOK, NoDoubleAllocation, Mine, Span, pallocVars
<1>2. ASSUME NEW t \in Client, NEW n \in 1 .. page_cnt + 1, palloc_get_multiple(t, n) PROVE PallocInv'
  BY <1>2 DEF PallocInv, PallocTypeOK, NoDoubleAllocation, Mine, Span, palloc_get_multiple
<1>3. ASSUME NEW t \in Client, NEW g \in groups, palloc_free_multiple(t, g) PROVE PallocInv'
  BY <1>3 DEF PallocInv, PallocTypeOK, NoDoubleAllocation, Mine, Span, palloc_free_multiple, ClearCnt
<1>4. ASSUME NEW t \in Client, lock_acquire(t) PROVE PallocInv'
  BY <1>4 DEF PallocInv, PallocTypeOK, NoDoubleAllocation, Mine, Span, lock_acquire, MayLock
<1>5. ASSUME NEW t \in Client, ScanFree(t) PROVE PallocInv'
  <2>1. \A u \in Client : Mine(u)' = Mine(u)
    BY <1>5, SMTT(30) DEF PallocInv, PallocTypeOK, Mine, Span, ScanFree
  <2>2. NoDoubleAllocation' /\ (\A u \in Client : Mine(u) \subseteq used_map)'
    BY <1>5, <2>1, Zenon DEF PallocInv, NoDoubleAllocation, ScanFree
  <2>3. PallocTypeOK'
    BY <1>5 DEF PallocInv, PallocTypeOK, ScanFree
  <2>4. \A p \in Span(idx[t], k[t] + 1) : p \notin used_map
    BY <1>5 DEF PallocInv, PallocTypeOK, Span, ScanFree
  <2>5. CASE k[t] + 1 < cnt[t]
    BY <1>5, <2>2, <2>3, <2>4, <2>5 DEF PallocInv, PallocTypeOK, Span, ScanFree
  <2>6. CASE ~(k[t] + 1 < cnt[t])
    <3>1. cnt[t] = k[t] + 1
      BY <1>5, <2>6 DEF PallocInv, PallocTypeOK, ScanFree
    <3>2. QED
      BY <1>5, <2>2, <2>3, <2>4, <2>6, <3>1 DEF PallocInv, PallocTypeOK, Span, ScanFree
  <2>7. QED
    BY <2>5, <2>6, Zenon
<1>6. ASSUME NEW t \in Client, ScanUsed(t) PROVE PallocInv'
  BY <1>6 DEF PallocInv, PallocTypeOK, NoDoubleAllocation, Mine, Span, ScanUsed
<1>7. ASSUME NEW t \in Client, bitmap_mark(t) PROVE PallocInv'
  <2> DEFINE bit == idx[t] + k[t]
  <2>1. bit \in Nat /\ bit \notin used_map
    BY <1>7 DEF PallocInv, PallocTypeOK, Span, bitmap_mark
  <2>2. Mine(t)' = Mine(t) \cup {bit}
    BY <1>7 DEF PallocInv, PallocTypeOK, Mine, Span, bitmap_mark
  <2>3. \A u \in Client \ {t} : Mine(u)' = Mine(u)
    BY <1>7, Zenon DEF PallocInv, PallocTypeOK, Mine, Span, bitmap_mark
  <2>4. NoDoubleAllocation' /\ (\A u \in Client : Mine(u) \subseteq used_map)'
    <3>1. used_map' = used_map \cup {bit} /\ groups' = groups
      BY <1>7, Zenon DEF bitmap_mark
    <3>2. \A u \in Client : Mine(u) \subseteq used_map
      BY Zenon DEF PallocInv
    <3>3. \A u \in Client : (Mine(u) \subseteq used_map)'
      BY <2>2, <2>3, <3>1, <3>2, Zenon
    <3>4. \A u \in Client : bit \notin Mine(u)
      BY <2>1, <3>2, Zenon
    <3>5. \A g \in groups : bit \notin Span(g[1], g[2])
      BY <2>1, Zenon DEF PallocInv, NoDoubleAllocation
    <3>6. QED
      BY <2>2, <2>3, <3>1, <3>3, <3>4, <3>5 DEF PallocInv, NoDoubleAllocation
  <2>5. \A u \in Client \ {t} : pc[u] \notin {"scan", "set"}
    BY <1>7, Zenon DEF PallocInv, PallocTypeOK, bitmap_mark
  <2>6. PallocTypeOK'
    <3>1. used_map' \subseteq Nat
      BY <1>7, <2>1, Zenon DEF PallocInv, PallocTypeOK, bitmap_mark
    <3>2. k' \in [Client -> Nat]
      BY <1>7 DEF PallocInv, PallocTypeOK, bitmap_mark
    <3>3. QED
      BY <1>7, <3>1, <3>2, Zenon DEF PallocInv, PallocTypeOK, bitmap_mark
  <2>7. QED
    BY <1>7, <2>4, <2>5, <2>6 DEF PallocInv, PallocTypeOK, Span, bitmap_mark
<1>8. ASSUME NEW t \in Client, Got(t) PROVE PallocInv'
  BY <1>8, SMTT(30) DEF PallocInv, PallocTypeOK, NoDoubleAllocation, Mine, Span, Got
<1>9. ASSUME NEW t \in Client, Failed(t) PROVE PallocInv'
  BY <1>9 DEF PallocInv, PallocTypeOK, NoDoubleAllocation, Mine, Span, Failed
<1>10. ASSUME NEW t \in Client, bitmap_reset(t) PROVE PallocInv'
  <2> DEFINE bit == idx[t] + k[t]
  <2>1. bit \in Mine(t) /\ Mine(t)' = Mine(t) \ {bit}
    BY <1>10, ResetLeaves, Zenon DEF PallocInv
  <2>2. \A u \in Client \ {t} : Mine(u)' = Mine(u)
    BY <1>10, Zenon DEF PallocInv, PallocTypeOK, Mine, Span, bitmap_reset
  <2>3. NoDoubleAllocation' /\ (\A u \in Client : Mine(u) \subseteq used_map)'
    BY <1>10, <2>1, <2>2, SMTT(30) DEF PallocInv, NoDoubleAllocation, bitmap_reset
  <2>4. PallocTypeOK'
    <3>1. used_map' \subseteq Nat
      BY <1>10, Zenon DEF PallocInv, PallocTypeOK, bitmap_reset
    <3>2. k' \in [Client -> Nat]
      BY <1>10 DEF PallocInv, PallocTypeOK, bitmap_reset
    <3>3. QED
      BY <1>10, <3>1, <3>2, Zenon DEF PallocInv, PallocTypeOK, bitmap_reset
  <2>5. QED
    BY <1>10, <2>3, <2>4 DEF PallocInv, PallocTypeOK, Span, bitmap_reset
<1>11. ASSUME NEW t \in Client, Freed(t) PROVE PallocInv'
  BY <1>11 DEF PallocInv, PallocTypeOK, NoDoubleAllocation, Mine, Span, Freed
<1>12. QED
  BY <1>1, <1>2, <1>3, <1>4, <1>5, <1>6, <1>7, <1>8, <1>9, <1>10, <1>11, Zenon DEF PallocNext, Inside

\* No step loses a page.
LEMMA StepLeak == PallocInv /\ NoLeak /\ [PallocNext]_pallocVars => NoLeak'
<1> SUFFICES ASSUME PallocInv, NoLeak, [PallocNext]_pallocVars PROVE NoLeak'
  BY Zenon
<1> USE PallocAssumption DEF PallocInv, PallocTypeOK
<1>1. CASE UNCHANGED pallocVars
  BY <1>1, Zenon DEF NoLeak, Mine, Span, pallocVars
<1>2. ASSUME NEW t \in Client,
             \/ \E n \in 1 .. page_cnt + 1 : palloc_get_multiple(t, n)
             \/ lock_acquire(t) \/ ScanFree(t) \/ ScanUsed(t) \/ Failed(t) \/ Freed(t)
      PROVE NoLeak'
  <2>1. \A u \in Client : Mine(u)' = Mine(u)
    BY <1>2, SMTT(30) DEF Mine, Span, palloc_get_multiple, lock_acquire, MayLock, ScanFree, ScanUsed, Failed, Freed
  <2>2. UNCHANGED <<used_map, groups>>
    BY <1>2, Zenon DEF palloc_get_multiple, lock_acquire, ScanFree, ScanUsed, Failed, Freed
  <2>3. QED
    BY <2>1, <2>2 DEF NoLeak
<1>3. ASSUME NEW t \in Client, NEW g \in groups, palloc_free_multiple(t, g) PROVE NoLeak'
  <2>1. Mine(t)' = Span(g[1], g[2]) /\ \A u \in Client \ {t} : Mine(u)' = Mine(u)
    BY <1>3 DEF Mine, Span, palloc_free_multiple, ClearCnt
  <2>2. Mine(t) = {} /\ used_map' = used_map /\ groups' = groups \ {g}
    BY <1>3, Zenon DEF Mine, palloc_free_multiple
  <2>3. QED
    BY <2>1, <2>2 DEF NoLeak
<1>4. ASSUME NEW t \in Client, bitmap_mark(t) PROVE NoLeak'
  <2>1. Mine(t)' = Mine(t) \cup {idx[t] + k[t]} /\ \A u \in Client \ {t} : Mine(u)' = Mine(u)
    BY <1>4 DEF Mine, Span, bitmap_mark
  <2>2. QED
    BY <1>4, <2>1 DEF NoLeak, bitmap_mark
<1>5. ASSUME NEW t \in Client, Got(t) PROVE NoLeak'
  <2>1. Mine(t) = Span(idx[t], cnt[t]) /\ \A u \in Client \ {t} : Mine(u)' = Mine(u)
    BY <1>5, Zenon DEF Mine, Span, Got
  <2>2. <<idx[t], cnt[t]>> \in groups' /\ groups \subseteq groups' /\ used_map' = used_map
    BY <1>5, Zenon DEF Got
  <2>3. <<idx[t], cnt[t]>>[1] = idx[t] /\ <<idx[t], cnt[t]>>[2] = cnt[t]
    BY Zenon
  <2>4. QED
    BY <2>1, <2>2, <2>3 DEF NoLeak
<1>6. ASSUME NEW t \in Client, bitmap_reset(t) PROVE NoLeak'
  <2>1. Mine(t)' = Mine(t) \ {idx[t] + k[t]} /\ \A u \in Client \ {t} : Mine(u)' = Mine(u)
    <3>1. pc[t] = "free" /\ pc' = pc /\ idx' = idx /\ cnt' = cnt /\ k' = [k EXCEPT ![t] = @ + 1] /\ k[t] < cnt[t]
      BY <1>6, Zenon DEF bitmap_reset
    <3>2. Mine(t)' = Mine(t) \ {idx[t] + k[t]}
      BY <1>6, ResetLeaves, Zenon
    <3>3. QED
      BY <3>1, <3>2, Zenon DEF Mine, Span
  <2>2. QED
    BY <1>6, <2>1 DEF NoLeak, bitmap_reset
<1>7. QED
  BY <1>1, <1>2, <1>3, <1>4, <1>5, <1>6, Zenon DEF PallocNext, Inside

\* palloc never gives out a page that is in use, whatever interleaving of
\* allocations with releases that do not take the lock.
THEOREM NeverTwice == PallocSpec => []NoDoubleAllocation
<1>1. PallocInv => NoDoubleAllocation
  BY Zenon DEF PallocInv
<1>2. QED
  BY InitInv, StepInv, <1>1, PTL DEF PallocSpec

\* Every page whose bit is set is in a group or in the hands of a thread.
THEOREM NeverLost == PallocSpec => []NoLeak
<1>1. PallocInit => NoLeak
  BY Zenon DEF PallocInit, NoLeak
<1>2. QED
  BY InitInv, StepInv, StepLeak, <1>1, PTL DEF PallocSpec

\* The two together: every page of the pool is accounted for exactly once.
THEOREM PagesAlwaysAccounted == PallocSpec => []PagesAccounted
<1>1. NoDoubleAllocation /\ NoLeak => PagesAccounted
  BY Zenon DEF PagesAccounted
<1>2. QED
  BY NeverTwice, NeverLost, <1>1, PTL

-----------------------------------------------------------------------------
(***************************************************************************)
(* list.c.  ListWhole is inductive with the types.  Each call is shown to  *)
(* change exactly the pointers between the places it joins; that the list  *)
(* is whole again is then a matter of positions.                           *)
(***************************************************************************)
Cell == [prev : Node \cup {NULL}, next : Node \cup {NULL}]

\* NodeAt, and ListWhole with the types, of any list.
Nth(s, i) == IF i = 0 THEN HEAD ELSE IF i = Len(s) + 1 THEN TAIL ELSE s[i]
Whole(h, s) ==
  /\ h \in [Node -> Cell] /\ s \in Seq(Elem)
  /\ h[HEAD].prev = NULL /\ h[TAIL].next = NULL
  /\ \A i \in 0 .. Len(s) : h[Nth(s, i)].next = Nth(s, i + 1) /\ h[Nth(s, i + 1)].prev = Nth(s, i)
  /\ \A i, j \in 1 .. Len(s) : s[i] = s[j] => i = j

\* For the list of the model, Whole is ListWhole.
LEMMA WholeIs == Whole(heap, shadow) => ListWhole
PROOF
<1> QED
  BY Zenon DEF Whole, ListWhole, NodeAt, Nth

\* Places and nodes: each place has its node, and no node has two.
LEMMA Places ==
  ASSUME NEW s \in Seq(Elem), \A i, j \in 1 .. Len(s) : s[i] = s[j] => i = j
  PROVE  /\ Len(s) \in Nat /\ DOMAIN s = 1 .. Len(s)
         /\ Nth(s, 0) = HEAD /\ Nth(s, Len(s) + 1) = TAIL
         /\ \A i \in 1 .. Len(s) : Nth(s, i) = s[i] /\ s[i] \in Elem
         /\ \A i \in 0 .. Len(s) + 1 : Nth(s, i) \in Node
         /\ \A i, j \in 0 .. Len(s) + 1 : Nth(s, i) = Nth(s, j) => i = j
PROOF
<1>1. Len(s) \in Nat /\ DOMAIN s = 1 .. Len(s) /\ \A i \in 1 .. Len(s) : s[i] \in Elem
  OBVIOUS
<1>2. Nth(s, 0) = HEAD /\ Nth(s, Len(s) + 1) = TAIL /\ \A i \in 1 .. Len(s) : Nth(s, i) = s[i]
  BY <1>1 DEF Nth
<1>3. \A i \in 0 .. Len(s) + 1 : i = 0 \/ i = Len(s) + 1 \/ i \in 1 .. Len(s)
  BY <1>1
<1>4. \A i \in 0 .. Len(s) + 1 : Nth(s, i) \in Node
  BY <1>1, <1>2, <1>3 DEF Node
<1>5. \A i, j \in 0 .. Len(s) + 1 : Nth(s, i) = Nth(s, j) => i = j
  BY <1>1, <1>2, <1>3, ListAssumption
<1> QED
  BY <1>1, <1>2, <1>4, <1>5, Zenon

\* A list is whole if its nodes are linked place by place.
LEMMA Linked ==
  ASSUME NEW h \in [Node -> Cell], NEW s \in Seq(Elem),
         h[HEAD].prev = NULL, h[TAIL].next = NULL,
         \A i \in 0 .. Len(s) : h[Nth(s, i)].next = Nth(s, i + 1),
         \A i \in 1 .. Len(s) + 1 : h[Nth(s, i)].prev = Nth(s, i - 1),
         \A i, j \in 1 .. Len(s) : s[i] = s[j] => i = j
  PROVE  Whole(h, s)
PROOF
<1>1. Len(s) \in Nat
  OBVIOUS
<1>2. \A i \in 0 .. Len(s) : i + 1 \in 1 .. Len(s) + 1 /\ (i + 1) - 1 = i
  BY <1>1
<1>3. \A i \in 0 .. Len(s) : h[Nth(s, i + 1)].prev = Nth(s, i)
  BY <1>2, Zenon
<1> QED
  BY <1>3, Zenon DEF Whole

\* list_insert: the three nodes at the place of the new element.
LEMMA InsertWhole ==
  ASSUME NEW h, NEW s, Whole(h, s), NEW e \in Elem, NEW p \in 1 .. Len(s) + 1,
         \A i \in 1 .. Len(s) : s[i] # e,
         NEW g \in [Node -> Cell], NEW r \in Seq(Elem), Len(r) = Len(s) + 1,
         \A i \in 1 .. Len(s) + 1 : r[i] = IF i < p THEN s[i] ELSE IF i = p THEN e ELSE s[i - 1],
         \A x \in Node : g[x].next = IF x = e THEN Nth(s, p) ELSE IF x = Nth(s, p - 1) THEN e ELSE h[x].next,
         \A x \in Node : g[x].prev = IF x = e THEN Nth(s, p - 1) ELSE IF x = Nth(s, p) THEN e ELSE h[x].prev
  PROVE  Whole(g, r)
PROOF
<1>1. /\ s \in Seq(Elem) /\ \A i, j \in 1 .. Len(s) : s[i] = s[j] => i = j
      /\ h[HEAD].prev = NULL /\ h[TAIL].next = NULL
      /\ \A i \in 0 .. Len(s) : h[Nth(s, i)].next = Nth(s, i + 1) /\ h[Nth(s, i + 1)].prev = Nth(s, i)
  BY Zenon DEF Whole
<1> DEFINE n == Len(s)
<1>2. /\ n \in Nat /\ Nth(s, 0) = HEAD /\ Nth(s, n + 1) = TAIL
      /\ \A i \in 1 .. n : Nth(s, i) = s[i] /\ s[i] \in Elem
      /\ \A i \in 0 .. n + 1 : Nth(s, i) \in Node
      /\ \A i, j \in 0 .. n + 1 : Nth(s, i) = Nth(s, j) => i = j
  BY <1>1, Places, Zenon
<1>3. e \in Node /\ \A i \in 0 .. n + 1 : Nth(s, i) # e
  <2>1. \A i \in 0 .. n + 1 : i = 0 \/ i = n + 1 \/ i \in 1 .. n
    BY <1>2
  <2> QED
    BY <2>1, <1>2, ListAssumption, SMTT(30) DEF Node
<1>4. \A i \in 0 .. n + 2 : Nth(r, i) = IF i < p THEN Nth(s, i) ELSE IF i = p THEN e ELSE Nth(s, i - 1)
  BY <1>2 DEF Nth
<1>k. n \in Nat /\ p \in 1 .. n + 1
  BY <1>2, Zenon
<1> HIDE DEF n
<1>a. \A i \in 0 .. n + 2 : i < p => Nth(r, i) = Nth(s, i)
  BY <1>4, Zenon
<1>b. Nth(r, p) = e
  BY <1>4, <1>k
<1>c. \A i \in 0 .. n + 2 : i > p => Nth(r, i) = Nth(s, i - 1)
  BY <1>4, <1>k
<1>5. \A i \in 0 .. n + 1 : g[Nth(r, i)].next = Nth(r, i + 1)
  <2> TAKE i \in 0 .. n + 1
  <2>1. CASE i < p - 1
    <3>1. i \in 0 .. n + 1 /\ p - 1 \in 0 .. n + 1 /\ i # p - 1 /\ i \in 0 .. n
      BY <2>1, <1>k
    <3>2. Nth(r, i) = Nth(s, i) /\ Nth(r, i + 1) = Nth(s, i + 1)
      <4>1. i \in 0 .. n + 2 /\ i < p /\ i + 1 \in 0 .. n + 2 /\ i + 1 < p
        BY <2>1, <1>k
      <4> QED
        BY <4>1, <1>a, Zenon
    <3> QED
      BY <3>1, <3>2, <1>1, <1>2, <1>3, ZenonT(40) DEF n
  <2>2. CASE i = p - 1
    <3>1. Nth(r, i) = Nth(s, p - 1) /\ Nth(r, i + 1) = e
      <4>1. p - 1 \in 0 .. n + 2 /\ p - 1 < p /\ i + 1 = p
        BY <2>2, <1>k
      <4> QED
        BY <4>1, <2>2, <1>a, <1>b, Zenon
    <3>2. p - 1 \in 0 .. n + 1
      BY <1>k DEF n
    <3> QED
      BY <3>1, <3>2, <1>2, <1>3, Zenon
  <2>3. CASE i = p
    <3>1. Nth(r, i) = e /\ Nth(r, i + 1) = Nth(s, p)
      <4>1. p + 1 \in 0 .. n + 2 /\ p + 1 > p /\ (p + 1) - 1 = p
        BY <1>k
      <4> QED
        BY <4>1, <2>3, <1>b, <1>c, Zenon
    <3> QED
      BY <3>1, <1>3, Zenon
  <2>4. CASE i > p
    <3>1. i - 1 \in 0 .. n /\ p - 1 \in 0 .. n + 1 /\ i - 1 # p - 1 /\ (i - 1) + 1 = i /\ i - 1 \in 0 .. n + 1
      BY <2>4, <1>k
    <3>2. Nth(r, i) = Nth(s, i - 1) /\ Nth(r, i + 1) = Nth(s, i)
      <4>1. i \in 0 .. n + 2 /\ i + 1 \in 0 .. n + 2 /\ i + 1 > p /\ (i + 1) - 1 = i
        BY <2>4, <1>k
      <4> QED
        BY <4>1, <2>4, <1>c, Zenon
    <3>3. Nth(s, i - 1) # Nth(s, p - 1) /\ Nth(s, i - 1) # e /\ Nth(s, i - 1) \in Node
      BY <3>1, <1>2, <1>3, Zenon
    <3>4. h[Nth(s, i - 1)].next = Nth(s, i)
      BY <3>1, <1>1, Zenon DEF n
    <3> QED
      BY <3>2, <3>3, <3>4, Zenon
  <2> QED
    BY <2>1, <2>2, <2>3, <2>4, <1>k
<1>6. \A i \in 1 .. n + 2 : g[Nth(r, i)].prev = Nth(r, i - 1)
  <2> TAKE i \in 1 .. n + 2
  <2>1. CASE i < p
    <3>1. i \in 1 .. n + 1 /\ p \in 0 .. n + 1 /\ i # p /\ i - 1 \in 0 .. n /\ (i - 1) + 1 = i /\ i \in 0 .. n + 1
      BY <2>1, <1>k
    <3>2. Nth(r, i) = Nth(s, i) /\ Nth(r, i - 1) = Nth(s, i - 1)
      <4>1. i \in 0 .. n + 2 /\ i - 1 \in 0 .. n + 2 /\ i - 1 < p
        BY <2>1, <1>k
      <4> QED
        BY <4>1, <2>1, <1>a, Zenon
    <3>3. Nth(s, i) # Nth(s, p) /\ Nth(s, i) # e /\ Nth(s, i) \in Node
      BY <3>1, <1>2, <1>3, Zenon
    <3>4. h[Nth(s, i)].prev = Nth(s, i - 1)
      BY <3>1, <1>1, Zenon DEF n
    <3> QED
      BY <3>2, <3>3, <3>4, Zenon
  <2>2. CASE i = p
    <3>1. Nth(r, i) = e /\ Nth(r, i - 1) = Nth(s, p - 1)
      <4>1. p - 1 \in 0 .. n + 2 /\ p - 1 < p
        BY <1>k
      <4> QED
        BY <4>1, <2>2, <1>a, <1>b, Zenon
    <3> QED
      BY <3>1, <1>3, Zenon
  <2>3. CASE i = p + 1
    <3>1. Nth(r, i) = Nth(s, p) /\ Nth(r, i - 1) = e /\ p \in 0 .. n + 1
      <4>1. p + 1 \in 0 .. n + 2 /\ p + 1 > p /\ (p + 1) - 1 = p /\ p \in 0 .. n + 1
        BY <1>k
      <4> QED
        BY <4>1, <2>3, <1>b, <1>c, Zenon
    <3> QED
      BY <3>1, <1>2, <1>3, Zenon
  <2>4. CASE i > p + 1
    <3>1. i - 1 \in 0 .. n + 1 /\ p \in 0 .. n + 1 /\ i - 1 # p /\ i - 2 \in 0 .. n /\ (i - 2) + 1 = i - 1
      BY <2>4, <1>k
    <3>2. Nth(r, i) = Nth(s, i - 1) /\ Nth(r, i - 1) = Nth(s, i - 2)
      <4>1. i \in 0 .. n + 2 /\ i > p /\ i - 1 \in 0 .. n + 2 /\ i - 1 > p /\ (i - 1) - 1 = i - 2
        BY <2>4, <1>k
      <4> QED
        BY <4>1, <1>c, Zenon
    <3>3. Nth(s, i - 1) # Nth(s, p) /\ Nth(s, i - 1) # e /\ Nth(s, i - 1) \in Node
      BY <3>1, <1>2, <1>3, Zenon
    <3>4. h[Nth(s, i - 1)].prev = Nth(s, i - 2)
      BY <3>1, <1>1, Zenon DEF n
    <3> QED
      BY <3>2, <3>3, <3>4, Zenon
  <2> QED
    BY <2>1, <2>2, <2>3, <2>4, <1>k
<1>7. \A i, j \in 1 .. n + 1 : r[i] = r[j] => i = j
  <2>0. \A i, j \in 1 .. n : s[i] = s[j] => i = j
    BY <1>1, Zenon DEF n
  <2>1. \A i \in 1 .. n + 1 : i = p \/ (i < p /\ i \in 1 .. n /\ r[i] = s[i]) \/ (i > p /\ i - 1 \in 1 .. n /\ r[i] = s[i - 1])
    BY <1>k DEF n
  <2>2. r[p] = e /\ \A i \in 1 .. n : s[i] # e
    BY <1>k DEF n
  <2> TAKE i, j \in 1 .. n + 1
  <2> HAVE r[i] = r[j]
  <2>3. CASE i = p \/ j = p
    BY <2>3, <2>1, <2>2
  <2>4. CASE i < p /\ j > p
    <3>1. i = j - 1
      BY <2>4, <2>0, <2>1, <1>k
    <3> QED
      BY <3>1, <2>4, <1>k
  <2>5. CASE i > p /\ j < p
    <3>1. i - 1 = j
      BY <2>5, <2>0, <2>1, <1>k
    <3> QED
      BY <3>1, <2>5, <1>k
  <2>6. CASE (i < p /\ j < p) \/ (i > p /\ j > p)
    BY <2>6, <2>0, <2>1, <1>k
  <2> QED
    BY <2>3, <2>4, <2>5, <2>6, <1>k
<1>8. g[HEAD].prev = NULL /\ g[TAIL].next = NULL
  <2>1. HEAD \in Node /\ TAIL \in Node /\ HEAD # e /\ TAIL # e
    BY ListAssumption, Zenon DEF Node
  <2>2. HEAD # Nth(s, p) /\ TAIL # Nth(s, p - 1)
    <3>1. 0 \in 0 .. n + 1 /\ p \in 0 .. n + 1 /\ p # 0 /\ p - 1 \in 0 .. n + 1 /\ n + 1 \in 0 .. n + 1 /\ p - 1 # n + 1
      BY <1>k DEF n
    <3> QED
      BY <3>1, <1>2, Zenon
  <2> QED
    BY <2>1, <2>2, <1>1, Zenon
<1>9. \A i \in 0 .. Len(r) : g[Nth(r, i)].next = Nth(r, i + 1)
  BY <1>5, Zenon DEF n
<1>10. \A i \in 1 .. Len(r) + 1 : g[Nth(r, i)].prev = Nth(r, i - 1)
  <2>1. Len(r) + 1 = n + 2
    BY <1>k DEF n
  <2> QED
    BY <2>1, <1>6, Zenon
<1>11. \A i, j \in 1 .. Len(r) : r[i] = r[j] => i = j
  BY <1>7, Zenon DEF n
<1> QED
  BY <1>8, <1>9, <1>10, <1>11, Linked, Zenon

\* Place m of the list r has the node of place F[m] of the list s, and the nodes
\* of g point to their new neighbours.
Rearrangement(g, s, r, F) ==
  /\ g \in [Node -> Cell] /\ r \in Seq(Elem)
  /\ F[0] = 0 /\ F[Len(r) + 1] = Len(s) + 1
  /\ \A m \in 1 .. Len(r) : F[m] \in 1 .. Len(s) /\ r[m] = s[F[m]]
  /\ \A l, m \in 1 .. Len(r) : F[l] = F[m] => l = m
  /\ g[HEAD].prev = NULL /\ g[TAIL].next = NULL
  /\ \A m \in 0 .. Len(r) : g[Nth(s, F[m])].next = Nth(s, F[m + 1])
  /\ \A m \in 0 .. Len(r) : g[Nth(s, F[m + 1])].prev = Nth(s, F[m])

\* The calls other than list_insert put nodes of a whole list at new places, which
\* leaves it whole.
LEMMA Rearranged ==
  ASSUME NEW h, NEW s, Whole(h, s), NEW g, NEW r, NEW F, Rearrangement(g, s, r, F)
  PROVE  Whole(g, r)
PROOF
<1>0. /\ g \in [Node -> Cell] /\ r \in Seq(Elem)
      /\ F[0] = 0 /\ F[Len(r) + 1] = Len(s) + 1
      /\ \A m \in 1 .. Len(r) : F[m] \in 1 .. Len(s) /\ r[m] = s[F[m]]
      /\ \A l, m \in 1 .. Len(r) : F[l] = F[m] => l = m
      /\ g[HEAD].prev = NULL /\ g[TAIL].next = NULL
      /\ \A m \in 0 .. Len(r) : g[Nth(s, F[m])].next = Nth(s, F[m + 1])
      /\ \A m \in 0 .. Len(r) : g[Nth(s, F[m + 1])].prev = Nth(s, F[m])
  BY Zenon DEF Rearrangement
<1>1. s \in Seq(Elem) /\ \A i, j \in 1 .. Len(s) : s[i] = s[j] => i = j
  BY Zenon DEF Whole
<1>2. Len(s) \in Nat /\ Len(r) \in Nat /\ Nth(s, 0) = HEAD /\ Nth(s, Len(s) + 1) = TAIL
      /\ \A i \in 1 .. Len(s) : Nth(s, i) = s[i]
  BY <1>0, <1>1, Places
<1>3. \A m \in 0 .. Len(r) + 1 : m = 0 \/ m = Len(r) + 1 \/ (m \in 1 .. Len(r) /\ m # 0 /\ m # Len(r) + 1)
  BY <1>2
<1>4. \A m \in 0 .. Len(r) + 1 : Nth(r, m) = Nth(s, F[m])
  <2>1. Nth(r, 0) = HEAD /\ Nth(r, Len(r) + 1) = TAIL /\ \A m \in 1 .. Len(r) : Nth(r, m) = r[m]
    BY <1>2 DEF Nth
  <2>2. ASSUME NEW m \in 1 .. Len(r)  PROVE Nth(r, m) = Nth(s, F[m])
    <3>1. F[m] \in 1 .. Len(s) /\ r[m] = s[F[m]]
      BY <1>0, Zenon
    <3> QED
      BY <3>1, <2>1, <1>2, Zenon
  <2>3. Nth(r, 0) = Nth(s, F[0]) /\ Nth(r, Len(r) + 1) = Nth(s, F[Len(r) + 1])
    BY <2>1, <1>0, <1>2, Zenon
  <2> QED
    BY <2>2, <2>3, <1>3, Zenon
<1>5. \A m \in 0 .. Len(r) : m \in 0 .. Len(r) + 1 /\ m + 1 \in 0 .. Len(r) + 1
  BY <1>2
<1>6. \A m \in 0 .. Len(r) : g[Nth(r, m)].next = Nth(r, m + 1) /\ g[Nth(r, m + 1)].prev = Nth(r, m)
  BY <1>0, <1>4, <1>5, Zenon
<1>7. \A l, m \in 1 .. Len(r) : r[l] = r[m] => l = m
  <2> SUFFICES ASSUME NEW l \in 1 .. Len(r), NEW m \in 1 .. Len(r), r[l] = r[m]
               PROVE  l = m
    BY Zenon
  <2>1. F[l] \in 1 .. Len(s) /\ F[m] \in 1 .. Len(s) /\ s[F[l]] = s[F[m]]
    BY <1>0, Zenon
  <2> QED
    BY <2>1, <1>0, <1>1, ZenonT(40)
<1> QED
  BY <1>0, <1>6, <1>7, Zenon DEF Whole

\* r is s without its p-th element; g is h with the neighbours of it joined.
Without(r, s, p) ==
  /\ r \in Seq(Elem) /\ Len(r) = Len(s) - 1
  /\ \A i \in 1 .. Len(s) - 1 : r[i] = s[IF i < p THEN i ELSE i + 1]
Joined(g, h, s, p) ==
  /\ g \in [Node -> Cell]
  /\ \A x \in Node : g[x].next = IF x = Nth(s, p - 1) THEN Nth(s, p + 1) ELSE h[x].next
  /\ \A x \in Node : g[x].prev = IF x = Nth(s, p + 1) THEN Nth(s, p - 1) ELSE h[x].prev

\* list_remove joins the neighbours of the p-th element.
LEMMA RemoveWhole ==
  ASSUME NEW h, NEW s, Whole(h, s), NEW p \in 1 .. Len(s),
         NEW g, Joined(g, h, s, p), NEW r, Without(r, s, p)
  PROVE  Whole(g, r)
PROOF
<1>0. /\ g \in [Node -> Cell] /\ r \in Seq(Elem) /\ Len(r) = Len(s) - 1
      /\ \A i \in 1 .. Len(s) - 1 : r[i] = s[IF i < p THEN i ELSE i + 1]
      /\ \A x \in Node : g[x].next = IF x = Nth(s, p - 1) THEN Nth(s, p + 1) ELSE h[x].next
      /\ \A x \in Node : g[x].prev = IF x = Nth(s, p + 1) THEN Nth(s, p - 1) ELSE h[x].prev
  BY Zenon DEF Without, Joined
<1> DEFINE n == Len(s)
           F == [m \in 0 .. n |-> IF m < p THEN m ELSE m + 1]
<1>1. /\ s \in Seq(Elem) /\ \A i, j \in 1 .. n : s[i] = s[j] => i = j
      /\ h[HEAD].prev = NULL /\ h[TAIL].next = NULL
      /\ \A i \in 0 .. n : h[Nth(s, i)].next = Nth(s, i + 1) /\ h[Nth(s, i + 1)].prev = Nth(s, i)
  BY Zenon DEF Whole
<1>2. /\ n \in Nat /\ Nth(s, 0) = HEAD /\ Nth(s, n + 1) = TAIL
      /\ \A i \in 0 .. n + 1 : Nth(s, i) \in Node
      /\ \A i, j \in 0 .. n + 1 : Nth(s, i) = Nth(s, j) => i = j
  BY <1>1, Places, Zenon
<1>k. n \in Nat /\ p \in 1 .. n /\ Len(r) = n - 1 /\ Len(r) + 1 = n
  BY <1>0, <1>2
<1>3. \A m \in 0 .. n : F[m] = IF m < p THEN m ELSE m + 1
  BY Zenon
<1>r. \A i \in 1 .. n - 1 : r[i] = s[IF i < p THEN i ELSE i + 1]
  BY <1>0, Zenon
<1> HIDE DEF n, F
<1>4. F[0] = 0 /\ F[n] = n + 1 /\ \A m \in 1 .. n - 1 : F[m] \in 1 .. n /\ r[m] = s[F[m]]
  <2>1. F[0] = 0 /\ F[n] = n + 1
    BY <1>3, <1>k
  <2>2. ASSUME NEW m \in 1 .. n - 1  PROVE F[m] \in 1 .. n /\ r[m] = s[F[m]]
    <3>1. m \in 0 .. n /\ (m < p => m \in 1 .. n) /\ m + 1 \in 1 .. n
      BY <1>k
    <3>2. F[m] = (IF m < p THEN m ELSE m + 1) /\ r[m] = s[IF m < p THEN m ELSE m + 1]
      BY <3>1, <1>3, <1>r, Zenon
    <3> QED
      BY <3>1, <3>2, Zenon
  <2> QED
    BY <2>1, <2>2, Zenon
<1>5. \A l, m \in 1 .. n - 1 : F[l] = F[m] => l = m
  BY <1>3, <1>k, SMTT(30)
<1>6. \A i \in 0 .. n : g[Nth(s, i)].next = IF i = p - 1 THEN Nth(s, p + 1) ELSE Nth(s, i + 1)
  <2> TAKE i \in 0 .. n
  <2>1. i \in 0 .. n + 1 /\ p - 1 \in 0 .. n + 1
    BY <1>k
  <2>2. Nth(s, i) = Nth(s, p - 1) <=> i = p - 1
    BY <2>1, <1>2, Zenon
  <2> QED
    BY <2>1, <2>2, <1>0, <1>1, <1>2, Zenon
<1>7. \A i \in 0 .. n : g[Nth(s, i + 1)].prev = IF i = p THEN Nth(s, p - 1) ELSE Nth(s, i)
  <2> TAKE i \in 0 .. n
  <2>1. i + 1 \in 0 .. n + 1 /\ p + 1 \in 0 .. n + 1 /\ (i + 1 = p + 1 <=> i = p)
    BY <1>k
  <2>2. Nth(s, i + 1) = Nth(s, p + 1) <=> i + 1 = p + 1
    BY <2>1, <1>2, Zenon
  <2> QED
    BY <2>1, <2>2, <1>0, <1>1, <1>2, Zenon
<1>8. ASSUME NEW m \in 0 .. n - 1  PROVE g[Nth(s, F[m])].next = Nth(s, F[m + 1]) /\ g[Nth(s, F[m + 1])].prev = Nth(s, F[m])
  <2>0. m \in 0 .. n /\ m + 1 \in 0 .. n
    BY <1>k
  <2>1. CASE m < p - 1
    <3>1. F[m] = m /\ F[m + 1] = m + 1 /\ m # p - 1 /\ m # p
      BY <2>0, <2>1, <1>3, <1>k
    <3> QED
      BY <3>1, <2>0, <1>6, <1>7, Zenon
  <2>2. CASE m = p - 1
    <3>1. F[m] = p - 1 /\ F[m + 1] = p + 1 /\ p \in 0 .. n
      BY <2>0, <2>2, <1>3, <1>k
    <3> QED
      BY <3>1, <2>0, <2>2, <1>6, <1>7, Zenon
  <2>3. CASE m >= p
    <3>1. F[m] = m + 1 /\ F[m + 1] = (m + 1) + 1 /\ m + 1 # p - 1 /\ m + 1 # p
      BY <2>0, <2>3, <1>3, <1>k
    <3> QED
      BY <3>1, <2>0, <1>6, <1>7, Zenon
  <2>4. m < p - 1 \/ m = p - 1 \/ m >= p
    BY <2>0, <1>k
  <2> QED
    BY <2>1, <2>2, <2>3, <2>4, Zenon
<1>9. g[HEAD].prev = NULL /\ g[TAIL].next = NULL
  <2>1. 0 \in 0 .. n + 1 /\ p + 1 \in 0 .. n + 1 /\ p + 1 # 0 /\ p - 1 \in 0 .. n + 1 /\ n + 1 \in 0 .. n + 1 /\ p - 1 # n + 1
    BY <1>k
  <2>2. HEAD # Nth(s, p + 1) /\ TAIL # Nth(s, p - 1) /\ HEAD \in Node /\ TAIL \in Node
    BY <1>0, <2>1, <1>2, Zenon
  <2> QED
    BY <1>0, <2>2, <1>1, Zenon
<1>10. Rearrangement(g, s, r, F)
  BY <1>0, <1>4, <1>5, <1>8, <1>9, <1>k, Zenon DEF n, Rearrangement
<1> QED
  BY <1>0, <1>10, Rearranged, Zenon

\* The place that follows place a once the elements from the i-th to the j-th
\* are before the p-th, and the one that precedes it.
Succ(a, i, j, p) ==
  IF p = j + 1 THEN a + 1
  ELSE IF a = j THEN p ELSE IF a = p - 1 THEN i ELSE IF a = i - 1 THEN j + 1 ELSE a + 1
Pred(a, i, j, p) ==
  IF p = j + 1 THEN a - 1
  ELSE IF a = p THEN j ELSE IF a = i THEN p - 1 ELSE IF a = j + 1 THEN i - 1 ELSE a - 1

\* From is a rearrangement of the places, and the neighbours of a place are its
\* Succ and Pred.
FromMoves(n, i, j, p) ==
  /\ From(0, i, j, p) = 0 /\ From(n + 1, i, j, p) = n + 1
  /\ \A m \in 1 .. n : From(m, i, j, p) \in 1 .. n
  /\ \A l, m \in 1 .. n : From(l, i, j, p) = From(m, i, j, p) => l = m
  /\ \A m \in 0 .. n : From(m, i, j, p) \in 0 .. n /\ From(m + 1, i, j, p) \in 1 .. n + 1
  /\ \A m \in 0 .. n : Succ(From(m, i, j, p), i, j, p) = From(m + 1, i, j, p)
  /\ \A m \in 0 .. n : Pred(From(m + 1, i, j, p), i, j, p) = From(m, i, j, p)

\* list_splice moves a range to any place outside of it.
LEMMA FromPlaces ==
  ASSUME NEW n \in Nat, NEW i \in 1 .. n, NEW j \in i .. n, NEW p \in (1 .. i - 1) \cup (j + 1 .. n + 1)
  PROVE  FromMoves(n, i, j, p)
PROOF
<1>1. CASE p < i
  <2>1. \A m \in Nat : From(m, i, j, p) = IF m \in p .. p + (j - i) THEN m - p + i
                                         ELSE IF m \in p + (j - i) + 1 .. j THEN m - (j - i + 1) ELSE m
    BY <1>1, Zenon DEF From
  <2>2. \A a \in 0 .. n + 1 :
          /\ Succ(a, i, j, p) = IF a = j THEN p ELSE IF a = p - 1 THEN i ELSE IF a = i - 1 THEN j + 1 ELSE a + 1
          /\ Pred(a, i, j, p) = IF a = p THEN j ELSE IF a = i THEN p - 1 ELSE IF a = j + 1 THEN i - 1 ELSE a - 1
    BY <1>1 DEF Succ, Pred
  <2>3. p \in 1 .. i - 1
    BY <1>1
  <2>4. From(0, i, j, p) = 0 /\ From(n + 1, i, j, p) = n + 1
    BY <2>1, <2>3
  <2>5. \A m \in 1 .. n : From(m, i, j, p) \in 1 .. n
    BY <2>1, <2>3
  <2>6. \A l, m \in 1 .. n : From(l, i, j, p) = From(m, i, j, p) => l = m
    BY <2>1, <2>3
  <2>7. ASSUME NEW m \in 0 .. n
        PROVE  /\ From(m, i, j, p) \in 0 .. n /\ From(m + 1, i, j, p) \in 1 .. n + 1
               /\ Succ(From(m, i, j, p), i, j, p) = From(m + 1, i, j, p)
               /\ Pred(From(m + 1, i, j, p), i, j, p) = From(m, i, j, p)
    <3>1. From(m, i, j, p) \in 0 .. n /\ From(m + 1, i, j, p) \in 1 .. n + 1
      BY <2>1, <2>3
    <3> QED
      BY <3>1, <2>1, <2>2, <2>3, SMTT(30)
  <2> QED
    BY <2>4, <2>5, <2>6, <2>7, Zenon DEF FromMoves
<1>2. CASE p > j + 1
  <2>1. \A m \in Nat : From(m, i, j, p) = IF m \in i .. p - (j - i) - 2 THEN m + (j - i + 1)
                                         ELSE IF m \in p - (j - i) - 1 .. p - 1 THEN m - (p - 1 - j) ELSE m
    BY <1>2 DEF From
  <2>2. \A a \in 0 .. n + 1 :
          /\ Succ(a, i, j, p) = IF a = j THEN p ELSE IF a = p - 1 THEN i ELSE IF a = i - 1 THEN j + 1 ELSE a + 1
          /\ Pred(a, i, j, p) = IF a = p THEN j ELSE IF a = i THEN p - 1 ELSE IF a = j + 1 THEN i - 1 ELSE a - 1
    BY <1>2 DEF Succ, Pred
  <2>3. p \in j + 2 .. n + 1
    BY <1>2
  <2>4. From(0, i, j, p) = 0 /\ From(n + 1, i, j, p) = n + 1
    BY <2>1, <2>3
  <2>5. \A m \in 1 .. n : From(m, i, j, p) \in 1 .. n
    BY <2>1, <2>3
  <2>6. \A l, m \in 1 .. n : From(l, i, j, p) = From(m, i, j, p) => l = m
    BY <2>1, <2>3
  <2>7. ASSUME NEW m \in 0 .. n
        PROVE  /\ From(m, i, j, p) \in 0 .. n /\ From(m + 1, i, j, p) \in 1 .. n + 1
               /\ Succ(From(m, i, j, p), i, j, p) = From(m + 1, i, j, p)
               /\ Pred(From(m + 1, i, j, p), i, j, p) = From(m, i, j, p)
    <3>1. From(m, i, j, p) \in 0 .. n /\ From(m + 1, i, j, p) \in 1 .. n + 1
      BY <2>1, <2>3
    <3> QED
      BY <3>1, <2>1, <2>2, <2>3, SMTT(30)
  <2> QED
    BY <2>4, <2>5, <2>6, <2>7, Zenon DEF FromMoves
<1>3. CASE p = j + 1
  <2>1. \A m \in 0 .. n + 1 : From(m, i, j, p) = m
    BY <1>3 DEF From
  <2>2. \A a \in 0 .. n + 1 : Succ(a, i, j, p) = a + 1 /\ Pred(a, i, j, p) = a - 1
    BY <1>3, Zenon DEF Succ, Pred
  <2> QED
    BY <2>1, <2>2 DEF FromMoves
<1> QED
  BY <1>1, <1>2, <1>3

\* A call that gives the places their Succ and Pred leaves the list whole.
LEMMA SpliceWhole ==
  ASSUME NEW h, NEW s, Whole(h, s), NEW i \in 1 .. Len(s), NEW j \in i .. Len(s),
         NEW p \in (1 .. i - 1) \cup (j + 1 .. Len(s) + 1),
         NEW g \in [Node -> Cell],
         g[HEAD].prev = NULL, g[TAIL].next = NULL,
         \A a \in 0 .. Len(s) : g[Nth(s, a)].next = Nth(s, Succ(a, i, j, p)),
         \A a \in 1 .. Len(s) + 1 : g[Nth(s, a)].prev = Nth(s, Pred(a, i, j, p))
  PROVE  Whole(g, [m \in 1 .. Len(s) |-> s[From(m, i, j, p)]])
PROOF
<1> DEFINE n == Len(s)
           F == [m \in 0 .. n + 1 |-> From(m, i, j, p)]
           r == [m \in 1 .. n |-> s[From(m, i, j, p)]]
<1>1. /\ s \in Seq(Elem) /\ n \in Nat /\ n = Len(s)
      /\ i \in 1 .. n /\ j \in i .. n /\ p \in (1 .. i - 1) \cup (j + 1 .. n + 1)
  BY DEF Whole
<1>6. /\ \A a \in 0 .. n : g[Nth(s, a)].next = Nth(s, Succ(a, i, j, p))
      /\ \A a \in 1 .. n + 1 : g[Nth(s, a)].prev = Nth(s, Pred(a, i, j, p))
  BY Zenon
<1> HIDE DEF n
<1>2. /\ From(0, i, j, p) = 0 /\ From(n + 1, i, j, p) = n + 1
      /\ \A m \in 1 .. n : From(m, i, j, p) \in 1 .. n
      /\ \A l, m \in 1 .. n : From(l, i, j, p) = From(m, i, j, p) => l = m
      /\ \A m \in 0 .. n : From(m, i, j, p) \in 0 .. n /\ From(m + 1, i, j, p) \in 1 .. n + 1
      /\ \A m \in 0 .. n : Succ(From(m, i, j, p), i, j, p) = From(m + 1, i, j, p)
      /\ \A m \in 0 .. n : Pred(From(m + 1, i, j, p), i, j, p) = From(m, i, j, p)
  <2>1. FromMoves(n, i, j, p)
    BY <1>1, FromPlaces, Zenon
  <2> QED
    BY <2>1, Zenon DEF FromMoves
<1>3. r \in Seq(Elem) /\ Len(r) = n /\ \A m \in 1 .. n : r[m] = s[From(m, i, j, p)]
  <2>1. \A m \in 1 .. n : s[From(m, i, j, p)] \in Elem
    BY <1>1, <1>2, SMTT(30)
  <2> QED
    BY <2>1, <1>1
<1>4. /\ \A m \in 1 .. n : m \in 0 .. n + 1
      /\ \A m \in 0 .. n : m \in 0 .. n + 1 /\ m + 1 \in 0 .. n + 1
      /\ 0 \in 0 .. n + 1 /\ n + 1 \in 0 .. n + 1
  BY <1>1
<1>5. \A m \in 0 .. n + 1 : F[m] = From(m, i, j, p)
  BY Zenon
<1> HIDE DEF F, r
<1>7. F[0] = 0 /\ F[n + 1] = n + 1
  BY <1>2, <1>4, <1>5, Zenon
<1>f. \A m \in 1 .. n : F[m] = From(m, i, j, p)
  BY <1>4, <1>5, Zenon
<1>8. \A m \in 1 .. n : F[m] \in 1 .. n /\ r[m] = s[F[m]]
  <2> TAKE m \in 1 .. n
  <2>1. F[m] = From(m, i, j, p) /\ From(m, i, j, p) \in 1 .. n /\ r[m] = s[From(m, i, j, p)]
    BY <1>2, <1>3, <1>f, Zenon
  <2> QED
    BY <2>1, Zenon
<1>9. \A l, m \in 1 .. n : F[l] = F[m] => l = m
  <2> TAKE l, m \in 1 .. n
  <2>1. F[l] = From(l, i, j, p) /\ F[m] = From(m, i, j, p)
    BY <1>f, Zenon
  <2>2. From(l, i, j, p) = From(m, i, j, p) => l = m
    BY <1>2, Zenon
  <2> QED
    BY <2>1, <2>2, Zenon
<1>10. ASSUME NEW m \in 0 .. n
       PROVE  g[Nth(s, F[m])].next = Nth(s, F[m + 1]) /\ g[Nth(s, F[m + 1])].prev = Nth(s, F[m])
  <2>1. F[m] = From(m, i, j, p) /\ F[m + 1] = From(m + 1, i, j, p)
    BY <1>4, <1>5, Zenon
  <2>2. F[m] \in 0 .. n /\ F[m + 1] \in 1 .. n + 1
    BY <2>1, <1>2, ZenonT(40)
  <2>3. Succ(F[m], i, j, p) = F[m + 1] /\ Pred(F[m + 1], i, j, p) = F[m]
    BY <2>1, <1>2, Zenon
  <2> QED
    BY <2>2, <2>3, <1>6, Zenon
<1>11. Rearrangement(g, s, r, F)
  BY <1>1, <1>3, <1>7, <1>8, <1>9, <1>10, Zenon DEF Rearrangement
<1>12. Whole(g, r)
  BY <1>11, Rearranged, Zenon
<1> QED
  BY <1>12, Zenon DEF r, n

\* The six assignments of list_splice, one after the other.
SplicedHeap(h, first, l, before) ==
  LET h1 == [h EXCEPT ![h[first].prev].next = h[l].next]
      h2 == [h1 EXCEPT ![h1[l].next].prev = h1[first].prev]
      h3 == [h2 EXCEPT ![first].prev = h2[before].prev, ![l].next = before]
      h4 == [h3 EXCEPT ![h3[before].prev].next = first]
  IN [h4 EXCEPT ![before].prev = l]

\* g is h with the six pointers of a moved range set.
Resets(g, h, pf, first, l, after, pb, before) ==
  /\ g \in [Node -> Cell]
  /\ \A x \in Node : g[x].next = IF x = pb THEN first ELSE IF x = l THEN before
                                 ELSE IF x = pf THEN after ELSE h[x].next
  /\ \A x \in Node : g[x].prev = IF x = before THEN l ELSE IF x = first THEN pb
                                 ELSE IF x = after THEN pf ELSE h[x].prev

\* What the assignments of list_splice come to, on a range whose
\* neighbours are pf and after, put before a node that is neither after nor in the
\* range.
LEMMA SplicePointers ==
  ASSUME NEW h \in [Node -> Cell], NEW pf \in Node, NEW first \in Node, NEW l \in Node, NEW after \in Node,
         NEW pb \in Node, NEW before \in Node,
         h[first].prev = pf, h[l].next = after, h[before].prev = pb,
         l # pf, before # after, before # first
  PROVE  Resets(SplicedHeap(h, first, l, before), h, pf, first, l, after, pb, before)
PROOF
<1> DEFINE h1 == [h EXCEPT ![h[first].prev].next = h[l].next]
           h2 == [h1 EXCEPT ![h1[l].next].prev = h1[first].prev]
           h3 == [h2 EXCEPT ![first].prev = h2[before].prev, ![l].next = before]
           h4 == [h3 EXCEPT ![h3[before].prev].next = first]
           g == [h4 EXCEPT ![before].prev = l]
<1>1. /\ h1 \in [Node -> Cell]
      /\ \A x \in Node : h1[x].next = (IF x = pf THEN after ELSE h[x].next) /\ h1[x].prev = h[x].prev
  BY DEF Cell
<1> HIDE DEF h1
<1>2. h1[l].next = after /\ h1[first].prev = pf /\ h1[before].prev = pb
  BY <1>1, Zenon
<1>3. /\ h2 \in [Node -> Cell]
      /\ \A x \in Node : h2[x].prev = (IF x = after THEN pf ELSE h1[x].prev) /\ h2[x].next = h1[x].next
  BY <1>1, <1>2 DEF Cell
<1> HIDE DEF h2
<1>4. h2[before].prev = pb
  BY <1>2, <1>3, Zenon
<1>5. /\ h3 \in [Node -> Cell]
      /\ \A x \in Node : /\ h3[x].prev = (IF x = first THEN pb ELSE h2[x].prev)
                         /\ h3[x].next = (IF x = l THEN before ELSE h2[x].next)
  BY <1>3, <1>4 DEF Cell
<1> HIDE DEF h3
<1>6. h3[before].prev = pb
  BY <1>4, <1>5, Zenon
<1>7. /\ h4 \in [Node -> Cell]
      /\ \A x \in Node : h4[x].next = (IF x = pb THEN first ELSE h3[x].next) /\ h4[x].prev = h3[x].prev
  BY <1>5, <1>6 DEF Cell
<1> HIDE DEF h4
<1>8. /\ g \in [Node -> Cell]
      /\ \A x \in Node : g[x].prev = (IF x = before THEN l ELSE h4[x].prev) /\ g[x].next = h4[x].next
  BY <1>7 DEF Cell
<1> HIDE DEF g
<1>9. /\ g \in [Node -> Cell]
      /\ \A x \in Node : g[x].next = IF x = pb THEN first ELSE IF x = l THEN before
                                     ELSE IF x = pf THEN after ELSE h[x].next
      /\ \A x \in Node : g[x].prev = IF x = before THEN l ELSE IF x = first THEN pb
                                     ELSE IF x = after THEN pf ELSE h[x].prev
  BY <1>1, <1>3, <1>5, <1>7, <1>8
<1> QED
  BY <1>9, Zenon DEF Resets, SplicedHeap, g, h4, h3, h2, h1

\* A call that turns the neighbours of every place around leaves the list whole.
LEMMA ReverseWhole ==
  ASSUME NEW h, NEW s, Whole(h, s), Len(s) # 0, NEW g \in [Node -> Cell],
         g[HEAD].prev = NULL, g[TAIL].next = NULL,
         g[HEAD].next = Nth(s, Len(s)), g[TAIL].prev = Nth(s, 1),
         \A a \in 1 .. Len(s) : g[Nth(s, a)].next = Nth(s, IF a = 1 THEN Len(s) + 1 ELSE a - 1),
         \A a \in 1 .. Len(s) : g[Nth(s, a)].prev = Nth(s, IF a = Len(s) THEN 0 ELSE a + 1)
  PROVE  Whole(g, [m \in 1 .. Len(s) |-> s[Len(s) + 1 - m]])
PROOF
<1> DEFINE n == Len(s)
           F == [m \in 0 .. n + 1 |-> IF m \in 1 .. n THEN n + 1 - m ELSE m]
           r == [m \in 1 .. n |-> s[n + 1 - m]]
<1>1. s \in Seq(Elem) /\ n \in Nat \ {0} /\ n = Len(s) /\ Nth(s, 0) = HEAD /\ Nth(s, n + 1) = TAIL
  BY DEF Whole, Nth
<1>2. /\ g[HEAD].next = Nth(s, n) /\ g[TAIL].prev = Nth(s, 1)
      /\ \A a \in 1 .. n : g[Nth(s, a)].next = Nth(s, IF a = 1 THEN n + 1 ELSE a - 1)
      /\ \A a \in 1 .. n : g[Nth(s, a)].prev = Nth(s, IF a = n THEN 0 ELSE a + 1)
  BY Zenon
<1> HIDE DEF n
<1>3. r \in Seq(Elem) /\ Len(r) = n /\ \A m \in 1 .. n : r[m] = s[n + 1 - m]
  <2>1. \A m \in 1 .. n : s[n + 1 - m] \in Elem
    BY <1>1
  <2> QED
    BY <2>1, <1>1
<1>4. \A m \in 1 .. n : F[m] = n + 1 - m
  BY <1>1
<1>5. F[0] = 0 /\ F[n + 1] = n + 1
  BY <1>1
<1> HIDE DEF F, r
<1>6. \A m \in 1 .. n : F[m] \in 1 .. n /\ r[m] = s[F[m]]
  <2> TAKE m \in 1 .. n
  <2>1. F[m] = n + 1 - m /\ r[m] = s[n + 1 - m]
    BY <1>3, <1>4, Zenon
  <2>2. n + 1 - m \in 1 .. n
    BY <1>1
  <2> QED
    BY <2>1, <2>2, Zenon
<1>7. \A l, m \in 1 .. n : F[l] = F[m] => l = m
  BY <1>1, <1>4, SMTT(30)
<1>8. ASSUME NEW m \in 0 .. n
      PROVE  g[Nth(s, F[m])].next = Nth(s, F[m + 1]) /\ g[Nth(s, F[m + 1])].prev = Nth(s, F[m])
  <2>1. CASE m = 0
    <3>1. F[m] = 0 /\ F[m + 1] = n /\ n \in 1 .. n
      <4>1. 1 \in 1 .. n /\ n \in 1 .. n /\ n + 1 - 1 = n /\ 0 + 1 = 1
        BY <1>1
      <4>2. F[1] = n + 1 - 1
        BY <4>1, <1>4, Zenon
      <4> QED
        BY <4>1, <4>2, <2>1, <1>5, Zenon
    <3> QED
      BY <3>1, <1>1, <1>2, Zenon
  <2>2. CASE m = n
    <3>1. F[m] = 1 /\ F[m + 1] = n + 1 /\ 1 \in 1 .. n
      <4>1. n \in 1 .. n /\ n + 1 - n = 1 /\ 1 \in 1 .. n
        BY <1>1
      <4> QED
        BY <4>1, <2>2, <1>4, <1>5, Zenon
    <3> QED
      BY <3>1, <1>1, <1>2, Zenon
  <2>3. CASE m \in 1 .. n - 1
    <3> DEFINE a == n + 1 - m
    <3>1. a \in 1 .. n /\ a # 1 /\ a - 1 \in 1 .. n /\ a - 1 # n /\ (a - 1) + 1 = a
      BY <2>3, <1>1
    <3>2. F[m] = a /\ F[m + 1] = a - 1
      <4>1. m \in 1 .. n /\ m + 1 \in 1 .. n /\ n + 1 - (m + 1) = a - 1
        BY <2>3, <1>1
      <4>2. F[m] = a /\ F[m + 1] = n + 1 - (m + 1)
        BY <4>1, <1>4, Zenon
      <4> QED
        BY <4>1, <4>2, Zenon
    <3> HIDE DEF a
    <3> QED
      BY <3>1, <3>2, <1>2
  <2> QED
    BY <2>1, <2>2, <2>3, <1>1
<1>9. Rearrangement(g, s, r, F)
  BY <1>1, <1>3, <1>5, <1>6, <1>7, <1>8, Zenon DEF Rearrangement
<1>10. Whole(g, r)
  BY <1>9, Rearranged, Zenon
<1> QED
  BY <1>10, Zenon DEF r, n

\* What the actions read of a whole list: each node at a place, and the pointers
\* of the nodes at two neighbouring places.
LEMMA Reading ==
  ASSUME Whole(heap, shadow)
  PROVE  /\ heap \in [Node -> Cell] /\ shadow \in Seq(Elem) /\ Len(shadow) \in Nat
         /\ \A a : NodeAt(a) = Nth(shadow, a)
         /\ \A a \in 1 .. Len(shadow) : Nth(shadow, a) = shadow[a] /\ shadow[a] \in Elem
         /\ Nth(shadow, 0) = HEAD /\ Nth(shadow, Len(shadow) + 1) = TAIL
         /\ \A a \in 0 .. Len(shadow) + 1 : Nth(shadow, a) \in Node
         /\ \A a, b \in 0 .. Len(shadow) + 1 : Nth(shadow, a) = Nth(shadow, b) => a = b
         /\ \A a \in 0 .. Len(shadow) : heap[Nth(shadow, a)].next = Nth(shadow, a + 1)
         /\ \A a \in 1 .. Len(shadow) + 1 : heap[Nth(shadow, a)].prev = Nth(shadow, a - 1)
PROOF
<1>1. /\ heap \in [Node -> Cell] /\ shadow \in Seq(Elem) /\ Len(shadow) \in Nat
      /\ \A i, j \in 1 .. Len(shadow) : shadow[i] = shadow[j] => i = j
      /\ \A i \in 0 .. Len(shadow) : /\ heap[Nth(shadow, i)].next = Nth(shadow, i + 1)
                                     /\ heap[Nth(shadow, i + 1)].prev = Nth(shadow, i)
  BY DEF Whole
<1>2. \A a : NodeAt(a) = Nth(shadow, a)
  BY SMTT(30) DEF NodeAt, Nth
<1>3. \A a \in 1 .. Len(shadow) + 1 : heap[Nth(shadow, a)].prev = Nth(shadow, a - 1)
  <2> TAKE a \in 1 .. Len(shadow) + 1
  <2>1. a - 1 \in 0 .. Len(shadow) /\ (a - 1) + 1 = a
    BY <1>1
  <2> QED
    BY <2>1, <1>1, Zenon
<1>4. /\ \A a \in 1 .. Len(shadow) : Nth(shadow, a) = shadow[a] /\ shadow[a] \in Elem
      /\ Nth(shadow, 0) = HEAD /\ Nth(shadow, Len(shadow) + 1) = TAIL
      /\ \A a \in 0 .. Len(shadow) + 1 : Nth(shadow, a) \in Node
      /\ \A a, b \in 0 .. Len(shadow) + 1 : Nth(shadow, a) = Nth(shadow, b) => a = b
  BY <1>1, Places, ZenonT(40)
<1> QED
  BY <1>1, <1>2, <1>3, <1>4, Zenon

\* list_insert: the new element is on no list, so its pointers and the two of
\* its neighbours are all that changes.
LEMMA InsertKeeps ==
  ASSUME Whole(heap, shadow), NEW e \in Elem, NEW i \in 1 .. Len(shadow) + 1, list_insert(e, i)
  PROVE  Whole(heap', shadow')
PROOF
<1> DEFINE b == Nth(shadow, i)
           p == Nth(shadow, i - 1)
           h1 == [heap EXCEPT ![e] = [prev |-> heap[b].prev, next |-> b]]
           h2 == [h1 EXCEPT ![h1[b].prev].next = e]
<1>1. /\ heap \in [Node -> Cell] /\ shadow \in Seq(Elem) /\ Len(shadow) \in Nat
      /\ b \in Node /\ p \in Node /\ heap[b].prev = p /\ NodeAt(i) = b
  <2>1. Len(shadow) \in Nat
    BY Reading, Zenon
  <2>2. i \in 0 .. Len(shadow) + 1 /\ i - 1 \in 0 .. Len(shadow) + 1
    BY <2>1
  <2> QED
    BY <2>2, Reading, Zenon
<1>2. \A a \in 1 .. Len(shadow) : shadow[a] # e
  BY <1>1 DEF list_insert, OnList
<1>3. e \in Node /\ e # b /\ e # p
  <2>1. i \in 1 .. Len(shadow) \/ i = Len(shadow) + 1
    BY <1>1
  <2>2. i - 1 \in 1 .. Len(shadow) \/ i - 1 = 0
    BY <1>1
  <2>3. b = TAIL \/ \E a \in 1 .. Len(shadow) : b = shadow[a]
    BY <2>1, Reading, Zenon
  <2>4. p = HEAD \/ \E a \in 1 .. Len(shadow) : p = shadow[a]
    BY <2>2, Reading, Zenon
  <2> QED
    BY <2>3, <2>4, <1>2, ListAssumption, Zenon DEF Node
<1>4. /\ heap' = [h2 EXCEPT ![b].prev = e]
      /\ shadow' = [n \in 1 .. Len(shadow) + 1 |->
                      IF n < i THEN shadow[n] ELSE IF n = i THEN e ELSE shadow[n - 1]]
  BY <1>1, Zenon DEF list_insert
<1> HIDE DEF b, p
<1>5. /\ h1 \in [Node -> Cell] /\ h1[e].next = b /\ h1[e].prev = p
      /\ \A x \in Node \ {e} : h1[x] = heap[x]
  BY <1>1, <1>3, Zenon DEF Cell
<1> HIDE DEF h1
<1>6. h1[b].prev = p
  BY <1>1, <1>3, <1>5, Zenon
<1>7. /\ h2 \in [Node -> Cell]
      /\ \A x \in Node : h2[x].next = (IF x = p THEN e ELSE h1[x].next) /\ h2[x].prev = h1[x].prev
  BY <1>1, <1>3, <1>5, <1>6 DEF Cell
<1> HIDE DEF h2
<1>8. /\ heap' \in [Node -> Cell]
      /\ \A x \in Node : heap'[x].prev = (IF x = b THEN e ELSE h2[x].prev) /\ heap'[x].next = h2[x].next
  BY <1>1, <1>3, <1>4, <1>7 DEF Cell
<1>9. /\ \A x \in Node : heap'[x].next = IF x = e THEN b ELSE IF x = p THEN e ELSE heap[x].next
      /\ \A x \in Node : heap'[x].prev = IF x = e THEN p ELSE IF x = b THEN e ELSE heap[x].prev
  BY <1>3, <1>5, <1>7, <1>8
<1>10. /\ shadow' \in Seq(Elem) /\ Len(shadow') = Len(shadow) + 1
       /\ \A n \in 1 .. Len(shadow) + 1 :
            shadow'[n] = IF n < i THEN shadow[n] ELSE IF n = i THEN e ELSE shadow[n - 1]
  <2>1. \A n \in 1 .. Len(shadow) + 1 :
          (IF n < i THEN shadow[n] ELSE IF n = i THEN e ELSE shadow[n - 1]) \in Elem
    BY <1>1
  <2> QED
    BY <2>1, <1>1, <1>4
<1>11. /\ \A x \in Node : heap'[x].next = IF x = e THEN Nth(shadow, i)
                                         ELSE IF x = Nth(shadow, i - 1) THEN e ELSE heap[x].next
       /\ \A x \in Node : heap'[x].prev = IF x = e THEN Nth(shadow, i - 1)
                                         ELSE IF x = Nth(shadow, i) THEN e ELSE heap[x].prev
  BY <1>9, Zenon DEF b, p
<1> QED
  BY <1>2, <1>8, <1>10, <1>11, InsertWhole

\* g has the pointers of h.
Same(g, h) ==
  /\ g \in [Node -> Cell]
  /\ \A x \in Node : g[x].next = h[x].next /\ g[x].prev = h[x].prev

\* The same assignments with the range put before the node it was before.
LEMMA SpliceInPlace ==
  ASSUME NEW h \in [Node -> Cell], NEW pf \in Node, NEW first \in Node, NEW l \in Node, NEW after \in Node,
         h[pf].next = first, h[first].prev = pf, h[l].next = after, h[after].prev = l,
         l # pf, after # first
  PROVE  Same(SplicedHeap(h, first, l, after), h)
PROOF
<1> DEFINE h1 == [h EXCEPT ![h[first].prev].next = h[l].next]
           h2 == [h1 EXCEPT ![h1[l].next].prev = h1[first].prev]
           h3 == [h2 EXCEPT ![first].prev = h2[after].prev, ![l].next = after]
           h4 == [h3 EXCEPT ![h3[after].prev].next = first]
           g == [h4 EXCEPT ![after].prev = l]
<1>1. /\ h1 \in [Node -> Cell]
      /\ \A x \in Node : h1[x].next = (IF x = pf THEN after ELSE h[x].next) /\ h1[x].prev = h[x].prev
  BY DEF Cell
<1> HIDE DEF h1
<1>2. h1[l].next = after /\ h1[first].prev = pf
  BY <1>1, Zenon
<1>3. /\ h2 \in [Node -> Cell]
      /\ \A x \in Node : h2[x].prev = (IF x = after THEN pf ELSE h1[x].prev) /\ h2[x].next = h1[x].next
  BY <1>1, <1>2 DEF Cell
<1> HIDE DEF h2
<1>4. h2[after].prev = pf
  BY <1>3, Zenon
<1>5. /\ h3 \in [Node -> Cell]
      /\ \A x \in Node : /\ h3[x].prev = (IF x = first THEN pf ELSE h2[x].prev)
                         /\ h3[x].next = (IF x = l THEN after ELSE h2[x].next)
  BY <1>3, <1>4, SMTT(30) DEF Cell
<1> HIDE DEF h3
<1>6. h3[after].prev = pf
  BY <1>4, <1>5, Zenon
<1>7. /\ h4 \in [Node -> Cell]
      /\ \A x \in Node : h4[x].next = (IF x = pf THEN first ELSE h3[x].next) /\ h4[x].prev = h3[x].prev
  BY <1>5, <1>6 DEF Cell
<1> HIDE DEF h4
<1>8. /\ g \in [Node -> Cell]
      /\ \A x \in Node : g[x].prev = (IF x = after THEN l ELSE h4[x].prev) /\ g[x].next = h4[x].next
  BY <1>7 DEF Cell
<1> HIDE DEF g
<1>9. g \in [Node -> Cell] /\ \A x \in Node : g[x].next = h[x].next /\ g[x].prev = h[x].prev
  BY <1>1, <1>3, <1>5, <1>7, <1>8, SMTT(30)
<1> QED
  BY <1>9, Zenon DEF Same, SplicedHeap, g, h4, h3, h2, h1

\* list_remove: the two pointers to the element go past it.
LEMMA ListRemoveKeeps ==
  ASSUME Whole(heap, shadow), NEW i \in 1 .. Len(shadow), list_remove(i)
  PROVE  Whole(heap', shadow')
PROOF
<1> DEFINE e == Nth(shadow, i)
           p == Nth(shadow, i - 1)
           q == Nth(shadow, i + 1)
           h1 == [heap EXCEPT ![heap[e].prev].next = heap[e].next]
<1>0. Len(shadow) \in Nat
  BY Reading, Zenon
<1>a. /\ i \in 0 .. Len(shadow) /\ i \in 1 .. Len(shadow) + 1 /\ i \in 0 .. Len(shadow) + 1
      /\ i - 1 \in 0 .. Len(shadow) + 1 /\ i + 1 \in 0 .. Len(shadow) + 1 /\ i - 1 # i
  BY <1>0
<1>1. /\ heap \in [Node -> Cell] /\ shadow \in Seq(Elem)
      /\ e \in Node /\ p \in Node /\ q \in Node /\ e # p
      /\ heap[e].prev = p /\ heap[e].next = q /\ shadow[i] = e
  BY <1>a, Reading, Zenon
<1>2. /\ heap' = [h1 EXCEPT ![h1[e].next].prev = h1[e].prev]
      /\ shadow' = [n \in 1 .. Len(shadow) - 1 |-> shadow[IF n < i THEN n ELSE n + 1]]
  BY <1>1, Zenon DEF list_remove, Unlink
<1> HIDE DEF e, p, q
<1>3. /\ h1 \in [Node -> Cell]
      /\ \A x \in Node : h1[x].next = (IF x = p THEN q ELSE heap[x].next) /\ h1[x].prev = heap[x].prev
  BY <1>1 DEF Cell
<1> HIDE DEF h1
<1>4. h1[e].next = q /\ h1[e].prev = p
  BY <1>1, <1>3, Zenon
<1>5. /\ heap' \in [Node -> Cell]
      /\ \A x \in Node : heap'[x].prev = (IF x = q THEN p ELSE h1[x].prev) /\ heap'[x].next = h1[x].next
  BY <1>1, <1>2, <1>3, <1>4 DEF Cell
<1>6. /\ \A x \in Node : heap'[x].next = IF x = p THEN q ELSE heap[x].next
      /\ \A x \in Node : heap'[x].prev = IF x = q THEN p ELSE heap[x].prev
  BY <1>3, <1>5, Zenon
<1>7. /\ shadow' \in Seq(Elem) /\ Len(shadow') = Len(shadow) - 1
      /\ \A n \in 1 .. Len(shadow) - 1 : shadow'[n] = shadow[IF n < i THEN n ELSE n + 1]
  <2>1. \A n \in 1 .. Len(shadow) - 1 : shadow[IF n < i THEN n ELSE n + 1] \in Elem
    BY <1>0, <1>1
  <2>2. Len(shadow) - 1 \in Nat
    BY <1>0
  <2> QED
    BY <2>1, <2>2, <1>2
<1>8. Joined(heap', heap, shadow, i)
  BY <1>5, <1>6, Zenon DEF Joined, p, q
<1>9. Without(shadow', shadow, i)
  BY <1>7, Zenon DEF Without
<1> QED
  BY <1>8, <1>9, RemoveWhole, Zenon

\* list_splice: before the end of the range, its six assignments put back what
\* was there; before any other place, they give the places their new neighbours.
LEMMA SpliceKeeps ==
  ASSUME Whole(heap, shadow), NEW i \in 1 .. Len(shadow), NEW j \in i .. Len(shadow),
         NEW p \in (1 .. i - 1) \cup (j + 1 .. Len(shadow) + 1), Splice(i, j, p)
  PROVE  Whole(heap', shadow')
PROOF
<1> DEFINE n == Len(shadow)
           N(a) == Nth(shadow, a)
<1>0. /\ heap \in [Node -> Cell] /\ n \in Nat
      /\ N(0) = HEAD /\ N(n + 1) = TAIL
      /\ \A a \in 0 .. n + 1 : N(a) \in Node
      /\ \A a, b \in 0 .. n + 1 : N(a) = N(b) => a = b
      /\ \A a \in 0 .. n : heap[N(a)].next = N(a + 1)
      /\ \A a \in 1 .. n + 1 : heap[N(a)].prev = N(a - 1)
      /\ heap[HEAD].prev = NULL /\ heap[TAIL].next = NULL
  BY Reading, Zenon DEF Whole
<1>1. NodeAt(p) = N(p) /\ NodeAt(i) = N(i) /\ NodeAt(j + 1) = N(j + 1)
  BY Reading, Zenon
<1>k. n \in Nat /\ i \in 1 .. n /\ j \in i .. n /\ p \in (1 .. i - 1) \cup (j + 1 .. n + 1)
  BY <1>0, Zenon
<1>s. shadow' = [m \in 1 .. n |-> shadow[From(m, i, j, p)]]
  BY Zenon DEF Splice
<1>l. heap[N(j + 1)].prev = N(j)
  <2>1. j + 1 \in 1 .. n + 1 /\ (j + 1) - 1 = j
    BY <1>k, SMTT(30)
  <2> QED
    BY <2>1, <1>0, Zenon
<1>2. heap' = SplicedHeap(heap, N(i), N(j), N(p))
  BY <1>1, <1>l, Zenon DEF Splice, list_splice, SplicedHeap
<1>3. /\ N(i - 1) \in Node /\ N(i) \in Node /\ N(j) \in Node /\ N(j + 1) \in Node /\ N(p - 1) \in Node /\ N(p) \in Node
      /\ heap[N(i)].prev = N(i - 1) /\ heap[N(j)].next = N(j + 1) /\ heap[N(p)].prev = N(p - 1)
      /\ N(j) # N(i - 1) /\ N(p) # N(i)
  <2>1. /\ i - 1 \in 0 .. n + 1 /\ i \in 0 .. n + 1 /\ j \in 0 .. n + 1 /\ j + 1 \in 0 .. n + 1
        /\ p - 1 \in 0 .. n + 1 /\ p \in 0 .. n + 1 /\ i \in 1 .. n + 1 /\ j \in 0 .. n /\ p \in 1 .. n + 1
        /\ j # i - 1 /\ p # i
    BY <1>k
  <2> QED
    BY <2>1, <1>0, Zenon
<1> HIDE DEF n, N
<1>4. heap' \in [Node -> Cell]
      /\ (p # j + 1 =>
            /\ \A x \in Node : heap'[x].next = IF x = N(p - 1) THEN N(i) ELSE IF x = N(j) THEN N(p)
                                               ELSE IF x = N(i - 1) THEN N(j + 1) ELSE heap[x].next
            /\ \A x \in Node : heap'[x].prev = IF x = N(p) THEN N(j) ELSE IF x = N(i) THEN N(p - 1)
                                               ELSE IF x = N(j + 1) THEN N(i - 1) ELSE heap[x].prev)
      /\ (p = j + 1 => \A x \in Node : heap'[x].next = heap[x].next /\ heap'[x].prev = heap[x].prev)
  <2>1. CASE p # j + 1
    <3>1. N(p) # N(j + 1)
      <4>1. p \in 0 .. n + 1 /\ j + 1 \in 0 .. n + 1
        BY <1>k
      <4> QED
        BY <4>1, <2>1, <1>0, Zenon
    <3> DEFINE g == SplicedHeap(heap, N(i), N(j), N(p))
    <3>2. /\ g \in [Node -> Cell]
          /\ \A x \in Node : g[x].next = IF x = N(p - 1) THEN N(i) ELSE IF x = N(j) THEN N(p)
                                         ELSE IF x = N(i - 1) THEN N(j + 1) ELSE heap[x].next
          /\ \A x \in Node : g[x].prev = IF x = N(p) THEN N(j) ELSE IF x = N(i) THEN N(p - 1)
                                         ELSE IF x = N(j + 1) THEN N(i - 1) ELSE heap[x].prev
      <4>1. Resets(g, heap, N(i - 1), N(i), N(j), N(j + 1), N(p - 1), N(p))
        BY <3>1, <1>0, <1>3, SplicePointers, Zenon
      <4> QED
        BY <4>1, Zenon DEF Resets
    <3> QED
      BY <3>2, <2>1, <1>2, Zenon
  <2>2. CASE p = j + 1
    <3>1. heap[N(i - 1)].next = N(i) /\ heap[N(p)].prev = N(j)
      <4>1. i - 1 \in 0 .. n /\ (i - 1) + 1 = i
        BY <1>k
      <4> QED
        BY <4>1, <2>2, <1>0, <1>l, Zenon
    <3> DEFINE g == SplicedHeap(heap, N(i), N(j), N(p))
    <3>2. N(p) = N(j + 1)
      BY <2>2, Zenon
    <3>3. g \in [Node -> Cell] /\ \A x \in Node : g[x].next = heap[x].next /\ g[x].prev = heap[x].prev
      <4>1. heap[N(j)].next = N(p)
        BY <3>2, <1>3, Zenon
      <4>2. Same(g, heap)
        BY <3>1, <4>1, <1>0, <1>3, SpliceInPlace, Zenon
      <4> QED
        BY <4>2, Zenon DEF Same
    <3> QED
      BY <3>3, <2>2, <1>2, Zenon
  <2> QED
    BY <2>1, <2>2, Zenon
<1>5. ASSUME NEW a \in 0 .. n  PROVE heap'[N(a)].next = N(Succ(a, i, j, p))
  <2>2. N(a) \in Node /\ heap[N(a)].next = N(a + 1)
    <3>1. a \in 0 .. n + 1
      BY <1>k
    <3> QED
      BY <3>1, <1>0, Zenon
  <2>3. CASE p = j + 1
    BY <2>2, <2>3, <1>4, Zenon DEF Succ
  <2>4. CASE p # j + 1
    <3>1. a \in 0 .. n + 1 /\ p - 1 \in 0 .. n + 1 /\ j \in 0 .. n + 1 /\ i - 1 \in 0 .. n + 1 /\ p - 1 # j
      BY <2>4, <1>k
    <3>2. /\ N(a) = N(p - 1) <=> a = p - 1
          /\ N(a) = N(j) <=> a = j
          /\ N(a) = N(i - 1) <=> a = i - 1
      BY <3>1, <1>0, Zenon
    <3> QED
      BY <3>1, <3>2, <2>2, <2>4, <1>4, Zenon DEF Succ
  <2> QED
    BY <2>3, <2>4, Zenon
<1>6. ASSUME NEW a \in 1 .. n + 1  PROVE heap'[N(a)].prev = N(Pred(a, i, j, p))
  <2>2. N(a) \in Node /\ heap[N(a)].prev = N(a - 1)
    <3>1. a \in 0 .. n + 1
      BY <1>k
    <3> QED
      BY <3>1, <1>0, Zenon
  <2>3. CASE p = j + 1
    BY <2>2, <2>3, <1>4, Zenon DEF Pred
  <2>4. CASE p # j + 1
    <3>1. a \in 0 .. n + 1 /\ p \in 0 .. n + 1 /\ i \in 0 .. n + 1 /\ j + 1 \in 0 .. n + 1
      BY <1>k
    <3>2. /\ N(a) = N(p) <=> a = p
          /\ N(a) = N(i) <=> a = i
          /\ N(a) = N(j + 1) <=> a = j + 1
      BY <3>1, <1>0, Zenon
    <3> QED
      BY <3>2, <2>2, <2>4, <1>4, Zenon DEF Pred
  <2> QED
    BY <2>3, <2>4, Zenon
<1>7. heap'[HEAD].prev = NULL /\ heap'[TAIL].next = NULL
  <2>1. /\ 0 \in 0 .. n + 1 /\ n + 1 \in 0 .. n + 1 /\ p \in 0 .. n + 1 /\ p - 1 \in 0 .. n + 1 /\ i \in 0 .. n + 1
        /\ i - 1 \in 0 .. n + 1 /\ j \in 0 .. n + 1 /\ j + 1 \in 0 .. n + 1
        /\ 0 # p /\ 0 # i /\ 0 # j + 1 /\ n + 1 # p - 1 /\ n + 1 # j /\ n + 1 # i - 1
    BY <1>k
  <2>2. /\ HEAD \in Node /\ TAIL \in Node /\ HEAD # N(p) /\ HEAD # N(i) /\ HEAD # N(j + 1)
        /\ TAIL # N(p - 1) /\ TAIL # N(j) /\ TAIL # N(i - 1)
    BY <2>1, <1>0, Zenon
  <2> QED
    BY <2>2, <1>0, <1>4, Zenon
<1>8. Whole(heap', [m \in 1 .. n |-> shadow[From(m, i, j, p)]])
  BY <1>4, <1>5, <1>6, <1>7, SpliceWhole, Zenon DEF n, N
<1> QED
  BY <1>8, <1>s, Zenon

\* list_reverse: the elements swap their pointers, the head and the tail trade
\* their neighbours, and the new first and last elements are linked to the ends.
LEMMA ReverseKeeps ==
  ASSUME Whole(heap, shadow), list_reverse
  PROVE  Whole(heap', shadow')
PROOF
<1> DEFINE n == Len(shadow)
           N(a) == Nth(shadow, a)
           h1 == [x \in Node |-> IF OnList(x) THEN [prev |-> heap[x].next, next |-> heap[x].prev] ELSE heap[x]]
           h2 == [h1 EXCEPT ![HEAD].next = h1[TAIL].prev, ![TAIL].prev = h1[HEAD].next]
<1>0. /\ heap \in [Node -> Cell] /\ shadow \in Seq(Elem) /\ n \in Nat
      /\ N(0) = HEAD /\ N(n + 1) = TAIL
      /\ \A a \in 1 .. n : N(a) = shadow[a] /\ shadow[a] \in Elem
      /\ \A a \in 0 .. n + 1 : N(a) \in Node
      /\ \A a, b \in 0 .. n + 1 : N(a) = N(b) => a = b
      /\ \A a \in 0 .. n : heap[N(a)].next = N(a + 1)
      /\ \A a \in 1 .. n + 1 : heap[N(a)].prev = N(a - 1)
      /\ heap[HEAD].prev = NULL /\ heap[TAIL].next = NULL
  BY Reading, Zenon DEF Whole
<1>1. n \in Nat \ {0}
  <2>1. shadow # <<>>
    BY Zenon DEF list_reverse
  <2> QED
    BY <2>1, <1>0
<1>k. 0 \in 0 .. n /\ n + 1 \in 1 .. n + 1 /\ 0 + 1 = 1 /\ (n + 1) - 1 = n /\ 1 \in 1 .. n /\ n \in 1 .. n /\ 1 - 1 = 0
      /\ DOMAIN shadow = 1 .. n
      /\ \A a \in 1 .. n : a \in 0 .. n /\ a \in 1 .. n + 1 /\ a \in 0 .. n + 1
  <2>1. shadow \in Seq(Elem) /\ n \in Nat /\ n # 0
    BY <1>0, <1>1, Zenon
  <2>2. DOMAIN shadow = 1 .. n
    BY <2>1
  <2> HIDE DEF n
  <2>3. 0 \in 0 .. n /\ n + 1 \in 1 .. n + 1 /\ 0 + 1 = 1 /\ (n + 1) - 1 = n /\ 1 \in 1 .. n /\ n \in 1 .. n /\ 1 - 1 = 0
    BY <2>1
  <2>4. \A a \in 1 .. n : a \in 0 .. n /\ a \in 1 .. n + 1 /\ a \in 0 .. n + 1
    BY <2>1
  <2> QED
    BY <2>2, <2>3, <2>4, Zenon
<1>2. \A a \in 1 .. n : OnList(N(a)) /\ N(a) \in Node /\ N(a) # HEAD /\ N(a) # TAIL
  <2> TAKE a \in 1 .. n
  <2>1. N(a) = shadow[a] /\ shadow[a] \in Elem /\ a \in DOMAIN shadow
    BY <1>0, <1>k, ZenonT(40)
  <2> QED
    BY <2>1, ListAssumption, Zenon DEF OnList, Node
<1>3. ~OnList(HEAD) /\ ~OnList(TAIL) /\ HEAD \in Node /\ TAIL \in Node /\ HEAD # TAIL
  BY <1>0, <1>k, ListAssumption DEF OnList, Node
<1>4. heap[HEAD].next = N(1) /\ heap[TAIL].prev = N(n)
  <2>1. heap[N(0)].next = N(0 + 1) /\ heap[N(n + 1)].prev = N((n + 1) - 1)
    BY <1>0, <1>k, Zenon
  <2> QED
    BY <2>1, <1>0, <1>k, Zenon
<1>5. /\ heap' = [x \in Node |->
                   [prev |-> IF x = h2[HEAD].next THEN h2[h2[TAIL].prev].next ELSE h2[x].prev,
                    next |-> IF x = h2[TAIL].prev THEN h2[h2[HEAD].next].prev ELSE h2[x].next]]
      /\ shadow' = [m \in 1 .. n |-> shadow[n + 1 - m]]
  BY Zenon DEF list_reverse
<1>6. /\ h1 \in [Node -> Cell] /\ h1[HEAD] = heap[HEAD] /\ h1[TAIL] = heap[TAIL]
      /\ \A x \in Node : OnList(x) => h1[x].next = heap[x].prev /\ h1[x].prev = heap[x].next
  BY <1>0, <1>3, Zenon DEF Cell
<1> HIDE DEF n, N, h1
<1>7. /\ h2 \in [Node -> Cell] /\ h2[HEAD].next = N(n) /\ h2[TAIL].prev = N(1)
      /\ h2[HEAD].prev = NULL /\ h2[TAIL].next = NULL
      /\ \A x \in Node \ {HEAD, TAIL} : h2[x] = h1[x]
  <2>1. h1[TAIL].prev = N(n) /\ h1[HEAD].next = N(1) /\ N(n) \in Node /\ N(1) \in Node
    BY <1>2, <1>4, <1>6, <1>k, Zenon
  <2> QED
    <3>1. h2 \in [Node -> Cell] /\ h2[HEAD].next = N(n) /\ h2[TAIL].prev = N(1)
      BY <2>1, <1>3, <1>6 DEF Cell
    <3>2. h2[HEAD].prev = h1[HEAD].prev /\ h2[TAIL].next = h1[TAIL].next
      BY <1>3, <1>6, Zenon DEF Cell
    <3>3. \A x \in Node \ {HEAD, TAIL} : h2[x] = h1[x]
      BY <1>6, Zenon
    <3> QED
      BY <3>1, <3>2, <3>3, <1>0, <1>6, Zenon
<1> HIDE DEF h2
<1>8. \A a \in 1 .. n : h2[N(a)].next = N(a - 1) /\ h2[N(a)].prev = N(a + 1)
  BY <1>0, <1>2, <1>6, <1>7, <1>k, ZenonT(40)
<1>9. h2[N(1)].next = HEAD /\ h2[N(n)].prev = TAIL
  BY <1>8, <1>0, <1>k, Zenon
<1>10. /\ heap' \in [Node -> Cell]
       /\ \A x \in Node : /\ heap'[x].prev = IF x = N(n) THEN HEAD ELSE h2[x].prev
                          /\ heap'[x].next = IF x = N(1) THEN TAIL ELSE h2[x].next
  <2>1. heap' = [x \in Node |-> [prev |-> IF x = N(n) THEN HEAD ELSE h2[x].prev,
                                 next |-> IF x = N(1) THEN TAIL ELSE h2[x].next]]
    BY <1>5, <1>7, <1>9, Zenon
  <2> QED
    BY <2>1, <1>3, <1>7, Zenon DEF Cell
<1>11. /\ heap'[HEAD].prev = NULL /\ heap'[TAIL].next = NULL
       /\ heap'[HEAD].next = N(n) /\ heap'[TAIL].prev = N(1)
  BY <1>2, <1>3, <1>7, <1>10, <1>k, Zenon
<1>12. ASSUME NEW a \in 1 .. n
       PROVE  /\ heap'[N(a)].next = N(IF a = 1 THEN n + 1 ELSE a - 1)
              /\ heap'[N(a)].prev = N(IF a = n THEN 0 ELSE a + 1)
  <2>1. (N(a) = N(1) <=> a = 1) /\ (N(a) = N(n) <=> a = n)
    BY <1>0, <1>k, Zenon
  <2> QED
    BY <2>1, <1>0, <1>2, <1>8, <1>10, Zenon
<1>13. Whole(heap', [m \in 1 .. n |-> shadow[n + 1 - m]])
  BY <1>1, <1>10, <1>11, <1>12, ReverseWhole, ZenonT(40) DEF n, N
<1> QED
  BY <1>5, <1>13, Zenon

\* Every state of the list has it whole, whatever calls were made.
THEOREM ListCorrect == ListSpec => []ListWhole
PROOF
<1>1. ListInit => Whole(heap, shadow)
  <2> SUFFICES ASSUME ListInit  PROVE Whole(heap, shadow)
    BY Zenon
  <2>1. shadow = <<>> /\ shadow \in Seq(Elem) /\ Len(shadow) = 0
    BY DEF ListInit
  <2>2. /\ HEAD \in Node /\ TAIL \in Node /\ HEAD # TAIL
        /\ Nth(shadow, 0) = HEAD /\ Nth(shadow, 0 + 1) = TAIL
    BY <2>1, ListAssumption DEF Nth, Node
  <2>3. /\ heap \in [Node -> Cell] /\ heap[HEAD].next = TAIL /\ heap[TAIL].prev = HEAD
        /\ heap[HEAD].prev = NULL /\ heap[TAIL].next = NULL
    BY <2>2, Zenon DEF ListInit, Cell
  <2>4. \A i \in 0 .. Len(shadow) : i = 0
    BY <2>1
  <2>5. \A i, j \in 1 .. Len(shadow) : shadow[i] = shadow[j] => i = j
    BY <2>1
  <2> QED
    BY <2>1, <2>2, <2>3, <2>4, <2>5, Zenon DEF Whole
<1>2. Whole(heap, shadow) /\ [ListNext]_listVars => Whole(heap, shadow)'
  <2> SUFFICES ASSUME Whole(heap, shadow), [ListNext]_listVars
               PROVE  Whole(heap', shadow')
    BY Zenon DEF Whole, Nth
  <2>1. CASE \E e \in Elem, i \in 1 .. Len(shadow) + 1 : list_insert(e, i)
    BY <2>1, InsertKeeps, Zenon
  <2>2. CASE \E i \in 1 .. Len(shadow) : list_remove(i)
    BY <2>2, ListRemoveKeeps, Zenon
  <2>3. CASE \E i \in 1 .. Len(shadow) : \E j \in i .. Len(shadow) :
               \E p \in (1 .. i - 1) \cup (j + 1 .. Len(shadow) + 1) : Splice(i, j, p)
    BY <2>3, SpliceKeeps, Zenon
  <2>4. CASE list_reverse
    BY <2>4, ReverseKeeps, Zenon
  <2>5. CASE UNCHANGED listVars
    BY <2>5, Zenon DEF listVars
  <2> QED
    BY <2>1, <2>2, <2>3, <2>4, <2>5, Zenon DEF ListNext
<1> QED
  BY <1>1, <1>2, WholeIs, PTL DEF ListSpec

-----------------------------------------------------------------------------
(***************************************************************************)
(* userprog/process.c: load().                                             *)
(***************************************************************************)

\* What is used of the library's theory of finite sets: the pages of a
\* program are counted one by one.
Counting ==
  /\ IsFiniteSet({}) /\ Cardinality({}) = 0
  /\ \A S : IsFiniteSet(S) => \A R \in SUBSET S : IsFiniteSet(R)
  /\ \A S : IsFiniteSet(S) => (Cardinality(S) = 0 <=> S = {})
  /\ \A S, x : IsFiniteSet(S) /\ x \notin S =>
       IsFiniteSet(S \cup {x}) /\ Cardinality(S \cup {x}) = Cardinality(S) + 1
  /\ \A S, x : IsFiniteSet(S) /\ x \in S => Cardinality(S \ {x}) = Cardinality(S) - 1
  /\ \A x : Cardinality({x}) = 1

\* Sums of addresses wrap at most once.
LEMMA PlusIs ==
  ASSUME NEW x \in Addr, NEW y \in 0 .. AddrCnt
  PROVE  Plus(x, y) \in Addr /\ Plus(x, y) = IF x + y < AddrCnt THEN x + y ELSE x + y - AddrCnt
<1>1. AddrCnt \in Nat \ {0}
  BY VaddrAssumption DEF Addr
<1>2. \A a \in Nat : a < AddrCnt => a % AddrCnt = a
  BY <1>1
<1>3. \A a \in Nat : AddrCnt <= a /\ a < 2 * AddrCnt => a % AddrCnt = a - AddrCnt
  BY <1>1
<1> QED
  BY <1>1, <1>2, <1>3 DEF Plus, Addr

\* The first address of a page, and the page of an address.
Aligned(a) == a % PGSIZE = 0
PageOf(a) == a - (a % PGSIZE)

\* Dividing by the size of a page, as a product.
LEMMA Division ==
  ASSUME NEW S \in Nat \ {0}, NEW a \in Nat
  PROVE  /\ a \div S \in Nat /\ a % S \in 0 .. S - 1
         /\ (a \div S) * S \in Nat /\ a = (a \div S) * S + (a % S)
<1> QED
  BY SMT

\* What is left of a number after a multiple of S.
LEMMA Remainder ==
  ASSUME NEW S \in Nat \ {0}, NEW q \in Nat, NEW r \in 0 .. S - 1
  PROVE  (q * S + r) % S = r
<1> QED
  BY SMT

\* A number that is no multiple reaches past the multiple below it.
LEMMA NoneBetween ==
  ASSUME NEW S \in Nat \ {0}, NEW q \in Nat, NEW r \in Nat, q * S < r * S
  PROVE  q * S + S <= r * S
<1> QED
  BY SMT

\* The page of an address.
LEMMA PageIs ==
  ASSUME NEW a \in Nat
  PROVE  /\ PageOf(a) \in Nat /\ Aligned(PageOf(a))
         /\ a % PGSIZE \in 0 .. PGSIZE - 1 /\ a = PageOf(a) + (a % PGSIZE)
<1> DEFINE q == a \div PGSIZE
           r == a % PGSIZE
<1>1. PGSIZE \in Nat \ {0}
  BY VaddrAssumption, Zenon
<1>2. q \in Nat /\ r \in 0 .. PGSIZE - 1 /\ a = q * PGSIZE + r /\ q * PGSIZE \in Nat
  BY <1>1, Division, Zenon
<1>3. (q * PGSIZE + 0) % PGSIZE = 0
  <2>1. 0 \in 0 .. PGSIZE - 1
    BY <1>1
  <2> QED
    BY <1>1, <1>2, <2>1, Remainder, Zenon
<1>4. PageOf(a) = q * PGSIZE
  BY <1>1, <1>2 DEF PageOf
<1>5. q * PGSIZE + 0 = q * PGSIZE
  BY <1>2
<1> HIDE DEF q
<1>6. Aligned(PageOf(a))
  BY <1>3, <1>4, <1>5, Zenon DEF Aligned
<1> QED
  BY <1>2, <1>4, <1>6, Zenon

\* An aligned address is a multiple of the page size.
LEMMA AlignedIs ==
  ASSUME NEW a \in Nat, Aligned(a)
  PROVE  \E q \in Nat : a = q * PGSIZE
<1>1. PGSIZE \in Nat \ {0}
  BY VaddrAssumption, Zenon
<1>2. a \div PGSIZE \in Nat /\ a = (a \div PGSIZE) * PGSIZE + (a % PGSIZE) /\ (a \div PGSIZE) * PGSIZE \in Nat
  BY <1>1, Division, Zenon
<1> QED
  BY <1>2 DEF Aligned

\* And a multiple is aligned.
LEMMA MultipleAligned ==
  ASSUME NEW q \in Nat
  PROVE  q * PGSIZE \in Nat /\ Aligned(q * PGSIZE)
<1>1. PGSIZE \in Nat \ {0} /\ q * PGSIZE \in Nat
  BY VaddrAssumption
<1>2. (q * PGSIZE + 0) % PGSIZE = 0
  BY <1>1, Remainder
<1> QED
  BY <1>1, <1>2 DEF Aligned

\* Pages that are not the same are a page apart.
LEMMA Apart ==
  ASSUME NEW a \in Nat, NEW b \in Nat, Aligned(a), Aligned(b), a < b
  PROVE  a + PGSIZE <= b
<1>1. PGSIZE \in Nat \ {0}
  BY VaddrAssumption, Zenon
<1>2. PICK q \in Nat : a = q * PGSIZE
  BY AlignedIs, Zenon
<1>3. PICK r \in Nat : b = r * PGSIZE
  BY AlignedIs, Zenon
<1> QED
  BY <1>1, <1>2, <1>3, NoneBetween, Zenon

\* Sums of aligned numbers, and the page before one.
LEMMA AlignedSums ==
  ASSUME NEW a \in Nat, NEW b \in Nat, Aligned(a), Aligned(b)
  PROVE  Aligned(a + b) /\ (b <= a => Aligned(a - b)) /\ Aligned(PGSIZE)
<1>1. PGSIZE \in Nat \ {0}
  BY VaddrAssumption, Zenon
<1>2. PICK q \in Nat : a = q * PGSIZE
  BY AlignedIs, Zenon
<1>3. PICK r \in Nat : b = r * PGSIZE
  BY AlignedIs, Zenon
<1>4. Aligned(a + b)
  <2>1. q + r \in Nat /\ a + b = (q + r) * PGSIZE
    BY <1>1, <1>2, <1>3
  <2> QED
    BY <2>1, MultipleAligned, Zenon
<1>5. ASSUME b <= a PROVE Aligned(a - b)
  <2>1. r <= q
    BY <1>1, <1>2, <1>3, <1>5, NoneBetween
  <2>2. q - r \in Nat /\ a - b = (q - r) * PGSIZE
    BY <1>1, <1>2, <1>3, <2>1
  <2> QED
    BY <2>2, MultipleAligned, Zenon
<1>6. Aligned(PGSIZE)
  <2>1. 1 \in Nat /\ 1 * PGSIZE = PGSIZE
    BY <1>1
  <2> QED
    BY <2>1, MultipleAligned, Zenon
<1> QED
  BY <1>4, <1>5, <1>6, Zenon

\* ROUND_UP of round.h.
LEMMA RoundUpIs ==
  ASSUME NEW n \in Nat
  PROVE  ROUND_UP(n) \in Nat /\ Aligned(ROUND_UP(n)) /\ n <= ROUND_UP(n) /\ ROUND_UP(n) < n + PGSIZE
<1> DEFINE m == n + PGSIZE - 1
           q == m \div PGSIZE
<1>1. PGSIZE \in Nat \ {0} /\ m \in Nat
  BY VaddrAssumption
<1>2. q \in Nat /\ m % PGSIZE \in 0 .. PGSIZE - 1 /\ m = q * PGSIZE + (m % PGSIZE)
  BY <1>1, Division, Zenon
<1>3. q * PGSIZE \in Nat /\ Aligned(q * PGSIZE)
  BY <1>2, MultipleAligned, Zenon
<1>4. ROUND_UP(n) = q * PGSIZE
  BY Zenon DEF ROUND_UP
<1> HIDE DEF q
<1> DEFINE t == q * PGSIZE
           w == m % PGSIZE
<1>5. t \in Nat /\ w \in 0 .. PGSIZE - 1 /\ m = t + w
  BY <1>2, <1>3, Zenon
<1> HIDE DEF t, w
<1>6. n <= t /\ t < n + PGSIZE
  BY <1>1, <1>5
<1> QED
  BY <1>3, <1>4, <1>6, Zenon DEF t

\* Where the pages of a segment end, and its bytes from the file.
Top(p) == PageOf(p.vaddr) + ROUND_UP((p.vaddr % PGSIZE) + p.memsz)
FileEnd(p) == IF p.filesz > 0 THEN p.vaddr + p.filesz ELSE 0

\* The fields of a header are natural numbers.
LEMMA Fields ==
  ASSUME NEW p \in Header
  PROVE  p.offset \in Nat /\ p.vaddr \in Nat /\ p.filesz \in Nat /\ p.memsz \in Nat
<1> QED
  BY VaddrAssumption DEF Header, Addr

\* The pages of a segment cover it.
LEMMA Covered ==
  ASSUME NEW p \in Header
  PROVE  /\ Top(p) \in Nat /\ Aligned(Top(p)) /\ PageOf(p.vaddr) <= Top(p)
         /\ p.vaddr + p.memsz <= Top(p) /\ Top(p) < p.vaddr + p.memsz + PGSIZE
<1>1. p.vaddr \in Nat /\ p.memsz \in Nat
  BY Fields, Zenon
<1> DEFINE r == p.vaddr % PGSIZE
           n == r + p.memsz
<1>2. /\ PageOf(p.vaddr) \in Nat /\ Aligned(PageOf(p.vaddr))
      /\ r \in 0 .. PGSIZE - 1 /\ p.vaddr = PageOf(p.vaddr) + r
  BY <1>1, PageIs, Zenon
<1>3. PGSIZE \in Nat \ {0} /\ n \in Nat
  BY <1>1, <1>2, VaddrAssumption
<1>4. ROUND_UP(n) \in Nat /\ Aligned(ROUND_UP(n)) /\ n <= ROUND_UP(n) /\ ROUND_UP(n) < n + PGSIZE
  BY <1>3, RoundUpIs, Zenon
<1>5. Aligned(PageOf(p.vaddr) + ROUND_UP(n))
  BY <1>2, <1>4, AlignedSums, Zenon
<1>6. Top(p) = PageOf(p.vaddr) + ROUND_UP(n)
  BY Zenon DEF Top
<1> HIDE DEF r
<1> QED
  BY <1>1, <1>2, <1>3, <1>4, <1>5, <1>6

\* validate_segment: no page of an accepted segment is the first page, or one of
\* the kernel's.
LEMMA InUserSpace ==
  ASSUME NEW p \in Header, validate_segment(p)
  PROVE  PGSIZE <= PageOf(p.vaddr) /\ Top(p) <= PHYS_BASE
<1>1. /\ p.vaddr \in Nat /\ p.memsz \in Nat /\ p.vaddr \in Addr /\ p.memsz \in 0 .. AddrCnt /\ p.memsz < AddrCnt
      /\ PGSIZE \in Nat \ {0} /\ PHYS_BASE \in Nat /\ Aligned(PHYS_BASE) /\ AddrCnt \in Nat
  BY Fields, VaddrAssumption DEF Header, Addr, Aligned
<1>2. p.vaddr + p.memsz < PHYS_BASE
  <2>1. Plus(p.vaddr, p.memsz) = IF p.vaddr + p.memsz < AddrCnt THEN p.vaddr + p.memsz
                                 ELSE (p.vaddr + p.memsz) - AddrCnt
    BY <1>1, PlusIs
  <2>2. Plus(p.vaddr, p.memsz) < PHYS_BASE /\ Plus(p.vaddr, p.memsz) >= p.vaddr
    BY Zenon DEF validate_segment, is_user_vaddr
  <2> QED
    BY <1>1, <2>1, <2>2
<1>3. Top(p) <= PHYS_BASE
  <2>1. Top(p) \in Nat /\ Aligned(Top(p)) /\ Top(p) < p.vaddr + p.memsz + PGSIZE
    BY Covered, Zenon
  <2>2. PHYS_BASE < Top(p) => PHYS_BASE + PGSIZE <= Top(p)
    BY <1>1, <2>1, Apart, Zenon
  <2> QED
    BY <1>1, <1>2, <2>1, <2>2
<1>4. PGSIZE <= PageOf(p.vaddr)
  <2>1. /\ PageOf(p.vaddr) \in Nat /\ Aligned(PageOf(p.vaddr)) /\ PGSIZE <= p.vaddr
        /\ p.vaddr < PageOf(p.vaddr) + PGSIZE
    <3>1. p.vaddr >= PGSIZE
      BY Zenon DEF validate_segment
    <3>2. /\ PageOf(p.vaddr) \in Nat /\ Aligned(PageOf(p.vaddr))
          /\ p.vaddr % PGSIZE \in 0 .. PGSIZE - 1 /\ p.vaddr = PageOf(p.vaddr) + (p.vaddr % PGSIZE)
      BY <1>1, PageIs, Zenon
    <3> DEFINE r == p.vaddr % PGSIZE
    <3> HIDE DEF r
    <3>3. r \in 0 .. PGSIZE - 1 /\ p.vaddr = PageOf(p.vaddr) + r
      BY <3>2, Zenon DEF r
    <3> QED
      BY <1>1, <3>1, <3>2, <3>3
  <2>2. Aligned(PGSIZE)
    BY <1>1, AlignedSums, Zenon
  <2>3. PageOf(p.vaddr) < PGSIZE => PageOf(p.vaddr) + PGSIZE <= PGSIZE
    BY <1>1, <2>1, <2>2, Apart, Zenon
  <2> QED
    BY <1>1, <2>1, <2>3
<1> QED
  BY <1>3, <1>4, Zenon

\* A page at u has what the segment has there; it is mapped.
Has(page, p, u) ==
  /\ page.writable = p.writable
  /\ \A j \in 0 .. PGSIZE - 1 :
       p.vaddr <= u + j /\ u + j < p.vaddr + p.memsz =>
         page.data[j] = IF u + j < p.vaddr + p.filesz THEN p.offset + ((u + j) - p.vaddr) + 1 ELSE 0
Holds(p, u) == u \in DOMAIN pages /\ Has(pages[u], p, u)

\* The segment is in memory up to an address; so are the first n segments.
HoldsTo(p, top) == \A u \in PageOf(p.vaddr) .. top - 1 : Aligned(u) => Holds(p, u)
HoldsNth(m) == m \in DOMAIN phdrs /\ (phdrs[m].type = "LOAD" => HoldsTo(phdrs[m], Top(phdrs[m])))
HoldsAll(n) == \A m \in 1 .. n : HoldsNth(m)

\* load_segment between two pages of a segment.
Midway(p) ==
  /\ p.type = "LOAD" /\ validate_segment(p)
  /\ seg.upage \in Nat /\ Aligned(seg.upage) /\ PageOf(p.vaddr) <= seg.upage /\ seg.upage <= Top(p)
  /\ seg.read_bytes = IF seg.upage < FileEnd(p) THEN FileEnd(p) - seg.upage ELSE 0
  /\ seg.zero_bytes = (Top(p) - seg.upage) - seg.read_bytes
  /\ seg.read_bytes > 0 => seg.pos = PageOf(p.offset) + (seg.upage - PageOf(p.vaddr))
  /\ seg.writable = p.writable
  /\ HoldsTo(p, seg.upage)

\* The mapped pages are user pages but the first, each with a frame.
UserPages ==
  /\ IsFiniteSet(DOMAIN pages) /\ frames = Cardinality(DOMAIN pages)
  /\ \A a \in DOMAIN pages : a \in Nat /\ PGSIZE <= a /\ a + PGSIZE <= PHYS_BASE

\* How far load() has come.
LoadedSoFar ==
  /\ step \in {"start", "open", "phdr"} => HoldsAll(ph - 1)
  /\ step = "segment" => /\ ph - 1 \in DOMAIN phdrs /\ HoldsAll(ph - 2)
                        /\ \E p \in Header : p = phdrs[ph - 1] /\ Midway(p)
  /\ step = "stack" => HoldsAll(Len(phdrs))
  /\ success => /\ step \in {"done", "returned"} /\ HoldsAll(Len(phdrs))
                /\ PHYS_BASE - PGSIZE \in DOMAIN pages

LoadInv ==
  /\ phdrs \in Seq(Header) /\ ph \in Nat \ {0} /\ success \in BOOLEAN
  /\ UserPages
  /\ LoadedSoFar

\* What load() has freed, and lost, where it is.
FreedSoFar ==
  /\ frees \in [Copy -> Nat] /\ success \in BOOLEAN
  /\ success => step \in {"done", "returned"}
  /\ step \in {"start", "open", "phdr", "segment", "stack"} =>
       leaked = 0 /\ frees["cmdline_cp"] = 0 /\ frees["cmdline_cp_2"] = 0
  /\ step \in {"start", "open"} => ph = 1 /\ DOMAIN pages = {}
  /\ step = "done" =>
       /\ leaked \in {0, 1} /\ (success => leaked = 1)
       /\ frees["cmdline_cp_2"] = 0 /\ frees["cmdline_cp"] \in {0, 1}
       /\ frees["cmdline_cp"] = 1 => ph = 1 /\ DOMAIN pages = {} /\ ~success
  /\ step = "returned" =>
       /\ leaked \in {0, 1} /\ (success => leaked = 1)
       /\ frees["cmdline_cp_2"] = 1 /\ frees["cmdline_cp"] \in {1, 2}
       /\ frees["cmdline_cp"] = 2 => ph = 1 /\ DOMAIN pages = {} /\ ~success
       /\ (file = "exec" <=> success) /\ file # "open"

-----------------------------------------------------------------------------
\* A mapped page stays as it is.
Kept == \A u \in DOMAIN pages : u \in DOMAIN pages' /\ pages'[u] = pages[u]

\* What a page holds it keeps.
LEMMA HoldsKept ==
  ASSUME Kept, NEW p, NEW u, Holds(p, u)
  PROVE  Holds(p, u)'
<1>1. u \in DOMAIN pages' /\ pages'[u] = pages[u]
  BY Zenon DEF Kept, Holds
<1> QED
  BY <1>1, Zenon DEF Holds

\* So does a part of a segment.
LEMMA HoldsToKept ==
  ASSUME Kept, NEW p, NEW top, HoldsTo(p, top)
  PROVE  HoldsTo(p, top)'
<1> QED
  BY HoldsKept, Zenon DEF HoldsTo

\* So does the m-th segment.
LEMMA HoldsNthKept ==
  ASSUME Kept, phdrs' = phdrs, NEW m, HoldsNth(m)
  PROVE  HoldsNth(m)'
<1> QED
  BY HoldsToKept, Zenon DEF HoldsNth

\* install_page on a page of the user's that is not the first.
LEMMA PageInstallKeeps ==
  ASSUME Counting, UserPages, NEW u \in Nat, PGSIZE <= u, u + PGSIZE <= PHYS_BASE, NEW page,
         install(u, page), frames' = frames + 1
  PROVE  UserPages' /\ Kept /\ u \in DOMAIN pages' /\ pages'[u] = page
<1>1. u \notin DOMAIN pages /\ pages' = [p \in DOMAIN pages \cup {u} |-> IF p = u THEN page ELSE pages[p]]
  BY Zenon DEF install
<1>2. DOMAIN pages' = DOMAIN pages \cup {u}
  BY <1>1, Zenon
<1>3. Kept /\ u \in DOMAIN pages' /\ pages'[u] = page
  BY <1>1, Zenon DEF Kept
<1>4. IsFiniteSet(DOMAIN pages \cup {u}) /\ Cardinality(DOMAIN pages \cup {u}) = Cardinality(DOMAIN pages) + 1
  BY <1>1, Zenon DEF UserPages, Counting
<1>5. UserPages'
  BY <1>2, <1>4, Zenon DEF UserPages
<1> QED
  BY <1>3, <1>5, Zenon

\* The bytes of a page at u that come from the file.
LEMMA FromFile ==
  ASSUME NEW p \in Header, NEW u \in Nat, NEW j \in 0 .. PGSIZE - 1, p.vaddr <= u + j,
         NEW n, n = Min2(IF u < FileEnd(p) THEN FileEnd(p) - u ELSE 0, PGSIZE)
  PROVE  j < n <=> u + j < p.vaddr + p.filesz
<1>1. p.vaddr \in Nat /\ p.filesz \in Nat /\ PGSIZE \in Nat /\ j \in Nat /\ j < PGSIZE
  BY Fields, VaddrAssumption
<1> DEFINE v == p.vaddr
           z == p.filesz
<1>2. /\ v \in Nat /\ z \in Nat /\ v <= u + j
      /\ n = Min2(IF u < (IF z > 0 THEN v + z ELSE 0) THEN (IF z > 0 THEN v + z ELSE 0) - u ELSE 0, PGSIZE)
  BY <1>1, Zenon DEF FileEnd
<1> HIDE DEF v, z
<1>3. j < n <=> u + j < v + z
  BY <1>1, <1>2 DEF Min2
<1> QED
  BY <1>3, Zenon DEF v, z

\* The page that load_segment has just filled holds what the segment has there.
LEMMA PageFilled ==
  ASSUME NEW p \in Header, validate_segment(p), NEW u \in Nat, PageOf(p.vaddr) <= u,
         NEW n \in Nat, NEW from, NEW page,
         n = Min2(IF u < FileEnd(p) THEN FileEnd(p) - u ELSE 0, PGSIZE),
         n > 0 => from = PageOf(p.offset) + (u - PageOf(p.vaddr)),
         page = [data |-> [j \in 0 .. PGSIZE - 1 |-> IF j < n THEN from + j + 1 ELSE 0],
                 writable |-> p.writable]
  PROVE  Has(page, p, u)
<1>1. /\ p.offset \in Nat /\ p.vaddr \in Nat /\ p.filesz \in Nat /\ p.memsz \in Nat
      /\ PGSIZE \in Nat \ {0}
  BY Fields, VaddrAssumption, Zenon
<1> DEFINE r == p.vaddr % PGSIZE
           b == PageOf(p.vaddr)
           o == PageOf(p.offset)
<1>2. r \in 0 .. PGSIZE - 1 /\ b \in Nat /\ p.vaddr = b + r /\ o \in Nat /\ p.offset = o + r
  <2>1. p.offset % PGSIZE = r
    BY Zenon DEF validate_segment
  <2> QED
    BY <1>1, <2>1, PageIs, Zenon
<1>3. b <= u /\ (n > 0 => from = o + (u - b))
  BY Zenon
<1> HIDE DEF r, b, o
<1>4. ASSUME NEW j \in 0 .. PGSIZE - 1, p.vaddr <= u + j, u + j < p.vaddr + p.memsz
      PROVE  page.data[j] = IF u + j < p.vaddr + p.filesz THEN p.offset + ((u + j) - p.vaddr) + 1 ELSE 0
  <2>1. page.data[j] = IF j < n THEN from + j + 1 ELSE 0
    BY Zenon
  <2>2. j < n <=> u + j < p.vaddr + p.filesz
    BY <1>4, FromFile
  <2>3. j < n => from + j + 1 = p.offset + ((u + j) - p.vaddr) + 1
    BY <1>1, <1>2, <1>3
  <2> QED
    BY <2>1, <2>2, <2>3, Zenon
<1>5. page.writable = p.writable
  BY Zenon
<1> QED
  BY <1>4, <1>5, Zenon DEF Has

\* A step that maps no page.
LEMMA PagesSame ==
  ASSUME UserPages, pages' = pages, frames' = frames
  PROVE  UserPages' /\ Kept
<1> QED
  BY Zenon DEF UserPages, Kept

\* load_segment begins.
LEMMA SegmentStarts ==
  ASSUME NEW p \in Header, p.type = "LOAD", validate_segment(p), seg' = Segment(p)
  PROVE  Midway(p)'
<1>1. /\ p.offset \in Nat /\ p.vaddr \in Nat /\ p.filesz \in Nat /\ p.memsz \in Nat
      /\ PGSIZE \in Nat \ {0} /\ p.memsz >= p.filesz
  BY Fields, VaddrAssumption, Zenon DEF validate_segment
<1> DEFINE r == p.vaddr % PGSIZE
           b == PageOf(p.vaddr)
           e == ROUND_UP(r + p.memsz)
<1>2. r \in 0 .. PGSIZE - 1 /\ b \in Nat /\ Aligned(b) /\ p.vaddr = b + r
  BY <1>1, PageIs, Zenon
<1>3. Top(p) = b + e /\ Top(p) \in Nat /\ b <= Top(p) /\ e \in Nat
  <2>1. r + p.memsz \in Nat
    BY <1>1, <1>2
  <2>2. e \in Nat
    BY <2>1, RoundUpIs, Zenon
  <2> QED
    BY <2>2, Covered, Zenon DEF Top
<1>4. seg' = [upage |-> b, pos |-> PageOf(p.offset), read_bytes |-> IF p.filesz > 0 THEN r + p.filesz ELSE 0,
              zero_bytes |-> e - (IF p.filesz > 0 THEN r + p.filesz ELSE 0), writable |-> p.writable]
  BY Zenon DEF Segment, PageOf
<1>5. PageOf(p.offset) \in Nat
  BY <1>1, PageIs, Zenon
<1> HIDE DEF r, b, e
<1>6. /\ seg'.upage \in Nat /\ Aligned(seg'.upage) /\ b <= seg'.upage /\ seg'.upage <= Top(p)
      /\ seg'.read_bytes = IF seg'.upage < FileEnd(p) THEN FileEnd(p) - seg'.upage ELSE 0
      /\ seg'.zero_bytes = (Top(p) - seg'.upage) - seg'.read_bytes
      /\ seg'.pos = PageOf(p.offset) + (seg'.upage - b)
      /\ seg'.writable = p.writable
  <2> DEFINE rb == IF p.filesz > 0 THEN r + p.filesz ELSE 0
  <2>1. seg'.upage = b /\ seg'.pos = PageOf(p.offset) /\ seg'.read_bytes = rb /\ seg'.zero_bytes = e - rb /\ seg'.writable = p.writable
    <3>1. seg' = [upage |-> b, pos |-> PageOf(p.offset), read_bytes |-> rb, zero_bytes |-> e - rb, writable |-> p.writable]
      BY <1>4, Zenon
    <3> HIDE DEF rb
    <3> QED
      BY <3>1
  <2>2. rb = IF b < FileEnd(p) THEN FileEnd(p) - b ELSE 0
    BY <1>1, <1>2 DEF FileEnd
  <2>3. rb \in Nat
    BY <1>1, <1>2
  <2> HIDE DEF rb
  <2>4. e - rb = (Top(p) - b) - rb /\ PageOf(p.offset) = PageOf(p.offset) + (b - b) /\ b <= b
    BY <1>2, <1>3, <1>5, <2>3
  <2> QED
    BY <1>2, <1>3, <2>1, <2>2, <2>4, Zenon
<1>7. HoldsTo(p, seg.upage)'
  <2>1. seg'.upage = b /\ b .. b - 1 = {}
    BY <1>2, <1>4
  <2> QED
    BY <2>1, Zenon DEF HoldsTo, b
<1> QED
  BY <1>6, <1>7, Zenon DEF Midway, b

\* The next program header.
LEMMA PhdrKeeps ==
  ASSUME LoadInv, Phdr
  PROVE  LoadInv'
<1>1. /\ step = "phdr" /\ phdrs' = phdrs /\ pages' = pages /\ frames' = frames
      /\ file' = file /\ success' = success
  BY Zenon DEF Phdr
<1>2. UserPages' /\ Kept
  BY <1>1, PagesSame, Zenon DEF LoadInv
<1>3. phdrs \in Seq(Header) /\ ph \in Nat \ {0} /\ HoldsAll(ph - 1) /\ success = FALSE
  BY <1>1, Zenon DEF LoadInv, LoadedSoFar
<1>4. \A m \in 1 .. ph - 1 : HoldsNth(m)'
  BY <1>1, <1>2, <1>3, HoldsNthKept, Zenon DEF HoldsAll
<1>5. CASE ph > Len(phdrs) /\ step' = "stack" /\ ph' = ph /\ seg' = seg
  <2>1. ph - 1 \in DOMAIN phdrs \/ ph = 1
    BY <1>3 DEF HoldsAll, HoldsNth
  <2>2. ph - 1 = Len(phdrs)
    BY <1>3, <1>5, <2>1
  <2>3. HoldsAll(Len(phdrs))'
    BY <1>1, <1>4, <2>2, Zenon DEF HoldsAll
  <2>4. LoadedSoFar'
    BY <1>1, <1>3, <1>5, <2>3, Zenon DEF LoadedSoFar
  <2> QED
    BY <1>1, <1>2, <1>3, <1>5, <2>4, Zenon DEF LoadInv
<1>6. CASE step' = "done" /\ ph' = ph /\ seg' = seg
  <2>1. LoadedSoFar'
    BY <1>1, <1>3, <1>6, Zenon DEF LoadedSoFar
  <2> QED
    BY <1>1, <1>2, <1>3, <1>6, <2>1, Zenon DEF LoadInv
<1>7. CASE ph <= Len(phdrs) /\ phdrs[ph].type = "IGNORED" /\ ph' = ph + 1 /\ step' = step /\ seg' = seg
  <2>1. ph \in DOMAIN phdrs /\ (ph + 1) - 1 = ph
    BY <1>3, <1>7
  <2>2. \A m \in 1 .. ph : m = ph \/ m \in 1 .. ph - 1
    BY <1>3
  <2>3. \A m : m = ph => HoldsNth(m)'
    BY <1>1, <1>7, <2>1, Zenon DEF HoldsNth
  <2>4. HoldsAll(ph - 1)'
    <3>1. ph' - 1 = ph
      BY <1>7, <2>1, Zenon
    <3> QED
      BY <1>4, <2>2, <2>3, <3>1, Zenon DEF HoldsAll
  <2>5. LoadedSoFar'
    BY <1>1, <1>3, <1>7, <2>4, Zenon DEF LoadedSoFar
  <2> QED
    BY <1>1, <1>2, <1>3, <1>7, <2>5 DEF LoadInv
<1>8. CASE ph <= Len(phdrs) /\ phdrs[ph].type = "LOAD" /\ validate_segment(phdrs[ph])
           /\ ph' = ph + 1 /\ seg' = Segment(phdrs[ph]) /\ step' = "segment"
  <2>1. ph \in DOMAIN phdrs /\ ph' - 1 = ph /\ ph' - 2 = ph - 1 /\ phdrs[ph] \in Header
    BY <1>3, <1>8
  <2>2. HoldsAll(ph - 2)'
    BY <1>4, <2>1, Zenon DEF HoldsAll
  <2>3. PICK p \in Header : p = phdrs[ph]
    BY <2>1, Zenon
  <2>4. Midway(p)'
    BY <1>8, <2>3, SegmentStarts, Zenon
  <2>5. LoadedSoFar'
    BY <1>1, <1>3, <1>8, <2>1, <2>2, <2>3, <2>4, Zenon DEF LoadedSoFar
  <2> QED
    BY <1>1, <1>2, <1>3, <1>8, <2>5 DEF LoadInv
<1> QED
  BY <1>5, <1>6, <1>7, <1>8, Zenon DEF Phdr

\* What is left to read and to zero after a page of S bytes at u.
LeftAfter(S, u, e, f, b, o, R, n, from) ==
  /\ R - n = IF u + S < f THEN f - (u + S) ELSE 0
  /\ ((e - u) - R) - (S - n) = (e - (u + S)) - (R - n)
  /\ R - n > 0 => from + n = o + ((u + S) - b)

\* After a page, what is left is what the next page needs.
LEMMA NextPage ==
  ASSUME NEW S \in Nat, NEW u \in Nat, NEW e \in Nat, NEW f \in Nat, NEW b \in Nat, NEW o \in Nat,
         NEW R, R = IF u < f THEN f - u ELSE 0, NEW n, n = IF R < S THEN R ELSE S,
         b <= u, NEW from, R > 0 => from = o + (u - b)
  PROVE  LeftAfter(S, u, e, f, b, o, R, n, from)
<1>1. CASE u < f
  BY <1>1 DEF LeftAfter
<1>2. CASE ~(u < f)
  BY <1>2 DEF LeftAfter
<1> QED
  BY <1>1, <1>2, Zenon

\* While there is something to read or to zero, the segment has not ended.
LEMMA RoomLeft ==
  ASSUME NEW u \in Nat, NEW e \in Nat, NEW f \in Nat, f <= e, u <= e,
         NEW R, R = IF u < f THEN f - u ELSE 0, NEW Z, Z = (e - u) - R, R > 0 \/ Z > 0
  PROVE  u < e
  OBVIOUS

\* A turn of load_segment that fills one more page, with n bytes of the file.
PageTurn(n) ==
  /\ install(seg.upage, [data |-> [j \in 0 .. PGSIZE - 1 |-> IF j < n THEN seg.pos + j + 1 ELSE 0],
                         writable |-> seg.writable])
  /\ frames' = frames + 1
  /\ seg' = [upage |-> seg.upage + PGSIZE, pos |-> seg.pos + n, read_bytes |-> seg.read_bytes - n,
             zero_bytes |-> seg.zero_bytes - (PGSIZE - n), writable |-> seg.writable]

\* load_segment fills one more page.
LEMMA PageKeeps ==
  ASSUME Counting, NEW p \in Header, Midway(p), UserPages, seg.read_bytes > 0 \/ seg.zero_bytes > 0,
         NEW n, n = Min2(seg.read_bytes, PGSIZE), PageTurn(n)
  PROVE  Midway(p)' /\ UserPages' /\ Kept
<1>0. PICK u \in Nat : u = seg.upage
  BY Zenon DEF Midway
<1> DEFINE b == PageOf(p.vaddr)
           e == Top(p)
           f == FileEnd(p)
           page == [data |-> [j \in 0 .. PGSIZE - 1 |-> IF j < n THEN seg.pos + j + 1 ELSE 0],
                    writable |-> seg.writable]
<1>1. /\ p.type = "LOAD" /\ validate_segment(p)
      /\ Aligned(u) /\ b <= u /\ u <= e
      /\ seg.read_bytes = IF u < f THEN f - u ELSE 0
      /\ seg.zero_bytes = (e - u) - seg.read_bytes
      /\ (seg.read_bytes > 0 => seg.pos = PageOf(p.offset) + (u - b))
      /\ seg.writable = p.writable
      /\ HoldsTo(p, u)
  BY <1>0, Zenon DEF Midway
<1>2. e \in Nat /\ Aligned(e) /\ PGSIZE \in Nat \ {0} /\ f \in Nat /\ f <= e /\ b \in Nat /\ PageOf(p.offset) \in Nat
  <2>1. p.offset \in Nat /\ p.vaddr \in Nat /\ p.filesz \in Nat /\ p.memsz \in Nat /\ p.filesz <= p.memsz
    BY <1>1, Fields, Zenon DEF validate_segment
  <2>2. e \in Nat /\ Aligned(e) /\ p.vaddr + p.memsz <= e /\ PGSIZE \in Nat \ {0}
    BY Covered, VaddrAssumption, Zenon
  <2>3. b \in Nat /\ PageOf(p.offset) \in Nat
    BY <2>1, PageIs, Zenon
  <2>4. f \in Nat /\ f <= e
    BY <2>1, <2>2 DEF FileEnd
  <2> QED
    BY <2>2, <2>3, <2>4, Zenon
<1>3. PGSIZE <= b /\ e <= PHYS_BASE /\ PHYS_BASE \in Nat
  BY <1>1, InUserSpace, VaddrAssumption, Zenon
<1> HIDE DEF b, e, f
<1> HIDE DEF page
<1>4. u < e
  BY <1>1, <1>2, RoomLeft, Zenon
<1>5. u + PGSIZE <= e
  BY <1>1, <1>2, <1>4, Apart, Zenon
<1>6. PGSIZE <= u /\ u + PGSIZE <= PHYS_BASE
  BY <1>1, <1>2, <1>3, <1>5
<1>7. UserPages' /\ Kept /\ u \in DOMAIN pages' /\ pages'[u] = page
  <2>1. install(u, page) /\ frames' = frames + 1
    BY <1>0, Zenon DEF PageTurn, page
  <2> QED
    BY <1>6, <2>1, PageInstallKeeps, Zenon
<1>8. seg.read_bytes \in Nat /\ n \in Nat /\ n = IF seg.read_bytes < PGSIZE THEN seg.read_bytes ELSE PGSIZE
  BY <1>1, <1>2 DEF Min2
<1>9. Holds(p, u)'
  <2>1. n = Min2(IF u < f THEN f - u ELSE 0, PGSIZE)
    BY <1>1, Zenon
  <2>2. n > 0 => seg.pos = PageOf(p.offset) + (u - b)
    BY <1>1, <1>2, <1>8
  <2>3. pages'[u] = [data |-> [j \in 0 .. PGSIZE - 1 |-> IF j < n THEN seg.pos + j + 1 ELSE 0],
                     writable |-> p.writable]
    BY <1>1, <1>7, Zenon DEF page
  <2> QED
    <3>1. Has(pages'[u], p, u)
      BY <1>1, <1>8, <2>1, <2>2, <2>3, PageFilled, Zenon DEF b, f
    <3> QED
      BY <1>7, <3>1, Zenon DEF Holds
<1>10. HoldsTo(p, u + PGSIZE)'
  <2> SUFFICES ASSUME NEW v \in b .. (u + PGSIZE) - 1, Aligned(v) PROVE Holds(p, v)'
    BY Zenon DEF HoldsTo, b
  <2>1. CASE v < u
    <3>1. v \in b .. u - 1
      BY <1>2, <2>1
    <3> QED
      BY <1>1, <1>7, <3>1, HoldsKept, Zenon DEF HoldsTo, b
  <2>2. CASE u <= v
    <3>1. v = u
      BY <1>1, <1>2, <2>2, Apart
    <3> QED
      BY <1>9, <3>1, Zenon
  <2> QED
    BY <1>2, <2>1, <2>2
<1>11. Aligned(u + PGSIZE)
  BY <1>1, <1>2, AlignedSums, Zenon
<1>12. /\ seg'.upage = u + PGSIZE /\ seg'.pos = seg.pos + n /\ seg'.read_bytes = seg.read_bytes - n
       /\ seg'.zero_bytes = seg.zero_bytes - (PGSIZE - n) /\ seg'.writable = p.writable
  BY <1>0, <1>1, Zenon DEF PageTurn
<1>13. /\ seg'.read_bytes = IF seg'.upage < f THEN f - seg'.upage ELSE 0
       /\ seg'.zero_bytes = (e - seg'.upage) - seg'.read_bytes
       /\ seg'.read_bytes > 0 => seg'.pos = PageOf(p.offset) + (seg'.upage - b)
       /\ seg'.upage \in Nat /\ b <= seg'.upage /\ seg'.upage <= e
  <2>1. /\ seg.read_bytes - n = IF u + PGSIZE < f THEN f - (u + PGSIZE) ELSE 0
        /\ ((e - u) - seg.read_bytes) - (PGSIZE - n) = (e - (u + PGSIZE)) - (seg.read_bytes - n)
        /\ seg.read_bytes - n > 0 => seg.pos + n = PageOf(p.offset) + ((u + PGSIZE) - b)
    <3>1. LeftAfter(PGSIZE, u, e, f, b, PageOf(p.offset), seg.read_bytes, n, seg.pos)
      BY <1>1, <1>2, <1>8, NextPage, Zenon
    <3> QED
      BY <3>1, Zenon DEF LeftAfter
  <2>2. u + PGSIZE \in Nat /\ b <= u + PGSIZE
    <3>1. b \in Nat /\ b <= u /\ PGSIZE \in Nat
      BY <1>1, <1>2, Zenon
    <3> QED
      BY <3>1, SMTT(30)
  <2>3. seg'.read_bytes = IF seg'.upage < f THEN f - seg'.upage ELSE 0
    BY <1>12, <2>1, Zenon
  <2>4. seg'.zero_bytes = (e - seg'.upage) - seg'.read_bytes
    <3>1. seg'.zero_bytes = ((e - u) - seg.read_bytes) - (PGSIZE - n)
      BY <1>1, <1>12, Zenon
    <3> QED
      BY <1>12, <2>1, <3>1, Zenon
  <2>5. seg'.read_bytes > 0 => seg'.pos = PageOf(p.offset) + (seg'.upage - b)
    BY <1>12, <2>1, Zenon
  <2>6. seg'.upage \in Nat /\ b <= seg'.upage /\ seg'.upage <= e
    BY <1>5, <1>12, <2>2, Zenon
  <2> QED
    BY <2>3, <2>4, <2>5, <2>6, Zenon
<1>14. Midway(p)'
  BY <1>1, <1>10, <1>11, <1>12, <1>13, Zenon DEF Midway, b, e, f
<1> QED
  BY <1>7, <1>14, Zenon

\* A turn of load_segment's loop, or its end.
LEMMA SegmentKeeps ==
  ASSUME Counting, LoadInv, load_segment
  PROVE  LoadInv'
<1>1. /\ step = "segment" /\ phdrs' = phdrs /\ ph' = ph /\ file' = file /\ success' = success
  BY Zenon DEF load_segment
<1>2. phdrs \in Seq(Header) /\ ph \in Nat \ {0} /\ success = FALSE /\ UserPages
  BY <1>1, Zenon DEF LoadInv, LoadedSoFar
<1>3. ph - 1 \in DOMAIN phdrs /\ HoldsAll(ph - 2)
  BY <1>1, Zenon DEF LoadInv, LoadedSoFar
<1>4. PICK p \in Header : p = phdrs[ph - 1] /\ Midway(p)
  BY <1>1, Zenon DEF LoadInv, LoadedSoFar
<1>5. ASSUME Kept PROVE \A m \in 1 .. ph - 2 : HoldsNth(m)'
  BY <1>1, <1>3, <1>5, HoldsNthKept, Zenon DEF HoldsAll
<1>6. CASE step' \in {"done", "panic"} /\ pages' = pages /\ frames' = frames
  <2>1. UserPages'
    BY <1>2, <1>6, PagesSame, Zenon
  <2>2. LoadedSoFar'
    BY <1>1, <1>2, <1>6, Zenon DEF LoadedSoFar
  <2> QED
    BY <1>1, <1>2, <1>6, <2>1, <2>2, Zenon DEF LoadInv
<1>7. CASE seg.read_bytes = 0 /\ seg.zero_bytes = 0 /\ step' = "phdr" /\ seg' = seg /\ pages' = pages /\ frames' = frames
  <2>1. UserPages' /\ Kept
    BY <1>2, <1>7, PagesSame, Zenon
  <2>2. Top(p) \in Nat /\ seg.upage \in Nat /\ seg.zero_bytes = (Top(p) - seg.upage) - seg.read_bytes
    BY <1>4, Covered, Zenon DEF Midway
  <2>3. Top(p) = seg.upage
    BY <1>7, <2>2
  <2>4. HoldsTo(p, Top(p))
    BY <1>4, <2>3, Zenon DEF Midway
  <2>5. \A m : m = ph - 1 => HoldsNth(m)'
    <3> SUFFICES ASSUME NEW m, m = ph - 1 PROVE HoldsNth(m)'
      BY Zenon
    <3>1. HoldsNth(m)
      BY <1>3, <1>4, <2>4, Zenon DEF HoldsNth
    <3> QED
      BY <1>1, <2>1, <3>1, HoldsNthKept, Zenon
  <2>6. \A m \in 1 .. ph - 1 : m = ph - 1 \/ m \in 1 .. ph - 2
    BY <1>2
  <2>7. HoldsAll(ph - 1)'
    BY <1>1, <1>5, <2>1, <2>5, <2>6, Zenon DEF HoldsAll
  <2>8. LoadedSoFar'
    BY <1>1, <1>2, <1>7, <2>7, Zenon DEF LoadedSoFar
  <2> QED
    BY <1>1, <1>2, <1>7, <2>1, <2>8, Zenon DEF LoadInv
<1>8. ASSUME NEW n, n = Min2(seg.read_bytes, PGSIZE), seg.read_bytes > 0 \/ seg.zero_bytes > 0,
             PageTurn(n), step' = step
      PROVE  LoadInv'
  <2>1. Midway(p)' /\ UserPages' /\ Kept
    BY <1>2, <1>4, <1>8, PageKeeps, Zenon
  <2>2. HoldsAll(ph - 2)'
    BY <1>1, <1>5, <2>1, Zenon DEF HoldsAll
  <2>3. LoadedSoFar'
    <3>1. step' = "segment" /\ ph' - 1 \in DOMAIN phdrs' /\ p = phdrs'[ph' - 1] /\ success' = FALSE
      BY <1>1, <1>2, <1>3, <1>4, <1>8, Zenon
    <3> QED
      BY <2>1, <2>2, <3>1, Zenon DEF LoadedSoFar
  <2> QED
    BY <1>1, <1>2, <1>8, <2>1, <2>3, Zenon DEF LoadInv
<1> QED
  BY <1>6, <1>7, <1>8, Zenon DEF load_segment, GivesBack, PageTurn

\* setup_stack.
LEMMA StackKeeps ==
  ASSUME Counting, LoadInv, setup_stack
  PROVE  LoadInv'
<1>1. /\ step = "stack" /\ step' \in {"done", "panic", "exit(-1)"} /\ phdrs' = phdrs /\ ph' = ph /\ file' = file
  BY Zenon DEF setup_stack
<1>2. /\ phdrs \in Seq(Header) /\ ph \in Nat \ {0} /\ success = FALSE /\ UserPages
      /\ HoldsAll(Len(phdrs))
  BY <1>1, Zenon DEF LoadInv, LoadedSoFar
<1>3. CASE pages' = pages /\ frames' = frames /\ success' = success
  <2>1. UserPages'
    BY <1>2, <1>3, PagesSame, Zenon
  <2>2. LoadedSoFar'
    BY <1>1, <1>2, <1>3, Zenon DEF LoadedSoFar
  <2> QED
    BY <1>1, <1>2, <1>3, <2>1, <2>2, Zenon DEF LoadInv
<1>4. ASSUME NEW page, install(PHYS_BASE - PGSIZE, page), frames' = frames + 1,
             success' = success \/ (success' = TRUE /\ step' = "done")
      PROVE  LoadInv'
  <2>1. /\ PHYS_BASE - PGSIZE \in Nat /\ PGSIZE <= PHYS_BASE - PGSIZE
        /\ (PHYS_BASE - PGSIZE) + PGSIZE <= PHYS_BASE
    BY VaddrAssumption
  <2>2. UserPages' /\ Kept /\ PHYS_BASE - PGSIZE \in DOMAIN pages'
    BY <1>2, <1>4, <2>1, PageInstallKeeps, Zenon
  <2>3. HoldsAll(Len(phdrs))'
    BY <1>1, <1>2, <2>2, HoldsNthKept, Zenon DEF HoldsAll
  <2>4. LoadedSoFar'
    BY <1>1, <1>2, <1>4, <2>2, <2>3, Zenon DEF LoadedSoFar
  <2> QED
    BY <1>1, <1>2, <1>4, <2>2, <2>4, Zenon DEF LoadInv
<1> QED
  BY <1>3, <1>4, Zenon DEF setup_stack, GivesBack

\* The steps before the headers, and the end.
LEMMA OthersKeep ==
  ASSUME LoadInv, Prepare \/ Open \/ Done \/ UNCHANGED loadVars
  PROVE  LoadInv'
<1>1. /\ phdrs' = phdrs /\ ph' = ph /\ pages' = pages /\ frames' = frames /\ success' = success /\ seg' = seg
  BY Zenon DEF Prepare, Open, Done, loadVars
<1>2. /\ phdrs \in Seq(Header) /\ ph \in Nat \ {0} /\ success \in BOOLEAN /\ UserPages
      /\ LoadedSoFar
  BY Zenon DEF LoadInv
<1>3. UserPages' /\ Kept
  BY <1>1, <1>2, PagesSame, Zenon
<1>4. \A m : HoldsNth(m) => HoldsNth(m)'
  BY <1>1, <1>3, HoldsNthKept, Zenon
<1>5. HoldsAll(ph - 1) => HoldsAll(ph - 1)'
  BY <1>1, <1>4, Zenon DEF HoldsAll
<1>6. HoldsAll(Len(phdrs)) => HoldsAll(Len(phdrs))'
  BY <1>1, <1>4, Zenon DEF HoldsAll
<1>7. CASE Prepare \/ Open
  <2>1. step \in {"start", "open"} /\ step' \in {"open", "phdr", "done", "panic"}
    BY <1>7, Zenon DEF Prepare, Open
  <2>2. HoldsAll(ph - 1)' /\ success = FALSE
    BY <1>2, <1>5, <2>1, Zenon DEF LoadedSoFar
  <2>3. LoadedSoFar'
    BY <1>1, <2>1, <2>2, Zenon DEF LoadedSoFar
  <2> QED
    BY <1>1, <1>2, <1>3, <2>1, <2>2, <2>3 DEF LoadInv
<1>8. CASE Done
  <2>1. step = "done" /\ step' = "returned"
    BY <1>8, Zenon DEF Done
  <2>2. LoadedSoFar'
    BY <1>1, <1>2, <1>6, <2>1, Zenon DEF LoadedSoFar
  <2> QED
    BY <1>1, <1>2, <1>3, <2>1, <2>2, Zenon DEF LoadInv
<1>9. CASE UNCHANGED loadVars
  <2>1. LoadInv' <=> LoadInv
    BY <1>9, ZenonT(40) DEF loadVars, LoadInv, UserPages, LoadedSoFar, HoldsAll, HoldsNth, HoldsTo, Holds, Midway
  <2> QED
    BY <2>1, Zenon
<1> QED
  BY <1>7, <1>8, <1>9, Zenon

\* load() frees its copies where it ends, and setup_stack loses one.
LEMMA FreedKeeps ==
  ASSUME FreedSoFar, LoadNext \/ UNCHANGED loadVars
  PROVE  FreedSoFar'
<1>1. "cmdline_cp" \in Copy /\ "cmdline_cp_2" \in Copy
  BY DEF Copy
<1>2. CASE Prepare \/ Open
  <2>1. /\ step \in {"start", "open"} /\ step' \in {"open", "phdr", "done", "panic"} /\ (step' = "open" => frees' = frees)
        /\ ph' = ph /\ pages' = pages /\ leaked' = leaked /\ success' = success
        /\ frees' = frees \/ (step' = "done" /\ frees' = [frees EXCEPT !["cmdline_cp"] = @ + 1])
        /\ step' = "phdr" => frees' = frees
    BY <1>2, Zenon DEF Prepare, Open, free
  <2> QED
    BY <1>1, <2>1 DEF FreedSoFar
<1>3. CASE Phdr \/ load_segment
  <2>1. /\ step \in {"phdr", "segment"} /\ step' \in {"phdr", "segment", "stack", "done", "panic"}
        /\ leaked' = leaked /\ success' = success /\ frees' = frees
    BY <1>3, Zenon DEF Phdr, load_segment
  <2> QED
    BY <2>1 DEF FreedSoFar
<1>4. CASE setup_stack
  <2>1. /\ step = "stack" /\ step' \in {"done", "panic", "exit(-1)"} /\ frees' = frees /\ success' \in {success, TRUE}
        /\ step' = "done" => leaked' = leaked + 1
        /\ step' # "done" => success' = success
    BY <1>4, Zenon DEF setup_stack
  <2>2. leaked = 0 /\ frees["cmdline_cp"] = 0 /\ frees["cmdline_cp_2"] = 0 /\ frees \in [Copy -> Nat] /\ success = FALSE
    BY <2>1, Zenon DEF FreedSoFar
  <2>3. (step' = "done" => leaked' = 1) /\ 0 # 1
    BY <2>1, <2>2
  <2> QED
    BY <2>1, <2>2, <2>3, Zenon DEF FreedSoFar
<1>5. CASE Done
  <2>1. /\ step = "done" /\ step' = "returned" /\ frees' = [c \in Copy |-> frees[c] + 1]
        /\ ph' = ph /\ pages' = pages /\ leaked' = leaked /\ success' = success
        /\ file' = IF success THEN "exec" ELSE "none"
    BY <1>5, Zenon DEF Done
  <2>2. /\ frees["cmdline_cp_2"] = 0 /\ frees["cmdline_cp"] \in {0, 1} /\ leaked \in {0, 1} /\ (success => leaked = 1)
        /\ frees["cmdline_cp"] = 1 => ph = 1 /\ DOMAIN pages = {} /\ ~success
        /\ frees \in [Copy -> Nat] /\ success \in BOOLEAN
    BY <2>1, Zenon DEF FreedSoFar
  <2>3. /\ frees' \in [Copy -> Nat]
        /\ frees'["cmdline_cp_2"] = 1 /\ frees'["cmdline_cp"] \in {1, 2}
        /\ frees'["cmdline_cp"] = 2 => frees["cmdline_cp"] = 1
    BY <1>1, <2>1, <2>2
  <2>4. file' # "open" /\ (file' = "exec" <=> success')
    BY <2>1
  <2> QED
    BY <2>1, <2>2, <2>3, <2>4, Zenon DEF FreedSoFar
<1>6. CASE UNCHANGED loadVars
  BY <1>6 DEF FreedSoFar, loadVars
<1> QED
  BY <1>2, <1>3, <1>4, <1>5, <1>6, Zenon DEF LoadNext, Returned

\* What the invariant says once load() is over.
LEMMA LoadedThen ==
  ASSUME LoadInv, FreedSoFar
  PROVE  ProgramLoaded
<1>1. LoadAccounts
  BY Zenon DEF LoadInv, UserPages, FreedSoFar, LoadAccounts
<1>2. ASSUME step = "returned", success PROVE LoadedAsAsked
  <2>1. HoldsAll(Len(phdrs)) /\ PHYS_BASE - PGSIZE \in DOMAIN pages /\ phdrs \in Seq(Header)
    BY <1>2, Zenon DEF LoadInv, LoadedSoFar
  <2>2. ASSUME NEW n \in DOMAIN phdrs, phdrs[n].type = "LOAD", NEW j \in 0 .. phdrs[n].memsz - 1
        PROVE  LET p == phdrs[n]
                   a == p.vaddr + j
               IN /\ a - (a % PGSIZE) \in DOMAIN pages /\ pages[a - (a % PGSIZE)].writable = p.writable
                  /\ LoadedByte(a) = IF j < p.filesz THEN p.offset + j + 1 ELSE 0
    <3>1. PICK p \in Header : p = phdrs[n]
      BY <2>1, <2>2
    <3> DEFINE a == p.vaddr + j
               u == PageOf(a)
               r == a % PGSIZE
    <3>2. p.offset \in Nat /\ p.vaddr \in Nat /\ p.filesz \in Nat /\ p.memsz \in Nat /\ j \in Nat /\ j < p.memsz
      BY <2>2, <3>1, Fields
    <3>3. a \in Nat /\ p.vaddr <= a /\ a < p.vaddr + p.memsz
      BY <3>2
    <3>4. u \in Nat /\ Aligned(u) /\ r \in 0 .. PGSIZE - 1 /\ a = u + r
      BY <3>3, PageIs, Zenon
    <3>5. HoldsTo(p, Top(p))
      <4>1. n \in 1 .. Len(phdrs)
        BY <2>1, <2>2
      <4> QED
        BY <2>1, <2>2, <3>1, <4>1, Zenon DEF HoldsAll, HoldsNth
    <3>6. u \in PageOf(p.vaddr) .. Top(p) - 1
      <4>1. Top(p) \in Nat /\ p.vaddr + p.memsz <= Top(p) /\ PGSIZE \in Nat \ {0}
        BY Covered, VaddrAssumption, Zenon
      <4>2. /\ PageOf(p.vaddr) \in Nat /\ Aligned(PageOf(p.vaddr))
            /\ PageOf(p.vaddr) <= p.vaddr
        <5>1. /\ PageOf(p.vaddr) \in Nat /\ Aligned(PageOf(p.vaddr))
              /\ p.vaddr % PGSIZE \in 0 .. PGSIZE - 1 /\ p.vaddr = PageOf(p.vaddr) + (p.vaddr % PGSIZE)
          BY <3>2, PageIs, Zenon
        <5> DEFINE w == p.vaddr % PGSIZE
        <5>2. w \in 0 .. PGSIZE - 1 /\ p.vaddr = PageOf(p.vaddr) + w
          BY <5>1, Zenon
        <5> HIDE DEF w
        <5> QED
          BY <4>1, <5>1, <5>2
      <4>3. u < PageOf(p.vaddr) => u + PGSIZE <= PageOf(p.vaddr)
        BY <3>4, <4>2, Apart, Zenon
      <4> HIDE DEF u, a, r
      <4> QED
        BY <3>2, <3>3, <3>4, <4>1, <4>2, <4>3
    <3>7. u \in DOMAIN pages /\ Has(pages[u], p, u)
      BY <3>4, <3>5, <3>6, Zenon DEF HoldsTo, Holds
    <3>8. /\ pages[u].writable = p.writable
          /\ pages[u].data[r] = IF a < p.vaddr + p.filesz THEN p.offset + (a - p.vaddr) + 1 ELSE 0
      <4> HIDE DEF u, a, r
      <4>1. r \in 0 .. PGSIZE - 1 /\ u + r = a /\ p.vaddr <= u + r /\ u + r < p.vaddr + p.memsz
        BY <3>3, <3>4, Zenon
      <4>2. /\ pages[u].writable = p.writable
            /\ pages[u].data[r] = IF u + r < p.vaddr + p.filesz THEN p.offset + ((u + r) - p.vaddr) + 1 ELSE 0
        BY <3>7, <4>1, Zenon DEF Has
      <4> QED
        BY <4>1, <4>2, Zenon
    <3>9. pages[u].data[r] = IF j < p.filesz THEN p.offset + j + 1 ELSE 0
      BY <3>2, <3>8
    <3>10. LoadedByte(a) = pages[u].data[r]
      BY Zenon DEF LoadedByte, PageOf
    <3> QED
      BY <3>1, <3>7, <3>8, <3>9, <3>10, Zenon DEF PageOf
  <2>3. \A a \in DOMAIN pages : a >= PGSIZE /\ a + PGSIZE <= PHYS_BASE
    BY VaddrAssumption, Zenon DEF LoadInv, UserPages
  <2> QED
    BY <2>1, <2>2, <2>3, Zenon DEF LoadedAsAsked
<1>3. LoadedAsAsked
  BY <1>2, Zenon DEF LoadedAsAsked
<1> QED
  BY <1>1, <1>3, Zenon DEF ProgramLoaded

-----------------------------------------------------------------------------
(***************************************************************************)
(* The theorem that rests on counting, and what the library says of it.    *)
(***************************************************************************)
INSTANCE FiniteSetTheorems

\* Openers and pages can be counted.
LEMMA CountingHolds == Counting
<1>1. IsFiniteSet({}) /\ Cardinality({}) = 0 /\ \A S : IsFiniteSet(S) => (Cardinality(S) = 0 <=> S = {})
  BY FS_EmptySet, Zenon
<1>2. \A S : IsFiniteSet(S) => \A R \in SUBSET S : IsFiniteSet(R)
  BY FS_Subset, Zenon
<1>3. \A S, x : IsFiniteSet(S) /\ x \notin S =>
        IsFiniteSet(S \cup {x}) /\ Cardinality(S \cup {x}) = Cardinality(S) + 1
  BY FS_AddElement, Zenon
<1>4. \A S, x : IsFiniteSet(S) /\ x \in S => Cardinality(S \ {x}) = Cardinality(S) - 1
  BY FS_RemoveElement, Zenon
<1>5. \A x : Cardinality({x}) = 1
  BY FS_Singleton, Zenon
<1> QED
  BY <1>1, <1>2, <1>3, <1>4, <1>5, Zenon DEF Counting

\* load(): whatever the headers of the executable say, a successful load() has
\* put each segment in memory as its header says, on user pages only; no load()
\* that returns loses a frame or the open executable, it frees its copies of
\* the command line, and loses no block of the heap but setup_stack's copy.
THEOREM LoadCorrect == LoadSpec => []ProgramLoaded
<1>1. LoadInit => LoadInv
  <2> SUFFICES ASSUME LoadInit PROVE LoadInv
    BY Zenon
  <2>1. /\ DOMAIN pages = {} /\ frames = 0 /\ ph = 1 /\ step = "start" /\ success = FALSE
        /\ phdrs \in Seq(Header)
    BY LoadAssumption, Zenon DEF LoadInit, NoPages
  <2>2. UserPages
    BY <2>1, CountingHolds, Zenon DEF UserPages, Counting
  <2>3. LoadedSoFar
    BY <2>1 DEF LoadedSoFar, HoldsAll
  <2>4. ph \in Nat \ {0}
    BY <2>1
  <2>5. success \in BOOLEAN
    BY <2>1, Zenon
  <2> QED
    BY <2>1, <2>2, <2>3, <2>4, <2>5, Zenon DEF LoadInv
<1>2. LoadInv /\ [LoadNext]_loadVars => LoadInv'
  BY CountingHolds, PhdrKeeps, SegmentKeeps, StackKeeps, OthersKeep, Zenon DEF LoadNext, Returned
<1>3. LoadInit => FreedSoFar
  <2> SUFFICES ASSUME LoadInit PROVE FreedSoFar
    BY Zenon
  <2>1. step = "start" /\ ph = 1 /\ DOMAIN pages = {} /\ leaked = 0 /\ success = FALSE /\ frees = [c \in Copy |-> 0]
    BY Zenon DEF LoadInit, NoPages
  <2>2. frees \in [Copy -> Nat] /\ frees["cmdline_cp"] = 0 /\ frees["cmdline_cp_2"] = 0
    BY <2>1 DEF Copy
  <2>3. success \in BOOLEAN
    BY <2>1, Zenon
  <2> QED
    BY <2>1, <2>2, <2>3 DEF FreedSoFar
<1>4. FreedSoFar /\ [LoadNext]_loadVars => FreedSoFar'
  BY FreedKeeps, Zenon
<1>5. LoadInv /\ FreedSoFar => ProgramLoaded
  BY LoadedThen, Zenon
<1> QED
  BY <1>1, <1>2, <1>3, <1>4, <1>5, PTL DEF LoadSpec
=============================================================================
