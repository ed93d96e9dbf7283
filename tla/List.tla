-------------------------------- MODULE List --------------------------------
(***************************************************************************)
(* The doubly linked list of lib/kernel/list.c, pointer by pointer.  A     *)
(* call is one step, as on the lists that change with interrupts off or    *)
(* under a lock.                                                           *)
(***************************************************************************)
EXTENDS Naturals, Sequences, Kernel

CONSTANTS Elem, HEAD, TAIL

ASSUME ListAssumption ==
  HEAD # TAIL /\ HEAD \notin Elem /\ TAIL \notin Elem /\ NULL \notin Elem \cup {HEAD, TAIL}

VARIABLES heap,     \* [elements, head and tail -> [prev, next]]
          shadow    \* the elements that should be on the list, in order
listVars == <<heap, shadow>>

Node == Elem \cup {HEAD, TAIL}

\* list_init.
ListInit ==
  /\ heap = [n \in Node |-> [prev |-> IF n = TAIL THEN HEAD ELSE NULL, next |-> IF n = HEAD THEN TAIL ELSE NULL]]
  /\ shadow = <<>>

is_interior(n) == heap[n].prev # NULL /\ heap[n].next # NULL
is_tail(n) == heap[n].prev # NULL /\ heap[n].next = NULL

\* The nodes in the order they should be linked: the head is before the first
\* element, the tail after the last.
NodeAt(i) == IF i = 0 THEN HEAD ELSE IF i = Len(shadow) + 1 THEN TAIL ELSE shadow[i]
OnList(n) == \E i \in DOMAIN shadow : shadow[i] = n

\* list_insert, before the i-th element, or the tail for list_push_back.
list_insert(e, i) ==
  LET before == NodeAt(i)
      h1 == [heap EXCEPT ![e] = [prev |-> heap[before].prev, next |-> before]]
      h2 == [h1 EXCEPT ![h1[before].prev].next = e]
  IN /\ ~OnList(e)
     /\ is_interior(before) \/ is_tail(before)
     /\ heap' = [h2 EXCEPT ![before].prev = e]
     /\ shadow' = [n \in 1 .. Len(shadow) + 1 |->
                     IF n < i THEN shadow[n] ELSE IF n = i THEN e ELSE shadow[n - 1]]

\* Mutant: only the forward pointer is mended.
UnlinkHalf(h, e) == [h EXCEPT ![h[e].prev].next = h[e].next]

Unlink(h, e) ==
  LET h1 == [h EXCEPT ![h[e].prev].next = h[e].next]
  IN [h1 EXCEPT ![h1[e].next].prev = h1[e].prev]

\* list_remove, list_pop_front and list_pop_back, of the i-th element.
list_remove(i) ==
  /\ is_interior(shadow[i])
  /\ heap' = Unlink(heap, shadow[i])
  /\ shadow' = [n \in 1 .. Len(shadow) - 1 |-> shadow[IF n < i THEN n ELSE n + 1]]

\* list_splice; last is the end of the range, exclusive.
list_splice(before, first, last) ==
  /\ is_interior(first)
  /\ LET l == heap[last].prev
         h1 == [heap EXCEPT ![heap[first].prev].next = heap[l].next]
         h2 == [h1 EXCEPT ![h1[l].next].prev = h1[first].prev]
         h3 == [h2 EXCEPT ![first].prev = h2[before].prev, ![l].next = before]
         h4 == [h3 EXCEPT ![h3[before].prev].next = first]
     IN heap' = [h4 EXCEPT ![before].prev = l]

\* Where the n-th element comes from when those from the i-th to the j-th have
\* moved before the k-th, which is none of them.
From(n, i, j, k) ==
  IF k < i THEN IF n \in k .. k + (j - i) THEN n - k + i
                ELSE IF n \in k + (j - i) + 1 .. j THEN n - (j - i + 1) ELSE n
  ELSE IF n \in i .. k - (j - i) - 2 THEN n + (j - i + 1)
       ELSE IF n \in k - (j - i) - 1 .. k - 1 THEN n - (k - 1 - j) ELSE n

\* list_splice inside one list, of a range to a place outside of it.
Splice(i, j, k) ==
  /\ list_splice(NodeAt(k), NodeAt(i), NodeAt(j + 1))
  /\ shadow' = [n \in 1 .. Len(shadow) |-> shadow[From(n, i, j, k)]]

\* list_reverse: all elements swap their pointers, then the ends are swapped.
list_reverse ==
  /\ shadow # <<>>
  /\ LET h1 == [n \in Node |-> IF OnList(n) THEN [prev |-> heap[n].next, next |-> heap[n].prev] ELSE heap[n]]
         h2 == [h1 EXCEPT ![HEAD].next = h1[TAIL].prev, ![TAIL].prev = h1[HEAD].next]
         front == h2[HEAD].next
         back == h2[TAIL].prev
     IN heap' = [n \in Node |->
                   [prev |-> IF n = front THEN h2[back].next ELSE h2[n].prev,
                    next |-> IF n = back THEN h2[front].prev ELSE h2[n].next]]
  /\ shadow' = [n \in 1 .. Len(shadow) |-> shadow[Len(shadow) + 1 - n]]

ListNext ==
  \/ \E e \in Elem, i \in 1 .. Len(shadow) + 1 : list_insert(e, i)
  \/ \E i \in 1 .. Len(shadow) : list_remove(i)
  \/ \E i \in 1 .. Len(shadow) : \E j \in i .. Len(shadow) :
       \E k \in (1 .. i - 1) \cup (j + 1 .. Len(shadow) + 1) : Splice(i, j, k)
  \/ list_reverse

ListSpec == ListInit /\ [][ListNext]_listVars
-----------------------------------------------------------------------------
\* The list is whole, and in the order the calls so far give: its ends are
\* ends, from each element the pointers lead to the next one and back, and each
\* element that was put on it and not taken off is met once.
ListWhole ==
  /\ heap[HEAD].prev = NULL /\ heap[TAIL].next = NULL
  /\ \A i \in 0 .. Len(shadow) : heap[NodeAt(i)].next = NodeAt(i + 1) /\ heap[NodeAt(i + 1)].prev = NodeAt(i)
  /\ \A i, j \in 1 .. Len(shadow) : shadow[i] = shadow[j] => i = j
=============================================================================
