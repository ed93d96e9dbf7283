------------------------------ MODULE ListSort ------------------------------
(***************************************************************************)
(* The algorithms of lib/kernel/list.c that take a LESS function, loop by  *)
(* loop: the natural merge sort of list_sort, list_unique, list_max,       *)
(* list_min and list_insert_ordered.  A list is a sequence here (List has  *)
(* the pointers), a list_elem * a position, and the tail the position past *)
(* the last.  An element is <<key, name>>; LESS compares keys.             *)
(***************************************************************************)
EXTENDS Naturals, Sequences, SequencesExt, FiniteSets

CONSTANTS Key, MaxLen   \* bound on the length of a list

VARIABLES op,
          input,            \* the list as it was
          list, duplicates,
          a0, a1b0, b1,     \* list_sort's positions
          output_run_cnt,
          e,                \* position of the other loops
          best,             \* list_max's and list_min's answer so far
          pc
sortVars == <<op, input, list, duplicates, a0, a1b0, b1, output_run_cnt, e, best, pc>>

less(x, y) == x[1] < y[1]
End == Len(list) + 1

\* Lists with distinct names, so that equal elements can be told apart.
Lists == UNION {{[i \in 1 .. n |-> <<k[i], i>>] : k \in [1 .. n -> Key]} : n \in 0 .. MaxLen}
InKeyOrder(s) == \A i \in 1 .. Len(s) - 1 : ~less(s[i + 1], s[i])

ListSortInit ==
  /\ op \in {"sort", "unique", "max", "min", "insert"}
  /\ input \in {s \in Lists : op = "insert" => s # <<>> /\ InKeyOrder(Tail(s))}
  /\ list = (IF op = "insert" THEN Tail(input) ELSE input) /\ duplicates = <<>>
  /\ a0 = 1 /\ a1b0 = 1 /\ b1 = 1 /\ output_run_cnt = 0
  /\ e = (IF op = "insert" THEN 1 ELSE 2) /\ best = 1
  /\ pc = IF op = "sort" THEN "pass" ELSE op

is_sorted(i, j) == InKeyOrder(SubSeq(list, i, j - 1))

\* The first position after a where the order breaks, or b.
find_end_of_run(a, b) ==
  CHOOSE j \in a + 1 .. b : /\ j = b \/ less(list[j], list[j - 1])
                            /\ \A k \in a + 1 .. j - 1 : ~less(list[k], list[k - 1])

\* One turn of list_sort's inner loop, up to the merge.
FindRuns ==
  /\ pc = "pass"
  /\ IF a0 = End
     THEN pc' = "passed" /\ UNCHANGED <<a1b0, b1, output_run_cnt>>
     ELSE /\ output_run_cnt' = output_run_cnt + 1
          /\ a1b0' = find_end_of_run(a0, End)
          /\ IF a1b0' = End THEN pc' = "passed" /\ UNCHANGED b1
             ELSE b1' = find_end_of_run(a1b0', End) /\ pc' = "merge"
  /\ UNCHANGED <<op, input, list, duplicates, a0, e, best>>

\* The element at position j moves before the one at i: list_splice.
Moved(i, j) == InsertAt(RemoveAt(list, j), i, list[j])

\* Mutant: elements that are equal change places.
TakeSecondEqual == ~less(list[a0], list[a1b0])

TakeSecond == less(list[a1b0], list[a0])

\* One turn of inplace_merge's loop; a0 stands for the same element after a
\* move, one position on.
inplace_merge ==
  /\ pc = "merge"
  /\ IF a0 # a1b0 /\ a1b0 # b1
     THEN /\ IF TakeSecond THEN list' = Moved(a0, a1b0) /\ a1b0' = a1b0 + 1 ELSE UNCHANGED <<list, a1b0>>
          /\ a0' = a0 + 1 /\ UNCHANGED pc
     ELSE a0' = b1 /\ pc' = "pass" /\ UNCHANGED <<list, a1b0>>
  /\ UNCHANGED <<op, input, duplicates, b1, output_run_cnt, e, best>>

\* The end of a pass of list_sort.
NextPass ==
  /\ pc = "passed"
  /\ pc' = IF output_run_cnt > 1 THEN "pass" ELSE "done"
  /\ a0' = 1 /\ output_run_cnt' = 0
  /\ UNCHANGED <<op, input, list, duplicates, a1b0, b1, e, best>>

\* One turn of list_unique's loop; elem is the element before e.
list_unique ==
  /\ pc = "unique"
  /\ IF e >= End THEN pc' = "done" /\ UNCHANGED <<list, duplicates, e>>
     ELSE IF ~less(list[e - 1], list[e]) /\ ~less(list[e], list[e - 1])
     THEN list' = RemoveAt(list, e) /\ duplicates' = Append(duplicates, list[e]) /\ UNCHANGED <<e, pc>>
     ELSE e' = e + 1 /\ UNCHANGED <<list, duplicates, pc>>
  /\ UNCHANGED <<op, input, a0, a1b0, b1, output_run_cnt, best>>

Better(x, y) == IF op = "max" THEN less(y, x) ELSE less(x, y)

\* One turn of the loop of list_max or list_min.
list_max ==
  /\ pc \in {"max", "min"}
  /\ IF e >= End THEN pc' = "done" /\ UNCHANGED <<best, e>>
     ELSE best' = (IF Better(list[e], list[best]) THEN e ELSE best) /\ e' = e + 1 /\ UNCHANGED pc
  /\ UNCHANGED <<op, input, list, duplicates, a0, a1b0, b1, output_run_cnt>>

\* One turn of list_insert_ordered's loop; the first element of input is put in.
list_insert_ordered ==
  /\ pc = "insert"
  /\ IF e < End /\ ~less(input[1], list[e]) THEN e' = e + 1 /\ UNCHANGED <<list, pc>>
     ELSE list' = InsertAt(list, e, input[1]) /\ pc' = "done" /\ UNCHANGED e
  /\ UNCHANGED <<op, input, duplicates, a0, a1b0, b1, output_run_cnt, best>>

Finished == pc = "done" /\ UNCHANGED sortVars

ListSortNext ==
  FindRuns \/ inplace_merge \/ NextPass \/ list_unique \/ list_max \/ list_insert_ordered \/ Finished

ListSortSpec == ListSortInit /\ [][ListSortNext]_sortVars
-----------------------------------------------------------------------------
\* The names of a list's elements in the order a stable sort gives.
InOrder(x, y) == less(x, y) \/ (x[1] = y[1] /\ x[2] < y[2])

\* list_sort is a stable sort and list_insert_ordered puts an element after its
\* equals; no element is lost or doubled by the splices.
Sorted ==
  pc = "done" /\ op \in {"sort", "insert"} =>
    /\ Len(list) = Len(input) /\ Range(list) = Range(input)
    /\ op = "sort" => \A i \in 1 .. Len(list) - 1 : InOrder(list[i], list[i + 1])
    /\ op = "insert" => /\ InKeyOrder(list)
                        /\ \A i \in DOMAIN list : \A j \in DOMAIN list :
                             list[i] = input[1] /\ list[i][1] = list[j][1] => j <= i

\* The assertions of inplace_merge: both ranges are sorted when it starts, and
\* what is merged so far stays sorted.
RunsSorted == pc = "merge" => is_sorted(a0, a1b0) /\ is_sorted(a1b0, b1) /\ a0 <= a1b0 /\ a1b0 <= b1

\* list_unique keeps the first of each set of adjacent equal elements and gives
\* up the others in order; list_max and list_min find the earliest extreme.
OthersRight ==
  pc = "done" =>
    /\ op = "unique" =>
         LET kept(x) == x[2] = 1 \/ input[x[2] - 1][1] # x[1]
         IN list = SelectSeq(input, kept) /\ duplicates = SelectSeq(input, LAMBDA x : ~kept(x))
    /\ op \in {"max", "min"} /\ list # <<>> =>
         \A i \in DOMAIN list : /\ IF op = "max" THEN ~less(list[best], list[i]) ELSE ~less(list[i], list[best])
                                /\ i < best => list[i][1] # list[best][1]
=============================================================================
