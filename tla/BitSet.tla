------------------------------- MODULE BitSet -------------------------------
(***************************************************************************)
(* What lib/kernel/bitmap.h promises: a bitmap is a set of numbers below   *)
(* bit_cnt.                                                                *)
(***************************************************************************)
EXTENDS Naturals, FiniteSets

CONSTANTS bit_cnt,
          BITMAP_ERROR, NULL

VARIABLES set,      \* the bits that are true
          stored,   \* the set last written to the file
          call,     \* the call in progress, or NULL
          ret       \* what the last call returned
bitSetVars == <<set, stored, call, ret>>

Span(c) == c.start .. c.start + c.cnt - 1
Put(S, value) == IF value THEN set \cup S ELSE set \ S
Like(value) == IF value THEN set ELSE (0 .. bit_cnt - 1) \ set

BitSetInit == set = {} /\ stored = {} /\ call = NULL /\ ret = 0

Call == call = NULL /\ call' # NULL /\ UNCHANGED <<set, stored, ret>>
Op(op) == call # NULL /\ call.op = op /\ call' = NULL

SetMultiple == Op("set_multiple") /\ set' = Put(Span(call), call.value) /\ UNCHANGED <<stored, ret>>
Flip == Op("flip") /\ set' = (set \ {call.start}) \cup ({call.start} \ set) /\ UNCHANGED <<stored, ret>>
Count == Op("count") /\ ret' = Cardinality(Span(call) \cap Like(call.value)) /\ UNCHANGED <<set, stored>>

\* The leftmost group of cnt bits at or after start that are all value is
\* turned over.  "If CNT is zero, returns 0."
ScanAndFlip ==
  /\ Op("scan_and_flip")
  /\ UNCHANGED stored
  /\ call.cnt = 0 => ret' = 0
  /\ LET fits == {i \in call.start .. bit_cnt :
                    i + call.cnt <= bit_cnt /\ Span([call EXCEPT !.start = i]) \subseteq Like(call.value)}
     IN \/ fits = {} /\ ret' = BITMAP_ERROR /\ UNCHANGED set
        \/ /\ ret' \in fits /\ \A i \in fits : ret' <= i
           /\ set' = Put(Span([call EXCEPT !.start = ret']), ~call.value)

Write == Op("write") /\ stored' = set /\ UNCHANGED <<set, ret>>
Read == Op("read") /\ set' = stored /\ UNCHANGED <<stored, ret>>

BitSetNext == Call \/ SetMultiple \/ Flip \/ Count \/ ScanAndFlip \/ Write \/ Read

BitSetSpec == BitSetInit /\ [][BitSetNext]_bitSetVars
=============================================================================
