------------------------------- MODULE Bitmap -------------------------------
(***************************************************************************)
(* lib/kernel/bitmap.c: bits packed into machine words.  The bits of the   *)
(* last word beyond bit_cnt hold whatever malloc, or a file, left there.   *)
(***************************************************************************)
EXTENDS Naturals, FiniteSetsExt

CONSTANTS bit_cnt,
          ELEM_BITS,   \* bits per word, 32 in the code
          BITMAP_ERROR, NULL

VARIABLES bits,   \* the words
          file,   \* the words in the file
          call,   \* the call in progress, or NULL
          ret     \* what the last call returned
bitmapVars == <<bits, file, call, ret>>

elem_idx(bit_idx) == bit_idx \div ELEM_BITS
bit_mask(bit_idx) == 2 ^ (bit_idx % ELEM_BITS)
elem_cnt == (bit_cnt + ELEM_BITS - 1) \div ELEM_BITS
Words == [0 .. elem_cnt - 1 -> 0 .. 2 ^ ELEM_BITS - 1]

\* One more than the mask: w & last_mask is w % last_mask here.
last_mask == IF bit_cnt % ELEM_BITS = 0 THEN 2 ^ ELEM_BITS ELSE 2 ^ (bit_cnt % ELEM_BITS)

bitmap_test(b, idx) == (b[elem_idx(idx)] \div bit_mask(idx)) % 2 = 1
bitmap_mark(b, idx) == IF bitmap_test(b, idx) THEN b ELSE [b EXCEPT ![elem_idx(idx)] = @ + bit_mask(idx)]
bitmap_reset(b, idx) == IF bitmap_test(b, idx) THEN [b EXCEPT ![elem_idx(idx)] = @ - bit_mask(idx)] ELSE b
bitmap_flip(b, idx) == IF bitmap_test(b, idx) THEN bitmap_reset(b, idx) ELSE bitmap_mark(b, idx)
bitmap_set(b, idx, value) == IF value THEN bitmap_mark(b, idx) ELSE bitmap_reset(b, idx)

bitmap_set_multiple(b, start, cnt, value) ==
  FoldSet(LAMBDA i, acc : bitmap_set(acc, i, value), b, start .. start + cnt - 1)

bitmap_count(b, start, cnt, value) ==
  Quantify(start .. start + cnt - 1, LAMBDA i : bitmap_test(b, i) = value)
bitmap_contains(b, start, cnt, value) ==
  \E i \in start .. start + cnt - 1 : bitmap_test(b, i) = value

\* Mutant: the last position is never tried.
bitmap_scanShort(b, start, cnt, value) ==
  LET fits == {i \in start .. bit_cnt : i + cnt < bit_cnt /\ ~bitmap_contains(b, i, cnt, ~value)}
  IN IF fits = {} THEN BITMAP_ERROR ELSE Min(fits)

bitmap_scan(b, start, cnt, value) ==
  LET last == bit_cnt - cnt
      fits == {i \in start .. last : ~bitmap_contains(b, i, cnt, ~value)}
  IN IF cnt > bit_cnt \/ fits = {} THEN BITMAP_ERROR ELSE Min(fits)

\* bitmap_create: malloc leaves anything in the words, then every bit is reset.
BitmapInit ==
  /\ \E w \in Words : bits = bitmap_set_multiple(w, 0, bit_cnt, FALSE)
  /\ file = [i \in 0 .. elem_cnt - 1 |-> 0]
  /\ call = NULL /\ ret = 0

\* The calls the assertions allow.  A group of no bits is only looked for from
\* 0, as all callers do (free_map_allocate for an empty file, palloc, swap):
\* from elsewhere the code returns START, its comment says 0.
Calls ==
  LET Ranged(ops, cnts) == [op : ops, start : 0 .. bit_cnt, cnt : cnts, value : BOOLEAN]
  IN {c \in Ranged({"set_multiple", "count"}, 0 .. bit_cnt) : c.start + c.cnt <= bit_cnt}
     \cup {c \in Ranged({"scan_and_flip"}, 0 .. bit_cnt + 1) : c.cnt = 0 => c.start = 0}
     \cup [op : {"flip"}, start : 0 .. bit_cnt - 1] \cup [op : {"read", "write"}]
Call == call = NULL /\ call' \in Calls /\ UNCHANGED <<bits, file, ret>>
Op(op) == call # NULL /\ call.op = op /\ call' = NULL

set_multiple ==
  /\ Op("set_multiple")
  /\ bits' = bitmap_set_multiple(bits, call.start, call.cnt, call.value)
  /\ UNCHANGED <<file, ret>>
flip == Op("flip") /\ bits' = bitmap_flip(bits, call.start) /\ UNCHANGED <<file, ret>>
count ==
  Op("count") /\ ret' = bitmap_count(bits, call.start, call.cnt, call.value) /\ UNCHANGED <<bits, file>>

bitmap_scan_and_flip ==
  /\ Op("scan_and_flip")
  /\ LET idx == bitmap_scan(bits, call.start, call.cnt, call.value)
     IN /\ ret' = idx
        /\ bits' = IF idx = BITMAP_ERROR THEN bits
                   ELSE bitmap_set_multiple(bits, idx, call.cnt, ~call.value)
  /\ UNCHANGED file

bitmap_write == Op("write") /\ file' = bits /\ UNCHANGED <<bits, ret>>

bitmap_read ==
  /\ Op("read")
  /\ bits' = IF bit_cnt = 0 THEN bits ELSE [file EXCEPT ![elem_cnt - 1] = @ % last_mask]
  /\ UNCHANGED <<file, ret>>

BitmapNext == Call \/ set_multiple \/ flip \/ count \/ bitmap_scan_and_flip \/ bitmap_write \/ bitmap_read

BitmapSpec == BitmapInit /\ [][BitmapNext]_bitmapVars
-----------------------------------------------------------------------------
Bits(b) == {i \in 0 .. bit_cnt - 1 : bitmap_test(b, i)}
Sets == INSTANCE BitSet WITH set <- Bits(bits), stored <- Bits(file)

\* Whatever is in the unused bits of the last word, and across word borders,
\* every operation does to the bits, and returns, what the abstract set does.
ImplementsSet == Sets!BitSetSpec
=============================================================================
