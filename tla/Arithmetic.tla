----------------------------- MODULE Arithmetic -----------------------------
(***************************************************************************)
(* The division routines of lib/arithmetic.c with words of W bits and      *)
(* double words of 2W bits, W a power of two (32 in the code).  A          *)
(* behaviour is one call; operands are double words as unsigned numbers.   *)
(***************************************************************************)
EXTENDS Integers

CONSTANT W

VARIABLES n, d,      \* the operands
          op, trapped, result
arithVars == <<n, d, op, trapped, result>>

B == 2 ^ W
BB == 2 ^ (2 * W)
Signed(x, modulus) == IF x % modulus >= modulus \div 2 THEN (x % modulus) - modulus ELSE x % modulus
Abs(x) == IF x < 0 THEN -x ELSE x

\* The DIVL instruction: #DE when the quotient has more than W bits.
DivlTraps(x, y) == y = 0 \/ x \div y >= B
divl(x, y) == (x \div y) % B

\* Leading zeros of the word x, by halves.
NlzFrom[k \in 0 .. W, x \in 0 .. B - 1] ==
  IF k = 0 THEN 0
  ELSE IF x < 2 ^ (W - k) THEN k + NlzFrom[k \div 2, (x * 2 ^ k) % B] ELSE NlzFrom[k \div 2, x]
nlz(x) == NlzFrom[W \div 2, x]

\* Mutant: the estimate is taken for the quotient.
AdjustedNot(q, x, y) == q

\* The estimate q of x / y may be one too large.
Adjusted(q, x, y) == IF (x - (q - 1) * y) % BB < y THEN (q - 1) % BB ELSE q

\* udiv64's quotient, and whether divl traps on the way.
udiv64(x, y) ==
  LET x1 == x \div B
      s == nlz(y \div B)
      y1 == ((y * 2 ^ s) % BB) \div B
  IN IF y < B THEN [trap |-> DivlTraps(B * (x1 % y) + (x % B), y),
                    q |-> (divl(B * (x1 % y) + (x % B), y) + B * (x1 \div y)) % BB]
     ELSE IF x < y THEN [trap |-> FALSE, q |-> 0]
     ELSE [trap |-> DivlTraps(x \div 2, y1),
           q |-> Adjusted(divl(x \div 2, y1) \div 2 ^ (W - 1 - s), x, y)]

sdiv64(x, y) ==
  LET u == udiv64(Abs(Signed(x, BB)), Abs(Signed(y, BB)))
  IN [trap |-> u.trap, q |-> IF (Signed(x, BB) < 0) = (Signed(y, BB) < 0) THEN Signed(u.q, BB) ELSE Signed(-u.q, BB)]

\* The remainders are returned as words.
umod64(x, y) == (x - y * udiv64(x, y).q) % B
smod64(x, y) == Signed((Signed(x, BB) - Signed(y, BB) * sdiv64(x, y).q) % BB, B)

ArithInit ==
  /\ n \in 0 .. BB - 1 /\ d \in 1 .. BB - 1
  /\ op \in {"__udivdi3", "__umoddi3", "__divdi3", "__moddi3"}
  /\ op \in {"__divdi3", "__moddi3"} => ~(Signed(n, BB) = -(BB \div 2) /\ Signed(d, BB) = -1)   \* overflow
  /\ trapped = FALSE /\ result = BB          \* no call returns BB

Divide ==
  /\ trapped' = IF op \in {"__udivdi3", "__umoddi3"} THEN udiv64(n, d).trap ELSE sdiv64(n, d).trap
  /\ result' = CASE op = "__udivdi3" -> udiv64(n, d).q
                 [] op = "__umoddi3" -> umod64(n, d)
                 [] op = "__divdi3" -> sdiv64(n, d).q
                 [] op = "__moddi3" -> smod64(n, d)
  /\ UNCHANGED <<n, d, op>>

ArithSpec == ArithInit /\ [][Divide]_arithVars
-----------------------------------------------------------------------------
\* q and r are the quotient, rounded towards zero, and remainder of x by y.
IsQuotient(q, x, y) == Abs(x - q * y) < Abs(y) /\ (x - q * y # 0 => (x < 0) = (x - q * y < 0))
IsRemainder(r, x, y) == Abs(r) < Abs(y) /\ Abs(x - r) % Abs(y) = 0 /\ (r # 0 => (x < 0) = (r < 0))

\* A step gives the quotient C asks for, or the remainder if the divisor is one
\* the kernel has, which fits an int; and DIVL never traps, as the proof in
\* udiv64's comment says.
Right ==
  /\ ~trapped'
  /\ op = "__udivdi3" => IsQuotient(result', n, d)
  /\ op = "__divdi3" => IsQuotient(result', Signed(n, BB), Signed(d, BB))
  /\ op = "__umoddi3" /\ d < B \div 2 => IsRemainder(result', n, d)
  /\ op = "__moddi3" /\ Abs(Signed(d, BB)) < B \div 2 => IsRemainder(result', Signed(n, BB), Signed(d, BB))
=============================================================================
