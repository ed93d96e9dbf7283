------------------------------ MODULE CString ------------------------------
(***************************************************************************)
(* lib/string.c: memmove byte by byte, strtok_r call by call, and strlcpy. *)
(* Memory is N bytes, the last of them 0; 1 stands for the delimiters,     *)
(* other numbers for other characters.  strlcat has no caller and is left  *)
(* out.                                                                    *)
(***************************************************************************)
EXTENDS Integers, Sequences, FiniteSets

CONSTANTS N, Chars, MaxSize

VARIABLES mem, before,     \* memory, and as it was before the call
          op,              \* the function, "" before and after
          dst, src, size,  \* its arguments, advanced as the code does
          args,            \* the arguments as given
          ret,             \* what the last call returned
          save, tokens     \* *save_ptr and the tokens returned so far
stringVars == <<mem, before, op, dst, src, size, args, ret, save, tokens>>

Bytes == 1 .. N
StringInit ==
  /\ mem \in {m \in [Bytes -> Chars] : m[N] = 0} /\ before = mem
  /\ op = "" /\ dst = 1 /\ src = 1 /\ size = 0 /\ args = <<1, 1, 0>>
  /\ ret = <<>> /\ save = 0 /\ tokens = <<>>

Fresh == op = "" /\ ret = <<>>
Strlen(m, s) == (CHOOSE e \in s .. N : m[e] = 0 /\ \A k \in s .. e - 1 : m[k] # 0) - s

\* Mutant: always upwards.
BackwardsNever(d, s) == FALSE

Backwards(d, s) == d >= s

\* memmove: to the end of both blocks first, if it goes down.
memmove(d, s, n) ==
  /\ Fresh /\ d + n - 1 <= N /\ s + n - 1 <= N
  /\ op' = IF Backwards(d, s) THEN "down" ELSE "up"
  /\ dst' = (IF Backwards(d, s) THEN d + n ELSE d) /\ src' = (IF Backwards(d, s) THEN s + n ELSE s)
  /\ size' = n /\ args' = <<d, s, n>>
  /\ UNCHANGED <<mem, before, ret, save, tokens>>

CopyByte ==
  /\ op \in {"up", "down"} /\ size > 0 /\ size' = size - 1
  /\ LET to == IF op = "up" THEN dst ELSE dst - 1
         from == IF op = "up" THEN src ELSE src - 1
     IN /\ mem' = [mem EXCEPT ![to] = mem[from]]
        /\ dst' = (IF op = "up" THEN dst + 1 ELSE to) /\ src' = (IF op = "up" THEN src + 1 ELSE from)
  /\ UNCHANGED <<before, op, args, ret, save, tokens>>

MoveReturns ==
  /\ op \in {"up", "down"} /\ size = 0
  /\ op' = "" /\ ret' = <<"memmove", dst>>
  /\ UNCHANGED <<mem, before, dst, src, size, args, save, tokens>>

\* The first byte from s on that is, or is not, a delimiter or the end.
FirstAt(s, C) == CHOOSE e \in s .. N : mem[e] \in C /\ \A k \in s .. e - 1 : mem[k] \notin C

After(e) == IF mem[e] # 0 THEN e + 1 ELSE e

\* A call of strtok_r, the first with the string at 1, the others with NULL.
strtok_r ==
  /\ Fresh \/ op = "tokens"
  /\ LET from == IF op = "" THEN 1 ELSE save
         token == FirstAt(from, Chars \ {1})
         end == FirstAt(token, {0, 1})
     IN IF mem[token] = 0
        THEN save' = token /\ op' = "" /\ ret' = <<"strtok_r", 0>> /\ UNCHANGED <<mem, tokens>>
        ELSE /\ mem' = [mem EXCEPT ![end] = 0] /\ save' = After(end)
             /\ tokens' = Append(tokens, token) /\ op' = "tokens" /\ ret' = <<"strtok_r", token>>
  /\ UNCHANGED <<before, dst, src, size, args>>

Room(n) == n - 1

\* strlcpy of the string at s to a buffer of n bytes at 1 that ends before s.
strlcpy(s, n) ==
  /\ Fresh /\ n < s
  /\ LET cnt == IF Strlen(mem, s) < Room(n) THEN Strlen(mem, s) ELSE Room(n)
     IN mem' = IF n > 0
               THEN [k \in Bytes |-> IF k <= cnt THEN mem[s + k - 1] ELSE IF k = cnt + 1 THEN 0 ELSE mem[k]]
               ELSE mem
  /\ args' = <<1, s, n>>
  /\ ret' = <<"strlcpy", Strlen(mem, s)>>
  /\ UNCHANGED <<before, op, dst, src, size, save, tokens>>

Returned == op = "" /\ ret # <<>> /\ UNCHANGED stringVars

StringNext ==
  \/ CopyByte \/ MoveReturns \/ strtok_r \/ Returned
  \/ \E d, s \in Bytes, n \in 0 .. MaxSize : memmove(d, s, n)
  \/ \E s \in Bytes, n \in 0 .. MaxSize : strlcpy(s, n)

StringSpec == StringInit /\ [][StringNext]_stringVars
-----------------------------------------------------------------------------
Answered(f) == op = "" /\ ret # <<>> /\ ret[1] = f

\* memmove copies the block as it was, however the two overlap, and returns
\* DST if it copied downwards or nothing.  (After a copy upwards the code
\* returns the end of the block; its comment says DST.  No caller looks.)
MoveRight ==
  Answered("memmove") =>
    /\ mem = [k \in Bytes |-> IF k \in args[1] .. args[1] + args[3] - 1 THEN before[args[2] + k - args[1]] ELSE before[k]]
    /\ args[1] >= args[2] \/ args[3] = 0 => ret[2] = args[1]

\* strtok_r returns the words of the string, each once, in order and followed
\* by a null byte, and changes nothing but delimiters after words.
TokensAreWords ==
  LET len == Strlen(before, 1)
      Starts == {k \in 1 .. len : before[k] # 1 /\ (k = 1 \/ before[k - 1] = 1)}
      EndOf(k) == CHOOSE e \in k .. len + 1 : before[e] \in {0, 1} /\ \A j \in k .. e - 1 : before[j] \notin {0, 1}
  IN Answered("strtok_r") =>
       /\ {tokens[k] : k \in DOMAIN tokens} = Starts
       /\ \A k \in DOMAIN tokens : k > 1 => tokens[k - 1] < tokens[k]
       /\ mem = [k \in Bytes |-> IF k \in {EndOf(j) : j \in Starts} THEN 0 ELSE before[k]]

\* strlcpy writes inside the buffer only, leaves there the first SIZE - 1
\* characters of the string and a terminator unless SIZE is 0, and returns the
\* length of the whole string.
BoundedStrings ==
  Answered("strlcpy") =>
    LET len == Strlen(before, args[2])
        kept == IF len < args[3] THEN len ELSE args[3] - 1
    IN /\ ret[2] = len
       /\ \A k \in Bytes : k > args[3] => mem[k] = before[k]
       /\ args[3] > 0 => /\ Strlen(mem, 1) = kept
                        /\ \A k \in 1 .. kept : mem[k] = before[args[2] + k - 1]
=============================================================================
