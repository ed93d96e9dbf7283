-------------------------------- MODULE Argv --------------------------------
(***************************************************************************)
(* What setup_stack() of userprog/process.c puts on a new process's stack, *)
(* byte by byte.  Character k of word w is the tuple <<"char", w, k>>, and *)
(* byte k of a stored 4-byte value v the tuple <<"word", v, k>>.           *)
(***************************************************************************)
EXTENDS Integers, Sequences

CONSTANTS PHYS_BASE, PGSIZE,
          Commands        \* command lines: sequences of word lengths

VARIABLES words, pc, esp, argv, i, stack
argvVars == <<words, pc, esp, argv, i, stack>>

argc == Len(words)

ArgvInit ==
  /\ words \in Commands
  /\ pc = "words" /\ esp = PHYS_BASE /\ argv = <<>> /\ i = 1
  /\ stack = [a \in PHYS_BASE - PGSIZE .. PHYS_BASE - 1 |-> <<"word", 0, a % 4>>]

\* memcpy of a value to *esp after moving it down.
Push(v) ==
  /\ esp' = esp - 4
  /\ stack' = [a \in DOMAIN stack |-> IF a \in esp - 4 .. esp - 1 THEN <<"word", v, a - (esp - 4)>> ELSE stack[a]]

\* Mutant: no room for the terminating null.
PushedSizeBare(n) == n

PushedSize(n) == n + 1

PushWord ==
  /\ pc = "words" /\ i <= argc
  /\ LET n == PushedSize(words[i])
     IN /\ esp' = esp - n
        /\ stack' = [a \in DOMAIN stack |-> IF a \in esp - n .. esp - n + words[i] - 1 THEN <<"char", i, a - (esp - n)>>
                                            ELSE IF a = esp - n + words[i] THEN <<"nul">> ELSE stack[a]]
        /\ argv' = Append(argv, esp - n)
  /\ i' = i + 1 /\ UNCHANGED <<words, pc>>

\* argv[argc] = 0 and the padding.
Pad ==
  /\ pc = "words" /\ i > argc
  /\ argv' = Append(argv, 0) /\ i' = argc + 1 /\ pc' = "argv"
  /\ esp' = esp - (esp % 4)
  /\ stack' = [a \in DOMAIN stack |-> IF a \in esp - (esp % 4) .. esp - 1 THEN <<"word", 0, a % 4>> ELSE stack[a]]
  /\ UNCHANGED words

PushPointer ==
  /\ pc = "argv"
  /\ IF i > 0 THEN Push(argv[i]) /\ i' = i - 1 /\ UNCHANGED pc
     ELSE Push(esp) /\ pc' = "argc" /\ UNCHANGED i     \* argv itself
  /\ UNCHANGED <<words, argv>>

PushArgc == pc = "argc" /\ Push(argc) /\ pc' = "return" /\ UNCHANGED <<words, argv, i>>

PushReturn == pc = "return" /\ Push(0) /\ pc' = "done" /\ UNCHANGED <<words, argv, i>>

Stopped == pc = "done" /\ UNCHANGED argvVars

ArgvNext == PushWord \/ Pad \/ PushPointer \/ PushArgc \/ PushReturn \/ Stopped

ArgvSpec == ArgvInit /\ [][ArgvNext]_argvVars
-----------------------------------------------------------------------------
Is(a, b) == a \in DOMAIN stack /\ stack[a] = b
Holds(a, v) == \A k \in 0 .. 3 : Is(a + k, <<"word", v, k>>)

\* main(argc, argv), called with this stack, finds its arguments: esp is on a
\* word boundary in the stack page, above it come the return address, argc and
\* a pointer to argc + 1 pointers, the last null and the others to the words
\* in order, each with its terminating null.
MainFindsArguments ==
  pc = "done" =>
    /\ esp % 4 = 0 /\ esp >= PHYS_BASE - PGSIZE
    /\ Holds(esp, 0) /\ Holds(esp + 4, argc)
    /\ \E base \in DOMAIN stack :
         /\ Holds(esp + 8, base) /\ Holds(base + 4 * argc, 0)
         /\ \A n \in 1 .. argc : \E s \in DOMAIN stack :
              /\ Holds(base + 4 * (n - 1), s)
              /\ \A k \in 0 .. words[n] - 1 : Is(s + k, <<"char", n, k>>)
              /\ Is(s + words[n], <<"nul">>)
=============================================================================
