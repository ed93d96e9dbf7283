----------------------------- MODULE MCMachine ------------------------------
(***************************************************************************)
(* Small instances of the machine-level parts, the memory allocators and   *)
(* the kernel's library: Interrupt, Serial, Boot, Palloc, Malloc, Bitmap,  *)
(* List, ListSort, Hash, Arithmetic and CString.  They share no state, so  *)
(* that no step of one can matter to another: a behaviour runs one of      *)
(* them, the `subject', and the run covers the behaviours of all.          *)
(* Interrupt, Serial, Palloc and List have their own variables, which rest *)
(* when another part is the subject; v1, v2 and so on are those of the     *)
(* others.                                                                 *)
(***************************************************************************)
EXTENDS Interrupt, Serial, Palloc, List

CONSTANT BITMAP_ERROR

VARIABLES subject, v1, v2, v3, v4, v5, v6, v7, v8, v9, v10, v11

\* Options of every kind, devices of the right and of other types, missing
\* ones, an action whose argument is the name of another, and one cut short.
Option(name, value) == [name |-> name, value |-> value]
Disk(name, type) == [name |-> name, type |-> type]
BO == INSTANCE Boot WITH
  Options <- {Option(n, NULL) : n \in {"-h", "-q", "-r", "-f", "-mlfqs", "-x", "-rs", "-filesys"}}
             \cup {Option("-rs", "s1"), Option("-filesys", "hdb"), Option("-swap", "hdc")},
  Written <- {<<"run", "t">>, <<"extract">>, <<"cat", "ls">>},
  Trailing <- {<<>>, <<"rm">>, <<"t">>},
  MaxOptions <- 2, MaxActions <- 2, Clock <- "now",
  DiskLists <- {<<Disk("hda", "filesys"), Disk("hdb", "filesys"), Disk("hdc", "swap"), Disk("hdd", "scratch")>>,
                <<Disk("hdb", "swap"), Disk("hdc", "filesys")>>,
                <<Disk("hdb", "filesys")>>, <<Disk("hdb", "swap")>>},
  asked <- v1, disks <- v2, argv <- v3, pc <- v4, how <- v5, seed <- v6, format <- v7,
  bdev_name <- v8, role <- v9, executed <- v10

MA == INSTANCE Malloc WITH
  PageCnt <- 3, PGSIZE <- 20, HDR <- 8, MINSIZE <- 4, SIZE_MOD <- 128,
  Sizes <- {4, 5, 13, 105, 127}, Products <- {<<2, 2>>, <<12, 12>>},
  used <- v1, arena <- v2, free_list <- v3, live <- v4

\* Two words, the second with one bit of the bitmap and one that is unused.
BM == INSTANCE Bitmap WITH
  bit_cnt <- 3, ELEM_BITS <- 2, bits <- v1, file <- v2, call <- v3, ret <- v4

LS == INSTANCE ListSort WITH
  Key <- {1, 2, 3}, MaxLen <- 6,
  op <- v1, input <- v2, list <- v3, duplicates <- v4, a0 <- v5, a1b0 <- v6,
  b1 <- v7, output_run_cnt <- v8, e <- v9, best <- v10, pc <- v11

\* Four keys, two of which collide whatever the number of buckets, and two
\* elements with one key.
HashOf(key) == IF key = 4 THEN 1 ELSE key
HA == INSTANCE Hash WITH
  Element <- {<<1, 1>>, <<1, 2>>, <<2, 1>>, <<3, 1>>, <<4, 1>>}, hash <- HashOf,
  MinBuckets <- 1, BEST_ELEMS_PER_BUCKET <- 1,
  elem_cnt <- v1, buckets <- v2, it <- v3, visited <- v4, answer <- v5

\* All pairs of 8-bit numbers.
AR == INSTANCE Arithmetic WITH
  W <- 4, n <- v1, d <- v2, op <- v3, trapped <- v4, result <- v5

ST == INSTANCE CString WITH
  N <- 6, Chars <- {0, 1, 2}, MaxSize <- 4,
  mem <- v1, before <- v2, op <- v3, dst <- v4, src <- v5, size <- v6,
  args <- v7, ret <- v8, save <- v9, tokens <- v10

-----------------------------------------------------------------------------
\* The variables from the n-th on are not used.
Blank11 == v11 = 0
Blank6 == v6 = 0 /\ v7 = 0 /\ v8 = 0 /\ v9 = 0 /\ v10 = 0 /\ Blank11
Blank5 == v5 = 0 /\ Blank6
Blank1 == v1 = 0 /\ v2 = 0 /\ v3 = 0 /\ v4 = 0 /\ Blank5
from6 == <<v6, v7, v8, v9, v10, v11>>
from5 == <<v5, from6>>
from1 == <<v1, v2, v3, v4, from5>>
ownVars == <<intrVars, serialVars, pallocVars, listVars>>
vars == <<ownVars, subject, from1>>

MCInit ==
  /\ \/ subject \in {"interrupt", "serial", "palloc", "list"} /\ Blank1
     \/ subject = "boot" /\ BO!BootInit /\ Blank11
     \/ subject = "malloc" /\ MA!MallocInit /\ Blank5
     \/ subject = "bitmap" /\ BM!BitmapInit /\ Blank5
     \/ subject = "list_sort" /\ LS!ListSortInit
     \/ subject = "hash" /\ HA!HashInit /\ Blank6
     \/ subject = "arithmetic" /\ AR!ArithInit /\ Blank6
     \/ subject = "string" /\ ST!StringInit /\ Blank11
  /\ subject # "interrupt" => current = CHOOSE t \in Thread : TRUE
  /\ IntrInit /\ SerialInit /\ PallocInit /\ ListInit

MCNext ==
  \/ subject = "interrupt" /\ IntrNext /\ UNCHANGED <<serialVars, pallocVars, listVars, subject, from1>>
  \/ subject = "serial" /\ SerialNext /\ UNCHANGED <<intrVars, pallocVars, listVars, subject, from1>>
  \/ subject = "palloc" /\ PallocNext /\ UNCHANGED <<intrVars, serialVars, listVars, subject, from1>>
  \/ subject = "list" /\ ListNext /\ UNCHANGED <<intrVars, serialVars, pallocVars, subject, from1>>
  \/ /\ \/ subject = "boot" /\ BO!BootNext /\ UNCHANGED v11
        \/ subject = "malloc" /\ MA!MallocNext /\ UNCHANGED from5
        \/ subject = "bitmap" /\ BM!BitmapNext /\ UNCHANGED from5
        \/ subject = "list_sort" /\ LS!ListSortNext
        \/ subject = "hash" /\ HA!HashNext /\ UNCHANGED from6
        \/ subject = "arithmetic" /\ AR!Divide /\ UNCHANGED from6
        \/ subject = "string" /\ ST!StringNext /\ UNCHANGED v11
     /\ UNCHANGED <<ownVars, subject>>

MCSpec == MCInit /\ [][MCNext]_vars

-----------------------------------------------------------------------------
\* init.c: the actions of the command line are executed in the order written,
\* each with its own arguments, up to the first thing that is not a complete
\* action or fails; the devices are the ones named, or the first of their type;
\* and the machine stops as the last of the options says.
BootAsAsked ==
  subject = "boot" => BO!ActionsAsWritten /\ BO!DevicesAsAsked /\ BO!EndsAsAsked

\* threads/malloc.c: live blocks lie in allocated pages, apart from each other,
\* from arena headers and from free blocks; every block of an arena is live or
\* on the free list, once, and the arena's count says so; an unused arena goes
\* back to palloc; and a block has the bytes that were asked for, if their
\* number does not wrap.
HeapSound ==
  subject = "malloc" => MA!BlocksDisjoint /\ MA!ArenasConsistent /\ MA!AtLeastSize

\* lib/kernel/bitmap.c: whatever is in the unused bits of the last word, and
\* across word borders, every operation does to the bits, and returns, what
\* the abstract set of module BitSet does.
BitmapIsSet ==
  /\ subject = "bitmap" => BM!Sets!BitSetInit
  /\ [][subject = "bitmap" => [BM!Sets!BitSetNext]_(BM!Sets!bitSetVars)]_vars

\* lib/kernel/list.c: list_sort is a stable sort that loses and doubles no
\* element and merges sorted runs only; list_insert_ordered, list_unique,
\* list_max and list_min do what their comments say of equal elements.
ListAlgorithmsRight ==
  subject = "list_sort" => LS!Sorted /\ LS!RunsSorted /\ LS!OthersRight

\* lib/kernel/hash.c: the table is the set of elements of module Dict, through
\* growing, shrinking, failures to do either, and iterations.
HashIsDict ==
  /\ subject = "hash" => HA!Dict!DictInit
  /\ [][subject = "hash" => [HA!Dict!DictNext]_(HA!Dict!dictVars)]_vars

\* lib/arithmetic.c: 64-bit division gives the quotient C asks for, and the
\* right remainder for divisors that fit an int; DIVL never traps, as the proof
\* in udiv64's comment says.
DivisionRight == [][subject = "arithmetic" => AR!Right]_vars

\* lib/string.c: memmove copies a block as it was, however the two overlap;
\* strtok_r returns each word of a string once, in order, and changes only
\* the delimiters after words; strlcpy stays inside its buffer and leaves a
\* terminated beginning of the string.
StringsRight ==
  subject = "string" => ST!MoveRight /\ ST!TokensAreWords /\ ST!BoundedStrings
=============================================================================
