-------------------------------- MODULE Load --------------------------------
(***************************************************************************)
(* load() of userprog/process.c: from an ELF executable to the pages of a  *)
(* process.  Byte k of the file is the number k + 1, so that 0 is what is  *)
(* zeroed.  Memory can run out at every allocation: malloc's null pointer  *)
(* is not looked at and fails strlcpy's assertion, and without a frame     *)
(* vm_get_frame evicts, which ends the kernel (FrameTable).                *)
(***************************************************************************)
EXTENDS Naturals, Sequences, FiniteSets, Vaddr

CONSTANTS FileLen,
          Phdrs       \* executables: sequences of program headers

\* The fields that load() looks at.  DYNAMIC stands for the types it refuses,
\* IGNORED for those it skips, and SHORT is a header that cannot be read.
Header ==
  [type : {"LOAD", "IGNORED", "DYNAMIC", "SHORT"}, offset : Addr, vaddr : Addr,
   filesz : Addr, memsz : Addr, writable : BOOLEAN]

ASSUME LoadAssumption == FileLen \in Nat /\ \A x \in Phdrs : x \in Seq(Header)

VARIABLES step,       \* where load() is; "panic" and "exit(-1)" are ends inside it
          phdrs,      \* the executable's program headers
          ph,         \* the one being looked at
          seg,        \* load_segment's variables: [upage, pos, read_bytes, zero_bytes, writable]
          pages,      \* mapped pages: [page addresses -> [data, writable]]
          frames,     \* frames taken and not given back
          file,       \* "none", "open" or "exec"
          frees,      \* how often each copy of the command line has been freed
          leaked,     \* blocks of the heap nobody points to any more
          success
loadVars == <<step, phdrs, ph, seg, pages, frames, file, frees, leaked, success>>

NoSeg == [upage |-> 0, pos |-> 0, read_bytes |-> 0, zero_bytes |-> 0, writable |-> FALSE]
NoPages == [p \in {} |-> NoSeg]
Min2(a, b) == IF a < b THEN a ELSE b
Copy == {"cmdline_cp", "cmdline_cp_2"}
ROUND_UP(n) == ((n + PGSIZE - 1) \div PGSIZE) * PGSIZE

LoadInit ==
  /\ phdrs \in Phdrs
  /\ step = "start" /\ ph = 1 /\ seg = NoSeg /\ pages = NoPages /\ frames = 0
  /\ file = "none" /\ frees = [c \in Copy |-> 0] /\ leaked = 0 /\ success = FALSE

free(c) == frees' = [frees EXCEPT ![c] = @ + 1]

\* The copies of the command line and the page directory.
Prepare ==
  /\ step = "start" /\ step' \in {"open", "done", "panic"}
  /\ UNCHANGED <<phdrs, ph, seg, pages, frames, file, frees, leaked, success>>

\* filesys_open; without the file cmdline_cp is freed here as well.
Open ==
  /\ step = "open"
  /\ \/ step' = "phdr" /\ file' = "open" /\ UNCHANGED frees
     \/ step' = "done" /\ file' = "open" /\ UNCHANGED frees   \* not an ELF header
     \/ step' = "done" /\ free("cmdline_cp") /\ UNCHANGED file
  /\ UNCHANGED <<phdrs, ph, seg, pages, frames, leaked, success>>

validate_segment(p) ==
  /\ p.offset % PGSIZE = p.vaddr % PGSIZE /\ p.offset <= FileLen
  /\ p.memsz >= p.filesz /\ p.memsz # 0
  /\ is_user_vaddr(p.vaddr) /\ is_user_vaddr(Plus(p.vaddr, p.memsz))
  /\ Plus(p.vaddr, p.memsz) >= p.vaddr
  /\ p.vaddr >= PGSIZE

\* Mutant: the bytes before the segment in its first page are forgotten.
SegmentShort(p) ==
  LET end == ROUND_UP((p.vaddr % PGSIZE) + p.memsz)
      read == p.filesz
  IN [upage |-> p.vaddr - (p.vaddr % PGSIZE), pos |-> p.offset - (p.offset % PGSIZE),
      read_bytes |-> read, zero_bytes |-> end - read, writable |-> p.writable]

\* What load() asks load_segment for.
Segment(p) ==
  LET end == ROUND_UP((p.vaddr % PGSIZE) + p.memsz)
      read == IF p.filesz > 0 THEN (p.vaddr % PGSIZE) + p.filesz ELSE 0
  IN [upage |-> p.vaddr - (p.vaddr % PGSIZE), pos |-> p.offset - (p.offset % PGSIZE),
      read_bytes |-> read, zero_bytes |-> end - read, writable |-> p.writable]

\* The next program header; reading it can fail.
Phdr ==
  /\ step = "phdr"
  /\ \/ ph > Len(phdrs) /\ step' = "stack" /\ UNCHANGED <<ph, seg>>
     \/ ph <= Len(phdrs) /\ phdrs[ph].type = "IGNORED" /\ ph' = ph + 1 /\ UNCHANGED <<step, seg>>
     \/ ph <= Len(phdrs) /\ phdrs[ph].type \in {"DYNAMIC", "SHORT"} /\ step' = "done" /\ UNCHANGED <<ph, seg>>
     \/ ph <= Len(phdrs) /\ phdrs[ph].type = "LOAD"
        /\ IF validate_segment(phdrs[ph])
           THEN ph' = ph + 1 /\ seg' = Segment(phdrs[ph]) /\ step' = "segment"
           ELSE step' = "done" /\ UNCHANGED <<ph, seg>>
  /\ UNCHANGED <<phdrs, pages, frames, file, frees, leaked, success>>

\* install_page: not on a page that is mapped, and not without a page table.
install(upage, page) ==
  /\ upage \notin DOMAIN pages
  /\ pages' = [p \in DOMAIN pages \cup {upage} |-> IF p = upage THEN page ELSE pages[p]]

\* vm_free_frame on the frame just taken.
GivesBack == UNCHANGED frames

\* One turn of load_segment's loop, or its end.
load_segment ==
  /\ step = "segment"
  /\ LET n == Min2(seg.read_bytes, PGSIZE)
         data == [k \in 0 .. PGSIZE - 1 |-> IF k < n THEN seg.pos + k + 1 ELSE 0]
     IN \/ /\ seg.read_bytes = 0 /\ seg.zero_bytes = 0
           /\ step' = "phdr" /\ UNCHANGED <<seg, pages, frames>>
        \/ /\ seg.read_bytes > 0 \/ seg.zero_bytes > 0
           /\ \/ step' = "panic" /\ UNCHANGED <<seg, pages, frames>>      \* no frame
              \/ step' = "done" /\ GivesBack /\ UNCHANGED <<seg, pages>>   \* short read, not installed
              \/ /\ seg.pos + n <= FileLen \/ n = 0
                 /\ install(seg.upage, [data |-> data, writable |-> seg.writable])
                 /\ frames' = frames + 1
                 /\ seg' = [upage |-> seg.upage + PGSIZE, pos |-> seg.pos + n, read_bytes |-> seg.read_bytes - n,
                            zero_bytes |-> seg.zero_bytes - (PGSIZE - n), writable |-> seg.writable]
                 /\ UNCHANGED step
  /\ UNCHANGED <<phdrs, ph, file, frees, leaked, success>>

\* setup_stack, but for what it puts on the stack (Argv).  Its own copy of the
\* command line is never freed.  A null argv is a fault at address NULL, which
\* ends the process.
setup_stack ==
  /\ step = "stack"
  /\ \/ step' = "panic" /\ UNCHANGED <<pages, frames, leaked, success>>
     \/ step' = "done" /\ leaked' = leaked + 1 /\ GivesBack /\ UNCHANGED <<pages, success>>
     \/ /\ install(PHYS_BASE - PGSIZE, [data |-> [k \in 0 .. PGSIZE - 1 |-> 0], writable |-> TRUE])
        /\ frames' = frames + 1 /\ leaked' = leaked + 1
        /\ \/ step' = "done" /\ success' = TRUE
           \/ step' \in {"panic", "exit(-1)"} /\ UNCHANGED success
  /\ UNCHANGED <<phdrs, ph, seg, file, frees>>

\* Where load() always ends.
Done ==
  /\ step = "done" /\ step' = "returned"
  /\ frees' = [c \in Copy |-> frees[c] + 1]
  /\ file' = IF success THEN "exec" ELSE "none"
  /\ UNCHANGED <<phdrs, ph, seg, pages, frames, leaked, success>>

Returned == step \in {"returned", "panic", "exit(-1)"} /\ UNCHANGED loadVars

LoadNext == Prepare \/ Open \/ Phdr \/ load_segment \/ setup_stack \/ Done \/ Returned

LoadSpec == LoadInit /\ [][LoadNext]_loadVars
-----------------------------------------------------------------------------
LoadedByte(a) == pages[a - (a % PGSIZE)].data[a % PGSIZE]

\* After a successful load each segment is in memory as its header says, the
\* part from the file and the zeroed part, writable if asked for, every mapped
\* page is a user page but the first, and the stack page is there.
LoadedAsAsked ==
  step = "returned" /\ success =>
    /\ \A n \in DOMAIN phdrs : phdrs[n].type = "LOAD" =>
         LET p == phdrs[n]
         IN \A k \in 0 .. p.memsz - 1 :
              LET a == p.vaddr + k
              IN /\ a - (a % PGSIZE) \in DOMAIN pages /\ pages[a - (a % PGSIZE)].writable = p.writable
                 /\ LoadedByte(a) = IF k < p.filesz THEN p.offset + k + 1 ELSE 0
    /\ \A a \in DOMAIN pages : a >= PGSIZE /\ a + PGSIZE <= PHYS_BASE
    /\ PHYS_BASE - PGSIZE \in DOMAIN pages

\* malloc.c of free: "Frees block P, which must have been previously allocated
\* with malloc()": no copy of the command line is freed a second time.  (load()
\* does that if there is no such file.)
FreedOnce == \A c \in Copy : frees[c] <= 1

\* However load() returns, every frame it took is mapped, where process_exit
\* finds it, or given back, the executable is open exactly if it is running,
\* and both copies of the command line are freed, once each unless the file
\* could not be opened.  One block of the heap is lost with each program that
\* runs, setup_stack's copy, and never more than that.
LoadAccounts ==
  step = "returned" =>
    /\ frames = Cardinality(DOMAIN pages)
    /\ (file = "exec" <=> success) /\ file # "open"
    /\ frees["cmdline_cp_2"] = 1 /\ frees["cmdline_cp"] \in {1, 2}
    /\ frees["cmdline_cp"] = 2 => ph = 1 /\ DOMAIN pages = {} /\ ~success
    /\ leaked \in {0, 1} /\ (success => leaked = 1)

\* load(): a program is in memory as its headers say, and whether it is or not,
\* its frames, its file and its copies of the command line are accounted for.
ProgramLoaded == LoadedAsAsked /\ LoadAccounts
=============================================================================
