----------------------------- MODULE FrameTable -----------------------------
(***************************************************************************)
(* User frames: the frame table of vm/frame.c, the pages that              *)
(* load_segment, setup_stack, load_page and grow_stack install in a page   *)
(* directory, and what process exit does with them.                        *)
(*                                                                         *)
(* A frame table entry's page_ptr is never set, so whether its page counts *)
(* as accessed is anything.  Eviction returns the entry it chose, not its  *)
(* frame, and its caller reads the file, or puts zeroes, over that entry.  *)
(* What the kernel does from there on, or after a null pointer, is its     *)
(* own destruction, sooner or later a panic: no step of the model follows. *)
(***************************************************************************)
EXTENDS Naturals, Sequences, FiniteSets, Kernel

CONSTANTS Process,
          VPage,       \* pages of a process
          Frame,       \* frames of the user pool, numbered
          MaxEntries,  \* bound: entries of the frame table
          ENTRY        \* a pointer to a frame table entry

ASSUME FrameTableAssumption == ENTRY # NULL /\ Frame \cap {ENTRY, NULL} = {}

VARIABLES live,        \* processes on all_list
          free_frames, \* frames free in the user pool
          frame_table, \* sequence of entries [frame, owner]
          mapped,      \* [Process -> [VPage -> what is mapped there, or NULL]]
          got,         \* [Process -> what vm_get_frame has for its caller, or NULL]
          listing,     \* processes between palloc_get_page and the frame table
          fault        \* the kernel has panicked, or written over its own memory

ftVars == <<live, free_frames, frame_table, mapped, got, listing, fault>>
Unmapped == [v \in VPage |-> NULL]
Entry(f, p) == [frame |-> f, owner |-> p]
RemoveEntryAt(i) == [j \in 1 .. Len(frame_table) - 1 |-> frame_table[IF j < i THEN j ELSE j + 1]]

FrameTableInit ==
  /\ live = Process
  /\ free_frames = Frame
  /\ frame_table = <<>>
  /\ mapped = [p \in Process |-> Unmapped]
  /\ got = [p \in Process |-> NULL]
  /\ listing = {}
  /\ fault = FALSE

\* The scan for a page to evict: entries before the i-th count as accessed; a
\* dead owner is a null pointer.  The chosen entry goes to the back, or stays
\* in front when every page was accessed.  In an empty table the list's tail is
\* taken for an entry, and written to.
next_frame_table_entry_to_clear(p) ==
  \/ frame_table = <<>> /\ fault' = TRUE /\ UNCHANGED <<frame_table, got>>
  \/ \E i \in 1 .. Len(frame_table) :
       \/ /\ frame_table[i].owner = NULL
          /\ \A j \in 1 .. i - 1 : frame_table[j].owner # NULL
          /\ fault' = TRUE
          /\ UNCHANGED <<frame_table, got>>
       \/ /\ \A j \in 1 .. i : frame_table[j].owner # NULL
          /\ LET e == Entry(frame_table[i].frame, p) IN
               /\ frame_table' \in {Append(RemoveEntryAt(i), e)} \cup
                    (IF i = 1 /\ \A j \in DOMAIN frame_table : frame_table[j].owner # NULL
                     THEN {[frame_table EXCEPT ![1] = e]} ELSE {})
               /\ got' = [got EXCEPT ![p] = ENTRY]
          /\ UNCHANGED fault

\* vm_get_frame up to the frame table's lock, or to the end of an eviction.
vm_get_frame(p) ==
  /\ p \in live /\ got[p] = NULL
  /\ Len(frame_table) + Cardinality(listing) < MaxEntries
  /\ \/ \E f \in free_frames :
          /\ \A g \in free_frames : f <= g
          /\ free_frames' = free_frames \ {f}
          /\ got' = [got EXCEPT ![p] = f]
          /\ listing' = listing \cup {p}
          /\ UNCHANGED <<frame_table, fault>>
     \/ /\ free_frames = {}
        /\ next_frame_table_entry_to_clear(p)
        /\ UNCHANGED <<free_frames, listing>>
  /\ UNCHANGED <<live, mapped>>

\* The new frame is listed; without memory for the entry an assertion fails.
add_frame_table_entry(p) ==
  /\ p \in listing
  /\ \/ /\ frame_table' = Append(frame_table, Entry(got[p], p))
        /\ listing' = listing \ {p}
        /\ UNCHANGED fault
     \/ fault' = TRUE /\ UNCHANGED <<frame_table, listing>>
  /\ UNCHANGED <<live, free_frames, mapped, got>>

\* The caller of an eviction fills what it takes for a page: file_read and
\* memset go over the entry and what lies behind it.  For a page of the stack
\* an assertion of pagedir_set_page fails instead.
FillEntry(p) ==
  /\ got[p] = ENTRY
  /\ fault' = TRUE
  /\ UNCHANGED <<live, free_frames, frame_table, mapped, got, listing>>

\* vm_free_frame drops the first entry for the frame.
RemoveEntry(f) ==
  LET at == {i \in DOMAIN frame_table : frame_table[i].frame = f}
  IN IF at = {} THEN frame_table
     ELSE RemoveEntryAt(CHOOSE i \in at : \A j \in at : i <= j)

\* The file could not be read or the page not mapped: vm_free_frame.
LoadFails(p) ==
  /\ got[p] \in Frame /\ p \notin listing
  /\ frame_table' = RemoveEntry(got[p])
  /\ free_frames' = free_frames \cup {got[p]}
  /\ got' = [got EXCEPT ![p] = NULL]
  /\ UNCHANGED <<live, mapped, listing, fault>>

\* Mutant: install_page does not ask whether the page is mapped already.
CanInstallAlways(p, v) == TRUE

CanInstall(p, v) == mapped[p][v] = NULL

install_page(p, v) ==
  /\ got[p] \in Frame /\ p \notin listing
  /\ CanInstall(p, v)
  /\ mapped' = [mapped EXCEPT ![p][v] = got[p]]
  /\ got' = [got EXCEPT ![p] = NULL]
  /\ UNCHANGED <<live, free_frames, frame_table, listing, fault>>

\* process_exit: pagedir_destroy gives the frames back to the pool; the frame
\* table keeps its entries, whose owner is then nobody: no tid is used twice.
process_exit(p) ==
  /\ p \in live /\ got[p] = NULL
  /\ free_frames' = free_frames \cup ({mapped[p][v] : v \in VPage} \cap Frame)
  /\ mapped' = [mapped EXCEPT ![p] = Unmapped]
  /\ live' = live \ {p}
  /\ frame_table' = [i \in DOMAIN frame_table |->
       IF frame_table[i].owner = p THEN Entry(frame_table[i].frame, NULL) ELSE frame_table[i]]
  /\ UNCHANGED <<got, listing, fault>>

\* A process is started in the place of one that is gone.
Start(p) ==
  /\ p \notin live
  /\ live' = live \cup {p}
  /\ UNCHANGED <<free_frames, frame_table, mapped, got, listing, fault>>

FrameTableNext ==
  /\ ~fault
  /\ \E p \in Process :
       \/ vm_get_frame(p) \/ add_frame_table_entry(p) \/ FillEntry(p) \/ LoadFails(p)
       \/ process_exit(p) \/ Start(p)
       \/ \E v \in VPage : install_page(p, v)

FrameTableSpec == FrameTableInit /\ [][FrameTableNext]_ftVars
-----------------------------------------------------------------------------
Uses(p) == {got[p]} \cup {mapped[p][v] : v \in VPage}

\* Every frame in use has one user, one page of one process or one caller of
\* vm_get_frame, and none is free or lost, whatever exits, failed loads and
\* evictions come between (vm_get_frame, vm_free_frame, pagedir_destroy).
FramesOwnedOnce ==
  /\ \A p \in Process : Uses(p) \cap free_frames = {}
  /\ \A p, q \in Process : p # q => Uses(p) \cap Uses(q) \cap Frame = {}
  /\ \A p \in Process, v, w \in VPage :
       mapped[p][v] # NULL => got[p] # mapped[p][v] /\ (v # w => mapped[p][v] # mapped[p][w])
  /\ Frame \subseteq (UNION {Uses(p) : p \in Process}) \cup free_frames

\* Until the first eviction, every frame in use is in the frame table under the
\* name of its user, but for one that vm_get_frame is about to list, also after
\* exits that left their entries behind (add_frame_table_entry, vm_free_frame).
UsedFramesListed ==
  fault \/ (\E p \in Process : got[p] = ENTRY) \/
  \A p \in Process : \A f \in Uses(p) \cap Frame :
    \/ p \in listing /\ f = got[p]
    \/ \E i \in DOMAIN frame_table : frame_table[i] = Entry(f, p)

\* vm/frame.c: every user frame is free or has one user, and is in the frame
\* table under its user's name until an eviction.
FramesSound == FramesOwnedOnce /\ UsedFramesListed
=============================================================================
