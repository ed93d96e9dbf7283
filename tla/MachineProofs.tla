--------------------------- MODULE MachineProofs ----------------------------
(***************************************************************************)
(* Proofs about the machine and its drivers: the frames of any processes,  *)
(* the transfers of the disk driver and the detection of disks, and the    *)
(* interrupts of any threads and lines.                                    *)
(***************************************************************************)
EXTENDS FrameTable, Ide, Interrupt, Integers, TLAPS

(***************************************************************************)
(* vm/frame.c.                                                             *)
(***************************************************************************)
\* A non-empty set of numbers has a least one, as LeastHolds shows.
Least == \A S \in SUBSET Nat : S # {} => \E m \in S : \A t \in S : m <= t

FrameTableTypeOK ==
  /\ live \subseteq Process /\ free_frames \subseteq Frame
  /\ frame_table \in Seq([frame : Frame, owner : Process \cup {NULL}])
  /\ mapped \in [Process -> [VPage -> Frame \cup {NULL}]]
  /\ got \in [Process -> Frame \cup {NULL, ENTRY}]
  /\ listing \subseteq Process /\ \A p \in listing : got[p] \in Frame

\* FramesSound with its sets of uses written out.
FramesApart ==
  /\ \A p \in Process : got[p] \notin free_frames
  /\ \A p \in Process, v \in VPage : mapped[p][v] \notin free_frames
  /\ \A p, q \in Process : got[p] \in Frame /\ got[p] = got[q] => p = q
  /\ \A p, q \in Process, v \in VPage : got[p] \in Frame => got[p] # mapped[q][v]
  /\ \A p, q \in Process, v, w \in VPage :
       mapped[p][v] \in Frame /\ mapped[p][v] = mapped[q][w] => p = q /\ v = w
  /\ \A f \in Frame : \/ f \in free_frames
                      \/ \E p \in Process : f = got[p]
                      \/ \E p \in Process, v \in VPage : f = mapped[p][v]

Listed(f, p) == \E i \in DOMAIN frame_table : frame_table[i] = Entry(f, p)
UsersListed ==
  /\ \A p \in Process \ listing : got[p] \in Frame => Listed(got[p], p)
  /\ \A p \in Process, v \in VPage : mapped[p][v] \in Frame => Listed(mapped[p][v], p)
Evicted == fault \/ \E p \in Process : got[p] = ENTRY

FrameTableInv == FrameTableTypeOK /\ FramesApart /\ (Evicted \/ UsersListed)

\* The inductive invariant of the frame table implies the property.
LEMMA FrameTableInvSound == FrameTableInv => FramesSound
<1> SUFFICES ASSUME FrameTableInv PROVE FramesSound
  BY Zenon
<1>1. ASSUME NEW p \in Process, NEW x \in Uses(p)
      PROVE  x = got[p] \/ \E v \in VPage : x = mapped[p][v]
  BY <1>1, Zenon DEF Uses
<1>2. ASSUME NEW p \in Process
      PROVE  got[p] \in Uses(p) /\ \A v \in VPage : mapped[p][v] \in Uses(p)
  BY Zenon DEF Uses
<1>a. FramesApart
  BY Zenon DEF FrameTableInv
<1>3. FramesOwnedOnce
  <2>1. ASSUME NEW p \in Process, NEW x \in Uses(p) PROVE x \notin free_frames
    BY <1>1, <1>a DEF FramesApart
  <2>2. ASSUME NEW p \in Process, NEW q \in Process, p # q,
               NEW x \in Uses(p), x \in Uses(q), x \in Frame
        PROVE  FALSE
    <3>1. CASE x = got[p]
      <4>1. CASE x = got[q]
        <5>1. got[p] \in Frame /\ got[p] = got[q]
          BY <2>2, <3>1, <4>1, Zenon
        <5> QED
          BY <1>a, <2>2, <5>1, Zenon DEF FramesApart
      <4>2. CASE \E v \in VPage : x = mapped[q][v]
        BY <1>a, <2>2, <3>1, <4>2, Zenon DEF FramesApart
      <4> QED
        BY <1>1, <2>2, <4>1, <4>2, Zenon
    <3>2. CASE \E v \in VPage : x = mapped[p][v]
      <4>1. CASE x = got[q]
        BY <1>a, <2>2, <3>2, <4>1, Zenon DEF FramesApart
      <4>2. CASE \E v \in VPage : x = mapped[q][v]
        <5>1. \E v, w \in VPage : mapped[p][v] \in Frame /\ mapped[p][v] = mapped[q][w]
          BY <2>2, <3>2, <4>2, Zenon
        <5> QED
          BY <1>a, <2>2, <5>1, ZenonT(40) DEF FramesApart
      <4> QED
        BY <1>1, <2>2, <4>1, <4>2, Zenon
    <3> QED
      BY <1>1, <2>2, <3>1, <3>2, Zenon
  <2>3. ASSUME NEW p \in Process, NEW v \in VPage, NEW w \in VPage, mapped[p][v] # NULL
        PROVE  got[p] # mapped[p][v] /\ (v # w => mapped[p][v] # mapped[p][w])
    <3>1. mapped[p][v] \in Frame
      BY <2>3, Zenon DEF FrameTableInv, FrameTableTypeOK
    <3> QED
      BY <1>a, <3>1 DEF FramesApart
  <2>4. ASSUME NEW f \in Frame PROVE f \in (UNION {Uses(p) : p \in Process}) \cup free_frames
    <3>1. f \in free_frames \/ \E p \in Process : f \in Uses(p)
      BY <1>a, <1>2, ZenonT(40) DEF FramesApart
    <3> QED
      BY <3>1, Zenon
  <2> QED
    BY <2>1, <2>2, <2>3, <2>4, Zenon DEF FramesOwnedOnce
<1>4. UsedFramesListed
  <2>1. SUFFICES ASSUME ~Evicted, NEW p \in Process, NEW f \in Uses(p) \cap Frame
                 PROVE  (p \in listing /\ f = got[p]) \/ Listed(f, p)
    BY Zenon DEF UsedFramesListed, Evicted, Listed
  <2>2. UsersListed
    BY <2>1, Zenon DEF FrameTableInv
  <2> QED
    BY <1>1, <2>2, Zenon DEF UsersListed
<1> QED
  BY <1>3, <1>4, Zenon DEF FramesSound

\* At first no frame is in use.
LEMMA FrameTableInitInv == FrameTableInit => FrameTableInv
<1> SUFFICES ASSUME FrameTableInit PROVE FrameTableInv
  BY Zenon
<1> USE FrameTableAssumption DEF FrameTableInit, Unmapped
<1>1. FrameTableTypeOK
  BY DEF FrameTableTypeOK
<1>2. FramesApart
  BY Zenon DEF FramesApart
<1>3. UsersListed
  BY Zenon DEF UsersListed
<1> QED
  BY <1>1, <1>2, <1>3, Zenon DEF FrameTableInv

\* An entry taken out of the frame table: the others stay.
LEMMA RemovedEntry ==
  ASSUME FrameTableTypeOK, NEW i \in DOMAIN frame_table
  PROVE  LET s == RemoveEntryAt(i)
         IN /\ s \in Seq([frame : Frame, owner : Process \cup {NULL}])
            /\ \A j \in DOMAIN frame_table \ {i} : \E m \in DOMAIN s : s[m] = frame_table[j]
<1> DEFINE T == [frame : Frame, owner : Process \cup {NULL}]
           s == RemoveEntryAt(i)
           n == Len(frame_table)
<1>1. frame_table \in Seq(T) /\ n \in Nat /\ i \in 1 .. n /\ DOMAIN frame_table = 1 .. n
  BY DEF FrameTableTypeOK
<1> HIDE DEF T
<1>2. s \in Seq(T) /\ Len(s) = n - 1
  BY <1>1 DEF RemoveEntryAt
<1>3. \A m \in 1 .. n - 1 : s[m] = IF m < i THEN frame_table[m] ELSE frame_table[m + 1]
  BY Zenon DEF RemoveEntryAt
<1>4. ASSUME NEW j \in DOMAIN frame_table \ {i} PROVE \E m \in DOMAIN s : s[m] = frame_table[j]
  <2>1. DOMAIN s = 1 .. n - 1
    BY <1>1, <1>2
  <2> HIDE DEF s, n
  <2>2. CASE j < i
    BY <1>1, <1>3, <1>4, <2>1, <2>2
  <2>3. CASE j > i
    <3>1. j - 1 \in 1 .. n - 1 /\ ~(j - 1 < i) /\ j - 1 + 1 = j
      BY <1>1, <2>3
    <3> QED
      BY <1>3, <2>1, <3>1, Zenon
  <2> QED
    BY <1>1, <1>4, <2>2, <2>3
<1> QED
  BY <1>2, <1>4, Zenon DEF T

\* vm_get_frame takes the lowest free frame, or chooses an entry to evict.
LEMMA GetFrameKeeps ==
  ASSUME FrameTableInv, NEW p \in Process, vm_get_frame(p)
  PROVE  FrameTableInv'
<1>t. FrameTableTypeOK /\ FramesApart /\ (Evicted \/ UsersListed)
  BY Zenon DEF FrameTableInv
<1>0. got[p] = NULL /\ live' = live /\ mapped' = mapped
  BY Zenon DEF vm_get_frame
<1>p. p \notin listing
  BY <1>t, <1>0, FrameTableAssumption, Zenon DEF FrameTableTypeOK
<1>1. ASSUME NEW f \in free_frames, free_frames' = free_frames \ {f},
             got' = [got EXCEPT ![p] = f], listing' = listing \cup {p},
             UNCHANGED <<frame_table, fault>>
      PROVE  FrameTableInv'
  <2>1. f \in Frame
    BY <1>t, Zenon DEF FrameTableTypeOK
  <2>2. \A q \in Process : got'[q] = IF q = p THEN f ELSE got[q]
    BY <1>t, <1>1, Zenon DEF FrameTableTypeOK
  <2>3. FrameTableTypeOK'
    <3>1. listing' \subseteq Process /\ \A q \in listing' : got'[q] \in Frame
      BY <1>t, <1>1, <2>1, <2>2, Zenon DEF FrameTableTypeOK
    <3>2. got' \in [Process -> Frame \cup {NULL, ENTRY}]
      BY <1>t, <1>1, <2>1, Zenon DEF FrameTableTypeOK
    <3> QED
      BY <1>t, <1>0, <1>1, <2>1, <3>1, <3>2, Zenon DEF FrameTableTypeOK
  <2>4. FramesApart'
    BY FrameTableAssumption, <1>t, <1>0, <1>1, <2>1, <2>2 DEF FramesApart
  <2>7. Evicted => Evicted'
    BY <1>0, <1>1, <2>2, FrameTableAssumption, Zenon DEF Evicted
  <2>8. UsersListed => UsersListed'
    BY <1>0, <1>1, <2>2, Zenon DEF UsersListed, Listed
  <2> QED
    BY <1>t, <2>3, <2>4, <2>7, <2>8, Zenon DEF FrameTableInv
<1>2. ASSUME UNCHANGED <<free_frames, listing>>, next_frame_table_entry_to_clear(p) PROVE FrameTableInv'
  <2>1. \/ fault' = TRUE /\ UNCHANGED <<frame_table, got>>
        \/ \E i \in 1 .. Len(frame_table) :
             /\ frame_table' \in {Append(RemoveEntryAt(i), Entry(frame_table[i].frame, p)),
                                 [frame_table EXCEPT ![1] = Entry(frame_table[i].frame, p)]}
             /\ got' = [got EXCEPT ![p] = ENTRY]
    BY <1>2, Zenon DEF next_frame_table_entry_to_clear
  <2>2. CASE fault' = TRUE /\ UNCHANGED <<frame_table, got>>
    <3>1. FrameTableTypeOK'
      BY <1>t, <1>0, <1>2, <2>2, Zenon DEF FrameTableTypeOK
    <3>2. FramesApart'
      BY <1>t, <1>0, <1>2, <2>2 DEF FramesApart
    <3> QED
      BY <2>2, <3>1, <3>2, Zenon DEF FrameTableInv, Evicted
  <2>3. ASSUME NEW i \in 1 .. Len(frame_table),
               frame_table' \in {Append(RemoveEntryAt(i), Entry(frame_table[i].frame, p)),
                               [frame_table EXCEPT ![1] = Entry(frame_table[i].frame, p)]},
               got' = [got EXCEPT ![p] = ENTRY]
        PROVE  FrameTableInv'
    <3> DEFINE T == [frame : Frame, owner : Process \cup {NULL}]
               e == Entry(frame_table[i].frame, p)
               r == RemoveEntryAt(i)
    <3>1. frame_table \in Seq(T) /\ i \in DOMAIN frame_table
      BY <1>t, SMTT(30) DEF FrameTableTypeOK
    <3>2. e \in T
      <4>1. frame_table[i] \in T
        <5> HIDE DEF T
        <5> QED
          BY <3>1
      <4> QED
        BY <4>1, Zenon DEF Entry
    <3>3. r \in Seq(T)
      BY <1>t, <3>1, RemovedEntry, Zenon
    <3>4. frame_table' \in {Append(r, e), [frame_table EXCEPT ![1] = e]}
      BY <2>3, Zenon
    <3> HIDE DEF T, e, r
    <3>5. frame_table' \in Seq(T)
      <4>1. Append(r, e) \in Seq(T)
        BY <3>2, <3>3
      <4>2. [frame_table EXCEPT ![1] = e] \in Seq(T)
        BY <3>1, <3>2
      <4> QED
        BY <3>4, <4>1, <4>2, Zenon
    <3>7. \A q \in Process : got'[q] = IF q = p THEN ENTRY ELSE got[q]
      BY <1>t, <2>3, SMTT(30) DEF FrameTableTypeOK
    <3>6. FrameTableTypeOK'
      <4>1. \A q \in listing' : got'[q] \in Frame
        BY <1>t, <1>2, <1>p, <3>7, Zenon DEF FrameTableTypeOK
      <4> QED
        BY <1>t, <1>0, <1>2, <2>3, <3>5, <4>1, Zenon DEF FrameTableTypeOK, T
    <3>8. FramesApart'
      <4>1. ENTRY \notin Frame /\ NULL \notin Frame /\ ENTRY \notin free_frames
        BY FrameTableAssumption, <1>t, Zenon DEF FrameTableTypeOK
      <4> QED
        BY <1>t, <1>0, <1>2, <3>7, <4>1, SMTT(30) DEF FramesApart
    <3>9. Evicted'
      BY <3>7, Zenon DEF Evicted
    <3> QED
      BY <3>6, <3>8, <3>9, Zenon DEF FrameTableInv
  <2> QED
    BY <2>1, <2>2, <2>3, Zenon
<1> QED
  BY <1>1, <1>2, Zenon DEF vm_get_frame

\* add_frame_table_entry lists the frame under its user.
LEMMA AddEntryKeeps ==
  ASSUME FrameTableInv, NEW p \in Process, add_frame_table_entry(p)
  PROVE  FrameTableInv'
<1>t. FrameTableTypeOK /\ FramesApart /\ (Evicted \/ UsersListed)
  BY Zenon DEF FrameTableInv
<1>0. p \in listing /\ got[p] \in Frame /\ UNCHANGED <<live, free_frames, mapped, got>>
  BY <1>t, Zenon DEF add_frame_table_entry, FrameTableTypeOK
<1>a. FramesApart'
  BY <1>t, <1>0, SMTT(30) DEF FramesApart
<1>1. CASE frame_table' = Append(frame_table, Entry(got[p], p)) /\ listing' = listing \ {p} /\ UNCHANGED fault
  <2> DEFINE T == [frame : Frame, owner : Process \cup {NULL}]
             e == Entry(got[p], p)
             n == Len(frame_table) + 1
  <2>1. frame_table \in Seq(T) /\ e \in T /\ frame_table' = Append(frame_table, e)
    BY <1>t, <1>0, <1>1, Zenon DEF FrameTableTypeOK, Entry
  <2>2. /\ frame_table' \in Seq(T)
        /\ n \in DOMAIN frame_table' /\ frame_table'[n] = e
        /\ \A j \in DOMAIN frame_table : j \in DOMAIN frame_table' /\ frame_table'[j] = frame_table[j]
    <3> HIDE DEF T, e
    <3> QED
      BY <2>1
  <2>3. FrameTableTypeOK'
    BY <1>t, <1>0, <1>1, <2>2, Zenon DEF FrameTableTypeOK
  <2>4. Listed(got[p], p)' /\ \A g, q : Listed(g, q) => Listed(g, q)'
    BY <1>0, <2>2, Zenon DEF Listed
  <2>5. UsersListed => UsersListed'
    BY <1>0, <1>1, <2>4, Zenon DEF UsersListed
  <2>6. Evicted => Evicted'
    BY <1>0, <1>1, Zenon DEF Evicted
  <2> QED
    BY <1>t, <1>a, <2>3, <2>5, <2>6, Zenon DEF FrameTableInv
<1>2. CASE fault' = TRUE /\ UNCHANGED <<frame_table, listing>>
  <2>1. FrameTableTypeOK'
    BY <1>t, <1>0, <1>2, Zenon DEF FrameTableTypeOK
  <2> QED
    BY <1>a, <1>2, <2>1, Zenon DEF FrameTableInv, Evicted
<1> QED
  BY <1>1, <1>2, Zenon DEF add_frame_table_entry

\* What an eviction gave out ends the run.
LEMMA FillKeeps ==
  ASSUME FrameTableInv, NEW p \in Process, FillEntry(p)
  PROVE  FrameTableInv'
<1>1. fault' = TRUE /\ UNCHANGED <<live, free_frames, frame_table, mapped, got, listing>>
  BY Zenon DEF FillEntry
<1>2. FrameTableTypeOK'
  BY <1>1, Zenon DEF FrameTableInv, FrameTableTypeOK
<1>3. FramesApart'
  BY <1>1, SMTT(30) DEF FrameTableInv, FramesApart
<1> QED
  BY <1>1, <1>2, <1>3, Zenon DEF FrameTableInv, Evicted

\* vm_free_frame drops an entry of this frame and no other.
LEMMA RemoveEntryKeeps ==
  ASSUME Least, FrameTableTypeOK, NEW f \in Frame, frame_table' = RemoveEntry(f)
  PROVE  /\ frame_table' \in Seq([frame : Frame, owner : Process \cup {NULL}])
         /\ \A g \in Frame \ {f}, q \in Process : Listed(g, q) => Listed(g, q)'
<1> DEFINE hits == {i \in DOMAIN frame_table : frame_table[i].frame = f}
           low == CHOOSE i \in hits : \A j \in hits : i <= j
<1>1. CASE hits = {}
  <2>1. frame_table' = frame_table
    BY <1>1, Zenon DEF RemoveEntry
  <2> QED
    BY <2>1, Zenon DEF FrameTableTypeOK, Listed
<1>2. CASE hits # {}
  <2>1. hits \subseteq Nat
    BY DEF FrameTableTypeOK
  <2>2. low \in hits
    <3>1. \E i \in hits : \A j \in hits : i <= j
      <4> HIDE DEF hits
      <4> QED
        BY <1>2, <2>1, Zenon DEF Least
    <3> QED
      BY <3>1, Zenon
  <2>3. frame_table' = RemoveEntryAt(low)
    BY <1>2, Zenon DEF RemoveEntry
  <2>4. low \in DOMAIN frame_table /\ frame_table[low].frame = f
    BY <2>2, Zenon
  <2> HIDE DEF low
  <2>5. /\ frame_table' \in Seq([frame : Frame, owner : Process \cup {NULL}])
        /\ \A j \in DOMAIN frame_table \ {low} :
             \E m \in DOMAIN frame_table' : frame_table'[m] = frame_table[j]
    BY <2>3, <2>4, RemovedEntry, Zenon
  <2>6. ASSUME NEW g \in Frame \ {f}, NEW q \in Process, Listed(g, q) PROVE Listed(g, q)'
    <3>1. PICK j \in DOMAIN frame_table : frame_table[j] = Entry(g, q)
      BY <2>6, Zenon DEF Listed
    <3>2. j # low
      BY <2>4, <3>1 DEF Entry
    <3> QED
      BY <2>5, <3>1, <3>2, Zenon DEF Listed
  <2> QED
    BY <2>5, <2>6, Zenon
<1> QED
  BY <1>1, <1>2, Zenon

\* A load that fails gives its frame back with vm_free_frame.
LEMMA LoadFailsKeeps ==
  ASSUME Least, FrameTableInv, NEW p \in Process, LoadFails(p)
  PROVE  FrameTableInv'
<1>t. FrameTableTypeOK /\ FramesApart /\ (Evicted \/ UsersListed)
  BY Zenon DEF FrameTableInv
<1>1. /\ got[p] \in Frame /\ p \notin listing /\ free_frames' = free_frames \cup {got[p]}
      /\ frame_table' = RemoveEntry(got[p]) /\ got' = [got EXCEPT ![p] = NULL]
      /\ UNCHANGED <<live, mapped, listing, fault>>
  BY Zenon DEF LoadFails
<1>2. /\ frame_table' \in Seq([frame : Frame, owner : Process \cup {NULL}])
      /\ \A g \in Frame \ {got[p]}, q \in Process : Listed(g, q) => Listed(g, q)'
  BY <1>t, <1>1, RemoveEntryKeeps, Zenon
<1>3. \A q \in Process : got'[q] = IF q = p THEN NULL ELSE got[q]
  BY <1>t, <1>1, Zenon DEF FrameTableTypeOK
<1>4. FrameTableTypeOK'
  <2>1. \A q \in listing' : got'[q] \in Frame
    BY <1>t, <1>1, <1>3, Zenon DEF FrameTableTypeOK
  <2> QED
    BY <1>t, <1>1, <1>2, <2>1, SMTT(30) DEF FrameTableTypeOK
<1>5. FramesApart'
  <2>1. NULL \notin Frame /\ NULL \notin free_frames
    BY FrameTableAssumption, <1>t, Zenon DEF FrameTableTypeOK
  <2> QED
    BY <1>t, <1>1, <1>3, <2>1, SMTT(30) DEF FramesApart
<1>6. Evicted => Evicted'
  BY <1>1, <1>3, FrameTableAssumption, Zenon DEF Evicted
<1>7. UsersListed => UsersListed'
  <2>1. \A q \in Process : got'[q] \in Frame => got'[q] = got[q] /\ got[q] \in Frame \ {got[p]}
    BY FrameTableAssumption, <1>t, <1>1, <1>3 DEF FramesApart
  <2>2. \A q \in Process, v \in VPage : mapped[q][v] # got[p]
    BY <1>t, <1>1, Zenon DEF FramesApart
  <2> QED
    BY <1>1, <1>2, <2>1, <2>2, SMTT(30) DEF UsersListed
<1> QED
  BY <1>t, <1>4, <1>5, <1>6, <1>7, Zenon DEF FrameTableInv

\* install_page: the frame just got becomes the page's.
LEMMA InstallKeeps ==
  ASSUME FrameTableInv, NEW p \in Process, NEW u \in VPage, install_page(p, u)
  PROVE  FrameTableInv'
<1>t. FrameTableTypeOK /\ FramesApart /\ (Evicted \/ UsersListed)
  BY Zenon DEF FrameTableInv
<1>1. /\ got[p] \in Frame /\ p \notin listing /\ mapped[p][u] = NULL
      /\ mapped' = [mapped EXCEPT ![p][u] = got[p]] /\ got' = [got EXCEPT ![p] = NULL]
      /\ UNCHANGED <<live, free_frames, frame_table, listing, fault>>
  BY Zenon DEF install_page, CanInstall
<1>2. \A q \in Process : got'[q] = IF q = p THEN NULL ELSE got[q]
  BY <1>t, <1>1, Zenon DEF FrameTableTypeOK
<1>3. \A q \in Process, v \in VPage :
        mapped'[q][v] = IF q = p /\ v = u THEN got[p] ELSE mapped[q][v]
  BY <1>t, <1>1, Zenon DEF FrameTableTypeOK
<1>4. FrameTableTypeOK'
  <2>1. mapped' \in [Process -> [VPage -> Frame \cup {NULL}]]
    BY <1>t, <1>1, Zenon DEF FrameTableTypeOK
  <2>2. got' \in [Process -> Frame \cup {NULL, ENTRY}]
    BY <1>t, <1>1, Zenon DEF FrameTableTypeOK
  <2>3. \A q \in listing' : got'[q] \in Frame
    BY <1>t, <1>1, <1>2, Zenon DEF FrameTableTypeOK
  <2> QED
    BY <1>t, <1>1, <2>1, <2>2, <2>3, Zenon DEF FrameTableTypeOK
<1>5. FramesApart'
  <2>1. NULL \notin Frame /\ NULL \notin free_frames
    BY FrameTableAssumption, <1>t, Zenon DEF FrameTableTypeOK
  <2>2. (\A q \in Process : got[q] \notin free_frames)'
    BY <1>t, <1>1, <1>2, <2>1 DEF FramesApart
  <2>3. (\A q \in Process, v \in VPage : mapped[q][v] \notin free_frames)'
    BY <1>t, <1>1, <1>3, SMTT(30) DEF FramesApart
  <2>4. (\A q, r \in Process : got[q] \in Frame /\ got[q] = got[r] => q = r)'
    BY <1>t, <1>2, <2>1, SMTT(30) DEF FramesApart
  <2>5. (\A q, r \in Process, v \in VPage : got[q] \in Frame => got[q] # mapped[r][v])'
    BY <1>t, <1>1, <1>2, <1>3, <2>1 DEF FramesApart
  <2>6. (\A q, r \in Process, v, w \in VPage :
           mapped[q][v] \in Frame /\ mapped[q][v] = mapped[r][w] => q = r /\ v = w)'
    BY <1>t, <1>1, <1>3 DEF FramesApart
  <2>7. (\A f \in Frame : \/ f \in free_frames
                          \/ \E q \in Process : f = got[q]
                          \/ \E q \in Process, v \in VPage : f = mapped[q][v])'
    <3> SUFFICES ASSUME NEW f \in Frame, f \notin free_frames
                 PROVE  \/ \E q \in Process : f = got'[q]
                        \/ \E q \in Process, v \in VPage : f = mapped'[q][v]
      BY <1>1, Zenon
    <3>1. CASE f = got[p]
      BY <1>3, <3>1, Zenon
    <3>2. CASE \E q \in Process : f = got[q] /\ q # p
      BY <1>2, <3>2, Zenon
    <3>3. CASE \E q \in Process, v \in VPage : f = mapped[q][v]
      BY <1>1, <1>3, <2>1, <3>3
    <3> QED
      BY <1>t, <3>1, <3>2, <3>3, Zenon DEF FramesApart
  <2> QED
    BY <2>2, <2>3, <2>4, <2>5, <2>6, <2>7, Zenon DEF FramesApart
<1>6. Evicted => Evicted'
  BY <1>1, <1>2, FrameTableAssumption, Zenon DEF Evicted
<1>7. UsersListed => UsersListed'
  BY <1>1, <1>2, <1>3, FrameTableAssumption, SMTT(30) DEF UsersListed, Listed
<1> QED
  BY <1>t, <1>4, <1>5, <1>6, <1>7, Zenon DEF FrameTableInv

\* process_exit: pagedir_destroy frees the process's frames; their entries stay
\* in the frame table with a dead owner.
LEMMA ExitKeeps ==
  ASSUME FrameTableInv, NEW p \in Process, process_exit(p)
  PROVE  FrameTableInv'
<1>t. FrameTableTypeOK /\ FramesApart /\ (Evicted \/ UsersListed)
  BY Zenon DEF FrameTableInv
<1>1. /\ free_frames' = free_frames \cup ({mapped[p][v] : v \in VPage} \cap Frame)
      /\ mapped' = [mapped EXCEPT ![p] = Unmapped] /\ live' = live \ {p} /\ got[p] = NULL
      /\ frame_table' = [i \in DOMAIN frame_table |->
           IF frame_table[i].owner = p THEN Entry(frame_table[i].frame, NULL) ELSE frame_table[i]]
      /\ UNCHANGED <<got, listing, fault>>
  BY Zenon DEF process_exit
<1>2. \A q \in Process, v \in VPage : mapped'[q][v] = IF q = p THEN NULL ELSE mapped[q][v]
  BY <1>t, <1>1, SMTT(30) DEF FrameTableTypeOK, Unmapped
<1>3. \A f : f \in free_frames' <=> \/ f \in free_frames
                                    \/ f \in Frame /\ \E v \in VPage : f = mapped[p][v]
  BY <1>1, Zenon
<1>n. NULL \notin Frame /\ NULL \notin free_frames
  BY FrameTableAssumption, <1>t, Zenon DEF FrameTableTypeOK
<1>4. FrameTableTypeOK'
  <2> DEFINE T == [frame : Frame, owner : Process \cup {NULL}]
  <2>0. frame_table \in Seq(T)
    BY <1>t, Zenon DEF FrameTableTypeOK
  <2>1. \A i \in DOMAIN frame_table : frame_table[i] \in T
    <3> HIDE DEF T
    <3> QED
      BY <2>0
  <2>2. \A i \in DOMAIN frame_table :
          (IF frame_table[i].owner = p THEN Entry(frame_table[i].frame, NULL)
                                       ELSE frame_table[i]) \in T
    BY <2>1, Zenon DEF Entry
  <2>3. frame_table' \in Seq(T)
    <3> HIDE DEF T
    <3>1. \E n \in Nat : DOMAIN frame_table = 1 .. n
      BY <1>t DEF FrameTableTypeOK
    <3> QED
      BY <1>1, <2>2, <3>1
  <2>4. mapped' \in [Process -> [VPage -> Frame \cup {NULL}]]
    BY <1>t, <1>1, Zenon DEF FrameTableTypeOK, Unmapped
  <2>5. free_frames' \subseteq Frame
    BY <1>t, <1>3, Zenon DEF FrameTableTypeOK
  <2> QED
    BY <1>t, <1>1, <2>3, <2>4, <2>5, Zenon DEF FrameTableTypeOK
<1>5. FramesApart'
  <2>2. (\A q \in Process : got[q] \notin free_frames)'
    <3> SUFFICES ASSUME NEW q \in Process, got[q] \in free_frames' PROVE FALSE
      BY <1>1, SMTT(30)
    <3> QED
      BY <1>t, <1>3, SMTT(30) DEF FramesApart
  <2>3. (\A q \in Process, v \in VPage : mapped[q][v] \notin free_frames)'
    <3> SUFFICES ASSUME NEW q \in Process, NEW v \in VPage, mapped'[q][v] \in free_frames'
                 PROVE  FALSE
      BY Zenon
    <3>1. q # p /\ mapped[q][v] \in free_frames'
      BY <1>2, <1>3, <1>n, SMTT(30)
    <3> QED
      BY <1>t, <1>3, <3>1 DEF FramesApart
  <2>4. (\A q, r \in Process : got[q] \in Frame /\ got[q] = got[r] => q = r)'
    BY <1>t, <1>1, SMTT(30) DEF FramesApart
  <2>5. (\A q, r \in Process, v \in VPage : got[q] \in Frame => got[q] # mapped[r][v])'
    BY <1>t, <1>1, <1>2, <1>n, SMTT(30) DEF FramesApart
  <2>6. (\A q, r \in Process, v, w \in VPage :
           mapped[q][v] \in Frame /\ mapped[q][v] = mapped[r][w] => q = r /\ v = w)'
    <3> SUFFICES ASSUME NEW q \in Process, NEW r \in Process, NEW v \in VPage, NEW w \in VPage,
                        mapped'[q][v] \in Frame, mapped'[q][v] = mapped'[r][w]
                 PROVE  q = r /\ v = w
      BY Zenon
    <3>1. q # p /\ r # p
      BY <1>2, <1>n, Zenon
    <3>2. mapped[q][v] \in Frame /\ mapped[q][v] = mapped[r][w]
      BY <1>2, <3>1, Zenon
    <3> QED
      BY <1>t, <3>2, SMTT(30) DEF FramesApart
  <2>7. (\A f \in Frame : \/ f \in free_frames
                          \/ \E q \in Process : f = got[q]
                          \/ \E q \in Process, v \in VPage : f = mapped[q][v])'
    <3> SUFFICES ASSUME NEW f \in Frame, f \notin free_frames'
                 PROVE  \/ \E q \in Process : f = got[q]
                        \/ \E q \in Process, v \in VPage : f = mapped'[q][v]
      BY <1>1, Zenon
    <3>1. f \notin free_frames /\ \A v \in VPage : f # mapped[p][v]
      BY <1>3, Zenon
    <3>2. \/ \E q \in Process : f = got[q]
          \/ \E q \in Process, v \in VPage : f = mapped[q][v]
      BY <1>t, <3>1, Zenon DEF FramesApart
    <3> QED
      BY <1>2, <3>1, <3>2, SMTT(30)
  <2> QED
    BY <2>2, <2>3, <2>4, <2>5, <2>6, <2>7, Zenon DEF FramesApart
<1>6. Evicted => Evicted'
  BY <1>1, SMTT(30) DEF Evicted
<1>7. UsersListed => UsersListed'
  <2>1. ASSUME NEW f, NEW q \in Process \ {p}, Listed(f, q) PROVE Listed(f, q)'
    <3>1. PICK i \in DOMAIN frame_table : frame_table[i] = Entry(f, q)
      BY <2>1, Zenon DEF Listed
    <3>2. frame_table[i].owner # p
      BY <3>1 DEF Entry
    <3>3. i \in DOMAIN frame_table' /\ frame_table'[i] = Entry(f, q)
      BY <1>1, <3>1, <3>2, SMTT(30)
    <3> QED
      BY <3>3, Zenon DEF Listed
  <2>2. \A q \in Process : got'[q] \in Frame => q # p /\ got[q] \in Frame /\ got'[q] = got[q]
    BY <1>1, <1>n, Zenon
  <2>3. \A q \in Process, v \in VPage :
          mapped'[q][v] \in Frame => q # p /\ mapped[q][v] \in Frame /\ mapped'[q][v] = mapped[q][v]
    BY <1>2, <1>n, Zenon
  <2>4. \A f, q : q \in Process \ {p} /\ Listed(f, q) => Listed(f, q)'
    BY <2>1, SMTT(30)
  <2> QED
    BY <1>1, <2>2, <2>3, <2>4, SMTT(30) DEF UsersListed
<1> QED
  BY <1>t, <1>4, <1>5, <1>6, <1>7, Zenon DEF FrameTableInv

\* Starting a process, and standing still.
LEMMA StartKeeps ==
  ASSUME FrameTableInv, \/ \E p \in Process : Start(p)
                        \/ UNCHANGED ftVars
  PROVE  FrameTableInv'
<1>1. live' \subseteq Process /\ UNCHANGED <<free_frames, frame_table, mapped, got, listing, fault>>
  BY Zenon DEF FrameTableInv, FrameTableTypeOK, Start, ftVars
<1> QED
  BY <1>1 DEF FrameTableInv, FrameTableTypeOK, FramesApart, Evicted, UsersListed, Listed

\* Every step keeps the inductive invariant.
LEMMA FrameTableNextInv ==
  ASSUME Least PROVE FrameTableInv /\ [FrameTableNext]_ftVars => FrameTableInv'
BY GetFrameKeeps, AddEntryKeeps, FillKeeps, LoadFailsKeeps, InstallKeeps, ExitKeeps, StartKeeps, Zenon DEF FrameTableNext

-----------------------------------------------------------------------------
(***************************************************************************)
(* devices/ide.c: transfers.                                               *)
(***************************************************************************)
IdeTypeOK ==
  /\ owner \in Caller \cup {NULL}
  /\ expecting_interrupt \in BOOLEAN /\ irq \in BOOLEAN
  /\ panic \in BOOLEAN /\ faulty \in BOOLEAN
  /\ completion_wait \in Nat
  /\ where \in [Caller -> {"out", "select", "sector", "issue", "complete", "busy", "data", "done"}]
  /\ req \in [Caller -> Call \cup {NULL}]
  /\ regs \in [dev : Device, sec : DiskSector \cup {NULL}]
  /\ dev \in [status : {"idle", "busy", "drq"}, op : {"read", "write", NULL}, dev : Device,
              sec : DiskSector \cup {NULL}, data : Data \cup {NULL}]
  /\ dev.status # "idle" => dev.sec \in DiskSector
  /\ disk \in [Device -> [DiskSector -> Data]]

\* The thread inside the driver is the owner of the channel's lock.
OwnerInside ==
  \A t \in Caller : /\ where[t] # "out" <=> owner = t
                    /\ where[t] # "out" => req[t] \in Call

OnDisk(t) == disk[req[t].dev][req[t].sec]
ForCall(t) == dev.op = req[t].op /\ dev.dev = req[t].dev /\ dev.sec = req[t].sec
Silent == completion_wait = 0 /\ irq = FALSE
Signalled == \/ completion_wait = 0 /\ irq = TRUE
             \/ completion_wait = 1 /\ irq = FALSE
Quiet == Silent /\ dev.status = "idle"

\* Where a call stands, whatever the disk does.
AnyDisk(t) ==
  /\ where[t] = "issue" => regs.dev = req[t].dev /\ regs.sec = req[t].sec
  /\ where[t] = "data" => dev.status = "drq"
  /\ req[t].op = "read" /\ where[t] \in {"complete", "busy", "data"} =>
       /\ dev.status # "idle" => ForCall(t)
       /\ dev.status = "drq" => dev.data = OnDisk(t)
  /\ req[t].op = "read" /\ where[t] = "done" => dev.status = "idle" /\ req[t].data = OnDisk(t)

\* Where a call stands if the disk answers.
GoodDisk(t) ==
  /\ where[t] \in {"select", "sector", "issue", "done"} => Quiet
  /\ where[t] \in {"complete", "busy", "data"} => expecting_interrupt = TRUE
  /\ req[t].op = "read" =>
       /\ where[t] = "complete" => \/ Silent /\ dev.status = "busy"
                                   \/ Signalled /\ dev.status = "drq"
       /\ where[t] \in {"busy", "data"} => Silent /\ dev.status = "drq"
  /\ req[t].op = "write" =>
       /\ where[t] \in {"busy", "data"} =>
            Silent /\ ForCall(t) /\ dev.data = NULL /\ dev.status # "idle"
       /\ where[t] = "complete" =>
            \/ Silent /\ ForCall(t) /\ dev.data = req[t].data /\ dev.status = "busy"
            \/ Signalled /\ OnDisk(t) = req[t].data /\ dev.status = "idle"
       /\ where[t] = "done" => OnDisk(t) = req[t].data

IdeInv ==
  /\ IdeTypeOK /\ OwnerInside
  /\ \A t \in Caller : where[t] # "out" => AnyDisk(t) /\ (faulty = FALSE => GoodDisk(t))
  /\ owner = NULL /\ faulty = FALSE => Quiet

\* The conditions on the thread inside the driver are all there is to show.
LEMMA IdeStays ==
  ASSUME IdeTypeOK', OwnerInside', NEW t \in Caller, owner' = t,
         AnyDisk(t)', faulty' = FALSE => GoodDisk(t)'
  PROVE  IdeInv'
<1>1. owner' # NULL
  BY IdeAssumption, Zenon
<1>2. \A u \in Caller : where'[u] # "out" => u = t
  BY Zenon DEF OwnerInside
<1> QED
  BY <1>1, <1>2, Zenon DEF IdeInv

\* What holds for the thread t that takes a step inside the driver.
LEMMA IdeInside ==
  ASSUME IdeInv, NEW t \in Caller, where[t] # "out"
  PROVE  /\ IdeTypeOK /\ OwnerInside /\ owner = t /\ req[t] \in Call
         /\ AnyDisk(t) /\ (faulty = FALSE => GoodDisk(t))
BY Zenon DEF IdeInv, OwnerInside

\* A step of t that keeps the lock leaves the other threads outside.
LEMMA OwnerStays ==
  ASSUME IdeTypeOK, OwnerInside, NEW t \in Caller, owner = t, owner' = t, NEW to,
         to # "out", where' = [where EXCEPT ![t] = to], req'[t] \in Call
  PROVE  OwnerInside' /\ where'[t] = to
<1>1. where'[t] = to /\ \A u \in Caller \ {t} : where'[u] = where[u]
  BY Zenon DEF IdeTypeOK
<1>2. \A u \in Caller \ {t} : where[u] = "out"
  BY Zenon DEF OwnerInside
<1> QED
  BY <1>1, <1>2, Zenon DEF OwnerInside

\* ide_read and ide_write begin by taking the channel's lock.
LEMMA AcquireKeeps ==
  ASSUME IdeInv, NEW t \in Caller, lock_acquire(t)
  PROVE  IdeInv'
<1>1. PICK c \in Call : req' = [req EXCEPT ![t] = c]
  BY Zenon DEF lock_acquire
<1>2. /\ owner = NULL /\ owner' = t /\ where[t] = "out"
      /\ where' = [where EXCEPT ![t] = "select"]
      /\ UNCHANGED <<expecting_interrupt, completion_wait, regs, dev, irq, disk, panic, faulty>>
  BY Zenon DEF lock_acquire, ChannelFree, Step
<1>t. IdeTypeOK /\ OwnerInside
  BY Zenon DEF IdeInv
<1>3. IdeTypeOK'
  BY <1>t, <1>1, <1>2 DEF IdeTypeOK
<1>4. /\ where'[t] = "select" /\ \A u \in Caller \ {t} : where'[u] = "out"
      /\ req'[t] = c
  <2>1. \A u \in Caller : where[u] = "out"
    BY <1>2, <1>t, IdeAssumption, Zenon DEF OwnerInside
  <2> QED
    BY <1>t, <1>1, <1>2, <2>1, Zenon DEF IdeTypeOK
<1>5. OwnerInside'
  BY <1>2, <1>4, Zenon DEF OwnerInside
<1>6. AnyDisk(t)'
  BY <1>4, Zenon DEF AnyDisk
<1>7. faulty' = FALSE => GoodDisk(t)'
  <2>1. faulty' = FALSE => Quiet'
    BY <1>2, Zenon DEF IdeInv, Quiet, Silent
  <2> QED
    BY <1>4, <2>1, Zenon DEF GoodDisk
<1> QED
  BY <1>2, <1>3, <1>5, <1>6, <1>7, IdeStays, Zenon

\* select_sector sets the registers to the caller's disk and sector.
LEMMA SelectKeeps ==
  ASSUME IdeInv, NEW t \in Caller, select_device_wait(t) \/ select_sector(t)
  PROVE  IdeInv'
<1>1. PICK to \in {"sector", "issue"} :
        /\ where[t] \in {"select", "sector"} /\ where' = [where EXCEPT ![t] = to]
        /\ UNCHANGED <<owner, expecting_interrupt, completion_wait, req, dev, disk, panic, faulty>>
        /\ regs' \in {[regs EXCEPT !.dev = req[t].dev], [dev |-> req[t].dev, sec |-> req[t].sec]}
        /\ to = "issue" => regs' = [dev |-> req[t].dev, sec |-> req[t].sec]
        /\ irq' \in {irq, FALSE}
  BY Zenon DEF select_device_wait, select_device, select_sector, Step
<1>2. /\ IdeTypeOK /\ OwnerInside /\ owner = t /\ req[t] \in Call
      /\ faulty = FALSE => GoodDisk(t)
  BY <1>1, IdeInside, Zenon
<1>3. IdeTypeOK'
  <2>1. regs' \in [dev : Device, sec : DiskSector \cup {NULL}]
    BY <1>1, <1>2 DEF IdeTypeOK, Call
  <2>2. irq' \in BOOLEAN
    BY <1>1, <1>2, Zenon DEF IdeTypeOK
  <2>3. where' \in [Caller -> {"out", "select", "sector", "issue", "complete", "busy", "data", "done"}]
    BY <1>1, <1>2, Zenon DEF IdeTypeOK
  <2> QED
    BY <1>1, <1>2, <2>1, <2>2, <2>3 DEF IdeTypeOK
<1>4. OwnerInside' /\ where'[t] = to
  BY <1>1, <1>2, OwnerStays, Zenon
<1>5. AnyDisk(t)'
  BY <1>1, <1>4 DEF AnyDisk
<1>6. faulty' = FALSE => GoodDisk(t)'
  <2>1. faulty = FALSE => Quiet
    BY <1>1, <1>2, Zenon DEF GoodDisk
  <2>2. faulty' = FALSE => Quiet'
    BY <1>1, <2>1, Zenon DEF Quiet, Silent
  <2> QED
    BY <1>1, <1>4, <2>2, Zenon DEF GoodDisk
<1> QED
  BY <1>1, <1>2, <1>3, <1>4, <1>5, <1>6, IdeStays, Zenon

\* issue_pio_command tells the disk what to do and expects an interrupt.
LEMMA IssueKeeps ==
  ASSUME IdeInv, NEW t \in Caller, issue_pio_command(t)
  PROVE  IdeInv'
<1>1. /\ where[t] = "issue" /\ where' = [where EXCEPT ![t] = AfterIssue(req[t].op)]
      /\ expecting_interrupt' = TRUE
      /\ dev' = [status |-> "busy", op |-> req[t].op, dev |-> regs.dev, sec |-> regs.sec, data |-> NULL]
      /\ UNCHANGED <<owner, completion_wait, req, regs, irq, disk, panic, faulty>>
  BY Zenon DEF issue_pio_command, Step
<1>2. /\ IdeTypeOK /\ OwnerInside /\ owner = t /\ req[t] \in Call
      /\ AnyDisk(t) /\ (faulty = FALSE => GoodDisk(t))
  BY <1>1, IdeInside, Zenon
<1>3. /\ regs.dev = req[t].dev /\ regs.sec = req[t].sec
      /\ req[t].dev \in Device /\ req[t].sec \in DiskSector /\ req[t].op \in {"read", "write"}
  BY <1>1, <1>2, Zenon DEF AnyDisk, Call
<1>4. IdeTypeOK'
  <2>1. where' \in [Caller -> {"out", "select", "sector", "issue", "complete", "busy", "data", "done"}]
    BY <1>1, <1>2, Zenon DEF IdeTypeOK, AfterIssue
  <2>2. /\ dev' \in [status : {"idle", "busy", "drq"}, op : {"read", "write", NULL}, dev : Device,
                     sec : DiskSector \cup {NULL}, data : Data \cup {NULL}]
        /\ dev'.sec \in DiskSector
    BY <1>1, <1>3, Zenon
  <2> QED
    BY <1>1, <1>2, <2>1, <2>2, Zenon DEF IdeTypeOK
<1>5. OwnerInside' /\ where'[t] = AfterIssue(req[t].op)
  <2>1. AfterIssue(req[t].op) # "out"
    BY Zenon DEF AfterIssue
  <2> QED
    BY <1>1, <1>2, <2>1, OwnerStays, Zenon
<1>6. ForCall(t)' /\ dev'.status = "busy" /\ dev'.data = NULL
  BY <1>1, <1>3, Zenon DEF ForCall
<1>7. AnyDisk(t)'
  BY <1>1, <1>5, <1>6 DEF AnyDisk, AfterIssue
<1>8. faulty' = FALSE => GoodDisk(t)'
  <2>1. faulty' = FALSE => Silent'
    BY <1>1, <1>2, Zenon DEF GoodDisk, Quiet, Silent
  <2> QED
    BY <1>1, <1>5, <1>6, <2>1 DEF GoodDisk, AfterIssue
<1> QED
  BY <1>1, <1>2, <1>4, <1>5, <1>7, <1>8, IdeStays, Zenon

\* wait_while_busy returns with the data ready, or with a failure.
LEMMA BusyKeeps ==
  ASSUME IdeInv, NEW t \in Caller, wait_while_busy(t)
  PROVE  IdeInv'
<1>1. /\ where[t] = "busy" /\ (dev.status # "busy" \/ faulty)
      /\ \/ dev.status = "drq" /\ where' = [where EXCEPT ![t] = "data"] /\ panic' = panic
         \/ panic' = TRUE /\ where' = where
      /\ UNCHANGED <<owner, expecting_interrupt, completion_wait, req, regs, dev, irq, disk, faulty>>
  BY Zenon DEF wait_while_busy, HasData, Step
<1>2. /\ IdeTypeOK /\ OwnerInside /\ owner = t /\ req[t] \in Call
      /\ AnyDisk(t) /\ (faulty = FALSE => GoodDisk(t))
  BY <1>1, IdeInside, Zenon
<1>3. IdeTypeOK'
  <2>1. where' \in [Caller -> {"out", "select", "sector", "issue", "complete", "busy", "data", "done"}]
    BY <1>1, <1>2, Zenon DEF IdeTypeOK
  <2>2. panic' \in BOOLEAN
    BY <1>1, <1>2, Zenon DEF IdeTypeOK
  <2> QED
    BY <1>1, <1>2, <2>1, <2>2 DEF IdeTypeOK
<1>4. CASE dev.status = "drq" /\ where' = [where EXCEPT ![t] = "data"]
  <2>1. OwnerInside' /\ where'[t] = "data"
    BY <1>1, <1>2, <1>4, OwnerStays, Zenon
  <2>2. AnyDisk(t)'
    BY <1>1, <1>2, <1>4, <2>1, Zenon DEF AnyDisk, ForCall, OnDisk
  <2>3. faulty' = FALSE => GoodDisk(t)'
    BY <1>1, <1>2, <1>4, <2>1, Zenon DEF GoodDisk, Silent, ForCall
  <2> QED
    BY <1>1, <1>2, <1>3, <2>1, <2>2, <2>3, IdeStays, Zenon
<1>5. CASE where' = where
  <2>1. OwnerInside'
    BY <1>1, <1>2, <1>5, Zenon DEF OwnerInside
  <2>2. AnyDisk(t)'
    BY <1>1, <1>2, <1>5, Zenon DEF AnyDisk, ForCall, OnDisk
  <2>3. faulty' = FALSE => GoodDisk(t)'
    BY <1>1, <1>2, <1>5, Zenon DEF GoodDisk, Silent, ForCall
  <2> QED
    BY <1>1, <1>2, <1>3, <2>1, <2>2, <2>3, IdeStays, Zenon
<1> QED
  BY <1>1, <1>4, <1>5, Zenon

\* input_sector or output_sector moves the caller's data, not another's.
LEMMA MoveKeeps ==
  ASSUME IdeInv, NEW t \in Caller, MoveSector(t)
  PROVE  IdeInv'
<1>1. /\ where[t] = "data" /\ where' = [where EXCEPT ![t] = AfterData(req[t].op)]
      /\ UNCHANGED <<owner, expecting_interrupt, completion_wait, regs, irq, disk, panic, faulty>>
  BY Zenon DEF MoveSector, Step
<1>2. /\ IdeTypeOK /\ OwnerInside /\ owner = t /\ req[t] \in Call
      /\ AnyDisk(t) /\ (faulty = FALSE => GoodDisk(t))
  BY <1>1, IdeInside, Zenon
<1>3. /\ req[t].dev \in Device /\ req[t].sec \in DiskSector /\ req[t].op \in {"read", "write"}
      /\ req[t].data \in Data
  BY <1>2, Zenon DEF Call
<1>w. where' \in [Caller -> {"out", "select", "sector", "issue", "complete", "busy", "data", "done"}]
  BY <1>1, <1>2, Zenon DEF IdeTypeOK, AfterData
<1>4. CASE req[t].op = "read"
  <2> DEFINE c == [req[t] EXCEPT !.data = dev.data]
  <2>1. req' = [req EXCEPT ![t] = c] /\ dev' = NoCommand
    BY <1>4, Zenon DEF MoveSector
  <2>2. dev.data = OnDisk(t) /\ OnDisk(t) \in Data
    BY <1>1, <1>2, <1>3, <1>4 DEF AnyDisk, OnDisk, IdeTypeOK
  <2>3. /\ c \in Call /\ c.op = "read" /\ c.dev = req[t].dev /\ c.sec = req[t].sec
        /\ c.data = OnDisk(t)
    BY <1>2, <1>4, <2>2, Zenon DEF Call
  <2> HIDE DEF c
  <2>4. req' \in [Caller -> Call \cup {NULL}] /\ req'[t] = c
    BY <1>2, <2>1, <2>3, Zenon DEF IdeTypeOK
  <2>5. IdeTypeOK'
    <3>1. /\ dev' \in [status : {"idle", "busy", "drq"}, op : {"read", "write", NULL}, dev : Device,
                       sec : DiskSector \cup {NULL}, data : Data \cup {NULL}]
          /\ dev'.status = "idle"
      BY <2>1, Zenon DEF NoCommand, Device
    <3> QED
      BY <1>1, <1>2, <1>w, <2>4, <3>1, Zenon DEF IdeTypeOK
  <2>6. OwnerInside' /\ where'[t] = "done"
    BY <1>1, <1>2, <1>4, <2>3, <2>4, OwnerStays, Zenon DEF AfterData
  <2>7. dev'.status = "idle"
    BY <2>1, Zenon DEF NoCommand
  <2>8. AnyDisk(t)'
    BY <1>1, <2>3, <2>4, <2>6, <2>7, Zenon DEF AnyDisk, OnDisk
  <2>9. faulty' = FALSE => GoodDisk(t)'
    <3>1. faulty' = FALSE => Silent'
      BY <1>1, <1>2, <1>4, Zenon DEF GoodDisk, Silent
    <3> QED
      BY <2>3, <2>4, <2>6, <2>7, <3>1, Zenon DEF GoodDisk, Quiet
  <2> QED
    BY <1>1, <1>2, <2>5, <2>6, <2>8, <2>9, IdeStays, Zenon
<1>5. CASE req[t].op = "write"
  <2>1. req' = req /\ dev' = [dev EXCEPT !.status = "busy", !.data = req[t].data]
    BY <1>5, Zenon DEF MoveSector
  <2>2. /\ dev'.status = "busy" /\ dev'.data = req[t].data
        /\ dev'.op = dev.op /\ dev'.dev = dev.dev /\ dev'.sec = dev.sec
    BY <1>2, <2>1, Zenon DEF IdeTypeOK
  <2>3. OwnerInside' /\ where'[t] = "complete"
    BY <1>1, <1>2, <1>5, <2>1, OwnerStays, Zenon DEF AfterData
  <2>4. AnyDisk(t)'
    BY <1>5, <2>1, <2>3, Zenon DEF AnyDisk
  <2>5. faulty' = FALSE => GoodDisk(t)'
    <3>1. faulty = FALSE => Silent /\ ForCall(t) /\ expecting_interrupt = TRUE
      BY <1>1, <1>2, <1>5, Zenon DEF GoodDisk
    <3>2. faulty' = FALSE => Silent' /\ ForCall(t)' /\ expecting_interrupt' = TRUE
      BY <1>1, <2>1, <2>2, <3>1, Zenon DEF Silent, ForCall
    <3> QED
      BY <1>5, <2>1, <2>2, <2>3, <3>2, Zenon DEF GoodDisk
  <2>6. IdeTypeOK'
    <3>1. dev.status # "idle"
      BY <1>1, <1>2, Zenon DEF AnyDisk
    <3> QED
      BY <1>1, <1>2, <1>3, <1>w, <2>1, <2>2, <3>1, Zenon DEF IdeTypeOK
  <2> QED
    BY <1>1, <1>2, <2>3, <2>4, <2>5, <2>6, IdeStays, Zenon
<1> QED
  BY <1>3, <1>4, <1>5, Zenon

\* sema_down of completion_wait takes the handler's one signal.
LEMMA DownKeeps ==
  ASSUME IdeInv, NEW t \in Caller, sema_down(t)
  PROVE  IdeInv'
<1> DEFINE to == IF req[t].op = "read" THEN "busy" ELSE "done"
<1>1. /\ where[t] = "complete" /\ where' = [where EXCEPT ![t] = to]
      /\ completion_wait > 0 /\ completion_wait' = completion_wait - 1
      /\ UNCHANGED <<owner, expecting_interrupt, req, regs, dev, irq, disk, panic, faulty>>
  BY Zenon DEF sema_down, Step
<1>2. /\ IdeTypeOK /\ OwnerInside /\ owner = t /\ req[t] \in Call
      /\ AnyDisk(t) /\ (faulty = FALSE => GoodDisk(t))
  BY <1>1, IdeInside, Zenon
<1>3. req[t].op \in {"read", "write"} /\ completion_wait \in Nat
  BY <1>2, Zenon DEF Call, IdeTypeOK
<1>4. IdeTypeOK'
  <2>1. where' \in [Caller -> {"out", "select", "sector", "issue", "complete", "busy", "data", "done"}]
    BY <1>1, <1>2, Zenon DEF IdeTypeOK
  <2>2. completion_wait' \in Nat
    BY <1>1, <1>3
  <2> QED
    BY <1>1, <1>2, <2>1, <2>2 DEF IdeTypeOK
<1>5. OwnerInside' /\ where'[t] = to
  BY <1>1, <1>2, OwnerStays, Zenon
<1>6. AnyDisk(t)'
  <2>1. req' = req /\ dev' = dev /\ disk' = disk
    BY <1>1, Zenon
  <2>2. CASE req[t].op = "read"
    <3>1. where'[t] = "busy"
      BY <1>5, <2>2, Zenon
    <3> QED
      BY <1>1, <1>2, <2>1, <2>2, <3>1, Zenon DEF AnyDisk, ForCall, OnDisk
  <2>3. CASE req[t].op # "read"
    <3>1. where'[t] = "done"
      BY <1>5, <2>3, Zenon
    <3> QED
      BY <2>1, <2>3, <3>1, Zenon DEF AnyDisk
  <2> QED
    BY <2>2, <2>3, Zenon
<1>7. faulty' = FALSE => GoodDisk(t)'
  <2> SUFFICES ASSUME faulty = FALSE PROVE GoodDisk(t)'
    BY <1>1, Zenon
  <2>1. Signalled /\ expecting_interrupt = TRUE
    BY <1>1, <1>2, <1>3 DEF GoodDisk, Silent
  <2>2. Silent'
    BY <1>1, <1>3, <2>1 DEF Signalled, Silent
  <2>3. CASE req[t].op = "read"
    <3>1. dev.status = "drq"
      BY <1>1, <1>2, <2>3 DEF GoodDisk, Silent
    <3> QED
      BY <1>1, <1>5, <2>1, <2>2, <2>3, <3>1 DEF GoodDisk
  <2>4. CASE req[t].op = "write"
    <3>1. dev.status = "idle" /\ OnDisk(t) = req[t].data
      BY <1>1, <1>2, <2>4 DEF GoodDisk, Silent
    <3> QED
      BY <1>1, <1>5, <2>2, <2>4, <3>1 DEF GoodDisk, Quiet, OnDisk
  <2> QED
    BY <1>3, <2>3, <2>4, Zenon
<1> QED
  BY <1>1, <1>2, <1>4, <1>5, <1>6, <1>7, IdeStays, Zenon

\* The call returns and gives the channel back, with nothing on it.
LEMMA ReleaseKeeps ==
  ASSUME IdeInv, NEW t \in Caller, lock_release(t)
  PROVE  IdeInv'
<1>1. /\ where[t] = "done" /\ where' = [where EXCEPT ![t] = "out"]
      /\ owner' = NULL /\ req' = [req EXCEPT ![t] = NULL]
      /\ UNCHANGED <<expecting_interrupt, completion_wait, regs, dev, irq, disk, panic, faulty>>
  BY Zenon DEF lock_release, Step
<1>2. /\ IdeTypeOK /\ OwnerInside /\ owner = t
      /\ faulty = FALSE => GoodDisk(t)
  BY <1>1, IdeInside, Zenon
<1>3. IdeTypeOK'
  BY <1>1, <1>2 DEF IdeTypeOK
<1>4. \A u \in Caller : where'[u] = "out"
  <2>1. \A u \in Caller \ {t} : where[u] = "out"
    BY <1>2, Zenon DEF OwnerInside
  <2> QED
    BY <1>1, <1>2, <2>1, Zenon DEF IdeTypeOK
<1>5. OwnerInside'
  BY <1>1, <1>4, IdeAssumption, Zenon DEF OwnerInside
<1>6. faulty' = FALSE => Quiet'
  BY <1>1, <1>2, Zenon DEF GoodDisk, Quiet, Silent
<1> QED
  BY <1>3, <1>4, <1>5, <1>6, Zenon DEF IdeInv

\* Steps of the handler and the device leave the threads where they are.
LEMMA HandlerKeeps ==
  ASSUME IdeInv, interrupt_handler
  PROVE  IdeInv'
<1>1. /\ irq = TRUE /\ irq' = FALSE
      /\ expecting_interrupt = TRUE => completion_wait' = completion_wait + 1
      /\ completion_wait' \in {completion_wait, completion_wait + 1}
      /\ UNCHANGED <<owner, expecting_interrupt, where, req, regs, dev, disk, panic, faulty>>
  BY Zenon DEF interrupt_handler, IdeInv, IdeTypeOK
<1>t. IdeTypeOK /\ OwnerInside
  BY Zenon DEF IdeInv
<1>2. IdeTypeOK'
  <2>1. completion_wait' \in Nat
    BY <1>t, <1>1 DEF IdeTypeOK
  <2>2. irq' \in BOOLEAN
    BY <1>1, Zenon
  <2> QED
    BY <1>t, <1>1, <2>1, <2>2 DEF IdeTypeOK
<1>3. OwnerInside'
  BY <1>t, <1>1, Zenon DEF OwnerInside
<1>4. CASE owner = NULL
  <2>1. \A u \in Caller : where'[u] = "out"
    BY <1>1, <1>4, <1>t, IdeAssumption, Zenon DEF OwnerInside
  <2>2. faulty # FALSE
    BY <1>1, <1>4, Zenon DEF IdeInv, Quiet, Silent
  <2> QED
    BY <1>1, <1>2, <1>3, <2>1, <2>2, Zenon DEF IdeInv
<1>5. ASSUME NEW t \in Caller, owner = t PROVE IdeInv'
  <2>1. where[t] # "out"
    BY <1>5, <1>t, Zenon DEF OwnerInside
  <2>2. req[t] \in Call /\ AnyDisk(t) /\ (faulty = FALSE => GoodDisk(t))
    BY <2>1, IdeInside, Zenon
  <2>3. AnyDisk(t)'
    BY <1>1, <2>2, Zenon DEF AnyDisk, ForCall, OnDisk
  <2>4. ASSUME faulty = FALSE PROVE GoodDisk(t)'
    <3>0. GoodDisk(t) /\ ~Silent
      BY <1>1, <2>2, <2>4, Zenon DEF Silent
    <3>1. req[t].op \in {"read", "write"}
      BY <2>2, Zenon DEF Call
    <3>2. where[t] = "complete" /\ Signalled /\ expecting_interrupt = TRUE
      BY <3>0, <3>1, <2>1, <1>t, Zenon DEF GoodDisk, Quiet, IdeTypeOK
    <3>3. Signalled'
      BY <1>1, <3>2 DEF Signalled
    <3>4. CASE req[t].op = "read"
      <4>1. dev.status = "drq"
        BY <3>0, <3>2, <3>4, Zenon DEF GoodDisk
      <4> QED
        BY <1>1, <3>2, <3>3, <3>4, <4>1, Zenon DEF GoodDisk
    <3>5. CASE req[t].op = "write"
      <4>1. dev.status = "idle" /\ OnDisk(t) = req[t].data
        BY <3>0, <3>2, <3>5, Zenon DEF GoodDisk
      <4> QED
        BY <1>1, <3>2, <3>3, <3>5, <4>1, Zenon DEF GoodDisk, OnDisk
    <3> QED
      BY <3>1, <3>4, <3>5, Zenon
  <2> QED
    BY <1>1, <1>2, <1>3, <1>5, <2>3, <2>4, IdeStays, Zenon
<1> QED
  BY <1>t, <1>4, <1>5, Zenon DEF IdeTypeOK

\* What the device does to its registers and the disk concerns the call in
\* the driver only.
LEMMA DeviceStays ==
  ASSUME IdeInv, IdeTypeOK', dev.status = "busy",
         UNCHANGED <<owner, expecting_interrupt, completion_wait, where, req, regs, panic, faulty>>,
         ASSUME NEW t \in Caller, owner = t, req[t] \in Call, AnyDisk(t), faulty = FALSE => GoodDisk(t)
         PROVE  AnyDisk(t)' /\ (faulty = FALSE => GoodDisk(t)')
  PROVE  IdeInv'
<1>t. IdeTypeOK /\ OwnerInside
  BY Zenon DEF IdeInv
<1>3. OwnerInside'
  BY <1>t, Zenon DEF OwnerInside
<1>4. CASE owner = NULL
  <2>1. \A u \in Caller : where'[u] = "out"
    BY <1>4, <1>t, IdeAssumption, Zenon DEF OwnerInside
  <2>2. faulty # FALSE
    BY <1>4, Zenon DEF IdeInv, Quiet
  <2> QED
    BY <1>3, <2>1, <2>2, Zenon DEF IdeInv
<1>5. ASSUME NEW t \in Caller, owner = t PROVE IdeInv'
  <2>1. where[t] # "out"
    BY <1>5, <1>t, Zenon DEF OwnerInside
  <2>2. req[t] \in Call /\ AnyDisk(t) /\ (faulty = FALSE => GoodDisk(t))
    BY <2>1, IdeInside, Zenon
  <2>3. AnyDisk(t)' /\ (faulty = FALSE => GoodDisk(t)')
    BY <1>5, <2>2, Zenon
  <2> QED
    BY <1>3, <1>5, <2>3, IdeStays, Zenon
<1> QED
  BY <1>t, <1>4, <1>5, Zenon DEF IdeTypeOK

\* The device has the data of a read, wants that of a write, or has stored it.
LEMMA DeviceKeeps ==
  ASSUME IdeInv, DeviceReady
  PROVE  IdeInv'
<1>0. /\ dev.status = "busy"
      /\ UNCHANGED <<owner, expecting_interrupt, completion_wait, where, req, regs, panic, faulty>>
  BY Zenon DEF DeviceReady
<1>t. IdeTypeOK /\ dev.sec \in DiskSector /\ dev.dev \in Device
  BY <1>0, Zenon DEF IdeInv, IdeTypeOK
<1>1. CASE /\ dev.op = "read" /\ irq' = TRUE /\ disk' = disk
           /\ dev' = [dev EXCEPT !.status = "drq", !.data = disk[dev.dev][dev.sec]]
  <2>1. /\ dev'.status = "drq" /\ dev'.op = "read" /\ dev'.dev = dev.dev /\ dev'.sec = dev.sec
        /\ dev'.data = disk[dev.dev][dev.sec]
    BY <1>1, <1>t, Zenon DEF IdeTypeOK
  <2>2. disk[dev.dev][dev.sec] \in Data
    BY <1>t DEF IdeTypeOK
  <2>3. IdeTypeOK'
    <3>1. dev' \in [status : {"idle", "busy", "drq"}, op : {"read", "write", NULL}, dev : Device,
                    sec : DiskSector \cup {NULL}, data : Data \cup {NULL}]
      BY <1>1, <1>t, <2>2, Zenon DEF IdeTypeOK
    <3> QED
      BY <1>0, <1>1, <1>t, <2>1, <3>1, Zenon DEF IdeTypeOK
  <2>4. ASSUME NEW t \in Caller, owner = t, req[t] \in Call, AnyDisk(t), faulty = FALSE => GoodDisk(t)
        PROVE  AnyDisk(t)' /\ (faulty = FALSE => GoodDisk(t)')
    <3>1. AnyDisk(t)'
      BY <1>0, <1>1, <2>1, <2>4, Zenon DEF AnyDisk, ForCall, OnDisk
    <3>2. ASSUME faulty = FALSE PROVE GoodDisk(t)'
      <4>1. GoodDisk(t) /\ req[t].op \in {"read", "write"} /\ req[t].data # NULL
        BY <2>4, <3>2, IdeAssumption, Zenon DEF Call
      <4>2. CASE req[t].op = "read"
        <5>1. where[t] \notin {"select", "sector", "issue", "done", "busy", "data"}
          BY <1>0, <4>1, <4>2, Zenon DEF GoodDisk, Quiet
        <5>2. where[t] = "complete" => Silent /\ expecting_interrupt = TRUE
          BY <1>0, <4>1, <4>2, Zenon DEF GoodDisk
        <5> QED
          BY <1>0, <1>1, <2>1, <4>2, <5>1, <5>2, Zenon DEF GoodDisk, Silent, Signalled
      <4>3. CASE req[t].op = "write"
        <5>1. where[t] \notin {"select", "sector", "issue", "done", "complete", "busy", "data"}
          BY <1>0, <1>1, <4>1, <4>3, Zenon DEF GoodDisk, Quiet, ForCall
        <5> QED
          BY <1>0, <4>3, <5>1, Zenon DEF GoodDisk
      <4> QED
        BY <4>1, <4>2, <4>3, Zenon
    <3> QED
      BY <3>1, <3>2, Zenon
  <2> QED
    BY <1>0, <2>3, <2>4, DeviceStays, Zenon
<1>2. CASE /\ dev.op = "write" /\ dev.data = NULL /\ irq' = irq /\ disk' = disk
           /\ dev' = [dev EXCEPT !.status = "drq"]
  <2>1. /\ dev'.status = "drq" /\ dev'.op = "write" /\ dev'.dev = dev.dev /\ dev'.sec = dev.sec
        /\ dev'.data = NULL
    BY <1>2, <1>t, Zenon DEF IdeTypeOK
  <2>3. IdeTypeOK'
    <3>1. dev' \in [status : {"idle", "busy", "drq"}, op : {"read", "write", NULL}, dev : Device,
                    sec : DiskSector \cup {NULL}, data : Data \cup {NULL}]
      BY <1>2, <1>t, Zenon DEF IdeTypeOK
    <3> QED
      BY <1>0, <1>2, <1>t, <2>1, <3>1, Zenon DEF IdeTypeOK
  <2>4. ASSUME NEW t \in Caller, owner = t, req[t] \in Call, AnyDisk(t), faulty = FALSE => GoodDisk(t)
        PROVE  AnyDisk(t)' /\ (faulty = FALSE => GoodDisk(t)')
    <3>1. AnyDisk(t)'
      BY <1>0, <1>2, <2>1, <2>4, Zenon DEF AnyDisk, ForCall, OnDisk
    <3>2. ASSUME faulty = FALSE PROVE GoodDisk(t)'
      <4>1. GoodDisk(t) /\ req[t].op \in {"read", "write"} /\ req[t].data # NULL
        BY <2>4, <3>2, IdeAssumption, Zenon DEF Call
      <4>2. where[t] \notin {"select", "sector", "issue", "done", "complete"}
        BY <1>0, <1>2, <2>4, <4>1, Zenon DEF GoodDisk, Quiet, ForCall, AnyDisk
      <4>3. req[t].op = "read" => where[t] \notin {"busy", "data"}
        BY <1>0, <4>1, Zenon DEF GoodDisk
      <4>4. req[t].op = "write" /\ where[t] \in {"busy", "data"} =>
              Silent' /\ ForCall(t)' /\ expecting_interrupt' = TRUE
        BY <1>0, <1>2, <2>1, <4>1, Zenon DEF GoodDisk, Silent, ForCall
      <4> QED
        BY <1>0, <2>1, <4>1, <4>2, <4>3, <4>4, Zenon DEF GoodDisk
    <3> QED
      BY <3>1, <3>2, Zenon
  <2> QED
    BY <1>0, <2>3, <2>4, DeviceStays, Zenon
<1>3. CASE /\ dev.op = "write" /\ dev.data # NULL /\ irq' = TRUE /\ dev' = NoCommand
           /\ disk' = [disk EXCEPT ![dev.dev][dev.sec] = dev.data]
  <2>1. dev'.status = "idle"
    BY <1>3, Zenon DEF NoCommand
  <2>2. disk' \in [Device -> [DiskSector -> Data]] /\ disk'[dev.dev][dev.sec] = dev.data
    <3>1. dev.data \in Data
      BY <1>3, <1>t, Zenon DEF IdeTypeOK
    <3> QED
      BY <1>3, <1>t, <3>1, Zenon DEF IdeTypeOK
  <2>3. IdeTypeOK'
    <3>1. dev' \in [status : {"idle", "busy", "drq"}, op : {"read", "write", NULL}, dev : Device,
                    sec : DiskSector \cup {NULL}, data : Data \cup {NULL}]
      BY <1>3, Zenon DEF NoCommand, Device
    <3> QED
      BY <1>0, <1>3, <1>t, <2>1, <2>2, <3>1, Zenon DEF IdeTypeOK
  <2>4. ASSUME NEW t \in Caller, owner = t, req[t] \in Call, AnyDisk(t), faulty = FALSE => GoodDisk(t)
        PROVE  AnyDisk(t)' /\ (faulty = FALSE => GoodDisk(t)')
    <3>1. AnyDisk(t)'
      BY <1>0, <1>3, <2>1, <2>4, Zenon DEF AnyDisk, ForCall
    <3>2. ASSUME faulty = FALSE PROVE GoodDisk(t)'
      <4>1. GoodDisk(t) /\ req[t].op \in {"read", "write"}
        BY <2>4, <3>2, Zenon DEF Call
      <4>2. where[t] \notin {"select", "sector", "issue", "done", "busy", "data"}
        BY <1>0, <1>3, <2>4, <4>1, Zenon DEF GoodDisk, Quiet
      <4>3. where[t] = "complete" =>
              /\ req[t].op = "write" /\ expecting_interrupt = TRUE /\ Silent
              /\ dev.data = req[t].data /\ dev.dev = req[t].dev /\ dev.sec = req[t].sec
        BY <1>0, <1>3, <2>4, <4>1, SMTT(30) DEF GoodDisk, AnyDisk, ForCall
      <4>4. where'[t] = "complete" =>
              /\ Signalled' /\ OnDisk(t)' = req'[t].data
              /\ req'[t].op = "write" /\ expecting_interrupt' = TRUE
        BY <1>0, <1>3, <2>2, <4>3, Zenon DEF Signalled, Silent, OnDisk
      <4> QED
        BY <1>0, <2>1, <4>1, <4>2, <4>4, Zenon DEF GoodDisk
    <3> QED
      BY <3>1, <3>2, Zenon
  <2> QED
    BY <1>0, <2>3, <2>4, DeviceStays, Zenon
<1> QED
  BY <1>1, <1>2, <1>3, Zenon DEF DeviceReady

\* A device that reports an error is idle.
LEMMA FailsKeeps ==
  ASSUME IdeInv, DeviceFails
  PROVE  IdeInv'
<1>0. /\ dev.status = "busy" /\ faulty # FALSE /\ dev' = NoCommand /\ irq' = TRUE
      /\ UNCHANGED <<owner, expecting_interrupt, completion_wait, where, req, regs, disk, panic, faulty>>
  BY Zenon DEF DeviceFails, IdeInv, IdeTypeOK
<1>1. dev'.status = "idle"
  BY <1>0, Zenon DEF NoCommand
<1>2. IdeTypeOK'
  <2>1. dev' \in [status : {"idle", "busy", "drq"}, op : {"read", "write", NULL}, dev : Device,
                  sec : DiskSector \cup {NULL}, data : Data \cup {NULL}]
    BY <1>0, Zenon DEF NoCommand, Device
  <2> QED
    BY <1>0, <1>1, <2>1, Zenon DEF IdeInv, IdeTypeOK
<1>3. ASSUME NEW t \in Caller, owner = t, req[t] \in Call, AnyDisk(t), faulty = FALSE => GoodDisk(t)
      PROVE  AnyDisk(t)' /\ (faulty = FALSE => GoodDisk(t)')
  BY <1>0, <1>1, <1>3, Zenon DEF AnyDisk
<1> QED
  BY <1>0, <1>2, <1>3, DeviceStays, Zenon

\* Every step keeps the inductive invariant.
LEMMA IdeNextInv == IdeInv /\ [IdeNext]_ideVars => IdeInv'
<1> SUFFICES ASSUME IdeInv, [IdeNext]_ideVars PROVE IdeInv'
  BY Zenon
<1>1. CASE UNCHANGED ideVars
  <2>1. IdeTypeOK' /\ OwnerInside'
    BY <1>1, SMTT(30) DEF ideVars, IdeInv, IdeTypeOK, OwnerInside
  <2>2. \A t \in Caller : (AnyDisk(t) => AnyDisk(t)') /\ (GoodDisk(t) => GoodDisk(t)')
    <3> TAKE t \in Caller
    <3>1. /\ Silent' <=> Silent
          /\ Signalled' <=> Signalled
          /\ Quiet' <=> Quiet
      BY <1>1, Zenon DEF ideVars, Quiet, Silent, Signalled
    <3>2. AnyDisk(t) => AnyDisk(t)'
      BY <1>1, Zenon DEF ideVars, AnyDisk, ForCall, OnDisk
    <3>3. GoodDisk(t) => GoodDisk(t)'
      BY <1>1, <3>1, Zenon DEF ideVars, GoodDisk, ForCall, OnDisk
    <3> QED
      BY <3>2, <3>3, Zenon
  <2>3. Quiet => Quiet'
    BY <1>1, Zenon DEF ideVars, Quiet, Silent
  <2> QED
    BY <1>1, <2>1, <2>2, <2>3, Zenon DEF ideVars, IdeInv
<1> QED
  BY <1>1, AcquireKeeps, SelectKeeps, IssueKeeps, BusyKeeps, MoveKeeps, DownKeeps, ReleaseKeeps,
     HandlerKeeps, DeviceKeeps, FailsKeeps, Zenon DEF IdeNext, CallStep, Panicked

\* For any number of threads, sectors and values: at the end of ide_read and
\* ide_write the buffer and the sector asked for agree, a read from a disk that
\* fails or hangs included, and a disk that answers leaves nothing over for the
\* next call (devices/ide.c).
THEOREM TransfersCorrect == IdeSpec => []TransferDone
<1>1. IdeInit => IdeInv
  <2> SUFFICES ASSUME IdeInit PROVE IdeInv
    BY Zenon
  <2>1. IdeTypeOK
    <3>1. disk \in [Device -> [DiskSector -> Data]]
      BY Zenon DEF IdeInit
    <3>2. /\ dev \in [status : {"idle", "busy", "drq"}, op : {"read", "write", NULL}, dev : Device,
                     sec : DiskSector \cup {NULL}, data : Data \cup {NULL}]
          /\ dev.status = "idle" /\ regs \in [dev : Device, sec : DiskSector \cup {NULL}]
      BY Zenon DEF IdeInit, NoCommand, Device
    <3> QED
      BY <3>1, <3>2, Zenon DEF IdeInit, IdeTypeOK
  <2>2. OwnerInside
    BY IdeAssumption, Zenon DEF IdeInit, OwnerInside
  <2>3. Quiet
    BY Zenon DEF IdeInit, NoCommand, Quiet, Silent
  <2>4. \A t \in Caller : where[t] = "out"
    BY Zenon DEF IdeInit
  <2> QED
    BY <2>1, <2>2, <2>3, <2>4, Zenon DEF IdeInv
<1>2. IdeInv => TransferDone
  <2> SUFFICES ASSUME IdeInv PROVE TransferDone
    BY Zenon
  <2>1. DataAsAsked
    <3> SUFFICES ASSUME NEW t \in Caller, where[t] = "done", faulty => req[t].op = "read"
                 PROVE  OnDisk(t) = req[t].data
      BY Zenon DEF DataAsAsked, OnDisk
    <3>1. /\ req[t] \in Call /\ AnyDisk(t) /\ (faulty = FALSE => GoodDisk(t))
          /\ faulty \in BOOLEAN
      BY IdeInside, Zenon DEF IdeTypeOK
    <3>2. req[t].op \in {"read", "write"}
      BY <3>1, Zenon DEF Call
    <3>3. CASE req[t].op = "read"
      BY <3>1, <3>3, Zenon DEF AnyDisk
    <3>4. CASE req[t].op = "write"
      BY <3>1, <3>4, Zenon DEF GoodDisk
    <3> QED
      BY <3>2, <3>3, <3>4, Zenon
  <2>2. NothingLeftOver
    BY Zenon DEF IdeInv, IdeTypeOK, Quiet, Silent, NothingLeftOver
  <2> QED
    BY <2>1, <2>2, Zenon DEF TransferDone
<1>3. IdeSpec => []IdeInv
  BY <1>1, IdeNextInv, PTL DEF IdeSpec
<1> QED
  BY <1>2, <1>3, PTL

-----------------------------------------------------------------------------
(***************************************************************************)
(* devices/ide.c: detection.                                               *)
(***************************************************************************)
Healthy(d) == Passed(d) /\ hw[d].ready /\ ~hw[d].hangs /\ hw[d].signature \in {"ata", "sata"}
Found(d) == Healthy(d) /\ Accepts(d)

IdeBootTypeOK ==
  /\ hw \in [{0, 1} -> Hardware] /\ Plausible(hw)
  /\ is_ata \in [{0, 1} -> BOOLEAN]
  /\ blocks \subseteq {0, 1}
  /\ stage \in {<<"reset", 0>>, <<"check", 0>>, <<"check", 1>>, <<"identify", 0>>, <<"identify", 1>>,
                <<"done", 1>>}

\* What has been found out about device d at each stage.
Judged(d) ==
  /\ stage \in {<<"reset", 0>>, <<"check", 0>>} => ~is_ata[d]
  /\ stage = <<"check", 1>> => (is_ata[d] <=> d = 0 /\ Healthy(d))
  /\ stage = <<"identify", 0>> => (is_ata[d] <=> Healthy(d))
  /\ stage = <<"identify", 1>> => (is_ata[d] <=> Healthy(d) /\ (d = 0 => Accepts(d)))
  /\ stage = <<"done", 1>> => (is_ata[d] <=> Found(d))

Registered(d) ==
  d \in blocks <=> /\ stage \in {<<"identify", 1>>, <<"done", 1>>} /\ Found(d)
                   /\ stage = <<"identify", 1>> => d = 0

IdeBootInv ==
  /\ IdeBootTypeOK
  /\ stage # <<"reset", 0>> => busy = StillBusy
  /\ \A d \in {0, 1} : Judged(d) /\ Registered(d)

\* The stages are different.
LEMMA Stages ==
  \A x, y : \A i, j \in {0, 1} : <<x, i>> = <<y, j>> <=> x = y /\ i = j
BY Zenon

\* The judgement of a device does not change.
LEMMA JudgedSame ==
  ASSUME hw' = hw
  PROVE  \A d \in {0, 1} : (Healthy(d)' <=> Healthy(d)) /\ (Accepts(d)' <=> Accepts(d))
                           /\ (Found(d)' <=> Found(d)) /\ (Passed(d)' <=> Passed(d))
BY DEF Healthy, Accepts, Found, Passed

\* reset_channel looks at both devices.
LEMMA ResetKeeps == ASSUME IdeBootInv, reset_channel PROVE IdeBootInv'
<1>1. /\ stage = <<"reset", 0>> /\ stage' = <<"check", 0>> /\ busy' = StillBusy
      /\ UNCHANGED <<hw, is_ata, blocks>>
  BY Zenon DEF reset_channel
<1>2. busy' = StillBusy'
  BY <1>1, Zenon DEF StillBusy
<1>3. \A d \in {0, 1} : Judged(d)' /\ Registered(d)'
  BY <1>1, Stages DEF IdeBootInv, Judged, Registered
<1>4. IdeBootTypeOK'
  BY <1>1, Zenon DEF IdeBootInv, IdeBootTypeOK, Plausible
<1> QED
  BY <1>2, <1>3, <1>4, Zenon DEF IdeBootInv

\* check_device_type believes a signature only of the device it selected.
LEMMA CheckKeeps == ASSUME IdeBootInv, NEW d \in {0, 1}, check_device_type(d) PROVE IdeBootInv'
<1> DEFINE ok == Passed(d) /\ hw[d].ready /\ d \notin busy
<1>1. stage = <<"check", d>> /\ UNCHANGED <<hw, busy, blocks>>
  BY Zenon DEF check_device_type
<1>t. IdeBootTypeOK /\ busy = StillBusy
  BY <1>1, Stages, Zenon DEF IdeBootInv
<1>2. /\ is_ata' \in [{0, 1} -> BOOLEAN]
      /\ is_ata'[d] <=> IF ok THEN hw[d].signature \in {"ata", "sata"} ELSE is_ata[d]
      /\ \A e \in {0, 1} \ {d} : is_ata'[e] <=> is_ata[e]
  <2>1. CASE ok
    <3>1. is_ata' = [is_ata EXCEPT ![d] = hw[d].signature \in {"ata", "sata"}]
      BY <2>1, Zenon DEF check_device_type
    <3>2. is_ata \in [{0, 1} -> BOOLEAN] /\ (hw[d].signature \in {"ata", "sata"}) \in BOOLEAN
      BY <1>t DEF IdeBootTypeOK
    <3>3. /\ is_ata' \in [{0, 1} -> BOOLEAN]
          /\ is_ata'[d] = (hw[d].signature \in {"ata", "sata"})
          /\ \A e \in {0, 1} \ {d} : is_ata'[e] = is_ata[e]
      BY <3>1, <3>2, Zenon
    <3> QED
      BY <2>1, <3>3, Zenon
  <2>2. CASE ~ok
    <3>1. is_ata' = is_ata
      BY <2>2, Zenon DEF check_device_type
    <3> QED
      BY <1>t, <2>2, <3>1, Zenon DEF IdeBootTypeOK
  <2> QED
    BY <2>1, <2>2, Zenon
<1>3. ~is_ata[d] /\ (d = 0 => ~is_ata[1]) /\ (d = 1 => (is_ata[0] <=> Healthy(0)))
  BY <1>1, Zenon DEF IdeBootInv, Judged
<1>4. ok <=> Passed(d) /\ hw[d].ready /\ ~hw[d].hangs
  BY <1>t, Zenon DEF IdeBootTypeOK, Plausible, StillBusy
<1>5. is_ata'[d] <=> Healthy(d)
  BY <1>2, <1>3, <1>4, Zenon DEF Healthy
<1>6. CASE d = 1
  <2>1. stage' = <<"identify", 0>>
    BY <1>6 DEF check_device_type
  <2>2. \A e \in {0, 1} : is_ata'[e] <=> Healthy(e)
    BY <1>2, <1>3, <1>5, <1>6, Zenon
  <2>3. \A e \in {0, 1} : Judged(e)' /\ Registered(e)'
    BY <1>1, <1>6, <2>1, <2>2, Stages, JudgedSame DEF IdeBootInv, Judged, Registered
  <2> QED
    BY <1>1, <1>2, <1>t, <2>1, <2>3, Zenon DEF IdeBootInv, IdeBootTypeOK, StillBusy
<1>7. CASE d = 0
  <2>1. \/ stage' = <<"check", 1>>
        \/ stage' = <<"identify", 0>> /\ hw[0].error = 129
    BY <1>7, Zenon DEF check_device_type
  <2>2. ~is_ata'[1]
    BY <1>2, <1>3, <1>7
  <2>3. hw[0].error = 129 => ~Healthy(1)
    BY <1>t DEF IdeBootTypeOK, Plausible, Healthy, Passed
  <2>4. \A e \in {0, 1} : Judged(e)' /\ Registered(e)'
    BY <1>1, <1>5, <1>7, <2>1, <2>2, <2>3, Stages, JudgedSame DEF IdeBootInv, Judged, Registered
  <2> QED
    BY <1>1, <1>2, <1>t, <2>1, <2>4 DEF IdeBootInv, IdeBootTypeOK, StillBusy
<1> QED
  BY <1>6, <1>7, Zenon

\* identify_ata_device registers the disk that answered, or gives up on it.
LEMMA IdentifyKeeps == ASSUME IdeBootInv, NEW d \in {0, 1}, identify_ata_device(d) PROVE IdeBootInv'
<1>1. /\ stage = <<"identify", d>> /\ UNCHANGED <<hw, busy>>
      /\ stage' = IF d = 0 THEN <<"identify", 1>> ELSE <<"done", 1>>
      /\ blocks' = IF is_ata[d] /\ Accepts(d) THEN blocks \cup {d} ELSE blocks
  BY Zenon DEF identify_ata_device
<1>t. IdeBootTypeOK /\ busy = StillBusy
  BY <1>1, Stages, Zenon DEF IdeBootInv
<1>2. /\ is_ata' \in [{0, 1} -> BOOLEAN]
      /\ is_ata'[d] <=> is_ata[d] /\ Accepts(d)
      /\ \A e \in {0, 1} \ {d} : is_ata'[e] <=> is_ata[e]
  BY <1>t, Zenon DEF identify_ata_device, IdeBootTypeOK
<1>3. is_ata[d] <=> Healthy(d)
  BY <1>1, Stages, Zenon DEF IdeBootInv, Judged
<1>4. \A e \in {0, 1} : Judged(e)' /\ Registered(e)'
  BY <1>1, <1>2, <1>3, Stages, JudgedSame DEF IdeBootInv, Judged, Registered, Found
<1> QED
  BY <1>1, <1>2, <1>t, <1>4, Zenon DEF IdeBootInv, IdeBootTypeOK, StillBusy

\* For every limit on the size: when detection is over, a device is registered
\* exactly if it is a healthy ATA disk below the limit, whatever the other
\* device on the channel is or does (reset_channel, check_device_type,
\* identify_ata_device).
THEOREM DisksCorrect == IdeBootSpec => []DisksFound
<1>1. IdeBootInit => IdeBootInv
  BY Stages DEF IdeBootInit, IdeBootInv, IdeBootTypeOK, Judged, Registered
<1>2. IdeBootInv /\ [IdeBootNext]_bootVars => IdeBootInv'
  <2> SUFFICES ASSUME IdeBootInv, [IdeBootNext]_bootVars PROVE IdeBootInv'
    BY Zenon
  <2>1. CASE UNCHANGED bootVars
    <3>1. \A d \in {0, 1} : Judged(d)' /\ Registered(d)'
      BY <2>1, JudgedSame, Zenon DEF bootVars, IdeBootInv, Judged, Registered
    <3> QED
      BY <2>1, <3>1, Zenon DEF bootVars, IdeBootInv, IdeBootTypeOK, StillBusy
  <2> QED
    BY <2>1, ResetKeeps, CheckKeeps, IdentifyKeeps, Zenon DEF IdeBootNext, Done
<1>3. IdeBootInv => DisksFound
  <2> SUFFICES ASSUME IdeBootInv, stage = <<"done", 1>>
               PROVE  /\ blocks = {d \in {0, 1} : (hw[d].error = 1 \/ <<hw[d].error, d>> = <<129, 0>>)
                                     /\ hw[d].ready /\ ~hw[d].hangs /\ hw[d].signature # "atapi"
                                     /\ hw[d].answers /\ hw[d].capacity < Limit}
                      /\ \A d \in {0, 1} : is_ata[d] <=> d \in blocks
    BY Zenon DEF DisksFound
  <2>1. \A d \in {0, 1} : (is_ata[d] <=> Found(d)) /\ (d \in blocks <=> Found(d))
    BY Stages, Zenon DEF IdeBootInv, Judged, Registered
  <2>2. \A d \in {0, 1} : Found(d) <=> /\ hw[d].error = 1 \/ <<hw[d].error, d>> = <<129, 0>>
                                       /\ hw[d].ready /\ ~hw[d].hangs /\ hw[d].signature # "atapi"
                                       /\ hw[d].answers /\ hw[d].capacity < Limit
    BY DEF IdeBootInv, IdeBootTypeOK, Hardware, Found, Healthy, Passed, Accepts
  <2>3. blocks = {d \in {0, 1} : Found(d)}
    BY <2>1, Zenon DEF IdeBootInv, IdeBootTypeOK
  <2> QED
    BY <2>1, <2>2, <2>3
<1>4. IdeBootSpec => []IdeBootInv
  BY <1>1, <1>2, PTL DEF IdeBootSpec
<1> QED
  BY <1>3, <1>4, PTL

-----------------------------------------------------------------------------
(***************************************************************************)
(* interrupt.c.  The invariant places the external handler: it is the      *)
(* innermost frame of the running thread or nowhere, and what the PICs     *)
(* have in service is its interrupt.                                       *)
(***************************************************************************)
\* A stretch of a sequence.
LEMMA Stretch ==
  ASSUME NEW S, NEW s \in Seq(S), NEW m \in Nat \ {0}, NEW n \in Nat, n <= Len(s)
  PROVE  /\ SubSeq(s, m, n) \in Seq(S)
         /\ Len(SubSeq(s, m, n)) = IF m <= n THEN n - m + 1 ELSE 0
         /\ \A i \in 1 .. n - m + 1 : SubSeq(s, m, n)[i] = s[m + i - 1]
<1>1. SubSeq(s, m, n) \in Seq(S)
  OBVIOUS
<1>2. Len(SubSeq(s, m, n)) = IF m <= n THEN n - m + 1 ELSE 0
  OBVIOUS
<1>3. \A i \in 1 .. n - m + 1 : SubSeq(s, m, n)[i] = s[m + i - 1]
  OBVIOUS
<1> QED
  BY <1>1, <1>2, <1>3, Zenon

IntrFrame == [vec : External \cup {"trap", "interrupt"}, flag : BOOLEAN,
          at : {"external", "return", "trap"}]

IntrTypeOK ==
  /\ current \in Thread /\ flag \in BOOLEAN
  /\ frames \in [Thread -> Seq(IntrFrame)]
  /\ level \in [Thread -> BOOLEAN]

\* A frame of an external handler is the innermost of the running thread.
ExternalOnTop ==
  \A t \in Thread : \A k \in 1 .. Len(frames[t]) :
    frames[t][k].at = "external" => t = current /\ k = Len(frames[t])

\* The PICs wait for the handler that runs, or for nothing.
InServiceOnly ==
  /\ At("external") => Top.vec \in External /\ service \subseteq InService(Top.vec)
  /\ ~At("external") => service = {}

ContextInv ==
  /\ ~failed
  /\ in_external_intr <=> At("external")
  /\ in_external_intr => ~flag

IntrInv == IntrTypeOK /\ ExternalOnTop /\ InServiceOnly /\ ContextInv
-----------------------------------------------------------------------------
\* After intr_init no handler runs and nothing is in service.
LEMMA InitInv == IntrInit => IntrInv
<1>1. SUFFICES ASSUME IntrInit PROVE IntrInv
  BY Zenon
<1>2. IntrTypeOK
  BY <1>1 DEF IntrInit, IntrTypeOK
<1>3. ~At("external") /\ ExternalOnTop
  BY <1>1, <1>2 DEF IntrInit, At, ExternalOnTop, IntrTypeOK
<1>4. QED
  BY <1>1, <1>2, <1>3, Zenon DEF IntrInit, IntrInv, InServiceOnly, ContextInv

\* Outside an external handler there is no external frame at all.
LEMMA NoneOutside ==
  ASSUME IntrInv, ~At("external")
  PROVE \A t \in Thread : \A k \in 1 .. Len(frames[t]) : frames[t][k].at # "external"
<1>1. SUFFICES ASSUME NEW t \in Thread, NEW k \in 1 .. Len(frames[t]), frames[t][k].at = "external"
               PROVE FALSE
  BY Zenon
<1>2. t = current /\ k = Len(frames[current]) /\ frames[current] \in Seq(IntrFrame)
  BY <1>1, Zenon DEF IntrInv, ExternalOnTop, IntrTypeOK
<1>3. frames[current] # <<>>
  BY <1>1, <1>2
<1>4. QED
  BY <1>1, <1>2, <1>3, Zenon DEF At, Top

\* A step that leaves no external frame, no handler and nothing in service.
LEMMA Outside ==
  ASSUME IntrTypeOK',
         \A t \in Thread : \A k \in 1 .. Len(frames'[t]) : frames'[t][k].at # "external",
         service' = {}, ~in_external_intr', ~failed'
  PROVE IntrInv'
<1>1. ~At("external")'
  <2>1. current' \in Thread /\ frames'[current'] \in Seq(IntrFrame)
    BY Zenon DEF IntrTypeOK
  <2>2. frames'[current'] # <<>> => Len(frames'[current']) \in 1 .. Len(frames'[current'])
    BY <2>1
  <2>3. QED
    BY <2>1, <2>2, Zenon DEF At, Top
<1>2. QED
  BY <1>1, Zenon DEF IntrInv, ExternalOnTop, InServiceOnly, ContextInv

\* Every step of interrupt.c keeps the invariant.
LEMMA StepInv == IntrInv /\ [IntrNext]_intrVars => IntrInv'
<1>1. SUFFICES ASSUME IntrInv, [IntrNext]_intrVars PROVE IntrInv'
  BY Zenon
<1> USE <1>1
<1>t. /\ current \in Thread /\ flag \in BOOLEAN /\ frames \in [Thread -> Seq(IntrFrame)]
      /\ frames[current] \in Seq(IntrFrame) /\ level \in [Thread -> BOOLEAN]
  BY Zenon DEF IntrInv, IntrTypeOK
<1>c. ~failed /\ (in_external_intr <=> At("external")) /\ (in_external_intr => ~flag)
  BY Zenon DEF IntrInv, ContextInv
<1>s. /\ At("external") => Top.vec \in External /\ service \subseteq InService(Top.vec)
      /\ ~At("external") => service = {}
  BY Zenon DEF IntrInv, InServiceOnly
<1>i. InCode => ~At("external")
  BY Zenon DEF InCode, At
<1>2. CASE UNCHANGED intrVars
  BY <1>2, Zenon DEF intrVars, IntrInv, IntrTypeOK, ExternalOnTop, InServiceOnly, ContextInv, At, Top
<1>3. ASSUME NEW v \in External, Raise(v) PROVE IntrInv'
  BY <1>3, Zenon DEF Raise, IntrInv, IntrTypeOK, ExternalOnTop, InServiceOnly, ContextInv, At, Top
<1>4. ASSUME NEW v \in External, EnterExternal(v) PROVE IntrInv'
  <2> DEFINE f == [vec |-> v, flag |-> flag, at |-> "external"]
  <2>1. /\ flag /\ flag' = FALSE /\ current' = current /\ level' = level
        /\ frames' = [frames EXCEPT ![current] = Append(frames[current], f)]
        /\ service' = service \cup InService(v) /\ in_external_intr' = TRUE
        /\ failed' = (failed \/ ~(~in_external_intr))
    BY <1>4, Zenon DEF EnterExternal, assert
  <2>2. ~in_external_intr /\ ~At("external") /\ service = {} /\ ~failed'
    BY <2>1, <1>c, <1>s, Zenon
  <2>3. f \in IntrFrame
    BY <1>t, Zenon DEF IntrFrame
  <2>4. /\ frames'[current] = Append(frames[current], f)
        /\ \A t \in Thread \ {current} : frames'[t] = frames[t]
        /\ frames' \in [Thread -> Seq(IntrFrame)]
    BY <2>1, <2>3, <1>t
  <2>5. /\ Len(frames'[current]) = Len(frames[current]) + 1
        /\ frames'[current][Len(frames'[current])] = f
        /\ \A k \in 1 .. Len(frames[current]) : frames'[current][k] = frames[current][k]
    BY <2>3, <2>4, <1>t
  <2>6. At("external")' /\ Top' = f
    <3>1. frames'[current] # <<>>
      <4>1. Len(frames[current]) \in Nat
        BY <1>t
      <4>2. Len(frames'[current]) # 0
        BY <4>1, <2>5
      <4>3. Len(<<>>) = 0
        BY Zenon
      <4> QED
        BY <4>2, <4>3, Zenon
    <3>2. Top' = f
      BY <2>1, <2>5, Zenon DEF Top
    <3>3. f.at = "external"
      BY Zenon
    <3>4. QED
      BY <3>1, <3>2, <3>3, <2>1, Zenon DEF At
  <2>7. ExternalOnTop'
    <3>1. SUFFICES ASSUME NEW t \in Thread, NEW k \in 1 .. Len(frames'[t]), frames'[t][k].at = "external"
                   PROVE t = current /\ k = Len(frames'[t])
      BY <2>1, Zenon DEF ExternalOnTop
    <3>2. CASE t # current
      BY <3>1, <3>2, <2>2, <2>4, NoneOutside, Zenon
    <3>3. CASE t = current
      BY <3>1, <3>3, <2>2, <2>5, <1>t, NoneOutside
    <3>4. QED
      BY <3>2, <3>3, Zenon
  <2>8. InServiceOnly'
    BY <2>1, <2>2, <2>6, <1>4, Zenon DEF InServiceOnly, InService
  <2>9. QED
    BY <2>1, <2>2, <2>4, <2>6, <2>7, <2>8, <1>t, Zenon DEF IntrInv, IntrTypeOK, ContextInv
<1>5. CASE intr_yield_on_return
  <2>1. /\ At("external")
        /\ UNCHANGED <<current, flag, frames, level, in_external_intr, pending, service>>
        /\ failed' = (failed \/ ~in_external_intr)
    BY <1>5, Zenon DEF intr_yield_on_return, assert
  <2>2. ~failed'
    BY <2>1, <1>c, Zenon
  <2>3. QED
    BY <2>1, <2>2, Zenon DEF IntrInv, IntrTypeOK, ExternalOnTop, InServiceOnly, ContextInv, At, Top
<1>6. CASE LeaveExternal
  <2> DEFINE n == Len(frames[current])
             returning == [frames EXCEPT ![current][n].at = "return"]
  <2>1. /\ At("external") /\ in_external_intr' = FALSE
        /\ failed' = (failed \/ ~(~flag /\ in_external_intr))
        /\ frames' = returning /\ current' \in Thread /\ flag' \in BOOLEAN
        /\ level' = level \/ level' = [level EXCEPT ![current] = FALSE]
        /\ service' = service \ (Master \cup {Cascade} \cup IF Top.vec \in Slave THEN Slave ELSE {})
    BY <1>6, <1>t, Zenon DEF LeaveExternal, assert, SwitchFrom, pic_end_of_interrupt
  <2>2. ~failed'
    BY <2>1, <1>c, Zenon
  <2>3. service' = {}
    BY <2>1, <1>s, Zenon DEF InService, External
  <2>4. n \in 1 .. n /\ frames[current][n] \in IntrFrame /\ n \in Nat
    BY <2>1, <1>t DEF At
  <2>5. /\ frames'[current] = [frames[current] EXCEPT ![n] = [@ EXCEPT !.at = "return"]]
        /\ \A t \in Thread \ {current} : frames'[t] = frames[t]
    BY <2>1, <1>t, Zenon
  <2>6. [frames[current][n] EXCEPT !.at = "return"] \in IntrFrame
    BY <2>4, Zenon DEF IntrFrame
  <2>7. /\ frames'[current] \in Seq(IntrFrame) /\ Len(frames'[current]) = n
        /\ frames'[current][n].at = "return"
        /\ \A k \in 1 .. n - 1 : frames'[current][k] = frames[current][k]
    <3> DEFINE g == [frames[current][n] EXCEPT !.at = "return"]
    <3>1. g \in IntrFrame /\ g.at = "return"
      BY <2>4, <2>6, Zenon DEF IntrFrame
    <3>2. frames'[current] = [frames[current] EXCEPT ![n] = g]
      BY <2>5, Zenon
    <3> HIDE DEF g
    <3>3. QED
      BY <3>1, <3>2, <2>4, <1>t
  <2>8. IntrTypeOK'
    <3>1. frames' \in [Thread -> Seq(IntrFrame)]
      BY <2>1, <2>5, <2>7, <1>t, Zenon
    <3>2. level' \in [Thread -> BOOLEAN]
      BY <2>1, <1>t, Zenon
    <3>3. QED
      BY <2>1, <3>1, <3>2, Zenon DEF IntrTypeOK
  <2>9. \A t \in Thread : \A k \in 1 .. Len(frames'[t]) : frames'[t][k].at # "external"
    <3>1. SUFFICES ASSUME NEW t \in Thread, NEW k \in 1 .. Len(frames'[t]), frames'[t][k].at = "external"
                   PROVE FALSE
      BY Zenon
    <3>2. \A u \in Thread : \A j \in 1 .. Len(frames[u]) :
            frames[u][j].at = "external" => u = current /\ j = n
      BY Zenon DEF IntrInv, ExternalOnTop
    <3>3. CASE t # current
      BY <3>1, <3>2, <3>3, <2>5, Zenon
    <3>4. CASE t = current
      BY <3>1, <3>2, <3>4, <2>4, <2>7
    <3>5. QED
      BY <3>3, <3>4, Zenon
  <2>10. QED
    BY <2>1, <2>2, <2>3, <2>8, <2>9, Outside, Zenon
<1>7. CASE Return
  <2>1. /\ ~At("external") /\ frames[current] # <<>>
        /\ frames' = [frames EXCEPT ![current] = SubSeq(@, 1, Len(@) - 1)]
        /\ UNCHANGED <<current, level, in_external_intr, service, failed>>
        /\ flag' = Top.flag
    BY <1>7, Zenon DEF Return, Pop, At
  <2>2. /\ SubSeq(frames[current], 1, Len(frames[current]) - 1) \in Seq(IntrFrame)
        /\ Len(SubSeq(frames[current], 1, Len(frames[current]) - 1)) = Len(frames[current]) - 1
        /\ \A k \in 1 .. Len(frames[current]) - 1 :
             SubSeq(frames[current], 1, Len(frames[current]) - 1)[k] = frames[current][k]
    <3> DEFINE m == Len(frames[current]) - 1
    <3>1. m \in Nat /\ m <= Len(frames[current]) /\ 1 \in Nat \ {0} /\ frames[current] \in Seq(IntrFrame)
      BY <2>1, <1>t
    <3> HIDE DEF m
    <3>2. /\ SubSeq(frames[current], 1, m) \in Seq(IntrFrame)
          /\ Len(SubSeq(frames[current], 1, m)) = IF 1 <= m THEN m - 1 + 1 ELSE 0
          /\ \A i \in 1 .. m - 1 + 1 : SubSeq(frames[current], 1, m)[i] = frames[current][1 + i - 1]
      BY <3>1, Stretch
    <3>3. /\ Len(SubSeq(frames[current], 1, m)) = m
          /\ \A i \in 1 .. m : SubSeq(frames[current], 1, m)[i] = frames[current][i]
      BY <3>1, <3>2
    <3>4. QED
      BY <3>2, <3>3, Zenon DEF m
  <2>3. IntrTypeOK'
    <3>1. Top \in IntrFrame
      BY <2>1, <1>t DEF Top
    <3>2. flag' \in BOOLEAN
      BY <2>1, <3>1, Zenon DEF IntrFrame
    <3>3. QED
      BY <3>2, <2>1, <2>2, <1>t, Zenon DEF IntrTypeOK
  <2>4. \A t \in Thread : \A k \in 1 .. Len(frames'[t]) : frames'[t][k].at # "external"
    BY <2>1, <2>2, <1>t, NoneOutside
  <2>5. QED
    BY <2>1, <2>3, <2>4, <1>c, <1>s, Outside, Zenon
<1>8. CASE thread_yield
  <2>1. /\ ~At("external") /\ UNCHANGED <<frames, in_external_intr, service>>
        /\ current' \in Thread /\ level' = [level EXCEPT ![current] = flag]
        /\ failed' = (failed \/ ~(~in_external_intr)) /\ flag' \in BOOLEAN
    BY <1>8, <1>i, <1>t, Zenon DEF thread_yield, SwitchFrom, assert
  <2>2. ~failed'
    BY <2>1, <1>c, Zenon
  <2>3. IntrTypeOK'
    BY <2>1, <1>t, Zenon DEF IntrTypeOK
  <2>4. \A t \in Thread : \A k \in 1 .. Len(frames'[t]) : frames'[t][k].at # "external"
    BY <2>1, NoneOutside, Zenon
  <2>5. QED
    BY <2>1, <2>2, <2>3, <2>4, <1>c, <1>s, Outside, Zenon
<1>9. ASSUME NEW gate \in {"trap", "interrupt"}, EnterInternal(gate) PROVE IntrInv'
  <2> DEFINE f == [vec |-> gate, flag |-> flag, at |-> "trap"]
  <2>1. /\ ~At("external")
        /\ frames' = [frames EXCEPT ![current] = Append(frames[current], f)]
        /\ UNCHANGED <<current, level, in_external_intr, service, failed>>
        /\ flag' \in BOOLEAN
    BY <1>9, <1>i, Zenon DEF EnterInternal
  <2>2. f \in IntrFrame
    BY <1>t, Zenon DEF IntrFrame
  <2>3. /\ Append(frames[current], f) \in Seq(IntrFrame)
        /\ Len(Append(frames[current], f)) = Len(frames[current]) + 1
        /\ Append(frames[current], f)[Len(frames[current]) + 1] = f
        /\ \A k \in 1 .. Len(frames[current]) : Append(frames[current], f)[k] = frames[current][k]
    BY <2>2, <1>t
  <2>4. IntrTypeOK'
    BY <2>1, <2>3, <1>t, ZenonT(40) DEF IntrTypeOK
  <2>5. \A t \in Thread : \A k \in 1 .. Len(frames'[t]) : frames'[t][k].at # "external"
    BY <2>1, <2>3, <1>t, NoneOutside
  <2>6. QED
    BY <2>1, <2>4, <2>5, <1>c, <1>s, Outside, Zenon
<1>10. ASSUME NEW lev \in BOOLEAN, intr_set_level(lev) PROVE IntrInv'
  <2>1. /\ ~At("external") /\ UNCHANGED <<current, frames, level, in_external_intr, service>>
        /\ failed' = (failed \/ ~(lev => ~in_external_intr)) /\ flag' \in BOOLEAN
    BY <1>10, <1>i, Zenon DEF intr_set_level, assert
  <2>2. ~failed'
    BY <2>1, <1>c, Zenon
  <2>3. QED
    BY <2>1, <2>2, <1>c, <1>s, <1>t, NoneOutside, Outside, Zenon DEF IntrTypeOK
<1>11. QED
  BY <1>2, <1>3, <1>4, <1>5, <1>6, <1>7, <1>8, <1>9, <1>10, Zenon DEF IntrNext

\* intr_context tells the truth, no assertion of interrupt.c fails, nothing is
\* switched away from inside an external handler, and every interrupt has been
\* acknowledged outside of one, for any threads, vectors and nesting.
THEOREM InterruptsCorrect == IntrSpec => []InterruptsSound
<1>1. IntrInv => InterruptsSound
  <2>1. SUFFICES ASSUME IntrInv PROVE InterruptsSound
    BY Zenon
  <2>2. \A t \in Thread \ {current} : \A k \in DOMAIN frames[t] : frames[t][k].at # "external"
    <3>1. \A t \in Thread : DOMAIN frames[t] = 1 .. Len(frames[t])
      BY <2>1 DEF IntrInv, IntrTypeOK
    <3>2. QED
      BY <2>1, <3>1, Zenon DEF IntrInv, ExternalOnTop
  <2>3. QED
    BY <2>1, <2>2, Zenon DEF IntrInv, ContextInv, InServiceOnly, InterruptsSound, ContextTold, Acknowledged
<1>2. QED
  BY InitInv, StepInv, <1>1, PTL DEF IntrSpec

-----------------------------------------------------------------------------
(***************************************************************************)
(* The theorem that rests on least elements, and what the library says of  *)
(* them.                                                                   *)
(***************************************************************************)
INSTANCE WellFoundedInduction

\* vm_free_frame finds the first entry of a frame that is listed: there is one.
LEMMA LeastHolds == Least
<1> SUFFICES ASSUME NEW S \in SUBSET Nat, S # {}
             PROVE  \E m \in S : \A t \in S : m <= t
  BY Zenon DEF Least
<1>1. PICK m \in S : \A t \in S : <<t, m>> \notin OpToRel(<, Nat)
  BY NatLessThanWellFounded, WFMin, Zenon
<1>2. \A t \in S : ~(t < m)
  BY <1>1, Zenon DEF OpToRel
<1> QED
  BY <1>2

\* For every number of processes, pages and frames: each user frame is free or
\* has one user, whatever loads fail, processes exit and frames are evicted, and
\* until the first eviction the frame table lists it under its user
\* (vm/frame.c, load_segment, setup_stack, grow_stack, pagedir_destroy).
THEOREM FramesCorrect == FrameTableSpec => []FramesSound
<1>1. FrameTableInv /\ [FrameTableNext]_ftVars => FrameTableInv'
  BY LeastHolds, FrameTableNextInv, Zenon
<1>2. FrameTableSpec => []FrameTableInv
  BY FrameTableInitInv, <1>1, PTL DEF FrameTableSpec
<1> QED
  BY <1>2, FrameTableInvSound, PTL
=============================================================================
