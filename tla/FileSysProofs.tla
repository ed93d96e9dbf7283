--------------------------- MODULE FileSysProofs ---------------------------
(***************************************************************************)
(* Proofs about filesys/, for any disk, directory, set of names and number *)
(* of open files: the disk is sound whenever the power fails, open files   *)
(* keep their sectors, the counts of open_inodes are right, and the file   *)
(* system implements the store of named objects its callers believe in.    *)
(***************************************************************************)
EXTENDS FileSys, FiniteSetTheorems, WellFoundedInduction, TLAPS

Inode == [open_cnt : Nat, removed : BOOLEAN, deny_write_cnt : Nat, start : Nat, cnt : Nat]
DirEntry == [in_use : BOOLEAN, name : Name, inode_sector : Sector]
OpenFile == [inode : Sector, deny_write : BOOLEAN]

\* The operations in progress, by where they are.
Creating == [pc : {"inode", "write", "undo"}, name : Name, sector : Sector, cnt : Nat, start : Nat]
Zeroing == [pc : {"zero", "undo"}, name : Name, sector : Sector, left : SUBSET Sector]
Removing == [pc : {"removed"}, sector : Sector]
Releasing == [pc : {"release"}, start : Nat, cnt : Nat]

TypeOK ==
  /\ free_map \in SUBSET Sector /\ disk_map \in SUBSET Sector
  /\ disk_inode \in [Sector -> [start : Nat, cnt : Nat]]
  /\ data \in [Sector -> {"zero", "live", "stale"}]
  /\ slots \in [Slot -> DirEntry \cup {Erased}]
  /\ DOMAIN open_inodes \subseteq Sector
  /\ open_inodes \in [DOMAIN open_inodes -> Inode]
  /\ files \in [File -> OpenFile \cup {NULL}]
  /\ op \in {Idle} \cup Creating \cup Zeroing \cup Removing \cup Releasing

-----------------------------------------------------------------------------
(* The inductive invariant.                                                *)

DataOf(s) == Run(disk_inode[s].start, disk_inode[s].cnt)

\* Inodes that a name or an open inode leads to.
Objects == NamedInodes \cup DOMAIN open_inodes

\* The free map in memory marks what is in use, and what it marks the one on
\* disk marks too.
MapsOK ==
  /\ System \subseteq free_map /\ free_map \subseteq disk_map
  /\ OpSectors \subseteq free_map \ System
  /\ \A s \in Objects : Owned(s) \subseteq free_map \ System

\* No sector has two uses...
Apart ==
  /\ \A s \in Objects : s \notin DataOf(s) /\ Owned(s) \cap OpSectors = {}
  /\ \A s, t \in Objects : s # t => Owned(s) \cap Owned(t) = {}

\* ... nor those of a file being created.
NewApart ==
  /\ op.pc = "write" => op.sector \notin Run(op.start, op.cnt)
  /\ op.pc = "zero" => op.sector \notin DataOf(op.sector)

\* Names are told apart, and so are the files they name.
NamesOK ==
  \A i, j \in Slot : slots[i].in_use /\ slots[j].in_use /\ i # j =>
    slots[i].name # slots[j].name /\ slots[i].inode_sector # slots[j].inode_sector

\* An open inode says what the disk says; it is named until it is removed.
InodesOK ==
  /\ \A s \in DOMAIN open_inodes :
       /\ open_inodes[s].start = disk_inode[s].start /\ open_inodes[s].cnt = disk_inode[s].cnt
       /\ (s \in NamedInodes <=> ~(open_inodes[s].removed \/ (op.pc = "removed" /\ op.sector = s)))
  /\ op.pc = "removed" => op.sector \in DOMAIN open_inodes

\* A file that can be read holds nothing of an earlier one, and one that is
\* being created is all zeros as far as it was cleared.
NoStale == \A s \in Objects : \A d \in DataOf(s) : data[d] # "stale"
Zeroed ==
  op.pc = "zero" => /\ op.left \subseteq DataOf(op.sector)
                    /\ \A d \in DataOf(op.sector) \ op.left : data[d] = "zero"

Core ==
  TypeOK /\ MapsOK /\ Apart /\ NewApart /\ NamesOK /\ InodesOK /\ NoStale /\ Zeroed

FSInv == Core /\ CountsMatch

-----------------------------------------------------------------------------
(* Operators.                                                              *)

\* A run of sectors stays on the disk.
LEMMA RunIn == ASSUME NEW a, NEW n PROVE Run(a, n) \subseteq Sector
  BY Zenon DEF Run

\* A run of length one is its sector.
LEMMA RunOne == ASSUME NEW s \in Sector PROVE Run(s, 1) = {s}
  BY FileSysAssumption DEF Run, Sector

\* A non-empty set of numbers has a first.
LEMMA FirstIn ==
  ASSUME NEW S \in SUBSET Nat, S # {}
  PROVE  First(S) \in S /\ \A t \in S : First(S) <= t
<1>1. PICK m \in S : \A t \in S : <<t, m>> \notin OpToRel(<, Nat)
  BY NatLessThanWellFounded, WFMin, Zenon
<1>2. \A t \in S : ~(t < m)
  BY <1>1, Zenon DEF OpToRel
<1>3. \A t \in S : m <= t
  BY <1>2
<1> QED
  BY <1>3, Zenon DEF First

\* Sectors and directory slots are numbers.
LEMMA SectorsNat == Sector \subseteq Nat /\ Slot \subseteq Nat
  BY FileSysAssumption DEF Sector, Slot

\* free_map_allocate takes sectors that were free.
LEMMA Allocated ==
  ASSUME TypeOK, NEW cnt \in Nat, NEW start \in Sector, free_map_allocate(cnt, start)
  PROVE  /\ Run(start, cnt) \cap free_map = {}
         /\ free_map' = free_map \cup Run(start, cnt) /\ disk_map' = free_map'
<1>1. start \in Candidates(cnt)
  BY FirstIn, SectorsNat, Zenon DEF free_map_allocate, Candidates
<1> QED
  BY <1>1, Zenon DEF free_map_allocate, Candidates

\* free_map_release gives back F in memory, on disk only if the write worked.
LEMMA Released ==
  ASSUME TypeOK, NEW F, free_map_release(F)
  PROVE  /\ free_map' = free_map \ F
         /\ disk_map' = free_map' \/ disk_map' = disk_map
         /\ data' \in [Sector -> {"zero", "live", "stale"}]
         /\ \A d \in Sector \ F : data'[d] = data[d]
  BY Zenon DEF free_map_release, TypeOK

\* What op is, by where the operation stands.
LEMMA OpFields ==
  ASSUME TypeOK
  PROVE  /\ op = Idle => op.pc = "idle"
         /\ op.pc \in {"inode", "write"} => op \in Creating
         /\ op.pc = "zero" => op \in Zeroing
         /\ op.pc = "undo" => op \in Creating \cup Zeroing
         /\ op.pc = "removed" => op \in Removing
         /\ op.pc = "release" => op \in Releasing
<1>1. Idle.pc = "idle"
  BY Zenon DEF Idle
<1>2. \A o \in Creating : o.pc \in {"inode", "write", "undo"}
  BY Zenon DEF Creating
<1>3. \A o \in Zeroing : o.pc \in {"zero", "undo"}
  BY Zenon DEF Zeroing
<1>4. \A o \in Removing : o.pc = "removed"
  BY Zenon DEF Removing
<1>5. \A o \in Releasing : o.pc = "release"
  BY Zenon DEF Releasing
<1> QED
  BY <1>1, <1>2, <1>3, <1>4, <1>5, Zenon DEF TypeOK

\* Inodes of files are sectors of the disk.
LEMMA ObjectsIn ==
  ASSUME TypeOK
  PROVE  NamedInodes \subseteq Sector /\ Objects \subseteq Sector
  BY DEF TypeOK, Objects, NamedInodes, DirEntry, Erased

-----------------------------------------------------------------------------
(* Steps of an operation in progress.                                      *)

\* Sectors A are taken and F given back, all of them the operation's.
OpMoves(A, F) ==
  /\ free_map' = (free_map \cup A) \ F /\ free_map' \subseteq disk_map'
  /\ A \cap free_map = {} /\ F \subseteq OpSectors
  /\ OpSectors' \subseteq (OpSectors \cup A) \ F
  /\ slots' = slots /\ open_inodes' = open_inodes
  /\ \A s \in Objects : disk_inode'[s] = disk_inode[s]
  /\ \A d \in Sector \ OpSectors : data'[d] = data[d]
  /\ op.pc # "removed" /\ op'.pc # "removed"

\* A step of an operation in progress, described by OpMoves, disturbs no file.
LEMMA OpKeeps ==
  ASSUME Core, TypeOK', NEW A, NEW F, OpMoves(A, F)
  PROVE  MapsOK' /\ Apart' /\ NamesOK' /\ InodesOK' /\ NoStale'
<1> USE DEF Core
<1>1. Objects' = Objects /\ NamedInodes' = NamedInodes
  BY Zenon DEF OpMoves, Objects, NamedInodes
<1>2. \A s \in Objects : Owned(s)' = Owned(s) /\ DataOf(s)' = DataOf(s)
  BY Zenon DEF OpMoves, Owned, DataOf
<1>3. \A s \in Objects : Owned(s) \cap OpSectors = {} /\ Owned(s) \subseteq free_map \ System
  BY Zenon DEF Apart, MapsOK
<1>4. MapsOK'
  <2>1. System \subseteq free_map' /\ OpSectors' \subseteq free_map' \ System
    BY Zenon DEF MapsOK, OpMoves
  <2>2. \A s \in Objects : Owned(s)' \subseteq free_map' \ System
    BY <1>2, <1>3, Zenon DEF OpMoves
  <2> QED
    BY <1>1, <2>1, <2>2, Zenon DEF MapsOK, OpMoves
<1>5. Apart'
  <2>1. \A s \in Objects : Owned(s)' \cap OpSectors' = {}
    BY <1>2, <1>3, Zenon DEF OpMoves
  <2> QED
    BY <1>1, <1>2, <2>1, Zenon DEF Apart
<1>6. NamesOK'
  BY Zenon DEF NamesOK, OpMoves
<1>7. InodesOK'
  BY <1>1, Zenon DEF InodesOK, OpMoves, Objects
<1>8. NoStale'
  <2>1. \A s \in Objects : DataOf(s) \subseteq Sector \ OpSectors
    BY <1>3, RunIn, Zenon DEF DataOf, Owned
  <2> QED
    BY <1>1, <1>2, <2>1, Zenon DEF NoStale, OpMoves
<1> QED
  BY <1>4, <1>5, <1>6, <1>7, <1>8, Zenon

\* The sectors that are lost, now and after a step.
LostAre ==
  \A x : x \in Lost <=>
    /\ x \in free_map \ System /\ x \notin OpSectors
    /\ \A s \in NamedInodes : x \notin Owned(s)
    /\ \A s \in DOMAIN open_inodes : x \notin OpenRun(s)

\* What a sector's being lost means in this state, ...
LEMMA LostNow == LostAre
<1> SUFFICES ASSUME NEW x
             PROVE  x \in Lost <=>
                      /\ x \in free_map \ System /\ x \notin OpSectors
                      /\ \A s \in NamedInodes : x \notin Owned(s)
                      /\ \A s \in DOMAIN open_inodes : x \notin OpenRun(s)
  BY Zenon DEF LostAre
<1> DEFINE named == UNION {Owned(s) : s \in NamedInodes}
           open == UNION {OpenRun(s) : s \in DOMAIN open_inodes}
<1>1. x \in named <=> \E s \in NamedInodes : x \in Owned(s)
  BY Zenon
<1>2. x \in open <=> \E s \in DOMAIN open_inodes : x \in OpenRun(s)
  BY Zenon
<1>3. Lost = free_map \ (System \cup OpSectors \cup named \cup open)
  BY Zenon DEF Lost
<1> HIDE DEF named, open
<1> QED
  BY <1>1, <1>2, <1>3, Zenon

\* ... and in the next.
LEMMA LostNext == LostAre'
  BY LostNow, PTL

\* Nothing is lost if the operation keeps track of what it does not give back.
LEMMA OpLosesNothing ==
  ASSUME Core, NEW A, NEW F, OpMoves(A, F), OpSectors \cup A \subseteq OpSectors' \cup F
  PROVE  Lost' \subseteq Lost
<1>1. NamedInodes' = NamedInodes /\ NamedInodes \subseteq Objects
  BY Zenon DEF OpMoves, Objects, NamedInodes
<1>2. \A s \in NamedInodes : Owned(s)' = Owned(s)
  BY <1>1, Zenon DEF OpMoves, Owned
<1>3. \A s : OpenRun(s)' = OpenRun(s)
  BY Zenon DEF OpMoves, OpenRun
<1> QED
  BY <1>1, <1>2, <1>3, LostNow, LostNext DEF LostAre, OpMoves

\* OpSectors, case by case, now and after a step.
OpSectorsAre ==
  /\ op.pc \in {"inode", "undo"} => OpSectors = {op.sector}
  /\ op.pc = "write" => OpSectors = {op.sector} \cup Run(op.start, op.cnt)
  /\ op.pc = "zero" => OpSectors = Owned(op.sector)
  /\ op.pc = "release" => OpSectors = Run(op.start, op.cnt)
  /\ op.pc \in {"idle", "removed"} => OpSectors = {}

\* What the operation in progress has taken, in this state, ...
LEMMA OpSectorsNow == OpSectorsAre
  BY Zenon DEF OpSectorsAre, OpSectors

\* ... and in the next.
LEMMA OpSectorsNext == OpSectorsAre'
  BY OpSectorsNow, PTL

\* filesys_create takes a sector for the inode.
LEMMA CreateStartKeeps ==
  ASSUME Core, NEW n \in Name, NEW cnt \in Sizes, CreateStart(n, cnt)
  PROVE  Core' /\ Lost' \subseteq Lost
<1>0. TypeOK /\ op.pc = "idle" /\ cnt \in Nat /\ 1 \in Nat
  BY OpFields, FileSysAssumption, Zenon DEF Core, CreateStart
<1>1. PICK s \in Sector :
        /\ free_map_allocate(1, s)
        /\ op' = [pc |-> "inode", name |-> n, sector |-> s, cnt |-> cnt, start |-> 0]
  BY Zenon DEF CreateStart
<1>2. /\ {s} \cap free_map = {} /\ free_map' = free_map \cup {s} /\ disk_map' = free_map'
  BY <1>0, <1>1, Allocated, RunOne, Zenon
<1>3. UNCHANGED <<disk_inode, data, slots, open_inodes, files>>
  BY Zenon DEF CreateStart
<1>4. op' \in Creating /\ op'.pc = "inode" /\ op'.sector = s
  BY <1>0, <1>1, Zenon DEF Creating
<1>5. TypeOK'
  BY <1>0, <1>2, <1>3, <1>4, Zenon DEF TypeOK
<1>6. OpSectors = {} /\ OpSectors' = {s}
  BY <1>0, <1>4, OpSectorsNow, OpSectorsNext, Zenon DEF OpSectorsAre
<1>7. OpMoves({s}, {})
  BY <1>0, <1>2, <1>3, <1>4, <1>6, Zenon DEF OpMoves
<1>8. NewApart' /\ Zeroed'
  BY <1>4, Zenon DEF NewApart, Zeroed
<1> QED
  BY <1>5, <1>6, <1>7, <1>8, OpKeeps, OpLosesNothing, Zenon DEF Core

\* inode_create takes the data sectors, or finds no room for them.
LEMMA CreateInodeKeeps ==
  ASSUME Core, CreateInode
  PROVE  Core' /\ Lost' \subseteq Lost
<1>0. TypeOK /\ op.pc = "inode" /\ op \in Creating
  BY OpFields, Zenon DEF Core, CreateInode
<1>1. op.name \in Name /\ op.sector \in Sector /\ op.cnt \in Nat
  BY <1>0, Zenon DEF Creating
<1>2. UNCHANGED <<disk_inode, data, slots, open_inodes, files>>
  BY Zenon DEF CreateInode
<1>3. OpSectors = {op.sector} /\ op.sector \in free_map
  BY <1>0, OpSectorsNow, Zenon DEF OpSectorsAre, Core, MapsOK
<1>4. ASSUME NEW s \in Sector, free_map_allocate(op.cnt, s),
             op' = [pc |-> "write", name |-> op.name, sector |-> op.sector,
                    cnt |-> op.cnt, start |-> s]
      PROVE  Core' /\ Lost' \subseteq Lost
  <2>1. /\ Run(s, op.cnt) \cap free_map = {} /\ disk_map' = free_map'
        /\ free_map' = free_map \cup Run(s, op.cnt)
    BY <1>0, <1>1, <1>4, Allocated, Zenon
  <2>2. /\ op' \in Creating /\ op'.pc = "write" /\ op'.sector = op.sector
        /\ op'.start = s /\ op'.cnt = op.cnt
    BY <1>1, <1>4, SectorsNat, Zenon DEF Creating
  <2>3. TypeOK'
    BY <1>0, <1>2, <2>1, <2>2, RunIn, Zenon DEF TypeOK
  <2>4. OpSectors' = {op.sector} \cup Run(s, op.cnt)
    BY <2>2, OpSectorsNext, Zenon DEF OpSectorsAre
  <2>5. OpMoves(Run(s, op.cnt), {})
    BY <1>0, <1>2, <1>3, <2>1, <2>2, <2>4, Zenon DEF OpMoves
  <2>6. NewApart' /\ Zeroed'
    BY <1>3, <2>1, <2>2, Zenon DEF NewApart, Zeroed
  <2> QED
    BY <1>3, <2>3, <2>4, <2>5, <2>6, OpKeeps, OpLosesNothing, Zenon DEF Core
<1>5. ASSUME op' = [op EXCEPT !.pc = "undo"], UNCHANGED <<free_map, disk_map>>
      PROVE  Core' /\ Lost' \subseteq Lost
  <2>1. op' \in Creating /\ op'.pc = "undo" /\ op'.sector = op.sector
    BY <1>0, <1>5, Zenon DEF Creating
  <2>2. TypeOK'
    BY <1>0, <1>2, <1>5, <2>1, Zenon DEF TypeOK
  <2>3. OpSectors' = {op.sector}
    BY <2>1, OpSectorsNext, Zenon DEF OpSectorsAre
  <2>4. OpMoves({}, {})
    BY <1>0, <1>2, <1>3, <1>5, <2>1, <2>3, Zenon DEF OpMoves, Core, MapsOK
  <2>5. NewApart' /\ Zeroed'
    BY <2>1, Zenon DEF NewApart, Zeroed
  <2> QED
    BY <1>3, <2>2, <2>3, <2>4, <2>5, OpKeeps, OpLosesNothing, Zenon DEF Core
<1> QED
  BY <1>4, <1>5, Zenon DEF CreateInode

\* inode_create writes the inode; its sectors become the new file's.
LEMMA CreateWriteKeeps ==
  ASSUME Core, CreateWrite
  PROVE  Core' /\ Lost' \subseteq Lost
<1>0. TypeOK /\ op.pc = "write" /\ op \in Creating
  BY OpFields, Zenon DEF Core, CreateWrite
<1>1. op.name \in Name /\ op.sector \in Sector /\ op.cnt \in Nat /\ op.start \in Nat
  BY <1>0, Zenon DEF Creating
<1>2. UNCHANGED <<free_map, disk_map, data, slots, open_inodes, files>>
  BY Zenon DEF CreateWrite
<1>3. /\ disk_inode' \in [Sector -> [start : Nat, cnt : Nat]]
      /\ disk_inode'[op.sector] = [start |-> op.start, cnt |-> op.cnt]
      /\ \A s \in Sector : s # op.sector => disk_inode'[s] = disk_inode[s]
  BY <1>0, <1>1, Zenon DEF CreateWrite, TypeOK
<1>4. /\ op' \in Zeroing /\ op'.pc = "zero" /\ op'.sector = op.sector
      /\ op'.left = Run(op.start, op.cnt)
  BY <1>1, RunIn, Zenon DEF CreateWrite, Zeroing
<1>5. TypeOK'
  BY <1>0, <1>2, <1>3, <1>4, Zenon DEF TypeOK
<1>6. /\ DataOf(op.sector)' = Run(op.start, op.cnt)
      /\ Owned(op.sector)' = {op.sector} \cup Run(op.start, op.cnt)
  BY <1>3, <1>4 DEF DataOf, Owned
<1>7. OpSectors = {op.sector} \cup Run(op.start, op.cnt) /\ OpSectors' = OpSectors
  BY <1>0, <1>4, <1>6, OpSectorsNow, OpSectorsNext, Zenon DEF OpSectorsAre, Owned
<1>8. \A s \in Objects : s # op.sector /\ s \in Sector
  BY <1>0, <1>7, ObjectsIn, Zenon DEF Core, Apart, Owned
<1>9. OpMoves({}, {})
  BY <1>0, <1>2, <1>3, <1>4, <1>7, <1>8, Zenon DEF OpMoves, Core, MapsOK
<1>10. NewApart'
  BY <1>0, <1>4, <1>6, Zenon DEF NewApart, Core, DataOf
<1>11. Zeroed'
  BY <1>4, <1>6, Zenon DEF Zeroed, DataOf
<1> QED
  BY <1>5, <1>7, <1>9, <1>10, <1>11, OpKeeps, OpLosesNothing, Zenon DEF Core

\* inode_create clears one data sector.
LEMMA CreateZeroKeeps ==
  ASSUME Core, CreateZero
  PROVE  Core' /\ Lost' \subseteq Lost
<1>0. TypeOK /\ op.pc = "zero" /\ op \in Zeroing /\ op.left # {}
  BY OpFields, Zenon DEF Core, CreateZero
<1>1. op.name \in Name /\ op.sector \in Sector /\ op.left \in SUBSET Sector
  BY <1>0, Zenon DEF Zeroing
<1>2. UNCHANGED <<free_map, disk_map, disk_inode, slots, open_inodes, files>>
  BY Zenon DEF CreateZero
<1>3. PICK s \in op.left : /\ data' = [data EXCEPT ![s] = "zero"]
                           /\ op' = [op EXCEPT !.left = @ \ {s}]
  BY <1>0, <1>1, FirstIn, SectorsNat, Zenon DEF CreateZero
<1>4. /\ op' \in Zeroing /\ op'.pc = "zero" /\ op'.sector = op.sector
      /\ op'.left = op.left \ {s}
  BY <1>0, <1>1, <1>3, Zenon DEF Zeroing
<1>5. /\ data' \in [Sector -> {"zero", "live", "stale"}] /\ data'[s] = "zero"
      /\ \A d \in Sector \ {s} : data'[d] = data[d]
  BY <1>0, <1>1, <1>3, Zenon DEF TypeOK
<1>6. TypeOK'
  BY <1>0, <1>2, <1>4, <1>5, Zenon DEF TypeOK
<1>7. op.left \subseteq DataOf(op.sector) /\ DataOf(op.sector)' = DataOf(op.sector)
  BY <1>0, <1>2, <1>4, Zenon DEF Core, Zeroed, DataOf
<1>8. OpSectors = Owned(op.sector) /\ OpSectors' = OpSectors /\ s \in OpSectors
  BY <1>0, <1>2, <1>4, <1>7, OpSectorsNow, OpSectorsNext, Zenon DEF OpSectorsAre, Owned, DataOf
<1>9. OpMoves({}, {})
  BY <1>0, <1>2, <1>4, <1>5, <1>8, Zenon DEF OpMoves, Core, MapsOK
<1>10. NewApart'
  BY <1>0, <1>4, <1>7, Zenon DEF NewApart, Core
<1>11. Zeroed'
  <2>1. \A d \in DataOf(op.sector) \ op'.left : data'[d] = "zero"
    BY <1>0, <1>4, <1>5, RunIn, Zenon DEF Core, Zeroed, DataOf
  <2> QED
    BY <1>4, <1>7, <2>1, Zenon DEF Zeroed
<1> QED
  BY <1>6, <1>8, <1>9, <1>10, <1>11, OpKeeps, OpLosesNothing, Zenon DEF Core

\* dir_add refuses: the operation forgets the data sectors.
LEMMA CreateAddFailsKeeps ==
  ASSUME Core, op.pc = "zero", op' = [op EXCEPT !.pc = "undo"],
         UNCHANGED <<free_map, disk_map, disk_inode, data, slots, open_inodes, files>>
  PROVE  Core'
<1>0. TypeOK /\ op \in Zeroing
  BY OpFields, Zenon DEF Core
<1>1. op' \in Zeroing /\ op'.pc = "undo" /\ op'.sector = op.sector
  BY <1>0, Zenon DEF Zeroing
<1>2. TypeOK'
  BY <1>0, <1>1, Zenon DEF TypeOK
<1>3. OpSectors = Owned(op.sector) /\ OpSectors' = {op.sector}
  BY <1>1, OpSectorsNow, OpSectorsNext, Zenon DEF OpSectorsAre
<1>4. OpMoves({}, {})
  BY <1>1, <1>3, Zenon DEF OpMoves, Core, MapsOK, Owned
<1>5. NewApart' /\ Zeroed'
  BY <1>1, Zenon DEF NewApart, Zeroed
<1> QED
  BY <1>2, <1>4, <1>5, OpKeeps, Zenon DEF Core

\* filesys_create gives the inode's sector back after a failure.
LEMMA CreateUndoKeeps ==
  ASSUME Core, CreateUndo
  PROVE  Core' /\ Lost' \subseteq Lost
<1>0. TypeOK /\ op.pc = "undo" /\ op \in Creating \cup Zeroing
  BY OpFields, Zenon DEF Core, CreateUndo
<1>1. op.sector \in Sector
  BY <1>0, Zenon DEF Creating, Zeroing
<1>2. op' = Idle /\ op'.pc = "idle" /\ UNCHANGED <<disk_inode, slots, open_inodes, files>>
  BY Zenon DEF CreateUndo, Idle
<1>3. /\ free_map' = free_map \ {op.sector} /\ (disk_map' = free_map' \/ disk_map' = disk_map)
      /\ data' \in [Sector -> {"zero", "live", "stale"}]
      /\ \A d \in Sector \ {op.sector} : data'[d] = data[d]
  BY <1>0, Released, Zenon DEF CreateUndo
<1>4. TypeOK'
  BY <1>0, <1>2, <1>3, Zenon DEF TypeOK
<1>5. OpSectors = {op.sector} /\ OpSectors' = {}
  BY <1>0, <1>2, OpSectorsNow, OpSectorsNext, Zenon DEF OpSectorsAre
<1>6. OpMoves({}, {op.sector})
  BY <1>0, <1>2, <1>3, <1>5, Zenon DEF OpMoves, Core, MapsOK
<1>7. NewApart' /\ Zeroed'
  BY <1>2, Zenon DEF NewApart, Zeroed
<1> QED
  BY <1>4, <1>5, <1>6, <1>7, OpKeeps, OpLosesNothing, Zenon DEF Core

\* inode_close of a removed file gives its data sectors back.
LEMMA ReleaseKeeps ==
  ASSUME Core, Release
  PROVE  Core' /\ Lost' \subseteq Lost
<1> DEFINE F == Run(op.start, op.cnt)
<1>0. TypeOK /\ op.pc = "release"
  BY Zenon DEF Core, Release
<1>1. op' = Idle /\ op'.pc = "idle" /\ UNCHANGED <<disk_inode, slots, open_inodes, files>>
  BY Zenon DEF Release, Idle
<1>2. /\ free_map' = free_map \ F /\ (disk_map' = free_map' \/ disk_map' = disk_map)
      /\ data' \in [Sector -> {"zero", "live", "stale"}]
      /\ \A d \in Sector \ F : data'[d] = data[d]
  BY <1>0, Released, Zenon DEF Release
<1>3. OpSectors = F /\ OpSectors' = {}
  BY <1>0, <1>1, OpSectorsNow, OpSectorsNext, Zenon DEF OpSectorsAre
<1> HIDE DEF F
<1>4. TypeOK'
  BY <1>0, <1>1, <1>2, Zenon DEF TypeOK
<1>5. OpMoves({}, F)
  BY <1>0, <1>1, <1>2, <1>3, Zenon DEF OpMoves, Core, MapsOK
<1>6. NewApart' /\ Zeroed'
  BY <1>1 DEF NewApart, Zeroed
<1> QED
  BY <1>3, <1>4, <1>5, <1>6, OpKeeps, OpLosesNothing, Zenon DEF Core

-----------------------------------------------------------------------------
(* The table of open inodes.                                               *)

\* Tables i and j differ in counts and marks of s only.
SameTable(i, j, s) ==
  /\ DOMAIN j = DOMAIN i /\ j \in [DOMAIN j -> Inode]
  /\ \A t \in DOMAIN i \ {s} : j[t] = i[t]
  /\ j[s].start = i[s].start /\ j[s].cnt = i[s].cnt

\* inode_open changes the count of one inode, or adds one as the disk has it.
LEMMA InodeOpened ==
  ASSUME TypeOK, NEW s \in Sector, inode_open(s)
  PROVE  /\ DOMAIN open_inodes' = DOMAIN open_inodes \cup {s}
         /\ open_inodes' \in [DOMAIN open_inodes' -> Inode]
         /\ \A t \in DOMAIN open_inodes \ {s} : open_inodes'[t] = open_inodes[t]
         /\ s \in DOMAIN open_inodes =>
              /\ open_inodes'[s].start = open_inodes[s].start
              /\ open_inodes'[s].cnt = open_inodes[s].cnt
              /\ open_inodes'[s].removed = open_inodes[s].removed
              /\ open_inodes'[s].open_cnt = open_inodes[s].open_cnt + 1
              /\ open_inodes'[s].deny_write_cnt = open_inodes[s].deny_write_cnt
         /\ s \notin DOMAIN open_inodes =>
              /\ open_inodes'[s].start = disk_inode[s].start
              /\ open_inodes'[s].cnt = disk_inode[s].cnt
              /\ open_inodes'[s].removed = FALSE
              /\ open_inodes'[s].open_cnt = 1 /\ open_inodes'[s].deny_write_cnt = 0
<1>1. CASE s \in DOMAIN open_inodes
  <2>1. open_inodes' = [open_inodes EXCEPT ![s].open_cnt = @ + 1]
    BY <1>1, Zenon DEF inode_open
  <2>2. open_inodes \in [DOMAIN open_inodes -> Inode]
    BY Zenon DEF TypeOK
  <2>3. /\ SameTable(open_inodes, open_inodes', s)
        /\ open_inodes'[s].open_cnt = open_inodes[s].open_cnt + 1
        /\ open_inodes'[s].removed = open_inodes[s].removed
        /\ open_inodes'[s].deny_write_cnt = open_inodes[s].deny_write_cnt
    BY <1>1, <2>1, <2>2 DEF SameTable, Inode
  <2> QED
    BY <1>1, <2>3, Zenon DEF SameTable
<1>2. CASE s \notin DOMAIN open_inodes
  <2> DEFINE new == [open_cnt |-> 1, removed |-> FALSE, deny_write_cnt |-> 0,
                     start |-> disk_inode[s].start, cnt |-> disk_inode[s].cnt]
  <2>1. open_inodes' = [t \in DOMAIN open_inodes \cup {s} |-> IF t = s THEN new ELSE open_inodes[t]]
    BY <1>2, Zenon DEF inode_open
  <2>2. /\ new \in Inode /\ new.start = disk_inode[s].start /\ new.cnt = disk_inode[s].cnt
        /\ new.removed = FALSE /\ new.open_cnt = 1 /\ new.deny_write_cnt = 0
    BY Zenon DEF TypeOK, Inode
  <2> HIDE DEF new
  <2>3. open_inodes' \in [DOMAIN open_inodes \cup {s} -> Inode]
    BY <2>1, <2>2, Zenon DEF TypeOK
  <2> QED
    BY <1>2, <2>1, <2>2, <2>3, Zenon
<1> QED
  BY <1>1, <1>2, Zenon

-----------------------------------------------------------------------------
(* Names.                                                                  *)

\* An inode is named by a slot in use.
LEMMA NamedIs ==
  ASSUME NEW s
  PROVE  s \in NamedInodes <=> \E i \in Slot : slots[i].in_use /\ slots[i].inode_sector = s
  BY Zenon DEF NamedInodes

\* dir_add gives the new file its name: from then on the name leads to it.
LEMMA CreateAddKeeps ==
  ASSUME Core, op.pc = "zero", op.left = {}, Matches(op.name) = {}, FreeSlots # {},
         slots' = [slots EXCEPT ![First(FreeSlots)] =
                     [in_use |-> TRUE, name |-> op.name, inode_sector |-> op.sector]],
         op' = Idle, UNCHANGED <<free_map, disk_map, disk_inode, data, open_inodes, files>>
  PROVE  Core' /\ Lost' \subseteq Lost
<1>0. TypeOK /\ op \in Zeroing
  BY OpFields, Zenon DEF Core
<1>1. PICK new \in Sector : new = op.sector
  BY <1>0, Zenon DEF Zeroing
<1>2. PICK k \in Slot : k = First(FreeSlots) /\ slots[k].in_use = FALSE
  <2>1. FreeSlots \in SUBSET Nat
    BY SectorsNat, Zenon DEF FreeSlots
  <2>2. First(FreeSlots) \in FreeSlots
    BY <2>1, FirstIn, Zenon
  <2> QED
    BY <2>2, <1>0 DEF FreeSlots, TypeOK, DirEntry, Erased
<1> DEFINE entry == [in_use |-> TRUE, name |-> op.name, inode_sector |-> new]
<1>3. /\ entry \in DirEntry /\ entry.in_use = TRUE /\ entry.name = op.name
      /\ entry.inode_sector = new
  BY <1>0, Zenon DEF Zeroing, DirEntry
<1>4. slots' = [slots EXCEPT ![k] = entry]
  BY <1>1, <1>2, Zenon
<1> HIDE DEF entry
<1>5. /\ slots' \in [Slot -> DirEntry \cup {Erased}] /\ slots'[k] = entry
      /\ \A i \in Slot \ {k} : slots'[i] = slots[i]
  BY <1>0, <1>3, <1>4, ZenonT(40) DEF TypeOK
<1>6. op'.pc = "idle"
  BY Zenon DEF Idle
<1>7. TypeOK'
  BY <1>0, <1>5, Zenon DEF TypeOK
<1>8. NamedInodes' = NamedInodes \cup {new} /\ Objects' = Objects \cup {new}
  <2>1. \A s : s \in NamedInodes' <=> \E i \in Slot : slots'[i].in_use /\ slots'[i].inode_sector = s
    BY Zenon DEF NamedInodes
  <2>2. \A s : s \in NamedInodes' <=> s \in NamedInodes \/ s = new
    BY <1>2, <1>3, <1>5, <2>1, NamedIs
  <2> QED
    BY <2>2, Zenon DEF Objects
<1>9. OpSectors = Owned(new) /\ OpSectors' = {}
  BY <1>1, <1>6, OpSectorsNow, OpSectorsNext, Zenon DEF OpSectorsAre
<1>10. \A s : Owned(s)' = Owned(s) /\ DataOf(s)' = DataOf(s)
  BY Zenon DEF Owned, DataOf
<1>11. new \in Owned(new) /\ \A s \in Objects : s \in Owned(s) /\ Owned(s) \cap Owned(new) = {}
  BY <1>9, Zenon DEF Owned, Core, Apart
<1>12. new \notin Objects
  BY <1>11, Zenon
<1>13. MapsOK'
  BY <1>8, <1>9, <1>10, Zenon DEF Core, MapsOK
<1>14. Apart'
  BY <1>1, <1>8, <1>9, <1>10, <1>11, ZenonT(40) DEF Core, Apart, NewApart
<1>15. NewApart' /\ Zeroed'
  BY <1>6, Zenon DEF NewApart, Zeroed
<1>16. NamesOK'
  <2>1. ASSUME NEW i \in Slot \ {k}, slots[i].in_use
        PROVE  slots[i].name # op.name /\ slots[i].inode_sector # new
    BY <1>12, <2>1, Zenon DEF Matches, NamedInodes, Objects
  <2> QED
    BY <1>3, <1>5, <2>1 DEF Core, NamesOK
<1>17. InodesOK'
  BY <1>6, <1>8, <1>12, Zenon DEF Core, InodesOK, Objects
<1>18. NoStale'
  BY <1>1, <1>8, <1>10, Zenon DEF Core, NoStale, Zeroed
<1>19. Lost' \subseteq Lost
  <2>1. \A s : OpenRun(s)' = OpenRun(s)
    BY Zenon DEF OpenRun
  <2> QED
    BY <1>8, <1>9, <1>10, <2>1, LostNow, LostNext, Zenon DEF LostAre
<1> QED
  BY <1>7, <1>13, <1>14, <1>15, <1>16, <1>17, <1>18, <1>19, Zenon DEF Core

-----------------------------------------------------------------------------
(* Opening and removing.                                                   *)

\* The sectors an open inode stands for are those the disk gives it.
LEMMA OpenRunIs ==
  ASSUME InodesOK, NEW s \in DOMAIN open_inodes
  PROVE  OpenRun(s) = Owned(s)
  BY Zenon DEF InodesOK, OpenRun, Owned

\* Inodes that something leads to keep their sectors, whatever leads to them.
LEMMA ObjectsKept ==
  ASSUME Core, TypeOK', NamesOK', InodesOK', Objects' = Objects,
         op.pc \in {"idle", "removed"}, op'.pc \in {"idle", "removed"},
         UNCHANGED <<free_map, disk_map, disk_inode, data>>
  PROVE  Core' /\ Lost' \subseteq Lost
<1>1. \A s : Owned(s)' = Owned(s) /\ DataOf(s)' = DataOf(s)
  BY Zenon DEF Owned, DataOf
<1>2. OpSectors = {} /\ OpSectors' = {}
  BY OpSectorsNow, OpSectorsNext, Zenon DEF OpSectorsAre
<1>3. MapsOK' /\ Apart'
  BY <1>1, <1>2, Zenon DEF Core, MapsOK, Apart
<1>4. NewApart' /\ Zeroed'
  BY Zenon DEF NewApart, Zeroed
<1>5. NoStale'
  BY <1>1, Zenon DEF Core, NoStale
<1>6. /\ \A s \in DOMAIN open_inodes : OpenRun(s) = Owned(s)
      /\ \A s \in DOMAIN open_inodes' : OpenRun(s)' = Owned(s)
  <2>1. \A s \in DOMAIN open_inodes : OpenRun(s) = Owned(s)
    BY OpenRunIs, Zenon DEF Core
  <2>2. \A s \in DOMAIN open_inodes' : OpenRun(s)' = Owned(s)'
    BY Zenon DEF InodesOK, OpenRun, Owned
  <2> QED
    BY <1>1, <2>1, <2>2, Zenon
<1>7. ASSUME NEW x PROVE x \in Lost' => x \in Lost
  <2>1. x \in Lost <=> x \in free_map \ System /\ \A s \in Objects : x \notin Owned(s)
    BY <1>2, <1>6, LostNow DEF LostAre, Objects
  <2>2. x \in Lost' <=> x \in free_map \ System /\ \A s \in Objects' : x \notin Owned(s)
    BY <1>1, <1>2, <1>6, LostNext DEF LostAre, Objects
  <2> QED
    BY <2>1, <2>2, Zenon
<1> QED
  BY <1>3, <1>4, <1>5, <1>7, Zenon DEF Core

\* An inode that has a name is opened: it says what the disk says.
LEMMA NamedOpened ==
  ASSUME Core, op.pc = "idle", NEW s \in NamedInodes, inode_open(s), disk_inode' = disk_inode
  PROVE  /\ DOMAIN open_inodes' = DOMAIN open_inodes \cup {s}
         /\ open_inodes' \in [DOMAIN open_inodes' -> Inode]
         /\ DOMAIN open_inodes' \subseteq Sector
         /\ \A t \in DOMAIN open_inodes' :
              /\ open_inodes'[t].start = disk_inode'[t].start
              /\ open_inodes'[t].cnt = disk_inode'[t].cnt
              /\ t \in NamedInodes <=> ~open_inodes'[t].removed
<1>0. TypeOK /\ s \in Sector /\ InodesOK
  BY ObjectsIn, Zenon DEF Core
<1>1. /\ DOMAIN open_inodes' = DOMAIN open_inodes \cup {s}
      /\ open_inodes' \in [DOMAIN open_inodes' -> Inode]
  BY <1>0, InodeOpened, Zenon
<1>2. ASSUME NEW t \in DOMAIN open_inodes
      PROVE  /\ open_inodes[t].start = disk_inode[t].start /\ open_inodes[t].cnt = disk_inode[t].cnt
             /\ t \in NamedInodes <=> ~open_inodes[t].removed
  BY <1>0, <1>2, Zenon DEF InodesOK
<1>3. ASSUME NEW t \in DOMAIN open_inodes \ {s} PROVE open_inodes'[t] = open_inodes[t]
  BY <1>0, <1>3, InodeOpened, Zenon
<1>4. /\ open_inodes'[s].start = disk_inode[s].start /\ open_inodes'[s].cnt = disk_inode[s].cnt
      /\ ~open_inodes'[s].removed
  <2>1. CASE s \in DOMAIN open_inodes
    BY <1>0, <1>2, <2>1, InodeOpened, Zenon
  <2>2. CASE s \notin DOMAIN open_inodes
    BY <1>0, <2>2, InodeOpened, Zenon
  <2> QED
    BY <2>1, <2>2, Zenon
<1> QED
  BY <1>0, <1>1, <1>2, <1>3, <1>4, Zenon DEF TypeOK

\* dir_remove erases the name and keeps the inode open.
LEMMA RemoveKeeps ==
  ASSUME Core, NEW n \in Name, Remove(n)
  PROVE  Core' /\ Lost' \subseteq Lost
<1>0. TypeOK /\ op.pc = "idle"
  BY OpFields, Zenon DEF Core, Remove
<1>1. PICK k \in Slot : /\ slots[k].in_use
                        /\ slots' = [slots EXCEPT ![k] = Erased]
                        /\ op' = [pc |-> "removed", sector |-> slots[k].inode_sector]
                        /\ inode_open(slots[k].inode_sector)
  BY Zenon DEF Remove, lookup, Matches
<1>2. PICK s \in Sector : s = slots[k].inode_sector
  BY <1>0, <1>1 DEF TypeOK, DirEntry, Erased
<1>3. UNCHANGED <<free_map, disk_map, disk_inode, data, files>>
  BY Zenon DEF Remove
<1>4. op' \in Removing /\ op'.pc = "removed" /\ op'.sector = s
  BY <1>1, <1>2, Zenon DEF Removing
<1>5. /\ slots' \in [Slot -> DirEntry \cup {Erased}] /\ slots'[k] = Erased
      /\ \A i \in Slot \ {k} : slots'[i] = slots[i]
  BY <1>0, <1>1, Zenon DEF TypeOK
<1>6. slots'[k].in_use = FALSE
  BY <1>5 DEF Erased
<1>7. s \in NamedInodes /\ NamedInodes' = NamedInodes \ {s}
  <2>1. \A t : t \in NamedInodes' <=> \E i \in Slot : slots'[i].in_use /\ slots'[i].inode_sector = t
    BY Zenon DEF NamedInodes
  <2>2. \A i \in Slot \ {k} : slots[i].in_use => slots[i].inode_sector # s
    BY <1>1, <1>2, Zenon DEF Core, NamesOK
  <2>3. \A t : t \in NamedInodes' <=> t \in NamedInodes /\ t # s
    BY <1>2, <1>5, <1>6, <2>1, <2>2, NamedIs
  <2> QED
    BY <1>1, <1>2, <2>3, NamedIs, Zenon
<1>8. /\ DOMAIN open_inodes' = DOMAIN open_inodes \cup {s}
      /\ open_inodes' \in [DOMAIN open_inodes' -> Inode] /\ DOMAIN open_inodes' \subseteq Sector
      /\ \A t \in DOMAIN open_inodes' :
           /\ open_inodes'[t].start = disk_inode'[t].start
           /\ open_inodes'[t].cnt = disk_inode'[t].cnt
           /\ t \in NamedInodes <=> ~open_inodes'[t].removed
  BY <1>0, <1>1, <1>2, <1>3, <1>7, NamedOpened, Zenon
<1>9. TypeOK'
  BY <1>0, <1>3, <1>4, <1>5, <1>8, Zenon DEF TypeOK
<1>10. Objects' = Objects
  BY <1>8, <1>7, Zenon DEF Objects
<1>11. NamesOK'
  BY <1>5, <1>6 DEF Core, NamesOK
<1>12. InodesOK'
  BY <1>4, <1>8, <1>7, Zenon DEF InodesOK
<1> QED
  BY <1>0, <1>3, <1>4, <1>9, <1>10, <1>11, <1>12, ObjectsKept, Zenon

\* filesys_open opens the inode the name leads to.
LEMMA OpenKeeps ==
  ASSUME Core, NEW f \in File, NEW n \in Name, Open(f, n)
  PROVE  Core' /\ Lost' \subseteq Lost
<1>0. TypeOK /\ op.pc = "idle"
  BY OpFields, Zenon DEF Core, Open
<1>1. PICK k \in Slot : /\ slots[k].in_use
                        /\ inode_open(slots[k].inode_sector)
                        /\ files' = [files EXCEPT ![f] = [inode |-> slots[k].inode_sector,
                                                          deny_write |-> FALSE]]
  BY Zenon DEF Open, lookup, Matches
<1>2. PICK s \in Sector : s = slots[k].inode_sector
  BY <1>0, <1>1 DEF TypeOK, DirEntry, Erased
<1>3. UNCHANGED <<free_map, disk_map, disk_inode, data, slots, op>>
  BY Zenon DEF Open, diskVars
<1>4. files' \in [File -> OpenFile \cup {NULL}]
  BY <1>0, <1>1, <1>2, Zenon DEF TypeOK, OpenFile
<1>5. /\ s \in NamedInodes /\ DOMAIN open_inodes' = DOMAIN open_inodes \cup {s}
      /\ open_inodes' \in [DOMAIN open_inodes' -> Inode] /\ DOMAIN open_inodes' \subseteq Sector
      /\ \A t \in DOMAIN open_inodes' :
           /\ open_inodes'[t].start = disk_inode'[t].start
           /\ open_inodes'[t].cnt = disk_inode'[t].cnt
           /\ t \in NamedInodes <=> ~open_inodes'[t].removed
  BY <1>0, <1>1, <1>2, <1>3, NamedIs, NamedOpened, Zenon
<1>6. TypeOK'
  BY <1>0, <1>3, <1>4, <1>5, Zenon DEF TypeOK
<1>7. NamedInodes' = NamedInodes
  BY <1>3, Zenon DEF NamedInodes
<1>8. Objects' = Objects
  BY <1>5, <1>7, Zenon DEF Objects
<1>9. NamesOK'
  BY <1>3, Zenon DEF Core, NamesOK
<1>10. InodesOK'
  BY <1>0, <1>3, <1>5, <1>7, Zenon DEF InodesOK
<1> QED
  BY <1>0, <1>3, <1>6, <1>8, <1>9, <1>10, ObjectsKept, Zenon

\* Only counts of an open inode change.
LEMMA TableKept ==
  ASSUME Core, op.pc = "idle", UNCHANGED <<free_map, diskVars, op>>,
         files' \in [File -> OpenFile \cup {NULL}],
         NEW s \in DOMAIN open_inodes, SameTable(open_inodes, open_inodes', s),
         open_inodes'[s].removed = open_inodes[s].removed
  PROVE  Core' /\ Lost' \subseteq Lost
<1>1. UNCHANGED <<free_map, disk_map, disk_inode, data, slots, op>>
  BY Zenon DEF diskVars
<1>2. TypeOK'
  BY <1>1, Zenon DEF Core, TypeOK, SameTable
<1>3. Objects' = Objects /\ NamedInodes' = NamedInodes
  BY <1>1, Zenon DEF Objects, NamedInodes, SameTable
<1>4. NamesOK'
  BY <1>1, Zenon DEF Core, NamesOK
<1>5. InodesOK'
  BY <1>1, <1>3 DEF Core, InodesOK, SameTable
<1> QED
  BY <1>1, <1>2, <1>3, <1>4, <1>5, ObjectsKept, Zenon

\* Writing a sector of an open file concerns no other file.
LEMMA WriteKeeps ==
  ASSUME Core, op.pc = "idle", NEW s \in DOMAIN open_inodes,
         NEW d \in Run(open_inodes[s].start, open_inodes[s].cnt),
         data' = [data EXCEPT ![d] = "live"],
         UNCHANGED <<free_map, disk_map, disk_inode, slots, open_inodes, files, op>>
  PROVE  Core' /\ Lost' \subseteq Lost
<1>1. data' \in [Sector -> {"zero", "live", "stale"}]
  BY Zenon DEF Core, TypeOK
<1>2. \A e \in Sector : data'[e] = "live" \/ data'[e] = data[e]
  BY Zenon DEF Core, TypeOK
<1>3. TypeOK'
  BY <1>1, Zenon DEF Core, TypeOK
<1>4. \A t : Owned(t)' = Owned(t) /\ DataOf(t)' = DataOf(t) /\ OpenRun(t)' = OpenRun(t)
  BY Zenon DEF Owned, DataOf, OpenRun
<1>5. Objects' = Objects /\ NamedInodes' = NamedInodes
  BY Zenon DEF Objects, NamedInodes
<1>6. OpSectors' = OpSectors
  BY OpSectorsNow, OpSectorsNext, Zenon DEF OpSectorsAre
<1>7. MapsOK' /\ Apart' /\ NewApart' /\ NamesOK' /\ Zeroed'
  BY <1>4, <1>5, <1>6, Zenon DEF Core, MapsOK, Apart, NewApart, NamesOK, Zeroed
<1>8. InodesOK'
  BY <1>5, Zenon DEF Core, InodesOK
<1>9. NoStale'
  <2>1. \A t \in Objects : DataOf(t) \subseteq Sector
    BY RunIn, Zenon DEF DataOf
  <2> QED
    BY <1>2, <1>4, <1>5, <2>1, Zenon DEF Core, NoStale
<1>10. Lost' \subseteq Lost
  BY <1>4, <1>5, <1>6, LostNow, LostNext, Zenon DEF LostAre
<1> QED
  BY <1>3, <1>7, <1>8, <1>9, <1>10, Zenon DEF Core

\* After a power failure the free map is read back from the disk: it covers all
\* files.
\* After a power failure the free map is read back from the disk: it covers all
\* files.
LEMMA RebootKeeps ==
  ASSUME Core, Reboot
  PROVE  Core'
<1>1. /\ UNCHANGED <<disk_map, disk_inode, data, slots>> /\ free_map' = disk_map
      /\ op' = Idle /\ op'.pc = "idle" /\ files' = [f \in File |-> NULL]
  BY Zenon DEF Reboot, diskVars, Idle
<1>2. DOMAIN open_inodes' = {} /\ open_inodes' \in [{} -> Inode]
  BY Zenon DEF Reboot
<1>3. TypeOK'
  BY <1>1, <1>2, Zenon DEF Core, TypeOK
<1>4. \A t : Owned(t)' = Owned(t) /\ DataOf(t)' = DataOf(t)
  BY <1>1, Zenon DEF Owned, DataOf
<1>5. Objects' = NamedInodes /\ NamedInodes' = NamedInodes /\ NamedInodes \subseteq Objects
  BY <1>1, <1>2, Zenon DEF Objects, NamedInodes
<1>6. OpSectors' = {}
  BY <1>1, OpSectorsNext, Zenon DEF OpSectorsAre
<1>7. MapsOK' /\ Apart'
  BY <1>1, <1>4, <1>5, <1>6, Zenon DEF Core, MapsOK, Apart
<1>8. NewApart' /\ NamesOK' /\ InodesOK' /\ Zeroed'
  BY <1>1, <1>2, Zenon DEF Core, NewApart, NamesOK, InodesOK, Zeroed
<1>9. NoStale'
  BY <1>1, <1>4, <1>5, Zenon DEF Core, NoStale
<1> QED
  BY <1>3, <1>7, <1>8, <1>9, Zenon DEF Core

\* inode_close of the inode of sector s, in table i.
LEMMA CloseKeeps ==
  ASSUME Core, op.pc \in {"idle", "removed"}, NEW s \in DOMAIN open_inodes,
         op.pc = "removed" => op.sector = s,
         NEW i, SameTable(open_inodes, i, s), i[s].open_cnt > 0,
         i[s].removed <=> s \notin NamedInodes,
         inode_close(s, i), UNCHANGED <<disk_inode, slots>>,
         files' \in [File -> OpenFile \cup {NULL}]
  PROVE  Core' /\ Lost' \subseteq Lost
<1>0. TypeOK /\ s \in Sector /\ InodesOK
  BY Zenon DEF Core, TypeOK
<1>1. /\ i \in [DOMAIN open_inodes -> Inode] /\ DOMAIN i = DOMAIN open_inodes
      /\ \A t \in DOMAIN open_inodes :
           /\ i[t].start = disk_inode[t].start /\ i[t].cnt = disk_inode[t].cnt
           /\ t # s => (t \in NamedInodes <=> ~i[t].removed)
  BY <1>0 DEF SameTable, InodesOK
<1>2. NamedInodes' = NamedInodes /\ NamesOK'
  BY Zenon DEF NamedInodes, NamesOK, Core
<1>3. CASE i[s].open_cnt > 1
  <2>1. /\ open_inodes' = [i EXCEPT ![s].open_cnt = @ - 1] /\ op' = Idle
        /\ UNCHANGED <<free_map, disk_map, data>>
    BY <1>3, Zenon DEF inode_close
  <2>2. op'.pc = "idle"
    BY <2>1, Zenon DEF Idle
  <2>3. /\ open_inodes' \in [DOMAIN open_inodes -> Inode] /\ DOMAIN open_inodes' = DOMAIN open_inodes
        /\ open_inodes'[s].start = i[s].start /\ open_inodes'[s].cnt = i[s].cnt
        /\ open_inodes'[s].removed = i[s].removed
        /\ \A t \in DOMAIN open_inodes \ {s} : open_inodes'[t] = i[t]
    BY <1>1, <1>3, <2>1 DEF Inode
  <2>4. TypeOK'
    BY <1>0, <2>1, <2>3, Zenon DEF TypeOK
  <2>5. Objects' = Objects
    BY <1>2, <2>3, Zenon DEF Objects
  <2>6. InodesOK'
    BY <1>1, <1>2, <2>2, <2>3 DEF InodesOK
  <2> QED
    BY <1>2, <2>1, <2>2, <2>4, <2>5, <2>6, ObjectsKept, Zenon
<1>4. ASSUME open_inodes' = Restrict(i, DOMAIN i \ {s})
      PROVE  /\ open_inodes' \in [DOMAIN open_inodes' -> Inode]
             /\ DOMAIN open_inodes' = DOMAIN open_inodes \ {s}
             /\ \A t \in DOMAIN open_inodes' : open_inodes'[t] = i[t]
  BY <1>1, <1>4, Zenon DEF Restrict
<1>5. CASE i[s].open_cnt <= 1 /\ ~i[s].removed
  <2>1. /\ open_inodes' = Restrict(i, DOMAIN i \ {s}) /\ op' = Idle
        /\ UNCHANGED <<free_map, disk_map, data>>
    BY <1>1, <1>5 DEF inode_close, Inode
  <2>2. /\ op'.pc = "idle"
        /\ open_inodes' \in [DOMAIN open_inodes' -> Inode]
        /\ DOMAIN open_inodes' = DOMAIN open_inodes \ {s}
        /\ \A t \in DOMAIN open_inodes' : open_inodes'[t] = i[t]
    BY <1>4, <2>1, Zenon DEF Idle
  <2>3. TypeOK'
    BY <1>0, <2>1, <2>2, Zenon DEF TypeOK
  <2>4. Objects' = Objects
    BY <1>2, <1>5, <2>2, Zenon DEF Objects
  <2>5. InodesOK'
    BY <1>1, <1>2, <2>2, Zenon DEF InodesOK
  <2> QED
    BY <1>2, <2>1, <2>2, <2>3, <2>4, <2>5, ObjectsKept, Zenon
<1>6. CASE i[s].open_cnt <= 1 /\ i[s].removed
  <2>1. /\ open_inodes' = Restrict(i, DOMAIN i \ {s}) /\ free_map_release({s})
        /\ op' = [pc |-> "release", start |-> i[s].start, cnt |-> i[s].cnt]
    BY <1>1, <1>6 DEF inode_close, Inode
  <2>2. op' \in Releasing /\ op'.pc = "release" /\ Run(op'.start, op'.cnt) = DataOf(s)
    BY <1>1, <2>1, Zenon DEF Releasing, Inode, DataOf
  <2>3. /\ free_map' = free_map \ {s} /\ (disk_map' = free_map' \/ disk_map' = disk_map)
        /\ data' \in [Sector -> {"zero", "live", "stale"}]
        /\ \A d \in Sector \ {s} : data'[d] = data[d]
    BY <1>0, <2>1, Released, Zenon
  <2>0. /\ open_inodes' \in [DOMAIN open_inodes' -> Inode]
        /\ DOMAIN open_inodes' = DOMAIN open_inodes \ {s}
        /\ \A t \in DOMAIN open_inodes' : open_inodes'[t] = i[t]
    BY <1>4, <2>1, Zenon
  <2>4. TypeOK'
    BY <1>0, <2>0, <2>2, <2>3, Zenon DEF TypeOK
  <2>5. s \in Objects /\ Objects' = Objects \ {s} /\ NamedInodes \subseteq Objects'
    BY <1>2, <1>6, <2>0, Zenon DEF Objects
  <2>6. OpSectors' = DataOf(s) /\ OpSectors = {}
    BY <2>2, OpSectorsNow, OpSectorsNext, Zenon DEF OpSectorsAre
  <2>7. /\ Owned(s) = {s} \cup DataOf(s) /\ s \notin DataOf(s) /\ Owned(s) \subseteq free_map \ System
        /\ \A t \in Objects' : Owned(t) \cap Owned(s) = {}
    BY <2>5, Zenon DEF Core, Apart, MapsOK, Owned, DataOf
  <2>8. \A t : Owned(t)' = Owned(t) /\ DataOf(t)' = DataOf(t)
    BY Zenon DEF Owned, DataOf
  <2>9. MapsOK'
    BY <2>3, <2>5, <2>6, <2>7, <2>8, Zenon DEF Core, MapsOK
  <2>10. Apart'
    BY <2>5, <2>6, <2>7, <2>8, Zenon DEF Core, Apart
  <2>11. NewApart' /\ Zeroed'
    BY <2>2, Zenon DEF NewApart, Zeroed
  <2>12. InodesOK'
    BY <1>1, <1>2, <2>0, <2>2, Zenon DEF InodesOK
  <2>13. NoStale'
    <3>1. \A t \in Objects' : DataOf(t) \subseteq Sector \ {s}
      BY <2>7, RunIn, Zenon DEF DataOf, Owned
    <3> QED
      BY <2>3, <2>5, <2>8, <3>1, Zenon DEF Core, NoStale
  <2>14. Lost' \subseteq Lost
    <3>1. \A t \in DOMAIN open_inodes : OpenRun(t) = Owned(t)
      BY <1>0, OpenRunIs, Zenon
    <3>2. \A t \in DOMAIN open_inodes' : OpenRun(t)' = Owned(t)
      BY <2>8, <2>12, Zenon DEF InodesOK, OpenRun, Owned
    <3> QED
      BY <1>2, <2>0, <2>3, <2>6, <2>7, <2>8, <3>1, <3>2, LostNow, LostNext DEF LostAre
  <2> QED
    BY <1>2, <2>4, <2>9, <2>10, <2>11, <2>12, <2>13, <2>14, Zenon DEF Core
<1>7. i[s].open_cnt > 1 \/ i[s].open_cnt <= 1
  BY <1>1 DEF Inode
<1> QED
  BY <1>3, <1>5, <1>6, <1>7, Zenon

-----------------------------------------------------------------------------
(* Counts.                                                                 *)

\* NULL is no sector and no open file.
LEMMA NullIsNone == NULL \notin Sector /\ NULL \notin OpenFile
<1>1. OpenFile \subseteq [inode : Nat, deny_write : BOOLEAN]
  BY SectorsNat, Zenon DEF OpenFile
<1> QED
  BY <1>1, SectorsNat, FileSysAssumption, Zenon

Deniers(s) == {f \in Opens(s) : files[f].deny_write}
Removes(s) == op.pc = "removed" /\ op.sector = s

\* CountsMatch for one sector, without the case of no holder.
HoldersOK(s) ==
  /\ s \in DOMAIN open_inodes <=> Opens(s) # {} \/ Removes(s)
  /\ s \in DOMAIN open_inodes =>
       /\ open_inodes[s].open_cnt = Cardinality(Opens(s)) + (IF Removes(s) THEN 1 ELSE 0)
       /\ open_inodes[s].deny_write_cnt = Cardinality(Deniers(s))

\* The holders of an inode can be counted, and none is zero.
LEMMA OpensFinite ==
  ASSUME NEW s
  PROVE  /\ IsFiniteSet(Opens(s)) /\ Cardinality(Opens(s)) \in Nat
         /\ Cardinality(Opens(s)) = 0 <=> Opens(s) = {}
         /\ IsFiniteSet(Deniers(s)) /\ Cardinality(Deniers(s)) \in Nat
<1>1. Opens(s) \subseteq File /\ Deniers(s) \subseteq Opens(s)
  BY Zenon DEF Opens, Deniers
<1>2. IsFiniteSet(Opens(s)) /\ IsFiniteSet(Deniers(s))
  BY <1>1, FS_Subset, FileSysAssumption, Zenon
<1> QED
  BY <1>2, FS_CardinalityType, FS_EmptySet, Zenon

CountsAre == CountsMatch <=> \A s \in Sector : HoldersOK(s)

\* CountsMatch, inode by inode, in this state, ...
LEMMA CountsNow == CountsAre
<1>1. ASSUME NEW s \in Sector, NEW h, h = Cardinality(Opens(s)) + (IF Removes(s) THEN 1 ELSE 0)
      PROVE  HoldersOK(s) <=>
               IF h = 0 THEN s \notin DOMAIN open_inodes
               ELSE /\ s \in DOMAIN open_inodes /\ open_inodes[s].open_cnt = h
                    /\ open_inodes[s].deny_write_cnt = Cardinality(Deniers(s))
  <2>1. h = 0 <=> Opens(s) = {} /\ ~Removes(s)
    BY <1>1, OpensFinite
  <2> QED
    BY <1>1, <2>1, Zenon DEF HoldersOK
<1> QED
  BY <1>1, ZenonT(40) DEF CountsAre, CountsMatch, Removes, Deniers

\* ... and in the next.
LEMMA CountsNext == CountsAre'
  BY CountsNow, PTL

\* Nobody opens or closes.
LEMMA CountsSame ==
  ASSUME CountsMatch, UNCHANGED <<open_inodes, files>>, op.pc # "removed", op'.pc # "removed"
  PROVE  CountsMatch'
<1>1. ASSUME NEW s \in Sector PROVE HoldersOK(s)'
  <2>1. HoldersOK(s)
    BY <1>1, CountsNow, Zenon DEF CountsAre
  <2>2. Opens(s)' = Opens(s) /\ Deniers(s)' = Deniers(s) /\ ~Removes(s) /\ ~Removes(s)'
    BY Zenon DEF Opens, Deniers, Removes
  <2> QED
    BY <2>1, <2>2, Zenon DEF HoldersOK
<1> QED
  BY <1>1, CountsNext, Zenon DEF CountsAre

\* Someone opens the inode of sector s.
LEMMA CountsOpened ==
  ASSUME TypeOK, CountsMatch, NEW s \in Sector, op.pc = "idle",
         DOMAIN open_inodes' = DOMAIN open_inodes \cup {s},
         \A t \in DOMAIN open_inodes \ {s} : open_inodes'[t] = open_inodes[t],
         open_inodes'[s].open_cnt =
           IF s \in DOMAIN open_inodes THEN open_inodes[s].open_cnt + 1 ELSE 1,
         open_inodes'[s].deny_write_cnt =
           IF s \in DOMAIN open_inodes THEN open_inodes[s].deny_write_cnt ELSE 0,
         \/ UNCHANGED files /\ op'.pc = "removed" /\ op'.sector = s
         \/ UNCHANGED op /\ \E f \in File :
              files[f] = NULL /\ files' = [files EXCEPT ![f] = [inode |-> s, deny_write |-> FALSE]]
  PROVE  CountsMatch'
<1>1. \A t \in Sector : HoldersOK(t) /\ ~Removes(t)
  BY CountsNow, Zenon DEF CountsAre, Removes
<1>2. CASE UNCHANGED files /\ op'.pc = "removed" /\ op'.sector = s
  <2>1. ASSUME NEW t \in Sector PROVE HoldersOK(t)'
    <3>1. Opens(t)' = Opens(t) /\ Deniers(t)' = Deniers(t)
      BY <1>2, Zenon DEF Opens, Deniers
    <3>2. Removes(t)' <=> t = s
      BY <1>2, Zenon DEF Removes
    <3>3. CASE t # s
      BY <1>1, <2>1, <3>1, <3>2, <3>3, Zenon DEF HoldersOK
    <3>4. CASE t = s /\ s \in DOMAIN open_inodes
      BY <1>1, <3>1, <3>2, <3>4, OpensFinite DEF HoldersOK
    <3>5. CASE t = s /\ s \notin DOMAIN open_inodes
      <4>1. Opens(s) = {} /\ Deniers(s) = {}
        BY <1>1, <3>5, Zenon DEF HoldersOK, Deniers
      <4>2. Cardinality(Opens(s)) = 0 /\ Cardinality(Deniers(s)) = 0
        BY <4>1, FS_EmptySet, Zenon
      <4> QED
        BY <3>1, <3>2, <3>5, <4>2 DEF HoldersOK
    <3> QED
      BY <3>3, <3>4, <3>5, Zenon
  <2> QED
    BY <2>1, CountsNext, Zenon DEF CountsAre
<1>3. ASSUME UNCHANGED op, NEW f \in File, files[f] = NULL,
             files' = [files EXCEPT ![f] = [inode |-> s, deny_write |-> FALSE]]
      PROVE  CountsMatch'
  <2>1. /\ \A g \in File \ {f} : files'[g] = files[g]
        /\ files'[f] \in OpenFile /\ files'[f].inode = s /\ ~files'[f].deny_write
    BY <1>3, Zenon DEF TypeOK, OpenFile
  <2>2. files'[f] # NULL
    BY <2>1, NullIsNone, Zenon
  <2>3. ASSUME NEW t \in Sector PROVE HoldersOK(t)'
    <3>1. /\ Opens(t)' = IF t = s THEN Opens(t) \cup {f} ELSE Opens(t)
          /\ Deniers(t)' = Deniers(t) /\ f \notin Opens(t)
      BY <1>3, <2>1, <2>2 DEF Opens, Deniers
    <3>2. ~Removes(t)'
      BY <1>3, Zenon DEF Removes
    <3>3. CASE t # s
      BY <1>1, <2>3, <3>1, <3>2, <3>3, Zenon DEF HoldersOK
    <3>4. Cardinality(Opens(t) \cup {f}) = Cardinality(Opens(t)) + 1
      BY <3>1, OpensFinite, FS_AddElement, Zenon
    <3>5. CASE t = s /\ s \in DOMAIN open_inodes
      BY <1>1, <3>1, <3>2, <3>4, <3>5, OpensFinite DEF HoldersOK
    <3>6. CASE t = s /\ s \notin DOMAIN open_inodes
      <4>1. Opens(s) = {} /\ Deniers(s) = {}
        BY <1>1, <3>6, Zenon DEF HoldersOK, Deniers
      <4>2. Cardinality(Opens(s)) = 0 /\ Cardinality(Deniers(s)) = 0
        BY <4>1, FS_EmptySet, Zenon
      <4> QED
        BY <3>1, <3>2, <3>4, <3>6, <4>2 DEF HoldersOK
    <3> QED
      BY <3>3, <3>5, <3>6, Zenon
  <2> QED
    BY <2>3, CountsNext, Zenon DEF CountsAre
<1> QED
  BY <1>2, <1>3, Zenon

\* What inode_close leaves of the table.
LEMMA CloseTable ==
  ASSUME TypeOK, NEW s \in DOMAIN open_inodes, NEW i, SameTable(open_inodes, i, s),
         i[s].open_cnt > 0, inode_close(s, i)
  PROVE  /\ op'.pc # "removed"
         /\ \A t \in Sector \ {s} : /\ t \in DOMAIN open_inodes' <=> t \in DOMAIN open_inodes
                                    /\ t \in DOMAIN open_inodes => open_inodes'[t] = open_inodes[t]
         /\ s \in DOMAIN open_inodes' <=> i[s].open_cnt > 1
         /\ i[s].open_cnt > 1 => /\ open_inodes'[s].open_cnt = i[s].open_cnt - 1
                                 /\ open_inodes'[s].deny_write_cnt = i[s].deny_write_cnt
<1>1. /\ i \in [DOMAIN open_inodes -> Inode] /\ DOMAIN i = DOMAIN open_inodes
      /\ \A t \in DOMAIN open_inodes \ {s} : i[t] = open_inodes[t]
  BY Zenon DEF SameTable
<1>2. op' = Idle \/ op' = [pc |-> "release", start |-> i[s].start, cnt |-> i[s].cnt]
  BY Zenon DEF inode_close
<1>3. op'.pc # "removed"
  BY <1>2 DEF Idle
<1>4. CASE i[s].open_cnt > 1
  <2>1. open_inodes' = [i EXCEPT ![s].open_cnt = @ - 1]
    BY <1>4, Zenon DEF inode_close
  <2>2. /\ DOMAIN open_inodes' = DOMAIN i /\ \A t \in DOMAIN i \ {s} : open_inodes'[t] = i[t]
        /\ open_inodes'[s].open_cnt = i[s].open_cnt - 1
        /\ open_inodes'[s].deny_write_cnt = i[s].deny_write_cnt
    BY <1>1, <2>1, Zenon DEF Inode
  <2> QED
    BY <1>1, <1>3, <1>4, <2>2, Zenon
<1>5. CASE ~(i[s].open_cnt > 1)
  <2>1. open_inodes' = Restrict(i, DOMAIN i \ {s})
    BY <1>5, Zenon DEF inode_close
  <2>2. /\ DOMAIN open_inodes' = DOMAIN i \ {s}
        /\ \A t \in DOMAIN i \ {s} : open_inodes'[t] = i[t]
    BY <2>1, Zenon DEF Restrict
  <2> QED
    BY <1>1, <1>3, <1>5, <2>2, Zenon
<1> QED
  BY <1>4, <1>5, Zenon

\* Someone closes the inode of sector s.
LEMMA CountsClosed ==
  ASSUME TypeOK, CountsMatch, NEW s \in DOMAIN open_inodes, NEW i,
         SameTable(open_inodes, i, s), inode_close(s, i), i[s].open_cnt = open_inodes[s].open_cnt,
         \/ /\ UNCHANGED files /\ op.pc = "removed" /\ op.sector = s
            /\ i[s].deny_write_cnt = open_inodes[s].deny_write_cnt
         \/ /\ op.pc = "idle" /\ \E f \in Opens(s) :
                 /\ files' = [files EXCEPT ![f] = NULL]
                 /\ i[s].deny_write_cnt = Cardinality(Deniers(s) \ {f})
  PROVE  CountsMatch'
<1>0. s \in Sector /\ \A t \in Sector : HoldersOK(t)
  BY CountsNow, Zenon DEF CountsAre, TypeOK
<1>1. open_inodes[s].open_cnt = Cardinality(Opens(s)) + (IF Removes(s) THEN 1 ELSE 0)
  BY <1>0, Zenon DEF HoldersOK
<1>2. open_inodes[s].open_cnt > 0
  BY <1>0, <1>1, OpensFinite DEF HoldersOK
<1>3. /\ op'.pc # "removed"
      /\ \A t \in Sector \ {s} : /\ t \in DOMAIN open_inodes' <=> t \in DOMAIN open_inodes
                                 /\ t \in DOMAIN open_inodes => open_inodes'[t] = open_inodes[t]
      /\ s \in DOMAIN open_inodes' <=> i[s].open_cnt > 1
      /\ i[s].open_cnt > 1 => /\ open_inodes'[s].open_cnt = i[s].open_cnt - 1
                              /\ open_inodes'[s].deny_write_cnt = i[s].deny_write_cnt
  BY <1>2, CloseTable, Zenon
<1>4. \A t : ~Removes(t)'
  BY <1>3, Zenon DEF Removes
<1>5. \A t \in Sector \ {s} : ~Removes(t)
  BY Zenon DEF Removes
<1>6. CASE /\ UNCHANGED files /\ op.pc = "removed" /\ op.sector = s
           /\ i[s].deny_write_cnt = open_inodes[s].deny_write_cnt
  <2>1. \A t : Opens(t)' = Opens(t) /\ Deniers(t)' = Deniers(t)
    BY <1>6, Zenon DEF Opens, Deniers
  <2>2. ASSUME NEW t \in Sector \ {s} PROVE HoldersOK(t)'
    BY <1>0, <1>3, <1>4, <1>5, <2>1, <2>2, Zenon DEF HoldersOK
  <2>3. HoldersOK(s)'
    <3>1. i[s].open_cnt = Cardinality(Opens(s)) + 1
      BY <1>1, <1>6, Zenon DEF Removes
    <3>2. i[s].open_cnt > 1 <=> Opens(s) # {}
      BY <3>1, OpensFinite
    <3> QED
      BY <1>0, <1>3, <1>4, <1>6, <2>1, <3>1, <3>2, OpensFinite DEF HoldersOK
  <2> QED
    BY <2>2, <2>3, CountsNext, Zenon DEF CountsAre
<1>7. ASSUME op.pc = "idle", NEW f \in Opens(s), files' = [files EXCEPT ![f] = NULL],
             i[s].deny_write_cnt = Cardinality(Deniers(s) \ {f})
      PROVE  CountsMatch'
  <2>1. f \in File /\ files[f].inode = s /\ files'[f] = NULL
        /\ \A g \in File \ {f} : files'[g] = files[g]
    BY <1>7, Zenon DEF Opens, TypeOK
  <2>2. ASSUME NEW t \in Sector \ {s} PROVE HoldersOK(t)'
    <3>1. Opens(t)' = Opens(t) /\ Deniers(t)' = Deniers(t)
      BY <2>1, <2>2 DEF Opens, Deniers
    <3> QED
      BY <1>0, <1>3, <1>4, <1>5, <2>2, <3>1, Zenon DEF HoldersOK
  <2>3. HoldersOK(s)'
    <3>1. Opens(s)' = Opens(s) \ {f}
      BY <2>1, Zenon DEF Opens
    <3>2. Deniers(s)' = Deniers(s) \ {f}
      BY <2>1, <3>1, Zenon DEF Deniers, Opens
    <3>3. /\ IsFiniteSet(Opens(s) \ {f}) /\ Cardinality(Opens(s) \ {f}) \in Nat
          /\ Cardinality(Opens(s) \ {f}) = Cardinality(Opens(s)) - 1
      BY <1>7, OpensFinite, FS_RemoveElement, FS_CardinalityType, Zenon
    <3>4. i[s].open_cnt = Cardinality(Opens(s)) /\ Cardinality(Opens(s)) \in Nat
      BY <1>1, <1>7, OpensFinite DEF Removes
    <3>0. Cardinality(Opens(s) \ {f}) = 0 <=> Opens(s) \ {f} = {}
      BY <3>3, FS_EmptySet, Zenon
    <3>5. i[s].open_cnt > 1 <=> Opens(s) \ {f} # {}
      BY <3>0, <3>3, <3>4
    <3>6. s \in DOMAIN open_inodes' <=> Opens(s)' # {}
      BY <1>3, <3>1, <3>5, Zenon
    <3>7. ASSUME s \in DOMAIN open_inodes'
          PROVE  /\ open_inodes'[s].open_cnt = Cardinality(Opens(s)') + 0
                 /\ open_inodes'[s].deny_write_cnt = Cardinality(Deniers(s)')
      BY <1>3, <1>7, <3>1, <3>2, <3>3, <3>4, <3>7
    <3> QED
      BY <1>4, <3>6, <3>7, Zenon DEF HoldersOK
  <2> QED
    BY <2>2, <2>3, CountsNext, Zenon DEF CountsAre
<1> QED
  BY <1>6, <1>7, Zenon

\* After a restart nothing is open.
LEMMA CountsReboot ==
  ASSUME Reboot
  PROVE  CountsMatch'
<1>1. DOMAIN open_inodes' = {} /\ files' = [f \in File |-> NULL] /\ op'.pc # "removed"
  BY Zenon DEF Reboot, Idle
<1>2. ASSUME NEW s \in Sector PROVE HoldersOK(s)'
  BY <1>1, Zenon DEF HoldersOK, Opens, Removes
<1> QED
  BY <1>2, CountsNext, Zenon DEF CountsAre

-----------------------------------------------------------------------------
(* Every step keeps the invariant.                                         *)

\* A file that is open holds its inode open.
LEMMA HandleOpen ==
  ASSUME TypeOK, CountsMatch, NEW f \in File, files[f] # NULL, NEW s, s = files[f].inode
  PROVE  /\ files[f] \in OpenFile /\ s \in Sector /\ s \in DOMAIN open_inodes /\ f \in Opens(s)
         /\ open_inodes[s] \in Inode /\ open_inodes[s].open_cnt > 0
         /\ open_inodes[s].deny_write_cnt = Cardinality(Deniers(s))
         /\ files[f].deny_write => open_inodes[s].deny_write_cnt > 0
<1>1. files[f] \in OpenFile /\ s \in Sector
  BY Zenon DEF TypeOK, OpenFile
<1>2. f \in Opens(s)
  BY Zenon DEF Opens
<1>3. HoldersOK(s)
  BY <1>1, CountsNow, Zenon DEF CountsAre
<1>4. s \in DOMAIN open_inodes /\ open_inodes[s] \in Inode
  BY <1>2, <1>3, Zenon DEF HoldersOK, TypeOK
<1>5. open_inodes[s].open_cnt > 0
  BY <1>2, <1>3, <1>4, OpensFinite DEF HoldersOK
<1>6. open_inodes[s].deny_write_cnt = Cardinality(Deniers(s))
  BY <1>3, <1>4, Zenon DEF HoldersOK
<1>7. ASSUME files[f].deny_write PROVE open_inodes[s].deny_write_cnt > 0
  <2>1. f \in Deniers(s)
    BY <1>2, <1>7, Zenon DEF Deniers
  <2>2. Cardinality(Deniers(s)) # 0 /\ Cardinality(Deniers(s)) \in Nat
    BY <2>1, OpensFinite, FS_EmptySet, Zenon
  <2> QED
    BY <1>6, <2>2
<1> QED
  BY <1>1, <1>2, <1>4, <1>5, <1>6, <1>7, Zenon

\* No step of a create, and no release, opens or closes a file.
LEMMA OpOpensNothing ==
  ASSUME TypeOK, CountsMatch,
         \/ \E n \in Name, cnt \in Sizes : CreateStart(n, cnt)
         \/ CreateInode \/ CreateWrite \/ CreateZero \/ CreateAdd \/ CreateUndo \/ Release
  PROVE  CountsMatch'
<1>1. UNCHANGED <<open_inodes, files>>
  BY Zenon DEF CreateStart, CreateInode, CreateWrite, CreateZero, CreateAdd, CreateUndo, Release
<1>2. op.pc # "removed"
  BY OpFields, Zenon DEF CreateStart, CreateInode, CreateWrite, CreateZero, CreateAdd, CreateUndo, Release
<1>3. op'.pc # "removed"
  <2>1. CASE \E n \in Name, cnt \in Sizes : CreateStart(n, cnt)
    BY <2>1 DEF CreateStart
  <2>2. CASE CreateInode
    <3>1. op \in Creating
      BY <2>2, OpFields, Zenon DEF CreateInode
    <3> QED
      BY <2>2, <3>1 DEF CreateInode, Creating
  <2>3. CASE CreateWrite
    BY <2>3, Zenon DEF CreateWrite
  <2>4. CASE CreateZero \/ CreateAdd
    <3>1. op \in Zeroing /\ op.pc = "zero"
      BY <2>4, OpFields, Zenon DEF CreateZero, CreateAdd
    <3> QED
      BY <2>4, <3>1 DEF CreateZero, CreateAdd, dir_add, Zeroing, Idle
  <2>5. CASE CreateUndo \/ Release
    BY <2>5 DEF CreateUndo, Release, Idle
  <2> QED
    BY <2>1, <2>2, <2>3, <2>4, <2>5, Zenon
<1> QED
  BY <1>1, <1>2, <1>3, CountsSame, Zenon

\* What a step may lose.
Loses ==
  Lost' \subseteq Lost \/ (op.pc = "zero" /\ op'.pc = "undo") \/ Reboot

\* The steps of filesys_create, and the release of a removed file.
LEMMA OpStepKeeps ==
  ASSUME FSInv,
         \/ \E n \in Name, cnt \in Sizes : CreateStart(n, cnt)
         \/ CreateInode \/ CreateWrite \/ CreateZero \/ CreateAdd \/ CreateUndo \/ Release
  PROVE  FSInv' /\ Loses
<1>1. CountsMatch'
  BY OpOpensNothing, Zenon DEF FSInv, Core
<1>2. ASSUME CreateAdd, op' = [op EXCEPT !.pc = "undo"], UNCHANGED slots
      PROVE  FSInv' /\ Loses
  <2>1. op' = [op EXCEPT !.pc = "undo"] /\ op.pc = "zero"
        /\ UNCHANGED <<free_map, disk_map, disk_inode, data, slots, open_inodes, files>>
    BY <1>2, Zenon DEF CreateAdd
  <2>2. op \in Zeroing
    BY <2>1, OpFields, Zenon DEF FSInv, Core
  <2>3. op'.pc = "undo"
    BY <2>1, <2>2, Zenon DEF Zeroing
  <2> QED
    BY <1>1, <2>1, <2>3, CreateAddFailsKeeps, Zenon DEF FSInv, Loses
<1>3. ASSUME CreateAdd, Matches(op.name) = {}, FreeSlots # {},
             slots' = [slots EXCEPT ![First(FreeSlots)] =
                         [in_use |-> TRUE, name |-> op.name, inode_sector |-> op.sector]],
             op' = Idle
      PROVE  FSInv' /\ Loses
  <2>1. /\ op.pc = "zero" /\ op.left = {}
        /\ UNCHANGED <<free_map, disk_map, disk_inode, data, open_inodes, files>>
    BY <1>3, Zenon DEF CreateAdd
  <2> QED
    BY <1>1, <1>3, <2>1, CreateAddKeeps, Zenon DEF FSInv, Loses
<1>4. CreateAdd => FSInv' /\ Loses
  BY <1>2, <1>3, Zenon DEF CreateAdd, dir_add
<1> QED
  BY <1>1, <1>4, CreateStartKeeps, CreateInodeKeeps, CreateWriteKeeps, CreateZeroKeeps,
     CreateUndoKeeps, ReleaseKeeps, Zenon DEF FSInv, Loses

\* filesys_open.
LEMMA OpenStepKeeps ==
  ASSUME FSInv, NEW f \in File, NEW n \in Name, Open(f, n)
  PROVE  FSInv' /\ Loses
<1>0. TypeOK /\ CountsMatch /\ Core /\ op.pc = "idle"
  BY OpFields, Zenon DEF FSInv, Core, Open
<1>1. PICK k \in Slot : /\ slots[k].in_use
                        /\ inode_open(slots[k].inode_sector)
                        /\ files' = [files EXCEPT ![f] = [inode |-> slots[k].inode_sector,
                                                          deny_write |-> FALSE]]
  BY Zenon DEF Open, lookup, Matches
<1>2. PICK s \in Sector : s = slots[k].inode_sector
  BY <1>0, <1>1 DEF TypeOK, DirEntry, Erased
<1>3. /\ inode_open(s) /\ files[f] = NULL /\ op' = op
      /\ files' = [files EXCEPT ![f] = [inode |-> s, deny_write |-> FALSE]]
  BY <1>1, <1>2, Zenon DEF Open
<1>4. CountsMatch'
  BY <1>0, <1>3, CountsOpened, InodeOpened, Zenon
<1> QED
  BY <1>0, <1>4, OpenKeeps, Zenon DEF FSInv, Loses

\* filesys_remove, up to the closing of the inode.
LEMMA RemoveStepKeeps ==
  ASSUME FSInv, NEW n \in Name, Remove(n)
  PROVE  FSInv' /\ Loses
<1>0. TypeOK /\ CountsMatch /\ Core /\ op.pc = "idle"
  BY OpFields, Zenon DEF FSInv, Core, Remove
<1>1. PICK k \in Slot : /\ slots[k].in_use
                        /\ op' = [pc |-> "removed", sector |-> slots[k].inode_sector]
                        /\ inode_open(slots[k].inode_sector)
  BY Zenon DEF Remove, lookup, Matches
<1>2. PICK s \in Sector : s = slots[k].inode_sector
  BY <1>0, <1>1 DEF TypeOK, DirEntry, Erased
<1>3. inode_open(s) /\ files' = files /\ op'.pc = "removed" /\ op'.sector = s
  BY <1>1, <1>2, Zenon DEF Remove
<1>4. CountsMatch'
  BY <1>0, <1>3, CountsOpened, InodeOpened, Zenon
<1> QED
  BY <1>0, <1>4, RemoveKeeps, Zenon DEF FSInv, Loses

\* file_reopen.
LEMMA ReopenStepKeeps ==
  ASSUME FSInv, NEW f \in File, NEW g \in File, file_reopen(f, g)
  PROVE  FSInv' /\ Loses
<1>0. TypeOK /\ CountsMatch /\ Core /\ op.pc = "idle"
  BY OpFields, Zenon DEF FSInv, Core, file_reopen
<1>1. PICK s \in Sector : s = files[g].inode /\ s \in DOMAIN open_inodes
  BY <1>0, HandleOpen, Zenon DEF file_reopen
<1>2. /\ files[f] = NULL /\ UNCHANGED <<free_map, diskVars, op>>
      /\ files' = [files EXCEPT ![f] = [inode |-> s, deny_write |-> FALSE]]
      /\ open_inodes' = [open_inodes EXCEPT ![s].open_cnt = @ + 1]
  BY <1>1, Zenon DEF file_reopen
<1>3. /\ SameTable(open_inodes, open_inodes', s)
      /\ open_inodes'[s].open_cnt = open_inodes[s].open_cnt + 1
      /\ open_inodes'[s].removed = open_inodes[s].removed
      /\ open_inodes'[s].deny_write_cnt = open_inodes[s].deny_write_cnt
  BY <1>0, <1>1, <1>2 DEF SameTable, Inode, TypeOK
<1>4. files' \in [File -> OpenFile \cup {NULL}]
  BY <1>0, <1>2, Zenon DEF TypeOK, OpenFile
<1>5. Core' /\ Lost' \subseteq Lost
  BY <1>0, <1>1, <1>2, <1>3, <1>4, TableKept, Zenon
<1>6. /\ DOMAIN open_inodes' = DOMAIN open_inodes \cup {s}
      /\ \A t \in DOMAIN open_inodes \ {s} : open_inodes'[t] = open_inodes[t]
  BY <1>1, <1>3, Zenon DEF SameTable
<1>7. CountsMatch'
  BY <1>0, <1>1, <1>2, <1>3, <1>6, CountsOpened, Zenon
<1> QED
  BY <1>5, <1>7, Zenon DEF FSInv, Loses

\* file_deny_write and file_allow_write.
LEMMA SetDenyStepKeeps ==
  ASSUME FSInv, NEW f \in File, NEW b \in BOOLEAN, SetDeny(f, b)
  PROVE  FSInv' /\ Loses
<1>0. TypeOK /\ CountsMatch /\ Core /\ op.pc = "idle" /\ files[f] # NULL
  BY OpFields, Zenon DEF FSInv, Core, SetDeny
<1>1. PICK s \in Sector :
        /\ s = files[f].inode /\ s \in DOMAIN open_inodes /\ f \in Opens(s)
        /\ open_inodes[s] \in Inode /\ open_inodes[s].deny_write_cnt = Cardinality(Deniers(s))
        /\ files[f] \in OpenFile
        /\ files[f].deny_write => open_inodes[s].deny_write_cnt > 0
  BY <1>0, HandleOpen, Zenon
<1>2. UNCHANGED <<free_map, diskVars, op>>
  BY Zenon DEF SetDeny
<1>3. /\ files' \in [File -> OpenFile \cup {NULL}] /\ \A g \in File \ {f} : files'[g] = files[g]
      /\ files'[f] \in OpenFile /\ files'[f].inode = s /\ files'[f].deny_write = b
  BY <1>0, <1>1, Zenon DEF SetDeny, TypeOK, OpenFile
<1>4. files'[f] # NULL
  BY <1>3, NullIsNone, Zenon
<1>5. \A t \in Sector : HoldersOK(t)
  BY <1>0, CountsNow, Zenon DEF CountsAre
<1>6. \A t : ~Removes(t) /\ ~Removes(t)'
  BY <1>0, <1>2, Zenon DEF Removes
<1>7. \A t : Opens(t)' = Opens(t)
  BY <1>0, <1>1, <1>3, <1>4, Zenon DEF Opens
<1>8. \A t : t # s => Deniers(t)' = Deniers(t)
  BY <1>1, <1>3, <1>7, Zenon DEF Deniers, Opens
<1>9. ASSUME SameTable(open_inodes, open_inodes', s),
             open_inodes'[s].removed = open_inodes[s].removed,
             open_inodes'[s].open_cnt = open_inodes[s].open_cnt,
             open_inodes'[s].deny_write_cnt = Cardinality(Deniers(s)')
      PROVE  FSInv' /\ Loses
  <2>1. Core' /\ Lost' \subseteq Lost
    BY <1>0, <1>1, <1>2, <1>3, <1>9, TableKept, Zenon
  <2>2. ASSUME NEW t \in Sector, t # s PROVE HoldersOK(t)'
    BY <1>5, <1>6, <1>7, <1>8, <1>9, <2>2, Zenon DEF HoldersOK, SameTable
  <2>3. HoldersOK(s)'
    BY <1>1, <1>5, <1>6, <1>7, <1>9, Zenon DEF HoldersOK, SameTable
  <2>4. CountsMatch'
    BY <2>2, <2>3, CountsNext, Zenon DEF CountsAre
  <2> QED
    BY <2>1, <2>4, Zenon DEF FSInv, Loses
<1>10. CASE files[f].deny_write = b
  <2>1. open_inodes' = open_inodes
    BY <1>10, Zenon DEF SetDeny, Deny, Allow
  <2>2. Deniers(s)' = Deniers(s)
    BY <1>3, <1>7, <1>10 DEF Deniers, Opens
  <2>3. SameTable(open_inodes, open_inodes', s)
    BY <1>0, <2>1, Zenon DEF SameTable, TypeOK
  <2> QED
    BY <1>1, <1>9, <2>1, <2>2, <2>3, Zenon
<1>11. CASE b /\ ~files[f].deny_write
  <2>1. open_inodes' = [open_inodes EXCEPT ![s].deny_write_cnt = @ + 1]
    BY <1>1, <1>11, Zenon DEF SetDeny, Deny
  <2>2. /\ SameTable(open_inodes, open_inodes', s)
        /\ open_inodes'[s].open_cnt = open_inodes[s].open_cnt
        /\ open_inodes'[s].removed = open_inodes[s].removed
        /\ open_inodes'[s].deny_write_cnt = open_inodes[s].deny_write_cnt + 1
    BY <1>0, <1>1, <2>1 DEF SameTable, Inode, TypeOK
  <2>3. Deniers(s)' = Deniers(s) \cup {f} /\ f \notin Deniers(s)
    BY <1>1, <1>3, <1>7, <1>11, Zenon DEF Deniers, Opens
  <2>4. Cardinality(Deniers(s) \cup {f}) = Cardinality(Deniers(s)) + 1
    BY <2>3, OpensFinite, FS_AddElement, Zenon
  <2> QED
    BY <1>1, <1>9, <2>2, <2>3, <2>4, Zenon
<1>12. CASE ~b /\ files[f].deny_write
  <2>1. open_inodes' = [open_inodes EXCEPT ![s].deny_write_cnt = @ - 1]
    BY <1>1, <1>12, Zenon DEF SetDeny, Allow
  <2>2. /\ SameTable(open_inodes, open_inodes', s)
        /\ open_inodes'[s].open_cnt = open_inodes[s].open_cnt
        /\ open_inodes'[s].removed = open_inodes[s].removed
        /\ open_inodes'[s].deny_write_cnt = open_inodes[s].deny_write_cnt - 1
    BY <1>0, <1>1, <1>12, <2>1 DEF SameTable, Inode, TypeOK
  <2>3. Deniers(s)' = Deniers(s) \ {f} /\ f \in Deniers(s)
    BY <1>1, <1>3, <1>7, <1>12, Zenon DEF Deniers, Opens
  <2>4. Cardinality(Deniers(s) \ {f}) = Cardinality(Deniers(s)) - 1
    BY <2>3, OpensFinite, FS_RemoveElement, Zenon
  <2> QED
    BY <1>1, <1>9, <2>2, <2>3, <2>4, Zenon
<1>13. files[f].deny_write \in BOOLEAN
  BY <1>1, Zenon DEF OpenFile
<1> QED
  BY <1>10, <1>11, <1>12, <1>13, Zenon

\* file_close, the last of a removed file included.
LEMMA CloseStepKeeps ==
  ASSUME FSInv, NEW f \in File, file_close(f)
  PROVE  FSInv' /\ Loses
<1>0. TypeOK /\ CountsMatch /\ Core /\ InodesOK /\ op.pc = "idle" /\ files[f] # NULL
  BY OpFields, Zenon DEF FSInv, Core, file_close
<1>1. PICK s \in Sector :
        /\ s = files[f].inode /\ s \in DOMAIN open_inodes /\ f \in Opens(s)
        /\ open_inodes[s] \in Inode /\ open_inodes[s].open_cnt > 0
        /\ open_inodes[s].deny_write_cnt = Cardinality(Deniers(s))
        /\ files[f] \in OpenFile
        /\ files[f].deny_write => open_inodes[s].deny_write_cnt > 0
  BY <1>0, HandleOpen, Zenon
<1>2. PICK i : i = Allow(f, open_inodes)
  BY Zenon
<1>3. /\ inode_close(s, i) /\ files' = [files EXCEPT ![f] = NULL]
      /\ UNCHANGED <<disk_inode, slots>>
  BY <1>1, <1>2, Zenon DEF file_close
<1>4. files' \in [File -> OpenFile \cup {NULL}]
  BY <1>0, <1>3, Zenon DEF TypeOK
<1>5. /\ SameTable(open_inodes, i, s) /\ i[s].open_cnt = open_inodes[s].open_cnt
      /\ i[s].removed = open_inodes[s].removed
      /\ i[s].deny_write_cnt = Cardinality(Deniers(s) \ {f})
  <2>1. CASE files[f].deny_write
    <3>1. i = [open_inodes EXCEPT ![s].deny_write_cnt = @ - 1]
      BY <1>1, <1>2, <2>1, Zenon DEF Allow
    <3>2. /\ SameTable(open_inodes, i, s) /\ i[s].open_cnt = open_inodes[s].open_cnt
          /\ i[s].removed = open_inodes[s].removed
          /\ i[s].deny_write_cnt = open_inodes[s].deny_write_cnt - 1
      BY <1>0, <1>1, <2>1, <3>1 DEF SameTable, Inode, TypeOK
    <3>3. f \in Deniers(s)
      BY <1>1, <2>1, Zenon DEF Deniers
    <3>4. Cardinality(Deniers(s) \ {f}) = Cardinality(Deniers(s)) - 1
      BY <3>3, OpensFinite, FS_RemoveElement, Zenon
    <3> QED
      BY <1>1, <3>2, <3>4, Zenon
  <2>2. CASE ~files[f].deny_write
    <3>1. i = open_inodes
      BY <1>2, <2>2, Zenon DEF Allow
    <3>2. Deniers(s) \ {f} = Deniers(s)
      BY <2>2, Zenon DEF Deniers
    <3> QED
      BY <1>0, <1>1, <3>1, <3>2, Zenon DEF SameTable, TypeOK
  <2> QED
    BY <2>1, <2>2, Zenon
<1>6. i[s].removed <=> s \notin NamedInodes
  BY <1>0, <1>1, <1>5, Zenon DEF InodesOK
<1>7. Core' /\ Lost' \subseteq Lost
  BY <1>0, <1>1, <1>3, <1>4, <1>5, <1>6, CloseKeeps, Zenon
<1>8. CountsMatch'
  BY <1>0, <1>1, <1>3, <1>5, CountsClosed, Zenon
<1> QED
  BY <1>7, <1>8, Zenon DEF FSInv, Loses

\* filesys_remove closes the inode it looked up.
LEMMA RemoveCloseStepKeeps ==
  ASSUME FSInv, RemoveClose
  PROVE  FSInv' /\ Loses
<1>0. TypeOK /\ CountsMatch /\ Core /\ InodesOK /\ op.pc = "removed"
  BY Zenon DEF FSInv, Core, RemoveClose
<1>1. PICK s \in Sector : s = op.sector /\ s \in DOMAIN open_inodes
  BY <1>0, Zenon DEF InodesOK, TypeOK
<1>2. s \notin NamedInodes
  BY <1>0, <1>1, Zenon DEF InodesOK
<1>3. HoldersOK(s) /\ Removes(s)
  BY <1>0, <1>1, CountsNow, Zenon DEF CountsAre, Removes
<1>4. open_inodes[s].open_cnt > 0
  BY <1>1, <1>3, OpensFinite DEF HoldersOK
<1>5. PICK i : i = [open_inodes EXCEPT ![s].removed = TRUE]
  BY Zenon
<1>6. inode_close(s, i) /\ UNCHANGED <<disk_inode, slots, files>>
  BY <1>1, <1>5, Zenon DEF RemoveClose
<1>7. /\ SameTable(open_inodes, i, s) /\ i[s].open_cnt = open_inodes[s].open_cnt
      /\ i[s].removed = TRUE /\ i[s].deny_write_cnt = open_inodes[s].deny_write_cnt
  BY <1>0, <1>1, <1>5, ZenonT(40) DEF SameTable, Inode, TypeOK
<1>8. files' \in [File -> OpenFile \cup {NULL}]
  BY <1>0, <1>6, Zenon DEF TypeOK
<1>9. Core' /\ Lost' \subseteq Lost
  BY <1>0, <1>1, <1>2, <1>4, <1>6, <1>7, <1>8, CloseKeeps, Zenon
<1>10. CountsMatch'
  BY <1>0, <1>1, <1>6, <1>7, CountsClosed, Zenon
<1> QED
  BY <1>9, <1>10, Zenon DEF FSInv, Loses

\* file_write.
LEMMA WriteStepKeeps ==
  ASSUME FSInv, NEW f \in File, file_write(f)
  PROVE  FSInv' /\ Loses
<1>0. TypeOK /\ CountsMatch /\ Core /\ op.pc = "idle" /\ files[f] # NULL
  BY OpFields, Zenon DEF FSInv, Core, file_write
<1>1. PICK s \in Sector : s = files[f].inode /\ s \in DOMAIN open_inodes
  BY <1>0, HandleOpen, Zenon
<1>2. PICK d \in Run(open_inodes[s].start, open_inodes[s].cnt) : data' = [data EXCEPT ![d] = "live"]
  BY <1>1, Zenon DEF file_write
<1>3. UNCHANGED <<free_map, disk_map, disk_inode, slots, open_inodes, files, op>>
  BY Zenon DEF file_write
<1>4. Core' /\ Lost' \subseteq Lost
  BY <1>0, <1>1, <1>2, <1>3, WriteKeeps, Zenon
<1>5. CountsMatch'
  BY <1>0, <1>3, CountsSame, Zenon
<1> QED
  BY <1>4, <1>5, Zenon DEF FSInv, Loses

\* A freshly formatted disk.
LEMMA InitFSInv ==
  ASSUME FileSysInit
  PROVE  FSInv
<1>1. op.pc = "idle" /\ OpSectors = {}
  BY OpSectorsNow, Zenon DEF FileSysInit, Idle, OpSectorsAre
<1>2. System \subseteq Sector /\ 0 \in Sector
  BY FileSysAssumption DEF System, Sector
<1>3. TypeOK
  <2>1. [s \in Sector |-> [start |-> 0, cnt |-> 0]] \in [Sector -> [start : Nat, cnt : Nat]]
    BY Zenon
  <2>2. DOMAIN open_inodes = {} /\ open_inodes \in [{} -> Inode]
    BY Zenon DEF FileSysInit
  <2> QED
    BY <1>2, <2>1, <2>2, Zenon DEF FileSysInit, TypeOK
<1>4. NamedInodes = {} /\ Objects = {} /\ NamesOK
  BY Zenon DEF FileSysInit, NamedInodes, Objects, Erased, NamesOK
<1>5. MapsOK /\ Apart /\ NewApart /\ InodesOK /\ NoStale /\ Zeroed
  BY <1>1, <1>4, Zenon DEF FileSysInit, MapsOK, Apart, NewApart, InodesOK, NoStale, Zeroed
<1>6. CountsMatch
  <2>1. ASSUME NEW s \in Sector PROVE HoldersOK(s)
    BY <1>1, Zenon DEF FileSysInit, HoldersOK, Opens, Removes
  <2> QED
    BY <2>1, CountsNow, Zenon DEF CountsAre
<1> QED
  BY <1>3, <1>4, <1>5, <1>6, Zenon DEF FSInv, Core

\* Every step of filesys.c and below keeps FSInv and loses only what it may.
LEMMA NextFSInv ==
  ASSUME FSInv, FileSysNext
  PROVE  FSInv' /\ Loses
<1>1. CASE Reboot
  BY <1>1, RebootKeeps, CountsReboot, Zenon DEF FSInv, Loses
<1>2. CASE \/ \E n \in Name, cnt \in Sizes : CreateStart(n, cnt)
           \/ CreateInode \/ CreateWrite \/ CreateZero \/ CreateAdd \/ CreateUndo \/ Release
  BY <1>2, OpStepKeeps, Zenon
<1>3. CASE RemoveClose \/ \E n \in Name : Remove(n)
  BY <1>3, RemoveStepKeeps, RemoveCloseStepKeeps, Zenon
<1>4. CASE \E f \in File : \/ file_close(f) \/ file_write(f)
                           \/ \E n \in Name : Open(f, n)
                           \/ \E g \in File : file_reopen(f, g)
                           \/ \E b \in BOOLEAN : SetDeny(f, b)
  BY <1>4, CloseStepKeeps, WriteStepKeeps, OpenStepKeeps, ReopenStepKeeps, SetDenyStepKeeps, Zenon
<1> QED
  BY <1>1, <1>2, <1>3, <1>4, Zenon DEF FileSysNext

\* FSInv is about the variables of FileSys only.
LEMMA StutterFSInv ==
  ASSUME FSInv, UNCHANGED fsVars
  PROVE  FSInv'
<1>1. UNCHANGED <<free_map, disk_map, disk_inode, data, slots, open_inodes, files, op>>
  BY Zenon DEF fsVars
<1>2. CountsMatch'
  <2>1. \A s \in Sector : HoldersOK(s)
    BY CountsNow, Zenon DEF FSInv, CountsAre
  <2>2. \A s : Opens(s)' = Opens(s) /\ Deniers(s)' = Deniers(s) /\ (Removes(s)' <=> Removes(s))
    BY <1>1, Zenon DEF Opens, Deniers, Removes
  <2>3. ASSUME NEW s \in Sector PROVE HoldersOK(s)'
    BY <1>1, <2>1, <2>2, <2>3, Zenon DEF HoldersOK
  <2> QED
    BY <2>3, CountsNext, Zenon DEF CountsAre
<1>3. OpSectors' = OpSectors
  BY <1>1, Zenon DEF OpSectors, Owned
<1>4. NamedInodes' = NamedInodes /\ Objects' = Objects
  BY <1>1, Zenon DEF NamedInodes, Objects
<1>5. \A s : Owned(s)' = Owned(s) /\ DataOf(s)' = DataOf(s)
  BY <1>1, Zenon DEF Owned, DataOf
<1>6. TypeOK' /\ NamesOK'
  BY <1>1, Zenon DEF FSInv, Core, TypeOK, NamesOK
<1>7. MapsOK' /\ Apart' /\ NoStale'
  BY <1>1, <1>3, <1>4, <1>5, Zenon DEF FSInv, Core, MapsOK, Apart, NoStale
<1>8. NewApart' /\ InodesOK' /\ Zeroed'
  BY <1>1, <1>4, Zenon DEF FSInv, Core, NewApart, InodesOK, Zeroed, DataOf
<1> QED
  BY <1>2, <1>6, <1>7, <1>8, Zenon DEF FSInv, Core

\* The invariant says that the disk and the open files are sound.
FilesIntact == DiskConsistent /\ OpenFilesIntact /\ CountsMatch

\* FSInv implies what FilesSound says of a state.
LEMMA FSInvSound ==
  ASSUME FSInv
  PROVE  FilesIntact
<1> USE DEF FSInv, Core
<1>1. \A s \in NamedInodes : s \in Objects /\ Owned(s) \subseteq disk_map \ System
  BY Zenon DEF MapsOK, Objects
<1>2. \A i \in Slot : slots[i].in_use => slots[i].inode_sector \in Objects
  BY NamedIs, Zenon DEF Objects
<1>3. \A i, j \in Slot :
        slots[i].in_use /\ slots[j].in_use /\ i # j =>
          /\ slots[i].name # slots[j].name
          /\ Owned(slots[i].inode_sector) \cap Owned(slots[j].inode_sector) = {}
  BY <1>2, Zenon DEF NamesOK, Apart
<1>4. DiskConsistent
  BY <1>1, <1>3, Zenon DEF DiskConsistent
<1>5. \A s \in DOMAIN open_inodes : OpenRun(s) = Owned(s) /\ s \in Objects
  BY OpenRunIs, Zenon DEF Objects
<1>6. OpenFilesIntact
  BY <1>5, Zenon DEF OpenFilesIntact, MapsOK, Apart, Objects
<1> QED
  BY <1>4, <1>6, Zenon DEF FilesIntact

\* FSInv holds at every moment, power failures included.
LEMMA FileSysInvariant == FileSysSpec => []FSInv
<1>1. FileSysInit => FSInv
  BY InitFSInv, Zenon
<1>2. FSInv /\ [FileSysNext]_fsVars => FSInv'
  BY NextFSInv, StutterFSInv, Zenon
<1> QED
  BY <1>1, <1>2, PTL DEF FileSysSpec

\* Whatever sequence of creates, removes, opens, closes, writes and power
\* failures: the disk stays consistent, open files keep their sectors to
\* themselves, open_cnt and deny_write_cnt count what they should, and only a
\* create that fails late, or a reboot, loses sectors (inode.c, filesys.c).
THEOREM FilesCorrect == FileSysSpec => FilesSound
<1>1. FSInv => FilesIntact
  BY FSInvSound
<1>2. FSInv /\ FileSysNext => Loses
  BY NextFSInv, Zenon
<1>3. FSInv /\ FilesIntact' /\ [FileSysNext]_fsVars =>
        [/\ DiskConsistent' /\ OpenFilesIntact' /\ CountsMatch'
         /\ Lost' \subseteq Lost \/ (op.pc = "zero" /\ op'.pc = "undo") \/ Reboot]_fsVars
  BY <1>2, Zenon DEF FilesIntact, Loses
<1> QED
  BY <1>1, <1>3, FileSysInvariant, PTL DEF FileSysSpec, FilesSound

-----------------------------------------------------------------------------
(* The file system implements FileStore.                                   *)

\* The files callers can reach, and those of them that were written to.
Used == NamedInodes \cup {s \in Sector : Opens(s) # {}}
Live(s) == \E d \in DataOf(s) : data[d] = "live"

\* The abstract state, without the cases that the invariant excludes.
AbsAre ==
  FSInv =>
    /\ absNames = [n \in Name |-> absNames[n]]
    /\ \A n \in Name : Matches(n) = {} => absNames[n] = NULL
    /\ \A n \in Name : \A k \in Matches(n) : absNames[n] = slots[k].inode_sector
    /\ Used \subseteq Objects
    /\ \A s \in Sector : s \in Store!InUse <=> s \in Used
    /\ absContent = [s \in Sector |-> IF s \in Used /\ Live(s) THEN "written" ELSE "zero"]

\* The mapped state of FileStore in terms of Used and Live, in this state, ...
LEMMA AbsNow == AbsAre
<1> SUFFICES ASSUME FSInv
             PROVE  /\ absNames = [n \in Name |-> absNames[n]]
                    /\ \A n \in Name : Matches(n) = {} => absNames[n] = NULL
                    /\ \A n \in Name : \A k \in Matches(n) : absNames[n] = slots[k].inode_sector
                    /\ Used \subseteq Objects
                    /\ \A s \in Sector : s \in Store!InUse <=> s \in Used
                    /\ absContent = [s \in Sector |-> IF s \in Used /\ Live(s) THEN "written"
                                                      ELSE "zero"]
  BY Zenon DEF AbsAre
<1>0. TypeOK /\ CountsMatch /\ NamesOK /\ NoStale /\ NamedInodes \subseteq Sector
  BY ObjectsIn, Zenon DEF FSInv, Core
<1>1. absNames = [n \in Name |-> absNames[n]]
  BY Zenon DEF absNames
<1>2. ASSUME NEW n \in Name, Matches(n) = {} PROVE absNames[n] = NULL
  BY <1>2, Zenon DEF absNames
<1>3. ASSUME NEW n \in Name, NEW k \in Matches(n) PROVE absNames[n] = slots[k].inode_sector
  <2>1. Matches(n) \in SUBSET Nat /\ Matches(n) # {}
    BY SectorsNat, Zenon DEF Matches
  <2>2. First(Matches(n)) \in Matches(n)
    BY <2>1, FirstIn, Zenon
  <2>3. First(Matches(n)) = k
    BY <1>0, <2>2, Zenon DEF NamesOK, Matches
  <2> QED
    BY <2>1, <2>3, Zenon DEF absNames
<1>4. ASSUME NEW s \in Sector PROVE s \in {absNames[n] : n \in Name} <=> s \in NamedInodes
  <2>1. ASSUME NEW n \in Name, s = absNames[n] PROVE s \in NamedInodes
    <3>1. Matches(n) # {}
      BY <1>2, <2>1, NullIsNone, Zenon
    <3>2. PICK k \in Matches(n) : TRUE
      BY <3>1, Zenon
    <3> QED
      BY <1>3, <2>1, <3>2, NamedIs, Zenon DEF Matches
  <2>2. ASSUME s \in NamedInodes PROVE \E n \in Name : s = absNames[n]
    <3>1. PICK k \in Slot : slots[k].in_use /\ slots[k].inode_sector = s
      BY <2>2, NamedIs, Zenon
    <3>2. slots[k].name \in Name
      BY <1>0, <3>1 DEF TypeOK, DirEntry, Erased
    <3>3. k \in Matches(slots[k].name)
      BY <3>1, Zenon DEF Matches
    <3> QED
      BY <1>3, <3>1, <3>2, <3>3, Zenon
  <2> QED
    BY <2>1, <2>2, Zenon
<1>5. ASSUME NEW s \in Sector PROVE s \in {absHandles[f] : f \in File} <=> Opens(s) # {}
  BY NullIsNone, Zenon DEF absHandles, Opens
<1>6. \A s \in Sector : s \in Store!InUse <=> s \in Used
  BY <1>4, <1>5, Zenon DEF Store!InUse, Used
<1>7. Used \subseteq Objects
  <2>1. ASSUME NEW s \in Sector, Opens(s) # {} PROVE s \in DOMAIN open_inodes
    BY <1>0, <2>1, CountsNow, Zenon DEF CountsAre, HoldersOK
  <2> QED
    BY <2>1, Zenon DEF Used, Objects
<1>8. ASSUME NEW s \in Sector
      PROVE  absContent[s] = IF s \in Used /\ Live(s) THEN "written" ELSE "zero"
  <2>1. s \in NamedInodes \cup {absHandles[f] : f \in File} <=> s \in Used
    BY <1>5, Zenon DEF Used
  <2>2. "live" \in Holds(s) <=> Live(s)
    BY Zenon DEF Holds, Live, DataOf
  <2>3. s \in Used => "stale" \notin Holds(s)
    BY <1>0, <1>7, Zenon DEF Holds, NoStale, DataOf
  <2> QED
    BY <2>1, <2>2, <2>3, Zenon DEF absContent
<1>9. absContent = [s \in Sector |-> IF s \in Used /\ Live(s) THEN "written" ELSE "zero"]
  BY <1>8, Zenon DEF absContent
<1> QED
  BY <1>1, <1>2, <1>3, <1>6, <1>7, <1>9, Zenon

\* ... and in the next.
LEMMA AbsNext == AbsAre'
  BY AbsNow, PTL

\* Every file that can be reached after the step could be before, and holds
\* what it held.
Carried ==
  /\ Used' \subseteq Used
  /\ \A t \in Used' : disk_inode'[t] = disk_inode[t] /\ \A d \in DataOf(t) : data'[d] = data[d]

\* A step that carries over the data of files in use keeps their contents.
LEMMA ContentKept ==
  ASSUME FSInv, FSInv', Carried
  PROVE  Store!KeepContent /\ (Used' = Used => absContent' = absContent)
<1>1. absContent = [s \in Sector |-> IF s \in Used /\ Live(s) THEN "written" ELSE "zero"]
  BY AbsNow, Zenon DEF AbsAre
<1>2. /\ absContent' = [s \in Sector |-> IF s \in Used' /\ Live(s)' THEN "written" ELSE "zero"]
      /\ \A s \in Sector : s \in (Store!InUse)' <=> s \in Used'
  BY AbsNext, Zenon DEF AbsAre
<1>3. ASSUME NEW t \in Used' PROVE Live(t)' <=> Live(t)
  <2>1. DataOf(t)' = DataOf(t)
    BY Zenon DEF Carried, DataOf
  <2> QED
    BY <2>1, Zenon DEF Carried, Live
<1>4. ASSUME NEW s \in Sector
      PROVE  absContent'[s] = IF s \in (Store!InUse)' THEN absContent[s] ELSE "zero"
  <2>1. CASE s \in Used'
    BY <1>1, <1>2, <1>3, <2>1, Zenon DEF Carried
  <2>2. CASE s \notin Used'
    BY <1>2, <2>2, Zenon
  <2> QED
    BY <2>1, <2>2, Zenon
<1>5. Store!KeepContent
  BY <1>2, <1>4, Zenon DEF Store!KeepContent
<1>6. ASSUME Used' = Used PROVE absContent' = absContent
  BY <1>1, <1>2, <1>3, <1>6, Zenon
<1> QED
  BY <1>5, <1>6, Zenon

\* Steps that callers do not see.
LEMMA AbsSame ==
  ASSUME FSInv, FSInv', UNCHANGED <<slots, files>>,
         \A t \in Objects : disk_inode'[t] = disk_inode[t] /\ \A d \in DataOf(t) : data'[d] = data[d]
  PROVE  UNCHANGED Store!storeVars
<1>1. Used' = Used
  BY Zenon DEF Used, NamedInodes, Opens
<1>2. absNames' = absNames
  BY Zenon DEF absNames, Matches
<1>3. absHandles' = absHandles /\ absDenies' = absDenies
  BY Zenon DEF absHandles, absDenies
<1>4. Used \subseteq Objects
  BY AbsNow, Zenon DEF AbsAre
<1>5. absContent' = absContent
  BY <1>1, <1>4, ContentKept, Zenon DEF Carried
<1> QED
  BY <1>2, <1>3, <1>5, Zenon DEF Store!storeVars

\* What free_map_release gives back holds nothing that can be read.
LEMMA ReleaseUnseen ==
  ASSUME FSInv, NEW F, free_map_release(F), \A t \in Objects : DataOf(t) \cap F = {}
  PROVE  \A t \in Objects : \A d \in DataOf(t) : data'[d] = data[d]
<1>1. \A d \in Sector \ F : data'[d] = data[d]
  BY Released, Zenon DEF FSInv, Core
<1> QED
  BY <1>1, RunIn, Zenon DEF DataOf

\* Callers see nothing of a file being created before it has its name, nor of
\* sectors given back.
\* Callers see nothing of a file being created before it has its name, nor of
\* sectors given back.
LEMMA OpUnseen ==
  ASSUME FSInv, FSInv',
         \/ \E n \in Name, cnt \in Sizes : CreateStart(n, cnt)
         \/ CreateInode \/ CreateWrite \/ CreateZero \/ CreateUndo \/ Release
  PROVE  UNCHANGED Store!storeVars
<1>0. TypeOK /\ \A t \in Objects : Owned(t) \cap OpSectors = {}
  BY Zenon DEF FSInv, Core, Apart
<1>1. \A t \in Objects : t \notin OpSectors /\ DataOf(t) \cap OpSectors = {}
  BY <1>0, Zenon DEF Owned, DataOf
<1>2. UNCHANGED <<slots, files>>
  BY Zenon DEF CreateStart, CreateInode, CreateWrite, CreateZero, CreateUndo, Release
<1>3. CASE (\E n \in Name, cnt \in Sizes : CreateStart(n, cnt)) \/ CreateInode
  <2>1. UNCHANGED <<disk_inode, data>>
    BY <1>3, Zenon DEF CreateStart, CreateInode
  <2> QED
    BY <1>2, <2>1, AbsSame, Zenon
<1>4. CASE CreateWrite
  <2>1. op.sector \in OpSectors /\ data' = data
    BY <1>4, OpSectorsNow, Zenon DEF OpSectorsAre, CreateWrite
  <2>2. \A t \in Sector : t # op.sector => disk_inode'[t] = disk_inode[t]
    BY <1>0, <1>4, Zenon DEF CreateWrite, TypeOK
  <2> QED
    BY <1>0, <1>1, <1>2, <2>1, <2>2, ObjectsIn, AbsSame, Zenon
<1>5. CASE CreateZero
  <2>1. op.left \subseteq OpSectors /\ op.left # {} /\ op.left \in SUBSET Nat
    <3>1. op.left \subseteq DataOf(op.sector) /\ op.left # {}
      BY <1>5, Zenon DEF FSInv, Core, Zeroed, CreateZero
    <3>2. OpSectors = Owned(op.sector)
      BY <1>5, OpSectorsNow, Zenon DEF OpSectorsAre, CreateZero
    <3> QED
      BY <3>1, <3>2, RunIn, SectorsNat, Zenon DEF Owned, DataOf
  <2>2. First(op.left) \in OpSectors
    BY <2>1, FirstIn, Zenon
  <2>3. disk_inode' = disk_inode /\ data' = [data EXCEPT ![First(op.left)] = "zero"]
    BY <1>5, Zenon DEF CreateZero
  <2>4. \A t \in Objects : \A d \in DataOf(t) : data'[d] = data[d]
    BY <1>0, <1>1, <2>2, <2>3, RunIn, Zenon DEF DataOf, TypeOK
  <2> QED
    BY <1>2, <2>3, <2>4, AbsSame, Zenon
<1>6. CASE CreateUndo
  <2>1. OpSectors = {op.sector}
    BY <1>6, OpSectorsNow, Zenon DEF OpSectorsAre, CreateUndo
  <2>2. free_map_release({op.sector}) /\ disk_inode' = disk_inode
    BY <1>6, Zenon DEF CreateUndo
  <2>3. \A t \in Objects : \A d \in DataOf(t) : data'[d] = data[d]
    BY <1>1, <2>1, <2>2, ReleaseUnseen, Zenon
  <2> QED
    BY <1>2, <2>2, <2>3, AbsSame, Zenon
<1>7. CASE Release
  <2>1. OpSectors = Run(op.start, op.cnt)
    BY <1>7, OpSectorsNow, Zenon DEF OpSectorsAre, Release
  <2>2. free_map_release(Run(op.start, op.cnt)) /\ disk_inode' = disk_inode
    BY <1>7, Zenon DEF Release
  <2>3. \A t \in Objects : \A d \in DataOf(t) : data'[d] = data[d]
    BY <1>1, <2>1, <2>2, ReleaseUnseen, Zenon
  <2> QED
    BY <1>2, <2>2, <2>3, AbsSame, Zenon
<1> QED
  BY <1>3, <1>4, <1>5, <1>6, <1>7, Zenon

\* Closing an inode touches the data of no file.
LEMMA CloseUnseen ==
  ASSUME FSInv, NEW s \in Objects, NEW i, inode_close(s, i)
  PROVE  \A t \in Objects : \A d \in DataOf(t) : data'[d] = data[d]
<1>1. ASSUME NEW t \in Objects PROVE DataOf(t) \cap {s} = {}
  <2>1. CASE t = s
    BY <2>1, Zenon DEF FSInv, Core, Apart
  <2>2. CASE t # s
    BY <2>2, Zenon DEF FSInv, Core, Apart, Owned, DataOf
  <2> QED
    BY <2>1, <2>2, Zenon
<1>2. data' = data \/ free_map_release({s})
  BY Zenon DEF inode_close
<1> QED
  BY <1>1, <1>2, ReleaseUnseen, Zenon

\* Callers see nothing of filesys_remove's closing of the inode.
LEMMA RemoveCloseUnseen ==
  ASSUME FSInv, FSInv', RemoveClose
  PROVE  UNCHANGED Store!storeVars
<1>1. op.sector \in Objects
  BY Zenon DEF RemoveClose, FSInv, Core, InodesOK, Objects
<1>2. UNCHANGED <<disk_inode, slots, files>>
  BY Zenon DEF RemoveClose
<1>3. \A t \in Objects : \A d \in DataOf(t) : data'[d] = data[d]
  BY <1>1, CloseUnseen, Zenon DEF RemoveClose
<1> QED
  BY <1>2, <1>3, AbsSame, Zenon

\* filesys_create, when dir_add enters the name.
LEMMA CreateAddStores ==
  ASSUME FSInv, FSInv', op.pc = "zero", op.left = {}, Matches(op.name) = {}, FreeSlots # {},
         slots' = [slots EXCEPT ![First(FreeSlots)] =
                     [in_use |-> TRUE, name |-> op.name, inode_sector |-> op.sector]],
         UNCHANGED <<free_map, disk_map, disk_inode, data, open_inodes, files>>
  PROVE  \E n \in Name, o \in Sector : Store!StoreCreate(n, o)
<1>0. TypeOK /\ op \in Zeroing
  BY OpFields, Zenon DEF FSInv, Core
<1>1. PICK n \in Name, o \in Sector : n = op.name /\ o = op.sector
  BY <1>0, Zenon DEF Zeroing
<1>2. PICK k \in Slot : k = First(FreeSlots) /\ ~slots[k].in_use
  <2>1. FreeSlots \in SUBSET Nat
    BY SectorsNat, Zenon DEF FreeSlots
  <2>2. First(FreeSlots) \in FreeSlots
    BY <2>1, FirstIn, Zenon
  <2> QED
    BY <2>2, Zenon DEF FreeSlots
<1>3. /\ slots'[k].in_use /\ slots'[k].name = n /\ slots'[k].inode_sector = o
      /\ \A j \in Slot \ {k} : slots'[j] = slots[j]
  BY <1>0, <1>1, <1>2, Zenon DEF TypeOK
<1>4. /\ Matches(n)' = {k}
      /\ \A m \in Name \ {n} : Matches(m)' = Matches(m) /\ k \notin Matches(m)
  BY <1>1, <1>2, <1>3 DEF Matches
<1>5. absNames[n] = NULL
  BY <1>1, AbsNow, Zenon DEF AbsAre
<1>6. o \notin Used
  <2>1. OpSectors = Owned(o) /\ \A t \in Objects : Owned(t) \cap OpSectors = {}
    BY <1>1, OpSectorsNow, Zenon DEF OpSectorsAre, FSInv, Core, Apart
  <2>2. o \notin Objects
    BY <2>1, Zenon DEF Owned
  <2> QED
    BY <2>2, AbsNow, Zenon DEF AbsAre
<1>7. o \notin Store!InUse
  BY <1>6, AbsNow, Zenon DEF AbsAre
<1>8. absNames' = [absNames EXCEPT ![n] = o]
  <2>1. absNames'[n] = o
    BY <1>3, <1>4, AbsNext, Zenon DEF AbsAre
  <2>2. ASSUME NEW m \in Name \ {n} PROVE absNames'[m] = absNames[m]
    <3>1. CASE Matches(m) = {}
      BY <1>4, <3>1, AbsNow, AbsNext, Zenon DEF AbsAre
    <3>2. ASSUME NEW j \in Matches(m) PROVE absNames'[m] = absNames[m]
      <4>1. j \in Matches(m)' /\ slots'[j] = slots[j]
        BY <1>3, <1>4, <3>2, Zenon DEF Matches
      <4> QED
        BY <3>2, <4>1, AbsNow, AbsNext DEF AbsAre
    <3> QED
      BY <3>1, <3>2, Zenon
  <2>3. absNames = [m \in Name |-> absNames[m]] /\ absNames' = [m \in Name |-> absNames'[m]]
    BY AbsNow, AbsNext, Zenon DEF AbsAre
  <2> QED
    BY <2>1, <2>2, <2>3, Zenon
<1>9. Used' = Used \cup {o}
  <2>1. \A s : Opens(s)' = Opens(s)
    BY Zenon DEF Opens
  <2>2. \A s : s \in NamedInodes' <=> \E j \in Slot : slots'[j].in_use /\ slots'[j].inode_sector = s
    BY Zenon DEF NamedInodes
  <2>3. \A s : s \in NamedInodes' <=> s \in NamedInodes \/ s = o
    BY <1>2, <1>3, <2>2, NamedIs
  <2> QED
    BY <2>1, <2>3, Zenon DEF Used
<1>10. \A s : Live(s)' <=> Live(s)
  BY Zenon DEF Live, DataOf
<1>11. ~Live(o)
  BY <1>1, Zenon DEF FSInv, Core, Zeroed, Live
<1>12. absContent' = [absContent EXCEPT ![o] = "zero"]
  <2>1. /\ absContent = [s \in Sector |-> IF s \in Used /\ Live(s) THEN "written" ELSE "zero"]
        /\ absContent' = [s \in Sector |-> IF s \in Used' /\ Live(s)' THEN "written" ELSE "zero"]
    BY AbsNow, AbsNext, Zenon DEF AbsAre
  <2> QED
    BY <1>9, <1>10, <1>11, <2>1, Zenon
<1>13. absHandles' = absHandles /\ absDenies' = absDenies
  BY Zenon DEF absHandles, absDenies
<1> QED
  BY <1>5, <1>7, <1>8, <1>12, <1>13, Zenon DEF Store!StoreCreate

\* filesys_remove takes effect when the name is erased.
LEMMA RemoveStores ==
  ASSUME FSInv, FSInv', NEW n \in Name, Remove(n)
  PROVE  Store!StoreRemove(n)
<1>0. TypeOK /\ NamesOK
  BY Zenon DEF FSInv, Core
<1>1. PICK k \in Matches(n) : slots' = [slots EXCEPT ![k] = Erased]
  BY Zenon DEF Remove, lookup
<1>2. UNCHANGED <<disk_inode, data, files>>
  BY Zenon DEF Remove
<1>3. /\ k \in Slot /\ slots[k].in_use /\ slots[k].name = n /\ ~slots'[k].in_use
      /\ slots[k].inode_sector \in Sector /\ \A j \in Slot \ {k} : slots'[j] = slots[j]
  BY <1>0, <1>1 DEF Matches, TypeOK, DirEntry, Erased
<1>4. absNames[n] # NULL
  BY <1>3, AbsNow, NullIsNone, Zenon DEF AbsAre
<1>5. Matches(n)' = {} /\ \A m \in Name \ {n} : Matches(m)' = Matches(m) /\ k \notin Matches(m)
  BY <1>0, <1>3, Zenon DEF Matches, NamesOK
<1>6. absNames' = [absNames EXCEPT ![n] = NULL]
  <2>1. absNames'[n] = NULL
    BY <1>5, AbsNext, Zenon DEF AbsAre
  <2>2. ASSUME NEW m \in Name \ {n} PROVE absNames'[m] = absNames[m]
    <3>1. CASE Matches(m) = {}
      BY <1>5, <3>1, AbsNow, AbsNext, Zenon DEF AbsAre
    <3>2. ASSUME NEW j \in Matches(m) PROVE absNames'[m] = absNames[m]
      <4>1. j \in Matches(m)' /\ slots'[j] = slots[j]
        BY <1>3, <1>5, <3>2, Zenon DEF Matches
      <4> QED
        BY <3>2, <4>1, AbsNow, AbsNext DEF AbsAre
    <3> QED
      BY <3>1, <3>2, Zenon
  <2>3. absNames = [m \in Name |-> absNames[m]] /\ absNames' = [m \in Name |-> absNames'[m]]
    BY AbsNow, AbsNext, Zenon DEF AbsAre
  <2> QED
    BY <2>1, <2>2, <2>3, Zenon
<1>7. Carried
  <2>1. \A s : Opens(s)' = Opens(s)
    BY <1>2, Zenon DEF Opens
  <2>2. \A s : s \in NamedInodes' <=> \E j \in Slot : slots'[j].in_use /\ slots'[j].inode_sector = s
    BY Zenon DEF NamedInodes
  <2>3. NamedInodes' \subseteq NamedInodes
    BY <1>3, <2>2, NamedIs
  <2> QED
    BY <1>2, <2>1, <2>3, Zenon DEF Carried, Used
<1>8. absHandles' = absHandles /\ absDenies' = absDenies
  BY <1>2, Zenon DEF absHandles, absDenies
<1> QED
  BY <1>4, <1>6, <1>7, <1>8, ContentKept, Zenon DEF Store!StoreRemove

\* filesys_open and file_reopen.
LEMMA OpenStores ==
  ASSUME FSInv, FSInv', NEW f \in File, NEW s \in Used, files[f] = NULL,
         files' = [files EXCEPT ![f] = [inode |-> s, deny_write |-> FALSE]],
         UNCHANGED <<disk_inode, data, slots>>
  PROVE  \E o \in Sector : Store!StoreOpen(f, o)
<1>0. TypeOK /\ s \in Sector
  BY ObjectsIn, Zenon DEF FSInv, Core, Used
<1>1. /\ files'[f] \in OpenFile /\ files'[f].inode = s /\ ~files'[f].deny_write
      /\ \A g \in File \ {f} : files'[g] = files[g]
  BY <1>0, Zenon DEF TypeOK, OpenFile
<1>2. files'[f] # NULL
  BY <1>1, NullIsNone, Zenon
<1>3. absHandles[f] = NULL
  BY Zenon DEF absHandles
<1>4. s \in Store!InUse \ {NULL}
  BY <1>0, AbsNow, NullIsNone, Zenon DEF AbsAre
<1>5. absHandles' = [absHandles EXCEPT ![f] = s]
  <2>1. absHandles'[f] = s /\ \A g \in File \ {f} : absHandles'[g] = absHandles[g]
    BY <1>1, <1>2 DEF absHandles
  <2>2. absHandles = [g \in File |-> absHandles[g]] /\ absHandles' = [g \in File |-> absHandles'[g]]
    BY DEF absHandles
  <2> QED
    BY <2>1, <2>2, Zenon
<1>6. absNames' = absNames
  BY Zenon DEF absNames, Matches
<1>7. absDenies' = absDenies
  BY <1>1, <1>2, Zenon DEF absDenies
<1>8. Used' = Used
  <2>1. NamedInodes' = NamedInodes
    BY Zenon DEF NamedInodes
  <2>2. \A t \in Sector \ {s} : Opens(t)' = Opens(t)
    BY <1>1, <1>2, Zenon DEF Opens
  <2>3. f \in Opens(s)'
    BY <1>1, <1>2, Zenon DEF Opens
  <2> QED
    BY <1>0, <2>1, <2>2, <2>3, Zenon DEF Used
<1>9. absContent' = absContent
  BY <1>8, ContentKept, Zenon DEF Carried
<1> QED
  BY <1>0, <1>3, <1>4, <1>5, <1>6, <1>7, <1>9, Zenon DEF Store!StoreOpen

\* file_close.
LEMMA CloseStores ==
  ASSUME FSInv, FSInv', NEW f \in File, file_close(f)
  PROVE  Store!StoreClose(f)
<1>0. TypeOK /\ CountsMatch /\ files[f] # NULL
  BY Zenon DEF FSInv, Core, file_close
<1>1. PICK s \in Sector : s = files[f].inode /\ s \in DOMAIN open_inodes /\ f \in Opens(s)
  BY <1>0, HandleOpen, Zenon
<1>2. UNCHANGED <<disk_inode, slots>> /\ files' = [files EXCEPT ![f] = NULL]
  BY Zenon DEF file_close
<1>3. files'[f] = NULL /\ \A g \in File \ {f} : files'[g] = files[g]
  BY <1>0, <1>2, Zenon DEF TypeOK
<1>4. absHandles[f] # NULL
  BY <1>0, <1>1, NullIsNone, Zenon DEF absHandles
<1>5. absHandles' = [absHandles EXCEPT ![f] = NULL]
  BY <1>3, Zenon DEF absHandles
<1>6. absDenies' = absDenies \ {f}
  BY <1>3 DEF absDenies
<1>7. absNames' = absNames
  BY <1>2, Zenon DEF absNames, Matches
<1>8. Carried
  <2>1. NamedInodes' = NamedInodes /\ \A t : Opens(t)' \subseteq Opens(t)
    BY <1>2, <1>3, Zenon DEF NamedInodes, Opens
  <2>2. Used' \subseteq Used /\ Used \subseteq Objects
    BY <2>1, AbsNow, Zenon DEF Used, AbsAre
  <2>3. \A t \in Objects : \A d \in DataOf(t) : data'[d] = data[d]
    BY <1>1, CloseUnseen, Zenon DEF file_close, Objects
  <2> QED
    BY <1>2, <2>2, <2>3, Zenon DEF Carried
<1> QED
  BY <1>4, <1>5, <1>6, <1>7, <1>8, ContentKept, Zenon DEF Store!StoreClose

\* file_deny_write and file_allow_write.
LEMMA SetDenyStores ==
  ASSUME FSInv, FSInv', NEW f \in File, NEW b \in BOOLEAN, SetDeny(f, b)
  PROVE  Store!StoreDeny(f) \/ Store!StoreAllow(f)
<1>0. TypeOK /\ CountsMatch /\ files[f] # NULL
  BY Zenon DEF FSInv, Core, SetDeny
<1>1. files[f] \in OpenFile
  BY <1>0, Zenon DEF TypeOK
<1>2. UNCHANGED <<disk_inode, data, slots>>
  BY Zenon DEF SetDeny, diskVars
<1>3. /\ files'[f] \in OpenFile /\ files'[f].inode = files[f].inode /\ files'[f].deny_write = b
      /\ \A g \in File \ {f} : files'[g] = files[g]
  BY <1>0, <1>1, Zenon DEF SetDeny, TypeOK, OpenFile
<1>4. files'[f] # NULL
  BY <1>3, NullIsNone, Zenon
<1>5. absHandles' = absHandles
  BY <1>0, <1>3, <1>4, Zenon DEF absHandles
<1>6. absHandles[f] # NULL
  BY <1>0, <1>1, NullIsNone, Zenon DEF absHandles, OpenFile
<1>7. absNames' = absNames
  BY <1>2, Zenon DEF absNames, Matches
<1>8. absDenies' = IF b THEN absDenies \cup {f} ELSE absDenies \ {f}
  BY <1>3, <1>4, Zenon DEF absDenies
<1>9. Used' = Used
  <2>1. NamedInodes' = NamedInodes /\ \A t : Opens(t)' = Opens(t)
    BY <1>0, <1>2, <1>3, <1>4, Zenon DEF NamedInodes, Opens
  <2> QED
    BY <2>1, Zenon DEF Used
<1>10. absContent' = absContent
  BY <1>2, <1>9, ContentKept, Zenon DEF Carried
<1> QED
  BY <1>5, <1>6, <1>7, <1>8, <1>10, Zenon DEF Store!StoreDeny, Store!StoreAllow

\* file_write changes the contents of its own file only.
LEMMA WriteStores ==
  ASSUME FSInv, FSInv', NEW f \in File, file_write(f)
  PROVE  Store!StoreWrite(f)
<1>0. TypeOK /\ CountsMatch /\ InodesOK /\ Apart /\ files[f] # NULL
  BY Zenon DEF FSInv, Core, file_write
<1>1. PICK s \in Sector :
        /\ s = files[f].inode /\ s \in DOMAIN open_inodes /\ f \in Opens(s)
        /\ open_inodes[s].deny_write_cnt = Cardinality(Deniers(s))
  BY <1>0, HandleOpen, Zenon
<1>2. PICK d \in Run(open_inodes[s].start, open_inodes[s].cnt) : data' = [data EXCEPT ![d] = "live"]
  BY <1>1, Zenon DEF file_write
<1>3. UNCHANGED <<disk_inode, slots, files>>
  BY Zenon DEF file_write
<1>4. absHandles[f] = s /\ s # NULL
  BY <1>0, <1>1, NullIsNone, Zenon DEF absHandles
<1>5. \A g \in absDenies : absHandles[g] # absHandles[f]
  <2>1. Cardinality(Deniers(s)) = 0
    BY <1>1, Zenon DEF file_write
  <2>2. Deniers(s) = {}
    BY <2>1, OpensFinite, FS_EmptySet, Zenon
  <2> QED
    BY <1>4, <2>2, Zenon DEF absDenies, absHandles, Deniers, Opens
<1>6. absHandles' = absHandles /\ absDenies' = absDenies /\ absNames' = absNames
  BY <1>3, Zenon DEF absHandles, absDenies, absNames, Matches
<1>7. Used' = Used /\ s \in Used /\ Used \subseteq Objects
  <2>1. NamedInodes' = NamedInodes /\ \A t : Opens(t)' = Opens(t)
    BY <1>3, Zenon DEF NamedInodes, Opens
  <2> QED
    BY <1>1, <2>1, AbsNow, Zenon DEF Used, AbsAre
<1>8. d \in DataOf(s) /\ d \in Sector
  BY <1>0, <1>1, <1>2, RunIn, Zenon DEF InodesOK, DataOf
<1>9. \A t : DataOf(t)' = DataOf(t)
  BY <1>3, Zenon DEF DataOf
<1>10. Live(s)'
  BY <1>0, <1>2, <1>8, <1>9, Zenon DEF Live, TypeOK
<1>11. ASSUME NEW t \in Used, t # s PROVE Live(t)' <=> Live(t)
  <2>1. d \notin DataOf(t)
    BY <1>0, <1>7, <1>8, <1>11, Zenon DEF Apart, Owned, DataOf
  <2>2. \A e \in DataOf(t) : data'[e] = data[e]
    BY <1>0, <1>2, <2>1, RunIn, Zenon DEF DataOf, TypeOK
  <2> QED
    BY <1>9, <2>2, Zenon DEF Live
<1>12. absContent' = [absContent EXCEPT ![s] = "written"]
  <2>1. /\ absContent = [t \in Sector |-> IF t \in Used /\ Live(t) THEN "written" ELSE "zero"]
        /\ absContent' = [t \in Sector |-> IF t \in Used' /\ Live(t)' THEN "written" ELSE "zero"]
    BY AbsNow, AbsNext, Zenon DEF AbsAre
  <2> QED
    BY <1>7, <1>10, <1>11, <2>1, Zenon
<1> QED
  BY <1>4, <1>5, <1>6, <1>12, Zenon DEF Store!StoreWrite

\* A power failure: names and contents stay, open files are gone.
LEMMA RebootStores ==
  ASSUME FSInv, FSInv', Reboot
  PROVE  Store!StoreCrash
<1>1. UNCHANGED <<disk_inode, data, slots>> /\ files' = [f \in File |-> NULL]
  BY Zenon DEF Reboot, diskVars
<1>2. absHandles' = [f \in File |-> NULL] /\ absDenies' = {}
  BY <1>1, Zenon DEF absHandles, absDenies
<1>3. absNames' = absNames
  BY <1>1, Zenon DEF absNames, Matches
<1>4. Carried
  <2>1. NamedInodes' = NamedInodes /\ \A t : Opens(t)' = {}
    BY <1>1, Zenon DEF NamedInodes, Opens
  <2> QED
    BY <1>1, <2>1, Zenon DEF Carried, Used
<1> QED
  BY <1>2, <1>3, <1>4, ContentKept, Zenon DEF Store!StoreCrash

\* A freshly formatted disk is an empty store.
LEMMA InitStore ==
  ASSUME FileSysInit
  PROVE  Store!StoreInit
<1>0. FSInv
  BY InitFSInv, Zenon
<1>1. \A n \in Name : Matches(n) = {}
  BY Zenon DEF FileSysInit, Matches, Erased
<1>2. absNames = [n \in Name |-> NULL]
  BY <1>1, Zenon DEF absNames
<1>3. absHandles = [f \in File |-> NULL] /\ absDenies = {}
  BY Zenon DEF FileSysInit, absHandles, absDenies
<1>4. Used = {}
  BY Zenon DEF FileSysInit, Used, NamedInodes, Erased, Opens
<1>5. absContent = [s \in Sector |-> "zero"]
  BY <1>0, <1>4, AbsNow, Zenon DEF AbsAre
<1> QED
  BY <1>2, <1>3, <1>5, Zenon DEF Store!StoreInit

\* Every step is one of the store, or none.
LEMMA NextStore ==
  ASSUME FSInv, FSInv', FileSysNext
  PROVE  [Store!StoreNext]_(Store!storeVars)
<1>0. TypeOK /\ CountsMatch
  BY Zenon DEF FSInv, Core
<1>1. CASE \/ \E n \in Name, cnt \in Sizes : CreateStart(n, cnt)
           \/ CreateInode \/ CreateWrite \/ CreateZero \/ CreateUndo \/ Release
  BY <1>1, OpUnseen, Zenon
<1>2. CASE RemoveClose
  BY <1>2, RemoveCloseUnseen, Zenon
<1>3. CASE CreateAdd
  <2>1. /\ op.pc = "zero" /\ op.left = {}
        /\ UNCHANGED <<free_map, disk_map, disk_inode, data, open_inodes, files>>
    BY <1>3, Zenon DEF CreateAdd
  <2>2. CASE UNCHANGED slots
    BY <2>1, <2>2, AbsSame, Zenon
  <2>3. CASE ~UNCHANGED slots
    <3>1. /\ Matches(op.name) = {} /\ FreeSlots # {}
          /\ slots' = [slots EXCEPT ![First(FreeSlots)] =
                         [in_use |-> TRUE, name |-> op.name, inode_sector |-> op.sector]]
      BY <1>3, <2>3, Zenon DEF CreateAdd, dir_add
    <3>2. \E n \in Name, o \in Sector : Store!StoreCreate(n, o)
      BY <2>1, <3>1, CreateAddStores, Zenon
    <3> QED
      BY <3>2, Zenon DEF Store!StoreNext
  <2> QED
    BY <2>2, <2>3, Zenon
<1>4. CASE \E n \in Name : Remove(n)
  BY <1>4, RemoveStores, Zenon DEF Store!StoreNext
<1>5. ASSUME NEW f \in File, NEW n \in Name, Open(f, n) PROVE Store!StoreNext
  <2>1. PICK k \in Slot : /\ slots[k].in_use
                          /\ files' = [files EXCEPT ![f] = [inode |-> slots[k].inode_sector,
                                                            deny_write |-> FALSE]]
    BY <1>5, Zenon DEF Open, lookup, Matches
  <2>2. slots[k].inode_sector \in Used
    BY <2>1, NamedIs, Zenon DEF Used
  <2>3. files[f] = NULL /\ UNCHANGED <<disk_inode, data, slots>>
    BY <1>5, Zenon DEF Open, diskVars
  <2>4. \E o \in Sector : Store!StoreOpen(f, o)
    BY <2>1, <2>2, <2>3, OpenStores, Zenon
  <2> QED
    BY <2>4, Zenon DEF Store!StoreNext
<1>6. ASSUME NEW f \in File, NEW g \in File, file_reopen(f, g) PROVE Store!StoreNext
  <2>1. /\ files[f] = NULL /\ files[g] # NULL /\ UNCHANGED <<disk_inode, data, slots>>
        /\ files' = [files EXCEPT ![f] = [inode |-> files[g].inode, deny_write |-> FALSE]]
    BY <1>6, Zenon DEF file_reopen, diskVars
  <2>2. files[g].inode \in Used
    BY <1>0, <2>1, HandleOpen, Zenon DEF Used
  <2>3. \E o \in Sector : Store!StoreOpen(f, o)
    BY <2>1, <2>2, OpenStores, Zenon
  <2> QED
    BY <2>3, Zenon DEF Store!StoreNext
<1>7. ASSUME NEW f \in File, file_close(f) \/ file_write(f) \/ \E b \in BOOLEAN : SetDeny(f, b)
      PROVE  Store!StoreNext
  BY <1>7, CloseStores, WriteStores, SetDenyStores, Zenon DEF Store!StoreNext
<1>8. CASE Reboot
  BY <1>8, RebootStores, Zenon DEF Store!StoreNext
<1> QED
  BY <1>1, <1>2, <1>3, <1>4, <1>5, <1>6, <1>7, <1>8, Zenon DEF FileSysNext

\* The file system is the store of named objects its callers believe in: a
\* name denotes one object, a removed file stays whole for those who have it
\* open, a new file is all zeros whatever its sectors held before, a write is
\* refused exactly while someone denies it, and a power failure costs open
\* files but no named one (filesys_create, filesys_remove, file_write).
THEOREM StoreImplemented == FileSysSpec => ImplementsStore
<1>1. FileSysInit => Store!StoreInit
  BY InitStore
<1>2. FSInv /\ FSInv' /\ [FileSysNext]_fsVars => [Store!StoreNext]_(Store!storeVars)
  <2>1. ASSUME FSInv, FSInv', UNCHANGED fsVars PROVE UNCHANGED Store!storeVars
    <3>1. UNCHANGED <<disk_inode, data, slots, files>>
      BY <2>1, Zenon DEF fsVars
    <3> QED
      BY <2>1, <3>1, AbsSame, Zenon
  <2> QED
    BY <2>1, NextStore, Zenon
<1> QED
  BY <1>1, <1>2, FileSysInvariant, PTL DEF FileSysSpec, ImplementsStore, Store!StoreSpec
=============================================================================
