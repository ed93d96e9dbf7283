------------------------------ MODULE FileSys ------------------------------
(***************************************************************************)
(* The file system of filesys/: inode.c, free-map.c, directory.c, file.c   *)
(* and filesys.c.  One operation runs at a time, but one that writes       *)
(* several sectors takes several steps, one per block_write, and the       *)
(* machine can lose power between any two.  System calls hold filesys_lock *)
(* for this; load() and process_exit() open and close the executable       *)
(* without it (process.c:423, 283, 300), and what becomes of the open      *)
(* inodes when they meet another operation is the subject of InodeTable.   *)
(*                                                                         *)
(* The unit of data is the sector; InodeIO models bytes within sectors.    *)
(* The root directory is open exactly while an operation runs, so its      *)
(* entry of open_inodes is left out, as is the free map's, always open.    *)
(* inode_open reads a sector and writes none; an allocation that fails     *)
(* before anything was written leaves everything as it was.  A directory   *)
(* is read whole: the bounce buffer of inode_read_at, whose refusal lookup *)
(* and dir_add would take for the end of the directory, is granted.        *)
(***************************************************************************)
EXTENDS Naturals, FiniteSets, Functions, Kernel

CONSTANTS SectorCnt,   \* size of fs_device in sectors
          DirSlots,    \* entries the root directory has room for
          Name,        \* file names callers use
          BadName,     \* those that are empty or longer than NAME_MAX
          File,        \* struct file objects that can be open at once
          Sizes        \* sizes, in sectors, callers ask for

ASSUME FileSysAssumption ==
  /\ SectorCnt \in Nat /\ SectorCnt > 4
  /\ DirSlots \in Nat \ {0}
  /\ BadName \subseteq Name
  /\ IsFiniteSet(File) /\ Sizes \subseteq Nat
  /\ NULL \notin Nat \cup [inode : Nat, deny_write : BOOLEAN]

VARIABLES free_map,    \* sectors in use, according to the bitmap in memory
          disk_map,    \* the same, in the free map file on disk
          disk_inode,  \* [Sector -> inode_disk]: the inode last written there
          data,        \* [Sector -> "zero", "live" or "stale"]: a data sector
          slots,       \* [Slot -> dir_entry]: contents of the root directory
          open_inodes, \* function from the sectors of open inodes to struct inode
          files,       \* [File -> struct file or NULL]
          op           \* the operation in progress

fsVars == <<free_map, disk_map, disk_inode, data, slots, open_inodes, files, op>>
diskVars == <<disk_map, disk_inode, data, slots>>

Sector == 0 .. SectorCnt - 1
Slot == 0 .. DirSlots - 1
FREE_MAP_SECTOR == 0
ROOT_DIR_SECTOR == 1
System == 0 .. 3            \* those two inodes and their data, after do_format
Erased == [in_use |-> FALSE, name |-> NULL, inode_sector |-> 0]   \* never read
Idle == [pc |-> "idle"]
Run(start, cnt) == {s \in Sector : start <= s /\ s < start + cnt}

\* All sectors of a file whose inode is in sector s.
Owned(s) == {s} \cup Run(disk_inode[s].start, disk_inode[s].cnt)
NamedInodes == {slots[i].inode_sector : i \in {j \in Slot : slots[j].in_use}}

FileSysInit ==
  /\ free_map = System
  /\ disk_map = System
  /\ disk_inode = [s \in Sector |-> [start |-> 0, cnt |-> 0]]
  /\ data = [s \in Sector |-> "stale"]
  /\ slots = [i \in Slot |-> Erased]
  /\ open_inodes = [s \in {} |-> NULL]
  /\ files = [f \in File |-> NULL]
  /\ op = Idle
-----------------------------------------------------------------------------
\* free_map_allocate finds the first run of cnt free sectors.
Candidates(cnt) == {s \in Sector : s + cnt <= SectorCnt /\ Run(s, cnt) \cap free_map = {}}
First(S) == CHOOSE s \in S : \A t \in S : s <= t

free_map_allocate(cnt, start) ==
  /\ Candidates(cnt) # {}
  /\ start = First(Candidates(cnt))
  /\ free_map' = free_map \cup Run(start, cnt)
  /\ disk_map' = free_map'

\* The write of the free map may fail for want of memory and nobody looks.
free_map_release(sectors) ==
  /\ free_map' = free_map \ sectors
  /\ disk_map' \in {free_map', disk_map}
  /\ data' = [s \in Sector |-> IF s \in sectors /\ data[s] = "live" THEN "stale" ELSE data[s]]

\* The first slot with the name, as a set of one or none.
Matches(n) == {i \in Slot : slots[i].in_use /\ slots[i].name = n}
lookup(n) == {i \in Matches(n) : \A j \in Matches(n) : i <= j}
FreeSlots == {i \in Slot : ~slots[i].in_use}

inode_open(s) ==
  open_inodes' =
    IF s \in DOMAIN open_inodes
    THEN [open_inodes EXCEPT ![s].open_cnt = @ + 1]
    ELSE [t \in DOMAIN open_inodes \cup {s} |->
            IF t = s THEN [open_cnt |-> 1, removed |-> FALSE, deny_write_cnt |-> 0,
                           start |-> disk_inode[s].start, cnt |-> disk_inode[s].cnt]
            ELSE open_inodes[t]]

\* Mutant: a removed inode is freed although others have it open.
inode_closeEarly(s, i) ==
  /\ open_inodes' = IF i[s].open_cnt > 1 THEN [i EXCEPT ![s].open_cnt = @ - 1]
                    ELSE Restrict(i, DOMAIN i \ {s})
  /\ free_map_release({s})
  /\ op' = Idle

\* inode_close, on the inode table i; the last opener of a removed inode goes
\* on to free its sectors, the inode's own first.
inode_close(s, i) ==
  IF i[s].open_cnt > 1
  THEN /\ open_inodes' = [i EXCEPT ![s].open_cnt = @ - 1]
       /\ op' = Idle
       /\ UNCHANGED <<free_map, disk_map, data>>
  ELSE /\ open_inodes' = Restrict(i, DOMAIN i \ {s})
       /\ IF i[s].removed
          THEN /\ free_map_release({s})
               /\ op' = [pc |-> "release", start |-> i[s].start, cnt |-> i[s].cnt]
          ELSE op' = Idle /\ UNCHANGED <<free_map, disk_map, data>>

Release ==
  /\ op.pc = "release"
  /\ free_map_release(Run(op.start, op.cnt))
  /\ op' = Idle
  /\ UNCHANGED <<disk_inode, slots, open_inodes, files>>
-----------------------------------------------------------------------------
\* filesys_create, one step per sector written.
CreateStart(n, cnt) ==
  /\ op = Idle
  /\ \E s \in Sector :
       /\ free_map_allocate(1, s)
       /\ op' = [pc |-> "inode", name |-> n, sector |-> s, cnt |-> cnt, start |-> 0]
  /\ UNCHANGED <<disk_inode, data, slots, open_inodes, files>>

\* inode_create: the data sectors, then the inode, then the zeros.
CreateInode ==
  /\ op.pc = "inode"
  /\ \/ /\ \E s \in Sector : free_map_allocate(op.cnt, s)
                             /\ op' = [pc |-> "write", name |-> op.name, sector |-> op.sector,
                                       cnt |-> op.cnt, start |-> s]
     \/ op' = [op EXCEPT !.pc = "undo"] /\ UNCHANGED <<free_map, disk_map>>
  /\ UNCHANGED <<disk_inode, data, slots, open_inodes, files>>

CreateWrite ==
  /\ op.pc = "write"
  /\ disk_inode' = [disk_inode EXCEPT ![op.sector] = [start |-> op.start, cnt |-> op.cnt]]
  /\ op' = [pc |-> "zero", name |-> op.name, sector |-> op.sector,
            left |-> Run(op.start, op.cnt)]
  /\ UNCHANGED <<free_map, disk_map, data, slots, open_inodes, files>>

\* Mutant: the data sectors are not cleared.
CreateZeroNot ==
  /\ op.pc = "zero"
  /\ op.left # {}
  /\ op' = [op EXCEPT !.left = {}]
  /\ UNCHANGED <<free_map, disk_map, disk_inode, data, slots, open_inodes, files>>

CreateZero ==
  /\ op.pc = "zero"
  /\ op.left # {}
  /\ LET s == First(op.left) IN
       /\ data' = [data EXCEPT ![s] = "zero"]
       /\ op' = [op EXCEPT !.left = @ \ {s}]
  /\ UNCHANGED <<free_map, disk_map, disk_inode, slots, open_inodes, files>>

\* dir_add: the name must be valid and new, there must be a free slot, and the
\* write must succeed.
dir_add(n, s) ==
  \/ /\ n \notin BadName /\ Matches(n) = {} /\ FreeSlots # {}
     /\ slots' = [slots EXCEPT ![First(FreeSlots)] =
                    [in_use |-> TRUE, name |-> n, inode_sector |-> s]]
     /\ op' = Idle
  \/ /\ op' = [op EXCEPT !.pc = "undo"]
     /\ UNCHANGED slots

CreateAdd ==
  /\ op.pc = "zero"
  /\ op.left = {}
  /\ dir_add(op.name, op.sector)
  /\ UNCHANGED <<free_map, disk_map, disk_inode, data, open_inodes, files>>

\* A failed filesys_create gives back the inode's sector, and only that.
CreateUndo ==
  /\ op.pc = "undo"
  /\ free_map_release({op.sector})
  /\ op' = Idle
  /\ UNCHANGED <<disk_inode, slots, open_inodes, files>>

\* filesys_remove: dir_remove opens the inode, erases the entry and marks
\* the inode; inode_close follows.
Remove(n) ==
  /\ op = Idle
  /\ \E i \in lookup(n) :
       /\ slots' = [slots EXCEPT ![i] = Erased]
       /\ LET s == slots[i].inode_sector IN
            /\ op' = [pc |-> "removed", sector |-> s]
            /\ inode_open(s)
  /\ UNCHANGED <<free_map, disk_map, disk_inode, data, files>>

RemoveClose ==
  /\ op.pc = "removed"
  /\ inode_close(op.sector, [open_inodes EXCEPT ![op.sector].removed = TRUE])
  /\ UNCHANGED <<disk_inode, slots, files>>

Open(f, n) ==
  /\ op = Idle
  /\ files[f] = NULL
  /\ \E i \in lookup(n) :
       /\ inode_open(slots[i].inode_sector)
       /\ files' = [files EXCEPT ![f] = [inode |-> slots[i].inode_sector, deny_write |-> FALSE]]
  /\ UNCHANGED <<free_map, diskVars, op>>

file_reopen(f, g) ==
  /\ op = Idle
  /\ files[f] = NULL /\ files[g] # NULL
  /\ open_inodes' = [open_inodes EXCEPT ![files[g].inode].open_cnt = @ + 1]
  /\ files' = [files EXCEPT ![f] = [inode |-> files[g].inode, deny_write |-> FALSE]]
  /\ UNCHANGED <<free_map, diskVars, op>>

\* file_deny_write and file_allow_write on the inode table i.
Deny(f, i) == IF files[f].deny_write THEN i
              ELSE [i EXCEPT ![files[f].inode].deny_write_cnt = @ + 1]
Allow(f, i) == IF files[f].deny_write THEN [i EXCEPT ![files[f].inode].deny_write_cnt = @ - 1]
               ELSE i

SetDeny(f, b) ==
  /\ op = Idle
  /\ files[f] # NULL
  /\ open_inodes' = IF b THEN Deny(f, open_inodes) ELSE Allow(f, open_inodes)
  /\ files' = [files EXCEPT ![f].deny_write = b]
  /\ UNCHANGED <<free_map, diskVars, op>>

file_close(f) ==
  /\ op = Idle
  /\ files[f] # NULL
  /\ inode_close(files[f].inode, Allow(f, open_inodes))
  /\ files' = [files EXCEPT ![f] = NULL]
  /\ UNCHANGED <<disk_inode, slots>>

file_write(f) ==
  /\ op = Idle
  /\ files[f] # NULL
  /\ open_inodes[files[f].inode].deny_write_cnt = 0
  /\ LET i == open_inodes[files[f].inode] IN
       \E s \in Run(i.start, i.cnt) : data' = [data EXCEPT ![s] = "live"]
  /\ UNCHANGED <<free_map, disk_map, disk_inode, slots, open_inodes, files, op>>

\* Power is lost, or the machine shuts down; filesys_init (false) follows and
\* free_map_open reads the free map back.
Reboot ==
  /\ free_map' = disk_map
  /\ open_inodes' = [s \in {} |-> NULL]
  /\ files' = [f \in File |-> NULL]
  /\ op' = Idle
  /\ UNCHANGED diskVars

FileSysNext ==
  \/ \E n \in Name : Remove(n) \/ \E cnt \in Sizes : CreateStart(n, cnt)
  \/ CreateInode \/ CreateWrite \/ CreateZero \/ CreateAdd \/ CreateUndo
  \/ RemoveClose \/ Release
  \/ \E f \in File : \/ file_close(f) \/ file_write(f)
                     \/ \E n \in Name : Open(f, n)
                     \/ \E g \in File : file_reopen(f, g)
                     \/ \E b \in BOOLEAN : SetDeny(f, b)
  \/ Reboot

FileSysSpec == FileSysInit /\ [][FileSysNext]_fsVars
-----------------------------------------------------------------------------
Opens(s) == {f \in File : files[f] # NULL /\ files[f].inode = s}
OpenRun(s) == {s} \cup Run(open_inodes[s].start, open_inodes[s].cnt)

\* The sectors the operation in progress has taken or has still to give back.
OpSectors ==
  CASE op.pc \in {"inode", "undo"} -> {op.sector}
    [] op.pc = "write" -> {op.sector} \cup Run(op.start, op.cnt)
    [] op.pc = "zero" -> Owned(op.sector)
    [] op.pc = "release" -> Run(op.start, op.cnt)
    [] OTHER -> {}

\* Sectors marked in use that nothing leads to any more.
Lost == free_map \ (System \cup OpSectors
                     \cup (UNION {Owned(s) : s \in NamedInodes})
                     \cup (UNION {OpenRun(s) : s \in DOMAIN open_inodes}))

\* Whenever the power fails, the disk holds a sound file system: every named
\* inode and its data are marked used in the free map on disk, no sector
\* belongs to two files or to the system, and no name occurs twice.
DiskConsistent ==
  /\ \A s \in NamedInodes : Owned(s) \subseteq disk_map \ System
  /\ \A i, j \in Slot :
       slots[i].in_use /\ slots[j].in_use /\ i # j =>
         /\ slots[i].name # slots[j].name
         /\ Owned(slots[i].inode_sector) \cap Owned(slots[j].inode_sector) = {}

\* The sectors of an open inode stay allocated, to it alone, until its last
\* opener closes it, also after the file was removed: no other open inode, no
\* named file and no file being created shares one (inode_close, inode_remove).
OpenFilesIntact ==
  \A s \in DOMAIN open_inodes :
    /\ OpenRun(s) \subseteq free_map \ System
    /\ OpenRun(s) = Owned(s)
    /\ \A t \in (DOMAIN open_inodes \cup NamedInodes) \ {s} : OpenRun(s) \cap Owned(t) = {}
    /\ op.pc # "removed" => OpenRun(s) \cap OpSectors = {}

\* open_cnt counts the struct files (and the remove in progress) that hold the
\* inode and deny_write_cnt those of them that deny writes, so the ASSERTs of
\* inode_deny_write and inode_allow_write hold and no close comes too early.
CountsMatch ==
  \A s \in Sector :
    LET holders == Cardinality(Opens(s)) + (IF op.pc = "removed" /\ op.sector = s THEN 1 ELSE 0)
    IN IF holders = 0 THEN s \notin DOMAIN open_inodes
       ELSE /\ s \in DOMAIN open_inodes
            /\ open_inodes[s].open_cnt = holders
            /\ open_inodes[s].deny_write_cnt = Cardinality({f \in Opens(s) : files[f].deny_write})

\* Each step leaves the disk, the open files and their counts as they must be,
\* and loses sectors only where filesys_create fails after inode_create took
\* data sectors, of which it gives back the inode alone, or at a reboot.
FilesSound ==
  [][/\ DiskConsistent' /\ OpenFilesIntact' /\ CountsMatch'
     /\ Lost' \subseteq Lost \/ (op.pc = "zero" /\ op'.pc = "undo") \/ Reboot]_fsVars
-----------------------------------------------------------------------------
\* The abstract state: an object is known by the sector of its inode.
absNames == [n \in Name |->
  LET m == Matches(n) IN IF m = {} THEN NULL ELSE slots[First(m)].inode_sector]
absHandles == [f \in File |-> IF files[f] = NULL THEN NULL ELSE files[f].inode]
absDenies == {f \in File : files[f] # NULL /\ files[f].deny_write}
Holds(s) == {data[d] : d \in Run(disk_inode[s].start, disk_inode[s].cnt)}
absContent == [s \in Sector |->
  IF s \notin NamedInodes \cup {absHandles[f] : f \in File} THEN "zero"
  ELSE IF "stale" \in Holds(s) THEN "garbage"
  ELSE IF "live" \in Holds(s) THEN "written" ELSE "zero"]

Store == INSTANCE FileStore WITH
  Object <- Sector, names <- absNames, handles <- absHandles,
  denies <- absDenies, content <- absContent

\* The file system is the store of named objects callers believe in, across
\* creates, removes of open files, sector reuse and power failures; a new file
\* is all zeros and never shows an earlier file's data (filesys_create,
\* filesys_open, filesys_remove, file_close, file_write).
ImplementsStore == Store!StoreSpec
=============================================================================
