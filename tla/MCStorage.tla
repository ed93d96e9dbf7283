----------------------------- MODULE MCStorage ------------------------------
(***************************************************************************)
(* Small instances of the storage stack: FileSys, InodeTable, InodeIO,     *)
(* Ustar, Partition and the channel and the detection of Ide.  They share  *)
(* no state: a behaviour runs one of them, the `subject', and the run      *)
(* covers the behaviours of all.  FileSys, InodeTable, InodeIO and Ide     *)
(* have their own variables, which rest when another part is the subject;  *)
(* v1, v2 and so on are the variables of the others.                       *)
(***************************************************************************)
EXTENDS FileSys, InodeTable, InodeIO, Ide

VARIABLES subject, v1, v2, v3, v4, v5, v6, v7, v8, v9, v10, v11, v12, v13

\* Archives with an empty file, one of a sector and a half, a directory, a bad
\* header, one with no end, and a file cut off by the end of the device.
Header(name, kind, size) == [kind |-> kind, name |-> name, size |-> size, bytes |-> <<>>]
Bytes(bytes) == [kind |-> "data", name |-> "", size |-> 0, bytes |-> bytes]
Tars ==
  {<<Header("a", "regular", 3), Bytes(<<5, 6>>), Bytes(<<7, 9>>), Header("b", "regular", 0)>>,
   <<Header("d", "directory", 0), Header("a", "regular", 2), Bytes(<<0, 0>>),
     Header("b", "regular", 1), Bytes(<<5, 0>>)>>,
   <<Header("a", "regular", 1), Bytes(<<8, 0>>), Bytes(<<1, 1>>)>>,
   <<Header("a", "regular", 3), Bytes(<<5, 6>>), Bytes(<<7, 9>>), Header("b", "regular", 8)>>,
   <<Header("a", "regular", 1), Bytes(<<8, 0>>), Header("b", "regular", 1), Bytes(<<9, 0>>),
     Header("c", "regular", 2), Bytes(<<4, 4>>)>>}
US == INSTANCE Ustar WITH
  SECTOR <- 2, Sectors <- 6, MaxBoots <- 2, Archives <- Tars,
  scratch <- v1, files <- v2, host <- v3, pc <- v4, extractAt <- v6,
  appendAt <- v7, name <- v8, left <- v9, appended <- v10, complete <- v11,
  erased <- v12, boots <- v13

\* Disks of six sectors with two entries in their table: of every type, inside,
\* across and past the end of the disk, and with a size that wraps around.  An
\* extended entry leads to a table of one partition, or past the end.
Entry ==
  [type : {"empty", "filesys", "swap", "foreign"}, offset : {1, 4, 7}, size : {0, 1, 2, 15}]
  \cup [type : {"extended"}, offset : {2, 4, 7}, size : {1}]
Nested == <<[type |-> "filesys", offset |-> 1, size |-> 1]>>
Tables == {<<a, b>> : a \in Entry, b \in Entry} \cup {<<>>}
PA == INSTANCE Partition WITH
  DevSize <- 6, Width <- 16, MaxDepth <- 4,
  Disks <- {[s \in 0 .. 5 |-> IF s = 0 THEN t ELSE IF s \in {2, 4} THEN Nested ELSE <<>>] : t \in Tables},
  disk <- v1, stack <- v2, part_nr <- v3, blocks <- v4, roles <- v5, written <- v6, pc <- v7

-----------------------------------------------------------------------------
\* The variables from the n-th on are not used.
Blank8 == v8 = 0 /\ v9 = 0 /\ v10 = 0 /\ v11 = 0 /\ v12 = 0 /\ v13 = 0
Blank6 == v6 = 0 /\ v7 = 0 /\ Blank8
Blank1 == v1 = 0 /\ v2 = 0 /\ v3 = 0 /\ v4 = 0 /\ v5 = 0 /\ Blank6
from8 == <<v8, v9, v10, v11, v12, v13>>
from6 == <<v6, v7, from8>>
from1 == <<v1, v2, v3, v4, v5, from6>>
vars == <<fsVars, tableVars, ioVars, ideVars, bootVars, subject, from1>>

\* Nothing on the channel.
Absent == [present |-> FALSE, error |-> 0, ready |-> FALSE, hangs |-> FALSE,
           signature |-> "atapi", answers |-> FALSE, capacity |-> Limit]

\* Of the parts with variables of their own, at most one leaves its first
\* state, and the others are in one of their first states only.
AtRest ==
  /\ subject # "inode_table" => want = [t \in Thread |-> CHOOSE s \in InodeSector : TRUE]
  /\ subject # "ide" => faulty = FALSE /\ disk = [d \in Device |-> [s \in DiskSector |-> CHOOSE v \in Data : TRUE]]
  /\ subject # "ide_boot" => hw = [d \in {0, 1} |-> Absent]
  /\ FileSysInit /\ TableInit /\ IOInit /\ IdeInit /\ IdeBootInit

MCInit ==
  /\ \/ subject = "ustar" /\ US!UstarInit /\ v5 = 0
     \/ subject = "partition" /\ PA!PartitionInit /\ Blank8
     \/ subject \in {"filesys", "inode_table", "inode_io", "ide", "ide_boot"} /\ Blank1
  /\ AtRest

\* A step of the channel's threads, handler or device.
IdeStep(A) == subject = "ide" /\ A /\ UNCHANGED <<from1, fsVars, tableVars, ioVars, bootVars, subject>>

MCNext ==
  \/ /\ \/ subject = "ustar" /\ US!UstarNext /\ UNCHANGED v5
        \/ subject = "partition" /\ PA!PartitionNext /\ UNCHANGED from8
     /\ UNCHANGED <<fsVars, tableVars, ioVars, ideVars, bootVars, subject>>
  \/ subject = "filesys" /\ FileSysNext /\ UNCHANGED <<from1, tableVars, ioVars, ideVars, bootVars, subject>>
  \/ subject = "inode_table" /\ TableNext /\ UNCHANGED <<from1, fsVars, ioVars, ideVars, bootVars, subject>>
  \/ subject = "inode_io" /\ IONext /\ UNCHANGED <<from1, fsVars, tableVars, ideVars, bootVars, subject>>
  \/ subject = "ide_boot" /\ IdeBootNext /\ UNCHANGED <<from1, fsVars, tableVars, ioVars, ideVars, subject>>
  \/ IdeStep(IdeNext)

\* Threads that can run do run (ReadyRuns of module Threads), the disk answers
\* and its interrupt is delivered.  A thread need not call the driver.
MCSpec ==
  /\ MCInit /\ [][MCNext]_vars
  /\ \A t \in Caller : WF_vars(IdeStep(InDriver(t) /\ CallStep(t)))
  /\ WF_vars(IdeStep(interrupt_handler)) /\ WF_vars(IdeStep(DeviceReady))

-----------------------------------------------------------------------------
\* fsutil_extract and fsutil_append over several boots: a file extracted has
\* the bytes the host's archive gives it, the files appended stand in the
\* archive one after the other, and extracting again changes nothing.
ArchivesRight ==
  [][subject = "ustar" =>
       US!ExtractIdempotent /\ US!ExtractedAsArchived' /\ US!ArchiveHasAppended']_vars

\* partition_scan registers only partitions that lie on the disk, and where no
\* entry leads to another table exactly those in the first one; a write through
\* a role stays inside the partition of that role.
PartitionsRight ==
  subject = "partition" =>
    PA!PartitionsOnDisk /\ PA!WritesStayInside /\ (PA!Flat => PA!PartitionsAsWritten)

\* read_partition_table "Reads the partition table in the given SECTOR": also
\* where an extended entry leads to another table.  It reads sector 0 again.
NestedTablesRead == subject = "partition" => PA!PartitionsAsWritten

\* Every ide_read and ide_write returns if the disk answers.
TransfersReturn ==
  \A t \in Caller : (subject = "ide" /\ Begun(t)) ~> (subject = "ide" /\ Returned(t))
=============================================================================
