----------------------------- MODULE Partition ------------------------------
(***************************************************************************)
(* The block layer at boot and after: partition_scan of devices/partition.c*)
(* registers the partitions of a disk with devices/block.c, threads/init.c *)
(* gives roles to block devices, and the file system reads and writes      *)
(* sectors through its role.                                               *)
(***************************************************************************)
EXTENDS Naturals, Sequences, SequencesExt

CONSTANTS DevSize,    \* sectors on the disk
          Width,      \* a block_sector_t is a number modulo Width
          Disks,      \* disks to look at: [sector -> table], a table is <<>> (no signature) or its entries
          MaxDepth,   \* calls of read_partition_table the kernel stack has room for
          NULL

VARIABLES disk,
          stack,      \* calls of read_partition_table: [sector, primary, i]
          part_nr,
          blocks,     \* all_blocks, in probe order
          roles,      \* block_by_role: [role -> position in blocks, or 0]
          written,    \* the disk sector last written, and through which block
          pc
partVars == <<disk, stack, part_nr, blocks, roles, written, pc>>

Role == {"kernel", "filesys", "scratch", "swap"}
Raw == [nr |-> 0, type |-> "raw", start |-> 0, size |-> DevSize]

\* The disk itself is registered first, by ide.c.
PartitionInit ==
  /\ disk \in Disks
  /\ stack = <<[sector |-> 0, primary |-> 0, i |-> 1]>>
  /\ part_nr = 0 /\ blocks = <<Raw>>
  /\ roles = [r \in Role |-> 0]
  /\ written = NULL /\ pc = "scan"

Top == Last(stack)
Skipped == [stack EXCEPT ![Len(stack)].i = @ + 1]

\* block_read (block, 0, pt), whatever sector was asked for.
pt == disk[0]

\* The call returns: its sector is past the end, its table is not valid, or
\* all entries have been looked at.
Return ==
  /\ pc = "scan" /\ stack # <<>>
  /\ Top.sector >= DevSize \/ Top.i > Len(pt)
  /\ stack' = Front(stack)
  /\ UNCHANGED <<disk, part_nr, blocks, roles, written, pc>>

\* The entry the call looks at next.
Looking(e) ==
  /\ pc = "scan" /\ stack # <<>> /\ Top.sector < DevSize /\ Top.i <= Len(pt)
  /\ e = pt[Top.i]
  /\ UNCHANGED <<disk, roles, written, pc>>

IsEmpty(e) == e.size = 0 \/ e.type = "empty"
Ignore ==
  /\ \E e \in Range(pt) : Looking(e) /\ IsEmpty(e)
  /\ stack' = Skipped /\ UNCHANGED <<part_nr, blocks>>

\* The offset in sector 0 is absolute, elsewhere relative to the first table.
Recurse ==
  /\ \E e \in Range(pt) :
       /\ Looking(e) /\ ~IsEmpty(e) /\ e.type = "extended" /\ Len(stack) < MaxDepth
       /\ LET at == IF Top.sector = 0 THEN e.offset ELSE (e.offset + Top.primary) % Width
          IN stack' = Append(Skipped, [sector |-> at, primary |-> IF Top.sector = 0 THEN e.offset ELSE Top.primary, i |-> 1])
  /\ UNCHANGED <<part_nr, blocks>>

\* A call too many overflows the stack.
Overflow ==
  /\ pc = "scan" /\ Len(stack) = MaxDepth /\ Top.sector < DevSize
  /\ \E e \in Range(pt) : e = pt[Top.i] /\ ~IsEmpty(e) /\ e.type = "extended"
  /\ pc' = "overflow" /\ UNCHANGED <<disk, stack, part_nr, blocks, roles, written>>

\* Mutant: the end is not checked for wrap-around.
FitsUnwrapped(start, size) == start < DevSize /\ (start + size) % Width <= DevSize

\* The checks of found_partition, in block_sector_t arithmetic.
Fits(start, size) == /\ start < DevSize
                     /\ (start + size) % Width >= start /\ (start + size) % Width <= DevSize

found_partition ==
  /\ \E e \in Range(pt) :
       /\ Looking(e) /\ ~IsEmpty(e) /\ e.type # "extended"
       /\ LET start == (e.offset + Top.sector) % Width
          IN blocks' = IF Fits(start, e.size)
                       THEN Append(blocks, [nr |-> part_nr + 1, type |-> e.type, start |-> start, size |-> e.size])
                       ELSE blocks
  /\ part_nr' = part_nr + 1 /\ stack' = Skipped

\* block_first and block_next until a block has the type.
FirstOf(r) == LET s == {i \in DOMAIN blocks : blocks[i].type = r} IN IF s = {} THEN 0 ELSE CHOOSE i \in s : \A j \in s : i <= j

\* locate_block_devices, without names on the command line.
locate_block_devices ==
  /\ pc = "scan" /\ stack = <<>> /\ pc' = "up"
  /\ roles' = [r \in Role |-> IF r = "kernel" THEN 0 ELSE FirstOf(r)]
  /\ UNCHANGED <<disk, stack, part_nr, blocks, written>>

\* check_sector of a block, and the disk sector partition_write asks for.
check_sector(b, sector) == sector < b.size
RawSector(b, sector) == (b.start + sector) % Width

\* block_write through a role: through the partition to the disk.
block_write(r, sector) ==
  /\ pc = "up" /\ roles[r] # 0
  /\ LET b == blocks[roles[r]]
     IN /\ check_sector(b, sector) /\ b.type # "foreign"
        /\ IF check_sector(Raw, RawSector(b, sector))
           THEN written' = [role |-> r, sector |-> RawSector(b, sector)] /\ UNCHANGED pc
           ELSE pc' = "panic" /\ UNCHANGED written
  /\ UNCHANGED <<disk, stack, part_nr, blocks, roles>>

\* The system is up, or has stopped, and does other things.
Elsewhere == pc # "scan" /\ UNCHANGED partVars

PartitionNext ==
  \/ Elsewhere \/ Return \/ Ignore \/ Recurse \/ Overflow \/ found_partition \/ locate_block_devices
  \/ \E r \in Role, sector \in 0 .. DevSize : block_write(r, sector)

PartitionSpec == PartitionInit /\ [][PartitionNext]_partVars
-----------------------------------------------------------------------------
\* What is written on the disk: the primary partitions of sector 0, and the
\* logical ones in the table an extended entry of sector 0 points to.
InTable(sector) ==
  {[type |-> e.type, start |-> e.offset + sector, size |-> e.size] :
     e \in {x \in Range(disk[sector]) : ~IsEmpty(x) /\ x.type # "extended" /\ x.offset + sector + x.size <= DevSize}}
OnDisk ==
  InTable(0) \cup UNION {InTable(e.offset) : e \in {x \in Range(disk[0]) : x.type = "extended" /\ ~IsEmpty(x) /\ x.offset < DevSize}}

\* "Reads the partition table in the given SECTOR": the scan ends, and the
\* partitions registered are those in the tables on the disk.
PartitionsAsWritten ==
  /\ pc # "overflow"
  /\ pc = "up" =>
       {[type |-> blocks[i].type, start |-> blocks[i].start, size |-> blocks[i].size] : i \in 2 .. Len(blocks)} = OnDisk

\* The table in sector 0 leads to no other table on the disk.
Flat == \A e \in Range(disk[0]) : IsEmpty(e) \/ e.type # "extended" \/ e.offset >= DevSize

\* Every partition registered, whatever the tables say and however its end
\* wraps around, lies on the disk, and no two have one number.
PartitionsOnDisk ==
  \A i, j \in DOMAIN blocks :
    blocks[i].start + blocks[i].size <= DevSize /\ (blocks[i].nr = blocks[j].nr => i = j)

\* A write through a role that block_write accepts reaches a sector of the disk,
\* inside the first partition on it of that role's type.
WritesStayInside ==
  /\ pc # "panic"
  /\ written # NULL =>
       \E i \in DOMAIN blocks :
         /\ blocks[i].type = written.role /\ \A j \in 1 .. i - 1 : blocks[j].type # written.role
         /\ written.sector >= blocks[i].start /\ written.sector < blocks[i].start + blocks[i].size
         /\ written.sector < DevSize
=============================================================================
