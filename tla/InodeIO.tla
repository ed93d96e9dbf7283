------------------------------ MODULE InodeIO ------------------------------
(***************************************************************************)
(* Reading and writing bytes of an open file: file_read and file_write of  *)
(* file.c, inode_read_at and inode_write_at of inode.c, which work in      *)
(* chunks that lie within one sector, through a bounce buffer when a chunk *)
(* is not a whole sector.  One step is one turn of the loop, one or two    *)
(* sectors transferred.                                                    *)
(*                                                                         *)
(* A disk byte is a number; the i-th byte of every caller's buffer is i.   *)
(***************************************************************************)
EXTENDS Integers, Sequences

CONSTANTS SECTOR_SIZE,   \* BLOCK_SECTOR_SIZE
          DevSectors,     \* sectors of the disk
          Start, Length, \* inode_disk of the file
          MaxSize        \* largest size and position callers ask for

\* The sectors of the file are sectors of the device.
ASSUME InodeIOAssumption ==
  /\ SECTOR_SIZE \in Nat \ {0} /\ DevSectors \in Nat /\ MaxSize \in Nat
  /\ Start \in Nat /\ Length \in Nat
  /\ Start * SECTOR_SIZE + Length <= DevSectors * SECTOR_SIZE

VARIABLES fs_device, \* [0 .. DevSectors * SECTOR_SIZE - 1 -> byte]
          pos,       \* file->pos
          deny,      \* is deny_write_cnt above zero?
          io,        \* the transfer in progress
          before     \* the disk when it began

ioVars == <<fs_device, pos, deny, io, before>>
NoTransfer == [pc |-> "idle", ofs |-> 0, left |-> 0, done |-> 0, buffer |-> <<>>]
Byte == 0 .. DevSectors * SECTOR_SIZE - 1

IOInit ==
  /\ fs_device = [b \in Byte |-> 0]
  /\ pos = 0
  /\ deny = FALSE
  /\ io = NoTransfer
  /\ before = fs_device

min(a, b) == IF a < b THEN a ELSE b

\* byte_to_sector: the sector that holds a byte of the inode, -1 beyond it.
byte_to_sector(p) == IF p < Length THEN Start + p \div SECTOR_SIZE ELSE -1

sector_ofs == io.ofs % SECTOR_SIZE
sector_left == SECTOR_SIZE - sector_ofs

\* Bytes to move in this turn of the loop: within the file and the sector.
chunk_size == min(io.left, min(Length - io.ofs, sector_left))

\* Where byte k of the chunk is on the disk.
At(k) == byte_to_sector(io.ofs) * SECTOR_SIZE + sector_ofs + k
WholeSector == sector_ofs = 0 /\ chunk_size = SECTOR_SIZE

\* file_read, file_read_at, file_write and file_write_at; at is -1 for the
\* calls that use and move the file position.
Begin(kind, at, size) ==
  /\ io.pc = "idle"
  /\ io' = [pc |-> kind, ofs |-> IF at = -1 THEN pos ELSE at, left |-> size,
            done |-> 0, buffer |-> <<>>]
  /\ before' = fs_device
  /\ UNCHANGED <<fs_device, pos, deny>>

Advance(buffer) ==
  io' = [io EXCEPT !.ofs = @ + chunk_size, !.left = @ - chunk_size,
                   !.done = @ + chunk_size, !.buffer = buffer]

ReadChunk ==
  /\ io.pc \in {"read", "read_at"}
  /\ chunk_size > 0
  /\ Advance(io.buffer \o [k \in 1 .. chunk_size |-> fs_device[At(k - 1)]])
  /\ UNCHANGED <<fs_device, pos, deny, before>>

\* Mutant: the sector is read first only when the chunk ends before its end.
AroundTail(b) == IF chunk_size < sector_left THEN fs_device[b] ELSE 0

\* What is written to the sector: the chunk, and around it what the sector
\* held, read into the bounce buffer first, or zeros when the chunk is thought
\* to fill the sector.
Around(b) == IF sector_ofs > 0 \/ chunk_size < sector_left
             THEN fs_device[b] ELSE 0

WriteChunk ==
  /\ io.pc \in {"write", "write_at"} /\ ~deny
  /\ chunk_size > 0
  /\ fs_device' = [b \in Byte |->
       IF b \div SECTOR_SIZE # byte_to_sector(io.ofs) THEN fs_device[b]
       ELSE IF b \in At(0) .. At(chunk_size - 1) THEN io.done + b - At(0) + 1
       ELSE Around(b)]
  /\ Advance(<<>>)
  /\ UNCHANGED <<pos, deny, before>>

\* The loop ends: nothing left, end of file, writes denied, or no memory for
\* the bounce buffer.  file_read and file_write move the position.
End ==
  /\ io.pc # "idle"
  /\ \/ io.left = 0 \/ chunk_size <= 0
     \/ io.pc \in {"write", "write_at"} /\ deny
     \/ chunk_size > 0 /\ ~WholeSector
  /\ pos' = IF io.pc \in {"read", "write"} THEN pos + io.done ELSE pos
  /\ io' = NoTransfer
  /\ UNCHANGED <<fs_device, deny, before>>

file_seek(new_pos) ==
  /\ io.pc = "idle"
  /\ pos' = new_pos
  /\ UNCHANGED <<fs_device, deny, io, before>>

DenyWrites(b) ==
  /\ io.pc = "idle"
  /\ deny' = b
  /\ UNCHANGED <<fs_device, pos, io, before>>

IONext ==
  \/ \E kind \in {"read", "write"}, size \in 0 .. MaxSize : Begin(kind, -1, size)
  \/ \E kind \in {"read_at", "write_at"}, at, size \in 0 .. MaxSize : Begin(kind, at, size)
  \/ ReadChunk \/ WriteChunk \/ End
  \/ \E p \in 0 .. MaxSize : file_seek(p)
  \/ \E b \in BOOLEAN : DenyWrites(b)

IOSpec == IOInit /\ [][IONext]_ioVars
-----------------------------------------------------------------------------
StartOfs == io.ofs - io.done     \* the offset the transfer began at
ByteAt(p) == Start * SECTOR_SIZE + p

\* At every turn of inode_write_at the disk is what it was, with exactly the
\* bytes transferred so far replaced: not a byte of the sector's other end, of
\* the slack after the file or of a neighbouring file.
WritesExactly ==
  fs_device = [b \in Byte |->
            IF /\ io.pc \in {"write", "write_at"}
               /\ b \in ByteAt(StartOfs) .. ByteAt(io.ofs - 1)
            THEN b - ByteAt(StartOfs) + 1 ELSE before[b]]
  \/ io.pc = "idle"

\* At every turn of inode_read_at the buffer holds the bytes of the file from
\* the offset asked for, no fewer and none from beyond the end of the file.
ReadsExactly ==
  io.pc \in {"read", "read_at"} =>
    /\ io.done > 0 => io.ofs <= Length
    /\ io.buffer = [k \in 1 .. io.done |-> fs_device[ByteAt(StartOfs + k - 1)]]

\* file_read, file_write and the loops of inode_read_at and inode_write_at: at
\* every turn exactly the bytes transferred so far have been replaced on the
\* disk, not one of a neighbour or of the slack, and the buffer holds exactly
\* the bytes of the file from the offset asked for.
TransfersExact == WritesExactly /\ ReadsExactly
=============================================================================
