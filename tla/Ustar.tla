------------------------------- MODULE Ustar -------------------------------
(***************************************************************************)
(* fsutil_extract() and fsutil_append() of filesys/fsutil.c with the       *)
(* headers of lib/ustar.c: files come from, and go to, a tar archive on    *)
(* the scratch device, over several boots.  Every block_write is a step,   *)
(* and the machine can stop between any two.  A sector holds SECTOR bytes  *)
(* or a header, whose fields stand for themselves.                         *)
(***************************************************************************)
EXTENDS Integers, Sequences, FiniteSets, SequencesExt

CONSTANTS SECTOR, Sectors,   \* size of a sector, sectors of the device
          Archives,          \* archives the host may put there: sequences of sectors
          MaxBoots

VARIABLES scratch,           \* the device: [0 .. Sectors - 1 -> sector]
          files,             \* file system: [names -> bytes]
          host,              \* the archive this device came with
          pc,                \* what runs
          extractAt, appendAt,   \* the static variables `sector' of the two functions
          name, left,        \* the file being copied and its bytes left
          appended,          \* files appended in this boot
          complete,          \* files extracted to the end, in any boot
          erased,            \* nothing was appended since an extraction began to erase
          boots
ustarVars == <<scratch, files, host, pc, extractAt, appendAt, name, left, appended, complete, erased, boots>>

DataSector(bytes) == [kind |-> "data", name |-> "", size |-> 0, bytes |-> bytes]
Zeros == DataSector([k \in 1 .. SECTOR |-> 0])
\* ustar_make_header for a name that is short enough and has no prefix.
ustar_make_header(nm, kind, size) == [kind |-> kind, name |-> nm, size |-> size, bytes |-> <<>>]
\* ustar_parse_header: end of archive, an error, or what the header says.
ustar_type(s) == IF s = Zeros THEN "eof" ELSE IF s.kind = "data" THEN "error" ELSE s.kind
Min2(a, b) == IF a < b THEN a ELSE b
NoFiles == [f \in {} |-> <<>>]

UstarInit ==
  /\ host \in Archives
  /\ scratch = [k \in 0 .. Sectors - 1 |-> IF k < Len(host) THEN host[k + 1] ELSE Zeros]
  /\ files = NoFiles /\ pc = "idle" /\ extractAt = 0 /\ appendAt = 0
  /\ name = "" /\ left = 0 /\ appended = <<>> /\ complete = {} /\ erased = FALSE /\ boots = 0

\* PANIC: debug_panic, which does not return.
Panics ==
  /\ pc' = "panic"
  /\ UNCHANGED <<scratch, files, extractAt, appendAt, name, left, appended, complete, erased>>

\* The buffers, or a panic.  `extract' should precede all `append's, and it can
\* come more than once: the next one goes on where the last one ended.
fsutil_extract ==
  /\ pc = "idle" /\ appended = <<>>
  /\ \/ Panics
     \/ pc' = "header" /\ UNCHANGED <<scratch, files, extractAt, appendAt, name, left, appended, complete, erased>>
  /\ UNCHANGED <<host, boots>>

\* The file that filesys_create makes.
Created(h) == [f \in DOMAIN files \cup {h.name} |-> IF f = h.name THEN [k \in 1 .. h.size |-> 0] ELSE files[f]]

\* One header.  Past the device's end block_read panics; filesys_create fails
\* if there is such a file, or for lack of space, and then filesys_open may.
ExtractHeader ==
  /\ pc = "header"
  /\ LET h == scratch[extractAt]
         type == ustar_type(h)
     IN \/ extractAt >= Sectors /\ Panics
        \/ extractAt < Sectors /\ type \in {"error", "regular"} /\ Panics
        \/ /\ extractAt < Sectors /\ type = "eof"
           /\ pc' = "erase" /\ extractAt' = extractAt + 1 /\ UNCHANGED <<files, name, left, complete>>
        \/ /\ extractAt < Sectors /\ type = "directory"
           /\ extractAt' = extractAt + 1 /\ UNCHANGED <<pc, files, name, left, complete>>
        \/ /\ extractAt < Sectors /\ type = "regular" /\ h.name \notin DOMAIN files
           /\ files' = Created(h) /\ name' = h.name /\ left' = h.size /\ extractAt' = extractAt + 1
           /\ \/ pc' = "panic" /\ UNCHANGED complete
              \/ h.size > 0 /\ pc' = "data" /\ UNCHANGED complete
              \/ h.size = 0 /\ pc' = "header" /\ complete' = complete \cup {h.name}
  /\ UNCHANGED <<scratch, host, appendAt, appended, erased, boots>>

Chunk(size) == Min2(size, SECTOR)

\* Where file_write continues.
Position == Len(files[name]) - left

\* One sector of a file; past the device's end, or when the write fails, a panic.
ExtractData ==
  /\ pc = "data"
  /\ \/ Panics
     \/ /\ extractAt < Sectors
        /\ files' = [files EXCEPT ![name] = [k \in DOMAIN @ |-> IF k - Position \in 1 .. Chunk(left)
                                                                THEN scratch[extractAt].bytes[k - Position] ELSE @[k]]]
        /\ left' = left - Chunk(left) /\ extractAt' = extractAt + 1
        /\ pc' = (IF left > Chunk(left) THEN "data" ELSE "header")
        /\ complete' = (IF left > Chunk(left) THEN complete ELSE complete \cup {name})
        /\ UNCHANGED <<scratch, appendAt, name, appended, erased>>
  /\ UNCHANGED <<host, boots>>

Zero(k) ==
  /\ scratch' = [scratch EXCEPT ![k] = Zeros] /\ erased' = TRUE
  /\ UNCHANGED <<files, host, extractAt, appendAt, name, left, appended, complete, boots>>

\* Mutant: the second sector is erased before the first.
EraseFirstLast == pc = "erase" /\ pc' = "erase2" /\ Zero(1)

\* The first two sectors of the device are zeroed, one after the other.
EraseFirst == pc = "erase" /\ pc' = "erase2" /\ Zero(0)
EraseSecond == pc = "erase2" /\ pc' = "idle" /\ Zero(1)

\* fsutil_append: a buffer, the file and its header, or a panic;
fsutil_append(f) ==
  /\ pc = "idle"
  /\ \/ Panics
     \/ /\ appendAt < Sectors
        /\ scratch' = [scratch EXCEPT ![appendAt] = ustar_make_header(f, "regular", Len(files[f]))]
        /\ appendAt' = appendAt + 1 /\ name' = f /\ left' = Len(files[f]) /\ erased' = FALSE
        /\ pc' = IF files[f] = <<>> THEN "marker" ELSE "append"
        /\ UNCHANGED <<files, extractAt, appended, complete>>
  /\ UNCHANGED <<host, boots>>

\* the sectors of the file, the last filled up with zeros;
AppendData ==
  /\ pc = "append"
  /\ \/ Panics
     \/ /\ appendAt < Sectors
        /\ scratch' = [scratch EXCEPT ![appendAt] = DataSector([k \in 1 .. SECTOR |-> IF k <= left THEN files[name][Position + k] ELSE 0])]
        /\ left' = left - Chunk(left) /\ appendAt' = appendAt + 1
        /\ pc' = IF left > Chunk(left) THEN "append" ELSE "marker"
        /\ UNCHANGED <<files, extractAt, name, appended, complete, erased>>
  /\ UNCHANGED <<host, boots>>

\* and the end of the archive: the sector after the file is written twice, the
\* second time from the buffer's second byte on, so with one byte from behind it.
AppendMarker ==
  /\ \/ pc = "marker" /\ appendAt >= Sectors /\ pc' = "panic" /\ UNCHANGED <<scratch, appended>>
     \/ /\ pc = "marker" /\ appendAt < Sectors /\ pc' = "marker2"
        /\ scratch' = [scratch EXCEPT ![appendAt] = Zeros] /\ UNCHANGED appended
     \/ /\ pc = "marker2" /\ pc' = "idle" /\ appended' = Append(appended, name)
        /\ \E byte \in {0, 1} : scratch' = [scratch EXCEPT ![appendAt] = DataSector([k \in 1 .. SECTOR |-> IF k = SECTOR THEN byte ELSE 0])]
  /\ UNCHANGED <<files, host, extractAt, appendAt, name, left, complete, erased, boots>>

\* The machine stops, at any point, and boots again.
Boot ==
  /\ boots < MaxBoots /\ boots' = boots + 1
  /\ pc' = "idle" /\ extractAt' = 0 /\ appendAt' = 0 /\ name' = "" /\ left' = 0 /\ appended' = <<>>
  /\ UNCHANGED <<scratch, files, host, complete, erased>>

\* The system goes on to something else, or has stopped.
Elsewhere == pc \in {"idle", "panic"} /\ UNCHANGED ustarVars

UstarNext ==
  \/ fsutil_extract \/ ExtractHeader \/ ExtractData \/ EraseFirst \/ EraseSecond
  \/ \E f \in DOMAIN files : fsutil_append(f)
  \/ AppendData \/ AppendMarker \/ Boot \/ Elsewhere

UstarSpec == UstarInit /\ [][UstarNext]_ustarVars
-----------------------------------------------------------------------------
\* The bytes of size n that start in sector k of a device d.
BytesAt(d, k, n) == [b \in 1 .. n |-> d[k + (b - 1) \div SECTOR].bytes[((b - 1) % SECTOR) + 1]]
Blocks(n) == (n + SECTOR - 1) \div SECTOR

\* Every file extracted, in this boot or before, has exactly the bytes the
\* host's archive gives it, whatever else was extracted and appended.
ExtractedAsArchived ==
  \A f \in complete : \E k \in 1 .. Len(host) :
    /\ host[k].kind = "regular" /\ host[k].name = f
    /\ files[f] = BytesAt([j \in 0 .. Sectors - 1 |-> IF j < Len(host) THEN host[j + 1] ELSE Zeros], k, host[k].size)

\* "So that the extraction operation is idempotent": from the first sector an
\* extraction erases on, and wherever the machine stops, an extraction from the
\* start of the device finds an empty archive: it neither panics nor makes files.
ExtractIdempotent ==
  erased /\ extractAt = 0 => (pc = "header" => pc' # "panic") /\ files' = files

\* The files appended in this boot are in the archive, one after the other
\* from its start, each with its bytes.  Nothing is said of what follows them:
\* the comment in fsutil_append has "two consecutive sectors full of zeros", and
\* both writes go to one sector, the second with a byte that need not be zero.
ArchiveHasAppended ==
  pc = "idle" /\ appended # <<>> =>
    \E starts \in [DOMAIN appended -> 0 .. Sectors - 1] :
      /\ starts[1] = 0
      /\ \A k \in DOMAIN appended :
           LET h == scratch[starts[k]]
           IN /\ h = ustar_make_header(appended[k], "regular", Len(files[appended[k]]))
              /\ BytesAt(scratch, starts[k] + 1, h.size) = files[appended[k]]
              /\ k < Len(appended) => starts[k + 1] = starts[k] + 1 + Blocks(h.size)
=============================================================================
