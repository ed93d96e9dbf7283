------------------------------ MODULE IoProofs ------------------------------
(***************************************************************************)
(* Proofs about input and output: the bytes of files, the console and      *)
(* keyboard for any writers, line length and queue size, and the table of  *)
(* open inodes.                                                            *)
(***************************************************************************)
EXTENDS InodeIO, InodeTable, Serial, TLAPS

(***************************************************************************)
(* filesys/inode.c: bytes read and written.                                *)
(***************************************************************************)
\* A position is that of its sector and its offset in it.
LEMMA DivMod ==
  ASSUME NEW S \in Nat \ {0}, NEW a \in Nat
  PROVE  a \div S \in Nat /\ a % S \in 0 .. S - 1 /\ a = (a \div S) * S + (a % S)
PROOF
<1> QED
  BY SMT

\* The bytes from the beginning of a sector to the next one are those of the
\* sector.
LEMMA SectorBytes ==
  ASSUME NEW S \in Nat \ {0}, NEW q \in Nat, NEW b \in Nat
  PROVE  b \div S = q <=> q * S <= b /\ b < q * S + S
PROOF
<1> QED
  BY SMT

\* One turn's chunk: it is not empty, ends within the request, the file and the
\* sector, and its bytes on the device are those of the file from the offset on.
LEMMA Chunk ==
  ASSUME io.ofs \in Nat, io.left \in Nat, chunk_size > 0
  PROVE  /\ chunk_size \in Nat \ {0} /\ chunk_size <= io.left /\ io.ofs + chunk_size <= Length
         /\ sector_ofs \in 0 .. SECTOR_SIZE - 1 /\ chunk_size <= SECTOR_SIZE - sector_ofs
         /\ byte_to_sector(io.ofs) \in Nat /\ ByteAt(io.ofs) \in Nat
         /\ byte_to_sector(io.ofs) * SECTOR_SIZE + sector_ofs = ByteAt(io.ofs)
         /\ \A k \in Int : At(k) = ByteAt(io.ofs) + k
PROOF
<1> DEFINE S == SECTOR_SIZE
           o == io.ofs
           q == o \div S
           r == o % S
<1>1. S \in Nat \ {0} /\ Start \in Nat /\ Length \in Nat /\ o \in Nat
  BY InodeIOAssumption, Zenon
<1>2. q \in Nat /\ r \in 0 .. S - 1 /\ o = q * S + r
  BY <1>1, DivMod, Zenon
<1>3. sector_ofs = r /\ sector_left = S - r
  BY Zenon DEF sector_ofs, sector_left
<1> HIDE DEF q, r
<1>4. chunk_size = min(io.left, min(Length - o, S - r))
  BY <1>3, Zenon DEF chunk_size
<1> HIDE DEF S, o
<1>5. /\ chunk_size \in Nat \ {0} /\ chunk_size <= io.left /\ o + chunk_size <= Length
      /\ chunk_size <= S - r /\ o < Length
  BY <1>1, <1>2, <1>4 DEF min
<1>6. byte_to_sector(o) = Start + q
  BY <1>5, Zenon DEF byte_to_sector, q, S
<1>7. (Start + q) * S + r = Start * S + o /\ Start * S + o \in Nat /\ (Start + q) * S \in Nat
  BY <1>1, <1>2
<1>8. ByteAt(o) = Start * S + o
  BY Zenon DEF ByteAt, S
<1>9. \A k \in Int : At(k) = ByteAt(o) + k
  <2> TAKE k \in Int
  <2>1. At(k) = (Start + q) * S + r + k
    BY <1>3, <1>6, Zenon DEF At, S, o
  <2> QED
    BY <2>1, <1>1, <1>2, <1>7, <1>8, SMTT(30)
<1> QED
  BY <1>1, <1>2, <1>3, <1>5, <1>6, <1>7, <1>8, <1>9, SMTT(30) DEF S, o

IOTypeOK ==
  /\ fs_device \in [Byte -> Nat] /\ before \in [Byte -> Nat]
  /\ pos \in Nat /\ deny \in BOOLEAN
  /\ io \in [pc : {"idle", "read", "write", "read_at", "write_at"},
             ofs : Nat, left : Nat, done : Nat, buffer : Seq(Nat)]

\* What a transfer has done so far is a part of the file.
Within == io.done <= io.ofs /\ (io.done > 0 => io.ofs <= Length)

IOInv == IOTypeOK /\ Within /\ TransfersExact

\* The bytes of the file are bytes of the device.
LEMMA FileOnDevice ==
  ASSUME NEW p \in Nat, p < Length
  PROVE  ByteAt(p) \in Byte
PROOF
<1>1. SECTOR_SIZE \in Nat /\ Start \in Nat /\ Length \in Nat /\ DevSectors \in Nat
  BY InodeIOAssumption, Zenon
<1>2. Start * SECTOR_SIZE \in Nat /\ DevSectors * SECTOR_SIZE \in Nat
  BY <1>1
<1>3. Start * SECTOR_SIZE + Length <= DevSectors * SECTOR_SIZE
  BY InodeIOAssumption, Zenon
<1> QED
  BY <1>1, <1>2, <1>3 DEF ByteAt, Byte

\* An idle file, before the first transfer.
LEMMA IOInitInv == IOInit => IOInv
PROOF
<1> SUFFICES ASSUME IOInit  PROVE IOInv
  BY Zenon
<1>1. IOTypeOK
  <2>1. io = [pc |-> "idle", ofs |-> 0, left |-> 0, done |-> 0, buffer |-> <<>>]
    BY SMTT(30) DEF IOInit, NoTransfer
  <2>2. io \in [pc : {"idle", "read", "write", "read_at", "write_at"},
                ofs : Nat, left : Nat, done : Nat, buffer : Seq(Nat)]
    BY <2>1
  <2>3. fs_device \in [Byte -> Nat] /\ before \in [Byte -> Nat] /\ pos \in Nat /\ deny \in BOOLEAN
    BY Zenon DEF IOInit
  <2> QED
    BY <2>2, <2>3, Zenon DEF IOTypeOK
<1>2. io.pc = "idle" /\ io.done = 0 /\ io.ofs = 0
  BY Zenon DEF IOInit, NoTransfer
<1>3. Within
  BY <1>2 DEF Within
<1>4. WritesExactly
  BY <1>2, Zenon DEF WritesExactly
<1>5. ReadsExactly
  BY <1>2, Zenon DEF ReadsExactly
<1> QED
  BY <1>1, <1>3, <1>4, <1>5, Zenon DEF IOInv, TransfersExact

\* file_read, file_write and their kin begin with nothing transferred.
LEMMA BeginKeeps ==
  ASSUME IOInv, NEW kind \in {"read", "write", "read_at", "write_at"}, NEW off \in Nat \cup {-1}, NEW size \in Nat,
         Begin(kind, off, size)
  PROVE  IOInv'
PROOF
<1>0. IOTypeOK
  BY Zenon DEF IOInv
<1>1. /\ io'.pc = kind /\ io'.left = size /\ io'.done = 0 /\ io'.buffer = <<>>
      /\ io'.ofs = (IF off = -1 THEN pos ELSE off) /\ io'.ofs \in Nat
      /\ before' = fs_device /\ fs_device' = fs_device /\ pos' = pos /\ deny' = deny
  BY <1>0, SMTT(30) DEF Begin, IOTypeOK
<1>2. IOTypeOK'
  <2>1. io' = [pc |-> kind, ofs |-> IF off = -1 THEN pos ELSE off, left |-> size, done |-> 0, buffer |-> <<>>]
    BY Zenon DEF Begin
  <2> QED
    BY <2>1, <1>0, <1>1, SMTT(30) DEF IOTypeOK
<1>3. Within'
  BY <1>1 DEF Within
<1>4. WritesExactly'
  <2> DEFINE f == ByteAt(StartOfs)'
             l == ByteAt(io.ofs - 1)'
  <2>1. SECTOR_SIZE \in Nat /\ Start \in Nat /\ Start * SECTOR_SIZE \in Nat
    BY InodeIOAssumption
  <2>2. f = Start * SECTOR_SIZE + (io'.ofs - io'.done) /\ l = Start * SECTOR_SIZE + (io'.ofs - 1)
    BY SMTT(30) DEF ByteAt, StartOfs
  <2>3. \A b : b \notin f .. l
    BY <2>1, <2>2, <1>1, SMTT(30)
  <2> HIDE DEF f, l
  <2>4. fs_device' = [b \in Byte |-> IF io'.pc \in {"write", "write_at"} /\ b \in f .. l THEN b - f + 1 ELSE before'[b]]
    BY <2>3, <1>0, <1>1, SMTT(30) DEF IOTypeOK
  <2> QED
    BY <2>4, Zenon DEF WritesExactly, f, l
<1>5. ReadsExactly'
  <2>1. io'.buffer = [k \in 1 .. io'.done |-> fs_device'[ByteAt(StartOfs + k - 1)']]
    BY <1>1
  <2> QED
    BY <2>1, <1>1, SMTT(30) DEF ReadsExactly
<1> QED
  BY <1>2, <1>3, <1>4, <1>5, Zenon DEF IOInv, TransfersExact

\* What two sequences put end to end hold.
LEMMA Joined ==
  ASSUME NEW S, NEW s \in Seq(S), NEW r \in Seq(S)
  PROVE  /\ s \o r \in Seq(S) /\ Len(s \o r) = Len(s) + Len(r)
         /\ \A k \in 1 .. Len(s) + Len(r) : (s \o r)[k] = IF k <= Len(s) THEN s[k] ELSE r[k - Len(s)]
PROOF
<1>1. s \o r \in Seq(S)
  OBVIOUS
<1>2. Len(s \o r) = Len(s) + Len(r)
  OBVIOUS
<1>3. \A k \in 1 .. Len(s) + Len(r) : (s \o r)[k] = IF k <= Len(s) THEN s[k] ELSE r[k - Len(s)]
  OBVIOUS
<1> QED
  BY <1>1, <1>2, <1>3, Zenon

\* The places of a sequence.
LEMMA Places ==
  ASSUME NEW S, NEW s \in Seq(S)
  PROVE  Len(s) \in Nat /\ DOMAIN s = 1 .. Len(s)
  OBVIOUS

\* A turn of inode_read_at: the bytes of the chunk go to the end of the buffer.
LEMMA ReadChunkKeeps ==
  ASSUME IOInv, ReadChunk
  PROVE  IOInv'
PROOF
<1> DEFINE c == chunk_size
           o == io.ofs
           d == io.done
           T == Start * SECTOR_SIZE
<1>0. IOTypeOK /\ Within /\ ReadsExactly /\ WritesExactly /\ o \in Nat /\ d \in Nat /\ io.left \in Nat /\ d <= o
  BY Zenon DEF IOInv, IOTypeOK, TransfersExact, Within
<1>1. /\ c \in Nat \ {0} /\ c <= io.left /\ o + c <= Length
      /\ \A k \in Int : At(k) = ByteAt(o) + k
  BY <1>0, Chunk, Zenon DEF ReadChunk
<1>t. SECTOR_SIZE \in Nat /\ Start \in Nat /\ Length \in Nat /\ T \in Nat /\ \A p : ByteAt(p) = T + p
  BY InodeIOAssumption DEF ByteAt
<1> DEFINE g == [k \in 1 .. c |-> fs_device[At(k - 1)]]
<1>2. /\ io.pc \in {"read", "read_at"} /\ io' = [io EXCEPT !.ofs = o + c, !.left = io.left - c, !.done = d + c, !.buffer = io.buffer \o g]
      /\ fs_device' = fs_device /\ pos' = pos /\ deny' = deny /\ before' = before
  BY Zenon DEF ReadChunk, Advance
<1>3. io.buffer = [k \in 1 .. d |-> fs_device[ByteAt(StartOfs + k - 1)]] /\ StartOfs = o - d
  BY <1>0, <1>2, Zenon DEF ReadsExactly, StartOfs
<1> HIDE DEF c, T
<1>4. \A k \in 1 .. c : g[k] = fs_device[T + (o + k - 1)] /\ g[k] \in Nat
  <2> TAKE k \in 1 .. c
  <2>1. k - 1 \in Int /\ o + k - 1 \in Nat /\ o + k - 1 < Length
    BY <1>0, <1>1, <1>t, SMTT(30)
  <2>2. At(k - 1) = T + o + (k - 1) /\ T + o + (k - 1) = T + (o + k - 1)
    BY <2>1, <1>0, <1>1, <1>t
  <2>3. T + (o + k - 1) \in Byte
    BY <2>1, <1>t, FileOnDevice, SMTT(30)
  <2> QED
    BY <2>2, <2>3, <1>0, Zenon DEF IOTypeOK
<1>5. g \in Seq(Nat) /\ Len(g) = c
  BY <1>4, <1>1, SMTT(30)
<1>6. /\ io.buffer \in Seq(Nat) /\ Len(io.buffer) = d
      /\ \A k \in 1 .. d : io.buffer[k] = fs_device[T + ((o - d) + k - 1)]
  <2>1. io.buffer \in Seq(Nat)
    BY <1>0, Zenon DEF IOTypeOK
  <2>2. DOMAIN io.buffer = 1 .. d /\ \A k \in 1 .. d : io.buffer[k] = fs_device[T + ((o - d) + k - 1)]
    BY <1>3, <1>t, Zenon
  <2>3. Len(io.buffer) = d
    BY <2>1, <2>2, <1>0, Places, SMTT(30)
  <2> QED
    BY <2>1, <2>2, <2>3, Zenon
<1> DEFINE u == io.buffer
           w == u \o g
<1> HIDE DEF g, u
<1>7. /\ w \in Seq(Nat) /\ Len(w) = d + c
      /\ \A k \in 1 .. d : w[k] = u[k]
      /\ \A k \in 1 .. c : w[d + k] = g[k]
  <2>1. u \in Seq(Nat) /\ Len(u) = d /\ d \in Nat /\ c \in Nat
    BY <1>0, <1>1, <1>6, Zenon DEF u
  <2>2. w \in Seq(Nat) /\ Len(w) = d + c /\ \A k \in 1 .. d + c : w[k] = IF k <= d THEN u[k] ELSE g[k - d]
    <3>1. /\ w \in Seq(Nat) /\ Len(w) = Len(u) + Len(g)
          /\ \A k \in 1 .. Len(u) + Len(g) : w[k] = IF k <= Len(u) THEN u[k] ELSE g[k - Len(u)]
      BY <2>1, <1>5, Joined, Zenon
    <3> QED
      BY <3>1, <2>1, <1>5, Zenon
  <2> HIDE DEF w
  <2>3. \A k \in 1 .. d : k \in 1 .. d + c /\ k <= d
    BY <2>1
  <2>4. \A k \in 1 .. c : d + k \in 1 .. d + c /\ ~(d + k <= d) /\ (d + k) - d = k
    BY <2>1
  <2> QED
    BY <2>2, <2>3, <2>4, SMTT(30)
<1> HIDE DEF w
<1>8. /\ io'.ofs = o + c /\ io'.left = io.left - c /\ io'.done = d + c /\ io'.buffer = w /\ io'.pc = io.pc
      /\ io'.left \in Nat
  BY <1>0, <1>1, <1>2, SMTT(30) DEF IOTypeOK, w, u
<1>9. IOTypeOK'
  <2>1. io' = [pc |-> io.pc, ofs |-> o + c, left |-> io.left - c, done |-> d + c, buffer |-> w]
    BY <1>0, <1>2, Zenon DEF IOTypeOK, w, u
  <2>2. io.pc \in {"idle", "read", "write", "read_at", "write_at"} /\ o + c \in Nat /\ io.left - c \in Nat /\ d + c \in Nat
    BY <1>0, <1>1, <1>2
  <2>3. io' \in [pc : {"idle", "read", "write", "read_at", "write_at"},
                 ofs : Nat, left : Nat, done : Nat, buffer : Seq(Nat)]
    BY <2>1, <2>2, <1>7, Zenon
  <2> QED
    BY <2>3, <1>0, <1>2, Zenon DEF IOTypeOK
<1>10. Within'
  BY <1>0, <1>1, <1>8, SMTT(30) DEF Within
<1>11. StartOfs' = o - d /\ StartOfs = o - d
  BY <1>0, <1>1, <1>8 DEF StartOfs
<1>12. WritesExactly'
  <2>1. io.pc \notin {"write", "write_at", "idle"}
    BY <1>2, Zenon
  <2>2. fs_device = [b \in Byte |-> before[b]]
    BY <2>1, <1>0, Zenon DEF WritesExactly
  <2> QED
    BY <2>1, <2>2, <1>2, <1>8, Zenon DEF WritesExactly
<1>13. ReadsExactly'
  <2>1. ASSUME NEW k \in 1 .. d + c  PROVE w[k] = fs_device[T + ((o - d) + k - 1)]
    <3>1. CASE k <= d
      <4>1. k \in 1 .. d
        BY <3>1, <1>0, <1>1
      <4> QED
        BY <4>1, <1>6, <1>7, SMTT(30) DEF u
    <3>2. CASE k > d
      <4>1. k - d \in 1 .. c /\ d + (k - d) = k /\ o + (k - d) - 1 = (o - d) + k - 1
        BY <3>2, <1>0, <1>1, SMTT(30)
      <4>2. w[k] = g[k - d] /\ g[k - d] = fs_device[T + (o + (k - d) - 1)]
        BY <4>1, <1>4, <1>7, SMTT(30)
      <4> QED
        BY <4>1, <4>2, Zenon
    <3> QED
      BY <3>1, <3>2, <1>0, <1>1, SMTT(30)
  <2>2. w = [k \in 1 .. d + c |-> fs_device[T + ((o - d) + k - 1)]]
    BY <2>1, <1>7, SMTT(30)
  <2>3. io'.buffer = [k \in 1 .. io'.done |-> fs_device'[T + ((o - d) + k - 1)]]
    BY <2>2, <1>2, <1>8, Zenon
  <2>4. io'.buffer = [k \in 1 .. io'.done |-> fs_device'[ByteAt(StartOfs + k - 1)']]
    BY <2>3, <1>11, Zenon DEF ByteAt, T
  <2> QED
    BY <2>4, <1>1, <1>8, Zenon DEF ReadsExactly
<1> QED
  BY <1>9, <1>10, <1>12, <1>13, SMTT(30) DEF IOInv, TransfersExact

\* A turn of inode_write_at replaces the bytes of the chunk and no other byte of
\* the sector: the bounce buffer is filled from the disk unless the chunk is the
\* whole sector.
LEMMA WritesChunk ==
  ASSUME IOTypeOK, WriteChunk
  PROVE  /\ fs_device' \in [Byte -> Nat]
         /\ \A b \in Byte : fs_device'[b] = IF b \in ByteAt(io.ofs) .. ByteAt(io.ofs) + chunk_size - 1
                                           THEN io.done + b - ByteAt(io.ofs) + 1 ELSE fs_device[b]
PROOF
<1> DEFINE c == chunk_size
           S == SECTOR_SIZE
           r == sector_ofs
           q == byte_to_sector(io.ofs)
           f == ByteAt(io.ofs)
<1>0. fs_device \in [Byte -> Nat] /\ io.ofs \in Nat /\ io.left \in Nat /\ io.done \in Nat /\ c > 0
  BY Zenon DEF IOTypeOK, WriteChunk
<1>1. /\ c \in Nat \ {0} /\ r \in 0 .. S - 1 /\ c <= S - r /\ q \in Nat /\ f \in Nat /\ q * S + r = f
      /\ \A k \in Int : At(k) = f + k
  BY <1>0, Chunk, Zenon
<1>2. S \in Nat \ {0} /\ DevSectors \in Nat /\ DevSectors * S \in Nat /\ \A b \in Byte : b \in Nat
  BY InodeIOAssumption DEF Byte
<1>3. At(0) = f /\ At(c - 1) = f + c - 1 /\ sector_left = S - r
  <2>1. 0 \in Int /\ c - 1 \in Int
    BY <1>1
  <2>2. At(0) = f + 0 /\ At(c - 1) = f + (c - 1)
    BY <2>1, <1>1, SMTT(30)
  <2> QED
    BY <2>2, <1>1 DEF sector_left
<1>4. fs_device' = [b \in Byte |-> IF b \div S # q THEN fs_device[b]
                                   ELSE IF b \in f .. f + c - 1 THEN io.done + b - f + 1
                                   ELSE IF r > 0 \/ c < S - r THEN fs_device[b] ELSE 0]
  BY <1>3, Zenon DEF WriteChunk, Around
<1> HIDE DEF c, S, r, q, f
<1>5. ASSUME NEW b \in Byte
      PROVE  fs_device'[b] = IF b \in f .. f + c - 1 THEN io.done + b - f + 1 ELSE fs_device[b]
  <2>1. b \in Nat /\ q * S \in Nat /\ (b \div S = q <=> q * S <= b /\ b < q * S + S)
    BY <1>1, <1>2, SectorBytes, SMTT(30)
  <2>2. b \in f .. f + c - 1 => b \div S = q
    BY <2>1, <1>1, <1>2, SMTT(30)
  <2>3. b \div S = q /\ ~(r > 0 \/ c < S - r) => b \in f .. f + c - 1
    BY <2>1, <1>1, <1>2, SMTT(30)
  <2>4. fs_device'[b] = IF b \div S # q THEN fs_device[b]
                        ELSE IF b \in f .. f + c - 1 THEN io.done + b - f + 1
                        ELSE IF r > 0 \/ c < S - r THEN fs_device[b] ELSE 0
    BY <1>4, Zenon
  <2> QED
    BY <2>2, <2>3, <2>4, Zenon
<1>6. fs_device' \in [Byte -> Nat]
  <2>1. DOMAIN fs_device' = Byte /\ fs_device' = [b \in Byte |-> fs_device'[b]]
    BY <1>4, Zenon
  <2>2. ASSUME NEW b \in Byte  PROVE fs_device'[b] \in Nat
    <3>1. b \in Nat /\ fs_device[b] \in Nat
      BY <1>0, <1>2, SMTT(30)
    <3>2. b \in f .. f + c - 1 => io.done + b - f + 1 \in Nat
      BY <3>1, <1>0, <1>1, SMTT(30)
    <3> QED
      BY <3>1, <3>2, <1>5, Zenon
  <2> QED
    BY <2>1, <2>2, Zenon
<1> QED
  BY <1>5, <1>6, SMTT(30) DEF f, c

\* A turn of inode_write_at leaves the bytes before the transfer and after the
\* chunk as they were when the transfer began.
LEMMA WriteChunkKeeps ==
  ASSUME IOInv, WriteChunk
  PROVE  IOInv'
PROOF
<1> DEFINE c == chunk_size
           o == io.ofs
           d == io.done
           T == Start * SECTOR_SIZE
<1>0. IOTypeOK /\ Within /\ WritesExactly /\ o \in Nat /\ d \in Nat /\ io.left \in Nat /\ d <= o
  BY SMTT(30) DEF IOInv, IOTypeOK, TransfersExact, Within
<1>1. c \in Nat \ {0} /\ c <= io.left /\ o + c <= Length
  BY <1>0, Chunk, Zenon DEF WriteChunk
<1>t. T \in Nat /\ Length \in Nat /\ \A p : ByteAt(p) = T + p
  <2>1. SECTOR_SIZE \in Nat /\ Start \in Nat /\ Length \in Nat
    BY InodeIOAssumption, Zenon
  <2> QED
    BY <2>1 DEF ByteAt
<1>2. /\ io.pc \in {"write", "write_at"}
      /\ io' = [io EXCEPT !.ofs = o + c, !.left = io.left - c, !.done = d + c, !.buffer = <<>>]
      /\ pos' = pos /\ deny' = deny /\ before' = before
  BY Zenon DEF WriteChunk, Advance
<1>3. /\ fs_device' \in [Byte -> Nat]
      /\ \A b \in Byte : fs_device'[b] = IF b \in (T + o) .. (T + o) + c - 1 THEN d + b - (T + o) + 1 ELSE fs_device[b]
  <2>1. ByteAt(o) = T + o
    BY <1>t, Zenon
  <2> QED
    BY <2>1, <1>0, WritesChunk, Zenon
<1>4. StartOfs = o - d /\ io.pc # "idle"
  BY <1>2, Zenon DEF StartOfs
<1>5. fs_device = [b \in Byte |-> IF b \in T + (o - d) .. T + (o - 1) THEN b - (T + (o - d)) + 1 ELSE before[b]]
  BY <1>0, <1>2, <1>4, <1>t, SMTT(30) DEF WritesExactly
<1> HIDE DEF c, T
<1>6. /\ io' = [pc |-> io.pc, ofs |-> o + c, left |-> io.left - c, done |-> d + c, buffer |-> <<>>]
      /\ o + c \in Nat /\ io.left - c \in Nat /\ d + c \in Nat
  <2>1. io' = [pc |-> io.pc, ofs |-> o + c, left |-> io.left - c, done |-> d + c, buffer |-> <<>>]
    BY <1>0, <1>2, Zenon DEF IOTypeOK
  <2> QED
    BY <2>1, <1>0, <1>1
<1>7. io'.pc = io.pc /\ io'.ofs = o + c /\ io'.left = io.left - c /\ io'.done = d + c /\ io'.buffer = <<>>
  BY <1>6, Zenon
<1>8. IOTypeOK'
  <2>1. io.pc \in {"idle", "read", "write", "read_at", "write_at"} /\ <<>> \in Seq(Nat)
    BY <1>2
  <2>2. io' \in [pc : {"idle", "read", "write", "read_at", "write_at"},
                 ofs : Nat, left : Nat, done : Nat, buffer : Seq(Nat)]
    BY <2>1, <1>6, Zenon
  <2> QED
    BY <2>2, <1>0, <1>2, <1>3, Zenon DEF IOTypeOK
<1>9. Within'
  BY <1>0, <1>1, <1>7 DEF Within
<1>10. WritesExactly'
  <2>1. ASSUME NEW b \in Byte
        PROVE  fs_device'[b] = IF b \in T + (o - d) .. T + (o + c - 1) THEN b - (T + (o - d)) + 1 ELSE before[b]
    <3>1. fs_device[b] = IF b \in T + (o - d) .. T + (o - 1) THEN b - (T + (o - d)) + 1 ELSE before[b]
      BY <1>5, Zenon
    <3>2. b \in Int
      BY DEF Byte
    <3> QED
      BY <3>1, <3>2, <1>0, <1>1, <1>3, <1>t, SMTT(30)
  <2>2. fs_device' = [b \in Byte |-> IF b \in T + (o - d) .. T + (o + c - 1) THEN b - (T + (o - d)) + 1 ELSE before[b]]
    BY <2>1, <1>3, SMTT(30)
  <2>3. StartOfs' = o - d /\ io'.ofs - 1 = o + c - 1
    BY <1>0, <1>1, <1>7 DEF StartOfs
  <2>4. ByteAt(StartOfs)' = T + (o - d) /\ ByteAt(io.ofs - 1)' = T + (o + c - 1)
    BY <2>3, Zenon DEF ByteAt, T
  <2> QED
    BY <2>2, <2>4, <1>2, <1>7, SMTT(30) DEF WritesExactly
<1>11. ReadsExactly'
  BY <1>2, <1>7, Zenon DEF ReadsExactly
<1> QED
  BY <1>8, <1>9, <1>10, <1>11, Zenon DEF IOInv, TransfersExact

\* The end of a transfer, and the steps between two, leave no transfer.
LEMMA RestKeeps ==
  ASSUME IOInv, End \/ (\E p \in 0 .. MaxSize : file_seek(p)) \/ (\E b \in BOOLEAN : DenyWrites(b))
  PROVE  IOInv'
PROOF
<1>0. IOTypeOK /\ Within
  BY Zenon DEF IOInv
<1>1. /\ io'.pc = "idle" /\ io'.done <= io'.ofs /\ (io'.done > 0 => io'.ofs <= Length)
      /\ io' \in [pc : {"idle", "read", "write", "read_at", "write_at"},
                  ofs : Nat, left : Nat, done : Nat, buffer : Seq(Nat)]
  <2>1. CASE End
    <3>1. io' = [pc |-> "idle", ofs |-> 0, left |-> 0, done |-> 0, buffer |-> <<>>]
      BY <2>1, Zenon DEF End, NoTransfer
    <3>2. 0 \in Nat /\ <<>> \in Seq(Nat)
      OBVIOUS
    <3>3. io' \in [pc : {"idle", "read", "write", "read_at", "write_at"},
                   ofs : Nat, left : Nat, done : Nat, buffer : Seq(Nat)]
      BY <3>1, <3>2, Zenon
    <3> QED
      BY <3>1, <3>3, SMTT(30)
  <2>2. CASE (\E p \in 0 .. MaxSize : file_seek(p)) \/ (\E b \in BOOLEAN : DenyWrites(b))
    <3>1. io' = io /\ io.pc = "idle"
      BY <2>2, Zenon DEF file_seek, DenyWrites
    <3> QED
      BY <3>1, <1>0, Zenon DEF IOTypeOK, Within
  <2> QED
    BY <2>1, <2>2, SMTT(30)
<1>2. fs_device' = fs_device /\ before' = before
  BY Zenon DEF End, file_seek, DenyWrites
<1>3. pos' \in Nat /\ deny' \in BOOLEAN
  <2>1. io.done \in Nat /\ pos \in Nat /\ deny \in BOOLEAN /\ MaxSize \in Nat
    BY <1>0, InodeIOAssumption, Zenon DEF IOTypeOK
  <2>2. pos' \in {pos, pos + io.done} \cup (0 .. MaxSize) /\ deny' \in {deny} \cup BOOLEAN
    BY Zenon DEF End, file_seek, DenyWrites
  <2> QED
    BY <2>1, <2>2
<1>4. IOTypeOK' /\ Within'
  BY <1>0, <1>1, <1>2, <1>3, Zenon DEF IOTypeOK, Within
<1>5. WritesExactly'
  BY <1>1, Zenon DEF WritesExactly
<1>6. ReadsExactly'
  BY <1>1, Zenon DEF ReadsExactly
<1> QED
  BY <1>4, <1>5, <1>6, Zenon DEF IOInv, TransfersExact

\* Files of every length at every place of a device, read and written at every
\* offset and in every size: exactly the bytes asked for are moved.
THEOREM BytesCorrect == IOSpec => []TransfersExact
PROOF
<1>1. IOInv /\ [IONext]_ioVars => IOInv'
  <2> SUFFICES ASSUME IOInv, [IONext]_ioVars
               PROVE  IOInv'
    BY Zenon
  <2>0. \A n \in 0 .. MaxSize : n \in Nat
    BY InodeIOAssumption
  <2>1. CASE \E kind \in {"read", "write"}, size \in 0 .. MaxSize : Begin(kind, -1, size)
    <3> PICK kind \in {"read", "write"}, size \in 0 .. MaxSize : Begin(kind, -1, size)
      BY <2>1, Zenon
    <3>1. kind \in {"read", "write", "read_at", "write_at"} /\ size \in Nat /\ -1 \in Nat \cup {-1}
      BY <2>0, Zenon
    <3> QED
      BY <3>1, BeginKeeps, Zenon
  <2>2. CASE \E kind \in {"read_at", "write_at"}, off, size \in 0 .. MaxSize : Begin(kind, off, size)
    <3> PICK kind \in {"read_at", "write_at"}, off \in 0 .. MaxSize, size \in 0 .. MaxSize : Begin(kind, off, size)
      BY <2>2, Zenon
    <3>1. kind \in {"read", "write", "read_at", "write_at"} /\ size \in Nat /\ off \in Nat \cup {-1}
      BY <2>0, Zenon
    <3> QED
      BY <3>1, BeginKeeps, Zenon
  <2>3. CASE ReadChunk
    BY <2>3, ReadChunkKeeps, Zenon
  <2>4. CASE WriteChunk
    BY <2>4, WriteChunkKeeps, Zenon
  <2>5. CASE End \/ (\E p \in 0 .. MaxSize : file_seek(p)) \/ (\E b \in BOOLEAN : DenyWrites(b))
    BY <2>5, RestKeeps, SMTT(30)
  <2>6. CASE UNCHANGED ioVars
    BY <2>6, Zenon DEF ioVars, IOInv, IOTypeOK, Within, TransfersExact, WritesExactly, ReadsExactly, StartOfs, ByteAt
  <2> QED
    BY <2>1, <2>2, <2>3, <2>4, <2>5, <2>6, SMTT(30) DEF IONext
<1>2. IOInv => TransfersExact
  BY Zenon DEF IOInv
<1> QED
  BY <1>1, <1>2, IOInitInv, PTL DEF IOSpec

-----------------------------------------------------------------------------
(***************************************************************************)
(* inode.c: the table of open inodes is sound for any number of threads,   *)
(* inodes and sectors until a call without filesys_lock meets another      *)
(* (met).  After that it need not be: TLC refutes OneInodePerSector with   *)
(* one Loader.                                                             *)
(*                                                                         *)
(* Until calls have met, one thread at a time is inside inode_open or      *)
(* inode_close.  The invariant says what an inode on the list is at each   *)
(* of that thread's steps, and that the counts of all the others match     *)
(* their openers.                                                          *)
(***************************************************************************)
\* What is used of the library's theory of finite sets: the openers of an inode
\* are counted one by one.
Counting ==
  /\ IsFiniteSet({}) /\ Cardinality({}) = 0
  /\ \A S : IsFiniteSet(S) => \A R \in SUBSET S : IsFiniteSet(R)
  /\ \A S : IsFiniteSet(S) => (Cardinality(S) = 0 <=> S = {})
  /\ \A S, x : IsFiniteSet(S) /\ x \notin S =>
       IsFiniteSet(S \cup {x}) /\ Cardinality(S \cup {x}) = Cardinality(S) + 1
  /\ \A S, x : IsFiniteSet(S) /\ x \in S => Cardinality(S \ {x}) = Cardinality(S) - 1
  /\ \A x : Cardinality({x}) = 1

Setup == {"pushed", "reading", "unlink"}

TableTypeOK ==
  /\ pc \in [Thread -> {"closed", "open"} \cup Inside]
  /\ want \in [Thread -> InodeSector]
  /\ ptr \in [Thread -> Inode \cup {NULL}]
  /\ inode \in [Inode -> [sector : InodeSector \cup {NULL}, open_cnt : Int, read : BOOLEAN]]
  /\ open_list \subseteq Inode
  /\ allocated = open_list

OneInside == \A t, u \in Thread : pc[t] \in Inside /\ pc[u] \in Inside => t = u

PtrOnList ==
  \A t \in Thread : IF pc[t] \in {"closed", "alloc"} THEN ptr[t] = NULL ELSE ptr[t] \in open_list

Openers(i) == {u \in Thread : pc[u] = "open" /\ ptr[u] = i}
Busy(i) == \E t \in Thread : ptr[t] = i /\ pc[t] \in Setup

\* An inode being set up or taken apart has no openers; all others are counted
\* and have been read.
CountsMatch ==
  \A i \in open_list :
    IF Busy(i) THEN Openers(i) = {}
    ELSE inode[i].open_cnt = Cardinality(Openers(i)) /\ inode[i].read

SectorAsked ==
  \A t \in Thread :
    /\ pc[t] \in {"found", "reading", "open"} => inode[ptr[t]].sector = want[t]
    /\ pc[t] = "reading" => inode[ptr[t]].open_cnt = 1

\* What the search found stays true until the new inode has its sector.
NoOtherForSector ==
  \A t \in Thread : pc[t] \in {"alloc", "pushed"} =>
    \A i \in open_list : i # ptr[t] => inode[i].sector # want[t]

TableInv ==
  /\ TableTypeOK /\ OneInside /\ PtrOnList /\ CountsMatch
  /\ SectorAsked /\ NoOtherForSector /\ OneInodePerSector

\* Of the system calls, the owner of filesys_lock is inside.
LockOwnerInside ==
  /\ pc \in [Thread -> {"closed", "open"} \cup Inside]
  /\ \A t \in Locker : pc[t] \in Inside <=> filesys_lock = t

MetInv == LockOwnerInside /\ met \in BOOLEAN /\ (~met => TableInv)
-----------------------------------------------------------------------------
\* After inode_init the table is empty and the lock free.
LEMMA TableInitInv == TableInit => MetInv
<1>1. SUFFICES ASSUME TableInit PROVE MetInv
  BY Zenon
<1>2. TableTypeOK
  BY <1>1 DEF TableInit, TableTypeOK
<1>3. OneInside /\ LockOwnerInside /\ met \in BOOLEAN
  <2>1. \A t \in Thread : pc[t] \notin Inside
    BY <1>1, Zenon DEF TableInit, Inside
  <2>2. filesys_lock = NULL /\ NULL \notin Locker /\ Locker \subseteq Thread
    BY <1>1, InodeTableAssumption, Zenon DEF TableInit, Thread
  <2>3. met \in BOOLEAN
    BY <1>1, Zenon DEF TableInit
  <2> QED
    BY <1>2, <2>1, <2>2, <2>3, Zenon DEF OneInside, LockOwnerInside, TableTypeOK
<1>4. PtrOnList /\ CountsMatch /\ SectorAsked /\ NoOtherForSector /\ OneInodePerSector
  BY <1>1, Zenon DEF TableInit, PtrOnList, CountsMatch, SectorAsked, NoOtherForSector, OneInodePerSector
<1>5. QED
  BY <1>2, <1>3, <1>4, Zenon DEF TableInv, MetInv

\* t may act on the table: no other is inside.
MayAct(t) == \A u \in Thread \ {t} : pc[u] \notin Inside

\* A step leaves the threads other than t alone.
OthersStay(t) ==
  \A u \in Thread \ {t} : pc'[u] = pc[u] /\ ptr'[u] = ptr[u] /\ want'[u] = want[u]

\* Whoever may act on the table is alone inside inode_open and inode_close.
LEMMA Alone ==
  ASSUME TableInv, NEW t \in Thread, MayAct(t)
  PROVE /\ \A u \in Thread \ {t} : pc[u] \in {"closed", "open"}
        /\ \A i \in Inode : Busy(i) <=> ptr[t] = i /\ pc[t] \in Setup
        /\ \A i \in Inode : InTransit(i) <=> ptr[t] = i /\ pc[t] \in {"pushed", "unlink"}
<1>2. \A u \in Thread \ {t} : pc[u] \in {"closed", "open"}
  BY Zenon DEF MayAct, TableInv, TableTypeOK
<1>3. QED
  BY <1>2, Zenon DEF Busy, InTransit, Setup

\* It is still alone after its step.
LEMMA AloneAfter ==
  ASSUME TableInv, NEW t \in Thread, MayAct(t), OthersStay(t)
  PROVE /\ \A i \in Inode : Busy(i)' <=> ptr'[t] = i /\ pc'[t] \in Setup
        /\ \A i \in Inode : InTransit(i)' <=> ptr'[t] = i /\ pc'[t] \in {"pushed", "unlink"}
  BY Alone DEF Busy, InTransit, Setup, OthersStay

\* The openers of an inode can be counted.
LEMMA OpenersFinite ==
  ASSUME Counting PROVE \A i : IsFiniteSet(Openers(i)) /\ IsFiniteSet(Openers(i)')
<1>1. IsFiniteSet(Thread) /\ \A i : Openers(i) \subseteq Thread /\ Openers(i)' \subseteq Thread
  BY InodeTableAssumption, Zenon DEF Openers, Thread
<1> QED
  BY <1>1, Zenon DEF Counting

\* Of the system calls only the owner of filesys_lock is inside, whatever the
\* others do, and a step moves one thread.
LEMMA LockDiscipline ==
  ASSUME LockOwnerInside, NEW t \in Thread,
         \/ Search(t) \/ inode_reopen(t) \/ Push(t) \/ Initialize(t)
         \/ Read(t) \/ Close(t) \/ Unlink(t)
  PROVE /\ LockOwnerInside'
        /\ \A u \in Thread \ {t} : pc'[u] = pc[u]
        /\ pc[t] \in Inside \/ Meets(t)
        /\ met' = met \/ Meets(t)
<1>1. pc \in [Thread -> {"closed", "open"} \cup Inside] /\ (t \in Locker => (pc[t] \in Inside <=> filesys_lock = t))
  BY Zenon DEF LockOwnerInside
<1>2. /\ pc' \in [Thread -> {"closed", "open"} \cup Inside]
      /\ \A u \in Thread \ {t} : pc'[u] = pc[u]
  BY <1>1 DEF Search, inode_reopen, Push, Initialize, Read, Close, Unlink, Inside
<1>3. pc[t] \in Inside \/ Meets(t)
  BY Zenon DEF Search, inode_reopen, Push, Initialize, Read, Close, Unlink, Inside
<1>4. met' = met \/ Meets(t)
  BY Zenon DEF Search, inode_reopen, Push, Initialize, Read, Close, Unlink
<1>5. CASE t \in Locker
  <2>1. filesys_lock' = IF pc'[t] \in Inside THEN t ELSE NULL
    <3>1. CASE Search(t)
      BY <1>1, <1>5, <3>1, Zenon DEF Search, OwnerAfterEntry, Inside
    <3>2. CASE inode_reopen(t) \/ Read(t) \/ Unlink(t)
      BY <1>1, <1>5, <3>2, Zenon DEF inode_reopen, Read, Unlink, OwnerAfterReturn, Inside
    <3>3. CASE Push(t)
      BY <1>1, <1>5, <3>3, Zenon DEF Push, OwnerAfterReturn, Inside
    <3>4. CASE Initialize(t)
      BY <1>1, <1>5, <3>4, Zenon DEF Initialize, Inside
    <3>5. CASE Close(t)
      BY <1>1, <1>5, <3>5, Zenon DEF Close, MayEnter, OwnerAfterEntry, Inside
    <3>6. QED
      BY <3>1, <3>2, <3>3, <3>4, <3>5, Zenon
  <2>2. pc[t] \in Inside \/ filesys_lock = NULL
    BY <1>5, Zenon DEF Search, inode_reopen, Push, Initialize, Read, Close, Unlink, MayEnter, Inside
  <2>3. \A u \in Locker \ {t} : pc[u] \notin Inside
    BY <1>1, <1>5, <2>2, InodeTableAssumption, Zenon DEF LockOwnerInside
  <2>4. \A u \in Locker \ {t} : pc'[u] \notin Inside /\ filesys_lock' # u
    BY <1>2, <2>1, <2>3, InodeTableAssumption, Zenon DEF Thread
  <2>5. pc'[t] \in Inside <=> filesys_lock' = t
    BY <1>5, <2>1, InodeTableAssumption, Zenon
  <2> QED
    BY <1>2, <1>3, <1>4, <2>4, <2>5, Zenon DEF LockOwnerInside
<1>6. CASE t \notin Locker
  <2>1. filesys_lock' = filesys_lock
    BY <1>6, Zenon DEF Search, inode_reopen, Push, Initialize, Read, Close, Unlink, OwnerAfterEntry, OwnerAfterReturn
  <2>2. \A u \in Locker : pc'[u] = pc[u]
    BY <1>2, <1>6, Zenon DEF Thread
  <2> QED
    BY <1>2, <1>3, <1>4, <2>1, <2>2, Zenon DEF LockOwnerInside
<1> QED
  BY <1>5, <1>6, Zenon

\* While calls have not met, a step is that of the only thread inside.
LEMMA NotMet ==
  ASSUME MetInv, ~met', NEW t \in Thread,
         \/ Search(t) \/ inode_reopen(t) \/ Push(t) \/ Initialize(t)
         \/ Read(t) \/ Close(t) \/ Unlink(t)
  PROVE /\ TableInv /\ MayAct(t) /\ OthersStay(t) /\ OneInside'
        /\ pc' \in [Thread -> {"closed", "open"} \cup Inside] /\ want' \in [Thread -> InodeSector]
<1>1. /\ LockOwnerInside' /\ (\A u \in Thread \ {t} : pc'[u] = pc[u])
      /\ pc[t] \in Inside \/ Meets(t)
      /\ met' = met \/ Meets(t)
  BY LockDiscipline, Zenon DEF MetInv
<1>2. ~met /\ TableInv
  <2>1. ~met
    BY <1>1, SMT DEF Meets, MetInv
  <2> QED
    BY <2>1, Zenon DEF MetInv
<1>3. MayAct(t)
  <2>1. CASE Meets(t)
    BY <2>1, Zenon DEF Meets, MayAct
  <2>2. CASE pc[t] \in Inside
    BY <1>2, <2>2, Zenon DEF TableInv, OneInside, MayAct
  <2> QED
    BY <1>1, <2>1, <2>2, Zenon
<1>4. ptr \in [Thread -> Inode \cup {NULL}] /\ want \in [Thread -> InodeSector]
  BY <1>2, Zenon DEF TableInv, TableTypeOK
<1>5. OthersStay(t)
  BY <1>1, <1>4, Zenon DEF OthersStay, Search, inode_reopen, Push, Initialize, Read, Close, Unlink
<1>6. OneInside'
  BY <1>1, <1>3, Zenon DEF OneInside, MayAct
<1>7. want' \in [Thread -> InodeSector]
  BY <1>4 DEF Search, inode_reopen, Push, Initialize, Read, Close, Unlink
<1> QED
  BY <1>1, <1>2, <1>3, <1>5, <1>6, <1>7, Zenon DEF LockOwnerInside

\* Every step of inode_open and inode_close that meets no other keeps the table
\* as it should be.
LEMMA TableStep ==
  ASSUME Counting, MetInv, ~met', NEW t \in Thread,
         \/ Search(t) \/ inode_reopen(t) \/ Push(t) \/ Initialize(t)
         \/ Read(t) \/ Close(t) \/ Unlink(t)
  PROVE TableInv'
<1>2. /\ TableInv /\ MayAct(t) /\ OthersStay(t) /\ OneInside'
      /\ pc' \in [Thread -> {"closed", "open"} \cup Inside] /\ want' \in [Thread -> InodeSector]
  BY NotMet, Zenon
<1>3. TableTypeOK /\ PtrOnList /\ CountsMatch /\ SectorAsked /\ NoOtherForSector /\ OneInodePerSector
  BY <1>2, SMTT(30) DEF TableInv
<1>4. /\ \A u \in Thread \ {t} : pc[u] \in {"closed", "open"}
      /\ \A i \in Inode : Busy(i) <=> ptr[t] = i /\ pc[t] \in Setup
      /\ \A i \in Inode : InTransit(i) <=> ptr[t] = i /\ pc[t] \in {"pushed", "unlink"}
  BY <1>2, Alone, Zenon
<1>5. /\ \A i \in Inode : Busy(i)' <=> ptr'[t] = i /\ pc'[t] \in Setup
      /\ \A i \in Inode : InTransit(i)' <=> ptr'[t] = i /\ pc'[t] \in {"pushed", "unlink"}
  BY <1>2, AloneAfter, Zenon
<1>6. NULL \notin Inode
  BY InodeTableAssumption, SMTT(30)
<1>7. \A i \in Inode : Openers(i)' \ {t} = Openers(i) \ {t}
  BY <1>2, SMTT(30) DEF OthersStay, Openers
<1>8. \A u \in Thread \ {t} : /\ pc'[u] = pc[u] /\ ptr'[u] = ptr[u] /\ want'[u] = want[u]
                              /\ pc'[u] \in {"closed", "open"}
  BY <1>2, <1>4, Zenon DEF OthersStay
<1>10. CASE Search(t)
  <2>1. /\ UNCHANGED <<want, open_list, allocated, inode>> /\ pc[t] = "closed"
        /\ \/ /\ pc'[t] = "found" /\ ptr'[t] \in open_list /\ inode[ptr'[t]].sector = want[t]
           \/ /\ pc'[t] = "alloc" /\ ptr'[t] = ptr[t]
              /\ \A i \in open_list : inode[i].sector # want[t]
        /\ ptr' \in [Thread -> Inode \cup {NULL}]
    BY <1>10, <1>3, SMTT(30) DEF Search, TableTypeOK
  <2>2. TableTypeOK'
    BY <1>2, <1>3, <2>1, SMTT(30) DEF TableTypeOK
  <2>3. PtrOnList'
    BY <1>3, <1>8, <2>1, Zenon DEF PtrOnList
  <2>4. CountsMatch'
    <3>1. \A i \in Inode : Openers(i)' = Openers(i)
      BY <1>8, <2>1, Zenon DEF Openers
    <3>2. \A i \in Inode : ~Busy(i) /\ ~Busy(i)'
      BY <1>4, <1>5, <2>1, SMTT(30) DEF Setup
    <3>3. QED
      BY <1>3, <2>1, <3>1, <3>2, SMTT(30) DEF CountsMatch, TableTypeOK
  <2>5. SectorAsked'
    BY <1>3, <1>8, <2>1, SMTT(30) DEF SectorAsked
  <2>6. NoOtherForSector'
    BY <1>3, <1>8, <2>1, SMTT(30) DEF NoOtherForSector
  <2>7. OneInodePerSector'
    <3>1. \A i \in Inode : ~InTransit(i) /\ ~InTransit(i)'
      BY <1>4, <1>5, <2>1, SMTT(30)
    <3>2. QED
      BY <1>3, <2>1, <3>1, SMTT(30) DEF OneInodePerSector, TableTypeOK
  <2>8. QED
    BY <1>2, <2>2, <2>3, <2>4, <2>5, <2>6, <2>7, SMTT(30) DEF TableInv
<1>11. CASE inode_reopen(t)
  <2> DEFINE p == ptr[t]
  <2>1. /\ UNCHANGED <<want, ptr, open_list, allocated>> /\ pc[t] = "found" /\ pc'[t] = "open"
        /\ inode' = [inode EXCEPT ![p].open_cnt = @ + 1] /\ p \in open_list /\ p \in Inode
    BY <1>11, <1>3, Zenon DEF inode_reopen, TableTypeOK, PtrOnList
  <2>2. /\ inode'[p].open_cnt = inode[p].open_cnt + 1 /\ inode'[p].sector = inode[p].sector
        /\ inode'[p].read = inode[p].read /\ \A i \in Inode \ {p} : inode'[i] = inode[i]
        /\ inode' \in [Inode -> [sector : InodeSector \cup {NULL}, open_cnt : Int, read : BOOLEAN]]
    BY <1>3, <2>1 DEF TableTypeOK
  <2>3. TableTypeOK'
    BY <1>2, <1>3, <2>1, <2>2, Zenon DEF TableTypeOK
  <2>4. PtrOnList'
    BY <1>3, <1>8, <2>1, Zenon DEF PtrOnList
  <2>5. CountsMatch'
    <3>1. \A i \in Inode : ~Busy(i) /\ ~Busy(i)'
      BY <1>4, <1>5, <2>1, Zenon DEF Setup
    <3>2. \A i \in Inode \ {p} : Openers(i)' = Openers(i)
      BY <1>8, <2>1, Zenon DEF Openers
    <3>3. t \notin Openers(p) /\ Openers(p)' = Openers(p) \cup {t}
      BY <1>8, <2>1, SMTT(30) DEF Openers
    <3>4. Cardinality(Openers(p)') = Cardinality(Openers(p)) + 1
      BY <3>3, OpenersFinite, Zenon DEF Counting
    <3>5. QED
      BY <1>3, <2>1, <2>2, <3>1, <3>2, <3>4, SMTT(30) DEF CountsMatch, TableTypeOK
  <2>6. SectorAsked'
    <3>1. \A i \in Inode : inode'[i].sector = inode[i].sector
      BY <2>2, Zenon
    <3>2. ASSUME NEW u \in Thread, pc'[u] \in {"found", "reading", "open"}
          PROVE inode'[ptr'[u]].sector = want'[u]
      <4>1. ptr[u] \in Inode /\ inode[ptr[u]].sector = want[u] /\ ptr'[u] = ptr[u] /\ want'[u] = want[u]
        BY <1>3, <1>8, <2>1, <3>2, Zenon DEF SectorAsked, PtrOnList, TableTypeOK
      <4>2. QED
        BY <3>1, <4>1, Zenon
    <3>3. \A u \in Thread : pc'[u] # "reading"
      BY <1>8, <2>1, Zenon
    <3>4. QED
      BY <3>2, <3>3, SMTT(30) DEF SectorAsked
  <2>7. NoOtherForSector'
    BY <1>8, <2>1, Zenon DEF NoOtherForSector
  <2>8. OneInodePerSector'
    <3>1. \A i \in Inode : ~InTransit(i) /\ ~InTransit(i)' /\ inode'[i].sector = inode[i].sector
      BY <1>4, <1>5, <2>1, <2>2, Zenon
    <3>2. QED
      BY <1>3, <2>1, <3>1 DEF OneInodePerSector, TableTypeOK
  <2>9. QED
    BY <1>2, <2>3, <2>4, <2>5, <2>6, <2>7, <2>8, Zenon DEF TableInv
<1>12. CASE Push(t)
  <2>0. pc[t] = "alloc" /\ ptr[t] = NULL /\ UNCHANGED <<want, inode>>
    BY <1>12, <1>3, Zenon DEF Push, PtrOnList
  <2>1. CASE pc'[t] = "closed"
    <3>1. UNCHANGED <<allocated, open_list, ptr>>
      BY <1>12, <2>0, <2>1, <1>3, SMTT(30) DEF Push, TableTypeOK
    <3>2. \A i \in Inode : ~Busy(i) /\ ~Busy(i)' /\ ~InTransit(i) /\ ~InTransit(i)' /\ Openers(i)' = Openers(i)
      BY <1>4, <1>5, <1>8, <2>0, <2>1, <3>1, SMTT(30) DEF Setup, Openers
    <3>3. TableTypeOK' /\ PtrOnList' /\ SectorAsked' /\ NoOtherForSector'
      BY <1>2, <1>3, <1>8, <2>0, <2>1, <3>1, SMTT(30) DEF TableTypeOK, PtrOnList, SectorAsked, NoOtherForSector
    <3>4. CountsMatch' /\ OneInodePerSector'
      BY <1>3, <2>0, <3>1, <3>2 DEF CountsMatch, OneInodePerSector, TableTypeOK
    <3>5. QED
      BY <1>2, <3>3, <3>4, SMTT(30) DEF TableInv
  <2>2. CASE pc'[t] # "closed"
    <3>1. PICK i \in Inode \ open_list :
            /\ allocated' = allocated \cup {i} /\ open_list' = open_list \cup {i}
            /\ ptr' = [ptr EXCEPT ![t] = i] /\ pc'[t] = "pushed"
      BY <1>12, <2>2, <1>3, SMTT(30) DEF Push, TableTypeOK
    <3>2. ptr'[t] = i /\ ptr' \in [Thread -> Inode \cup {NULL}]
      BY <1>3, <3>1, Zenon DEF TableTypeOK
    <3>3. TableTypeOK'
      BY <1>2, <1>3, <2>0, <3>1, <3>2, SMTT(30) DEF TableTypeOK
    <3>4. PtrOnList'
      BY <1>3, <1>8, <3>1, <3>2, SMTT(30) DEF PtrOnList
    <3>5. CountsMatch'
      <4>1. \A j \in open_list : ~Busy(j) /\ ~Busy(j)' /\ Openers(j)' = Openers(j)
        BY <1>3, <1>4, <1>5, <1>8, <2>0, <3>1, <3>2, SMTT(30) DEF Setup, Openers, TableTypeOK
      <4>2. Busy(i)'
        BY <1>5, <3>1, <3>2, Zenon DEF Setup
      <4>3. Openers(i)' = {}
        BY <1>3, <1>8, <3>1, <3>2, SMTT(30) DEF Openers, PtrOnList
      <4>4. QED
        BY <1>3, <2>0, <3>1, <4>1, <4>2, <4>3, Zenon DEF CountsMatch
    <3>6. SectorAsked'
      BY <1>3, <1>8, <2>0, <3>1, SMTT(30) DEF SectorAsked
    <3>7. NoOtherForSector'
      BY <1>3, <1>6, <1>8, <2>0, <3>1, <3>2, SMTT(30) DEF NoOtherForSector, TableTypeOK
    <3>8. OneInodePerSector'
      BY <1>3, <1>4, <1>5, <2>0, <3>1, <3>2 DEF OneInodePerSector, TableTypeOK
    <3>9. QED
      BY <1>2, <3>3, <3>4, <3>5, <3>6, <3>7, <3>8, SMTT(30) DEF TableInv
  <2>3. QED
    BY <2>1, <2>2, Zenon
<1>13. CASE Initialize(t)
  <2> DEFINE p == ptr[t]
  <2>1. /\ UNCHANGED <<want, ptr, open_list, allocated>> /\ pc[t] = "pushed" /\ pc'[t] = "reading"
        /\ inode' = [inode EXCEPT ![p] = [sector |-> want[t], open_cnt |-> 1, read |-> FALSE]]
        /\ p \in open_list /\ p \in Inode
    BY <1>13, <1>3, SMTT(30) DEF Initialize, TableTypeOK, PtrOnList
  <2>2. /\ inode'[p].open_cnt = 1 /\ inode'[p].sector = want[t]
        /\ \A i \in Inode \ {p} : inode'[i] = inode[i]
        /\ inode' \in [Inode -> [sector : InodeSector \cup {NULL}, open_cnt : Int, read : BOOLEAN]]
    BY <1>3, <2>1, SMTT(30) DEF TableTypeOK
  <2>3. TableTypeOK' /\ PtrOnList' /\ NoOtherForSector'
    BY <1>2, <1>3, <1>8, <2>1, <2>2, SMTT(30) DEF TableTypeOK, PtrOnList, NoOtherForSector
  <2>4. \A i \in Inode : Openers(i)' = Openers(i) /\ (Busy(i) <=> i = p) /\ (Busy(i)' <=> i = p)
    BY <1>4, <1>5, <1>8, <2>1, Zenon DEF Openers, Setup
  <2>5. CountsMatch'
    BY <1>3, <2>1, <2>2, <2>4, SMTT(30) DEF CountsMatch, TableTypeOK
  <2>6. SectorAsked'
    <3>1. \A u \in Thread \ {t} : pc[u] = "open" => ptr[u] \in Inode \ {p}
      <4>1. Openers(p) = {}
        BY <1>3, <2>1, <2>4, Zenon DEF CountsMatch
      <4>2. QED
        BY <1>3, <4>1, SMTT(30) DEF Openers, PtrOnList, TableTypeOK
    <3>2. inode'[p].open_cnt = 1 /\ inode'[p].sector = want'[t] /\ ptr'[t] = p
      BY <2>1, <2>2, Zenon
    <3>3. ASSUME NEW u \in Thread \ {t}
          PROVE  /\ pc'[u] \in {"found", "reading", "open"} => inode'[ptr'[u]].sector = want'[u]
                 /\ pc'[u] # "reading"
      <4>1. pc'[u] = pc[u] /\ ptr'[u] = ptr[u] /\ want'[u] = want[u] /\ pc'[u] \in {"closed", "open"}
        BY <1>8
      <4>2. CASE pc[u] = "open"
        <5>1. inode'[ptr[u]] = inode[ptr[u]]
          BY <2>2, <3>1, <4>2, Zenon
        <5>2. inode[ptr[u]].sector = want[u]
          BY <1>3, <4>2, Zenon DEF SectorAsked
        <5>3. QED
          BY <4>1, <4>2, <5>1, <5>2
      <4>3. QED
        BY <4>1, <4>2
    <3>4. QED
      BY <3>2, <3>3, Zenon DEF SectorAsked
  <2>7. OneInodePerSector'
    <3>1. \A i \in open_list : i # p => inode[i].sector # want[t]
      BY <1>3, <2>1, Zenon DEF NoOtherForSector
    <3>2. \A i \in Inode : (InTransit(i) <=> i = p) /\ ~InTransit(i)'
      BY <1>4, <1>5, <2>1, Zenon
    <3>3. QED
      BY <1>3, <2>1, <2>2, <3>1, <3>2, SMTT(30) DEF OneInodePerSector, TableTypeOK
  <2>8. QED
    BY <1>2, <2>3, <2>5, <2>6, <2>7, SMTT(30) DEF TableInv
<1>14. CASE Read(t)
  <2> DEFINE p == ptr[t]
  <2>1. /\ UNCHANGED <<want, ptr, open_list, allocated>> /\ pc[t] = "reading" /\ pc'[t] = "open"
        /\ inode' = [inode EXCEPT ![p].read = TRUE] /\ p \in open_list /\ p \in Inode
    BY <1>14, <1>3, Zenon DEF Read, TableTypeOK, PtrOnList
  <2>2. /\ inode'[p].open_cnt = inode[p].open_cnt /\ inode'[p].sector = inode[p].sector /\ inode'[p].read
        /\ \A i \in Inode \ {p} : inode'[i] = inode[i]
        /\ inode' \in [Inode -> [sector : InodeSector \cup {NULL}, open_cnt : Int, read : BOOLEAN]]
    BY <1>3, <2>1, Zenon DEF TableTypeOK
  <2>3. TableTypeOK' /\ PtrOnList' /\ NoOtherForSector'
    BY <1>2, <1>3, <1>8, <2>1, <2>2, Zenon DEF TableTypeOK, PtrOnList, NoOtherForSector
  <2>4. \A i \in Inode : (Busy(i) <=> i = p) /\ ~Busy(i)' /\ ~InTransit(i) /\ ~InTransit(i)'
    BY <1>4, <1>5, <2>1, Zenon DEF Setup
  <2>5. CountsMatch'
    <3>1. Openers(p) = {} /\ \A i \in Inode \ {p} : Openers(i)' = Openers(i)
      BY <1>3, <1>8, <2>1, <2>4, ZenonT(40) DEF CountsMatch, Openers
    <3>2. Openers(p)' = {t}
      BY <3>1, <1>8, <2>1, Zenon DEF Openers
    <3>3. Cardinality(Openers(p)') = 1 /\ inode[p].open_cnt = 1
      BY <3>2, <1>3, <2>1, Zenon DEF SectorAsked, Counting
    <3>4. QED
      BY <1>3, <2>1, <2>2, <2>4, <3>1, <3>3, SMTT(30) DEF CountsMatch, TableTypeOK
  <2>6. SectorAsked'
    <3>1. \A i \in Inode : inode'[i].sector = inode[i].sector
      BY <2>2, Zenon
    <3>2. ASSUME NEW u \in Thread, pc'[u] \in {"found", "reading", "open"}
          PROVE inode'[ptr'[u]].sector = want'[u]
      <4>1. ptr[u] \in Inode /\ inode[ptr[u]].sector = want[u] /\ ptr'[u] = ptr[u] /\ want'[u] = want[u]
        BY <1>3, <1>8, <2>1, <3>2, Zenon DEF SectorAsked, PtrOnList, TableTypeOK
      <4>2. QED
        BY <3>1, <4>1, Zenon
    <3>3. \A u \in Thread : pc'[u] # "reading"
      BY <1>8, <2>1, Zenon
    <3>4. QED
      BY <3>2, <3>3, Zenon DEF SectorAsked
  <2>7. OneInodePerSector'
    BY <1>3, <2>1, <2>2, <2>4, SMTT(30) DEF OneInodePerSector, TableTypeOK
  <2>8. QED
    BY <1>2, <2>3, <2>5, <2>6, <2>7, Zenon DEF TableInv
<1>15. CASE Close(t)
  <2>0. PICK p \in Inode : p = ptr[t] /\ p \in open_list
    BY <1>15, <1>3, Zenon DEF Close, TableTypeOK, PtrOnList
  <2>1. /\ UNCHANGED <<open_list, allocated>> /\ pc[t] = "open"
        /\ inode' = [inode EXCEPT ![p].open_cnt = @ - 1] /\ p \in open_list /\ p \in Inode
        /\ \/ inode[p].open_cnt = 1 /\ pc'[t] = "unlink" /\ ptr'[t] = p /\ want' = want
           \/ inode[p].open_cnt # 1 /\ pc'[t] = "closed" /\ ptr'[t] = NULL
        /\ ptr' \in [Thread -> Inode \cup {NULL}]
    BY <1>15, <1>3, <2>0, Zenon DEF Close, TableTypeOK
  <2>2. /\ inode'[p].open_cnt = inode[p].open_cnt - 1 /\ inode'[p].sector = inode[p].sector
        /\ inode'[p].read = inode[p].read /\ \A i \in Inode \ {p} : inode'[i] = inode[i]
        /\ inode' \in [Inode -> [sector : InodeSector \cup {NULL}, open_cnt : Int, read : BOOLEAN]]
    BY <1>3, <2>1 DEF TableTypeOK
  <2>3. TableTypeOK' /\ PtrOnList' /\ NoOtherForSector'
    BY <1>2, <1>3, <1>8, <2>1, <2>2, SMTT(30) DEF TableTypeOK, PtrOnList, NoOtherForSector
  <2>4. CountsMatch'
    <3>1. \A i \in Inode : ~Busy(i) /\ (i # p => ~Busy(i)' /\ Openers(i)' = Openers(i))
      BY <1>4, <1>5, <1>6, <1>8, <2>0, <2>1, SMTT(30) DEF Setup, Openers
    <3>2. t \in Openers(p) /\ Openers(p)' = Openers(p) \ {t}
      BY <1>8, <2>0, <2>1, Zenon DEF Openers
    <3>3. Cardinality(Openers(p)') = Cardinality(Openers(p)) - 1
      BY <3>2, OpenersFinite, Zenon DEF Counting
    <3>4. inode[p].open_cnt = Cardinality(Openers(p)) /\ inode[p].read
      BY <1>3, <2>1, <3>1, Zenon DEF CountsMatch
    <3>5. pc'[t] = "unlink" => Openers(p)' = {}
      <4>1. pc'[t] = "unlink" => Cardinality(Openers(p)') = 0
        BY <2>1, <3>3, <3>4
      <4> QED
        BY <4>1, OpenersFinite, Zenon DEF Counting
    <3>6. pc'[t] = "closed" => ~Busy(p)'
      BY <1>5, <1>6, <2>1, Zenon DEF Setup
    <3>7. pc'[t] = "unlink" => Busy(p)'
      BY <1>5, <2>1, Zenon DEF Setup
    <3>8. QED
      BY <1>3, <2>1, <2>2, <3>1, <3>3, <3>4, <3>5, <3>6, <3>7, SMTT(30) DEF CountsMatch, TableTypeOK
  <2>5. SectorAsked'
    <3>1. \A i \in Inode : inode'[i].sector = inode[i].sector
      BY <2>2, SMTT(30)
    <3>2. ASSUME NEW u \in Thread, pc'[u] \in {"found", "reading", "open"}
          PROVE inode'[ptr'[u]].sector = want'[u]
      <4>1. ptr[u] \in Inode /\ inode[ptr[u]].sector = want[u] /\ ptr'[u] = ptr[u] /\ want'[u] = want[u]
        BY <1>3, <1>8, <2>1, <3>2, Zenon DEF SectorAsked, PtrOnList, TableTypeOK
      <4>2. QED
        BY <3>1, <4>1, Zenon
    <3>3. \A u \in Thread : pc'[u] # "reading"
      BY <1>8, <2>1, Zenon
    <3>4. QED
      BY <3>2, <3>3, Zenon DEF SectorAsked
  <2>6. OneInodePerSector'
    <3>1. \A i \in Inode : ~InTransit(i) /\ inode'[i].sector = inode[i].sector
      BY <1>4, <2>1, <2>2, Zenon
    <3>2. QED
      BY <1>3, <2>1, <3>1 DEF OneInodePerSector, TableTypeOK
  <2>7. QED
    BY <1>2, <2>3, <2>4, <2>5, <2>6, Zenon DEF TableInv
<1>16. CASE Unlink(t)
  <2> DEFINE p == ptr[t]
  <2>1. /\ open_list' = open_list \ {p} /\ allocated' = allocated \ {p} /\ inode' = inode
        /\ pc[t] = "unlink" /\ pc'[t] = "closed" /\ ptr'[t] = NULL /\ p \in open_list /\ p \in Inode
        /\ ptr' \in [Thread -> Inode \cup {NULL}]
    BY <1>16, <1>3, SMTT(30) DEF Unlink, TableTypeOK, PtrOnList
  <2>2. \A i \in Inode : (Busy(i) <=> i = p) /\ ~Busy(i)' /\ (InTransit(i) <=> i = p) /\ ~InTransit(i)'
    BY <1>4, <1>5, <2>1, ZenonT(40) DEF Setup
  <2>3. Openers(p) = {} /\ \A i \in Inode : Openers(i)' = Openers(i)
    BY <1>3, <1>8, <2>1, <2>2, ZenonT(40) DEF CountsMatch, Openers
  <2>4. TableTypeOK'
    BY <1>2, <1>3, <2>1, SMTT(30) DEF TableTypeOK
  <2>5. PtrOnList'
    BY <1>3, <1>8, <2>1, <2>3, SMTT(30) DEF PtrOnList, Openers
  <2>6. CountsMatch' /\ OneInodePerSector'
    BY <1>3, <2>1, <2>2, <2>3, SMTT(30) DEF CountsMatch, OneInodePerSector, TableTypeOK
  <2>7. SectorAsked' /\ NoOtherForSector'
    BY <1>3, <1>8, <2>1, Zenon DEF SectorAsked, NoOtherForSector
  <2>8. QED
    BY <1>2, <2>4, <2>5, <2>6, <2>7, SMTT(30) DEF TableInv
<1>17. QED
  BY <1>10, <1>11, <1>12, <1>13, <1>14, <1>15, <1>16, Zenon

-----------------------------------------------------------------------------
(***************************************************************************)
(* More about sequences, for the console's queues.                         *)
(***************************************************************************)
\* Sequences with the same elements are equal.
LEMMA SameElements ==
  ASSUME NEW S, NEW s \in Seq(S), NEW t \in Seq(S), Len(s) = Len(t), \A i \in 1 .. Len(s) : s[i] = t[i]
  PROVE  s = t
OBVIOUS

\* A stretch of a sequence.
LEMMA Stretch ==
  ASSUME NEW S, NEW s \in Seq(S), NEW m \in Nat \ {0}, NEW n \in Nat, n <= Len(s)
  PROVE  /\ SubSeq(s, m, n) \in Seq(S)
         /\ Len(SubSeq(s, m, n)) = IF m <= n THEN n - m + 1 ELSE 0
         /\ \A i \in 1 .. n - m + 1 : SubSeq(s, m, n)[i] = s[m + i - 1]
<1>1. SubSeq(s, m, n) \in Seq(S)
  OBVIOUS
<1>2. Len(SubSeq(s, m, n)) = IF m <= n THEN n - m + 1 ELSE 0
  OBVIOUS
<1>3. \A i \in 1 .. n - m + 1 : SubSeq(s, m, n)[i] = s[m + i - 1]
  OBVIOUS
<1> QED
  BY <1>1, <1>2, <1>3, Zenon

\* The head of a sequence and what follows it.
LEMMA AfterHead ==
  ASSUME NEW S, NEW s \in Seq(S), s # <<>>
  PROVE  /\ Len(s) \in Nat \ {0} /\ Head(s) = s[1] /\ Head(s) \in S
         /\ Tail(s) \in Seq(S) /\ Len(Tail(s)) = Len(s) - 1
         /\ \A i \in 1 .. Len(Tail(s)) : Tail(s)[i] = s[i + 1]
<1>1. Len(s) \in Nat \ {0} /\ Head(s) = s[1]
  OBVIOUS
<1>2. Head(s) \in S
  BY <1>1
<1>3. Tail(s) \in Seq(S)
  OBVIOUS
<1>4. Len(Tail(s)) = Len(s) - 1
  OBVIOUS
<1>5. \A i \in 1 .. Len(Tail(s)) : Tail(s)[i] = s[i + 1]
  OBVIOUS
<1> QED
  BY <1>1, <1>2, <1>3, <1>4, <1>5, Zenon

\* Joining is associative.
LEMMA Regrouped ==
  ASSUME NEW S, NEW s \in Seq(S), NEW t \in Seq(S), NEW u \in Seq(S)
  PROVE  (s \o t) \o u = s \o (t \o u)
<1> DEFINE a == s \o t
           b == t \o u
<1>1. /\ a \in Seq(S) /\ Len(a) = Len(s) + Len(t)
      /\ \A i \in 1 .. Len(s) + Len(t) : a[i] = IF i <= Len(s) THEN s[i] ELSE t[i - Len(s)]
  BY Joined, Zenon
<1>2. /\ b \in Seq(S) /\ Len(b) = Len(t) + Len(u)
      /\ \A i \in 1 .. Len(t) + Len(u) : b[i] = IF i <= Len(t) THEN t[i] ELSE u[i - Len(t)]
  BY Joined, Zenon
<1> HIDE DEF a, b
<1>t. a \in Seq(S) /\ b \in Seq(S)
  BY <1>1, <1>2, Zenon
<1>3. /\ a \o u \in Seq(S) /\ Len(a \o u) = Len(a) + Len(u)
      /\ \A i \in 1 .. Len(a) + Len(u) : (a \o u)[i] = IF i <= Len(a) THEN a[i] ELSE u[i - Len(a)]
  BY <1>t, Joined, Zenon
<1>4. /\ s \o b \in Seq(S) /\ Len(s \o b) = Len(s) + Len(b)
      /\ \A i \in 1 .. Len(s) + Len(b) : (s \o b)[i] = IF i <= Len(s) THEN s[i] ELSE b[i - Len(s)]
  BY <1>t, Joined, Zenon
<1>l. Len(s) \in Nat /\ Len(t) \in Nat /\ Len(u) \in Nat
  BY SMTT(30)
<1>5. Len(a \o u) = Len(s) + Len(t) + Len(u) /\ Len(s \o b) = Len(s) + Len(t) + Len(u)
  BY <1>1, <1>2, <1>3, <1>4, <1>l
<1>6. ASSUME NEW i \in 1 .. Len(s) + Len(t) + Len(u)  PROVE (a \o u)[i] = (s \o b)[i]
  <2>1. (a \o u)[i] = IF i <= Len(s) + Len(t) THEN a[i] ELSE u[i - (Len(s) + Len(t))]
    BY <1>1, <1>3, <1>l, Zenon
  <2>2. (s \o b)[i] = IF i <= Len(s) THEN s[i] ELSE b[i - Len(s)]
    BY <1>2, <1>4, <1>l
  <2>3. CASE i <= Len(s)
    <3>1. i <= Len(s) + Len(t) /\ i \in 1 .. Len(s) + Len(t)
      BY <2>3, <1>l
    <3> QED
      BY <2>1, <2>2, <2>3, <3>1, <1>1, Zenon
  <2>4. CASE ~(i <= Len(s)) /\ i <= Len(s) + Len(t)
    <3>1. i \in 1 .. Len(s) + Len(t) /\ i - Len(s) \in 1 .. Len(t) + Len(u) /\ i - Len(s) <= Len(t)
      BY <2>4, <1>l
    <3> QED
      BY <2>1, <2>2, <2>4, <3>1, <1>1, <1>2, Zenon
  <2>5. CASE ~(i <= Len(s)) /\ ~(i <= Len(s) + Len(t))
    <3>1. /\ i - Len(s) \in 1 .. Len(t) + Len(u) /\ ~(i - Len(s) <= Len(t))
          /\ (i - Len(s)) - Len(t) = i - (Len(s) + Len(t))
      BY <2>5, <1>l
    <3> QED
      BY <2>1, <2>2, <2>5, <3>1, <1>2, Zenon
  <2> QED
    BY <2>3, <2>4, <2>5, <1>l, Zenon
<1> QED
  BY <1>3, <1>4, <1>5, <1>6, SameElements, Zenon DEF a, b

\* The empty sequence adds nothing.
LEMMA NothingAdded ==
  ASSUME NEW S, NEW s \in Seq(S)
  PROVE  s \o <<>> = s
OBVIOUS

-----------------------------------------------------------------------------
(***************************************************************************)
(* serial.c, console.c, input.c.  The invariant ties the console lock to   *)
(* the writer inside it, and the last thread character printed to how far  *)
(* that writer has come: bytes only join the output at its end and leave   *)
(* it at its front.                                                        *)
(***************************************************************************)
Char == (Writer \cup {NULL}) \X Nat

SerialTypeOK ==
  /\ at \in [Writer -> 0 .. LineLen \cup {NULL}]
  /\ txq \in Seq(Char) /\ wire \in Seq(Char)
  /\ Len(txq) <= QueueMax
  /\ buffer \in 0 .. QueueMax

\* The console lock is held by the writer inside printf.
HolderInside == \A w \in Writer : at[w] # NULL <=> console = w

\* The thread asleep on the transmit queue is inside printf, and the queue is
\* full.
WaiterInside ==
  not_full # NULL => not_full \in Writer /\ Len(txq) = QueueMax /\ at[not_full] # NULL

\* LinesDoNotMix of any output.
InOrder(out) ==
  \A i, j \in 1 .. Len(out) :
    /\ i < j /\ out[i][1] # NULL /\ out[j][1] # NULL
    /\ \A x \in 1 .. Len(out) : i < x /\ x < j => out[x][1] = NULL
    => Follows(out[i], out[j])

\* The i-th is the last character of a thread.
IsLast(out, i) ==
  /\ i \in 1 .. Len(out) /\ out[i][1] # NULL
  /\ \A x \in 1 .. Len(out) : i < x => out[x][1] = NULL

\* The last character of a thread is the one the writer inside printed, or
\* the end of a line.
LastPrinted(out, got) ==
  \A i \in 1 .. Len(out) : IsLast(out, i) =>
    /\ \A w \in Writer : got[w] \in 1 .. LineLen => out[i] = <<w, got[w] - 1>>
    /\ (\A w \in Writer : got[w] \in {NULL, 0}) => out[i][2] = LineLen - 1

SerialInv ==
  /\ SerialTypeOK /\ HolderInside /\ WaiterInside /\ InterruptsEnabled
  /\ InOrder(wire \o txq) /\ LastPrinted(wire \o txq, at)

\* r is s without some bytes at its front; r is s with c at its end.
SuffixOf(r, s) ==
  \E d \in Nat : Len(s) = Len(r) + d /\ \A i \in 1 .. Len(r) : r[i] = s[i + d]
Extended(r, s, c) ==
  Len(r) = Len(s) + 1 /\ r[Len(s) + 1] = c /\ \A i \in 1 .. Len(s) : r[i] = s[i]

\* Bytes that leave the front of the output change nothing in the order.
LEMMA SuffixKeeps ==
  ASSUME NEW s \in Seq(Char), NEW r \in Seq(Char), NEW got,
         SuffixOf(r, s), InOrder(s), LastPrinted(s, got)
  PROVE  InOrder(r) /\ LastPrinted(r, got)
PROOF
<1>1. PICK d \in Nat : Len(s) = Len(r) + d /\ \A i \in 1 .. Len(r) : r[i] = s[i + d]
  BY Zenon DEF SuffixOf
<1>l. Len(s) \in Nat /\ Len(r) \in Nat
  OBVIOUS
<1>2. ASSUME NEW i \in 1 .. Len(r), NEW j \in 1 .. Len(r), i < j, r[i][1] # NULL, r[j][1] # NULL,
             \A x \in 1 .. Len(r) : i < x /\ x < j => r[x][1] = NULL
      PROVE  Follows(r[i], r[j])
  <2>1. i + d \in 1 .. Len(s) /\ j + d \in 1 .. Len(s) /\ i + d < j + d
    BY <1>1, <1>l, <1>2
  <2>2. ASSUME NEW x \in 1 .. Len(s), i + d < x, x < j + d  PROVE s[x][1] = NULL
    <3>1. x - d \in 1 .. Len(r) /\ i < x - d /\ x - d < j /\ (x - d) + d = x
      BY <1>1, <1>l, <2>2
    <3>2. r[x - d][1] = NULL
      BY <3>1, <1>2, Zenon
    <3>3. r[x - d] = s[(x - d) + d]
      BY <3>1, <1>1, Zenon
    <3> QED
      BY <3>1, <3>2, <3>3, Zenon
  <2>3. r[i] = s[i + d] /\ r[j] = s[j + d]
    BY <1>1, Zenon
  <2> QED
    BY <2>1, <2>2, <2>3, <1>2, Zenon DEF InOrder
<1>3. ASSUME NEW i \in 1 .. Len(r), IsLast(r, i)  PROVE i + d \in 1 .. Len(s) /\ IsLast(s, i + d)
  <2>1. i + d \in 1 .. Len(s)
    BY <1>1, <1>l
  <2>2. ASSUME NEW x \in 1 .. Len(s), i + d < x  PROVE s[x][1] = NULL
    <3>1. x - d \in 1 .. Len(r) /\ i < x - d /\ (x - d) + d = x
      BY <1>1, <1>l, <2>2
    <3>2. r[x - d][1] = NULL
      BY <3>1, <1>3, Zenon DEF IsLast
    <3>3. r[x - d] = s[(x - d) + d]
      BY <3>1, <1>1, Zenon
    <3> QED
      BY <3>1, <3>2, <3>3, Zenon
  <2>3. r[i] = s[i + d]
    BY <1>1, Zenon
  <2> QED
    BY <2>1, <2>2, <2>3, <1>3, Zenon DEF IsLast
<1>4. \A i \in 1 .. Len(r) : r[i] = s[i + d]
  BY <1>1, Zenon
<1>5. InOrder(r)
  BY <1>2, Zenon DEF InOrder
<1>6. LastPrinted(r, got)
  BY <1>3, <1>4, Zenon DEF LastPrinted
<1> QED
  BY <1>5, <1>6, Zenon

\* A character of an interrupt handler at the end changes nothing either.
LEMMA HandlerCharKeeps ==
  ASSUME NEW s \in Seq(Char), NEW r \in Seq(Char), NEW got,
         Extended(r, s, <<NULL, 0>>), InOrder(s), LastPrinted(s, got)
  PROVE  InOrder(r) /\ LastPrinted(r, got)
PROOF
<1>l. Len(s) \in Nat /\ Len(r) \in Nat /\ Len(r) = Len(s) + 1
  BY DEF Extended
<1>1. r[Len(r)][1] = NULL
  BY <1>l DEF Extended
<1>2. \A i \in 1 .. Len(r) : r[i][1] # NULL => i \in 1 .. Len(s) /\ r[i] = s[i]
  <2> TAKE i \in 1 .. Len(r)
  <2> HAVE r[i][1] # NULL
  <2>1. i # Len(r)
    BY <1>1, Zenon
  <2>2. i \in 1 .. Len(s)
    BY <1>l, <2>1
  <2> QED
    BY <2>2, Zenon DEF Extended
<1>3. \A x \in 1 .. Len(s) : x \in 1 .. Len(r) /\ r[x] = s[x]
  BY <1>l DEF Extended
<1>4. InOrder(r)
  BY <1>2, <1>3, Zenon DEF InOrder
<1>5. \A i \in 1 .. Len(r) : IsLast(r, i) => IsLast(s, i) /\ i \in 1 .. Len(s) /\ r[i] = s[i]
  BY <1>2, <1>3, Zenon DEF IsLast
<1>6. LastPrinted(r, got)
  BY <1>5 DEF LastPrinted
<1> QED
  BY <1>4, <1>6, Zenon

\* The next character of the writer inside printf follows the last one.
LEMMA ThreadCharKeeps ==
  ASSUME NEW s \in Seq(Char), NEW r \in Seq(Char), NEW w \in Writer,
         NEW got \in [Writer -> 0 .. LineLen \cup {NULL}],
         NEW next \in [Writer -> 0 .. LineLen \cup {NULL}],
         got[w] \in 0 .. LineLen - 1, next[w] = got[w] + 1,
         \A v \in Writer : v # w => got[v] = NULL /\ next[v] = NULL,
         Extended(r, s, <<w, got[w]>>), InOrder(s), LastPrinted(s, got)
  PROVE  InOrder(r) /\ LastPrinted(r, next)
PROOF
<1>a. LineLen \in Nat /\ NULL \notin Writer /\ NULL \notin Nat /\ w # NULL
  BY SerialAssumption, Zenon
<1>l. Len(s) \in Nat /\ Len(r) \in Nat /\ Len(r) = Len(s) + 1
  BY DEF Extended
<1>1. r[Len(r)] = <<w, got[w]>>
  BY <1>l, Zenon DEF Extended
<1>2. \A x \in 1 .. Len(s) : x \in 1 .. Len(r) /\ r[x] = s[x]
  BY <1>l DEF Extended
<1>3. ASSUME NEW i \in 1 .. Len(s), IsLast(s, i)  PROVE Follows(s[i], <<w, got[w]>>)
  <2>1. CASE got[w] = 0
    <3>1. \A v \in Writer : got[v] \in {NULL, 0}
      BY <2>1, Zenon
    <3>2. s[i][2] = LineLen - 1
      BY <3>1, <1>3, Zenon DEF LastPrinted
    <3> QED
      BY <3>2, <2>1, Zenon DEF Follows
  <2>2. CASE got[w] \in 1 .. LineLen
    <3>1. s[i] = <<w, got[w] - 1>>
      BY <2>2, <1>3, Zenon DEF LastPrinted
    <3>2. got[w] = (got[w] - 1) + 1
      BY <2>2, <1>a
    <3> QED
      BY <3>1, <3>2 DEF Follows
  <2> QED
    BY <2>1, <2>2, <1>a
<1>4. ASSUME NEW i \in 1 .. Len(r), NEW j \in 1 .. Len(r), i < j, r[i][1] # NULL, r[j][1] # NULL,
             \A x \in 1 .. Len(r) : i < x /\ x < j => r[x][1] = NULL
      PROVE  Follows(r[i], r[j])
  <2>0. i \in 1 .. Len(s)
    BY <1>4, <1>l
  <2>1. CASE j = Len(r)
    <3>1. \A x \in 1 .. Len(s) : i < x => s[x][1] = NULL
      BY <1>4, <1>2, <1>l, <2>1
    <3>2. IsLast(s, i)
      BY <3>1, <2>0, <1>2, <1>4, Zenon DEF IsLast
    <3> QED
      BY <3>2, <2>0, <2>1, <1>1, <1>2, <1>3, Zenon
  <2>2. CASE j # Len(r)
    <3>1. j \in 1 .. Len(s)
      BY <2>2, <1>l
    <3>2. \A x \in 1 .. Len(s) : i < x /\ x < j => s[x][1] = NULL
      BY <1>4, <1>2, Zenon
    <3> QED
      BY <3>1, <3>2, <2>0, <1>2, <1>4, Zenon DEF InOrder
  <2> QED
    BY <2>1, <2>2, Zenon
<1>5. ASSUME NEW i \in 1 .. Len(r), IsLast(r, i)  PROVE r[i] = <<w, next[w] - 1>>
  <2>1. Len(r) \in 1 .. Len(r) /\ r[Len(r)][1] # NULL
    BY <1>l, <1>1, <1>a
  <2>2. ~(i < Len(r))
    BY <1>5, <2>1, Zenon DEF IsLast
  <2>3. i = Len(r)
    BY <2>2, <1>l
  <2>4. next[w] - 1 = got[w]
    BY <1>a
  <2> QED
    BY <2>3, <2>4, <1>1, Zenon
<1>6. InOrder(r)
  BY <1>4, Zenon DEF InOrder
<1>7. \A v \in Writer : next[v] \in 1 .. LineLen => v = w
  BY <1>a
<1>8. ~(\A v \in Writer : next[v] \in {NULL, 0})
  BY <1>a
<1>9. LastPrinted(r, next)
  BY <1>5, <1>7, <1>8, Zenon DEF LastPrinted
<1> QED
  BY <1>6, <1>9, Zenon

\* What serial_putc appends to the queue joins the end of the output.
LEMMA AppendExtends ==
  ASSUME NEW w \in Seq(Char), NEW q \in Seq(Char), NEW c \in Char
  PROVE  Append(q, c) \in Seq(Char) /\ Extended(w \o Append(q, c), w \o q, c)
PROOF
<1>1. Append(q, c) \in Seq(Char) /\ Len(Append(q, c)) = Len(q) + 1
  OBVIOUS
<1>2. \A i \in 1 .. Len(q) + 1 : Append(q, c)[i] = IF i = Len(q) + 1 THEN c ELSE q[i]
  OBVIOUS
<1>3. /\ Len(w \o q) = Len(w) + Len(q)
      /\ \A i \in 1 .. Len(w) + Len(q) : (w \o q)[i] = IF i <= Len(w) THEN w[i] ELSE q[i - Len(w)]
  BY Joined, Zenon
<1>4. /\ Len(w \o Append(q, c)) = Len(w) + (Len(q) + 1)
      /\ \A i \in 1 .. Len(w) + (Len(q) + 1) :
           (w \o Append(q, c))[i] = IF i <= Len(w) THEN w[i] ELSE Append(q, c)[i - Len(w)]
  <2> DEFINE a == Append(q, c)
  <2>1. a \in Seq(Char) /\ Len(a) = Len(q) + 1
    BY <1>1, Zenon
  <2> HIDE DEF a
  <2>2. /\ Len(w \o a) = Len(w) + Len(a)
        /\ \A i \in 1 .. Len(w) + Len(a) : (w \o a)[i] = IF i <= Len(w) THEN w[i] ELSE a[i - Len(w)]
    BY <2>1, Joined, Zenon
  <2> QED
    BY <2>1, <2>2, Zenon DEF a
<1>l. Len(w) \in Nat /\ Len(q) \in Nat
  OBVIOUS
<1>5. (w \o Append(q, c))[Len(w) + Len(q) + 1] = c
  <2>1. Len(w) + Len(q) + 1 \in 1 .. Len(w) + (Len(q) + 1) /\ ~(Len(w) + Len(q) + 1 <= Len(w))
        /\ (Len(w) + Len(q) + 1) - Len(w) = Len(q) + 1 /\ Len(q) + 1 \in 1 .. Len(q) + 1
    BY <1>l
  <2> QED
    BY <2>1, <1>2, <1>4, Zenon
<1>6. ASSUME NEW i \in 1 .. Len(w) + Len(q)  PROVE (w \o Append(q, c))[i] = (w \o q)[i]
  <2>1. i \in 1 .. Len(w) + (Len(q) + 1) /\ (~(i <= Len(w)) => i - Len(w) \in 1 .. Len(q))
    BY <1>l
  <2>2. ~(i <= Len(w)) => Append(q, c)[i - Len(w)] = q[i - Len(w)]
    BY <2>1, <1>2, <1>l
  <2> QED
    BY <2>1, <2>2, <1>3, <1>4, Zenon
<1>7. Len(w \o Append(q, c)) = Len(w \o q) + 1
  BY <1>3, <1>4, <1>l
<1>8. (w \o Append(q, c))[Len(w \o q) + 1] = c
  BY <1>3, <1>5, Zenon
<1>9. \A i \in 1 .. Len(w \o q) : (w \o Append(q, c))[i] = (w \o q)[i]
  BY <1>3, <1>6, Zenon
<1> QED
  BY <1>1, <1>7, <1>8, <1>9, Zenon DEF Extended

\* Send keeps the end of what was sent.
LEMMA SendSuffix ==
  ASSUME NEW w \in Seq(Char), NEW b \in Seq(Char)
  PROVE  Send(w, b) \in Seq(Char) /\ SuffixOf(Send(w, b), w \o b)
PROOF
<1> DEFINE all == w \o b
           d == IF Len(all) > LineLen THEN Len(all) - LineLen ELSE 0
<1>a. LineLen \in Nat
  BY SerialAssumption, Zenon
<1>1. all \in Seq(Char) /\ Len(all) \in Nat
  BY Joined
<1>2. d \in Nat /\ d <= Len(all)
  BY <1>1, <1>a
<1>3. Send(w, b) = SubSeq(all, d + 1, Len(all))
  BY <1>1, <1>a DEF Send
<1> HIDE DEF all, d
<1>4. d + 1 \in Nat \ {0} /\ Len(all) <= Len(all)
  BY <1>1, <1>2
<1>5. /\ Send(w, b) \in Seq(Char)
      /\ Len(Send(w, b)) = IF d + 1 <= Len(all) THEN Len(all) - (d + 1) + 1 ELSE 0
      /\ \A i \in 1 .. Len(all) - (d + 1) + 1 : Send(w, b)[i] = all[(d + 1) + i - 1]
  BY <1>1, <1>3, <1>4, Stretch, SMTT(30)
<1>6. Len(all) = Len(Send(w, b)) + d
  BY <1>1, <1>2, <1>5
<1>7. \A i \in 1 .. Len(Send(w, b)) : i \in 1 .. Len(all) - (d + 1) + 1 /\ (d + 1) + i - 1 = i + d
  BY <1>1, <1>2, <1>6
<1>8. SuffixOf(Send(w, b), all)
  BY <1>2, <1>5, <1>6, <1>7 DEF SuffixOf
<1> QED
  BY <1>5, <1>8, Zenon DEF all

\* A suffix stays one when the same bytes follow.
LEMMA SuffixExtends ==
  ASSUME NEW r \in Seq(Char), NEW s \in Seq(Char), NEW q \in Seq(Char), SuffixOf(r, s)
  PROVE  SuffixOf(r \o q, s \o q)
PROOF
<1>1. PICK d \in Nat : Len(s) = Len(r) + d /\ \A i \in 1 .. Len(r) : r[i] = s[i + d]
  BY Zenon DEF SuffixOf
<1>2. /\ Len(r \o q) = Len(r) + Len(q)
      /\ \A i \in 1 .. Len(r) + Len(q) : (r \o q)[i] = IF i <= Len(r) THEN r[i] ELSE q[i - Len(r)]
  BY Joined, Zenon
<1>3. /\ Len(s \o q) = Len(s) + Len(q)
      /\ \A i \in 1 .. Len(s) + Len(q) : (s \o q)[i] = IF i <= Len(s) THEN s[i] ELSE q[i - Len(s)]
  BY Joined, Zenon
<1>l. Len(r) \in Nat /\ Len(q) \in Nat /\ Len(s) \in Nat
  OBVIOUS
<1>4. ASSUME NEW i \in 1 .. Len(r) + Len(q)  PROVE (r \o q)[i] = (s \o q)[i + d]
  <2>1. i + d \in 1 .. Len(s) + Len(q) /\ (i + d <= Len(s) <=> i <= Len(r)) /\ (i + d) - Len(s) = i - Len(r)
    BY <1>1, <1>l
  <2>2. i <= Len(r) => r[i] = s[i + d]
    BY <1>1, <1>l
  <2> QED
    BY <2>1, <2>2, <1>2, <1>3, Zenon
<1>5. Len(s \o q) = Len(r \o q) + d
  BY <1>1, <1>2, <1>3, <1>l
<1>6. \A i \in 1 .. Len(r \o q) : (r \o q)[i] = (s \o q)[i + d]
  BY <1>2, <1>4, Zenon
<1> QED
  BY <1>5, <1>6, Zenon DEF SuffixOf

\* Sending the oldest byte of the queue takes it from the front of the output.
LEMMA SendOne ==
  ASSUME NEW w \in Seq(Char), NEW q \in Seq(Char), q # <<>>
  PROVE  /\ Send(w, <<Head(q)>>) \in Seq(Char) /\ Tail(q) \in Seq(Char) /\ Len(Tail(q)) = Len(q) - 1
         /\ SuffixOf(Send(w, <<Head(q)>>) \o Tail(q), w \o q)
PROOF
<1>1. /\ Head(q) \in Char /\ Tail(q) \in Seq(Char) /\ Len(Tail(q)) = Len(q) - 1
      /\ \A i \in 1 .. Len(Tail(q)) : Tail(q)[i] = q[i + 1]
  BY AfterHead, Zenon
<1>2. <<Head(q)>> \in Seq(Char)
  BY <1>1
<1>3. Send(w, <<Head(q)>>) \in Seq(Char) /\ SuffixOf(Send(w, <<Head(q)>>), w \o <<Head(q)>>)
  BY <1>2, SendSuffix, Zenon
<1>4. w \o <<Head(q)>> \in Seq(Char)
  BY <1>2, Joined, Zenon
<1>5. SuffixOf(Send(w, <<Head(q)>>) \o Tail(q), (w \o <<Head(q)>>) \o Tail(q))
  BY <1>1, <1>3, <1>4, SuffixExtends, Zenon
<1>6. (w \o <<Head(q)>>) \o Tail(q) = w \o (<<Head(q)>> \o Tail(q))
  BY <1>1, <1>2, Regrouped
<1>7. <<Head(q)>> \o Tail(q) = q
  <2>1. /\ <<Head(q)>> \o Tail(q) \in Seq(Char)
        /\ Len(<<Head(q)>> \o Tail(q)) = 1 + Len(Tail(q))
        /\ \A i \in 1 .. 1 + Len(Tail(q)) :
             (<<Head(q)>> \o Tail(q))[i] = IF i <= 1 THEN <<Head(q)>>[i] ELSE Tail(q)[i - 1]
    BY <1>1, <1>2, Joined
  <2>2. Len(q) \in Nat \ {0} /\ Head(q) = q[1]
    BY AfterHead, Zenon
  <2>3. ASSUME NEW i \in 1 .. Len(q)  PROVE (<<Head(q)>> \o Tail(q))[i] = q[i]
    <3>1. i = 1 \/ (~(i <= 1) /\ i - 1 \in 1 .. Len(Tail(q)) /\ (i - 1) + 1 = i)
      BY <2>2, <1>1
    <3>2. i \in 1 .. 1 + Len(Tail(q))
      BY <2>2, <1>1
    <3> QED
      BY <3>1, <3>2, <2>1, <2>2, <1>1
  <2>4. Len(<<Head(q)>> \o Tail(q)) = Len(q)
    BY <2>1, <2>2, <1>1
  <2> QED
    BY <2>1, <2>3, <2>4, SameElements, Zenon
<1> QED
  BY <1>1, <1>3, <1>5, <1>6, <1>7, Zenon

\* So does sending all of the queue.
LEMMA SendAll ==
  ASSUME NEW w \in Seq(Char), NEW q \in Seq(Char)
  PROVE  Send(w, q) \in Seq(Char) /\ SuffixOf(Send(w, q) \o <<>>, w \o q)
PROOF
<1>1. Send(w, q) \in Seq(Char) /\ SuffixOf(Send(w, q), w \o q)
  BY SendSuffix, Zenon
<1>2. Send(w, q) \o <<>> = Send(w, q)
  BY <1>1, NothingAdded, Zenon
<1> QED
  BY <1>1, <1>2, Zenon

\* write_ier sets the register right for what the queues are by then.
LEMMA IerRight ==
  ASSUME write_ier, buffer' \in 0 .. QueueMax
  PROVE  InterruptsEnabled'
PROOF
<1>1. QueueMax \in Nat /\ buffer' \in Nat
  BY SerialAssumption
<1>2. buffer' = QueueMax <=> ~(buffer' < QueueMax)
  BY <1>1
<1> QED
  BY <1>2, Zenon DEF InterruptsEnabled, write_ier, input_full

\* Before the first output the queue is empty and nothing is printed.
LEMMA SerialInitInv == SerialInit => SerialInv
PROOF
<1> SUFFICES ASSUME SerialInit  PROVE SerialInv
  BY Zenon
<1>a. LineLen \in Nat \ {0} /\ QueueMax \in Nat \ {0} /\ NULL \notin Writer
  BY SerialAssumption, Zenon
<1>1. SerialTypeOK
  BY <1>a DEF SerialInit, SerialTypeOK
<1>2. HolderInside /\ WaiterInside
  BY <1>a, Zenon DEF SerialInit, HolderInside, WaiterInside
<1>3. InterruptsEnabled
  BY <1>a, Zenon DEF SerialInit, InterruptsEnabled, input_full
<1>4. wire \o txq = <<>>
  BY DEF SerialInit
<1>5. Len(wire \o txq) = 0
  BY <1>4
<1>6. 1 .. 0 = {}
  OBVIOUS
<1>7. InOrder(wire \o txq) /\ LastPrinted(wire \o txq, at)
  BY <1>5, <1>6, Zenon DEF InOrder, LastPrinted
<1> QED
  BY <1>1, <1>2, <1>3, <1>7, Zenon DEF SerialInv

\* A step that leaves the writers alone, sends from the front of the output,
\* and puts at most a handler's character at its end.
LEMMA OthersKeep ==
  ASSUME SerialInv, UNCHANGED <<console, at>>, InterruptsEnabled',
         txq' \in Seq(Char), wire' \in Seq(Char), Len(txq') <= QueueMax, buffer' \in 0 .. QueueMax,
         not_full' = NULL \/ (not_full' = not_full /\ (not_full # NULL => txq' = txq)),
         InOrder(wire' \o txq') /\ LastPrinted(wire' \o txq', at)
  PROVE  SerialInv'
PROOF
<1>1. SerialTypeOK /\ HolderInside /\ WaiterInside
  BY Zenon DEF SerialInv
<1>2. SerialTypeOK' /\ HolderInside'
  BY <1>1, Zenon DEF SerialTypeOK, HolderInside
<1>3. WaiterInside'
  BY <1>1, Zenon DEF WaiterInside
<1> QED
  BY <1>2, <1>3, Zenon DEF SerialInv

\* A character that is of no thread's line joins a queue with room.
LEMMA InnerCharKeeps ==
  ASSUME SerialInv, Len(txq) < QueueMax, txq' = Append(txq, <<NULL, 0>>),
         UNCHANGED <<console, at, not_full, wire, buffer>>, write_ier
  PROVE  SerialInv'
PROOF
<1>a. QueueMax \in Nat \ {0}
  BY SerialAssumption, Zenon
<1>i. SerialTypeOK /\ WaiterInside /\ InOrder(wire \o txq) /\ LastPrinted(wire \o txq, at)
  BY Zenon DEF SerialInv
<1>t. txq \in Seq(Char) /\ wire \in Seq(Char) /\ Len(txq) \in Nat /\ buffer \in 0 .. QueueMax
  BY <1>i DEF SerialTypeOK
<1>o. wire \o txq \in Seq(Char)
  BY <1>t, Joined, Zenon
<1>c. <<NULL, 0>> \in Char
  BY Zenon DEF Char
<1>e. InterruptsEnabled'
  BY <1>t, IerRight, Zenon
<1>2. txq' \in Seq(Char) /\ Extended(wire' \o txq', wire \o txq, <<NULL, 0>>) /\ Len(txq') = Len(txq) + 1
  BY <1>t, <1>c, AppendExtends
<1>3. wire' \o txq' \in Seq(Char)
  BY <1>2, <1>t, Joined, Zenon
<1>4. InOrder(wire' \o txq') /\ LastPrinted(wire' \o txq', at)
  BY <1>2, <1>3, <1>o, <1>i, HandlerCharKeeps, Zenon
<1>5. not_full = NULL
  BY <1>i, <1>t, <1>a DEF WaiterInside
<1>6. Len(txq') <= QueueMax
  BY <1>2, <1>t, <1>a
<1> QED
  BY <1>2, <1>4, <1>5, <1>6, <1>e, <1>t, OthersKeep, Zenon

\* The writer's steps: into the console lock, a character, and out of it.
LEMMA WriterKeeps ==
  ASSUME SerialInv, NEW w \in Writer, acquire_console(w) \/ serial_putc(w) \/ release_console(w)
  PROVE  SerialInv'
PROOF
<1>a. LineLen \in Nat \ {0} /\ QueueMax \in Nat \ {0} /\ NULL \notin Writer /\ NULL \notin Nat
  BY SerialAssumption, Zenon
<1>i. SerialTypeOK /\ HolderInside /\ WaiterInside /\ InterruptsEnabled
      /\ InOrder(wire \o txq) /\ LastPrinted(wire \o txq, at)
  BY Zenon DEF SerialInv
<1>o. wire \o txq \in Seq(Char)
  BY <1>i, Joined, Zenon DEF SerialTypeOK
<1>0. CASE /\ acquire_console(w) \/ release_console(w)
           /\ UNCHANGED <<console, at>>
  <2>1. UNCHANGED <<not_full, txq, wire, ier, buffer>>
    BY <1>0, Zenon DEF acquire_console, release_console
  <2>2. InterruptsEnabled'
    BY <2>1, <1>i, Zenon DEF InterruptsEnabled, input_full
  <2> QED
    BY <1>0, <2>1, <2>2, <1>i, OthersKeep, Zenon DEF SerialTypeOK
<1>1. CASE acquire_console(w) /\ ~UNCHANGED <<console, at>>
  <2>1. at[w] = NULL /\ console = NULL /\ console' = w /\ at' = [at EXCEPT ![w] = 0]
        /\ UNCHANGED <<not_full, txq, wire, thre, ier, buffer, dr, reader>>
    BY <1>1, Zenon DEF acquire_console
  <2>2. SerialTypeOK' /\ \A v \in Writer : at'[v] = IF v = w THEN 0 ELSE at[v]
    BY <2>1, <1>i, <1>a DEF SerialTypeOK
  <2>3. \A v \in Writer : at[v] = NULL
    BY <2>1, <1>i, <1>a, Zenon DEF HolderInside
  <2>4. HolderInside'
    BY <2>1, <2>2, <2>3, <1>a DEF HolderInside
  <2>5. WaiterInside'
    BY <2>1, <2>2, <2>3, <1>i, <1>a DEF WaiterInside
  <2>6. InterruptsEnabled'
    BY <2>1, <1>i, Zenon DEF InterruptsEnabled, input_full
  <2>7. wire' \o txq' = wire \o txq
    BY <2>1, Zenon
  <2>8. \A v \in Writer : at'[v] \in {NULL, 0} /\ at[v] \in {NULL, 0} /\ at'[v] \notin 1 .. LineLen
    BY <2>2, <2>3, <1>a
  <2>9. LastPrinted(wire' \o txq', at')
    BY <2>7, <2>8, <1>i, Zenon DEF LastPrinted
  <2> QED
    BY <2>2, <2>4, <2>5, <2>6, <2>7, <2>9, <1>i, Zenon DEF SerialInv
<1>2. CASE release_console(w) /\ ~UNCHANGED <<console, at>>
  <2>1. console = w /\ not_full # w /\ at[w] = LineLen /\ console' = NULL /\ at' = [at EXCEPT ![w] = NULL]
        /\ UNCHANGED <<not_full, txq, wire, thre, ier, buffer, dr, reader>>
    BY <1>2, Zenon DEF release_console
  <2>2. SerialTypeOK' /\ \A v \in Writer : at'[v] = IF v = w THEN NULL ELSE at[v]
    BY <2>1, <1>i, <1>a, Zenon DEF SerialTypeOK
  <2>3. \A v \in Writer : v # w => at[v] = NULL
    BY <2>1, <1>i, <1>a, Zenon DEF HolderInside
  <2>4. HolderInside'
    BY <2>1, <2>2, <2>3, <1>a, Zenon DEF HolderInside
  <2>5. WaiterInside'
    <3>2. not_full = NULL
      BY <2>1, <2>3, <1>i, Zenon DEF WaiterInside
    <3> QED
      BY <3>2, <2>1, Zenon DEF WaiterInside
  <2>6. InterruptsEnabled'
    BY <2>1, <1>i, Zenon DEF InterruptsEnabled, input_full
  <2>7. wire' \o txq' = wire \o txq
    BY <2>1, Zenon
  <2>8. at[w] \in 1 .. LineLen /\ at[w] - 1 = LineLen - 1 /\ \A v \in Writer : at'[v] \notin 1 .. LineLen
    BY <2>1, <2>2, <2>3, <1>a
  <2>9. ASSUME NEW i \in 1 .. Len(wire \o txq), IsLast(wire \o txq, i)
        PROVE  (wire \o txq)[i][2] = LineLen - 1
    <3>1. (wire \o txq)[i] = <<w, LineLen - 1>>
      BY <2>8, <2>9, <1>i, Zenon DEF LastPrinted
    <3> QED
      BY <3>1
  <2>10. LastPrinted(wire' \o txq', at')
    BY <2>7, <2>8, <2>9, Zenon DEF LastPrinted
  <2> QED
    BY <2>2, <2>4, <2>5, <2>6, <2>7, <2>10, <1>i, Zenon DEF SerialInv
<1>3. CASE serial_putc(w) /\ Len(txq) < QueueMax /\ at' # at
  <2>0. at[w] \in 0 .. LineLen /\ console = w
    BY <1>3, <1>i, Zenon DEF serial_putc, SerialTypeOK, HolderInside
  <2>1. at[w] \in 0 .. LineLen - 1 /\ txq' = Append(txq, <<w, at[w]>>) /\ at' = [at EXCEPT ![w] = @ + 1]
        /\ UNCHANGED <<not_full, buffer, console, wire, thre, dr, reader>> /\ write_ier
    BY <2>0, <1>3, <1>i, <1>a DEF serial_putc, SerialTypeOK
  <2>2. <<w, at[w]>> \in Char
    BY <2>1, <1>a DEF Char
  <2>3. txq' \in Seq(Char) /\ Extended(wire' \o txq', wire \o txq, <<w, at[w]>>) /\ Len(txq') = Len(txq) + 1
    BY <2>1, <2>2, <1>i, AppendExtends DEF SerialTypeOK
  <2>4. /\ at' \in [Writer -> 0 .. LineLen \cup {NULL}]
        /\ \A v \in Writer : at'[v] = IF v = w THEN at[w] + 1 ELSE at[v]
    BY <2>1, <1>i, <1>a DEF SerialTypeOK
  <2>5. SerialTypeOK'
    BY <2>1, <2>3, <2>4, <1>3, <1>i, <1>a DEF SerialTypeOK
  <2>6. at[w] # NULL /\ at[w] + 1 # NULL
    BY <2>1, <1>a
  <2>7. \A v \in Writer : v # w => at[v] = NULL /\ at'[v] = NULL
    BY <2>4, <2>6, <1>i, Zenon DEF HolderInside
  <2>8. HolderInside'
    BY <2>1, <2>4, <2>6, <1>i, Zenon DEF HolderInside
  <2>9. WaiterInside'
    <3>1. not_full = NULL
      BY <1>3, <1>i, <1>a DEF WaiterInside, SerialTypeOK
    <3> QED
      BY <3>1, <2>1, Zenon DEF WaiterInside
  <2>10. InterruptsEnabled'
    BY <2>1, <1>i, IerRight, Zenon DEF SerialTypeOK
  <2>11. wire' \o txq' \in Seq(Char)
    BY <2>5, Joined, Zenon DEF SerialTypeOK
  <2>12. InOrder(wire' \o txq') /\ LastPrinted(wire' \o txq', at')
    <3> DEFINE s == wire \o txq
               r == wire' \o txq'
               got == at
               next == at'
    <3>1. s \in Seq(Char) /\ r \in Seq(Char)
      BY <1>o, <2>11, Zenon
    <3>2. got \in [Writer -> 0 .. LineLen \cup {NULL}] /\ next \in [Writer -> 0 .. LineLen \cup {NULL}]
      BY <2>4, <1>i, Zenon DEF SerialTypeOK
    <3>3. got[w] \in 0 .. LineLen - 1 /\ next[w] = got[w] + 1
      BY <2>1, <2>4, Zenon
    <3>4. \A v \in Writer : v # w => got[v] = NULL /\ next[v] = NULL
      BY <2>7, Zenon
    <3>5. Extended(r, s, <<w, got[w]>>) /\ InOrder(s) /\ LastPrinted(s, got)
      BY <2>3, <1>i, Zenon
    <3> HIDE DEF s, r, got, next
    <3>6. InOrder(r) /\ LastPrinted(r, next)
      BY <3>1, <3>2, <3>3, <3>4, <3>5, ThreadCharKeeps, Zenon
    <3> QED
      BY <3>6, Zenon DEF r, next
  <2> QED
    BY <2>5, <2>8, <2>9, <2>10, <2>12, Zenon DEF SerialInv
<1>4. CASE serial_putc(w) /\ ~(Len(txq) < QueueMax)
  <2>1. console = w /\ Len(txq) = QueueMax /\ not_full' = w
        /\ UNCHANGED <<at, txq, ier, buffer, console, wire, thre, dr, reader>>
    BY <1>4, Zenon DEF serial_putc
  <2>2. SerialTypeOK' /\ HolderInside' /\ WaiterInside' /\ InterruptsEnabled'
    BY <2>1, <1>i, Zenon DEF SerialTypeOK, HolderInside, WaiterInside, InterruptsEnabled, input_full
  <2> QED
    BY <2>1, <2>2, <1>i, Zenon DEF SerialInv
<1>5. CASE serial_putc(w) /\ Len(txq) < QueueMax /\ at' = at
  <2>1. at[w] \in 0 .. LineLen /\ console = w
    BY <1>5, <1>i, Zenon DEF serial_putc, SerialTypeOK, HolderInside
  <2>2. at[w] + 1 # at[w]
    BY <2>1, <1>a
  <2>3. [at EXCEPT ![w] = @ + 1] # at
    BY <2>2, <1>i, Zenon DEF SerialTypeOK
  <2>4. Len(txq) # QueueMax
    BY <1>5, <1>a, <1>i DEF SerialTypeOK
  <2>5. /\ txq' = Append(txq, <<NULL, 0>>) /\ write_ier
        /\ UNCHANGED <<console, at, not_full, wire, buffer>>
    BY <1>5, <2>3, <2>4, Zenon DEF serial_putc
  <2> QED
    BY <1>5, <2>5, InnerCharKeeps, Zenon
<1> QED
  BY <1>0, <1>1, <1>2, <1>3, <1>4, <1>5, Zenon

\* serial_putc of an interrupt handler.
LEMMA HandlerPutcKeeps ==
  ASSUME SerialInv, InterruptPutc
  PROVE  SerialInv'
PROOF
<1>a. LineLen \in Nat \ {0} /\ QueueMax \in Nat \ {0}
  BY SerialAssumption, Zenon
<1>i. SerialTypeOK /\ WaiterInside /\ InOrder(wire \o txq) /\ LastPrinted(wire \o txq, at)
  BY Zenon DEF SerialInv
<1>t. txq \in Seq(Char) /\ wire \in Seq(Char) /\ Len(txq) \in Nat /\ buffer \in 0 .. QueueMax
  BY <1>i DEF SerialTypeOK
<1>o. wire \o txq \in Seq(Char)
  BY <1>t, Joined, Zenon
<1>c. <<NULL, 0>> \in Char
  BY Zenon DEF Char
<1>e. UNCHANGED <<console, at, buffer>> /\ InterruptsEnabled'
  BY <1>t, IerRight, Zenon DEF InterruptPutc
<1>1. CASE Len(txq) < QueueMax
  <2>1. txq' = Append(txq, <<NULL, 0>>) /\ UNCHANGED <<not_full, wire>> /\ write_ier
    BY <1>1, <1>t, <1>a DEF InterruptPutc
  <2> QED
    BY <1>1, <2>1, <1>e, InnerCharKeeps, Zenon
<1>2. CASE Len(txq) = QueueMax
  <2> DEFINE sent == Send(wire, <<Head(txq)>>)
             rest == Tail(txq)
  <2>1. txq' = Append(rest, <<NULL, 0>>) /\ wire' = sent /\ not_full' = NULL
    BY <1>2, <1>a DEF InterruptPutc, MakeRoom
  <2>2. txq # <<>>
    BY <1>2, <1>a, Zenon
  <2>3. sent \in Seq(Char) /\ rest \in Seq(Char) /\ Len(rest) = Len(txq) - 1 /\ SuffixOf(sent \o rest, wire \o txq)
    BY <2>2, <1>t, SendOne, Zenon
  <2> HIDE DEF sent, rest
  <2>4. sent \o rest \in Seq(Char)
    BY <2>3, Joined, Zenon
  <2>5. InOrder(sent \o rest) /\ LastPrinted(sent \o rest, at)
    BY <2>3, <2>4, <1>o, <1>i, SuffixKeeps, Zenon
  <2>6. txq' \in Seq(Char) /\ Extended(wire' \o txq', sent \o rest, <<NULL, 0>>) /\ Len(txq') = Len(rest) + 1
    BY <2>1, <2>3, <1>c, AppendExtends
  <2>7. wire' \in Seq(Char) /\ wire' \o txq' \in Seq(Char)
    BY <2>1, <2>3, <2>6, Joined, Zenon
  <2>8. InOrder(wire' \o txq') /\ LastPrinted(wire' \o txq', at)
    BY <2>4, <2>5, <2>6, <2>7, HandlerCharKeeps, Zenon
  <2>9. Len(txq') <= QueueMax
    BY <2>3, <2>6, <1>2, <1>a
  <2> QED
    BY <2>1, <2>6, <2>7, <2>8, <2>9, <1>e, <1>t, OthersKeep, Zenon
<1> QED
  BY <1>1, <1>2, Zenon DEF InterruptPutc

\* serial_flush.
LEMMA FlushKeeps ==
  ASSUME SerialInv, serial_flush
  PROVE  SerialInv'
PROOF
<1>i. SerialTypeOK /\ InterruptsEnabled /\ InOrder(wire \o txq) /\ LastPrinted(wire \o txq, at)
  BY Zenon DEF SerialInv
<1>t. txq \in Seq(Char) /\ wire \in Seq(Char) /\ buffer \in 0 .. QueueMax /\ QueueMax \in Nat
  BY <1>i, SerialAssumption, Zenon DEF SerialTypeOK
<1>o. wire \o txq \in Seq(Char)
  BY <1>t, Joined, Zenon
<1>1. wire' = Send(wire, txq) /\ txq' = <<>> /\ not_full' = NULL /\ UNCHANGED <<console, at, ier, buffer>>
  BY Zenon DEF serial_flush
<1>2. wire' \in Seq(Char) /\ SuffixOf(wire' \o txq', wire \o txq)
  BY <1>1, <1>t, SendAll, Zenon
<1>3. txq' \in Seq(Char) /\ Len(txq') <= QueueMax
  BY <1>1, <1>t
<1>4. wire' \o txq' \in Seq(Char)
  BY <1>2, <1>3, Joined, Zenon
<1>5. InOrder(wire' \o txq') /\ LastPrinted(wire' \o txq', at)
  BY <1>2, <1>4, <1>o, <1>i, SuffixKeeps, Zenon
<1>6. InterruptsEnabled'
  BY <1>1, <1>i, Zenon DEF InterruptsEnabled, input_full
<1> QED
  BY <1>1, <1>2, <1>3, <1>5, <1>6, <1>t, OthersKeep, Zenon

\* serial_interrupt: a byte in, a byte out, or both.
LEMMA InterruptKeeps ==
  ASSUME SerialInv, serial_interrupt
  PROVE  SerialInv'
PROOF
<1>i. SerialTypeOK /\ InOrder(wire \o txq) /\ LastPrinted(wire \o txq, at)
  BY Zenon DEF SerialInv
<1>t. txq \in Seq(Char) /\ wire \in Seq(Char) /\ buffer \in 0 .. QueueMax /\ QueueMax \in Nat
      /\ Len(txq) \in Nat /\ Len(txq) <= QueueMax
  BY <1>i, SerialAssumption DEF SerialTypeOK
<1>o. wire \o txq \in Seq(Char)
  BY <1>t, Joined, Zenon
<1>1. buffer' = buffer \/ (buffer # QueueMax /\ buffer' = buffer + 1)
  BY Zenon DEF serial_interrupt, input_full
<1>2. buffer' \in 0 .. QueueMax
  BY <1>1, <1>t
<1>3. UNCHANGED <<console, at>> /\ InterruptsEnabled'
  BY <1>2, IerRight, Zenon DEF serial_interrupt
<1>4. CASE thre /\ txq # <<>>
  <2>1. txq' = Tail(txq) /\ wire' = Send(wire, <<Head(txq)>>) /\ not_full' = NULL
    BY <1>4, Zenon DEF serial_interrupt
  <2>2. wire' \in Seq(Char) /\ txq' \in Seq(Char) /\ Len(txq') = Len(txq) - 1 /\ SuffixOf(wire' \o txq', wire \o txq)
    BY <2>1, <1>4, <1>t, SendOne, Zenon
  <2>3. wire' \o txq' \in Seq(Char)
    BY <2>2, Joined, Zenon
  <2>4. InOrder(wire' \o txq') /\ LastPrinted(wire' \o txq', at)
    BY <2>2, <2>3, <1>o, <1>i, SuffixKeeps, Zenon
  <2>5. Len(txq') <= QueueMax
    BY <2>2, <1>t
  <2> QED
    BY <2>1, <2>2, <2>4, <2>5, <1>2, <1>3, OthersKeep, Zenon
<1>5. CASE ~(thre /\ txq # <<>>)
  <2>1. txq' = txq /\ wire' = wire /\ not_full' = not_full
    BY <1>5, Zenon DEF serial_interrupt
  <2> QED
    BY <2>1, <1>i, <1>t, <1>2, <1>3, OthersKeep, Zenon
<1> QED
  BY <1>4, <1>5, Zenon

\* Everything else leaves the output alone.
LEMMA InputKeeps ==
  ASSUME SerialInv, \/ keyboard_interrupt \/ input_getc \/ console_panic
                    \/ TransmitDone \/ ByteArrives \/ UNCHANGED serialVars
  PROVE  SerialInv'
PROOF
<1>i. SerialTypeOK /\ InterruptsEnabled /\ InOrder(wire \o txq) /\ LastPrinted(wire \o txq, at)
  BY Zenon DEF SerialInv
<1>t. txq \in Seq(Char) /\ wire \in Seq(Char) /\ buffer \in 0 .. QueueMax /\ QueueMax \in Nat /\ Len(txq) <= QueueMax
  BY <1>i, SerialAssumption, Zenon DEF SerialTypeOK
<1>1. UNCHANGED <<console, at, not_full, txq, wire>>
  BY Zenon DEF keyboard_interrupt, input_getc, console_panic, TransmitDone, ByteArrives, serialVars
<1>2. \/ UNCHANGED <<ier, buffer>>
      \/ write_ier /\ buffer' = buffer + 1 /\ buffer # QueueMax
      \/ write_ier /\ buffer' = buffer - 1 /\ buffer > 0
  BY Zenon DEF keyboard_interrupt, input_getc, console_panic, TransmitDone, ByteArrives, serialVars, serial_notify, input_full
<1>3. buffer' \in 0 .. QueueMax
  BY <1>2, <1>t
<1>4. InterruptsEnabled'
  <2>1. CASE write_ier
    BY <2>1, <1>3, IerRight, Zenon
  <2>2. CASE UNCHANGED <<ier, buffer>>
    BY <2>2, <1>1, <1>i, Zenon DEF InterruptsEnabled, input_full
  <2> QED
    BY <2>1, <2>2, <1>2, Zenon
<1> QED
  BY <1>1, <1>3, <1>4, <1>i, <1>t, OthersKeep, Zenon

\* Whatever the writers, the reader, the handlers, a panic and the port do, the
\* interrupt enable register matches the queues, one writer at a time prints,
\* and its line comes out whole: for any number of threads, any line length and
\* any queue size.
THEOREM ConsoleCorrect == SerialSpec => []ConsoleSound
PROOF
<1>1. SerialInit => SerialInv
  BY SerialInitInv, Zenon
<1>2. SerialInv /\ [SerialNext]_serialVars => SerialInv'
  BY WriterKeeps, HandlerPutcKeeps, FlushKeeps, InterruptKeeps, InputKeeps, Zenon DEF SerialNext
<1>3. SerialInv => ConsoleSound
  <2> SUFFICES ASSUME SerialInv  PROVE ConsoleSound
    BY Zenon
  <2>1. SerialTypeOK /\ HolderInside /\ WaiterInside /\ InterruptsEnabled /\ InOrder(wire \o txq)
    BY Zenon DEF SerialInv
  <2>2. OneWriter
    BY <2>1, SerialAssumption DEF OneWriter, HolderInside, WaiterInside
  <2>3. LinesDoNotMix
    BY <2>1, Zenon DEF LinesDoNotMix, InOrder
  <2> QED
    BY <2>1, <2>2, <2>3, Zenon DEF ConsoleSound
<1> QED
  BY <1>1, <1>2, <1>3, PTL DEF SerialSpec

-----------------------------------------------------------------------------
(***************************************************************************)
(* The theorem that rests on counting, and what the library says of it.    *)
(***************************************************************************)
INSTANCE FiniteSetTheorems

\* Openers and pages can be counted.
LEMMA CountingHolds == Counting
<1>1. IsFiniteSet({}) /\ Cardinality({}) = 0 /\ \A S : IsFiniteSet(S) => (Cardinality(S) = 0 <=> S = {})
  BY FS_EmptySet, Zenon
<1>2. \A S : IsFiniteSet(S) => \A R \in SUBSET S : IsFiniteSet(R)
  BY FS_Subset, Zenon
<1>3. \A S, x : IsFiniteSet(S) /\ x \notin S =>
        IsFiniteSet(S \cup {x}) /\ Cardinality(S \cup {x}) = Cardinality(S) + 1
  BY FS_AddElement, Zenon
<1>4. \A S, x : IsFiniteSet(S) /\ x \in S => Cardinality(S \ {x}) = Cardinality(S) - 1
  BY FS_RemoveElement, Zenon
<1>5. \A x : Cardinality({x}) = 1
  BY FS_Singleton, Zenon
<1> QED
  BY <1>1, <1>2, <1>3, <1>4, <1>5, Zenon DEF Counting

\* Calls that hold filesys_lock never meet in inode_open and inode_close, and
\* as long as none has met a call of load() or process_exit(), opening one
\* sector twice gives the same struct inode, and what inode_open returned is in
\* memory, read and counted, for any threads, inodes and sectors.
THEOREM OpenInodesCorrect == TableSpec => []OpenInodesSound
<1>1. MetInv /\ [TableNext]_tableVars => MetInv'
  <2>1. SUFFICES ASSUME MetInv, [TableNext]_tableVars PROVE MetInv'
    BY Zenon
  <2>2. CASE TableNext
    <3>1. PICK t \in Thread : \/ Search(t) \/ inode_reopen(t) \/ Push(t) \/ Initialize(t)
                              \/ Read(t) \/ Close(t) \/ Unlink(t)
      BY <2>2, Zenon DEF TableNext
    <3>2. LockOwnerInside' /\ (met' = met \/ Meets(t))
      BY <2>1, <3>1, LockDiscipline, Zenon DEF MetInv
    <3>3. met' \in BOOLEAN
      BY <2>1, <3>2, Zenon DEF MetInv, Meets
    <3>4. ~met' => TableInv'
      BY <2>1, <3>1, CountingHolds, TableStep, Zenon
    <3> QED
      BY <3>2, <3>3, <3>4, Zenon DEF MetInv
  <2>3. CASE UNCHANGED tableVars
    <3>1. LockOwnerInside' /\ met' \in BOOLEAN /\ met' = met
      BY <2>1, <2>3, Zenon DEF tableVars, MetInv, LockOwnerInside
    <3>2. ASSUME TableInv PROVE TableInv'
      <4>1. TableTypeOK' /\ OneInside' /\ PtrOnList'
        BY <2>3, <3>2, Zenon DEF tableVars, TableInv, TableTypeOK, OneInside, PtrOnList
      <4>2. CountsMatch'
        BY <2>3, <3>2, Zenon DEF tableVars, TableInv, CountsMatch, Busy, Openers
      <4>3. SectorAsked' /\ NoOtherForSector' /\ OneInodePerSector'
        BY <2>3, <3>2, ZenonT(40) DEF tableVars, TableInv, SectorAsked, NoOtherForSector, OneInodePerSector, InTransit
      <4> QED
        BY <4>1, <4>2, <4>3, Zenon DEF TableInv
    <3> QED
      BY <2>1, <3>1, <3>2, Zenon DEF MetInv
  <2>4. QED
    BY <2>1, <2>2, <2>3, Zenon
<1>2. MetInv => OpenInodesSound
  <2> SUFFICES ASSUME MetInv PROVE OpenInodesSound
    BY Zenon
  <2>1. \A t, u \in Locker : pc[t] \in Inside /\ pc[u] \in Inside => t = u
    BY Zenon DEF MetInv, LockOwnerInside
  <2>2. ASSUME TableInv, NEW t \in Thread, pc[t] = "open"
        PROVE /\ ptr[t] \in allocated /\ inode[ptr[t]].sector = want[t] /\ inode[ptr[t]].read
              /\ inode[ptr[t]].open_cnt = Cardinality(Openers(ptr[t]))
    <3>1. ptr[t] \in open_list /\ t \in Openers(ptr[t])
      BY <2>2, Zenon DEF TableInv, PtrOnList, Openers
    <3> QED
      BY <2>2, <3>1, SMTT(30) DEF TableInv, TableTypeOK, CountsMatch, SectorAsked
  <2>3. TableInv => OneInodePerSector /\ OpenMeansReady
    BY <2>2, Zenon DEF TableInv, OpenMeansReady, Openers
  <2> QED
    BY <2>1, <2>3, Zenon DEF MetInv, OpenInodesSound
<1>3. QED
  BY TableInitInv, <1>1, <1>2, PTL DEF TableSpec
=============================================================================
