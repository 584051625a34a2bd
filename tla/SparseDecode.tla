---------------------------- MODULE SparseDecode ----------------------------
(***************************************************************************)
(* restore_ext4_sparse_ui (restore.c) writing a sparse image onto a        *)
(* volume, one action per pass of its chunk loop, with its helpers         *)
(* simg_process_raw_chunk and simg_process_skip_chunk; and restore_dump_ui *)
(* (the ext4 and dump restore) for a plain image.                          *)
(*                                                                         *)
(* image is the file read: [sparse, header, body, raw] as SparseEncode     *)
(* writes it.  u32 and u64 arithmetic is modulo U32Mod and U64Mod, and the *)
(* 2 GiB fseek piece and the 1 MiB copy buffer are scaled to SeekMax and   *)
(* CopyBuf.                                                                 *)
(***************************************************************************)
EXTENDS SparseFormat

CONSTANTS
    U32Mod,         \* 2^32, scaled down
    U64Mod,         \* 2^64, scaled down
    SeekMax,        \* 0x80000000, the largest fseek piece
    CopyBuf,        \* SIMG_COPY_BUF_SIZE
    SkipLoopBound,  \* passes of the skip-chunk CRC loop taken as never ending
    DecodeFault     \* whether the opens, the buffers and the writes may fail

VARIABLES
    image,    \* the image file
    dev,      \* the volume: offset -> byte
    dpc,      \* "idle", "chunks", "done", or "hung" (a loop that does not end)
    din,      \* index in image.body of the next item gzread returns
    didx,     \* index, the chunk loop counter
    dpos,     \* the output FILE position
    dcrc,     \* crc32: the bytes folded so far
    dblocks,  \* total_blocks
    dresult   \* result

decVars == <<dev, dpc, din, didx, dpos, dcrc, dblocks, dresult>>

Old == -3          \* a byte the volume held before the restore
EIO == 5
ENOMEM == 12
DOks == IF DecodeFault THEN BOOLEAN ELSE {TRUE}

MinOf(a, b) == IF a < b THEN a ELSE b

\* dev with the bytes vals written from offset pos on.
WriteDev(d, pos, vals) ==
    [i \in DOMAIN d |-> IF pos <= i /\ i < pos + Len(vals) THEN vals[i - pos + 1] ELSE d[i]]

\* The skip_chunk the seek loop of simg_process_skip_chunk leaves: its last piece.
LastSeekPiece(len) ==
    CASE len = 0            -> 0
      [] len % SeekMax = 0  -> SeekMax
      [] OTHER              -> len % SeekMax

\* The zero bytes the CRC loop of simg_process_skip_chunk folds: it steps
\* by step while len # 0, len being a u64; -1 when it has not ended after
\* fuel passes.
RECURSIVE SkipCrcBytes(_, _, _)
SkipCrcBytes(len, step, fuel) ==
    CASE len = 0  -> 0
      [] fuel = 0 -> -1
      [] OTHER    -> LET rest == SkipCrcBytes((len - step) % U64Mod, step, fuel - 1)
                     IN IF rest < 0 THEN -1 ELSE step + rest

Init ==
    /\ dev = [i \in 0..FsLen - 1 |-> Old]
    /\ dpc = "idle" /\ din = 1 /\ didx = 0 /\ dpos = 0 /\ dcrc = <<>>
    /\ dblocks = 0 /\ dresult = 0

\* The chunk loop stops with result -1.
Fail == dpc' = "done" /\ dresult' = -1 /\ UNCHANGED <<dev, din, didx, dpos, dcrc, dblocks>>

Header == image.header
Total == Header.total_chunks
InLoop == dpc = "chunks" /\ didx < Total
Item == image.body[din]

\* restore_ext4_sparse_ui up to its chunk loop: the open, the header
\* validation, gzdopen, fopen of the device and the buffers, each of which
\* returns an error.
SparseOpen ==
    /\ dpc = "idle" /\ image.sparse
    /\ \E ok \in DOks :
          IF ok THEN dpc' = "chunks" /\ UNCHANGED dresult
          ELSE dpc' = "done" /\ dresult' \in {-2, -1, EIO, ENOMEM}
    /\ UNCHANGED <<dev, din, didx, dpos, dcrc, dblocks>>

\* Mutant: the output position is not advanced past a raw chunk.
RawChunkNoAdvance ==
    LET h == Item
        need == (h.sz * Header.blk_sz) % U64Mod
        vals == [k \in 1..need |-> ValueOf(image.body[din + k])]
    IN IF h.tot # (Header.chunk_hdr_sz + ((h.sz * Header.blk_sz) % U32Mod)) % U32Mod \/ Len(image.body) - din < need
       THEN Fail
       ELSE /\ dev' = WriteDev(dev, dpos, vals) /\ dcrc' = dcrc \o vals
            /\ dblocks' = (dblocks + h.sz) % U32Mod
            /\ din' = din + 1 + need /\ didx' = didx + 1
            /\ UNCHANGED <<dpc, dresult, dpos>>

\* CHUNK_TYPE_RAW: the size check in u32, then simg_process_raw_chunk
\* copying the u64 length in CopyBuf pieces, a short read ending it.
RawChunk ==
    LET h == Item
        need == (h.sz * Header.blk_sz) % U64Mod
        avail == Len(image.body) - din
        got == IF avail >= need THEN need ELSE (avail \div CopyBuf) * CopyBuf
        vals == [k \in 1..got |-> ValueOf(image.body[din + k])]
    IN IF h.tot # (Header.chunk_hdr_sz + ((h.sz * Header.blk_sz) % U32Mod)) % U32Mod
       THEN Fail
       ELSE \E w \in DOks :
              IF w /\ got = need
              THEN /\ dev' = WriteDev(dev, dpos, vals) /\ dcrc' = dcrc \o vals
                   /\ dpos' = dpos + need /\ dblocks' = (dblocks + h.sz) % U32Mod
                   /\ din' = din + 1 + need /\ didx' = didx + 1
                   /\ UNCHANGED <<dpc, dresult>>
              ELSE /\ dev' = IF w THEN WriteDev(dev, dpos, vals) ELSE dev
                   /\ dcrc' = IF w THEN dcrc \o vals ELSE dcrc
                   /\ dpc' = "done" /\ dresult' = -1
                   /\ UNCHANGED <<din, didx, dpos, dblocks>>

\* Mutant: the skipped region is not folded into the CRC.
SkipChunkNoCrc ==
    LET h == Item
        len == (h.sz * Header.blk_sz) % U64Mod
    IN IF h.tot # Header.chunk_hdr_sz
       THEN Fail
       ELSE /\ dpos' = dpos + len
            /\ dblocks' = (dblocks + h.sz) % U32Mod
            /\ din' = din + 1 /\ didx' = didx + 1
            /\ UNCHANGED <<dev, dpc, dresult, dcrc>>

\* CHUNK_TYPE_DONT_CARE: the size check, then simg_process_skip_chunk:
\* fseek by the u64 length, and fold zeros into the CRC.
SkipChunk ==
    LET h == Item
        len == (h.sz * Header.blk_sz) % U64Mod
        folded == SkipCrcBytes(len, MinOf(LastSeekPiece(len), Header.blk_sz), SkipLoopBound)
    IN IF h.tot # Header.chunk_hdr_sz
       THEN Fail
       ELSE IF folded < 0
       THEN dpc' = "hung" /\ UNCHANGED <<dev, din, didx, dpos, dcrc, dblocks, dresult>>
       ELSE /\ dpos' = dpos + len /\ dcrc' = dcrc \o Zeros(folded)
            /\ dblocks' = (dblocks + h.sz) % U32Mod
            /\ din' = din + 1 /\ didx' = didx + 1
            /\ UNCHANGED <<dev, dpc, dresult>>

\* A pass of the chunk loop: read the chunk header (a short read breaks
\* the loop), then switch on its type; an unknown type is an error.
ProcessChunk ==
    /\ InLoop
    /\ IF din > Len(image.body) THEN Fail
       ELSE CASE Item.kind = "raw"      -> RawChunk
              [] Item.kind = "dontcare" -> SkipChunk
              [] OTHER                  -> Fail

\* The loop has run total_chunks passes: the count and checksum checks
\* only warn, and the result is 0.
SparseDone ==
    /\ dpc = "chunks" /\ didx = Total
    /\ dpc' = "done"
    /\ UNCHANGED <<dev, din, didx, dpos, dcrc, dblocks, dresult>>

\* restore_dump_ui: gzopen and open, then the whole image copied to the
\* device; a failed write stops the copy.
DumpRestore ==
    /\ dpc = "idle" /\ ~image.sparse
    /\ \E ok \in DOks, w \in DOks :
          IF ~ok THEN dresult' \in {EIO} /\ UNCHANGED dev
          ELSE IF w THEN dev' = WriteDev(dev, 0, image.raw) /\ UNCHANGED dresult
          ELSE dresult' = -1 /\ UNCHANGED dev
    /\ dpc' = "done"
    /\ UNCHANGED <<din, didx, dpos, dcrc, dblocks>>

DecNext == SparseOpen \/ ProcessChunk \/ SparseDone \/ DumpRestore
=============================================================================
