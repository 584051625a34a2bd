---------------------------- MODULE SparseEncode ----------------------------
(***************************************************************************)
(* The image writer of ext4_utils/output_file.c and the calls make_ext4fs  *)
(* makes of it.  make_ext4fs is not part of the repository: its calls are  *)
(* modelled from spec.md 4.2 and the comment in write_chunk_raw (writes in *)
(* ascending, block-aligned, non-overlapping order, then a pad to the      *)
(* volume size, then the close).                                           *)
(*                                                                         *)
(* enc is struct output_file with the file it writes: the sparse header,   *)
(* the chunk stream after it (sparse) or the plain image bytes (raw).  An  *)
(* ops->write either writes all its bytes or fails and writes none; the    *)
(* functions that call it are void, so every outcome is a state.           *)
(***************************************************************************)
EXTENDS SparseFormat, Bitwise

CONSTANTS
    Outputs,     \* the (gz, sparse) arguments of open_output_file a run considers
    CallKinds,   \* "block" (write_data_block) and "file" (write_data_file)
    MaxWrites,   \* bound on the data writes of one image
    IoFault,     \* whether open, write, seek and mmap calls may fail
    U32Mod       \* 2^32, scaled down: the range of u32 and int arithmetic

ASSUME Outputs \subseteq {"sparse", "sparse_gz", "dump", "dump_gz"}
ASSUME CallKinds \subseteq {"block", "file"} /\ MaxWrites \in Nat

VARIABLES
    enc,      \* struct output_file, and the file it writes
    ephase,   \* "init", "open", "padded", "closed", or "failed" (open returned NULL)
    next,     \* the caller's next free offset
    nwrites,  \* data writes made so far
    sent      \* the offsets whose bytes the caller asked to be written

encVars == <<enc, ephase, next, nwrites, sent>>

Oks == IF IoFault THEN BOOLEAN ELSE {TRUE}
Larger(a, b) == IF a > b THEN a ELSE b

NoHeader == [blk_sz |-> 0, total_blks |-> 0, total_chunks |-> 0, chunk_hdr_sz |-> 0, crc |-> <<>>]

\* rnd_up_len: len rounded up with the mask ~(info.block_size - 1).
RoundUp(len) == (len + (BlkSz - 1)) & ((U32Mod - 1) - (BlkSz - 1))

\* s with the bytes d written from offset off on, zeros filling any gap.
Overlay(s, off, d) ==
    [i \in 1..Larger(Len(s), off + Len(d)) |->
        IF off < i /\ i <= off + Len(d) THEN d[i - off]
        ELSE IF i <= Len(s) THEN s[i] ELSE Zero]

\* Mutant: the zeros of a don't-care chunk are not folded into the CRC.
EmitSkipChunkNoCrc(e, skip) ==
    IF skip % BlkSz # 0 THEN {[ok |-> FALSE, e |-> e]}
    ELSE {[ok |-> w,
           e |-> IF w THEN [e EXCEPT !.body = Append(@, ChunkItem("dontcare", skip \div BlkSz, ChunkHdrLen)),
                                     !.cur = @ + skip, !.cnt = @ + 1]
                      ELSE e] : w \in Oks}

\* emit_skip_chunk: the result and the writer after it.
EmitSkipChunk(e, skip) ==
    IF skip % BlkSz # 0 THEN {[ok |-> FALSE, e |-> e]}
    ELSE {[ok |-> w,
           e |-> IF w THEN [e EXCEPT !.body = Append(@, ChunkItem("dontcare", skip \div BlkSz, ChunkHdrLen)),
                                     !.cur = @ + skip, !.cnt = @ + 1, !.crc = @ \o Zeros(skip)]
                      ELSE e] : w \in Oks}

\* write_chunk_raw: a don't-care chunk for a gap (its result ignored), the
\* checks, then the chunk header, the data and the zero padding, the first
\* failing write ending it.
WriteChunkRaw(e, off, data) ==
    LET rnd == RoundUp(Len(data))
        zl == rnd - Len(data)
        hdr == ChunkItem("raw", rnd \div BlkSz, ChunkHdrLen + rnd)
        gapped == IF off > e.cur THEN {r.e : r \in EmitSkipChunk(e, off - e.cur)} ELSE {e}
        stops == IF IoFault THEN {"hdr", "data"} \cup (IF zl > 0 THEN {"zeros"} ELSE {}) ELSE {}
        Emit(s, stop) ==
            CASE stop = "hdr"   -> s
              [] stop = "data"  -> [s EXCEPT !.body = Append(@, hdr)]
              [] stop = "zeros" -> [s EXCEPT !.body = Append(@, hdr) \o Bytes(data)]
              [] OTHER -> [s EXCEPT !.body = Append(@, hdr) \o Bytes(data \o Zeros(zl)),
                                    !.crc = (@ \o data) \o Zeros(zl),
                                    !.cur = @ + rnd, !.cnt = @ + 1]
    IN IF off < e.cur THEN {e}
       ELSE UNION {IF off % BlkSz # 0 \/ off # s.cur THEN {s}
                   ELSE {Emit(s, stop) : stop \in {"none"} \cup stops} : s \in gapped}

\* ops->seek then ops->write on a plain image: lseek64 moves anywhere,
\* gzseek on a stream open for writing only forward, compressing zeros up
\* to the new position.
SeekWrite(e, off, data) ==
    IF e.gz /\ off < Len(e.raw) THEN {e}
    ELSE LET seeked == IF e.gz THEN Overlay(e.raw, off, <<>>) ELSE e.raw
         IN {[e EXCEPT !.raw = IF w THEN Overlay(seeked, off, data) ELSE seeked] : w \in Oks}

DataWrite(e, off, len) ==
    IF e.sparse THEN WriteChunkRaw(e, off, Data(off, len)) ELSE SeekWrite(e, off, Data(off, len))

\* write_data_block
WriteDataBlock(e, off, len) == IF off + len > FsLen THEN {e} ELSE DataWrite(e, off, len)

\* write_data_file: its bound check, then the open and mmap of the file.
WriteDataFile(e, off, len) ==
    IF off + len >= FsLen THEN {e}
    ELSE UNION {IF m THEN DataWrite(e, off, len) ELSE {e} : m \in Oks}

\* Mutant: the pad chunk covers the whole length, not the gap to it.
PadOutputFileWholeLength(e, len) ==
    CASE len > FsLen                    -> {e}
      [] e.sparse /\ len > e.cur         -> {r.e : r \in EmitSkipChunk(e, len)}
      [] e.sparse                        -> {e}
      [] OTHER                           -> SeekWrite(e, len - 1, <<Zero>>)

\* pad_output_file
PadOutputFile(e, len) ==
    CASE len > FsLen                    -> {e}
      [] e.sparse /\ len > e.cur         -> {r.e : r \in EmitSkipChunk(e, len - e.cur)}
      [] e.sparse                        -> {e}
      [] OTHER                           -> SeekWrite(e, len - 1, <<Zero>>)

\* close_output_file: the header rewrite at offset 0 only warns on failure.
CloseOutputFile(e) ==
    IF e.sparse
    THEN {IF w THEN [e EXCEPT !.header.total_chunks = e.cnt, !.header.crc = e.crc] ELSE e : w \in Oks}
    ELSE {e}

Init ==
    /\ enc = [sparse |-> FALSE, gz |-> FALSE, cur |-> 0, cnt |-> 0, crc |-> <<>>,
              header |-> NoHeader, body |-> <<>>, raw |-> <<>>]
    /\ ephase = "init" /\ next = 0 /\ nwrites = 0 /\ sent = {}

\* open_output_file: the open, the uncompressed header write and gzdopen
\* each return NULL on failure.
OpenOutputFile(o) ==
    LET sparse == o \in {"sparse", "sparse_gz"}
    IN {[sparse |-> sparse, gz |-> o \in {"sparse_gz", "dump_gz"},
         cur |-> 0, cnt |-> 0, crc |-> <<>>,
         header |-> IF sparse THEN [blk_sz |-> BlkSz, total_blks |-> FsLen \div BlkSz,
                                   total_chunks |-> 0, chunk_hdr_sz |-> ChunkHdrLen, crc |-> <<>>]
                              ELSE NoHeader,
         body |-> <<>>, raw |-> <<>>]}

\* make_ext4fs opens the image; NULL ends the backup.
Open ==
    /\ ephase = "init"
    /\ \E o \in Outputs, ok \in Oks :
          IF ok THEN enc' \in OpenOutputFile(o) /\ ephase' = "open"
          ELSE ephase' = "failed" /\ UNCHANGED enc
    /\ UNCHANGED <<next, nwrites, sent>>

\* make_ext4fs writes a region of the volume past everything written so far.
Write ==
    /\ ephase = "open" /\ nwrites < MaxWrites
    /\ \E off \in next..FsLen - 1, len \in 1..FsLen, k \in CallKinds :
          /\ off % BlkSz = 0 /\ off + len <= FsLen
          /\ enc' \in IF k = "block" THEN WriteDataBlock(enc, off, len)
                                     ELSE WriteDataFile(enc, off, len)
          /\ next' = off + RoundUp(len)
          /\ sent' = sent \cup (off..off + len - 1)
    /\ nwrites' = nwrites + 1
    /\ UNCHANGED ephase

\* make_ext4fs pads the image to the volume size.
Pad ==
    /\ ephase = "open"
    /\ enc' \in PadOutputFile(enc, FsLen)
    /\ ephase' = "padded"
    /\ UNCHANGED <<next, nwrites, sent>>

\* make_ext4fs closes the image.
Close ==
    /\ ephase = "padded"
    /\ enc' \in CloseOutputFile(enc)
    /\ ephase' = "closed"
    /\ UNCHANGED <<next, nwrites, sent>>

EncNext == Open \/ Write \/ Pad \/ Close
=============================================================================
