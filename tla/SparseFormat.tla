---------------------------- MODULE SparseFormat ----------------------------
(***************************************************************************)
(* The sparse image format of spec.md sections 3, 4.2 and 6, shared by the *)
(* writer (ext4_utils/output_file.c) and the reader                        *)
(* (restore_ext4_sparse_ui).  sparse_format.h is not part of the           *)
(* repository, so these are reference definitions, not translations.      *)
(*                                                                         *)
(* A byte of the file system is the value Src(i) of its offset i (never    *)
(* zero), so a restored device shows where every byte came from.  The      *)
(* image body after the 28-byte header is a sequence of items: a chunk     *)
(* header, or one payload byte.  One item stands for the 12-byte chunk     *)
(* header (ChunkHdrLen), so chunk_hdr_sz and total_sz count items.         *)
(***************************************************************************)
EXTENDS Integers, Sequences, SequencesExt

CONSTANTS
    BlkSz,    \* info.block_size, a power of two as make_ext4fs chooses it
    FsLen     \* info.len, the volume size in bytes, a multiple of BlkSz

ASSUME BlkSz \in Nat \ {0} /\ FsLen \in Nat /\ FsLen % BlkSz = 0

ChunkHdrLen == 1   \* CHUNK_HEADER_LEN
Zero == 0          \* a byte of zero_buf
Hole == -1         \* a don't-care byte: the chunk stream says nothing of it
Garbage == -2      \* a chunk header read as payload bytes

Src(i) == i + 1
Values == {Zero, Garbage} \cup {Src(i) : i \in 0..FsLen - 1}

Zeros(n) == [k \in 1..n |-> Zero]
Holes(n) == [k \in 1..n |-> Hole]
Data(off, len) == [k \in 1..len |-> Src(off + k - 1)]

ChunkItem(t, sz, tot) == [kind |-> t, sz |-> sz, tot |-> tot, v |-> 0]
ByteItem(v) == [kind |-> "byte", sz |-> 0, tot |-> 0, v |-> v]
Bytes(s) == [k \in DOMAIN s |-> ByteItem(s[k])]
ValueOf(it) == IF it.kind = "byte" THEN it.v ELSE Garbage

\* The device image a chunk stream describes, don't-care regions as holes;
\* a stream that is not well formed ends in Garbage.
RECURSIVE Decoded(_)
Decoded(b) ==
    IF b = <<>> THEN <<>>
    ELSE LET h == Head(b)
             n == h.sz * BlkSz
         IN CASE h.kind = "raw" /\ Len(b) > n ->
                    [k \in 1..n |-> ValueOf(b[k + 1])] \o Decoded(SubSeq(b, n + 2, Len(b)))
              [] h.kind = "dontcare" -> Holes(n) \o Decoded(Tail(b))
              [] OTHER -> <<Garbage>>

\* The bytes the image checksum covers: don't-care regions count as zeros.
Checksummed(img) == [i \in DOMAIN img |-> IF img[i] = Hole THEN Zero ELSE img[i]]
=============================================================================
