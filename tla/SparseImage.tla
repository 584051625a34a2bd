----------------------------- MODULE SparseImage -----------------------------
(***************************************************************************)
(* What a sparse image writer promises (spec.md 4.2, Encode), with no      *)
(* chunks, cursors or file operations: the image describes a growing       *)
(* prefix of the volume.  A write at or past the end of that prefix adds   *)
(* a hole up to its offset, its bytes, and zeros up to the next block      *)
(* boundary; a pad extends the prefix with a hole to the volume size; the  *)
(* close records the checksum of the bytes the image describes, holes      *)
(* counting as zeros.  SparseCodec shows the writer implements this.       *)
(***************************************************************************)
EXTENDS SparseFormat

VARIABLES
    img,      \* the volume prefix the image describes
    closed,   \* the image has been closed
    sum       \* the checksum recorded at close (a byte sequence)

vars == <<img, closed, sum>>

RoundUpBlk(len) == ((len + BlkSz - 1) \div BlkSz) * BlkSz

Init == img = <<>> /\ closed = FALSE /\ sum = <<>>

Write(off, len) ==
    /\ ~closed
    /\ off >= Len(img) /\ off % BlkSz = 0 /\ off + len <= FsLen
    /\ img' = img \o Holes(off - Len(img)) \o Data(off, len) \o Zeros(RoundUpBlk(len) - len)
    /\ UNCHANGED <<closed, sum>>

Pad ==
    /\ ~closed /\ Len(img) < FsLen
    /\ img' = img \o Holes(FsLen - Len(img))
    /\ UNCHANGED <<closed, sum>>

Close ==
    /\ ~closed
    /\ closed' = TRUE /\ sum' = Checksummed(img)
    /\ UNCHANGED img

Next == (\E off \in 0..FsLen - 1, len \in 1..FsLen : Write(off, len)) \/ Pad \/ Close

Spec == Init /\ [][Next]_vars
=============================================================================
