----------------------------- MODULE SparseCodec -----------------------------
(***************************************************************************)
(* A backup through the image writer of output_file.c followed by a        *)
(* restore of the image it leaves: restore_ext4_sparse_ui for a sparse     *)
(* image, restore_dump_ui for a plain one.  The restore starts once the    *)
(* writer has closed the file, as a backup and a later restore do.         *)
(*                                                                         *)
(* The writer is also shown to implement the abstract image of             *)
(* SparseImage: the mapping reads the volume prefix the chunk stream       *)
(* describes back from the file, and the checksum from its header.         *)
(***************************************************************************)
EXTENDS SparseEncode

CONSTANTS U64Mod, SeekMax, CopyBuf, SkipLoopBound, DecodeFault

VARIABLES dev, dpc, din, didx, dpos, dcrc, dblocks, dresult

ImageFile == [sparse |-> enc.sparse, header |-> enc.header, body |-> enc.body, raw |-> enc.raw]

Dec == INSTANCE SparseDecode WITH image <- ImageFile

vars == <<encVars, dev, dpc, din, didx, dpos, dcrc, dblocks, dresult>>

CodecInit == Init /\ Dec!Init

CodecNext ==
    \/ EncNext /\ UNCHANGED <<dev, dpc, din, didx, dpos, dcrc, dblocks, dresult>>
    \/ ephase = "closed" /\ Dec!DecNext /\ UNCHANGED encVars

CodecSpec == CodecInit /\ [][CodecNext]_vars

\* The refinement mapping: the abstract image is what the chunk stream of
\* a sparse image describes; it is closed, with its checksum, once
\* close_output_file has run.
AbsClosed == enc.sparse /\ ephase = "closed"
Abs == INSTANCE SparseImage WITH
           img <- IF enc.sparse /\ ephase \in {"open", "padded", "closed"}
                  THEN Decoded(enc.body) ELSE <<>>,
           closed <- AbsClosed,
           sum <- IF AbsClosed THEN enc.header.crc ELSE <<>>

-----------------------------------------------------------------------------
Item == [kind : {"raw", "dontcare", "byte"}, sz : 0..FsLen, tot : 0..FsLen + ChunkHdrLen,
         v : Values]
TypeOK ==
    /\ ephase \in {"init", "open", "padded", "closed", "failed"}
    /\ enc.cur \in 0..FsLen /\ enc.cnt \in Nat /\ enc.crc \in Seq(Values)
    /\ enc.body \in Seq(Item) /\ enc.raw \in Seq(Values)
    /\ sent \subseteq 0..FsLen - 1 /\ next \in 0..FsLen /\ nwrites \in 0..MaxWrites
    /\ dev \in [0..FsLen - 1 -> Values \cup {Dec!Old}]
    /\ dpc \in {"idle", "chunks", "done", "hung"}
    /\ dpos \in 0..FsLen /\ dcrc \in Seq(Values)

\* spec.md 8, round trip: when the backup has closed its image and the
\* restore of that image returns 0, every byte make_ext4fs handed to
\* write_data_block or write_data_file is on the volume at its offset.
RoundTrip ==
    ephase = "closed" /\ dpc = "done" /\ dresult = 0 =>
        \A i \in sent : dev[i] = Src(i)

\* spec.md 8: the checksum restore_ext4_sparse_ui folds over the chunks it
\* copies and skips equals the one close_output_file stored in the header,
\* and it counts the blocks the header declares.
ChecksumAgrees ==
    ephase = "closed" /\ enc.sparse /\ dpc = "done" /\ dresult = 0 =>
        /\ dcrc = enc.header.crc
        /\ dblocks = enc.header.total_blks

\* The writer of output_file.c implements SparseImage: every call of
\* write_data_block, pad_output_file and close_output_file changes the
\* image its file describes the way the abstract writer does.
WriterImplementsImage == Abs!Spec
=============================================================================
