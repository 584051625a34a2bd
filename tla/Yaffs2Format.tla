---------------------------- MODULE Yaffs2Format ----------------------------
(***************************************************************************)
(* The sequential-log ("yaffs2") image format as spec.md section 3 and     *)
(* section 4.1 describe it, as a reference for the decoder in              *)
(* restore_yaffs2_ui.  The encoder (mkyaffs2image) is not part of the      *)
(* repository, so nothing here is translated from code: these are the      *)
(* reference definitions the decoder is checked against.                   *)
(*                                                                         *)
(* A directory tree is a sequence of objects in the order the encoder      *)
(* emits them: the root directory header first, then each object's header *)
(* followed, for a regular file, by its data chunks.  A chunk is a unit:   *)
(* its tag byte count (the sentinel for an object header), the header it   *)
(* carries, and its payload bytes.  A byte of a file is the token          *)
(* <<id, k>> (byte k of object id), so a decoded file shows where every    *)
(* byte it holds came from.                                                *)
(***************************************************************************)
EXTENDS Integers, Sequences, SequencesExt

CONSTANTS
    Root,        \* YAFFS2_YAFFS_OBJECTID_ROOT
    ChunkBytes,  \* YAFFS2_CHUNK_SIZE, scaled down
    Sentinel,    \* the tag byte count 0xffff that marks an object header
    Names,       \* object names other than the root header's empty name
    MaxObjs,     \* bound on the objects of a tree, root header excluded
    MaxSize      \* bound on a file's size in bytes

ASSUME Root \in Nat /\ ChunkBytes \in Nat \ {0} /\ Sentinel > ChunkBytes
ASSUME MaxObjs \in Nat /\ MaxSize \in Nat

Types == {"file", "dir", "symlink", "hardlink", "special"}
Ids == Root + 1 .. Root + MaxObjs

\* Payload bytes that are not file data.
HdrByte == <<0, 0>>     \* a byte of a serialised object header
PadByte == <<0, 1>>     \* padding after the last byte of a file
OverRead == <<0, 2>>    \* a byte read past the end of the chunk buffer
Tokens == (Ids \X (1..MaxSize)) \cup {HdrByte, PadByte, OverRead}

Header == [id : Ids \cup {Root}, type : Types, parent : Ids \cup {Root},
           name : Names \cup {""}, size : 0..MaxSize, equiv : Ids \cup {0}]
NoHeader == [id |-> 0, type |-> "none", parent |-> 0, name |-> "",
             size |-> 0, equiv |-> 0]
RootHeader == [id |-> Root, type |-> "dir", parent |-> Root, name |-> "",
               size |-> 0, equiv |-> 0]

MinOf(a, b) == IF a < b THEN a ELSE b
NChunks(n) == (n + ChunkBytes - 1) \div ChunkBytes
FileBytes(o) == [k \in 1..o.size |-> <<o.id, k>>]

HeaderUnit(o) == [full |-> TRUE, bc |-> Sentinel, oh |-> o,
                  bytes |-> [j \in 1..ChunkBytes |-> HdrByte]]
DataUnit(o, c) ==
    LET base == (c - 1) * ChunkBytes
    IN [full |-> TRUE, bc |-> MinOf(ChunkBytes, o.size - base), oh |-> NoHeader,
        bytes |-> [j \in 1..ChunkBytes |->
                     IF base + j <= o.size THEN <<o.id, base + j>> ELSE PadByte]]

\* The image of a tree: every header followed by its file's data chunks.
Encode(T) ==
    LET obj(o) == <<HeaderUnit(o)>> \o
                  (IF o.type = "file" THEN [c \in 1..NChunks(o.size) |-> DataUnit(o, c)]
                                      ELSE <<>>)
    IN FlattenSeq([k \in 1..Len(T) |-> obj(T[k])])

\* The trees the encoder can produce with ids assigned in emission order:
\* parents are directories emitted earlier, siblings have distinct names,
\* and a hard link points to a file emitted earlier.
NextObjects(T) ==
    LET id == Root + Len(T)
        dirs == {T[k].id : k \in {k \in 1..Len(T) : T[k].type = "dir"}}
        files == {T[k].id : k \in {k \in 1..Len(T) : T[k].type = "file"}}
        free(p) == Names \ {T[k].name : k \in {k \in 2..Len(T) : T[k].parent = p}}
        sizes(t) == IF t = "file" THEN 0..MaxSize ELSE {0}
        equivs(t) == IF t = "hardlink" THEN files ELSE {0}
    IN  UNION {{[id |-> id, type |-> t, parent |-> p, name |-> n, size |-> sz, equiv |-> e] :
                  n \in free(p), sz \in sizes(t), e \in equivs(t)} : t \in Types, p \in dirs}
RECURSIVE TreesUpTo(_)
TreesUpTo(n) ==
    IF n = 0 THEN {<<RootHeader>>}
    ELSE LET prev == TreesUpTo(n - 1)
         IN prev \cup UNION {{Append(T, o) : o \in NextObjects(T)} :
                              T \in {T \in prev : Len(T) = n}}
Trees == TreesUpTo(MaxObjs)

\* The path of object id in tree T, resolved through its parents.
ObjOf(T, id) == T[CHOOSE k \in 1..Len(T) : T[k].id = id]
RECURSIVE PathIn(_, _)
PathIn(T, id) == IF id = Root THEN <<>>
                 ELSE Append(PathIn(T, ObjOf(T, id).parent), ObjOf(T, id).name)

\* What restoring T must leave: each object's path holds an entry of its
\* kind; a hard link is its target's entry; special objects leave nothing.
EntryOf(T, o) ==
    CASE o.type = "hardlink" -> [kind |-> "file", ino |-> o.equiv]
      [] OTHER               -> [kind |-> o.type, ino |-> o.id]
ExpectedFs(T) ==
    LET objs == {T[k] : k \in 1..Len(T)}
        made == {o \in objs : o.type # "special"}
    IN [p \in {PathIn(T, o.id) : o \in made} |->
            EntryOf(T, CHOOSE o \in made : PathIn(T, o.id) = p)]
=============================================================================
