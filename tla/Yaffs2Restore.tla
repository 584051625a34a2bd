--------------------------- MODULE Yaffs2Restore ---------------------------
(***************************************************************************)
(* restore_yaffs2_ui (restore.c): the decoder that replays a sequential-   *)
(* log image into a mounted directory.  yaffs2_init_state seeds obj_list   *)
(* with the root; the main loop reads a chunk and processes it; an object  *)
(* header creates its object, and a file header runs a nested loop that    *)
(* reads the file's data chunks.  The input is an image the reference      *)
(* encoder made from a tree, possibly damaged as Damage allows:            *)
(*   "truncate"  the file ends after some whole chunk,                     *)
(*   "short"     the file ends part way through a chunk,                   *)
(*   "drop"      one chunk is missing,  "dup"  one chunk is repeated,      *)
(*   "open"      allocating the state, open() or gzdopen() fails,          *)
(*   "io"        creat, mkdir, symlink, link or write fails (a full or     *)
(*               read-only destination).                                   *)
(* Ownership, modes and timestamps (lchown, chmod, utimes), whose results  *)
(* the code ignores, and progress reporting are left out.                  *)
(***************************************************************************)
EXTENDS Yaffs2Format

CONSTANT Damage
ASSUME Damage \subseteq {"truncate", "short", "drop", "dup", "open", "io"}

ENOMEM == 12
EIO == 5

VARIABLES
    tree,     \* the tree the image was made from (history, never changes)
    stream,   \* the units of the image file, in the order gzread returns them
    pos,      \* the index of the unit the next gzread returns
    objList,  \* state->obj_list: object id -> path, for the ids set so far
    fs,       \* the destination directory: path -> [kind, ino]
    content,  \* the bytes of each regular file, by inode
    out,      \* the data loop's out_file: the inode written, and ok = FALSE for -1
    remain,   \* the data loop's remain
    pc,       \* "open", "read" (main loop), "data" (file loop), "done", "crashed"
    result,   \* what restore_yaffs2_ui returns
    err       \* the first condition spec.md calls an error, or "none" (history)

vars == <<tree, stream, pos, objList, fs, content, out, remain, pc, result, err>>

IoFault == "io" \in Damage
ShortUnit == [full |-> FALSE, bc |-> 0, oh |-> NoHeader,
              bytes |-> [j \in 1..ChunkBytes |-> PadByte]]

\* The images considered for tree T.
Damaged(img) ==
    {img}
    \cup (IF "truncate" \in Damage THEN {SubSeq(img, 1, l) : l \in 0..Len(img) - 1} ELSE {})
    \cup (IF "short" \in Damage
          THEN {Append(SubSeq(img, 1, l), ShortUnit) : l \in 0..Len(img) - 1} ELSE {})
    \cup (IF "drop" \in Damage THEN {RemoveAt(img, i) : i \in 1..Len(img)} ELSE {})
    \cup (IF "dup" \in Damage THEN {InsertAt(img, i, img[i]) : i \in 1..Len(img)} ELSE {})

\* yaffs2_read_chunk returns 0 only when gzread delivered a whole unit.
Full(i) == i <= Len(stream) /\ stream[i].full

\* An error spec.md 4.3 and 7 say must abort the restore with an error.
Fatal(e) == err' = IF err = "none" THEN e ELSE err

\* strcpy(parent path); strcat("/"); strcat(name): a trailing "/" with an
\* empty name names the parent directory itself.
JoinPath(p, n) == IF n = "" THEN p ELSE Append(p, n)
\* Mutant: the path built from the root directory instead of the parent's.
ObjectPathFromRoot(oh) == JoinPath(objList[Root], oh.name)
ObjectPath(oh) == JoinPath(objList[oh.parent], oh.name)

ParentDir(p) == SubSeq(p, 1, Len(p) - 1)
\* mkdir, symlink, link and creat of a new name succeed when the name is
\* free and its parent is a directory; an "io" fault may make any fail.
CanCreate(p) ==
    /\ p \notin DOMAIN fs
    /\ Len(p) > 0 /\ ParentDir(p) \in DOMAIN fs /\ fs[ParentDir(p)].kind = "dir"
MakeEntry(p, e, ok) == fs' = IF ok /\ CanCreate(p) THEN (p :> e) @@ fs ELSE fs

Init ==
    /\ tree \in Trees
    /\ stream \in Damaged(Encode(tree))
    /\ pos = 1
    /\ objList = (Root :> <<>>)
    /\ fs = (<<>> :> [kind |-> "dir", ino |-> Root])
    /\ content = [i \in Ids |-> <<>>]
    /\ out = [ino |-> Root, ok |-> FALSE]
    /\ remain = 0
    /\ pc = "open"
    /\ result = 0
    /\ err = "none"

\* Mutant: a failed gzdopen() returns -1 instead of errno.
OpenFailsWithMinusOne ==
    /\ pc = "open"
    /\ \/ /\ pc' = "read"
          /\ UNCHANGED <<result, err>>
       \/ /\ "open" \in Damage
          /\ result' \in {ENOMEM, 0, -1}
          /\ pc' = "done"
          /\ Fatal("open")
    /\ UNCHANGED <<tree, stream, pos, objList, fs, content, out, remain>>

\* yaffs2_init_state, then open(), fstat() and gzdopen() of the image.
\* A failed malloc returns ENOMEM; a failed open() only logs, so the 0
\* yaffs2_init_state returned is what the caller gets; a failed gzdopen()
\* returns errno.
Open ==
    /\ pc = "open"
    /\ \/ /\ pc' = "read"
          /\ UNCHANGED <<result, err>>
       \/ /\ "open" \in Damage
          /\ result' \in {ENOMEM, 0, EIO}
          /\ pc' = "done"
          /\ Fatal("open")
    /\ UNCHANGED <<tree, stream, pos, objList, fs, content, out, remain>>

\* The main loop reads a unit whose byte count is not the sentinel:
\* yaffs2_process_chunk does nothing with it.
SkipDataChunk ==
    /\ pc = "read" /\ Full(pos) /\ stream[pos].bc # Sentinel
    /\ pos' = pos + 1
    /\ Fatal("desync")
    /\ UNCHANGED <<tree, stream, objList, fs, content, out, remain, pc, result>>

\* A header whose parent id has no obj_list entry: strlen(NULL) kills
\* the process.
CrashOnOrphan ==
    /\ pc = "read" /\ Full(pos) /\ stream[pos].bc = Sentinel
    /\ stream[pos].oh.parent \notin DOMAIN objList
    /\ pos' = pos + 1
    /\ pc' = "crashed"
    /\ UNCHANGED <<tree, stream, objList, fs, content, out, remain, result, err>>

\* Mutant: the file loop written as do { ... } while (remain > 0).
CreatDoWhile(oh, p, ok) ==
    LET old == p \in DOMAIN fs /\ fs[p].kind = "file"
        opened == ok /\ (old \/ CanCreate(p))
        ino == IF old THEN fs[p].ino ELSE oh.id
    IN /\ MakeEntry(p, [kind |-> "file", ino |-> oh.id], ok)
       /\ content' = IF opened THEN [content EXCEPT ![ino] = <<>>] ELSE content
       /\ out' = [ino |-> ino, ok |-> opened]
       /\ remain' = oh.size
       /\ pc' = "data"

\* creat(): a new file, or an existing file truncated; the data loop runs
\* while remain > 0 and closes the file when it is done.
Creat(oh, p, ok) ==
    LET old == p \in DOMAIN fs /\ fs[p].kind = "file"
        opened == ok /\ (old \/ CanCreate(p))
        ino == IF old THEN fs[p].ino ELSE oh.id
    IN /\ MakeEntry(p, [kind |-> "file", ino |-> oh.id], ok)
       /\ content' = IF opened THEN [content EXCEPT ![ino] = <<>>] ELSE content
       /\ out' = [ino |-> ino, ok |-> opened]
       /\ remain' = oh.size
       /\ pc' = IF oh.size > 0 THEN "data" ELSE "read"

\* link(obj_list[equivalentObjectId], path); link(NULL, ...) fails.
Link(oh, p, ok) ==
    LET target == objList[oh.equiv]
    IN IF oh.equiv \in DOMAIN objList /\ target \in DOMAIN fs /\ fs[target].kind # "dir"
       THEN MakeEntry(p, fs[target], ok)
       ELSE UNCHANGED fs

\* yaffs2_process_chunk on an object header: record the path under the
\* header's object id, then create the object by type.
ProcessHeader ==
    /\ pc = "read" /\ Full(pos) /\ stream[pos].bc = Sentinel
    /\ stream[pos].oh.parent \in DOMAIN objList
    /\ pos' = pos + 1
    /\ LET oh == stream[pos].oh
           p == ObjectPath(oh)
       IN /\ objList' = (oh.id :> p) @@ objList
          /\ \E ok \in IF IoFault /\ oh.type # "special" THEN BOOLEAN ELSE {TRUE} :
               /\ \/ /\ oh.type = "file"
                     /\ Creat(oh, p, ok)
                  \/ /\ oh.type \in {"dir", "symlink"}
                     /\ MakeEntry(p, [kind |-> oh.type, ino |-> oh.id], ok)
                     /\ UNCHANGED <<content, out, remain, pc>>
                  \/ /\ oh.type = "hardlink"
                     /\ Link(oh, p, ok)
                     /\ UNCHANGED <<content, out, remain, pc>>
                  \/ /\ oh.type = "special"
                     /\ UNCHANGED <<fs, content, out, remain, pc>>
               /\ IF ok THEN UNCHANGED err ELSE Fatal("io")
    /\ UNCHANGED <<tree, stream, result>>

\* Mutant: the whole chunk buffer written instead of s bytes of it.
WrittenWholeChunk(u, s) == u.bytes

\* The payload write(out_file, chunk_data, s) takes: s bytes from the
\* chunk buffer, and past its end whatever follows it in memory.
Written(u, s) == [j \in 1..s |-> IF j <= ChunkBytes THEN u.bytes[j] ELSE OverRead]

\* One pass of the file loop with a whole unit read: write
\* s = min(remain, byteCount) bytes of it.  A failed write (or out_file
\* -1 from a failed creat) returns from yaffs2_process_chunk unclosed.
WriteChunk ==
    /\ pc = "data" /\ Full(pos)
    /\ pos' = pos + 1
    /\ LET u == stream[pos]
           s == MinOf(remain, u.bc)
       IN \/ /\ out.ok
             /\ content' = [content EXCEPT ![out.ino] = @ \o Written(u, s)]
             /\ remain' = remain - s
             /\ pc' = IF remain - s = 0 THEN "read" ELSE "data"
             /\ UNCHANGED err
          \/ /\ ~out.ok \/ IoFault
             /\ pc' = "read"
             /\ Fatal("io")
             /\ UNCHANGED <<content, remain>>
    /\ UNCHANGED <<tree, stream, objList, fs, out, result>>

\* The file loop's yaffs2_read_chunk fails: yaffs2_process_chunk returns
\* and the main loop reads again.
DataEnds ==
    /\ pc = "data" /\ ~Full(pos)
    /\ pc' = "read"
    /\ Fatal(IF pos <= Len(stream) THEN "short" ELSE "truncated")
    /\ UNCHANGED <<tree, stream, pos, objList, fs, content, out, remain, result>>

\* The main loop's yaffs2_read_chunk returns -1, on end of file, on a
\* short read and on a read error alike; gzclose, result = 0 and
\* yaffs2_term_state follow.
StreamEnds ==
    /\ pc = "read" /\ ~Full(pos)
    /\ pc' = "done"
    /\ result' = 0
    /\ IF pos <= Len(stream) THEN Fatal("short") ELSE UNCHANGED err
    /\ UNCHANGED <<tree, stream, pos, objList, fs, content, out, remain>>

Next ==
    \/ Open
    \/ SkipDataChunk
    \/ CrashOnOrphan
    \/ ProcessHeader
    \/ WriteChunk
    \/ DataEnds
    \/ StreamEnds

Spec == Init /\ [][Next]_vars

-----------------------------------------------------------------------------
PCs == {"open", "read", "data", "done", "crashed"}
TypeOK ==
    /\ pos \in 1..Len(stream) + 1
    /\ \A id \in DOMAIN objList : id \in Ids \cup {Root} /\ objList[id] \in Seq(Names)
    /\ \A p \in DOMAIN fs : fs[p] \in [kind : {"file", "dir", "symlink"}, ino : Ids \cup {Root}]
    /\ content \in [Ids -> Seq(Tokens)]
    /\ out \in [ino : Ids \cup {Root}, ok : BOOLEAN]
    /\ remain \in 0..MaxSize
    /\ pc \in PCs
    /\ result \in {0, ENOMEM, EIO}
    /\ err \in {"none", "open", "desync", "io", "short", "truncated"}

\* Round trip (spec.md 8): when the image is exactly what the encoder made
\* of the tree and no call failed, the restore returns 0 having rebuilt
\* every path with its kind and link target, and every file's bytes.
RoundTrip ==
    pc = "done" /\ stream = Encode(tree) /\ err = "none" =>
        /\ result = 0
        /\ fs = ExpectedFs(tree)
        /\ \A k \in 1..Len(tree) :
              tree[k].type = "file" => content[tree[k].id] = FileBytes(tree[k])

\* The image cut short: whole, ended after some units, or ended inside one.
CutShort(img) ==
    {SubSeq(img, 1, l) : l \in 0..Len(img)}
    \cup {Append(SubSeq(img, 1, l), ShortUnit) : l \in 0..Len(img) - 1}

\* An image cut short, and calls that fail, leave a part of the tree: at
\* every step each path the restore has made is one the tree has, of the
\* same kind and link target, and each file holds a prefix of its bytes
\* (spec.md 4.3: "leaving whatever was already written on disk").
PartialIsPrefix ==
    LET exp == ExpectedFs(tree)
    IN stream \in CutShort(Encode(tree)) => \A p \in DOMAIN fs :
          /\ p \in DOMAIN exp /\ fs[p] = exp[p]
          /\ fs[p].kind = "file" =>
                IsPrefix(content[fs[p].ino], FileBytes(ObjOf(tree, fs[p].ino)))

\* Whatever chunks are missing or repeated, every object the restore
\* records or creates is at the path the tree gives its id, with the
\* tree's kind and link target: damage loses objects, never misplaces one.
NoMisplacedObject ==
    LET exp == ExpectedFs(tree)
    IN /\ \A id \in DOMAIN objList : objList[id] = PathIn(tree, id)
       /\ \A p \in DOMAIN fs : p \in DOMAIN exp /\ fs[p] = exp[p]

\* spec.md 4.3 and 7: a short read, a chunk that is not a header outside a
\* file's data, an end of file inside a file's data, and a failed open or
\* write abort the restore with an error: restore_yaffs2_ui then does not
\* return 0.
ErrorsReported == pc = "done" /\ err # "none" => result # 0

\* spec.md 7: a corrupt image aborts the restore with an error line; the
\* decoder never takes the recovery process down.
NoCrash == pc # "crashed"
=============================================================================
