\* Images that cannot be opened, end part way through a chunk or inside a
\* file's data, or repeat a chunk, and failed creat or write calls.
CONSTANTS
    Root = 1
    ChunkBytes = 2
    Sentinel = 65535
    Names = {"a", "b"}
    MaxObjs = 2
    MaxSize = 3
    Damage = {"open", "short", "truncate", "io", "dup"}
SPECIFICATION Spec
\* restore_yaffs2_ui returns: the final states are real.
CHECK_DEADLOCK FALSE
INVARIANT ErrorsReported
