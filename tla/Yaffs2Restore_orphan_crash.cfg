\* Images with one chunk missing, so that a header can name a parent that was never recorded.
CONSTANTS
    Root = 1
    ChunkBytes = 2
    Sentinel = 65535
    Names = {"a", "b"}
    MaxObjs = 2
    MaxSize = 3
    Damage = {"drop"}
SPECIFICATION Spec
\* restore_yaffs2_ui returns: the final states are real.
CHECK_DEADLOCK FALSE
INVARIANT NoCrash
