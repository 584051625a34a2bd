\* Intact images, and images truncated, ended inside a unit, with one chunk
\* missing or one repeated, and failed opens and writes, of every tree of
\* up to three objects below the root with files of up to 3 bytes.
CONSTANTS
    Root = 1
    ChunkBytes = 2
    Sentinel = 65535
    Names = {"a", "b"}
    MaxObjs = 3
    MaxSize = 3
    Damage = {"truncate", "short", "drop", "dup", "open", "io"}
SPECIFICATION Spec
\* restore_yaffs2_ui returns: the final states are real.
CHECK_DEADLOCK FALSE
INVARIANTS
    TypeOK
    RoundTrip
    PartialIsPrefix
    NoMisplacedObject
