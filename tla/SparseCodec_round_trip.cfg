\* Sparse images, plain and gzip-wrapped, and gzip-wrapped plain images of
\* a 6-byte volume of 2-byte blocks, built from up to three block writes,
\* and their restores, which may fail to open or write.
CONSTANTS
    BlkSz = 2
    FsLen = 6
    Outputs = {"sparse", "sparse_gz", "dump_gz"}
    CallKinds = {"block"}
    MaxWrites = 3
    IoFault = FALSE
    U32Mod = 256
    U64Mod = 1024
    SeekMax = 4
    CopyBuf = 4
    SkipLoopBound = 64
    DecodeFault = TRUE
INIT CodecInit
NEXT CodecNext
\* Every backup ends closed or failed, and every restore returns.
CHECK_DEADLOCK FALSE
INVARIANTS
    TypeOK
    RoundTrip
    ChecksumAgrees
PROPERTIES
    WriterImplementsImage
