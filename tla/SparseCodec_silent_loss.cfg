\* Every output open_output_file offers, write_data_file as well as
\* write_data_block, and open, write, seek and mmap calls that fail: a
\* backup that loses data without a failed call reaching make_ext4fs.
CONSTANTS
    BlkSz = 2
    FsLen = 6
    Outputs = {"sparse", "sparse_gz", "dump", "dump_gz"}
    CallKinds = {"block", "file"}
    MaxWrites = 3
    IoFault = TRUE
    U32Mod = 256
    U64Mod = 1024
    SeekMax = 4
    CopyBuf = 4
    SkipLoopBound = 64
    DecodeFault = FALSE
INIT CodecInit
NEXT CodecNext
\* Every backup ends closed or failed, and every restore returns.
CHECK_DEADLOCK FALSE
INVARIANT RoundTrip
