\* A limit on log lines that is shorter than the smallest buffer of bufio; see ExceedsOnlyLast.
SPECIFICATION LogSpec
CONSTANTS
    Bytes = {"x"}
    MaxInput = 18
    MaxLens = {3}
    defaultBufSize = 4096
    minReadBufferSize = 16
INVARIANT ExceedsOnlyLast
