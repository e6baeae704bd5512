\* a1 lives first; a2 can only be defined once a1 is freed
CONSTANTS
    a1 = a1
    a2 = a2
    fileA = fileA
    fileB = fileB
    addr1 = addr1
    None = None
    NoRc = NoRc
    Functions <- MCFunctions
    Addr <- MCAddr
    Files = {fileA, fileB}
    PlainFiles = {fileA, fileB}
    Fn <- MCFn
    InitLive = {a1}
    MaxRequests = 2
SPECIFICATION ReuseSpec
CHECK_DEADLOCK FALSE
INVARIANT
    ReturnsCopyOfRequested
