CONSTANTS
    f1 = f1
    g1 = g1
    k1 = k1
    k2 = k2
    h1 = h1
    s1 = s1
    i1 = i1
    m1 = m1
    bad = bad
    n1 = n1
    fileA = fileA
    fileB = fileB
    None = None
    NoRc = NoRc
    Functions <- MCFunctions
    Files = {fileA, fileB}
    PlainFiles = {fileA}
    Addr <- MCAddr
    Fn <- MCFn
    MaxRequests = 4
SPECIFICATION Spec
\* a destination makes finitely many crossings, and an E_CORE_ERROR ends it
CHECK_DEADLOCK FALSE
INVARIANT
    StaticsFreshPerRequest
