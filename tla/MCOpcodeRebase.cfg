\* both operand encodings: the build is chosen in Init
CONSTANTS
    MaxOps = 3
    MaxLits = 2
    SrcOps = 4096
    SrcLits = 8192
    Builds <- MCBuilds
    ProgOpcodes <- MCProgOpcodes
SPECIFICATION Spec
\* one copy per source op array, then the copy is done
CHECK_DEADLOCK FALSE
INVARIANTS
    TypeOK
    CopyResolvesLikeSource
