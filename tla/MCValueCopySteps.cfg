\* every source value of two zvals, arrays of up to two elements, with
\* references that may point back (cycles), PHP 8.1
CONSTANTS
    NCells = 2
    MaxElems = 2
    MaxDepth = 4
    AllowCycles = TRUE
    PhpVersion = 80100
    HardCopy = FALSE
    None = None
    Overflow = Overflow
SPECIFICATION Spec
\* the crossing is over once the copy has returned
CHECK_DEADLOCK FALSE
INVARIANT
    TypeOK
PROPERTY
    CopyReturns
