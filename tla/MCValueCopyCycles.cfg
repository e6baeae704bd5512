\* as MCValueCopy, but a reference may name a cell that contains it:
\* $a = []; $a[0] = &$a; captured by a closure, stored as a static, ...
CONSTANTS
    NCells = 3
    MaxElems = 2
    MaxDepth = 4
    AllowCycles = TRUE
    PhpVersion = 80100
    HardCopy = FALSE
    None = None
    Overflow = Overflow
SPECIFICATION Spec
CHECK_DEADLOCK FALSE
INVARIANT
    CopyTerminates
