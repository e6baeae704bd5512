\* a closure whose statics may hold a reference back to it, as
\* $f = function () use (&$f) { ... } leaves it; two zvals
CONSTANTS
    NCells = 2
    MaxElems = 1
    MaxDepth = 4
    AllowCycles = TRUE
    PhpVersion = 80100
    HardCopy = FALSE
    None = None
    Overflow = Overflow
SPECIFICATION Spec
CHECK_DEADLOCK FALSE
INVARIANT
    ClosureCopySucceeds
