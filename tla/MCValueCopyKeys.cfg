\* as MCValueCopy: every acyclic source value of three zvals on PHP 8.1,
\* here asking who holds the copied string keys
CONSTANTS
    NCells = 3
    MaxElems = 2
    MaxDepth = 4
    AllowCycles = FALSE
    PhpVersion = 80100
    HardCopy = FALSE
    None = None
    Overflow = Overflow
SPECIFICATION Spec
CHECK_DEADLOCK FALSE
INVARIANT
    KeyStringsOwned
