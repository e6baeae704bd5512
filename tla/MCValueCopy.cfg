\* every acyclic source value of three zvals, arrays of up to two elements;
\* PHP 8.1, interned strings not hard-copied (the default)
CONSTANTS
    NCells = 3
    MaxElems = 2
    MaxDepth = 4
    AllowCycles = FALSE
    PhpVersion = 80100
    HardCopy = FALSE
    None = None
    Overflow = Overflow
SPECIFICATION Spec
\* one copy per source value, then the crossing is done
CHECK_DEADLOCK FALSE
INVARIANTS
    TypeOK
    CopyMatchesSpec
    StaticsKeepEveryName
    AttributeAllOrFatal
