\* the argument layouts of MCArgInfoCopy.cfg, cache sizes up to six slots,
\* PHP 8.1 and 8.2 builds
CONSTANTS
    CacheSizes = {0, 8, 16, 24, 32, 40, 48}
    MaxArgs = 2
    HardCopy = FALSE
    Null = Null
    None = None
SPECIFICATION Spec
\* one copy per source function, then the crossing is done
CHECK_DEADLOCK FALSE
INVARIANTS
    TypeOK
    RuntimeCacheOwned
    ArgSlotsMatch
    MetadataIndependent
