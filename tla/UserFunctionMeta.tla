--------------------------- MODULE UserFunctionMeta ---------------------------
(***************************************************************************)
(* The op_array metadata half of pthreads_copy_user_function              *)
(* (src/src/copy.c, lines 578-662) as one step: the runtime cache map      *)
(* pointer (OpArrayMapPtrs, lines 578-600), the arg_info and compiled      *)
(* variable names (ArgInfoCopy, lines 645 and 648), then the statics and   *)
(* their map pointer (OpArrayMapPtrs, lines 657-662).  The build, 8.1 or  *)
(* 8.2, is chosen in Init and decides the map-pointer layout.  The string  *)
(* copies of ArgInfoCopy only tell builds before 8.1 from the others       *)
(* (pthreads_copy_string, lines 28-45), so it is instantiated at 8.1 for   *)
(* both.                                                                   *)
(***************************************************************************)
CONSTANTS CacheSizes, MaxArgs, HardCopy, Null, None

VARIABLES
    build,     \* PHP_VERSION_ID of the build
    mem,       \* OpArrayMapPtrs: the memory blocks
    src,       \* OpArrayMapPtrs: the source op_array's cache and statics
    mpCopy,    \* OpArrayMapPtrs: the copy's map pointers and statics
    layout,    \* ArgInfoCopy: the source's arg_info memory
    cvars,     \* ArgInfoCopy: the source's compiled variable names
    aiCopy     \* ArgInfoCopy: the copied arg_info and names

allVars == <<build, mem, src, mpCopy, layout, cvars, aiCopy>>

MP == INSTANCE OpArrayMapPtrs WITH copy <- mpCopy
AI == INSTANCE ArgInfoCopy WITH PhpVersion <- 80100, vars <- cvars, copy <- aiCopy

Init == MP!Init /\ AI!Init

\* lines 578-662: both parts are copied by the same call, in code order
CopyOpArrayMeta == MP!CopyMapPtrs /\ AI!CopyMetadata

Next == CopyOpArrayMeta

Spec == Init /\ [][Next]_allVars

-----------------------------------------------------------------------------
\* both parts well-typed and every stored pointer inside its block
TypeOK == MP!TypeOK /\ AI!TypeOK

(* The copy's runtime cache, read through PTHREADS_MAP_PTR_GET, is NULL    *)
(* or a zeroed cache of cache_size bytes of its own (lines 578-600).       *)
RuntimeCacheOwned == MP!RuntimeCacheOwned

(* Reading the copied arg_info at every index the engine uses gives an     *)
(* entry shaped like the source's (pthreads_copy_arginfo, lines 512-535).  *)
ArgSlotsMatch == AI!ArgSlotsMatch

(* No type list or name of the copied metadata is source memory           *)
(* (pthreads_copy_zend_type and the name copies, lines 484-528, 338-339).  *)
MetadataIndependent == AI!MetadataIndependent

=============================================================================
