---------------------------- MODULE OpArrayMapPtrs ----------------------------
(***************************************************************************)
(* The two map pointers of a copied user function: run_time_cache          *)
(* (src/src/copy.c, lines 578-600) and static_variables_ptr (lines         *)
(* 657-662), as built by the PHP 8.1 and the PHP 8.2 branches of the code, *)
(* and as read back through PTHREADS_MAP_PTR_GET (src/src/pthreads.h,      *)
(* lines 150-160).                                                         *)
(*                                                                         *)
(* Memory is a sequence of blocks, each with an owner, a size in bytes and *)
(* its pointer-sized words keyed by byte offset.  An address is a block    *)
(* and an offset; FieldOf(x) is &op_array->static_variables of op_array x. *)
(* Both map pointers are overwritten by ZEND_MAP_PTR_INIT with a real      *)
(* pointer or NULL, so the offset form (ZEND_MAP_PTR_IS_OFFSET) that the   *)
(* memcpy of line 564 may have brought from the source never survives, and *)
(* only the pointer branches of the macro are reached.                     *)
(***************************************************************************)
EXTENDS Naturals, Sequences

CONSTANTS
    CacheSizes,   \* op_array->cache_size values, multiples of sizeof(void*)
    Null

PtrSize == 8      \* sizeof(void*)

\* what reading a word outside any block, or through NULL, gives
Fault == [fault |-> "read"]

Addr(b, o) == [blk |-> b, off |-> o]
FieldOf(x) == [field |-> "static_variables", of |-> x]

Block(owner, size) ==
    [owner |-> owner, size |-> size,
     val |-> [o \in {k * PtrSize : k \in 0..(size \div PtrSize) - 1} |-> Null]]

\* block 1 is the source op_array's static_variables table
SrcStatics == 1

\* the source op_array: its ZEND_ACC_HEAP_RT_CACHE flag, cache_size and
\* static_variables
SrcOpArrays ==
    [heapRt: BOOLEAN, cacheSize: CacheSizes, statics: {Null, Addr(SrcStatics, 0)}]

VARIABLES
    build,   \* PHP_VERSION_ID of the build: 80100 or 80200
    mem,     \* the blocks
    src,     \* the source op_array
    copy     \* Null before the copy, then its run_time_cache,
             \* static_variables_ptr and static_variables

vars == <<build, mem, src, copy>>

-----------------------------------------------------------------------------
\* *p: a word of a block, or the field op_array->static_variables
Deref(m, c, p) ==
    CASE p = Null -> Fault
      [] "field" \in DOMAIN p -> IF p.of = "copy" THEN c.statics ELSE src.statics
      [] p.blk \in DOMAIN m /\ p.off \in DOMAIN m[p.blk].val -> m[p.blk].val[p.off]
      [] OTHER -> Fault

\* mutant: the pre-8.2 form, which dereferences the map pointer, in 8.2
PthreadsMapPtrGetDeref(m, c, p) == Deref(m, c, p)

\* PTHREADS_MAP_PTR_GET on a pointer (not an offset) map pointer: from 8.2
\* the map pointer is the value, before 8.2 it points at the slot holding it
PthreadsMapPtrGet(m, c, p) == IF build >= 80200 THEN p ELSE Deref(m, c, p)

\* ZEND_MAP_PTR_SET on a pointer map pointer before 8.2: write its slot
MapPtrSet(m, p, v) == [m EXCEPT ![p.blk].val[p.off] = v]

\* mutant: ecalloc(1, cache_size) before 8.2, leaving no room for the slot
CopyRunTimeCacheNoSlot(s, m) ==
    LET b == Len(m) + 1 IN
    CASE s.heapRt /\ build >= 80200 ->
              [rtc |-> Addr(b, 0), mem |-> Append(m, Block("copy", s.cacheSize))]
      [] s.heapRt ->
              [rtc |-> Addr(b, 0),
               mem |-> MapPtrSet(Append(m, Block("copy", s.cacheSize)), Addr(b, 0), Addr(b, PtrSize))]
      [] build >= 80200 -> [rtc |-> Null, mem |-> m]
      [] OTHER ->
              [rtc |-> Addr(b, 0), mem |-> MapPtrSet(Append(m, Block("arena", PtrSize)), Addr(b, 0), Null)]

\* lines 579-600: with ZEND_ACC_HEAP_RT_CACHE the copy gets a zeroed cache
\* of its own; before 8.2 the block also holds, in front, the slot the map
\* pointer names, set to the cache after it.  Otherwise 8.2 stores NULL and
\* 8.1 points at an arena slot holding NULL.
CopyRunTimeCache(s, m) ==
    LET b == Len(m) + 1 IN
    CASE s.heapRt /\ build >= 80200 ->
              [rtc |-> Addr(b, 0), mem |-> Append(m, Block("copy", s.cacheSize))]
      [] s.heapRt ->
              [rtc |-> Addr(b, 0),
               mem |-> MapPtrSet(Append(m, Block("copy", PtrSize + s.cacheSize)), Addr(b, 0), Addr(b, PtrSize))]
      [] build >= 80200 -> [rtc |-> Null, mem |-> m]
      [] OTHER ->
              [rtc |-> Addr(b, 0), mem |-> MapPtrSet(Append(m, Block("arena", PtrSize)), Addr(b, 0), Null)]

\* line 657: a new statics table (pthreads_copy_statics) when there is one
CopyStaticsTable(s, m) ==
    IF s.statics = Null THEN [statics |-> Null, mem |-> m]
    ELSE [statics |-> Addr(Len(m) + 1, 0), mem |-> Append(m, Block("copy", PtrSize))]

\* lines 658-662: NULL from 8.2, &op_array->static_variables before
InitStaticsPtr == IF build >= 80200 THEN Null ELSE FieldOf("copy")

Init ==
    /\ build \in {80100, 80200}
    /\ mem = <<Block("src", PtrSize)>>
    /\ src \in SrcOpArrays
    /\ copy = Null

\* the map-pointer part of pthreads_copy_user_function: lines 578-600,
\* then 657-662
CopyMapPtrs ==
    /\ copy = Null
    /\ LET r == CopyRunTimeCache(src, mem)
           t == CopyStaticsTable(src, r.mem)
       IN /\ mem' = t.mem
          /\ copy' = [rtc |-> r.rtc, svp |-> InitStaticsPtr, statics |-> t.statics]
    /\ UNCHANGED <<build, src>>

Next == CopyMapPtrs

Spec == Init /\ [][Next]_vars

-----------------------------------------------------------------------------
\* an address whose word lies inside its block
InBlock(m, p) == p.blk \in DOMAIN m /\ p.off + PtrSize <= m[p.blk].size

\* every stored pointer points into (or just past) a block; before 8.2 the
\* copy's run_time_cache is a slot inside its block
TypeOK ==
    /\ \A b \in DOMAIN mem : \A o \in DOMAIN mem[b].val :
          LET v == mem[b].val[o]
          IN v = Null \/ (v.blk \in DOMAIN mem /\ v.off <= mem[v.blk].size)
    /\ copy # Null /\ build < 80200 => InBlock(mem, copy.rtc)

(* Runtime cache (lines 578-600, "we never want to share the same runtime  *)
(* cache"): read as PTHREADS_MAP_PTR_GET reads it, the copy's              *)
(* run_time_cache is NULL when the source has no heap cache, and otherwise *)
(* a zeroed area of cache_size bytes inside a block the copy allocated.    *)
RuntimeCacheOwned ==
    copy # Null =>
        LET c == PthreadsMapPtrGet(mem, copy, copy.rtc)
        IN IF ~src.heapRt THEN c = Null
           ELSE /\ c \notin {Null, Fault}
                /\ mem[c.blk].owner = "copy"
                /\ c.off + src.cacheSize <= mem[c.blk].size
                /\ \A o \in DOMAIN mem[c.blk].val : o >= c.off => mem[c.blk].val[o] = Null

=============================================================================
