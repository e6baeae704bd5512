----------------------------- MODULE ValueCopy -----------------------------
(***************************************************************************)
(* The value replicator of src/src/copy.c: pthreads_copy_string,           *)
(* pthreads_copy_zval, pthreads_copy_hash and pthreads_copy_statics.       *)
(*                                                                         *)
(* The source is a small heap of zvals ("cells").  An array's buckets name *)
(* the cells of its elements; a REFERENCE cell names the cell holding the  *)
(* referenced value (zend_reference.val).  Arrays only contain cells of a  *)
(* higher number, so, as in PHP, any cycle passes through a reference.     *)
(* The copy is a tree of records.  Recursion depth is counted: the C stack *)
(* is finite, and a copy that needs more than MaxDepth nested calls is a   *)
(* stack overflow (Overflow).  Constant-expression trees are AstCopy's     *)
(* business and succeed here.  A closure object carries the statics table  *)
(* of its function (zend_closure.func.op_array.static_variables), where    *)
(* the engine keeps the variables bound by `use`: copying the closure      *)
(* copies its function (line 86), and with it that table                  *)
(* (pthreads_copy_user_function, line 657), every time, since closures are *)
(* neither looked up (line 684) nor registered (lines 705-706) in the      *)
(* resolve table.  The rest of the function copy is FunctionCopy's and     *)
(* succeeds here.                                                          *)
(***************************************************************************)
EXTENDS Naturals, Sequences, FiniteSets

CONSTANTS
    NCells,        \* cells of the source heap; cell 1 is the value copied
    MaxElems,      \* bound on the elements of one array
    MaxDepth,      \* nested pthreads_copy_zval calls before the stack ends
    AllowCycles,   \* whether references may point back (cyclic values)
    PhpVersion,    \* PHP_VERSION_ID the extension is built against
    HardCopy,      \* PTHREADS_ZG(hard_copy_interned_strings)
    None,
    Overflow       \* the thread died of a stack overflow

Cells == 1..NCells

\* a string: not interned, interned in the request, interned in opcache SHM
\* (IS_STR_PERMANENT)
StrKinds == {"plain", "interned", "permanent"}
\* a bucket key: an integer, or a string of some kind (the source's own)
Keys == [int: {0, 1}] \cup [str: [kind: StrKinds]]
Classes == {"threaded", "closure", "other"}
\* the name of a variable bound by a closure (compiled names are interned)
UseName == [str |-> [kind |-> "interned"]]

\* the zvals a cell can hold; Targets(i) are the cells a reference at i may
\* name, Children(i) the cells an array at i may contain
Targets(i) == {j \in Cells : j # i /\ (AllowCycles \/ j > i)}
Children(i) == {j \in Cells : j > i}

DistinctKeys(s) == \A a, b \in DOMAIN s : a # b => s[a].key # s[b].key

Zvals(i) ==
    {[type |-> t] : t \in {"NULL", "LONG", "RESOURCE", "CONSTANT_AST"}}
    \cup [type: {"STRING"}, kind: StrKinds]
    \cup [type: {"OBJECT"}, class: Classes \ {"closure"}]
    \cup {[type |-> "OBJECT", class |-> "closure", statics |-> s] :
            s \in UNION {[1..n -> [key: {UseName}, cell: Children(i)]] : n \in 0..1}}
    \cup [type: {"REFERENCE"}, to: Targets(i)]
    \cup {[type |-> "ARRAY", elems |-> s] :
            s \in {e \in UNION {[1..n -> [key: Keys, cell: Children(i)]]
                                 : n \in 0..MaxElems} : DistinctKeys(e)}}

\* the heaps whose first n cells are given
RECURSIVE HeapsUpTo(_)
HeapsUpTo(n) ==
    IF n = 0 THEN {<<>>}
    ELSE {Append(h, z) : h \in HeapsUpTo(n - 1), z \in Zvals(n)}

\* a zend_reference never holds another reference
Heaps == {h \in HeapsUpTo(NCells) :
            \A i \in Cells : h[i].type = "REFERENCE" => h[h[i].to].type # "REFERENCE"}

VARIABLES
    heap,      \* the source zvals
    result,    \* what the copy returned: None before, Overflow, or a record
    entry      \* which entry point ran: "zval" or "statics"

vars == <<heap, result, entry>>

-----------------------------------------------------------------------------
(***************************************************************************)
(* pthreads_copy_string (lines 26-46): the copy of a string of a kind, and *)
(* whether it is the source's own string (shared).                         *)
(***************************************************************************)
CopyString(kind) ==
    IF kind = "plain" THEN [kind |-> "plain", shared |-> FALSE]
    ELSE IF kind = "permanent" THEN [kind |-> kind, shared |-> TRUE]
    ELSE IF PhpVersion < 80100 /\ ~HardCopy THEN [kind |-> kind, shared |-> TRUE]
    ELSE [kind |-> "interned", shared |-> FALSE]

\* mutant: the source bucket's key string stored as it is
CopyKeyUncopied(k) ==
    IF "int" \in DOMAIN k THEN k
    ELSE [str |-> k.str, rc |-> IF k.str.kind = "plain" THEN 1 ELSE 0]

\* a bucket key: integer keys are copied by value, string keys as strings;
\* rc is the refcount of a copied plain string (a new one holds 1), interned
\* strings are not refcounted
CopyKey(k) ==
    IF "int" \in DOMAIN k THEN k
    ELSE [str |-> CopyString(k.str.kind), rc |-> IF k.str.kind = "plain" THEN 1 ELSE 0]

\* zend_hash_update / zend_hash_add of a new string key: the table takes a
\* reference to a key that is not interned (zend_string_addref)
HashKeyAddRef(k) ==
    IF "str" \in DOMAIN k /\ k.str.kind = "plain" THEN [k EXCEPT !.rc = @ + 1] ELSE k

\* zend_string_release of a key
KeyRelease(k) ==
    IF "str" \in DOMAIN k /\ k.str.kind = "plain" THEN [k EXCEPT !.rc = @ - 1] ELSE k

Fail == [ok |-> FALSE]
Ok(v) == [ok |-> TRUE, v |-> v]

RECURSIVE CopyZval(_, _), CopyHash(_, _, _), CopyStatics(_, _, _)

\* pthreads_copy_zval (lines 48-114) at call depth d
CopyZval(c, d) ==
    LET z == heap[c] IN
    IF d > MaxDepth THEN Overflow
    ELSE CASE z.type = "REFERENCE" -> CopyZval(z.to, d + 1)
           [] z.type \in {"NULL", "LONG"} -> Ok([type |-> z.type])
           [] z.type = "STRING" -> Ok([type |-> "STRING", str |-> CopyString(z.kind)])
           [] z.type = "ARRAY" ->
                LET r == CopyHash(z.elems, <<>>, d + 1)
                IN IF r = Overflow THEN Overflow ELSE Ok([type |-> "ARRAY", elems |-> r])
           [] z.type = "OBJECT" /\ z.class = "threaded" ->
                Ok([type |-> "OBJECT", class |-> z.class])
           [] z.type = "OBJECT" /\ z.class = "closure" ->
                LET s == CopyStatics(z.statics, <<>>, d + 1)
                IN IF s = Overflow THEN Overflow
                   ELSE Ok([type |-> "OBJECT", class |-> "closure", statics |-> s])
           [] z.type = "CONSTANT_AST" -> Ok([type |-> "CONSTANT_AST"])
           [] OTHER -> Fail

\* mutant: the loop stops at the first element that fails to copy
CopyHashStop(elems, acc, d) ==
    IF elems = <<>> THEN acc
    ELSE LET e == Head(elems)
             r == CopyZval(e.cell, d)
         IN CASE r = Overflow -> Overflow
              [] ~r.ok        -> acc
              [] OTHER        -> CopyHash(Tail(elems),
                                          Append(acc, [key |-> HashKeyAddRef(CopyKey(e.key)),
                                                       val |-> r.v]), d)

\* pthreads_copy_hash (lines 116-141): elements that fail to copy are
\* skipped, the others added (zend_hash_update) under their key's
\* pthreads_copy_string copy, in source order
CopyHash(elems, acc, d) ==
    IF elems = <<>> THEN acc
    ELSE LET e == Head(elems)
             r == CopyZval(e.cell, d)
         IN CASE r = Overflow -> Overflow
              [] ~r.ok        -> CopyHash(Tail(elems), acc, d)
              [] OTHER        -> CopyHash(Tail(elems),
                                          Append(acc, [key |-> HashKeyAddRef(CopyKey(e.key)),
                                                       val |-> r.v]), d)

\* mutant: a static that cannot be copied is skipped, as in copy_hash
CopyStaticsSkip(elems, acc, d) ==
    IF elems = <<>> THEN acc
    ELSE LET e == Head(elems)
             r == CopyZval(e.cell, d)
         IN CASE r = Overflow -> Overflow
              [] ~r.ok        -> CopyStatics(Tail(elems), acc, d)
              [] OTHER        -> CopyStatics(Tail(elems),
                                     Append(acc, [key |-> KeyRelease(HashKeyAddRef(CopyKey(e.key))),
                                                  val |-> r.v]), d)

\* pthreads_copy_statics (lines 302-331): the loop over the names; the
\* value behind any chain of references is copied, and a static whose value
\* cannot be copied is kept with no value (zend_hash_add_empty_element);
\* either way the name is added, then released (line 325); d is the depth
\* of the pthreads_copy_zval calls it makes
CopyStatics(elems, acc, d) ==
    IF elems = <<>> THEN acc
    ELSE LET e == Head(elems)
             r == CopyZval(e.cell, d)
         IN CASE r = Overflow -> Overflow
              [] OTHER -> CopyStatics(Tail(elems),
                              Append(acc, [key |-> KeyRelease(HashKeyAddRef(CopyKey(e.key))),
                                           val |-> IF r.ok THEN r.v ELSE [type |-> "NULL"]]), d)

\* an attribute argument's name: NULL for a positional one (integer key),
\* the copied string for a named one
ArgName(k) == IF "int" \in DOMAIN k THEN None ELSE CopyString(k.str.kind)

RECURSIVE CopyAttributeArgs(_, _)

\* mutant: an argument that cannot be copied is dropped, as in copy_hash
CopyAttributeArgsSkip(elems, acc) ==
    IF elems = <<>> THEN [fatal |-> FALSE, args |-> acc]
    ELSE LET e == Head(elems)
             r == CopyZval(e.cell, 1)
         IN CASE r = Overflow -> Overflow
              [] ~r.ok        -> CopyAttributeArgs(Tail(elems), acc)
              [] OTHER        -> CopyAttributeArgs(Tail(elems),
                                   Append(acc, [name |-> ArgName(e.key), val |-> r.v]))

\* pthreads_copy_attribute (lines 259-281): each argument's value is
\* copied in order, and the first that cannot be copied raises
\* E_CORE_ERROR (zend_error_at_noreturn), which ends the thread; a named
\* argument's name is copied after its value
CopyAttributeArgs(elems, acc) ==
    IF elems = <<>> THEN [fatal |-> FALSE, args |-> acc]
    ELSE LET e == Head(elems)
             r == CopyZval(e.cell, 1)
         IN CASE r = Overflow -> Overflow
              [] ~r.ok        -> [fatal |-> TRUE]
              [] OTHER        -> CopyAttributeArgs(Tail(elems),
                                   Append(acc, [name |-> ArgName(e.key), val |-> r.v]))

-----------------------------------------------------------------------------
Init ==
    /\ heap \in Heaps
    /\ result = None
    /\ entry = None

\* a value crosses into the destination: pthreads_copy_zval on cell 1
CopyValue ==
    /\ result = None
    /\ result' = CopyZval(1, 1)
    /\ entry' = "zval"
    /\ UNCHANGED heap

\* a function's statics table (cell 1, an array with string keys) is copied
CopyStaticVars ==
    /\ result = None
    /\ heap[1].type = "ARRAY"
    /\ \A k \in 1..Len(heap[1].elems) : "str" \in DOMAIN heap[1].elems[k].key
    /\ result' = CopyStatics(heap[1].elems, <<>>, 1)
    /\ entry' = "statics"
    /\ UNCHANGED heap

\* an attribute's argument list (cell 1, positional arguments under integer
\* keys, named ones under their names) is copied
CopyAttribute ==
    /\ result = None
    /\ heap[1].type = "ARRAY"
    /\ result' = CopyAttributeArgs(heap[1].elems, <<>>)
    /\ entry' = "attribute"
    /\ UNCHANGED heap

Next == CopyValue \/ CopyStaticVars \/ CopyAttribute

Spec == Init /\ [][Next]_vars

-----------------------------------------------------------------------------
(***************************************************************************)
(* Properties                                                              *)
(***************************************************************************)

RECURSIVE ValueKeys(_)
\* the bucket keys of a copied value, at any depth
ValueKeys(v) ==
    LET b == CASE v.type = "ARRAY" -> v.elems
                [] v.type = "OBJECT" /\ v.class = "closure" -> v.statics
                [] OTHER -> <<>>
    IN UNION {{b[k].key} \cup ValueKeys(b[k].val) : k \in DOMAIN b}

ResultKeys ==
    CASE result = None \/ result = Overflow -> {}
      [] entry = "zval" -> IF result.ok THEN ValueKeys(result.v) ELSE {}
      [] entry = "attribute" ->
           IF result.fatal THEN {}
           ELSE UNION {ValueKeys(result.args[k].val) : k \in DOMAIN result.args}
      [] OTHER -> UNION {{result[k].key} \cup ValueKeys(result[k].val) : k \in DOMAIN result}

\* keys of the copy: integers, or strings that went through pthreads_copy_string
CopiedKeys == [int: {0, 1}] \cup [str: [kind: StrKinds, shared: BOOLEAN], rc: 0..2]

TypeOK ==
    /\ heap \in Seq(UNION {Zvals(i) : i \in Cells}) /\ Len(heap) = NCells
    /\ entry \in {None, "zval", "statics", "attribute"}
    /\ ResultKeys \subseteq CopiedKeys

\* spec.md 4.2/4.3: the value a copy of cell c should have, with strings
\* compared by content: references followed, scalars, strings, known-safe
\* objects and constant expressions copied, anything else a failure, and
\* array elements that fail dropped in source order
RECURSIVE Expected(_)
Expected(c) ==
    LET z == heap[c] IN
    CASE z.type = "REFERENCE" -> Expected(z.to)
      [] z.type \in {"NULL", "LONG", "CONSTANT_AST"} -> Ok([type |-> z.type])
      [] z.type = "STRING" -> Ok([type |-> "STRING"])
      [] z.type = "OBJECT" /\ z.class # "other" -> Ok([type |-> "OBJECT", class |-> z.class])
      [] z.type = "ARRAY" ->
           LET kept == SelectSeq(z.elems, LAMBDA e : Expected(e.cell).ok)
           IN Ok([type |-> "ARRAY",
                  elems |-> [k \in 1..Len(kept) |->
                               [key |-> IF "int" \in DOMAIN kept[k].key THEN kept[k].key
                                        ELSE "str",
                                val |-> Expected(kept[k].cell).v]]])
      [] OTHER -> Fail

RECURSIVE Content(_)
\* a copied value with its strings reduced to "a string"
Content(v) ==
    CASE v.type = "STRING" -> [type |-> "STRING"]
      [] v.type = "ARRAY" ->
           [type |-> "ARRAY",
            elems |-> [k \in DOMAIN v.elems |->
                         [key |-> IF "int" \in DOMAIN v.elems[k].key THEN v.elems[k].key
                                  ELSE "str",
                          val |-> Content(v.elems[k].val)]]]
      [] v.type = "OBJECT" -> [type |-> "OBJECT", class |-> v.class]
      [] OTHER -> v

(* Graceful degradation and order (pthreads_copy_zval/pthreads_copy_hash): *)
(* a copied value has the content spec.md 4.2-4.3 gives it: references     *)
(* followed to their value, every element that cannot be copied dropped    *)
(* and the others kept under their keys in source order, at any depth.     *)
CopyMatchesSpec ==
    (entry = "zval" /\ result # Overflow) =>
        LET x == Expected(1)
        IN /\ result.ok = x.ok
           /\ result.ok => Content(result.v) = x.v

(* Statics (pthreads_copy_statics, lines 306-327): the copied statics     *)
(* table has every name of the source's, at its position, each with the    *)
(* content spec.md 4.2 gives its value, or no value (NULL) when that value *)
(* cannot be copied, so that the compiled BIND_STATIC slots still find     *)
(* their names.                                                            *)
StaticsKeepEveryName ==
    (entry = "statics" /\ result # Overflow) =>
        LET src == heap[1].elems
        IN /\ Len(result) = Len(src)
           /\ \A k \in 1..Len(src) :
                 LET x == Expected(src[k].cell)
                 IN /\ result[k].key.str.kind = src[k].key.str.kind
                    /\ Content(result[k].val) = IF x.ok THEN x.v ELSE [type |-> "NULL"]

(* Attribute arguments (pthreads_copy_attribute, lines 263-279; spec.md 7 *)
(* AttributeArgumentNotCopyable): an attribute's copy either ends the      *)
(* thread, exactly when some argument cannot be copied, or holds every     *)
(* argument in source order, each with the content spec.md 4.2 gives it    *)
(* and named exactly when the source argument is.                          *)
AttributeAllOrFatal ==
    (entry = "attribute" /\ result # Overflow) =>
        LET args == heap[1].elems
        IN /\ result.fatal <=> \E k \in 1..Len(args) : ~Expected(args[k].cell).ok
           /\ ~result.fatal =>
                 /\ Len(result.args) = Len(args)
                 /\ \A k \in 1..Len(args) :
                       /\ (result.args[k].name = None) <=> ("int" \in DOMAIN args[k].key)
                       /\ Content(result.args[k].val) = Expected(args[k].cell).v

(* Key ownership (pthreads_copy_hash line 132, pthreads_copy_statics lines *)
(* 320-325): every plain string key of a copy, at any depth, is held by    *)
(* its bucket alone, so that destroying the copied table frees it; the     *)
(* statics loop releases the name it copied after adding it, as the        *)
(* filenames table does at line 609.                                       *)
KeyStringsOwned ==
    \A k \in ResultKeys : ("str" \in DOMAIN k /\ k.str.kind = "plain") => k.rc = 1

(* spec.md 4.2, KnownSafeRef / closure: a closure is copied with its      *)
(* function and "succeeds unless the underlying CodeObject copy fails".    *)
(* The closure branch of pthreads_copy_zval (lines 80-103) copies the     *)
(* function through pthreads_copy_function (line 86), which copies the     *)
(* statics its `use` clause bound (pthreads_copy_user_function, line 657), *)
(* and then sets SUCCESS (line 102); the rest of the function copy is      *)
(* FunctionCopy's and succeeds here.                                       *)
ClosureCopySucceeds ==
    (entry = "zval" /\ heap[1].type = "OBJECT" /\ heap[1].class = "closure") =>
        result # Overflow /\ result.ok

(* spec.md 4.3 "never fails as a whole" and 5 "every replication call ...  *)
(* completes or fails within the calling thread": copying any value ends   *)
(* within MaxDepth nested calls, more than the number of cells it has.     *)
CopyTerminates == result # Overflow

=============================================================================
