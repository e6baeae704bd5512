----------------------------- MODULE ArgInfoCopy -----------------------------
(***************************************************************************)
(* The argument metadata of a user function, as src/src/copy.c copies it:  *)
(* pthreads_copy_arginfo (lines 506-537), pthreads_copy_zend_type (lines   *)
(* 480-503) and pthreads_copy_variables (lines 333-344).                   *)
(*                                                                         *)
(* op_array->arg_info points at the first argument.  When the function has *)
(* a return type (ZEND_ACC_HAS_RETURN_TYPE), its arg_info sits one entry   *)
(* before, at arg_info[-1].  A variadic parameter (ZEND_ACC_VARIADIC) sits *)
(* after the num_args regular ones.  Memory is a sequence of entries, and  *)
(* a pointer is an index into it.  A type is a plain mask, a class name,   *)
(* or a list of types held in its own allocation.  A list may hold nested  *)
(* lists (DNF types).  Strings go through pthreads_copy_string, taken from *)
(* ValueCopy.                                                              *)
(***************************************************************************)
EXTENDS Integers, Sequences, FiniteSets

CONSTANTS
    MaxArgs,       \* op_array->num_args
    PhpVersion,
    HardCopy,
    Null,
    None

VC == INSTANCE ValueCopy WITH NCells <- 0, MaxElems <- 0, MaxDepth <- 0,
                              AllowCycles <- FALSE, Overflow <- None,
                              heap <- <<>>, result <- None, entry <- None

\* a string of the source context (a request-interned name)
SrcName == [kind |-> "interned"]

\* types: a bare mask, a class name, a union list of names and of nested
\* (intersection) lists; `alloc` says where a list's memory comes from
SingleTypes == {[kind |-> "name", name |-> SrcName]}
NestedLists == {[kind |-> "list", alloc |-> "source", items |-> s] : s \in SingleTypes \X SingleTypes}
Types == {[kind |-> "mask"]} \cup SingleTypes
         \cup {[kind |-> "list", alloc |-> "source", items |-> s]
                 : s \in (SingleTypes \cup NestedLists) \X (SingleTypes \cup NestedLists)}

\* an arg_info entry: the return type's has no name
ArgEntries == [name: {SrcName}, type: Types]
RetEntries == [name: {Null}, type: Types]

\* the op_arrays' argument layouts: flags, num_args and the memory from the
\* return type's entry (if any) to the variadic one (if any)
Layouts ==
    UNION {{[hasRet |-> r, variadic |-> v, numArgs |-> n, mem |-> m]
              : m \in {ret \o args : ret \in IF r THEN {<<e>> : e \in RetEntries} ELSE {<<>>},
                                     args \in [1..(n + (IF v THEN 1 ELSE 0)) -> ArgEntries]}}
           : r \in BOOLEAN, v \in BOOLEAN, n \in 0..MaxArgs}

\* op_array->arg_info: past the return type's entry
ArgInfoPtr(l) == IF l.hasRet THEN 2 ELSE 1

-----------------------------------------------------------------------------
RECURSIVE CopyZendType(_)

\* mutant: a list's items copied in place but a nested list left pointing
\* at the source's memory, as when only top-level lists existed
CopyZendTypeSharedNested(t) ==
    IF t.kind = "name" THEN [kind |-> "name", name |-> VC!CopyString(t.name.kind)]
    ELSE IF t.kind = "list"
         THEN [kind |-> "list", alloc |-> "copy",
               items |-> [i \in DOMAIN t.items |->
                            IF t.items[i].kind = "list" THEN t.items[i]
                            ELSE CopyZendType(t.items[i])]]
    ELSE t

\* pthreads_copy_zend_type: the type is memcpy'd; a list gets a new
\* allocation (arena or emalloc) holding a copy of the old one; then every
\* member of the new type is visited: a nested list is copied the same way,
\* a class name is replaced by its pthreads_copy_string copy
CopyZendType(t) ==
    IF t.kind = "name" THEN [kind |-> "name", name |-> VC!CopyString(t.name.kind)]
    ELSE IF t.kind = "list"
         THEN [kind |-> "list", alloc |-> "copy",
               items |-> [i \in DOMAIN t.items |-> CopyZendType(t.items[i])]]
    ELSE t

\* one entry of the loop of lines 526-532: the name, when there is one,
\* and the type
CopyArgEntry(e) ==
    [name |-> IF e.name = Null THEN Null ELSE VC!CopyString(e.name.kind),
     type |-> CopyZendType(e.type)]

\* mutant: the variadic parameter not counted (no end++ at line 518)
CopyArginfoNoVariadic(l, old, end) ==
    LET start == IF l.hasRet THEN old - 1 ELSE old
        n == IF l.hasRet THEN end + 1 ELSE end
        info == [i \in 1..n |-> CopyArgEntry(l.mem[start + i - 1])]
    IN [mem |-> info, ptr |-> IF l.hasRet THEN 2 ELSE 1]

\* pthreads_copy_arginfo (lines 506-537): step back over the return type's
\* entry, count it and the variadic one, allocate and copy that many
\* entries, and return a pointer one past the return type's copy
CopyArginfo(l, old, end) ==
    LET start == IF l.hasRet THEN old - 1 ELSE old
        n1 == IF l.hasRet THEN end + 1 ELSE end
        n == IF l.variadic THEN n1 + 1 ELSE n1
        info == [i \in 1..n |-> CopyArgEntry(l.mem[start + i - 1])]
    IN [mem |-> info, ptr |-> IF l.hasRet THEN 2 ELSE 1]

\* pthreads_copy_variables (lines 333-344): every compiled variable's name
CopyVariables(old, end) == [i \in 1..end |-> VC!CopyString(old[i].kind)]

-----------------------------------------------------------------------------
VARIABLES
    layout,   \* the source op_array's flags, num_args and arg_info memory
    vars,     \* the source op_array's compiled variable names
    copy      \* None, or the copied arg_info (NULL if none) and vars

allVars == <<layout, vars, copy>>

Init ==
    /\ layout \in Layouts
    /\ vars \in UNION {[1..n -> {SrcName}] : n \in 0..2}
    /\ copy = None

\* lines 645 and 648 of pthreads_copy_user_function: arg_info is NULL when
\* the function has neither arguments nor a return type
CopyMetadata ==
    /\ copy = None
    /\ copy' = [arg |-> IF layout.mem = <<>> THEN Null
                       ELSE CopyArginfo(layout, ArgInfoPtr(layout), layout.numArgs),
               vars |-> CopyVariables(vars, Len(vars))]
    /\ UNCHANGED <<layout, vars>>

Next == CopyMetadata

Spec == Init /\ [][Next]_allVars

-----------------------------------------------------------------------------
CopiedStr == [kind: VC!StrKinds, shared: BOOLEAN]

TypeOK ==
    \/ copy = None
    \/ /\ copy.vars \in Seq(CopiedStr)
       /\ copy.arg = Null \/ \A i \in DOMAIN copy.arg.mem :
                                copy.arg.mem[i].name \in CopiedStr \cup {Null}

\* the entry the engine reads at arg_info[k], or None past the allocation
Slot(mem, ptr, k) == IF ptr + k \in DOMAIN mem THEN mem[ptr + k] ELSE None

\* the slots the engine reads: arg_info[-1] for the return type, then
\* the num_args arguments and the variadic one
ReadSlots(l) ==
    (IF l.hasRet THEN {-1} ELSE {}) \cup
    0..(l.numArgs + (IF l.variadic THEN 1 ELSE 0) - 1)

\* an entry with its strings and allocations forgotten
RECURSIVE TypeShape(_)
TypeShape(t) ==
    IF t.kind = "list" THEN [kind |-> "list", items |-> [i \in DOMAIN t.items |-> TypeShape(t.items[i])]]
    ELSE [kind |-> t.kind]
Shape(e) == IF e = None THEN None
            ELSE [named |-> e.name # Null, type |-> TypeShape(e.type)]

(* Argument layout (pthreads_copy_arginfo, lines 512-535): reading the     *)
(* copy through the returned op_array->arg_info gives, at every index the  *)
(* engine uses (the return type at [-1], each argument, the variadic one   *)
(* after them), an entry of the same shape as the source's at that index,  *)
(* and the copy holds no entry beyond them.                                *)
ArgSlotsMatch ==
    (copy # None /\ copy.arg # Null) =>
        /\ \A k \in ReadSlots(layout) :
              Shape(Slot(copy.arg.mem, copy.arg.ptr, k)) =
              Shape(Slot(layout.mem, ArgInfoPtr(layout), k))
        /\ Len(copy.arg.mem) = Len(layout.mem)

RECURSIVE TypeStrings(_), SourceLists(_)
TypeStrings(t) ==
    CASE t.kind = "name" -> {t.name}
      [] t.kind = "list" -> UNION {TypeStrings(t.items[i]) : i \in DOMAIN t.items}
      [] OTHER -> {}
SourceLists(t) ==
    IF t.kind = "list"
    THEN (IF t.alloc = "source" THEN 1 ELSE 0)
         + LET S[i \in 0..Len(t.items)] ==
                 IF i = 0 THEN 0 ELSE S[i - 1] + SourceLists(t.items[i])
           IN S[Len(t.items)]
    ELSE 0

(* Independence of the metadata (pthreads_copy_zend_type, lines 484-502,  *)
(* and the names of lines 527-528 and 338-339): from PHP 8.1 on, no type   *)
(* list of the copy, at any nesting, is the source's memory, and no class, *)
(* argument or variable name of the copy is a source request string.       *)
MetadataIndependent ==
    (copy # None /\ PhpVersion >= 80100) =>
        /\ \A i \in DOMAIN copy.vars : ~copy.vars[i].shared
        /\ copy.arg # Null =>
              \A i \in DOMAIN copy.arg.mem :
                 LET e == copy.arg.mem[i]
                 IN /\ SourceLists(e.type) = 0
                    /\ \A x \in TypeStrings(e.type) \cup (IF e.name = Null THEN {} ELSE {e.name}) :
                          ~x.shared

=============================================================================
