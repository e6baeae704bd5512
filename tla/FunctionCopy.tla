---------------------------- MODULE FunctionCopy ----------------------------
(***************************************************************************)
(* The code-object replicator of src/src/copy.c: pthreads_copy_function,   *)
(* pthreads_copy_user_function and pthreads_copy_internal_function, run by *)
(* the thread that owns the destination context.                           *)
(*                                                                         *)
(* Per destination context the code keeps two tables in its module         *)
(* globals (src/src/pthreads.h): PTHREADS_ZG(resolve), source function     *)
(* address -> destination copy, and PTHREADS_ZG(filenames), filename ->    *)
(* the destination's copy of that filename string.  A request to copy a    *)
(* function ends in one of three ways: the source itself (immutable), the  *)
(* cached copy with its refcount bumped (cache hit), or a fresh copy.  A   *)
(* fresh user-function copy recursively copies the nested function         *)
(* definitions (dynamic_func_defs) through the same entry point, and a     *)
(* non-copyable attribute argument ends the thread (E_CORE_ERROR).         *)
(*                                                                         *)
(* Data is abstracted: a function is a model value whose shape (Fn[f]) is  *)
(* a constant; a copy is an index into the sequence `copies`; a filename   *)
(* string is represented by its entry in the filenames table and its       *)
(* refcount.  Opcodes, literals and values are modelled in OpcodeRebase    *)
(* and ValueCopy.                                                          *)
(***************************************************************************)
EXTENDS Naturals, Sequences, FiniteSets

CONSTANTS
    Functions,    \* source functions
    Addr,         \* Addr[f]: the address of f, the key of the resolve table
    Files,        \* source filenames
    PlainFiles,   \* filenames that are ordinary (refcounted) strings
    Fn,           \* Fn[f]: the shape of source function f
    MaxRequests,  \* bound on the copy requests the destination makes
    None,         \* NULL pointer / absent entry
    NoRc          \* op_array.refcount == NULL: parts live in opcache SHM

FnShape == [type: {"user", "internal"}, immutable: BOOLEAN, closure: BOOLEAN,
            shm: BOOLEAN, file: Files, statics: BOOLEAN, attrsOk: BOOLEAN,
            nested: Seq(Functions)]

ASSUME Fn \in [Functions -> FnShape]
ASSUME PlainFiles \subseteq Files

\* the addresses source functions occupy
Addrs == {Addr[f] : f \in Functions}
\* ZEND_ASSERT(function->type == ZEND_USER_FUNCTION) for immutable ones
ASSUME \A f \in Functions : Fn[f].immutable => Fn[f].type = "user"
\* nested definitions form a tree (a function is not nested in itself)
ASSUME \A f \in Functions : \A i \in 1..Len(Fn[f].nested) : Fn[f].nested[i] # f

VARIABLES
    resolve,    \* PTHREADS_ZG(resolve): source address -> copy index or None
    copies,     \* the destination copies, in allocation order
    filenames,  \* PTHREADS_ZG(filenames): file -> [present, rc of the string]
    fatal,      \* an E_CORE_ERROR bailout ended the destination thread
    requests,   \* copy requests made so far
    last        \* the last request: function, outcome, result, copies before it

vars == <<resolve, copies, filenames, fatal, requests, last>>

(***************************************************************************)
(* A copy record.  `holders` is a history counter, not program state: the  *)
(* number of pointers to this copy handed out (to the requester, or stored *)
(* in an outer copy's dynamic_func_defs).  `statics` names the statics     *)
(* table of the copy: the index of the copy whose request allocated it.    *)
(***************************************************************************)
CopyRec == [src: Functions, rc: Nat \cup {NoRc}, statics: Nat \cup {None},
            file: Files \cup {None}, nested: Seq(Nat \cup Functions),
            holders: Nat]

Outcomes == {"shared", "hit", "fresh", "fatal"}

TypeOK ==
    /\ resolve \in [Addrs -> Nat \cup {None}]
    /\ copies \in Seq(CopyRec)
    /\ filenames \in [Files -> [present: BOOLEAN, rc: Nat]]
    /\ fatal \in BOOLEAN
    /\ requests \in 0..MaxRequests
    /\ last \in [fn: Functions \cup {None}, outcome: Outcomes \cup {None},
                 ret: Nat \cup Functions \cup {None}, base: Nat]

Init ==
    /\ resolve = [a \in Addrs |-> None]
    /\ copies = <<>>
    /\ filenames = [x \in Files |-> [present |-> FALSE, rc |-> 0]]
    /\ fatal = FALSE
    /\ requests = 0
    /\ last = [fn |-> None, outcome |-> None, ret |-> None, base |-> 0]

(***************************************************************************)
(* The copy algorithm works on a record s of the tables and the copies and *)
(* returns [s |-> new tables, ret |-> what the call returns].              *)
(***************************************************************************)

\* zend_string_addref / zend_string_release: no-ops on interned strings
StrAddRef(x, rc) == IF x \in PlainFiles THEN rc + 1 ELSE rc
\* mutant: a release that ignores IS_STR_INTERNED
StrReleaseAll(x, rc) == rc - 1
StrRelease(x, rc) == IF x \in PlainFiles THEN rc - 1 ELSE rc

\* lines 606-616: find the filename in PTHREADS_ZG(filenames), or copy it
\* (refcount 1), add it (the table addrefs its key) and release it; then
\* addref it for the op_array
\* mutant: the zend_string_release of line 609 left out
CopyFilenameNoRelease(x, s) ==
    LET e == s.filenames[x]
        rc0 == IF e.present THEN e.rc
               ELSE StrAddRef(x, IF x \in PlainFiles THEN 1 ELSE 0)
    IN [s EXCEPT !.filenames[x] = [present |-> TRUE, rc |-> StrAddRef(x, rc0)]]

CopyFilename(x, s) ==
    LET e == s.filenames[x]
        rc0 == IF e.present THEN e.rc
               ELSE StrRelease(x, StrAddRef(x, IF x \in PlainFiles THEN 1 ELSE 0))
    IN [s EXCEPT !.filenames[x] = [present |-> TRUE, rc |-> StrAddRef(x, rc0)]]

\* the record of a new user-function copy: fresh refcount unless the source
\* has none (line 574), fresh statics if the source has any (line 657)
NewUserCopy(f, id) ==
    [src |-> f, rc |-> IF Fn[f].shm THEN NoRc ELSE 1,
     statics |-> IF Fn[f].statics THEN id ELSE None,
     file |-> Fn[f].file, nested |-> <<>>, holders |-> 0]

\* pthreads_copy_internal_function: a flat arena copy, no refcount
NewInternalCopy(f) ==
    [src |-> f, rc |-> NoRc, statics |-> None, file |-> None,
     nested |-> <<>>, holders |-> 0]

\* a pointer to copy r is stored by a holder
Hold(r, s) ==
    IF r \in Nat THEN [s EXCEPT !.copies[r].holders = @ + 1] ELSE s

\* mutant: a cache hit that does not bump the refcount
CacheHitNoIncrement(f, s) == [s |-> s, ret |-> s.resolve[Addr[f]]]

\* the cache-hit branch (lines 687-695)
CacheHit(f, s) ==
    LET c == s.resolve[Addr[f]]
    IN [s |-> [s EXCEPT !.copies[c].rc =
                   IF Fn[f].type = "user" /\ @ # NoRc THEN @ + 1 ELSE @],
        ret |-> c]

\* mutant: ZEND_ACC_CLOSURE not tested
CachesClosures(f) == TRUE

\* lines 684 and 705: only functions without ZEND_ACC_CLOSURE are looked up
\* in and added to the resolve table
Caches(f) == ~Fn[f].closure

\* mutant: the copy is returned without being added to the resolve table
RegisterNever(f, r) == r

\* line 709: zend_hash_index_update_ptr(&PTHREADS_ZG(resolve), function, copy)
Register(f, r) ==
    IF ~Caches(f) \/ r.s.fatal THEN r
    ELSE [r EXCEPT !.s.resolve[Addr[f]] = r.ret]

RECURSIVE CopyFunction(_, _), CopyUserFunction(_, _), CopyNested(_, _, _)

\* mutant: the ZEND_ACC_IMMUTABLE short-circuit of line 680 left out
CopyFunctionNoImmutableCheck(f, s) ==
    IF s.fatal THEN [s |-> s, ret |-> None]
    ELSE IF Caches(f) /\ s.resolve[Addr[f]] # None THEN CacheHit(f, s)
    ELSE Register(f,
           IF Fn[f].type = "user" THEN CopyUserFunction(f, s)
           ELSE [s |-> [s EXCEPT !.copies = Append(@, NewInternalCopy(f))],
                 ret |-> Len(s.copies) + 1])

\* pthreads_copy_function (lines 676-710); after a bailout nothing runs
CopyFunction(f, s) ==
    IF s.fatal THEN [s |-> s, ret |-> None]
    ELSE IF Fn[f].immutable THEN [s |-> s, ret |-> f]
    ELSE IF Caches(f) /\ s.resolve[Addr[f]] # None THEN CacheHit(f, s)
    ELSE Register(f,
           IF Fn[f].type = "user" THEN CopyUserFunction(f, s)
           ELSE [s |-> [s EXCEPT !.copies = Append(@, NewInternalCopy(f))],
                 ret |-> Len(s.copies) + 1])

\* pthreads_copy_dynamic_func_defs: copy the nested definitions in order,
\* storing each result in the outer copy `id`; a bailout inside the call
\* longjmps out before the result is stored
CopyNested(id, seq, s) ==
    IF seq = <<>> \/ s.fatal THEN s
    ELSE LET r == CopyFunction(Head(seq), s)
             s2 == Hold(r.ret, [r.s EXCEPT !.copies[id].nested = Append(@, r.ret)])
         IN IF r.s.fatal THEN r.s ELSE CopyNested(id, Tail(seq), s2)

\* pthreads_copy_user_function (lines 555-665): header, refcount, filename;
\* when the parts are not in SHM, attributes (fatal when not copyable) and
\* then the nested definitions; the statics are copied in every case
CopyUserFunction(f, s) ==
    LET id == Len(s.copies) + 1
        s1 == CopyFilename(Fn[f].file,
                           [s EXCEPT !.copies = Append(@, NewUserCopy(f, id))])
        s2 == IF Fn[f].shm THEN s1
              ELSE IF ~Fn[f].attrsOk THEN [s1 EXCEPT !.fatal = TRUE]
              ELSE CopyNested(id, Fn[f].nested, s1)
    IN [s |-> s2, ret |-> IF s2.fatal THEN None ELSE id]

\* how a request ended, read off the state before and after it
Outcome(f, s, r) ==
    CASE r.s.fatal        -> "fatal"
      [] Fn[f].immutable  -> "shared"
      [] Len(r.s.copies) = Len(s.copies) -> "hit"
      [] OTHER            -> "fresh"

State == [resolve |-> resolve, copies |-> copies, filenames |-> filenames,
          fatal |-> fatal]

(***************************************************************************)
(* A crossing into the destination (thread start, class preparation, a     *)
(* closure or function passed across) asks for a copy of f.                *)
(***************************************************************************)
Request(f) ==
    /\ ~fatal
    /\ requests < MaxRequests
    /\ LET r == CopyFunction(f, State)
           s == Hold(r.ret, r.s)
       IN /\ resolve' = s.resolve
          /\ copies' = s.copies
          /\ filenames' = s.filenames
          /\ fatal' = s.fatal
          /\ last' = [fn |-> f, outcome |-> Outcome(f, State, r),
                      ret |-> r.ret, base |-> Len(copies)]
    /\ requests' = requests + 1

Next == \E f \in Functions : Request(f)

Spec == Init /\ [][Next]_vars

-----------------------------------------------------------------------------
(***************************************************************************)
(* Properties                                                              *)
(***************************************************************************)

CopyIds == 1..Len(copies)
CopiesOf(f) == {c \in CopyIds : copies[c].src = f}

(* Identity sharing (pthreads_copy_function, lines 684-709): as long as    *)
(* the destination lives, every non-closure source function has at most   *)
(* one copy in it, whether it was asked for directly or reached as a      *)
(* nested definition of another copy, and the resolve table points at it. *)
OneCopyPerDefinition ==
    ~fatal =>
      \A f \in Functions :
        ~Fn[f].closure =>
          /\ Cardinality(CopiesOf(f)) <= 1
          /\ \A c \in CopiesOf(f) : resolve[Addr[f]] = c

(* Reference counting of shared copies (lines 574-577 and 688-690): the    *)
(* refcount of every copy that owns one equals the number of pointers to   *)
(* it handed out, by requests and by outer copies' nested definitions,     *)
(* while the destination lives.                                            *)
RefcountCountsHolders ==
    ~fatal =>
      \A c \in CopyIds : copies[c].rc # NoRc => copies[c].rc = copies[c].holders

(* Closures are never cached (lines 684 and 705): however often a closure *)
(* is passed into the destination, and whether directly or as a nested     *)
(* definition, no closure copy (and so no captured statics table) is held  *)
(* by two owners.                                                          *)
ClosureCopiesUnshared ==
    \A c \in CopyIds : Fn[copies[c].src].closure => copies[c].holders <= 1

(* Filename interning (lines 606-616): the table holds one string per      *)
(* filename, and the refcount of a plain one is one for the table plus one *)
(* for every user-function copy referring to it.                           *)
FilenameRefcount ==
    \A x \in PlainFiles :
        LET users == Cardinality({c \in CopyIds : copies[c].file = x})
        IN IF filenames[x].present THEN filenames[x].rc = 1 + users
           ELSE users = 0

(* spec.md 4.5 step 5: "Static-variable storage is always freshly copied,  *)
(* even for a cache hit".  Every request for a function with statics       *)
(* returns a copy whose statics table that request allocated.              *)
StaticsFreshPerRequest ==
    (last.ret \in CopyIds /\ copies[last.ret].statics # None)
        => copies[last.ret].statics > last.base

(* spec.md 4.5, "State machine": the replicator implements CopyOutcome.    *)
(* Seen through the resolve table, the number of copies allocated, the     *)
(* pointer a request returns and the bailout flag, every request is        *)
(* SharedUnchanged, CacheHit, FreshCopy or a failure: an immutable         *)
(* function is returned as it is, a cached one is returned unchanged, a    *)
(* fresh copy remembers exactly the new non-closure copies it made, and a  *)
(* remembered copy is never replaced.                                      *)
Abstract == INSTANCE CopyOutcome WITH
    cache <- [f \in Functions |-> resolve[Addr[f]]],
    made <- Len(copies), ret <- last.ret, dead <- fatal,
    Immutable <- {f \in Functions : Fn[f].immutable},
    Closures <- {f \in Functions : Fn[f].closure}

ImplementsCopyOutcome == Abstract!Spec

=============================================================================
