----------------------------- MODULE ClosureCopy -----------------------------
(***************************************************************************)
(* The closure branch of pthreads_copy_zval (src/src/copy.c, lines 80-103) *)
(* composed with the code-object replicator (FunctionCopy).  A closure     *)
(* object of the source carries its function (zend_closure.func, a         *)
(* closure in Functions), the class it is bound to (func.common.scope) and *)
(* its called scope.  Copying it copies the function through               *)
(* pthreads_copy_function, creates a destination closure object from the   *)
(* copy and registers the copy in EG(function_table) under                 *)
(* "Closure@<address of the new object's function>".                       *)
(*                                                                         *)
(* Classes are model values: a class of the source's request, an immutable *)
(* class opcache keeps in SHM for every thread, or None (an unbound        *)
(* closure).                                                               *)
(***************************************************************************)
EXTENDS FunctionCopy

CONSTANTS
    ClosureObjs,   \* closure objects of the source context
    ObjFn,         \* ObjFn[o]: the function o wraps
    ObjScope,      \* ObjScope[o]: o's func.common.scope
    ObjCalled,     \* ObjCalled[o]: o's called_scope
    SrcClasses,    \* classes declared in the source's request
    ShmClasses     \* immutable classes in opcache SHM

ASSUME \A o \in ClosureObjs : Fn[ObjFn[o]].closure
ASSUME \A o \in ClosureObjs : {ObjScope[o], ObjCalled[o]} \subseteq SrcClasses \cup ShmClasses \cup {None}

VARIABLES
    dobjs,    \* the destination's closure objects, in creation order
    ftable    \* the "Closure@%p" entries of EG(function_table): object -> copy

closureVars == <<dobjs, ftable>>
allVars == <<vars, closureVars>>

ClosureInit == Init /\ dobjs = <<>> /\ ftable = <<>>

\* lines 86-102: the function is copied; unless that ended the thread, a
\* closure object is created with the copy's scope (the source's, kept by
\* the memcpy of line 564) and the source object's called scope (line 89),
\* and the copy is stored under the new object's name (line 94)
CopyClosureObject(o) ==
    /\ ~fatal
    /\ requests < MaxRequests
    /\ LET f == ObjFn[o]
           r == CopyFunction(f, State)
           s == Hold(r.ret, r.s)
       IN /\ resolve' = s.resolve
          /\ copies' = s.copies
          /\ filenames' = s.filenames
          /\ fatal' = s.fatal
          /\ last' = [fn |-> f, outcome |-> Outcome(f, State, r),
                      ret |-> r.ret, base |-> Len(copies)]
          /\ IF s.fatal THEN UNCHANGED closureVars
             ELSE /\ dobjs' = Append(dobjs, [fn |-> r.ret, scope |-> ObjScope[o],
                                             called |-> ObjCalled[o]])
                  /\ ftable' = Append(ftable, r.ret)
    /\ requests' = requests + 1

ClosureNext ==
    \/ \E f \in Functions : Request(f) /\ UNCHANGED closureVars
    \/ \E o \in ClosureObjs : CopyClosureObject(o)

ClosureSpec == ClosureInit /\ [][ClosureNext]_allVars

(* spec.md 4.2, KnownSafeRef / closure: a copied closure has its lexical   *)
(* scope rebound to the destination's class context.  No destination      *)
(* closure object is bound to, or called in, a class of the source's       *)
(* request (zend_create_closure at line 89 and the TODO at line 88).       *)
ClosureScopeRebound ==
    \A i \in DOMAIN dobjs : {dobjs[i].scope, dobjs[i].called} \cap SrcClasses = {}

=============================================================================
