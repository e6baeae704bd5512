--------------------------- MODULE MCFunctionCopy ---------------------------
(***************************************************************************)
(* A source context with one function of each shape the replicator         *)
(* distinguishes: a top-level function with a nested named function and a  *)
(* nested closure, a closure whose body declares a named function, a       *)
(* function whose parts opcache keeps in SHM, an internal function, an     *)
(* immutable function, one with a non-copyable attribute argument, and    *)
(* one (n1) whose second nested definition carries that argument, so that  *)
(* the first is registered (line 709, from line 546) before the bailout.   *)
(***************************************************************************)
EXTENDS FunctionCopy

CONSTANTS f1, g1, k1, k2, h1, s1, i1, m1, bad, n1, fileA, fileB

MCFunctions == {f1, g1, k1, k2, h1, s1, i1, m1, bad, n1}

Shape(type, immutable, closure, shm, file, statics, attrsOk, nested) ==
    [type |-> type, immutable |-> immutable, closure |-> closure, shm |-> shm,
     file |-> file, statics |-> statics, attrsOk |-> attrsOk, nested |-> nested]

MCFn ==
    [f \in MCFunctions |->
        CASE f = f1  -> Shape("user", FALSE, FALSE, FALSE, fileA, TRUE, TRUE, <<g1, k1>>)
          [] f = g1  -> Shape("user", FALSE, FALSE, FALSE, fileA, FALSE, TRUE, <<>>)
          [] f = k1  -> Shape("user", FALSE, TRUE, FALSE, fileA, TRUE, TRUE, <<>>)
          [] f = k2  -> Shape("user", FALSE, TRUE, FALSE, fileB, TRUE, TRUE, <<h1>>)
          [] f = h1  -> Shape("user", FALSE, FALSE, FALSE, fileB, TRUE, TRUE, <<>>)
          [] f = s1  -> Shape("user", FALSE, FALSE, TRUE, fileB, TRUE, TRUE, <<>>)
          [] f = i1  -> Shape("internal", FALSE, FALSE, FALSE, fileA, FALSE, TRUE, <<>>)
          [] f = m1  -> Shape("user", TRUE, FALSE, FALSE, fileA, TRUE, TRUE, <<>>)
          [] f = bad -> Shape("user", FALSE, FALSE, FALSE, fileB, FALSE, FALSE, <<>>)
          [] f = n1  -> Shape("user", FALSE, FALSE, FALSE, fileA, FALSE, TRUE, <<g1, bad>>)]


\* every function at an address of its own
MCAddr == [f \in MCFunctions |-> f]

=============================================================================
