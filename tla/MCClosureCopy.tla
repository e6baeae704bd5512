---------------------------- MODULE MCClosureCopy ----------------------------
(***************************************************************************)
(* The functions of MCFunctionCopy, and three closure objects: one created *)
(* in a method of a class of the source's request, one bound to an         *)
(* immutable class, one unbound.                                           *)
(***************************************************************************)
EXTENDS ClosureCopy

CONSTANTS f1, g1, k1, k2, h1, s1, i1, m1, bad, fileA, fileB,
          o1, o2, o3, classA, classS

MCFunctions == {f1, g1, k1, k2, h1, s1, i1, m1, bad}

Shape(type, immutable, closure, shm, file, statics, attrsOk, nested) ==
    [type |-> type, immutable |-> immutable, closure |-> closure, shm |-> shm,
     file |-> file, statics |-> statics, attrsOk |-> attrsOk, nested |-> nested]

MCFn ==
    [f \in MCFunctions |->
        CASE f = f1  -> Shape("user", FALSE, FALSE, FALSE, fileA, TRUE, TRUE, <<g1, k1>>)
          [] f = g1  -> Shape("user", FALSE, FALSE, FALSE, fileA, FALSE, TRUE, <<>>)
          [] f = k1  -> Shape("user", FALSE, TRUE, FALSE, fileA, TRUE, TRUE, <<>>)
          [] f = k2  -> Shape("user", FALSE, TRUE, FALSE, fileB, TRUE, TRUE, <<h1>>)
          [] f = h1  -> Shape("user", FALSE, FALSE, FALSE, fileB, TRUE, TRUE, <<>>)
          [] f = s1  -> Shape("user", FALSE, FALSE, TRUE, fileB, TRUE, TRUE, <<>>)
          [] f = i1  -> Shape("internal", FALSE, FALSE, FALSE, fileA, FALSE, TRUE, <<>>)
          [] f = m1  -> Shape("user", TRUE, FALSE, FALSE, fileA, TRUE, TRUE, <<>>)
          [] f = bad -> Shape("user", FALSE, FALSE, FALSE, fileB, FALSE, FALSE, <<>>)]

MCAddr == [f \in MCFunctions |-> f]

MCClosureObjs == {o1, o2, o3}
MCObjFn == [o \in MCClosureObjs |-> IF o = o3 THEN k2 ELSE k1]
MCObjScope == [o \in MCClosureObjs |-> CASE o = o1 -> classA [] o = o2 -> classS [] OTHER -> None]
MCObjCalled == MCObjScope

=============================================================================
