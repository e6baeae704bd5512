------------------------ MODULE MCFunctionCopyReuse ------------------------
(***************************************************************************)
(* Two user functions a1 and a2 of different source contexts that the      *)
(* allocator places at the same address, one after the other.             *)
(***************************************************************************)
EXTENDS FunctionCopyReuse

CONSTANTS a1, a2, fileA, fileB, addr1

MCFunctions == {a1, a2}

MCAddr == [f \in MCFunctions |-> addr1]

MCFn ==
    [f \in MCFunctions |->
        [type |-> "user", immutable |-> FALSE, closure |-> FALSE, shm |-> FALSE,
         file |-> IF f = a1 THEN fileA ELSE fileB, statics |-> FALSE,
         attrsOk |-> TRUE, nested |-> <<>>]]

=============================================================================
