------------------------------ MODULE AstCopy ------------------------------
(***************************************************************************)
(* The constant-expression tree replicator of src/src/copy.c (lines        *)
(* 143-257): zend_ast_tree_size, pthreads_copy_ast_tree, pthreads_copy_ast.*)
(*                                                                         *)
(* A tree is copied in two passes.  The size pass computes the bytes the   *)
(* flattened tree needs, and one block of that size is allocated.  The     *)
(* flatten pass then lays the nodes out in pre-order in that block, and    *)
(* writes each node's child pointers as it goes.  Memory is a sequence of  *)
(* writes [at, size, node], and byte addresses are counted from the block. *)
(* Strings go through pthreads_copy_string, taken from ValueCopy.          *)
(***************************************************************************)
EXTENDS Naturals, Sequences, FiniteSets

CONSTANTS
    MaxAstDepth,   \* nesting of the source trees
    MaxChildren,   \* children of one node or list
    PtrSize,       \* sizeof(zend_ast*)
    AstHeader,     \* sizeof(zend_ast) - sizeof(zend_ast*)
    ListHeader,    \* sizeof(zend_ast_list) - sizeof(zend_ast*)
    AstZvalSize,   \* sizeof(zend_ast_zval)
    AstRefSize,    \* sizeof(zend_ast_ref)
    PhpVersion,
    HardCopy,
    Null,          \* a NULL child pointer
    None

\* pthreads_copy_string, as the value replicator models it
VC == INSTANCE ValueCopy WITH NCells <- 0, MaxElems <- 0, MaxDepth <- 0,
                              AllowCycles <- FALSE, Overflow <- None,
                              heap <- <<>>, result <- None, entry <- None

\* the leaves a constant expression holds: ZEND_AST_ZVAL with a literal
\* (the compiler only puts copyable literals there) and ZEND_AST_CONSTANT
\* with a constant's name
Leaves == {[kind |-> "ZVAL", val |-> [type |-> "LONG"]],
           [kind |-> "ZVAL", val |-> [type |-> "STRING", str |-> "interned"]],
           [kind |-> "CONSTANT", name |-> "interned"]}

\* the trees up to depth d: leaves, lists, and nodes whose children may be NULL
RECURSIVE Trees(_)
Trees(d) ==
    IF d = 0 THEN Leaves
    ELSE LET kids == UNION {[1..n -> Trees(d - 1) \cup {Null}] : n \in 0..MaxChildren}
         IN Leaves \cup [kind: {"LIST", "AST"}, child: kids]

-----------------------------------------------------------------------------
\* mutant: the header left out of a node's size
ZendAstSizeNoHeader(n) == PtrSize * n

\* zend_ast_size and zend_ast_list_size (lines 144-154)
ZendAstSize(n) == AstHeader + PtrSize * n
ZendAstListSize(n) == ListHeader + PtrSize * n

HeaderSize(ast) ==
    IF ast.kind = "LIST" THEN ZendAstListSize(Len(ast.child))
    ELSE ZendAstSize(Len(ast.child))

RECURSIVE ZendAstTreeSize(_)
RECURSIVE CopyAstTree(_, _, _)
RECURSIVE CopyChildren(_, _, _, _, _)

\* mutant: a list's size taken as that of a node with as many children
ZendAstTreeSizeListAsAst(ast) ==
    IF ast.kind \in {"ZVAL", "CONSTANT"} THEN AstZvalSize
    ELSE ZendAstSize(Len(ast.child)) +
         LET Sum[i \in 0..Len(ast.child)] ==
               IF i = 0 THEN 0
               ELSE Sum[i - 1] + (IF ast.child[i] = Null THEN 0
                                  ELSE ZendAstTreeSize(ast.child[i]))
         IN Sum[Len(ast.child)]

\* zend_ast_tree_size (lines 156-184): the node's own size plus, for each
\* non-NULL child, the child tree's
ZendAstTreeSize(ast) ==
    IF ast.kind \in {"ZVAL", "CONSTANT"} THEN AstZvalSize
    ELSE HeaderSize(ast) +
         LET Sum[i \in 0..Len(ast.child)] ==
               IF i = 0 THEN 0
               ELSE Sum[i - 1] + (IF ast.child[i] = Null THEN 0
                                  ELSE ZendAstTreeSize(ast.child[i]))
         IN Sum[Len(ast.child)]

\* mutant: the child pointer taken after the child is copied (from the
\* buffer position the recursion returns)
CopyChildrenLatePointer(kids, i, buf, mem, ptrs) ==
    IF i > Len(kids) THEN [buf |-> buf, mem |-> mem, ptrs |-> ptrs]
    ELSE IF kids[i] = Null THEN CopyChildren(kids, i + 1, buf, mem, Append(ptrs, Null))
    ELSE LET r == CopyAstTree(kids[i], buf, mem)
         IN CopyChildren(kids, i + 1, r.buf, r.mem, Append(ptrs, r.buf))

\* the child loop of pthreads_copy_ast_tree (lines 214-222, 230-238):
\* new->child[i] = buf, then the child is flattened from buf; NULL stays NULL
CopyChildren(kids, i, buf, mem, ptrs) ==
    IF i > Len(kids) THEN [buf |-> buf, mem |-> mem, ptrs |-> ptrs]
    ELSE IF kids[i] = Null THEN CopyChildren(kids, i + 1, buf, mem, Append(ptrs, Null))
    ELSE LET r == CopyAstTree(kids[i], buf, mem)
         IN CopyChildren(kids, i + 1, r.buf, r.mem, Append(ptrs, buf))

\* the copy of a leaf's payload: pthreads_copy_zval on a literal (line 196),
\* pthreads_copy_string on a constant's name (line 204)
CopyLeaf(ast) ==
    IF ast.kind = "CONSTANT" THEN [kind |-> "CONSTANT", name |-> VC!CopyString(ast.name)]
    ELSE IF ast.val.type = "STRING"
         THEN [kind |-> "ZVAL", val |-> [type |-> "STRING", str |-> VC!CopyString(ast.val.str)]]
    ELSE ast

\* pthreads_copy_ast_tree (lines 186-241): writes the node at buf, advances
\* buf past it, flattens the children after it; returns the new buf
CopyAstTree(ast, buf, mem) ==
    IF ast.kind \in {"ZVAL", "CONSTANT"}
    THEN [buf |-> buf + AstZvalSize,
          mem |-> Append(mem, [at |-> buf, size |-> AstZvalSize, node |-> CopyLeaf(ast)])]
    ELSE LET h == HeaderSize(ast)
             r == CopyChildren(ast.child, 1, buf + h, mem, <<>>)
         IN [buf |-> r.buf,
             mem |-> Append(r.mem, [at |-> buf, size |-> h,
                                    node |-> [kind |-> ast.kind, child |-> r.ptrs]])]

\* pthreads_copy_ast (lines 243-257): one block of tree size plus the
\* zend_ast_ref header; the tree starts after the header (GC_AST)
PthreadsCopyAst(ast) ==
    LET size == ZendAstTreeSize(ast) + AstRefSize
        r == CopyAstTree(ast, AstRefSize, <<>>)
    IN [size |-> size, root |-> AstRefSize, end |-> r.buf, mem |-> r.mem]

-----------------------------------------------------------------------------
VARIABLES
    src,     \* the source tree
    copy     \* None, or the block pthreads_copy_ast filled

vars == <<src, copy>>

Init ==
    /\ src \in Trees(MaxAstDepth)
    /\ copy = None

\* pthreads_copy_zval on an IS_CONSTANT_AST zval (lines 106-109)
CopyAst ==
    /\ copy = None
    /\ copy' = PthreadsCopyAst(src)
    /\ UNCHANGED src

Next == CopyAst

Spec == Init /\ [][Next]_vars

-----------------------------------------------------------------------------
TypeOK ==
    \/ copy = None
    \/ /\ copy.size \in Nat /\ copy.end \in Nat
       /\ \A i \in 1..Len(copy.mem) :
             copy.mem[i].at \in Nat /\ copy.mem[i].size \in Nat \ {0}

\* the tree read back from the block at address a, as the engine reads it;
\* a pointer to where no node was written reads as "dangling"
RECURSIVE Decode(_, _)
Decode(mem, a) ==
    LET at == {i \in 1..Len(mem) : mem[i].at = a}
    IN IF at = {} THEN [kind |-> "dangling"]
       ELSE LET w == mem[CHOOSE i \in at : TRUE].node
            IN IF w.kind \in {"ZVAL", "CONSTANT"} THEN w
               ELSE [kind |-> w.kind,
                     child |-> [k \in DOMAIN w.child |->
                                  IF w.child[k] = Null THEN Null
                                  ELSE Decode(mem, w.child[k])]]

\* what a copy of a tree should read back as: the same tree, with every
\* string replaced by its pthreads_copy_string copy
RECURSIVE Expected(_)
Expected(ast) ==
    IF ast.kind \in {"ZVAL", "CONSTANT"} THEN CopyLeaf(ast)
    ELSE [kind |-> ast.kind,
          child |-> [k \in DOMAIN ast.child |->
                       IF ast.child[k] = Null THEN Null ELSE Expected(ast.child[k])]]

(* Block bound (pthreads_copy_ast, line 252): the flatten pass writes only *)
(* inside the block emalloc'd from the size pass's result, never two nodes *)
(* over each other, and ends exactly at the block's end, so the size pass  *)
(* and the flatten pass agree on every node kind.                          *)
FlattenFitsTreeSize ==
    copy # None =>
        /\ copy.end = copy.size
        /\ \A i \in 1..Len(copy.mem) :
              copy.root <= copy.mem[i].at /\ copy.mem[i].at + copy.mem[i].size <= copy.size
        /\ \A i, j \in 1..Len(copy.mem) :
              i # j => \/ copy.mem[i].at + copy.mem[i].size <= copy.mem[j].at
                       \/ copy.mem[j].at + copy.mem[j].size <= copy.mem[i].at

(* Structure (pthreads_copy_ast_tree): following the child pointers of the *)
(* copy from GC_AST(ref) gives back the source tree, node for node, with   *)
(* NULL children kept NULL, every child in its slot and every string the   *)
(* replicator's copy.                                                      *)
CopyIsSourceTree ==
    copy # None => Decode(copy.mem, copy.root) = Expected(src)

=============================================================================
