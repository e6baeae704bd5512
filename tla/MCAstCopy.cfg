\* every constant expression of depth 2 with up to two children per node,
\* on a 64-bit build: sizeof(zend_ast) = 16, sizeof(zend_ast_list) = 24,
\* sizeof(zend_ast_zval) = 24, sizeof(zend_ast_ref) = 8
CONSTANTS
    MaxAstDepth = 2
    MaxChildren = 2
    PtrSize = 8
    AstHeader = 8
    ListHeader = 16
    AstZvalSize = 24
    AstRefSize = 8
    PhpVersion = 80100
    HardCopy = FALSE
    Null = Null
    None = None
SPECIFICATION Spec
\* one copy per source tree, then the crossing is done
CHECK_DEADLOCK FALSE
INVARIANTS
    TypeOK
    FlattenFitsTreeSize
    CopyIsSourceTree
