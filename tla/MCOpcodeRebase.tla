--------------------------- MODULE MCOpcodeRebase ---------------------------
(* Source op array at fixed addresses; emalloc may return either block.    *)
EXTENDS OpcodeRebase

MCProgOpcodes == {"JMP", "JMPZ", "CATCH", "FE_FETCH_R", "SEND_VAL", "ADD", "MATCH"}

\* 32-bit build: operands are absolute addresses; sizeof(zend_op) = 28 and
\* sizeof(zval) = 16 bytes; emalloc may return a block near the top of
\* memory.  64-bit build: operands are offsets from the opline;
\* sizeof(zend_op) = 32 and sizeof(zval) = 16 bytes; emalloc may return a
\* block 32 GiB away.
MCBuilds ==
    { [absConst |-> TRUE, absJmp |-> TRUE, opSize |-> 7, zvSize |-> 4,
       heap |-> {1024, 1073725440}],
      [absConst |-> FALSE, absJmp |-> FALSE, opSize |-> 8, zvSize |-> 4,
       heap |-> {1024, 1073741824}] }

=============================================================================
