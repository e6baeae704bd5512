---------------------------- MODULE OpcodeRebase ----------------------------
(***************************************************************************)
(* The instruction copy of a user function (src/src/copy.c): the memory    *)
(* layout chosen in pthreads_copy_user_function (lines 618-642) and the    *)
(* operand rewriting of pthreads_copy_opcodes (lines 392-478).             *)
(*                                                                         *)
(* Memory is a flat address space counted in 4-byte words, so that 64-bit *)
(* heap addresses stay within TLC's integers.  An opline's CONST operand and its *)
(* jump operands are encoded the way the build encodes them:               *)
(*   ZEND_USE_ABS_CONST_ADDR  op.zv is the literal's address, otherwise    *)
(*                            op.constant is its offset from the opline;   *)
(*   ZEND_USE_ABS_JMP_ADDR    op.jmp_addr is the target opline's address,  *)
(*                            otherwise an offset from the opline.         *)
(* FE_FETCH-like opcodes keep their jump in extended_value as an offset    *)
(* from the opline in every build.  A source op array is chosen from all   *)
(* small programs; copying it must give an op array whose operands, read   *)
(* the same way, name the same literal and opline indexes inside the copy. *)
(* Functions reach this code after pass two (ZEND_ACC_DONE_PASS_TWO).      *)
(***************************************************************************)
EXTENDS Integers, Sequences

CONSTANTS
    Builds,      \* the builds checked, each a record of the layout below
    MaxOps,      \* bound on op_array->last
    MaxLits,     \* bound on op_array->last_literal
    SrcOps,      \* address of the source opcodes
    SrcLits,     \* address of the source literals
    ProgOpcodes  \* the opcodes the enumerated programs use

\* Zend derives both from SIZEOF_SIZE_T == 4
ASSUME \A b \in Builds : b.absConst = b.absJmp

VARIABLE
    build        \* the build the copy runs in, chosen from Builds

AbsConst == build.absConst   \* ZEND_USE_ABS_CONST_ADDR
AbsJmp == build.absJmp       \* ZEND_USE_ABS_JMP_ADDR
OpSize == build.opSize       \* sizeof(zend_op), in words
ZvSize == build.zvSize       \* sizeof(zval), in words
Heap == build.heap           \* addresses emalloc may return

\* ZEND_MM_ALIGNED_SIZE_EX(n, 16), in words
Align16(n) == ((n + 3) \div 4) * 4

\* the values an operand word (znode_op, 32 bits) can hold: a pointer in a
\* 32-bit build, a signed offset in bytes otherwise
Offset32 == -(2^29)..(2^29 - 1)
OpWord == IF AbsConst THEN 0..(2^30 - 1) ELSE Offset32

(***************************************************************************)
(* Opcode classes, by where they keep a jump (lines 438-471).              *)
(***************************************************************************)
Op1Jumps  == {"JMP", "FAST_CALL"}
Op2Jumps  == {"JMPZ", "JMPNZ", "JMP_SET", "COALESCE", "FE_RESET_R",
              "ASSERT_CHECK", "JMP_NULL"}
ExtJumps  == {"FE_FETCH_R", "SWITCH_LONG", "MATCH"}
Plain     == {"SEND_VAL", "ADD", "ECHO"}
Opcodes   == Op1Jumps \cup Op2Jumps \cup {"CATCH"} \cup ExtJumps \cup Plain

\* Which operand of an opcode is a jump.  A CATCH that is the last catch
\* (ZEND_LAST_CATCH) has no jump in op2.
JumpSlot(op, last) ==
    CASE op \in Op1Jumps             -> "op1"
      [] op \in Op2Jumps             -> "op2"
      [] op = "CATCH" /\ ~last       -> "op2"
      [] op \in ExtJumps             -> "ext"
      [] OTHER                       -> "none"

(***************************************************************************)
(* A program: each instruction names, per operand, a literal index (CONST) *)
(* or a target opline index, or nothing (0).                               *)
(***************************************************************************)
Instr == [opcode: Opcodes, last: BOOLEAN, c1: 0..MaxLits, c2: 0..MaxLits,
          target: 0..MaxOps]

\* the operands the compiler gives each opcode: a jump slot is not also a
\* CONST, CATCH names its class by a CONST, SWITCH/MATCH keep their jump
\* table in a CONST op2
WellFormed(i, n, nlit) ==
    LET slot == JumpSlot(i.opcode, i.last)
    IN /\ i.c1 <= nlit /\ i.c2 <= nlit /\ i.target <= n
       /\ (slot = "none") <=> (i.target = 0)
       /\ i.last => i.opcode = "CATCH"
       /\ i.opcode \in Op1Jumps \cup {"FE_FETCH_R"} => i.c1 = 0 /\ i.c2 = 0
       /\ i.opcode \in Op2Jumps \cup {"CATCH", "ECHO"} => i.c2 = 0
       /\ i.opcode \in {"CATCH", "SEND_VAL", "ECHO"} => i.c1 > 0
       /\ i.opcode \in {"SWITCH_LONG", "MATCH"} => i.c2 > 0

Programs ==
    UNION {[1..n -> {i \in Instr : i.opcode \in ProgOpcodes /\ WellFormed(i, n, nlit)}]
           : n \in 1..MaxOps, nlit \in 0..MaxLits}

(***************************************************************************)
(* Encoding an op array at given addresses, as the compiler leaves it, and *)
(* decoding one: what the VM reads.                                        *)
(***************************************************************************)
OplineAt(ops, k) == ops + (k - 1) * OpSize
LiteralAt(lits, j) == lits + (j - 1) * ZvSize

EncConst(ops, lits, k, j) ==
    IF AbsConst THEN LiteralAt(lits, j) ELSE LiteralAt(lits, j) - OplineAt(ops, k)
EncJump(ops, k, t) ==
    IF AbsJmp THEN OplineAt(ops, t) ELSE OplineAt(ops, t) - OplineAt(ops, k)

\* an encoded opline: opcode, operand types, operand words, extended_value
Encode(p, ops, lits) ==
    [k \in DOMAIN p |->
        LET i == p[k]  slot == JumpSlot(i.opcode, i.last)
        IN [opcode |-> i.opcode, last |-> i.last,
            op1_type |-> IF i.c1 > 0 THEN "CONST" ELSE "UNUSED",
            op2_type |-> IF i.c2 > 0 THEN "CONST" ELSE "UNUSED",
            op1 |-> CASE i.c1 > 0      -> EncConst(ops, lits, k, i.c1)
                      [] slot = "op1"  -> EncJump(ops, k, i.target)
                      [] OTHER         -> 0,
            op2 |-> CASE i.c2 > 0      -> EncConst(ops, lits, k, i.c2)
                      [] slot = "op2"  -> EncJump(ops, k, i.target)
                      [] OTHER         -> 0,
            ext |-> IF slot = "ext"
                    THEN OplineAt(ops, i.target) - OplineAt(ops, k) ELSE 0]]

DecConst(ops, lits, k, w) ==
    LET addr == IF AbsConst THEN w ELSE OplineAt(ops, k) + w
    IN (addr - lits) \div ZvSize + 1
DecJump(ops, k, w) ==
    LET addr == IF AbsJmp THEN w ELSE OplineAt(ops, k) + w
    IN (addr - ops) \div OpSize + 1

Decode(m, ops, lits) ==
    [k \in DOMAIN m |->
        LET o == m[k]  slot == JumpSlot(o.opcode, o.last)
        IN [opcode |-> o.opcode, last |-> o.last,
            c1 |-> IF o.op1_type = "CONST" THEN DecConst(ops, lits, k, o.op1) ELSE 0,
            c2 |-> IF o.op2_type = "CONST" THEN DecConst(ops, lits, k, o.op2) ELSE 0,
            target |-> CASE slot = "op1" -> DecJump(ops, k, o.op1)
                         [] slot = "op2" -> DecJump(ops, k, o.op2)
                         [] slot = "ext" -> (OplineAt(ops, k) + o.ext - ops) \div OpSize + 1
                         [] OTHER        -> 0]]

-----------------------------------------------------------------------------
(***************************************************************************)
(* pthreads_copy_opcodes.  `old` are the source opcodes at `oldOps`,       *)
(* `oldLits` the source literals (the parameter `literals`), `newLits` the *)
(* copied literals (op_array->literals, already replaced at line 640) and  *)
(* `newOps` the new block; op_array->opcodes is still the source's.        *)
(***************************************************************************)

\* lines 401-413: ZEND_USE_ABS_CONST_ADDR, shift by the literal block delta
RebaseAbsConst(w, oldLits, newLits) == w + (newLits - oldLits)

\* lines 415-433: recompute the offset from the new opline to the literal
\* at the same index
RebaseRelConst(w, k, oldOps, newOps, oldLits, newLits) ==
    LET oldZv == OplineAt(oldOps, k) + w
    IN (newLits + (oldZv - oldLits)) - OplineAt(newOps, k)

RebaseConst(w, k, oldOps, newOps, oldLits, newLits) ==
    IF AbsConst THEN RebaseAbsConst(w, oldLits, newLits)
    ELSE RebaseRelConst(w, k, oldOps, newOps, oldLits, newLits)

\* mutant: op_array->opcodes replaced before the jumps are rebased
RebaseJumpNewBase(w, oldOps, newOps) ==
    newOps + ((w - newOps) \div OpSize) * OpSize

\* lines 435-474: &copy[opline->opN.jmp_addr - op_array->opcodes]
RebaseJump(w, oldOps, newOps) ==
    newOps + ((w - oldOps) \div OpSize) * OpSize

\* lines 438-471: which operand a ZEND_USE_ABS_JMP_ADDR build rewrites
RebasedJumpSlot(op, last) ==
    CASE op \in Op1Jumps                -> "op1"
      [] op \in Op2Jumps                -> "op2"
      [] op = "CATCH" /\ ~last          -> "op2"
      [] OTHER                          -> "none"

RebaseOpline(o, k, oldOps, newOps, oldLits, newLits) ==
    LET slot == IF AbsJmp THEN RebasedJumpSlot(o.opcode, o.last) ELSE "none"
    IN [o EXCEPT
          !.op1 = CASE o.op1_type = "CONST" -> RebaseConst(@, k, oldOps, newOps, oldLits, newLits)
                    [] slot = "op1"         -> RebaseJump(@, oldOps, newOps)
                    [] OTHER                -> @,
          !.op2 = CASE o.op2_type = "CONST" -> RebaseConst(@, k, oldOps, newOps, oldLits, newLits)
                    [] slot = "op2"         -> RebaseJump(@, oldOps, newOps)
                    [] OTHER                -> @]

\* the memcpy of line 394 followed by the loop of lines 400-475
CopyOpcodes(old, oldOps, newOps, oldLits, newLits) ==
    [k \in DOMAIN old |-> RebaseOpline(old[k], k, oldOps, newOps, oldLits, newLits)]

\* mutant: opcodes and literals always allocated separately
LiteralsBaseSeparate(newOps, n, lits2) == lits2

\* lines 624-638: a ZEND_USE_ABS_CONST_ADDR build, or an op array before
\* pass two, allocates opcodes and literals separately; otherwise one block
\* with the literals after the 16-aligned opcodes
LiteralsBase(newOps, n, lits2) ==
    IF AbsConst THEN lits2 ELSE newOps + Align16(OpSize * n)

-----------------------------------------------------------------------------
(***************************************************************************)
(* The check: a source op array, where emalloc puts the copy, one copy.    *)
(***************************************************************************)
VARIABLES
    prog,      \* the program the source op array encodes
    newOps,    \* address of the new opcodes block
    lits2,     \* address of the separate literals block, when there is one
    copied     \* the copied opcodes, or <<>> before the copy

vars == <<build, prog, newOps, lits2, copied>>

NewLits == LiteralsBase(newOps, Len(prog), lits2)

TypeOK ==
    /\ build \in Builds
    /\ prog \in Programs
    /\ newOps \in Heap /\ lits2 \in Heap
    /\ copied \in Seq([opcode: Opcodes, last: BOOLEAN, op1_type: {"CONST", "UNUSED"},
                       op2_type: {"CONST", "UNUSED"}, op1: OpWord, op2: OpWord,
                       ext: Offset32])

Init ==
    /\ build \in Builds
    /\ prog \in Programs
    /\ newOps \in Heap
    /\ lits2 \in Heap \ {newOps}
    /\ copied = <<>>

\* lines 640-642: literals copied into their block, then the opcodes
CopyOpArray ==
    /\ copied = <<>>
    /\ copied' = CopyOpcodes(Encode(prog, SrcOps, SrcLits), SrcOps, newOps,
                             SrcLits, NewLits)
    /\ UNCHANGED <<build, prog, newOps, lits2>>

Next == CopyOpArray

Spec == Init /\ [][Next]_vars

(* Jump and constant integrity (pthreads_copy_opcodes): every CONST        *)
(* operand, op1/op2 jump and extended_value jump of the copy, read the way *)
(* the VM of this build reads it from the copy's own address, names the    *)
(* same literal index and the same opline index as in the source, so it    *)
(* lies inside the copy and never in the source's arrays.                  *)
CopyResolvesLikeSource ==
    copied # <<>> => Decode(copied, newOps, NewLits) = prog

=============================================================================
