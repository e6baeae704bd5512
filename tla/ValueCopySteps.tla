--------------------------- MODULE ValueCopySteps ---------------------------
(***************************************************************************)
(* pthreads_copy_zval and pthreads_copy_hash (src/src/copy.c, lines        *)
(* 48-141) as the thread runs them: one call or one loop iteration per     *)
(* step, over an explicit C call stack.  The top frame is Head(stack).  A  *)
(* "zval" frame is a pthreads_copy_zval call on a cell at a call depth; a  *)
(* "hash" frame is a pthreads_copy_hash call with the buckets still to     *)
(* visit and the table built so far.  `ret` carries what the frame that    *)
(* just returned gave back.  The copy runs in one thread without waiting   *)
(* on anything, so the thread is weakly fair.                              *)
(*                                                                         *)
(* ValueCopy computes the same copy in one step; this module is shown to   *)
(* implement it, and to return.                                            *)
(***************************************************************************)
EXTENDS Naturals, Sequences

CONSTANTS NCells, MaxElems, MaxDepth, AllowCycles, PhpVersion, HardCopy,
          None, Overflow

VARIABLES
    heap,     \* the source zvals
    result,   \* what the outermost call returned, as in ValueCopy
    entry,    \* the entry point that returned, as in ValueCopy
    stack,    \* the call frames, top first
    ret       \* the return value of the frame that just returned, or None

VC == INSTANCE ValueCopy

vars == <<heap, result, entry, stack, ret>>

ZvalFrame(c, d) == [fn |-> "zval", cell |-> c, d |-> d]
HashFrame(elems, d) == [fn |-> "hash", elems |-> elems, acc |-> <<>>, d |-> d]

Top == Head(stack)
\* the top frame is replaced (a tail call, or a callee taking the caller's
\* place in the model) or popped
Replace(f) == stack' = <<f>> \o Tail(stack)

Init ==
    /\ heap \in VC!Heaps
    /\ result = None
    /\ entry = None
    /\ stack = <<>>
    /\ ret = None

\* a value crosses into the destination: pthreads_copy_zval on cell 1
Call ==
    /\ result = None /\ stack = <<>> /\ ret = None
    /\ stack' = <<ZvalFrame(1, 1)>>
    /\ UNCHANGED <<heap, result, entry, ret>>

\* a call nested deeper than the C stack allows: the thread dies
StackOverflow ==
    /\ stack # <<>> /\ Top.fn = "zval" /\ Top.d > MaxDepth
    /\ result' = Overflow /\ entry' = "zval"
    /\ stack' = <<>>
    /\ UNCHANGED <<heap, ret>>

\* lines 49-52: an INDIRECT or REFERENCE zval is copied through what it
\* points at, one call deeper
ZvalDeref ==
    /\ stack # <<>> /\ Top.fn = "zval" /\ Top.d <= MaxDepth
    /\ heap[Top.cell].type = "REFERENCE"
    /\ Replace(ZvalFrame(heap[Top.cell].to, Top.d + 1))
    /\ UNCHANGED <<heap, result, entry, ret>>

\* lines 70-73: an array is copied by pthreads_copy_hash, one call deeper
ZvalArray ==
    /\ stack # <<>> /\ Top.fn = "zval" /\ Top.d <= MaxDepth
    /\ heap[Top.cell].type = "ARRAY"
    /\ Replace(HashFrame(heap[Top.cell].elems, Top.d + 1))
    /\ UNCHANGED <<heap, result, entry, ret>>

\* lines 54-113: every other type returns at once (SUCCESS with the copy,
\* or FAILURE); ValueCopy's CopyZval gives the value for these types.  A
\* closure's function copy, its statics included, is one step here; when
\* the calls it makes overflow the stack, the thread ends there.
ZvalReturn ==
    /\ stack # <<>> /\ Top.fn = "zval" /\ Top.d <= MaxDepth
    /\ heap[Top.cell].type \notin {"REFERENCE", "ARRAY"}
    /\ LET r == VC!CopyZval(Top.cell, Top.d)
       IN IF r = Overflow
          THEN /\ result' = Overflow /\ entry' = "zval"
               /\ stack' = <<>>
               /\ UNCHANGED ret
          ELSE /\ ret' = r
               /\ stack' = Tail(stack)
               /\ UNCHANGED <<result, entry>>
    /\ UNCHANGED heap

\* line 127: ZEND_HASH_FOREACH_KEY_VAL takes the next bucket and calls
\* pthreads_copy_zval on its value
HashNext ==
    /\ stack # <<>> /\ Top.fn = "hash" /\ ret = None /\ Top.elems # <<>>
    /\ stack' = <<ZvalFrame(Head(Top.elems).cell, Top.d)>> \o stack
    /\ UNCHANGED <<heap, result, entry, ret>>

\* the bucket a hash frame is at, with its copy (if any) added
Added(f, v) ==
    LET e == Head(f.elems)
    IN Append(f.acc, [key |-> VC!HashKeyAddRef(VC!CopyKey(e.key)), val |-> v])

\* mutant: a hand-written loop whose `continue` skips the iterator's advance
HashUpdateContinueNoAdvance ==
    /\ stack # <<>> /\ Top.fn = "hash" /\ ret # None
    /\ Replace(IF ret.ok THEN [Top EXCEPT !.elems = Tail(@), !.acc = Added(Top, ret.v)]
               ELSE Top)
    /\ ret' = None
    /\ UNCHANGED <<heap, result, entry>>

\* mutant: the source's key string stored in the copy
HashUpdateSourceKey ==
    /\ stack # <<>> /\ Top.fn = "hash" /\ ret # None
    /\ Replace([Top EXCEPT !.elems = Tail(@),
                           !.acc = IF ret.ok
                                   THEN Append(@, [key |-> Head(Top.elems).key, val |-> ret.v])
                                   ELSE @])
    /\ ret' = None
    /\ UNCHANGED <<heap, result, entry>>

\* lines 128-137: a FAILURE skips the bucket (continue); a copy is added
\* under the copied key (zend_hash_update / zend_hash_index_update)
HashUpdate ==
    /\ stack # <<>> /\ Top.fn = "hash" /\ ret # None
    /\ Replace([Top EXCEPT !.elems = Tail(@),
                           !.acc = IF ret.ok THEN Added(Top, ret.v) ELSE @])
    /\ ret' = None
    /\ UNCHANGED <<heap, result, entry>>

\* line 140, with line 71: the table is returned, and the array zval that
\* called pthreads_copy_hash returns SUCCESS with it
HashReturn ==
    /\ stack # <<>> /\ Top.fn = "hash" /\ ret = None /\ Top.elems = <<>>
    /\ ret' = VC!Ok([type |-> "ARRAY", elems |-> Top.acc])
    /\ stack' = Tail(stack)
    /\ UNCHANGED <<heap, result, entry>>

\* the outermost call has returned to the caller
Return ==
    /\ stack = <<>> /\ ret # None /\ result = None
    /\ result' = ret /\ entry' = "zval"
    /\ UNCHANGED <<heap, stack, ret>>

Step ==
    \/ Call \/ StackOverflow \/ ZvalDeref \/ ZvalArray \/ ZvalReturn
    \/ HashNext \/ HashUpdate \/ HashReturn \/ Return

\* the copying thread never stops between two of its own steps
Fairness == WF_vars(Step)

Spec == Init /\ [][Step]_vars /\ Fairness

-----------------------------------------------------------------------------
TypeOK ==
    /\ \A i \in DOMAIN stack :
          \/ /\ stack[i].fn = "zval"
             /\ stack[i].cell \in 1..NCells /\ stack[i].d \in 1..MaxDepth + 1
          \/ /\ stack[i].fn = "hash"
             /\ \A k \in DOMAIN stack[i].acc : stack[i].acc[k].key \in VC!CopiedKeys
    /\ ret = None \/ ret.ok \in BOOLEAN

(* Termination (pthreads_copy_zval/pthreads_copy_hash, spec.md 5: "every   *)
(* replication call ... completes or fails within the calling thread"):    *)
(* once a value starts to cross, the outermost call eventually returns to  *)
(* its caller, or the thread ends on its stack.                            *)
CopyReturns == (stack # <<>>) ~> (result # None)

=============================================================================
