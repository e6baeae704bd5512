# TLA+ models of the pthreads cross-context replication engine

This directory holds TLA+ models of `src/src/copy.c`, the code that deep-copies
values, arrays, constant-expression trees and compiled functions from one PHP
thread's heap into another's. The models are checked with TLC.

## 1. Inventory

### Components

The engine has no threads of its own. Every function in `copy.c` runs to
completion in the thread that builds the destination context. All of its state
is either the source being read or the destination's module globals
(`PTHREADS_ZG`, `src/src/pthreads.h:118-131`).

| Component | Code | State it keeps | Operations |
|---|---|---|---|
| String interner bridge | `pthreads_copy_string` (copy.c:26-46) | none. It reads the string's flags and `PTHREADS_ZG(hard_copy_interned_strings)`. | It shares permanent strings, shares request-interned strings before PHP 8.1 unless hard copy is on, and otherwise duplicates. |
| Value replicator | `pthreads_copy_zval` (48-114) | none | It dereferences INDIRECT and REFERENCE, then switches on the type. Scalars are duplicated. Strings go through the interner. Arrays go through `copy_hash`. A Threaded object is reconnected, and a closure is copied through `copy_function`. Constant ASTs go through `copy_ast`. Anything else is `FAILURE`. |
| Aggregate replicator | `pthreads_copy_hash` (116-141) | none | It copies each element in order. An element that fails is skipped. String keys are copied. |
| Constant-expression tree replicator | `zend_ast_tree_size`, `pthreads_copy_ast_tree`, `pthreads_copy_ast` (143-257) | one block per tree | A size pass and a flatten pass, both recursive. |
| Attributes | `pthreads_copy_attribute(s)` (259-299) | none | It copies the name and each argument. A non-copyable argument raises `E_CORE_ERROR`, which ends the thread. |
| Statics, variables, try/catch, live ranges, arg info, types | 301-538 | none | Flat copies. A static that fails to copy is kept as NULL. |
| Code object replicator | `pthreads_copy_function`, `pthreads_copy_user_function`, `pthreads_copy_internal_function`, `pthreads_copy_dynamic_func_defs` (540-710) | `PTHREADS_ZG(resolve)` and `PTHREADS_ZG(filenames)` | Immutable functions are returned as they are. Otherwise the resolve table is looked up. On a hit the copy's refcount is bumped. On a miss a fresh copy is made: header, refcount, runtime cache, filename, then the opcodes, literals and metadata when the parts are not in SHM, then the nested definitions, then the statics. Non-closures are registered in the resolve table. |
| Opcode rebasing | `pthreads_copy_opcodes` (392-478), block layout (618-642) | none | It rewrites CONST operands and jump targets so that they point into the new arrays. There are two build encodings. |
| Worker lifecycle, object model, class preparation | `prepare.h`, `object.h`, `pthreads.h` | Only declarations are in this repository. | These are the callers of the engine. |

### How the components interact

Function copying and value copying call each other. `copy_zval` calls
`copy_function` for a closure. `copy_function` calls `copy_zval` for literals,
statics and attribute arguments, and calls itself for nested definitions. The
resolve table and the filename table are shared state across all the
requests one destination makes. This state is what makes the sequence of
requests matter.

### What is hard

- Sequences of requests. The resolve table, the refcounts and the filename
  refcounts depend on every earlier request, including requests made
  indirectly through nested definitions.
- Reference cycles. A value can reach itself through a PHP reference,
  also through the `use` variables of a closure.
- Address arithmetic. The two operand encodings differ: 32-bit builds use
  absolute pointers and 64-bit builds use 32-bit offsets from the opline.
  Which array, old or new, each expression reads depends on the order of
  lines 640-642.
- Partial failure. An element that fails is dropped. A static that fails is
  kept as NULL. A failing attribute aborts the thread.
- Build and version configuration: PHP 8.0 versus 8.1+, and
  `hard_copy_interned_strings`.

There is no concurrency inside the engine. spec.md 5 requires callers to
serialise all crossings into a destination. For that reason no model
interleaves two requests.

### Properties that make each component correct

- Code object replicator: one copy per non-closure definition
  (`OneCopyPerDefinition`). Refcount equal to the number of holders
  (`RefcountCountsHolders`). Closures never shared (`ClosureCopiesUnshared`).
  Filename refcounts balanced (`FilenameRefcount`). Statics fresh per request,
  as spec.md 4.5.5 states (`StaticsFreshPerRequest`, which is violated).
- Opcode rebasing: every operand of the copy names the same literal or opline
  inside the copy (`CopyResolvesLikeSource`). Operand words fit their 32-bit
  fields (`TypeOK`).
- Value and aggregate replicator: the copy has the spec's content
  (`CopyMatchesSpec`). Every static name is kept
  (`StaticsKeepEveryName`, with every name's value as `copy_zval` gives it,
  or NULL where that fails). Copying terminates (`CopyTerminates`, which is
  violated). Copying a closure succeeds, as spec.md 4.2 states
  (`ClosureCopySucceeds`, which is violated).
- Constant-expression tree: the flatten pass stays within the block that
  the size pass computed and fills it exactly (`FlattenFitsTreeSize`). The
  copy's child pointers give back the source tree (`CopyIsSourceTree`).
- Code object replicator, as a whole: every request is one of spec.md 4.5's
  outcomes (`ImplementsCopyOutcome`, a refinement of `CopyOutcome`), a
  failure included that leaves an already-copied nested definition
  registered. A
  request returns a copy of the function it asked for
  (`ReturnsCopyOfRequested`, which is violated).
- Argument metadata: the copy is read at the same indexes as the source
  (`ArgSlotsMatch`). It shares no type-list memory and no request string
  with the source (`MetadataIndependent`).
- Attributes: a copy is all or fatal (`AttributeAllOrFatal`).
- Array keys: a copied string key has exactly one owner, the new table
  (`KeyStringsOwned`, which is violated).
- Value copy, step by step: once a value starts to cross, the outermost call
  returns (`CopyReturns`).
- Closures: a copied closure is not bound to a class of the source's request
  (`ClosureScopeRebound`, which is violated).
- Map pointers: the copy's runtime cache, read back the way the build reads
  it, is NULL or a zeroed cache of its own (`RuntimeCacheOwned`).

## 2. Plan

Order, most important first:

1. **FunctionCopy** (done). The request state machine of the code-object
   replicator, with the resolve table (keyed by source address) and the
   filename table.
2. **OpcodeRebase** (done). Operand rewriting in both build encodings.
3. **ValueCopy** (done). Values, arrays, statics, attribute arguments and
   strings over a source heap with references.
4. **AstCopy** (done). The size pass and the flatten pass over every tree of
   depth 2, with its strings copied through ValueCopy.
5. **CopyOutcome** (done). The abstract specification of spec.md 4.5's
   state machine. FunctionCopy is shown to implement it.
6. **FunctionCopyReuse** (done). FunctionCopy composed with source functions
   being freed and their addresses reused.
7. **ArgInfoCopy** (done). Argument info, types and variable names.
8. **ValueCopySteps** (done). The copy loop one call or iteration per
   step, with liveness.
9. **ClosureCopy** (done). The closure branch of `copy_zval` composed with
   FunctionCopy.
10. **OpArrayMapPtrs, UserFunctionMeta** (done). The runtime cache and
    statics map pointers in 8.1 and 8.2 layouts, composed with ArgInfoCopy.
11. **Closure statics in ValueCopy** (done). A closure value carries its
    statics, copied again on every copy since closures are never cached;
    this exposes the self-capturing closure.
12. **Left open**: `pthreads_copy_literals`. Compiler literals are always
    copyable, so its failure branch (`ZEND_ASSERT(0)`) is unreachable and a
    model of it would check nothing that ValueCopy does not.

## 3. Modules and how they correspond to the code

### FunctionCopy.tla, checked through MCFunctionCopy.tla

- **Functions and their shapes.** A source function is a model value. `Fn[f]`
  gives its shape: user or internal, `ZEND_ACC_IMMUTABLE`,
  `ZEND_ACC_CLOSURE`, refcount NULL (parts in SHM), filename, statics,
  whether its attributes can be copied, and its nested definitions.
- **Variables.**
  - `resolve` is `PTHREADS_ZG(resolve)`.
  - `filenames` is `PTHREADS_ZG(filenames)` with the refcount of each
    string.
  - `copies` holds the destination copies. A copy records its refcount, its
    statics table and its nested pointers.
  - `fatal` records the `E_CORE_ERROR` bailout.
- **Copy algorithm.** `CopyFunction`, `CopyUserFunction` and `CopyNested` are
  mutually recursive operators that follow the code's branches in the code's
  order.
- **The `Request` action** is one call from a caller. The whole call,
  recursion included, is one step.
- **`holders`** is a history counter that the properties compare refcounts
  with. It is not program state.

### OpcodeRebase.tla, checked through MCOpcodeRebase.tla

- **Programs.** A program is a sequence of instructions with literal indexes
  and jump targets. Init enumerates every well-formed program of up to 3
  oplines and 2 literals over the opcode classes of lines 438-471.
- **Encoding and decoding.** `Encode` lays a program out at the source
  addresses in the build's encoding. `Decode` reads it back as the VM would.
- **The copy.** `CopyOpcodes`, `RebaseOpline` and `Rebase*` are the loop of
  `pthreads_copy_opcodes`. `LiteralsBase` is the block layout of lines
  618-638.
- **Addresses** are counted in 4-byte words, so that 64-bit heap addresses
  fit TLC's integers.
- **The build** is a variable chosen in Init from `Builds`: a 32-bit layout
  (absolute operands, 28-byte oplines) and a 64-bit one (offsets, 32-byte
  oplines). One run covers both encodings.

### CopyOutcome.tla, the abstract specification

- **Variables.** `cache` maps each source function to its destination
  identity. `made` counts the identities created. `ret` is what the last
  request returned. `dead` is set once a failure has ended the destination.
- **Actions.** `SharedUnchanged`, `CacheHit`, `FreshCopy` and `Fails`.
- **`FreshCopy`** may create several identities in one step: the function
  and its nested definitions. Each non-closure among them is remembered, and
  a remembered identity is never replaced.
- **`Fails`** ends the destination. spec.md 8 says a failing request
  registers nothing, but `pthreads_copy_dynamic_func_defs` (line 546)
  copies, and so registers (line 709), each nested definition before the
  next. `Fails` therefore allows the nested definitions copied before the
  failure to stay remembered under new identities. The failing function
  itself is never remembered, and no earlier entry is replaced. MCFunctionCopy's
  `n1` nests `<<g1, bad>>` so that the run reaches this case.
- **The refinement.** FunctionCopy defines `Abstract == INSTANCE CopyOutcome
  WITH` the following mapping, and the function_copy run checks
  `Abstract!Spec` as the PROPERTY `ImplementsCopyOutcome`:
  - `cache` ← `resolve` read through `Addr`;
  - `made` ← `Len(copies)`;
  - `ret` ← `last.ret`;
  - `dead` ← `fatal`.

### FunctionCopyReuse.tla, checked through MCFunctionCopyReuse.tla

- **Composition.** It extends FunctionCopy with the set `live` of source
  functions that exist.
  - `Free(f)`: a source context frees `f`. Immutable functions, which live
    in opcache SHM, are never freed.
  - `Allocate(f)`: a source context defines `f` at an address no live
    function holds.
  - `RequestLive(f)`: FunctionCopy's `Request`, for a live function.
- **What drives it.** The resolve table is keyed by `Addr[f]`, as the code
  keys it by `(zend_ulong)function`. A stale entry therefore answers for a
  new function at the same address.

### AstCopy.tla, checked through MCAstCopy.tla

- **Trees.** A tree is a record: a ZVAL leaf, a CONSTANT leaf, or a LIST or
  AST node with a sequence of children, any of which may be `Null`.
- **The two passes.** `ZendAstTreeSize` is the size pass. `CopyAstTree` and
  `CopyChildren` are the flatten pass.
- **Memory.** It is a sequence of writes `[at, size, node]` at byte offsets
  from the block, and a child pointer is the offset where the child was
  written.
- **Sizes.** These are the 64-bit structure sizes, given as constants in the
  cfg.
- **The block.** `PthreadsCopyAst` allocates `tree size + sizeof(zend_ast_ref)`
  and flattens from `GC_AST(ref)`.
- **Composition.** Strings go through `ValueCopy!CopyString`, which is
  instantiated.

### ArgInfoCopy.tla, checked through UserFunctionMeta.tla

- **Layouts.** A layout is the flags (`ZEND_ACC_HAS_RETURN_TYPE`,
  `ZEND_ACC_VARIADIC`), `num_args`, and the memory from the return type's
  entry to the variadic one. `op_array->arg_info` points past the return
  type.
- **The copy.** `CopyArginfo` follows lines 512-535. It steps back, counts
  the entries, copies each through `CopyArgEntry` and `CopyZendType`, and
  steps forward.
- **Types.** A type is a mask, a class name, or a list in its own
  allocation. A list may hold nested intersection lists, as in PHP 8.2 DNF
  types.
- **Properties.** They read the copy back at every index the engine uses.

### OpArrayMapPtrs.tla, checked through UserFunctionMeta.tla

- **Memory.** A sequence of blocks with an owner, a size in bytes and
  pointer-sized words. `FieldOf(x)` is `&op_array->static_variables`.
- **The build** (`build`, 80100 or 80200) is chosen in Init.
  `PthreadsMapPtrGet` is the pointer branch of the repository's
  `PTHREADS_MAP_PTR_GET` (pthreads.h:150-160): from 8.2 the map pointer is
  the value, before 8.2 it names the slot holding it. The offset branch is
  never reached on a copy, since both map pointers are overwritten by
  `ZEND_MAP_PTR_INIT`.
- **The action** `CopyMapPtrs` is lines 578-600 (`CopyRunTimeCache`: in 8.1 a
  block of `sizeof(void*) + cache_size` whose first word is the slot, set to
  the cache after it) and 657-662 (`CopyStaticsTable`, `InitStaticsPtr`).

### UserFunctionMeta.tla, the composition

It instantiates OpArrayMapPtrs and ArgInfoCopy and takes both copies in one
step, `CopyOpArrayMeta`, as `pthreads_copy_user_function` does them in one
call. ArgInfoCopy is instantiated at PHP 8.1: its string copies only tell
builds before 8.1 from the others, so it behaves the same in both builds.

### ClosureCopy.tla, checked through MCClosureCopy.tla

It extends FunctionCopy with closure objects of the source: the function each
wraps, its `func.common.scope` and its `called_scope`, each a class of the
source's request, an immutable SHM class, or none. `CopyClosureObject` is
lines 80-103: the function is copied through `CopyFunction`, and unless that
ended the thread a destination object is created with the source's scopes
(line 89) and registered in `EG(function_table)`.

### ValueCopySteps.tla, checked through MCValueCopySteps.tla

- **Variables.** The ValueCopy heap and result, plus an explicit C call
  stack of `zval` frames (cell, depth) and `hash` frames (buckets left, table
  built so far), and `ret`, what the frame that just returned gave back.
- **Actions.** `Call`, `StackOverflow`, `ZvalDeref` (lines 49-52),
  `ZvalArray` (70-73), `ZvalReturn` (the other types), `HashNext` (127),
  `HashUpdate` (128-138, with the `continue` on FAILURE), `HashReturn` (140)
  and `Return`.
- **Reuse of ValueCopy.** `VC == INSTANCE ValueCopy` gives the source
  heaps and, in `ZvalReturn`, the copy of a leaf or a closure. No refinement
  of ValueCopy is checked: both modules translate the same lines, so it
  would hold whatever the code does.

### ValueCopy.tla, checked through MCValueCopy.tla

- **The source heap.** The source heap has `NCells` zvals. An array's buckets
  name cells of higher index. A REFERENCE names any other cell when
  `AllowCycles` is set, so every cycle goes through a reference, as in PHP.
  A reference never names a reference.
- **The copy.** `CopyZval`, `CopyHash` and `CopyStatics` follow the code.
  The call depth is counted, and exceeding `MaxDepth` is a stack overflow.
- **Attributes.** `CopyAttributeArgs` is the argument loop of
  `pthreads_copy_attribute`: the values in order, the names of named
  arguments, and `E_CORE_ERROR` on the first value that cannot be copied.
- **Closures.** A closure value carries its function's statics, where
  `use` variables live. Closures are neither looked up (line 684) nor registered (lines 705-706)
  in the resolve table, so every copy
  goes through `pthreads_copy_user_function` and `copy_statics` (line 657)
  again. `CopyZval` therefore copies a closure's statics one level deeper.
  The rest of the function copy is modelled in FunctionCopy. A closure that
  captures itself by reference (`$f = function () use (&$f) {...}`) is a
  statics cell holding a REFERENCE back to the closure.
- **Abstractions.** Constant ASTs are abstracted to success; they are
  modelled in AstCopy. In ValueCopySteps, copying a closure is one step.

## 4. Runs

| Run | cfg | Result | What it shows |
|---|---|---|---|
| function_copy | MCFunctionCopy.cfg | pass, 4.3k states | Up to 4 requests over 10 functions of every shape keep the four invariants and refine CopyOutcome, a failure after a registered nested definition included. |
| function_copy_statics | MCFunctionCopyStatics.cfg | violation | A second request for `f1` returns the first copy and its statics. |
| opcode_rebase | MCOpcodeRebase.cfg | pass, 1.4M states | In a 32-bit and a 64-bit build, every copied operand resolves inside the copy. |
| function_copy_address_reuse | MCFunctionCopyReuse.cfg | violation | `a1` is copied and freed, then `a2` is defined at its address. A request for `a2` returns the copy of `a1`. |
| value_copy | MCValueCopy.cfg | pass, 139k states | All acyclic values of 3 zvals, closures holding statics included, as values, statics tables and attribute arguments, on PHP 8.1. |
| value_copy_cycles | MCValueCopyCycles.cfg | violation | The value `$a = []; $a[0] = &$a;` overflows the stack. |
| ast_copy | MCAstCopy.cfg | pass, 8.7k states | For every constant expression of depth 2, the block is filled exactly and read back as the source tree. |
| user_function_meta | MCUserFunctionMeta.cfg | pass, 708k states | In PHP 8.1 and 8.2 builds, the copy's runtime cache and statics pointer are its own, and every argument layout of up to 2 arguments reads back at the same indexes and is independent of the source. |
| value_copy_key_refcount | MCValueCopyKeys.cfg | violation | Copying `['k' => 1]` leaves the new key string with refcount 2 and one owner. |
| value_copy_steps | MCValueCopySteps.cfg | pass, 3.7k states | Every value of 2 zvals, cycles included, is copied stepwise until the outermost call returns or the stack overflows. |
| closure_copy_scope | MCClosureCopy.cfg | violation | A closure made in a method of a request class is copied bound to that class. |
| closure_copy_recursive | MCValueCopyClosure.cfg | violation | A closure whose `use (&$f)` captures itself overflows the stack when copied. |

### Findings

- **Statics are not fresh on a cache hit** (spec/code divergence). spec.md
  4.5 step 5 says statics are always freshly copied, even on a cache hit. The
  code at copy.c:684-696 returns the cached copy before line 657 runs, so the
  statics are not copied.
- **A self-referencing array overflows the stack** (code bug). Copying an
  array that holds a reference to itself recurses until the stack overflows:
  copy.c:52 follows the reference and copy.c:71 recurses into the array. This
  contradicts spec.md 4.3 and 5.
- **The resolve table is keyed by address** (code bug). copy.c:685 and 709
  key the table by `(zend_ulong)function`, and entries are never removed.
  After a source function is freed and another is allocated at its address,
  a request for the new function returns the copy of the old one. spec.md
  4.5 step 2 keys the cache by source identity.
- **A self-capturing closure overflows the stack** (code bug). For
  `$f = function () use (&$f) {...}`, the closure's statics hold a
  reference to the closure. copy.c:86 copies the closure through
  `pthreads_copy_function`, which neither looks closures up (line 684) nor
  registers them (lines 705-706), and
  `pthreads_copy_statics` (line 657, then lines 317-318) follows the
  reference back to the same closure, without end. spec.md 4.2 says a
  closure copy succeeds unless the code object copy fails.

- **Array keys leak** (code bug). copy.c:133 passes the fresh string from
  `pthreads_copy_string` (refcount 1) to `zend_hash_update`, which adds its
  own reference to a non-interned key. The first reference is never
  released, so each plain string key of a copied array leaks.
  `pthreads_copy_statics` releases its name at line 325, and the filename
  table at line 609.
- **A copied closure keeps the source's scope** (spec/code divergence).
  spec.md 4.2 says the closure's scope is rebound to the destination. Line 89
  passes `closure->common.scope` and `closure_obj->called_scope` of the
  source object, as the TODO at line 88 notes.

### Bounds and why they are enough

- **FunctionCopy.** The ten functions cover every branch of
  `pthreads_copy_function`:
  - immutable;
  - a cache hit for a user function and for an internal one;
  - a closure;
  - SHM-backed parts;
  - a fatal attribute, on its own and as the second nested definition after
    a registered first one;
  - a non-closure nested in a non-closure;
  - a closure nested in a non-closure;
  - a non-closure nested in a closure;
  - a plain and an interned filename.

  Four requests are enough for a function to be reached twice, directly and
  as a nested definition, and then once more.
- **OpcodeRebase.** Three oplines allow forward, backward and self jumps.
  Two literals distinguish indexes. The heap offers one block near the source
  and one far from it (1 GiB of words, past the ±2 GiB range of an int32 byte
  offset) in 64-bit, and one near the top of memory in 32-bit.
- **FunctionCopyReuse.** Two functions at one address and 2 requests: one
  copy, a free, an allocation, a second request. That is the shortest
  sequence that reuses an address.
- **AstCopy.** Depth 2 with up to 2 children gives trees of up to 7 nodes.
  They mix lists and nodes, NULL children in every position, and leaves of
  both kinds. A size mismatch in any kind shows at depth 1, and a pointer
  mistake needs a sibling after a subtree, which depth 2 has.
- **ArgInfoCopy.** Up to 2 regular arguments with every combination of the
  return-type and variadic flags. Types include a union holding an
  intersection list, which is where nested list copying matters.
- **OpArrayMapPtrs.** Cache sizes from 0 to 6 slots, including the empty
  cache, where an 8.1 allocation one word short shows first. Statics present
  or absent, and both builds.
- **ValueCopySteps.** Two cells with cycles allowed: arrays, references, a
  self-referencing array, failing values, and a bucket loop of two elements
  in which one fails and one is kept. That is the smallest loop where a
  `continue` that does not advance shows; ValueCopy checks three cells.
- **ClosureCopy.** Three closure objects, one per kind of scope, and two
  requests.
- **ValueCopy.** Three cells are the fewest that give a reference cycle
  through an array together with another element. `MaxDepth = 4` exceeds the
  nesting of any acyclic 3-cell value. Therefore `Overflow` in the cycles run
  is caused by the cycle and not by the bound. The closure run uses 2
  cells, the fewest for a closure whose statics reference it.

### Fairness and liveness

Every replication call is synchronous and never waits. The only model with
steps inside one call is ValueCopySteps: the copying thread runs each of its
steps without waiting on another thread or lock, so `WF_vars(Step)` is what
the code guarantees, and `CopyReturns` is checked under it. The one-step
models state "every copy eventually completes" as the recursion terminating
(`CopyTerminates`). Deadlock checking is off in every
cfg. A destination makes finitely many crossings, and an `E_CORE_ERROR` ends
it, so the final states are real stopping points of the system.

## 5. Not modelled, and why

- **`pthreads_copy_try` and `pthreads_copy_live`.** These are a memcpy of
  flat records with no pointers. `CopyMetadata` maps lines 645-648, but
  lines 646-647 copy only these records and are not represented.
- **`pthreads_copy_literals`.** This is a loop of `pthreads_copy_zval` over
  compiler literals, which are always copyable (planned, see above).
- **Sharing of request-interned strings before PHP 8.1** (lines 32-38).
  ValueCopy models the version test, but the runs fix PHP 8.1. A property
  that no source string is shared there would only restate that test, and
  sharing under 8.0 without `hard_copy_interned_strings` is the
  configuration trade-off spec.md 4.1 documents.
- **The static-variables map pointer** (lines 658-662). It is set to NULL
  or to the copy's own field by one assignment, so OpArrayMapPtrs keeps it
  (`InitStaticsPtr`) without a property of its own.
- **Per-instance fields shared through a cache hit** (line 691). Their
  lifetime is Zend's `destroy_op_array`, which is outside this repository.
- **The ZEND_AST_ZVAL copy's ignored result** (line 196). Compile-time leaves
  are always copyable, so AstCopy's leaves are those literals.
- **Doc comment** (lines 601-604). A string copy, abstracted away.
- **The `zend_vm_set_opcode_handler_ex` update for SEND_VAL/QM_ASSIGN.** The
  handler is a process-global code pointer.
- **Op arrays before pass two.** Functions reach the replicator compiled, so
  they are not modelled.
- **Registration of a copied closure under `Closure@%p`** (lines 91-100).
  `zend_hash_update_ptr` cannot fail, so the failure branch and the
  overwritten `result` at line 102 are dead code.
- **Worker lifecycle, object model and class preparation.** Only their
  declarations are in this repository.
