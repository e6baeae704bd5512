-------------------------- MODULE FunctionCopyReuse --------------------------
(***************************************************************************)
(* The code-object replicator of one destination context (FunctionCopy)    *)
(* composed with the memory of the source contexts it copies from.  A      *)
(* destination keeps PTHREADS_ZG(resolve) for its whole life, keyed by the *)
(* source function's address (copy.c lines 685 and 709), while source      *)
(* functions are freed when their context ends (a thread finishing, a      *)
(* class or function table destroyed) and the allocator may place another  *)
(* function at the same address.  `live` is the set of source functions    *)
(* that exist; at most one of them occupies an address.                    *)
(***************************************************************************)
EXTENDS FunctionCopy

CONSTANT InitLive   \* the source functions present when the destination starts

ASSUME InitLive \subseteq Functions
ASSUME \A f, g \in InitLive : Addr[f] = Addr[g] => f = g

VARIABLE live

allVars == <<vars, live>>

ReuseInit == Init /\ live = InitLive

\* a crossing copies a function that exists in its source context
RequestLive(f) == f \in live /\ Request(f) /\ UNCHANGED live

\* the source context frees f; immutable functions live in opcache SHM for
\* the life of the process and are never freed
Free(f) ==
    /\ f \in live /\ ~Fn[f].immutable
    /\ live' = live \ {f}
    /\ UNCHANGED vars

\* a source context defines f at an address no live function occupies
Allocate(f) ==
    /\ f \notin live
    /\ \A g \in live : Addr[g] # Addr[f]
    /\ live' = live \cup {f}
    /\ UNCHANGED vars

ReuseNext ==
    \E f \in Functions : RequestLive(f) \/ Free(f) \/ Allocate(f)

ReuseSpec == ReuseInit /\ [][ReuseNext]_allVars

(* spec.md 4.5 step 2, "look up source identity in the Resolve Cache": a   *)
(* request for a function that completes returns either the function       *)
(* itself (immutable) or a destination copy made from that very function,  *)
(* never a copy of another function that once lived at the same address.  *)
ReturnsCopyOfRequested ==
    (last.ret \in CopyIds) => copies[last.ret].src = last.fn

=============================================================================
