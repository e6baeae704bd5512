---------------------------- MODULE CopyOutcome ----------------------------
(***************************************************************************)
(* What the code-object replicator promises one destination context        *)
(* (spec.md 4.5, "State machine"): every request for a source function     *)
(* ends as SharedUnchanged, CacheHit or FreshCopy, or fails and ends the   *)
(* destination.  Destination identities are allocation numbers 1, 2, ...   *)
(* A fresh copy may create several identities at once (the function and    *)
(* the nested definitions it carries); each non-closure among them is      *)
(* remembered, and a remembered identity is never replaced.  A failure    *)
(* may leave the nested definitions copied before it remembered.           *)
(***************************************************************************)
EXTENDS Naturals

CONSTANTS
    Functions,   \* source functions
    Immutable,   \* those flagged immutable
    Closures,    \* those flagged as closures
    None

VARIABLES
    cache,   \* source function -> its destination identity, or None
    made,    \* identities created so far
    ret,     \* what the last request returned
    dead     \* a request failed and the destination ended

vars == <<cache, made, ret, dead>>

Cacheable(f) == f \notin Immutable \cup Closures

Init ==
    /\ cache = [f \in Functions |-> None]
    /\ made = 0
    /\ ret = None
    /\ dead = FALSE

\* the source itself is returned, nothing is created or remembered
SharedUnchanged(f) ==
    /\ f \in Immutable
    /\ ret' = f
    /\ UNCHANGED <<cache, made, dead>>

\* a remembered non-closure returns its identity
CacheHit(f) ==
    /\ Cacheable(f) /\ cache[f] # None
    /\ ret' = cache[f]
    /\ UNCHANGED <<cache, made, dead>>

\* the identities created by this step, remembered only for the
\* non-closures that had none, each under one source function
Remembers ==
    /\ \A g \in Functions :
          \/ cache'[g] = cache[g]
          \/ cache[g] = None /\ Cacheable(g) /\ cache'[g] \in made + 1..made'
    /\ \A g, h \in Functions : cache'[g] = cache'[h] /\ cache'[g] # None => g = h

\* a closure, or a non-closure not yet remembered, gets a new identity
FreshCopy(f) ==
    /\ f \notin Immutable
    /\ f \in Closures \/ cache[f] = None
    /\ made' > made
    /\ ret' \in made + 1..made'
    /\ Remembers
    /\ Cacheable(f) => cache'[f] = ret'
    /\ UNCHANGED dead

\* a fatal error ends the destination and returns nothing.  spec.md 8 asks
\* that nothing be remembered; what is promised here is weaker: nested
\* definitions copied before the failure may stay remembered, each under its
\* own new identity, but the failing function itself is not, and no earlier
\* entry is replaced
Fails(f) ==
    /\ f \notin Immutable
    /\ dead' = TRUE
    /\ made' >= made
    /\ ret' = None
    /\ Remembers
    /\ cache'[f] = cache[f]

Next ==
    /\ ~dead
    /\ \E f \in Functions :
          SharedUnchanged(f) \/ CacheHit(f) \/ FreshCopy(f) \/ Fails(f)

Spec == Init /\ [][Next]_vars

=============================================================================
