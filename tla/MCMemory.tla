------------------------------ MODULE MCMemory ------------------------------
(* KAlloc and BufCache, as MCKAlloc and MCBufCache have them.  They share no *)
(* variable, so a behaviour is one of the allocator or one of the cache, and *)
(* the other stays as it started.                                            *)
EXTENDS MCKAlloc, MCBufCache

VARIABLE part   \* the one that moves

MCInit == KallocInit /\ Init /\ part \in {"allocator", "cache"}
MCNext == /\ \/ part = "allocator" /\ KallocNext /\ UNCHANGED vars
             \/ part = "cache" /\ Next /\ Serial' /\ UNCHANGED kallocVars
          /\ UNCHANGED part

\* Fairness asks nothing of a cache that does not move: no task is inside it.
MCSpec == MCInit /\ [][MCNext]_<<kallocVars, vars, part>> /\ Fairness
=============================================================================
