----------------------------- MODULE MCHeapFile -----------------------------
(* TLC instances of HeapFile. *)
EXTENDS HeapFile

MCContent == HFPage \cup {[file |-> p] : p \in Page}
=============================================================================
