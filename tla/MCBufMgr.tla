------------------------------ MODULE MCBufMgr ------------------------------
(* TLC instance of BufMgr. *)
EXTENDS BufMgr

\* Reads of the space map may fail: the page every allocation and deallocation needs.
MCFaults == {"read"} \X {1}
=============================================================================
