----------------------------- MODULE MCBufCache -----------------------------
(* TLC instances of BufCache: two tasks that ask for any of three blocks,    *)
(* more blocks than entries and as many buffers as entries.                  *)
EXTENDS BufCache

CONSTANTS t1, t2, b1, b2, b3, m1, m2

MCTask == {t1, t2}
MCBlock == {b1, b2, b3}
MCBuffer == {m1, m2}
=============================================================================
