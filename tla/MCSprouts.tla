------------------------------ MODULE MCSprouts ------------------------------
(* Games with two circles, of at most five lines.                           *)
EXTENDS Sprouts
=============================================================================
