------------------------------ MODULE MCReveal ------------------------------
(* A stack of two that is entered at its second slide, a stack of two with  *)
(* two fragments of one group on its first slide, and a plain last column   *)
(* with one fragment.                                                       *)
EXTENDS Reveal, TLC

MCStack == 0 :> 2 @@ 1 :> 2 @@ 2 :> 0
MCStartV == [x \in Columns |-> IF x = 0 THEN 1 ELSE -1]
MCGiven == <<0, 0>> :> <<>> @@ <<0, 1>> :> <<>> @@ <<1, 0>> :> <<5, 5>> @@ <<1, 1>> :> <<>> @@ <<2, 0>> :> <<-1>>
NoAuto == [s \in Slides |-> "none"]
MCSlideAuto == [NoAuto EXCEPT ![<<1, 0>>] = "zero"]
MCStackAuto == [x \in Columns |-> IF x = 1 THEN "set" ELSE "none"]
MCNamed == {<<1, 1>>}
MCSlideState == [s \in Slides |-> "none"]
MCStackState == [x \in Columns |-> "none"]

Config(loop, rtl, history, auto, stoppable) ==
    [loop |-> loop, rtl |-> rtl, history |-> history, autoSlide |-> auto, stoppable |-> stoppable]
MCConfigs == {Config(FALSE, FALSE, TRUE, "set", TRUE), Config(TRUE, TRUE, FALSE, "set", FALSE),
              Config(TRUE, FALSE, TRUE, "zero", TRUE)}
MCSentStates == {[indexh |-> 1, indexv |-> 0, indexf |-> 0, paused |-> TRUE, overview |-> FALSE],
                 [indexh |-> 2, indexv |-> 0, indexf |-> -1, paused |-> FALSE, overview |-> TRUE]}
\* sortFragments runs again and again on what it has sorted before: this changes
\* nothing, and the groups are numbered from 0 without gaps.  Up to four
\* fragments.
ASSUME SortedStays ==
    \A given \in UNION {[1 .. n -> {-1, 0, 1, 2, 4}] : n \in 0 .. 4} :
        LET sorted == SortFragments(given)
            groups == {sorted[i] : i \in DOMAIN sorted}
        IN  SortFragments(sorted) = sorted /\ groups = 0 .. Cardinality(groups) - 1

MCHashes == {IndexHash(2, 7), NameHash(<<1, 1>>), MissingHash}
=============================================================================
