------------------------------- MODULE MCMedia ------------------------------
(* A frame, a stack with a video and a lazy video inside a fragment, and a  *)
(* far column with a lazy frame.                                            *)
EXTENDS Media, TLC

MCStack == 0 :> 0 @@ 1 :> 2 @@ 2 :> 0
MCKind == <<0, 0>> :> "lazyframe" @@ <<1, 0>> :> "video" @@ <<1, 1>> :> "lazy" @@ <<2, 0>> :> "frame"
MCAutoplay == {<<1, 0>>, <<1, 1>>}
MCInFragment == {<<1, 1>>}
MCFilmed == {<<0, 0>>}
NoIgnored == {}
=============================================================================
