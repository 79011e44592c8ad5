------------------------------ MODULE MCRunner ------------------------------
(***************************************************************************)
(* Runner on a small instance.  The failure streak is full at two so that  *)
(* a streak, its interruption and its limit fit in a run of three steps.   *)
(***************************************************************************)
EXTENDS Runner, TLC

CONSTANTS p, q

MCProps == {p}
MCTwoProps == {p, q}
MCKinds == {"tapSelector", "inputText", "wait", "pressNoKey"}
MCFewKinds == {"tap", "pressNoKey"}
MCDoubleTap == {"tap", "doubleTapSelector"}
=============================================================================
