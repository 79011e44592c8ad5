---------------------------- MODULE MCIosSession ----------------------------
(***************************************************************************)
(* IosSession on a small instance: an operation of any kind, then one that *)
(* changes the app while the first may still be landing.                   *)
(***************************************************************************)
EXTENDS IosSession, TLC

MCAsked == << {"act", "launch", "observe"}, {"act"} >>
=============================================================================
