------------------------------ MODULE MCReplay ------------------------------
(* A run of two lines; one tab on it and one beside it, two on the list.   *)
EXTENDS Replay

MCClients == 0 .. MaxLines + 1
=============================================================================
