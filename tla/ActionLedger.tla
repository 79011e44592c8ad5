---------------------------- MODULE ActionLedger ----------------------------
(***************************************************************************)
(* What a run promises the properties of a spec about state.lastAction:    *)
(* between two readings of the app at most one action had an effect, the   *)
(* reading that first sees the effect names that action, and actions are   *)
(* named in the order they were performed.  It abstracts runner.Run        *)
(* (internal/runner/runner.go:98-567), which carries the action of one step*)
(* to the next step the verifier accepts.                                  *)
(***************************************************************************)
EXTENDS Naturals

CONSTANT Ids  \* the actions of a run, numbered in the order they are chosen

VARIABLES
  unread,  \* the actions whose effect no reading has seen yet
  named    \* the actions readings have named

vars == <<unread, named>>

Init == unread = {} /\ named = {}

Fresh(i) == \A j \in named : j < i

\* Action i has an effect on the app, and no other action's effect is unread.
Act(i) ==
  /\ Fresh(i) /\ unread \subseteq {i}
  /\ unread' = unread \cup {i}
  /\ UNCHANGED named

\* A reading that names action i, which may or may not have had an effect.
Read(i) ==
  /\ Fresh(i) /\ unread \subseteq {i}
  /\ unread' = {}
  /\ named' = named \cup {i}

Next == \E i \in Ids : Act(i) \/ Read(i)

Spec == Init /\ [][Next]_vars
=============================================================================
