------------------------------ MODULE MCDrivers ------------------------------
(* Two steps, a console error and two navigations; a text of two pieces.   *)
(* A screen of two buttons that read alike, a field and a list; action     *)
(* trees of one leaf, of two weighted branches, and of branches in a       *)
(* branch, with leaves that sample, that throw and that overlap.           *)
EXTENDS Drivers

MCControls == <<"save", "delete", "amount", "list">>
MCLabelOf(control) == IF control \in {"save", "delete"} THEN "OK" ELSE control
MCFacts ==
  [ save |-> {"clickable", "enabled", "positiveBounds"},
    delete |-> {"clickable", "enabled", "positiveBounds"},
    amount |-> {"clickable", "editable", "enabled", "scrollable", "positiveBounds"},
    list |-> {"scrollable", "positiveBounds"} ]
MCKeys == <<"back", "enter">>
MCVerbs == {"doubleTaps", "longPresses", "swipes", "pressKeys", "waitOnce"}

MCTaps == <<Tap("save"), Tap("delete")>>
MCLeaves ==
  {Samples(MCTaps), Throwing} \cup {Builtin(verb) : verb \in MCVerbs}
MCBranches ==
  { <<1, Actions(<<Tap("delete"), InputText("amount", ""), Wait>>)>>,
    <<1, Builtin("taps")>>, <<1, Builtin("typing")>>, <<0, Samples(MCTaps)>>,
    <<-1, Builtin("scrolls")>> }
MCPairs == {Weighted(<<first, second>>) : first \in MCBranches, second \in MCBranches}
MCNested == {Weighted(<<<<1, Throwing>>, <<1, branch[2]>>>>) : branch \in MCBranches}
MCTrees ==
  MCLeaves \cup MCPairs \cup
  {Weighted(<<<<2, Builtin("taps")>>, <<1, node>>>>) : node \in MCNested}
MCNodes == MCTrees \cup MCNested \cup {Throwing} \cup {branch[2] : branch \in MCBranches}
MCDepthOf(node) ==
  CASE node.kind # "weighted" -> 0
    [] node \in MCPairs \cup MCNested -> 1
    [] OTHER -> 2
MCDisplays == {{}, {"save"}, {"save", "delete", "amount", "list"}}
=============================================================================
