----------------------------- MODULE Candidates -----------------------------
(***************************************************************************)
(* The actions a spec's tree offers on one screen, worked out twice: by    *)
(* the seeded picker, which draws one (pkg/spec/src/pick.ts), and by the   *)
(* enumeration the model picks a number from (internal/verifier/llm.go).   *)
(*                                                                         *)
(* A screen is the set of controls it shows.  A control reads as a user    *)
(* would read it, so two of them may read alike.  The weights a candidate  *)
(* is annotated with, selectors and coordinates are left out: an action is *)
(* what it does to which control.  Both walk the tree by functions on its  *)
(* nodes.                                                                  *)
(***************************************************************************)
EXTENDS Integers, Sequences, SequencesExt

CONSTANTS
  Controls,        \* the controls, in the order the host lists them
  Facts,           \* what the host reports of each: function to sets of facts
  Keys,            \* the platform's keys, in the order of the pool
  Nodes,           \* the nodes of the specs' trees
  LabelOf(_),      \* what a user reads on a control
  DepthOf(_)       \* the branches a node's tree goes down by

IsList(list) == list \in Seq(ToSet(list))
ASSUME HostAssumption == IsList(Controls) /\ IsList(Keys)

\* ActionDescriptor; detail is the text, the direction or the key.
Action(kind, on, detail) == [kind |-> kind, on |-> on, detail |-> detail]
Tap(on) == Action("Tap", on, "")
InputText(on, text) == Action("InputText", on, text)
Wait == Action("Wait", "", "")

\* GeneratorNode.  "samples" is a leaf that draws one action from several with
\* the picker's rng; "throws" one that fails for reasons of its own.
Weighted(branches) == [kind |-> "weighted", branches |-> branches]
Actions(list) == [kind |-> "actions", list |-> list]
Samples(list) == [kind |-> "samples", list |-> list]
Throwing == [kind |-> "throws"]
Builtin(verb) == [kind |-> "builtin", verb |-> verb]

\* The members of a list that are in a set, in the list's order.
Only(list, wanted) ==
  FoldLeft(LAMBDA kept, item : IF item \in wanted THEN Append(kept, item) ELSE kept, <<>>, list)

\* An authored leaf reads the state: it yields what it finds there, or nothing.
Visible(list, screen) == Only(list, {action \in ToSet(list) : action.on \in screen \cup {""}})

\* VERB_REQUIRED_FACTS, acceptsTarget: the one filter of both hosts.
Pressed == {"clickable", "enabled", "positiveBounds"}
RequiredFacts == [taps |-> Pressed, doubleTaps |-> Pressed, longPresses |-> Pressed,
                  typing |-> {"editable", "enabled", "positiveBounds"},
                  scrolls |-> {"scrollable", "positiveBounds"}, swipes |-> {"positiveBounds"}]
AcceptsTarget(verb, control) ==
  verb \in DOMAIN RequiredFacts /\ RequiredFacts[verb] \subseteq Facts[control]

\* builtinCandidates: one list both policies read.  A gesture is one entry for
\* each target and direction; the text and the length of a drag are left to the
\* policy.
Targeted == [taps |-> "Tap", doubleTaps |-> "DoubleTap", longPresses |-> "LongPress",
             typing |-> "InputText"]
Gestures == [scrolls |-> [kind |-> "Scroll", directions |-> <<"down", "up">>],
             swipes |-> [kind |-> "Swipe", directions |-> <<"down", "up", "left", "right">>]]

BuiltinCandidates(verb, screen) ==
  LET on == Only(Controls, {control \in screen : AcceptsTarget(verb, control)})
      Toward(control) ==
        [i \in DOMAIN Gestures[verb].directions |->
           Action(Gestures[verb].kind, control, Gestures[verb].directions[i])]
  IN CASE verb = "waitOnce" -> <<Wait>>
       [] verb = "pressKeys" -> [i \in DOMAIN Keys |-> Action("PressKey", "", Keys[i])]
       [] verb \in DOMAIN Targeted -> [i \in DOMAIN on |-> Action(Targeted[verb], on[i], "")]
       [] verb \in DOMAIN Gestures -> FlattenSeq([i \in DOMAIN on |-> Toward(on[i])])

\* What max(0, weight) leaves of the branches' weights.
Total(branches) ==
  FoldLeft(LAMBDA sum, branch : sum + IF branch[1] > 0 THEN branch[1] ELSE 0, 0, branches)

\* A node is one of these, and its branches were built before it.  Of a weight only
\* the sign counts here, so whole numbers stand for them all.
Verbs == {"waitOnce", "pressKeys"} \cup DOMAIN Targeted \cup DOMAIN Gestures
ASSUME NodesAssumption ==
  \A node \in Nodes :
    /\ DepthOf(node) \in Nat
    /\ \/ /\ node.kind = "weighted" /\ node.branches \in Seq(Int \X Nodes)
          /\ \A i \in DOMAIN node.branches : DepthOf(node.branches[i][2]) < DepthOf(node)
       \/ node.kind \in {"actions", "samples"} /\ IsList(node.list)
       \/ node.kind = "throws"
       \/ node.kind = "builtin" /\ node.verb \in Verbs

----------------------------------------------------------------------------
(* The seeded picker.                                                      *)

\* walk: every action some draw ends on.
Drawable(tree, screen) ==
  LET walk[node \in Nodes] ==
        CASE node.kind = "weighted" ->
               UNION {walk[node.branches[i][2]] :
                        i \in {j \in DOMAIN node.branches : node.branches[j][1] > 0}}
          [] node.kind \in {"actions", "samples"} ->
               {<<action, FALSE>> : action \in ToSet(Visible(node.list, screen))}
          [] node.kind = "throws" -> {}
          [] node.kind = "builtin" ->
               {<<action, action.kind = "InputText">> :
                  action \in ToSet(BuiltinCandidates(node.verb, screen))}
  IN walk[tree]

Leaves(tree) ==
  LET walk[node \in Nodes] ==
        IF node.kind = "weighted"
        THEN UNION {walk[node.branches[i][2]] : i \in DOMAIN node.branches}
        ELSE {node}
  IN walk[tree]

----------------------------------------------------------------------------
(* The enumeration.                                                        *)

\* describeCandidate: what the model reads, and has to echo.  A scroll names no
\* container.
Describe(action) ==
  <<action.kind, action.detail,
    IF action.on = "" \/ action.kind = "Scroll" THEN "" ELSE LabelOf(action.on)>>

Candidate(action, llmText) ==
  [action |-> action, llmText |-> llmText, description |-> Describe(action)]

\* collectBuiltin: the picker's own list; the model writes the text it types.
CollectBuiltin(verb, screen) ==
  LET list == BuiltinCandidates(verb, screen)
  IN [i \in DOMAIN list |-> Candidate(list[i], list[i].kind = "InputText")]

\* collectNode, collectWeighted, collectActions.
Collect(tree, screen) ==
  LET collectNode[node \in Nodes] ==
        CASE node.kind = "weighted" ->
               IF Total(node.branches) <= 0 THEN <<>>
               ELSE FlattenSeq([i \in DOMAIN node.branches |->
                                  collectNode[node.branches[i][2]]])
          [] node.kind \in {"actions", "samples"} ->
               LET list == Visible(node.list, screen)
               IN [i \in DOMAIN list |-> Candidate(list[i], FALSE)]
          [] node.kind = "throws" -> <<>>
          [] node.kind = "builtin" -> CollectBuiltin(node.verb, screen)
  IN collectNode[tree]

\* samplerRefusal: a leaf on the walk would sample, so no list can be had.
Refuses(tree, screen) ==
  LET refuses[node \in Nodes] ==
        \/ node.kind = "samples" /\ Len(Visible(node.list, screen)) > 1
        \/ /\ node.kind = "weighted" /\ Total(node.branches) > 0
           /\ \E i \in DOMAIN node.branches : refuses[node.branches[i][2]]
  IN refuses[tree]

\* candidateIdentity: what the candidate would do, and who writes its text.
Identity(candidate) == <<candidate.action, candidate.llmText>>

\* Mutant of Finalize: candidates that read alike are folded.
FinalizeByText(raw) ==
  FoldLeft(LAMBDA kept, candidate :
             IF \E i \in DOMAIN kept : kept[i].description = candidate.description
             THEN kept ELSE Append(kept, candidate),
           <<>>, raw)

\* finalizeCandidates: one entry for each identity, numbered by its place.
Finalize(raw) ==
  FoldLeft(LAMBDA kept, candidate :
             IF \E i \in DOMAIN kept : Identity(kept[i]) = Identity(candidate)
             THEN kept ELSE Append(kept, candidate),
           <<>>, raw)

Offered(node, screen) == Finalize(Collect(node, screen))
=============================================================================
