------------------------------- MODULE Drivers -------------------------------
(***************************************************************************)
(* What the step loop is served by, seven parts side by side: the evidence *)
(* of a web run (WebSession), the text an Android run types (AndroidInput), *)
(* the wait for a screen at rest on either (Settle), the sidecar an Android *)
(* run starts and must put away (SidecarLife), the model that picks the     *)
(* actions (LlmSource), and on the iOS simulator the text that is typed     *)
(* (SimulatorInput) and the children that runs leave (SimulatorLife).  The  *)
(* parts share no state: a behaviour is a behaviour of one of them, chosen  *)
(* at the start, and the others rest.                                       *)
(***************************************************************************)
EXTENDS WebSession, AndroidInput, Settle, SidecarLife, LlmSource,
        SimulatorInput, SimulatorLife

VARIABLE part   \* the part this behaviour is about

vars == <<part, webVars, inputVars, settleVars, lifeVars, selectVars, entryVars, simulatorVars>>

Is(name) == part = name

Init ==
  /\ part \in {"web", "input", "settle", "life", "select", "entry", "simulator"}
  /\ WebInit /\ LifeInit /\ SimulatorInit
  /\ InputInit /\ (~Is("input") => keyboard = "down" /\ field.old = 0)
  /\ SettleInit /\ (~Is("settle") => platform = "web" /\ app.left = 0 /\ ~app.resting)
  /\ SelectInit
  /\ ~Is("select") => declared = CHOOSE run \in [tree : Trees, native : BOOLEAN] : TRUE
  /\ EntryInit
  /\ ~Is("entry") =>
       /\ widget.text = <<>> /\ ~widget.granted
       /\ entry.way = "keys" /\ ~entry.hybrid /\ ~entry.aimed /\ ~entry.soleButton

WebStep ==
  /\ Is("web") /\ WebNext
  /\ UNCHANGED <<part, inputVars, settleVars, lifeVars, selectVars, entryVars, simulatorVars>>
InputStep ==
  /\ Is("input") /\ InputNext
  /\ UNCHANGED <<part, webVars, settleVars, lifeVars, selectVars, entryVars, simulatorVars>>
SettleStep ==
  /\ Is("settle") /\ SettleNext
  /\ UNCHANGED <<part, webVars, inputVars, lifeVars, selectVars, entryVars, simulatorVars>>
LifeStep(Step) ==
  /\ Is("life") /\ Step
  /\ UNCHANGED <<part, webVars, inputVars, settleVars, selectVars, entryVars, simulatorVars>>
SelectStep ==
  /\ Is("select") /\ SelectNext
  /\ UNCHANGED <<part, webVars, inputVars, settleVars, lifeVars, entryVars, simulatorVars>>
EntryStep ==
  /\ Is("entry") /\ EntryNext
  /\ UNCHANGED <<part, webVars, inputVars, settleVars, lifeVars, selectVars, simulatorVars>>
SimulatorStep ==
  /\ Is("simulator") /\ SimulatorNext
  /\ UNCHANGED <<part, webVars, inputVars, settleVars, lifeVars, selectVars, entryVars>>

Next ==
  \/ WebStep \/ InputStep \/ SettleStep \/ LifeStep(LifeNext) \/ SelectStep
  \/ EntryStep \/ SimulatorStep

Spec == Init /\ [][Next]_vars
FairSpec == Spec /\ WF_vars(LifeStep(Execute)) /\ WF_vars(LifeStep(Watcher))

\* The types of the seven parts.
TypeOK ==
  /\ WebTypeOK /\ InputTypeOK /\ SettleTypeOK /\ LifeTypeOK /\ SelectTypeOK
  /\ EntryTypeOK /\ SimulatorTypeOK
=============================================================================
