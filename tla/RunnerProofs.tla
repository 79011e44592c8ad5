---------------------------- MODULE RunnerProofs ----------------------------
(***************************************************************************)
(* What Runner promises for every set of properties, every bound on the    *)
(* steps and every length of the failure streak.                           *)
(***************************************************************************)
EXTENDS Runner, FiniteSetTheorems, TLAPS

\* The constants' assumptions, for the leaves that need all of them.
Assumptions == /\ MaxSteps \in Nat \ {0} /\ MaxConsecutiveApplyFailures \in Nat \ {0}
               /\ StopOnViolation \in BOOLEAN
               /\ Kinds \subseteq (DOMAIN Calls \cup DOMAIN NotDispatched)

LEMMA AssumptionsHold == Assumptions
  BY StepsAssumption, FailuresAssumption, FlagsAssumption, KindsAssumption
     DEF Assumptions

\* The driver calls of every kind of action are calls.
LEMMA CallsTyped ==
  \A kind \in DOMAIN Calls : Calls[kind] \in Seq({"point", "selector", "input"})
<1> DEFINE Call == {"point", "selector", "input"}
<1>1. /\ <<"point">> \in Seq(Call) /\ <<"selector">> \in Seq(Call)
      /\ <<"input">> \in Seq(Call) /\ <<>> \in Seq(Call)
  OBVIOUS
<1>2. <<"selector", "selector">> \in Seq(Call) /\ <<"selector", "input">> \in Seq(Call)
  OBVIOUS
<1>3. <<"point", "input", "input">> \in Seq(Call)
  OBVIOUS
<1>4. DOMAIN Calls = { "tap", "tapSelector", "doubleTapSelector", "inputText",
                       "inputTextSelector", "pressKey", "wait" }
  BY DEF Calls
<1>5. /\ Calls["tap"] = <<"point">> /\ Calls["tapSelector"] = <<"selector">>
      /\ Calls["doubleTapSelector"] = <<"selector", "selector">>
      /\ Calls["inputText"] = <<"point", "input", "input">>
      /\ Calls["inputTextSelector"] = <<"selector", "input">>
      /\ Calls["pressKey"] = <<"input">> /\ Calls["wait"] = <<>>
  BY DEF Calls
<1> QED BY <1>1, <1>2, <1>3, <1>4, <1>5

LEMMA NotDispatchedTyped == \A kind \in DOMAIN NotDispatched : NotDispatched[kind] \in Reasons
  BY DEF NotDispatched, Reasons

LEMMA NoStepTyped == NoStep \in StepType
  BY DEF NoStep, StepType, Sources

\* A trace line takes its fields from the step.
LEMMA LineTyped ==
  ASSUME NEW i \in Nat, NEW s \in StepType, NEW v \in SUBSET Props
  PROVE  Line(i, s, v) \in LineType
<1>1. /\ s.inScope \in BOOLEAN /\ s.held \in BOOLEAN /\ s.chosen \in BOOLEAN
      /\ s.reason \in Reasons \cup {""} /\ s.source \in Sources
  BY DEF StepType
<1> QED BY <1>1 DEF Line, LineType

\* Skipping an action preserves the types: it writes the step, the report and pc.
LEMMA SkipTyped ==
  ASSUME TypeOK, NEW reason \in Reasons, NEW chosen \in BOOLEAN, Skip(reason, chosen)
  PROVE  TypeOK'
<1>1. step' \in StepType
  <2>1. step \in StepType /\ <<>> \in Seq({"point", "selector", "input"})
    BY DEF TypeOK
  <2> QED BY <2>1 DEF Skip, StepType
<1>2. lastAction' \in ActionType
  BY AssumptionsHold DEF Skip, Unsent, NoAction, ActionType, Assumptions
<1> QED BY <1>1, <1>2 DEF Skip, TypeOK, Places, loopVars, deviceVars, historyVars

\* Every variable keeps its type, and the step index stays within MaxSteps.
LEMMA TypeStep == TypeOK /\ [Next]_vars => TypeOK'
<1> SUFFICES ASSUME TypeOK, [Next]_vars PROVE TypeOK'
  OBVIOUS
<1> USE AssumptionsHold DEF Assumptions, loopVars, deviceVars, historyVars
<1>1. CASE UNCHANGED vars
  BY <1>1 DEF vars, TypeOK
<1>2. CASE Gate
  <2>2. Line(0, [NoStep EXCEPT !.inScope = FALSE], {}) \in LineType
    BY DEF Line, LineType, NoStep, Dispatched
  <2>3. CASE GateOpens
    BY <2>3 DEF GateOpens, ForegroundReached, TypeOK, Places
  <2>4. CASE GatePolls
    BY <2>4 DEF GatePolls, Poll, TypeOK
  <2>5. CASE GateFails
    <3>1. trace' \in Seq(LineType)
      BY <2>5, <2>2 DEF GateFails, TypeOK
    <3> QED BY <2>5, <3>1 DEF GateFails, TypeOK, Places
  <2> QED BY <1>2, <2>3, <2>4, <2>5 DEF Gate
<1>3. CASE StartStep
  <2>1. stepIndex' \in 0..MaxSteps
    BY <1>3 DEF StartStep, MoreSteps, TypeOK
  <2> QED BY <1>3, <2>1 DEF StartStep, TypeOK, Places
<1>4. CASE LoopEnds
  BY <1>4 DEF LoopEnds, TypeOK, Places
<1>5. CASE Guard
  <2>1. CASE GuardIntact
    BY <2>1 DEF GuardIntact, TypeOK, Places
  <2>2. CASE GuardRelaunches
    BY <2>2 DEF GuardRelaunches, Relaunched, TypeOK, Places, ActionType
  <2>3. CASE GuardReached
    BY <2>3 DEF GuardReached, ForegroundReached, TypeOK, Places
  <2>4. CASE GuardPolls
    BY <2>4 DEF GuardPolls, Poll, TypeOK
  <2>5. CASE GuardFails
    BY <2>5 DEF GuardFails, TypeOK, Places, StepType
  <2>6. CASE GuardFindsOverlay
    BY <2>6 DEF GuardFindsOverlay, TypeOK, Places, ActionType
  <2>7. CASE DismissOverlay
    <3>1. front' \in Fronts
      BY <2>7 DEF DismissOverlay, TypeOK, Fronts
    <3> QED BY <2>7, <3>1 DEF DismissOverlay, TypeOK, Places
  <2> QED BY <1>5, <2>1, <2>2, <2>3, <2>4, <2>5, <2>6, <2>7 DEF Guard
<1>6. CASE Observe
  <2>1. step' \in StepType
    BY <1>6 DEF Observe, TypeOK, StepType
  <2>2. summary' \in SummaryType
    <3>1. summary \in SummaryType
      BY DEF TypeOK
    <3>2. summary.skippedVerification \in Nat /\ summary.failedObservations \in Nat
      BY <3>1 DEF SummaryType
    <3>3. CASE UNCHANGED summary
      BY <3>1, <3>3
    <3>4. CASE \E failed \in BOOLEAN :
                 summary' = [summary EXCEPT
                   !.skippedVerification = @ + 1,
                   !.failedObservations = IF failed THEN @ + 1 ELSE @]
      <4>1. PICK failed \in BOOLEAN :
              summary' = [summary EXCEPT
                !.skippedVerification = @ + 1,
                !.failedObservations = IF failed THEN @ + 1 ELSE @]
        BY <3>4
      <4>2. \A k, n \in Nat : [summary EXCEPT !.skippedVerification = k,
                                             !.failedObservations = n] \in SummaryType
        BY <3>1 DEF SummaryType
      <4> DEFINE skipped == summary.skippedVerification + 1
                 blind == IF failed THEN summary.failedObservations + 1
                          ELSE summary.failedObservations
      <4>3. skipped \in Nat /\ blind \in Nat
        BY <3>2
      <4>4. summary' = [summary EXCEPT !.skippedVerification = skipped,
                                       !.failedObservations = blind]
        BY <3>1, <4>1 DEF SummaryType
      <4> HIDE DEF skipped, blind
      <4> QED BY <4>2, <4>3, <4>4
    <3> QED BY <1>6, <3>3, <3>4 DEF Observe
  <2> QED BY <1>6, <2>1, <2>2 DEF Observe, AfterHold, TypeOK, Places
<1>7. CASE Verify
  <2>1. step' \in StepType
    BY <1>7 DEF Verify, Onset, TypeOK, StepType
  <2>2. told' \subseteq StepIds
    BY <1>7 DEF Verify, TypeOK, ActionType, StepIds
  <2> QED BY <1>7, <2>1, <2>2 DEF Verify, TypeOK, Places
<1>8. CASE Choose
  <2>1. CASE NoActionProduced
    BY <2>1, SkipTyped DEF NoActionProduced, Reasons
  <2>2. CASE AppLeftForeground
    BY <2>2, SkipTyped DEF AppLeftForeground, Reasons
  <2>3. CASE NothingToDispatch
    BY <2>3, SkipTyped, NotDispatchedTyped DEF NothingToDispatch
  <2>4. CASE Dispatch
    <3>1. PICK kind \in Kinds \cap DOMAIN Calls, source \in Sources :
            step' = [step EXCEPT !.chosen = TRUE, !.source = source, !.calls = Calls[kind]]
      BY <2>4 DEF Dispatch
    <3>2. step' \in StepType
      BY <3>1, CallsTyped DEF TypeOK, StepType
    <3> QED BY <2>4, <3>2 DEF Dispatch, TypeOK, Places
  <2> QED BY <1>8, <2>1, <2>2, <2>3, <2>4 DEF Choose
<1>9. CASE Apply
  <2>1. CASE CallSucceeds
    <3>1. Tail(step.calls) \in Seq({"point", "selector", "input"})
      <4>1. step \in StepType
        BY DEF TypeOK
      <4>2. step.calls \in Seq({"point", "selector", "input"}) /\ step.calls # <<>>
        BY <2>1, <4>1 DEF CallSucceeds, StepType
      <4> QED BY <4>2
    <3>2. step' \in StepType
      <4>1. step \in StepType
        BY DEF TypeOK
      <4> QED BY <2>1, <3>1, <4>1 DEF CallSucceeds, StepType
    <3> QED BY <2>1, <3>2 DEF CallSucceeds, TypeOK
  <2>2. CASE CallUndelivered
    BY <2>2, SkipTyped DEF CallUndelivered, Reasons
  <2>3. CASE ApplyError
    <3>1. step' \in StepType
      <4>1. step \in StepType /\ <<>> \in Seq({"point", "selector", "input"})
        BY DEF TypeOK
      <4>2. \A reason \in ErrorReasons : reason \in Reasons
        BY DEF Reasons
      <4> QED BY <2>3, <4>1, <4>2 DEF ApplyError, StepType
    <3>2. lastAction' \in ActionType
      BY <2>3 DEF ApplyError, Unconfirmed, Action, TypeOK, ActionType
    <3>3. landed' \subseteq 0..MaxSteps
      BY <2>3 DEF ApplyError, TypeOK
    <3> QED BY <2>3, <3>1, <3>2, <3>3 DEF ApplyError, TypeOK, Places
  <2>4. CASE Applied
    BY <2>4 DEF Applied, StreakBroken, Action, TypeOK, Places, ActionType
  <2> QED BY <1>9, <2>1, <2>2, <2>3, <2>4 DEF Apply
<1>10. CASE Record
  <2>2. Line(stepIndex, step, step.onset) \in LineType
    <3>1. stepIndex \in Nat /\ step \in StepType
      BY DEF TypeOK
    <3>2. step.onset \in SUBSET Props
      BY <3>1 DEF StepType
    <3> QED BY <3>1, <3>2, LineTyped
  <2>3. summary' \in SummaryType
    <3>1. /\ step.onset \in SUBSET Props
          /\ summary.violations \in Seq(SUBSET Props)
          /\ summary.skippedActions \in [Reasons -> Nat]
          /\ summary.dispatchedActions \in Nat /\ summary.generatorActions \in Nat
          /\ stepIndex \in Nat
      <4>1. summary \in SummaryType /\ step \in StepType /\ stepIndex \in Nat
        BY DEF TypeOK
      <4> QED BY <4>1 DEF SummaryType, StepType
    <3>2. Append(summary.violations, step.onset) \in Seq(SUBSET Props)
      BY <3>1
    <3>3. [r \in Reasons |-> IF r = step.reason THEN summary.skippedActions[r] + 1
                             ELSE summary.skippedActions[r]] \in [Reasons -> Nat]
      BY <3>1
    <3>4. summary \in SummaryType
      BY DEF TypeOK
    <3>5. \A a \in [Reasons -> Nat], b, c, d \in Nat, v \in Seq(SUBSET Props) :
            [summary EXCEPT !.skippedActions = a, !.dispatchedActions = b,
                            !.generatorActions = c, !.steps = d, !.violations = v]
              \in SummaryType
      BY <3>4 DEF SummaryType
    <3> DEFINE dispatched == IF Dispatched(step) THEN summary.dispatchedActions + 1
                             ELSE summary.dispatchedActions
               generator == IF Dispatched(step) /\ step.source = "seeded"
                            THEN summary.generatorActions + 1
                            ELSE summary.generatorActions
               reported == IF step.onset = {} THEN summary.violations
                           ELSE Append(summary.violations, step.onset)
               skipped == [r \in Reasons |->
                             IF r = step.reason THEN summary.skippedActions[r] + 1
                             ELSE summary.skippedActions[r]]
    <3>6. dispatched \in Nat /\ generator \in Nat /\ reported \in Seq(SUBSET Props)
      BY <3>1, <3>2
    <3>7. summary' = [summary EXCEPT !.skippedActions = skipped,
                        !.dispatchedActions = dispatched, !.generatorActions = generator,
                        !.steps = stepIndex, !.violations = reported]
      BY <1>10, <3>4 DEF Record, SummaryType
    <3> HIDE DEF dispatched, generator, reported, skipped
    <3> QED BY <3>1, <3>3, <3>5, <3>6, <3>7 DEF skipped
  <2> QED BY <1>10, NoStepTyped, <2>2, <2>3 DEF Record, TypeOK, Places
<1>11. CASE AbortStep
  BY <1>11 DEF AbortStep, TypeOK, Places
<1>12. CASE Finalize
  <2>1. PICK ended \in SUBSET (Props \ violated) :
          /\ violated' = violated \cup ended
          /\ IF ended = {} THEN UNCHANGED <<trace, summary>>
             ELSE /\ trace' = Append(trace, Line(FinalIndex, NoStep, ended))
                  /\ summary' = [summary EXCEPT !.violations = Append(@, ended)]
    BY <1>12 DEF Finalize
  <2>2. ended \in SUBSET Props /\ Line(FinalIndex, NoStep, ended) \in LineType
    <3>1. FinalIndex \in Nat /\ ended \in SUBSET Props
      BY DEF FinalIndex, TypeOK
    <3> QED BY <3>1, NoStepTyped, LineTyped
  <2>3. summary' \in SummaryType /\ trace' \in Seq(LineType)
    <3>1. summary \in SummaryType /\ trace \in Seq(LineType)
      BY DEF TypeOK
    <3>2. summary.violations \in Seq(SUBSET Props)
      BY <3>1 DEF SummaryType
    <3>3. Append(summary.violations, ended) \in Seq(SUBSET Props)
      BY <2>2, <3>2
    <3>4. [summary EXCEPT !.violations = Append(@, ended)] \in SummaryType
      BY <3>1, <3>3 DEF SummaryType
    <3>5. Append(trace, Line(FinalIndex, NoStep, ended)) \in Seq(LineType)
      BY <2>2, <3>1
    <3> QED BY <2>1, <3>1, <3>4, <3>5
  <2> QED BY <1>12, <2>1, <2>3 DEF Finalize, TypeOK, Places
<1>13. CASE FinalizeFails
  <2>1. PICK ended \in SUBSET (Props \ violated) :
          /\ violated' = violated \cup ended
          /\ summary' = [summary EXCEPT !.violations = Append(@, ended)]
    BY <1>13 DEF FinalizeFails
  <2>2. summary' \in SummaryType
    <3>1. summary \in SummaryType /\ ended \in SUBSET Props
      BY DEF TypeOK
    <3>2. Append(summary.violations, ended) \in Seq(SUBSET Props)
      BY <3>1 DEF SummaryType
    <3> QED BY <2>1, <3>1, <3>2 DEF SummaryType
  <2> QED BY <1>13, <2>1, <2>2 DEF FinalizeFails, TypeOK, Places
<1>14. CASE Device
  BY <1>14 DEF Device, FrontChanges, BudgetElapses, Cancel, TypeOK
<1> QED BY <1>1, <1>2, <1>3, <1>4, <1>5, <1>6, <1>7, <1>8, <1>9, <1>10, <1>11, <1>12, <1>13,
           <1>14
        DEF Next, Loop

LEMMA TypeInit == Init => TypeOK
<1> SUFFICES ASSUME Init PROVE TypeOK
  OBVIOUS
<1>1. summary \in SummaryType
  BY DEF Init, ZeroSummary, SummaryType
<1>2. lastAction \in ActionType
  BY AssumptionsHold DEF Init, NoAction, ActionType, Assumptions
<1>3. step \in StepType /\ trace \in Seq(LineType)
  BY NoStepTyped DEF Init
<1>4. stepIndex \in 0..MaxSteps
  BY AssumptionsHold DEF Init, Assumptions
<1> QED BY <1>1, <1>2, <1>3, <1>4 DEF Init, TypeOK, Places

\* The type invariant, for every value of the constants.
THEOREM TypeCorrect == Spec => []TypeOK
  BY TypeInit, TypeStep, PTL DEF Spec

----------------------------------------------------------------------------
(* The report of an action.                                                *)

BeforeVerdict == {"guard", "bringForward", "dismiss", "observe", "verify"}
Acting == {"choose", "apply"}

\* Ids are step indices, and a step's own is larger than every one told before it.
IdsOrdered ==
  /\ lastAction.id <= stepIndex
  /\ landed \subseteq StepIds
  /\ \A j \in told : j <= stepIndex
  /\ pc \in BeforeVerdict \cup Acting \cup {"record"} => stepIndex \in StepIds
  /\ pc \in BeforeVerdict \cup Acting => \A j \in told : j < stepIndex
  /\ pc \in BeforeVerdict => lastAction.id < stepIndex

\* Up to the next reading lastAction is unreported; while acting it is spent.
ReportPending ==
  /\ pc \in BeforeReading \cup {"record"} =>
       lastAction.id = 0 \/ \A j \in told : j < lastAction.id
  /\ pc \in Acting => lastAction.id \in told \cup {0}

\* The effects no reading has seen are those of the action being carried, or applied.
EffectsOwned ==
  /\ pc \in BeforeReading \cup {"record"} => landed \subseteq {lastAction.id}
  /\ pc = "choose" => landed = {}
  /\ pc = "apply" => landed \subseteq {stepIndex}

\* After the first call of an action only typing is left, so a call that can land on
\* nothing is the first one and nothing has landed before it.
TypingOnly(calls) == \A i \in 1..Len(calls) : calls[i] = "input"
FirstCallOnly ==
  pc = "apply" =>
    /\ landed = {} \/ TypingOnly(step.calls)
    /\ \A i \in 2..Len(step.calls) : step.calls[i] = "input"

LedgerInv == IdsOrdered /\ ReportPending /\ EffectsOwned /\ FirstCallOnly

\* Every kind of action but the double tap by selector, which is made of two taps,
\* has typing alone after its first call.
LEMMA OneTap ==
  \A kind \in DOMAIN Calls \ {"doubleTapSelector"} :
    \A i \in 2..Len(Calls[kind]) : Calls[kind][i] = "input"
<1>1. DOMAIN Calls \ {"doubleTapSelector"} =
        {"tap", "tapSelector", "inputText", "inputTextSelector", "pressKey", "wait"}
  BY DEF Calls
<1>2. /\ Calls["tap"] = <<"point">> /\ Calls["tapSelector"] = <<"selector">>
      /\ Calls["inputText"] = <<"point", "input", "input">>
      /\ Calls["inputTextSelector"] = <<"selector", "input">>
      /\ Calls["pressKey"] = <<"input">> /\ Calls["wait"] = <<>>
  BY DEF Calls
<1>3. \A i \in 2..3 : <<"point", "input", "input">>[i] = "input"
  OBVIOUS
<1> QED BY <1>1, <1>2, <1>3

\* What is left of an action after its first call is typing alone.
LEMMA TailIsTyping ==
  ASSUME NEW calls \in Seq({"point", "selector", "input"}), calls # <<>>,
         \A i \in 2..Len(calls) : calls[i] = "input"
  PROVE  TypingOnly(Tail(calls))
<1>1. Len(Tail(calls)) = Len(calls) - 1 /\ Len(calls) \in Nat \ {0}
  OBVIOUS
<1>2. ASSUME NEW i \in 1..Len(Tail(calls)) PROVE Tail(calls)[i] = "input"
  <2>1. i + 1 \in 2..Len(calls) /\ Tail(calls)[i] = calls[i + 1]
    BY <1>1
  <2> QED BY <2>1
<1> QED BY <1>2 DEF TypingOnly

LEMMA LedgerInit == Init => LedgerInv
<1> SUFFICES ASSUME Init PROVE LedgerInv
  OBVIOUS
<1>1. lastAction.id = 0 /\ landed = {} /\ told = {} /\ stepIndex = 0 /\ pc = "gate"
  BY DEF Init, NoAction
<1>2. IdsOrdered
  BY <1>1 DEF IdsOrdered, BeforeVerdict, Acting
<1>3. ReportPending /\ EffectsOwned /\ FirstCallOnly
  BY <1>1 DEF ReportPending, EffectsOwned, FirstCallOnly, Acting
<1> QED BY <1>2, <1>3 DEF LedgerInv

\* Skipping is sound where nothing of the step's action has landed.
LEMMA SkipLedger ==
  ASSUME TypeOK, LedgerInv, landed = {}, pc \in Acting,
         NEW reason, NEW chosen, Skip(reason, chosen)
  PROVE  LedgerInv'
  BY AssumptionsHold
     DEF Assumptions, TypeOK, LedgerInv, IdsOrdered, ReportPending, EffectsOwned, FirstCallOnly,
         BeforeVerdict, Acting, BeforeReading, Skip, Unsent, NoAction, StepIds,
         loopVars, deviceVars, historyVars

LEMMA LedgerStep ==
  ASSUME "doubleTapSelector" \notin Kinds, TypeOK, LedgerInv, [Next]_vars
  PROVE  LedgerInv'
<1> USE AssumptionsHold
    DEF Assumptions, LedgerInv, IdsOrdered, ReportPending, EffectsOwned, FirstCallOnly,
        BeforeVerdict, Acting, BeforeReading, StepIds, loopVars, deviceVars, historyVars
<1>1. CASE UNCHANGED vars
  BY <1>1 DEF vars, TypingOnly
<1>2. CASE Gate
  BY <1>2 DEF Gate, GateOpens, GatePolls, GateFails, ForegroundReached, Poll
<1>3. CASE StartStep
  <2>1. /\ stepIndex \in Nat /\ stepIndex < MaxSteps /\ lastAction.id \in Nat
        /\ told \subseteq Nat /\ pc = "top"
    BY <1>3 DEF StartStep, MoreSteps, TypeOK, ActionType
  <2>2. stepIndex' = stepIndex + 1 /\ stepIndex' \in StepIds /\ pc' = "guard"
    BY <1>3, <2>1 DEF StartStep
  <2>3. UNCHANGED <<lastAction, landed, told>>
    BY <1>3 DEF StartStep
  <2>4. IdsOrdered'
    BY <2>1, <2>2, <2>3
  <2>5. ReportPending' /\ EffectsOwned' /\ FirstCallOnly'
    BY <2>1, <2>2, <2>3
  <2> QED BY <2>4, <2>5
<1>4. CASE LoopEnds
  BY <1>4 DEF LoopEnds
<1>5. CASE Guard
  <2>1. CASE GuardRelaunches
    <3>1. lastAction'.id = lastAction.id
      BY <2>1 DEF GuardRelaunches, Relaunched, TypeOK, ActionType
    <3> QED BY <2>1, <3>1 DEF GuardRelaunches
  <2>2. CASE GuardFindsOverlay
    <3>1. lastAction'.id = lastAction.id
      BY <2>2 DEF GuardFindsOverlay, TypeOK, ActionType
    <3> QED BY <2>2, <3>1 DEF GuardFindsOverlay
  <2>3. CASE GuardIntact \/ GuardReached \/ GuardPolls \/ GuardFails \/ DismissOverlay
    BY <2>3 DEF GuardIntact, GuardReached, GuardPolls, GuardFails, DismissOverlay,
                ForegroundReached, Poll
  <2> QED BY <1>5, <2>1, <2>2, <2>3 DEF Guard
<1>6. CASE Observe
  BY <1>6 DEF Observe, AfterHold
<1>7. CASE Verify
  BY <1>7 DEF Verify, TypeOK, ActionType
<1>8. CASE Choose
  <2>1. CASE NoActionProduced \/ AppLeftForeground \/ NothingToDispatch
    BY <2>1, SkipLedger DEF NoActionProduced, AppLeftForeground, NothingToDispatch
  <2>2. CASE Dispatch
    <3>1. PICK kind \in Kinds \cap DOMAIN Calls, source \in Sources :
            step' = [step EXCEPT !.chosen = TRUE, !.source = source, !.calls = Calls[kind]]
      BY <2>2 DEF Dispatch
    <3>2. step'.calls = Calls[kind]
      BY <3>1 DEF TypeOK, StepType
    <3>3. \A i \in 2..Len(step'.calls) : step'.calls[i] = "input"
      BY <3>2, OneTap
    <3> QED BY <2>2, <3>3 DEF Dispatch
  <2> QED BY <1>8, <2>1, <2>2 DEF Choose
<1>9. CASE Apply
  <2>1. CASE CallSucceeds
    <3>1. step.calls \in Seq({"point", "selector", "input"}) /\ step.calls # <<>>
      BY <2>1 DEF CallSucceeds, TypeOK, StepType
    <3>2. step'.calls = Tail(step.calls)
      BY <2>1 DEF CallSucceeds, TypeOK, StepType
    <3>3. TypingOnly(step'.calls)
      <4>1. \A i \in 2..Len(step.calls) : step.calls[i] = "input"
        BY <2>1 DEF CallSucceeds
      <4>2. TypingOnly(Tail(step.calls))
        BY <3>1, <4>1, TailIsTyping
      <4> QED BY <3>2, <4>2
    <3>4. \A i \in 2..Len(step'.calls) : step'.calls[i] = "input"
      <4>1. 2..Len(step'.calls) \subseteq 1..Len(step'.calls)
        BY <3>1, <3>2
      <4> QED BY <3>3, <4>1 DEF TypingOnly
    <3> QED BY <2>1, <3>3, <3>4 DEF CallSucceeds, TypingOnly
  <2>2. CASE CallUndelivered
    <3>1. step.calls \in Seq({"point", "selector", "input"}) /\ step.calls # <<>>
      BY <2>2 DEF CallUndelivered, TypeOK, StepType
    <3>2. ~TypingOnly(step.calls)
      <4>1. Head(step.calls) \in {"point", "selector"}
        BY <2>2 DEF CallUndelivered
      <4>2. step.calls[1] # "input" /\ 1 \in 1..Len(step.calls)
        BY <3>1, <4>1
      <4> QED BY <4>2 DEF TypingOnly
    <3>3. landed = {}
      BY <2>2, <3>2 DEF CallUndelivered
    <3> QED BY <2>2, <3>3, SkipLedger DEF CallUndelivered
  <2>3. CASE ApplyError
    BY <2>3 DEF ApplyError, Unconfirmed, Action
  <2>4. CASE Applied
    BY <2>4 DEF Applied, Action
  <2> QED BY <1>9, <2>1, <2>2, <2>3, <2>4 DEF Apply
<1>10. CASE Record
  BY <1>10 DEF Record, TypeOK
<1>11. CASE AbortStep
  BY <1>11 DEF AbortStep
<1>12. CASE Finalize \/ FinalizeFails
  BY <1>12 DEF Finalize, FinalizeFails
<1>13. CASE Device
  BY <1>13 DEF Device, FrontChanges, BudgetElapses, Cancel, TypingOnly
<1> QED BY <1>1, <1>2, <1>3, <1>4, <1>5, <1>6, <1>7, <1>8, <1>9, <1>10, <1>11, <1>12, <1>13
        DEF Next, Loop

THEOREM LedgerInductive ==
  ASSUME "doubleTapSelector" \notin Kinds
  PROVE  Spec => [](TypeOK /\ LedgerInv)
<1>1. Init => TypeOK /\ LedgerInv
  BY TypeInit, LedgerInit
<1>2. TypeOK /\ LedgerInv /\ [Next]_vars => (TypeOK /\ LedgerInv)'
  BY TypeStep, LedgerStep
<1> QED BY <1>1, <1>2, PTL DEF Spec

\* Without a double tap composed of two selector taps, an effect the verifier has not
\* read is always the effect of the action the next reading is told of, once.
THEOREM EffectsHaveCauses ==
  ASSUME "doubleTapSelector" \notin Kinds
  PROVE  Spec => []EffectHasCause
<1>1. TypeOK /\ LedgerInv => EffectHasCause
  <2>1. TypeOK /\ LedgerInv /\ pc = "verify" => lastAction.id \notin told
    BY StepsAssumption
       DEF TypeOK, ActionType, StepIds, LedgerInv, ReportPending, BeforeReading
  <2> QED BY <2>1 DEF LedgerInv, EffectsOwned, EffectHasCause
<1> QED BY <1>1, LedgerInductive, PTL

\* The places at which lastAction changes to another action's report.
LEMMA ReportChanges ==
  ASSUME TypeOK, [Next]_vars, lastAction'.id # lastAction.id
  PROVE  pc \in Acting
<1> USE DEF loopVars, deviceVars, historyVars, Acting
<1>1. CASE UNCHANGED vars \/ Gate \/ StartStep \/ LoopEnds
  BY <1>1 DEF vars, Gate, GateOpens, GatePolls, GateFails, ForegroundReached, Poll, StartStep,
              LoopEnds
<1>2. CASE Guard
  <2>1. CASE GuardRelaunches
    BY <2>1 DEF GuardRelaunches, Relaunched, TypeOK, ActionType
  <2>2. CASE GuardFindsOverlay
    BY <2>2 DEF GuardFindsOverlay, TypeOK, ActionType
  <2>3. CASE GuardIntact \/ GuardReached \/ GuardPolls \/ GuardFails \/ DismissOverlay
    BY <2>3 DEF GuardIntact, GuardReached, GuardPolls, GuardFails, DismissOverlay,
                ForegroundReached, Poll
  <2> QED BY <1>2, <2>1, <2>2, <2>3 DEF Guard
<1>3. CASE Observe \/ Verify \/ Record \/ AbortStep \/ Finalize \/ FinalizeFails \/ Device
  BY <1>3 DEF Observe, Verify, Record, AbortStep, Finalize, FinalizeFails, Device, FrontChanges,
              BudgetElapses, Cancel
<1>4. CASE Choose \/ Apply
  BY <1>4 DEF Choose, NoActionProduced, AppLeftForeground, NothingToDispatch, Dispatch, Apply,
              CallSucceeds, CallUndelivered, ApplyError, Applied
<1> QED BY <1>1, <1>2, <1>3, <1>4 DEF Next, Loop

\* An action is only forgotten once a reading was told of it.
THEOREM NothingSwallowed ==
  ASSUME "doubleTapSelector" \notin Kinds
  PROVE  Spec => NoActionSwallowed
<1>1. TypeOK /\ LedgerInv /\ [Next]_vars =>
        [lastAction'.id # lastAction.id => lastAction.id \in told \cup {0}]_vars
  BY ReportChanges DEF LedgerInv, ReportPending
<1> QED BY <1>1, LedgerInductive, PTL DEF Spec, NoActionSwallowed

\* Every step of the loop is a step of the ledger or leaves it alone.
LEMMA LedgerSimulated ==
  ASSUME "doubleTapSelector" \notin Kinds, TypeOK, LedgerInv, LedgerInv', [Next]_vars
  PROVE  [Ledger!Next]_(Ledger!vars)
<1> USE DEF loopVars, deviceVars, historyVars, Ledger!vars, Ledger!Next, Ledger!Act,
        Ledger!Read, Ledger!Fresh
<1>1. CASE Verify
  <2>1. pc = "verify" /\ landed' = {} /\ told' = told \cup ({lastAction.id} \ {0})
    BY <1>1 DEF Verify
  <2>2. landed \subseteq {lastAction.id} /\ landed \subseteq StepIds
    BY <2>1 DEF LedgerInv, EffectsOwned, IdsOrdered, BeforeReading
  <2>3. CASE lastAction.id = 0
    BY <2>1, <2>2, <2>3 DEF StepIds
  <2>4. CASE lastAction.id # 0
    <3>1. lastAction.id \in StepIds
      BY <2>4 DEF TypeOK, ActionType, StepIds
    <3>2. \A j \in told : j < lastAction.id
      BY <2>1, <2>4 DEF LedgerInv, ReportPending, BeforeReading
    <3> QED BY <2>1, <2>2, <2>4, <3>1, <3>2
  <2> QED BY <2>3, <2>4
<1>2. CASE CallSucceeds \/ ApplyError
  <2>1. /\ stepIndex \in StepIds /\ landed \subseteq {stepIndex}
        /\ \A j \in told : j < stepIndex
    BY <1>2 DEF CallSucceeds, ApplyError, LedgerInv, IdsOrdered, EffectsOwned, Acting
  <2>2. UNCHANGED told /\ (landed' = landed \/ landed' = landed \cup {stepIndex})
    BY <1>2 DEF CallSucceeds, ApplyError
  <2> QED BY <2>1, <2>2
<1>3. CASE UNCHANGED vars \/ Gate \/ StartStep \/ LoopEnds \/ Guard \/ Observe
  BY <1>3 DEF vars, Gate, GateOpens, GatePolls, GateFails, ForegroundReached, Poll, StartStep,
              LoopEnds, Guard, GuardIntact, GuardRelaunches, GuardReached, GuardPolls,
              GuardFails, GuardFindsOverlay, DismissOverlay, Observe
<1>4. CASE Choose \/ CallUndelivered \/ Applied
  BY <1>4 DEF Choose, NoActionProduced, AppLeftForeground, NothingToDispatch, Dispatch, Skip,
              CallUndelivered, Applied
<1>5. CASE Record \/ AbortStep \/ Finalize \/ FinalizeFails \/ Device
  BY <1>5 DEF Record, AbortStep, Finalize, FinalizeFails, Device, FrontChanges, BudgetElapses, Cancel
<1> QED BY <1>1, <1>2, <1>3, <1>4, <1>5 DEF Next, Loop, Apply

\* The runner implements the ledger of effects and reports.
THEOREM ImplementsLedger ==
  ASSUME "doubleTapSelector" \notin Kinds
  PROVE  Spec => LedgerSpec
<1>1. Init => Ledger!Init
  BY DEF Init, Ledger!Init
<1>2. TypeOK /\ LedgerInv /\ (TypeOK /\ LedgerInv)' /\ [Next]_vars
        => [Ledger!Next]_(Ledger!vars)
  BY LedgerSimulated
<1> QED BY <1>1, <1>2, LedgerInductive, PTL DEF Spec, LedgerSpec, Ledger!Spec

----------------------------------------------------------------------------
(* Relaunches.                                                             *)

\* A relaunch no reading has seen is on the report, wherever there is one; the gate runs
\* before any report, and a step that acts has read what came before.
RelaunchInv ==
  /\ relaunched /\ lastAction.id # 0 => lastAction.relaunched
  /\ pc = "bringForward" => lastAction.id = 0 \/ lastAction.relaunched
  /\ pc = "gate" => lastAction.id = 0
  /\ pc \in Acting => ~relaunched

LEMMA RelaunchStep == TypeOK /\ RelaunchInv /\ [Next]_vars => RelaunchInv'
<1> SUFFICES ASSUME TypeOK, RelaunchInv, [Next]_vars PROVE RelaunchInv'
  OBVIOUS
<1> USE DEF RelaunchInv, Acting, loopVars, deviceVars, historyVars
<1>1. CASE UNCHANGED vars
  BY <1>1 DEF vars
<1>2. CASE Gate
  BY <1>2 DEF Gate, GateOpens, GatePolls, GateFails, ForegroundReached, Poll
<1>3. CASE StartStep \/ LoopEnds
  BY <1>3 DEF StartStep, LoopEnds
<1>4. CASE Guard
  <2>1. CASE GuardRelaunches
    BY <2>1 DEF GuardRelaunches, Relaunched, TypeOK, ActionType
  <2>2. CASE GuardFindsOverlay
    BY <2>2 DEF GuardFindsOverlay, TypeOK, ActionType
  <2>3. CASE GuardIntact
    BY <2>3 DEF GuardIntact
  <2>4. CASE GuardReached
    BY <2>4 DEF GuardReached, ForegroundReached
  <2>5. CASE GuardPolls
    BY <2>5 DEF GuardPolls, Poll
  <2>6. CASE GuardFails \/ DismissOverlay
    BY <2>6 DEF GuardFails, DismissOverlay
  <2> QED BY <1>4, <2>1, <2>2, <2>3, <2>4, <2>5, <2>6 DEF Guard
<1>5. CASE Observe
  BY <1>5 DEF Observe, AfterHold
<1>6. CASE Verify
  BY <1>6 DEF Verify
<1>7. CASE Record \/ AbortStep \/ Finalize \/ FinalizeFails
  BY <1>7 DEF Record, AbortStep, Finalize, FinalizeFails
<1>8. CASE Choose
  <2>1. pc = "choose" /\ ~relaunched
    BY <1>8 DEF Choose, NoActionProduced, AppLeftForeground, NothingToDispatch, Dispatch
  <2>2. relaunched' = relaunched /\ pc' \in {"record", "apply"}
    BY <1>8 DEF Choose, NoActionProduced, AppLeftForeground, NothingToDispatch, Dispatch, Skip
  <2> QED BY <2>1, <2>2
<1>9. CASE Apply
  <2>1. pc = "apply" /\ ~relaunched
    BY <1>9 DEF Apply, CallSucceeds, CallUndelivered, ApplyError, Applied
  <2>2. relaunched' = relaunched /\ pc' \in {"record", "apply"}
    BY <1>9, <2>1 DEF Apply, CallSucceeds, CallUndelivered, Skip, ApplyError, Applied
  <2> QED BY <2>1, <2>2
<1>10. CASE Device
  BY <1>10 DEF Device, FrontChanges, BudgetElapses, Cancel
<1> QED BY <1>1, <1>2, <1>3, <1>4, <1>5, <1>6, <1>7, <1>8, <1>9, <1>10 DEF Next, Loop

\* A reading told of an action is told when the app was brought back in between.
THEOREM RelaunchesReported == Spec => []RelaunchIsReported
<1>1. Init => RelaunchInv
  BY DEF Init, NoAction, RelaunchInv, Acting
<1>2. RelaunchInv => RelaunchIsReported
  BY DEF RelaunchInv, RelaunchIsReported
<1> QED BY <1>1, <1>2, RelaunchStep, TypeCorrect, PTL DEF Spec

----------------------------------------------------------------------------
(* The account the trace, the summary and the failure streak give of a run. *)

\* The places of one iteration, from the new step index to its trace line.
Iterating == BeforeVerdict \cup Acting \cup {"record"}

\* A step has no verdict before its reading, no action before one is chosen, and neither
\* when it is held back.
StepFilled ==
  /\ pc \notin Acting \cup {"record", "failed"} =>
       ~step.held /\ step.onset = {} /\ ~step.chosen /\ step.reason = ""
  /\ pc = "choose" => ~step.held /\ ~step.chosen /\ step.reason = ""
  /\ pc = "apply" => ~step.held /\ step.chosen /\ step.reason = ""
  /\ pc = "record" /\ step.held => step.onset = {} /\ ~step.chosen /\ step.reason = ""

\* Every line of a run that started is at the position of its step index; the line of
\* the final verdicts, which is never held, is one past the last step.
LinesNumbered ==
  /\ pc # "failed" => \A i \in DOMAIN trace : trace[i].index = i
  /\ pc = "gate" => stepIndex = 0
  /\ pc \in {"gate", "top", "finalize"} => Len(trace) = stepIndex
  /\ pc \in Iterating => Len(trace) + 1 = stepIndex
  /\ pc = "ended" => Len(trace) = stepIndex \/ Len(trace) = stepIndex + 1
  /\ pc = "ended" => \A i \in HeldLines : i <= stepIndex
  /\ pc \in {"gate", "top", "finalize", "ended"} => summary.steps = stepIndex

\* A held step is counted when its reading fails and gets its line afterwards; every
\* other counter is written with the line it counts.
LinesCounted ==
  /\ summary.dispatchedActions = Cardinality(SentLines)
  /\ \A r \in Reasons : summary.skippedActions[r] = Cardinality(SkippedLines(r))
  /\ summary.generatorActions = Cardinality(DrivenLines)
  /\ summary.failedObservations <= summary.skippedVerification
  /\ pc # "failed" =>
       summary.skippedVerification =
         IF pc = "record" /\ step.held THEN Cardinality(HeldLines) + 1
         ELSE Cardinality(HeldLines)

\* What the verifier holds violated is on one line of the trace, or is what the current
\* step is about to report; until the run fails the summary holds what the trace does.
ViolationsPlaced ==
  /\ \A i, j \in DOMAIN trace : i # j => trace[i].violations \cap trace[j].violations = {}
  /\ pc # "failed" => violated = Reported \cup step.onset /\ Reported \cap step.onset = {}
  /\ pc # "failed" =>
       Reported = UNION { summary.violations[i] : i \in DOMAIN summary.violations }
  /\ \A i \in DOMAIN summary.violations : summary.violations[i] # {}

\* The streak is written when the action ends, one place ahead of the step's line.
StreakCounted ==
  /\ consecutiveApplyFailures < MaxConsecutiveApplyFailures
  /\ pc \notin {"record", "failed"} => consecutiveApplyFailures = Cardinality(StreakLines)
  /\ pc = "record" =>
       consecutiveApplyFailures =
         IF step.reason \in ErrorReasons THEN Cardinality(StreakLines) + 1
         ELSE IF Dispatched(step) THEN 0 ELSE Cardinality(StreakLines)

AccountInv == StepFilled /\ LinesNumbered /\ LinesCounted /\ ViolationsPlaced /\ StreakCounted

\* The accounts are of the trace alone.
LEMMA SameLines ==
  ASSUME trace' = trace
  PROVE  /\ HeldLines' = HeldLines /\ SentLines' = SentLines /\ StreakLines' = StreakLines
         /\ DrivenLines' = DrivenLines
         /\ \A r : SkippedLines(r)' = SkippedLines(r)
         /\ Reported' = Reported
  BY DEF HeldLines, SentLines, DrivenLines, StreakLines, SkippedLines, Reported

\* What a line adds to each account.
LEMMA AddedLine ==
  ASSUME trace \in Seq(LineType), NEW l \in LineType, trace' = Append(trace, l),
         NEW n \in Nat, n = Len(trace) + 1
  PROVE  /\ HeldLines' = IF l.held THEN HeldLines \cup {n} ELSE HeldLines
         /\ SentLines' = IF l.chosen /\ l.skipped = "" THEN SentLines \cup {n} ELSE SentLines
         /\ DrivenLines' = IF l.chosen /\ l.skipped = "" /\ l.source = "seeded"
                           THEN DrivenLines \cup {n} ELSE DrivenLines
         /\ \A r : SkippedLines(r)' =
                     IF l.skipped = r THEN SkippedLines(r) \cup {n} ELSE SkippedLines(r)
         /\ StreakLines' = IF l.skipped \in ErrorReasons THEN StreakLines \cup {n}
                           ELSE IF l.chosen /\ l.skipped = "" THEN {} ELSE StreakLines
         /\ Reported' = Reported \cup l.violations
         /\ DOMAIN trace = 1..Len(trace) /\ DOMAIN trace' = DOMAIN trace \cup {n}
         /\ \A i \in DOMAIN trace : trace'[i] = trace[i] /\ i # n
         /\ trace'[n] = l
<1>1. /\ DOMAIN trace = 1..Len(trace) /\ DOMAIN trace' = DOMAIN trace \cup {n}
      /\ \A i \in DOMAIN trace : trace'[i] = trace[i] /\ i # n /\ i < n /\ ~(n < i)
      /\ trace'[n] = l /\ ~(n < n)
  OBVIOUS
<1>2. HeldLines' = IF l.held THEN HeldLines \cup {n} ELSE HeldLines
  BY <1>1 DEF HeldLines
<1>3. SentLines' = IF l.chosen /\ l.skipped = "" THEN SentLines \cup {n} ELSE SentLines
  BY <1>1 DEF SentLines
<1>4. \A r : SkippedLines(r)' =
               IF l.skipped = r THEN SkippedLines(r) \cup {n} ELSE SkippedLines(r)
  BY <1>1 DEF SkippedLines
<1>5. StreakLines' = IF l.skipped \in ErrorReasons THEN StreakLines \cup {n}
                     ELSE IF l.chosen /\ l.skipped = "" THEN {} ELSE StreakLines
  <2>1. SentLines \subseteq DOMAIN trace
    BY DEF SentLines
  <2>2. CASE l.skipped \in ErrorReasons
    <3>1. SentLines' = SentLines
      BY <1>3, <2>2 DEF ErrorReasons
    <3> QED BY <1>1, <2>1, <2>2, <3>1 DEF StreakLines
  <2>3. CASE l.skipped \notin ErrorReasons /\ l.chosen /\ l.skipped = ""
    <3>1. n \in SentLines' /\ \A i \in DOMAIN trace' : ~(n < i)
      BY <1>1, <1>3, <2>3
    <3>2. \A i \in DOMAIN trace' : i = n \/ i < n
      BY <1>1
    <3>3. StreakLines' = {}
      <4> SUFFICES ASSUME NEW i \in StreakLines' PROVE FALSE
        OBVIOUS
      <4>1. i \in DOMAIN trace' /\ trace'[i].skipped \in ErrorReasons /\ n < i
        BY <3>1 DEF StreakLines
      <4> QED BY <3>1, <4>1
    <3> QED BY <2>3, <3>3
  <2>4. CASE l.skipped \notin ErrorReasons /\ ~(l.chosen /\ l.skipped = "")
    <3>1. SentLines' = SentLines
      BY <1>3, <2>4
    <3> QED BY <1>1, <2>4, <3>1 DEF StreakLines
  <2> QED BY <2>2, <2>3, <2>4
<1>6. DrivenLines' = IF l.chosen /\ l.skipped = "" /\ l.source = "seeded"
                    THEN DrivenLines \cup {n} ELSE DrivenLines
  <2>1. SentLines \subseteq DOMAIN trace
    BY DEF SentLines
  <2> QED BY <1>1, <1>3, <2>1 DEF DrivenLines
<1>7. Reported' = Reported \cup l.violations
  <2>1. \A v : v \in Reported' <=> \E i \in DOMAIN trace' : v \in trace'[i].violations
    BY DEF Reported
  <2>2. \A v : v \in Reported <=> \E i \in DOMAIN trace : v \in trace[i].violations
    BY DEF Reported
  <2> QED BY <1>1, <2>1, <2>2
<1> QED BY <1>1, <1>2, <1>3, <1>4, <1>5, <1>6, <1>7

\* The accounts of a finite trace are finite sets of its positions.
LEMMA LinesFinite ==
  ASSUME trace \in Seq(LineType)
  PROVE  /\ DOMAIN trace = 1..Len(trace) /\ Len(trace) \in Nat
         /\ \A S \in SUBSET DOMAIN trace : IsFiniteSet(S) /\ Cardinality(S) \in Nat
         /\ HeldLines \subseteq DOMAIN trace /\ SentLines \subseteq DOMAIN trace
         /\ DrivenLines \subseteq DOMAIN trace /\ StreakLines \subseteq DOMAIN trace
         /\ \A r : SkippedLines(r) \subseteq DOMAIN trace
<1>1. DOMAIN trace = 1..Len(trace) /\ Len(trace) \in Nat
  OBVIOUS
<1>2. IsFiniteSet(DOMAIN trace)
  BY <1>1, FS_Interval
<1>3. \A S \in SUBSET DOMAIN trace : IsFiniteSet(S) /\ Cardinality(S) \in Nat
  BY <1>2, FS_Subset, FS_CardinalityType
<1> QED BY <1>1, <1>3 DEF HeldLines, SentLines, DrivenLines, StreakLines, SkippedLines

\* A position past the trace adds one to the count of an account.
LEMMA CountGrows ==
  ASSUME trace \in Seq(LineType)
  PROVE  \A S \in SUBSET DOMAIN trace :
           Cardinality(S \cup {Len(trace) + 1}) = Cardinality(S) + 1
<1> TAKE S \in SUBSET DOMAIN trace
<1>1. IsFiniteSet(S) /\ Len(trace) + 1 \notin S
  BY LinesFinite
<1> QED BY <1>1, FS_AddElement

\* The counts a line adds to.
LEMMA CountedLine ==
  ASSUME trace \in Seq(LineType), NEW l \in LineType, trace' = Append(trace, l)
  PROVE  /\ Cardinality(HeldLines') = IF l.held THEN Cardinality(HeldLines) + 1
                                      ELSE Cardinality(HeldLines)
         /\ Cardinality(SentLines') =
              IF l.chosen /\ l.skipped = "" THEN Cardinality(SentLines) + 1
              ELSE Cardinality(SentLines)
         /\ Cardinality(DrivenLines') =
              IF l.chosen /\ l.skipped = "" /\ l.source = "seeded"
              THEN Cardinality(DrivenLines) + 1 ELSE Cardinality(DrivenLines)
         /\ \A r : Cardinality(SkippedLines(r)') =
                     IF l.skipped = r THEN Cardinality(SkippedLines(r)) + 1
                     ELSE Cardinality(SkippedLines(r))
         /\ Cardinality(StreakLines') =
              IF l.skipped \in ErrorReasons THEN Cardinality(StreakLines) + 1
              ELSE IF l.chosen /\ l.skipped = "" THEN 0 ELSE Cardinality(StreakLines)
<1> DEFINE n == Len(trace) + 1
<1>1. n \in Nat
  OBVIOUS
<1>2. /\ HeldLines' = IF l.held THEN HeldLines \cup {n} ELSE HeldLines
      /\ SentLines' = IF l.chosen /\ l.skipped = "" THEN SentLines \cup {n} ELSE SentLines
      /\ DrivenLines' = IF l.chosen /\ l.skipped = "" /\ l.source = "seeded"
                        THEN DrivenLines \cup {n} ELSE DrivenLines
      /\ \A r : SkippedLines(r)' =
                  IF l.skipped = r THEN SkippedLines(r) \cup {n} ELSE SkippedLines(r)
      /\ StreakLines' = IF l.skipped \in ErrorReasons THEN StreakLines \cup {n}
                        ELSE IF l.chosen /\ l.skipped = "" THEN {} ELSE StreakLines
  BY <1>1, AddedLine
<1>3. /\ \A S \in SUBSET DOMAIN trace : Cardinality(S \cup {n}) = Cardinality(S) + 1
      /\ \A S \in SUBSET DOMAIN trace : Cardinality(S) \in Nat
  BY CountGrows, LinesFinite
<1>4. /\ HeldLines \subseteq DOMAIN trace /\ SentLines \subseteq DOMAIN trace
      /\ DrivenLines \subseteq DOMAIN trace /\ StreakLines \subseteq DOMAIN trace
      /\ \A r : SkippedLines(r) \subseteq DOMAIN trace
  BY LinesFinite
<1> HIDE DEF n
<1>5. Cardinality(HeldLines') = IF l.held THEN Cardinality(HeldLines) + 1
                                ELSE Cardinality(HeldLines)
  BY <1>2, <1>3, <1>4
<1>6. Cardinality(SentLines') =
        IF l.chosen /\ l.skipped = "" THEN Cardinality(SentLines) + 1
        ELSE Cardinality(SentLines)
  BY <1>2, <1>3, <1>4
<1>7. \A r : Cardinality(SkippedLines(r)') =
               IF l.skipped = r THEN Cardinality(SkippedLines(r)) + 1
               ELSE Cardinality(SkippedLines(r))
  BY <1>2, <1>3, <1>4
<1>8. Cardinality(StreakLines') =
        IF l.skipped \in ErrorReasons THEN Cardinality(StreakLines) + 1
        ELSE IF l.chosen /\ l.skipped = "" THEN 0 ELSE Cardinality(StreakLines)
  BY <1>2, <1>3, <1>4, FS_EmptySet
<1>9. Cardinality(DrivenLines') =
        IF l.chosen /\ l.skipped = "" /\ l.source = "seeded"
        THEN Cardinality(DrivenLines) + 1 ELSE Cardinality(DrivenLines)
  BY <1>2, <1>3, <1>4
<1> QED BY <1>5, <1>6, <1>7, <1>8, <1>9

\* The counts of the accounts are naturals.
LEMMA CountsTyped ==
  ASSUME trace \in Seq(LineType)
  PROVE  /\ Cardinality(HeldLines) \in Nat /\ Cardinality(SentLines) \in Nat
         /\ Cardinality(DrivenLines) \in Nat /\ Cardinality(StreakLines) \in Nat
         /\ \A r : Cardinality(SkippedLines(r)) \in Nat
  BY LinesFinite

LEMMA AccountInit == Init => AccountInv
<1> SUFFICES ASSUME Init PROVE AccountInv
  OBVIOUS
<1>1. trace = <<>> /\ DOMAIN trace = {} /\ Len(trace) = 0
  BY DEF Init
<1>2. /\ HeldLines = {} /\ SentLines = {} /\ DrivenLines = {} /\ StreakLines = {}
      /\ \A r : SkippedLines(r) = {}
  BY <1>1 DEF HeldLines, SentLines, DrivenLines, StreakLines, SkippedLines
<1>3. Reported = {} /\ violated = {}
  BY <1>1 DEF Init, Reported
<1>4. pc = "gate" /\ stepIndex = 0 /\ consecutiveApplyFailures = 0
  BY DEF Init
<1>5. ~step.held /\ step.onset = {} /\ ~step.chosen /\ step.reason = ""
  BY DEF Init, NoStep
<1>6. /\ summary.steps = 0 /\ summary.violations = <<>>
      /\ summary.skippedVerification = 0 /\ summary.failedObservations = 0
      /\ summary.dispatchedActions = 0 /\ summary.generatorActions = 0
      /\ \A r \in Reasons : summary.skippedActions[r] = 0
  BY DEF Init, ZeroSummary
<1>7. Cardinality({}) = 0
  BY FS_EmptySet
<1>8. StepFilled
  BY <1>4, <1>5 DEF StepFilled, Acting
<1>9. LinesNumbered
  BY <1>1, <1>4, <1>6 DEF LinesNumbered, Iterating, BeforeVerdict, Acting
<1>10. LinesCounted
  <2>1. /\ Cardinality(HeldLines) = 0 /\ Cardinality(SentLines) = 0
        /\ Cardinality(DrivenLines) = 0
        /\ \A r : Cardinality(SkippedLines(r)) = 0
    BY <1>2, <1>7
  <2> QED BY <1>4, <1>6, <2>1 DEF LinesCounted
<1>11. ViolationsPlaced
  BY <1>1, <1>3, <1>5, <1>6 DEF ViolationsPlaced
<1>12. StreakCounted
  BY <1>2, <1>4, <1>7, AssumptionsHold DEF StreakCounted, Assumptions
<1> QED BY <1>8, <1>9, <1>10, <1>11, <1>12 DEF AccountInv

\* A step that reads or waits leaves every account as it is.
LEMMA QuietAccount ==
  ASSUME AccountInv, UNCHANGED <<trace, summary, consecutiveApplyFailures, violated, stepIndex>>,
         step'.held = step.held, step'.onset = step.onset, step'.chosen = step.chosen,
         step'.reason = step.reason,
         \/ pc' = pc \/ pc' = "failed"
         \/ pc = "gate" /\ pc' = "top"
         \/ pc = "top" /\ pc' = "finalize"
         \/ pc \in BeforeVerdict /\ pc' \in BeforeVerdict
  PROVE  AccountInv'
<1>1. /\ HeldLines' = HeldLines /\ SentLines' = SentLines /\ StreakLines' = StreakLines
      /\ DrivenLines' = DrivenLines
      /\ \A r : SkippedLines(r)' = SkippedLines(r)
      /\ Reported' = Reported
  BY SameLines
<1>2. StepFilled'
  BY DEF AccountInv, StepFilled, BeforeVerdict, Acting
<1>3. LinesNumbered'
  BY <1>1 DEF AccountInv, LinesNumbered, Iterating, BeforeVerdict, Acting
<1>4. LinesCounted'
  BY <1>1 DEF AccountInv, LinesCounted, BeforeVerdict
<1>5. ViolationsPlaced'
  BY <1>1 DEF AccountInv, ViolationsPlaced, BeforeVerdict
<1>6. StreakCounted'
  BY <1>1 DEF AccountInv, StreakCounted, BeforeVerdict, Dispatched
<1> QED BY <1>2, <1>3, <1>4, <1>5, <1>6 DEF AccountInv

\* A gate that fails writes the only line of its run.
LEMMA GateFailsAccount == TypeOK /\ AccountInv /\ GateFails => AccountInv'
<1> SUFFICES ASSUME TypeOK, AccountInv, GateFails PROVE AccountInv'
  OBVIOUS
<1> DEFINE l == Line(0, [NoStep EXCEPT !.inScope = FALSE], {})
           n == Len(trace) + 1
<1>1. /\ l.index = 0 /\ ~l.held /\ ~l.chosen /\ l.skipped = "" /\ l.violations = {}
      /\ l \in LineType
  BY DEF Line, NoStep, LineType, Dispatched
<1>2. /\ pc = "gate" /\ pc' = "failed"
      /\ trace' = Append(trace, l) /\ trace \in Seq(LineType) /\ n \in Nat
      /\ UNCHANGED <<summary, consecutiveApplyFailures, step, stepIndex, violated>>
  BY DEF GateFails, TypeOK
<1> HIDE DEF l
<1>3. /\ Cardinality(HeldLines') = Cardinality(HeldLines)
      /\ Cardinality(SentLines') = Cardinality(SentLines)
      /\ Cardinality(DrivenLines') = Cardinality(DrivenLines)
      /\ \A r \in Reasons : Cardinality(SkippedLines(r)') = Cardinality(SkippedLines(r))
  BY <1>1, <1>2, CountedLine, CountsTyped DEF Reasons, ErrorReasons
<1>4. /\ Reported' = Reported \cup l.violations
      /\ DOMAIN trace = 1..Len(trace) /\ DOMAIN trace' = DOMAIN trace \cup {n}
      /\ \A i \in DOMAIN trace : trace'[i] = trace[i] /\ i # n
      /\ trace'[n] = l
  BY <1>1, <1>2, AddedLine
<1>5. StepFilled'
  BY <1>2 DEF AccountInv, StepFilled, Acting
<1>6. LinesNumbered'
  BY <1>2 DEF LinesNumbered, Iterating, BeforeVerdict, Acting
<1>7. LinesCounted'
  BY <1>2, <1>3 DEF AccountInv, LinesCounted
<1>8. ViolationsPlaced'
  <2>1. \A i, j \in DOMAIN trace' :
          i # j => trace'[i].violations \cap trace'[j].violations = {}
    <3>1. \A i, j \in DOMAIN trace :
            i # j => trace[i].violations \cap trace[j].violations = {}
      BY DEF AccountInv, ViolationsPlaced
    <3> QED BY <1>1, <1>4, <3>1
  <2>2. Reported' = Reported /\ summary' = summary
    BY <1>1, <1>2, <1>4
  <2> QED BY <1>2, <2>1, <2>2 DEF AccountInv, ViolationsPlaced
<1>9. StreakCounted'
  BY <1>2 DEF AccountInv, StreakCounted
<1> QED BY <1>5, <1>6, <1>7, <1>8, <1>9 DEF AccountInv

\* The new step takes the next index, one past the last line.
LEMMA StartStepAccount == TypeOK /\ AccountInv /\ StartStep => AccountInv'
<1> SUFFICES ASSUME TypeOK, AccountInv, StartStep PROVE AccountInv'
  OBVIOUS
<1>1. /\ pc = "top" /\ pc' = "guard" /\ stepIndex' = stepIndex + 1
      /\ UNCHANGED <<trace, summary, consecutiveApplyFailures, step, violated>>
  BY DEF StartStep
<1>2. /\ HeldLines' = HeldLines /\ SentLines' = SentLines /\ StreakLines' = StreakLines
      /\ DrivenLines' = DrivenLines
      /\ \A r : SkippedLines(r)' = SkippedLines(r)
      /\ Reported' = Reported
  BY <1>1, SameLines
<1>3. StepFilled'
  BY <1>1 DEF AccountInv, StepFilled, Acting
<1>4. LinesNumbered'
  BY <1>1, <1>2 DEF AccountInv, LinesNumbered, Iterating, BeforeVerdict, Acting
<1>5. LinesCounted'
  BY <1>1, <1>2 DEF AccountInv, LinesCounted
<1>6. ViolationsPlaced'
  BY <1>1, <1>2 DEF AccountInv, ViolationsPlaced
<1>7. StreakCounted'
  BY <1>1, <1>2 DEF AccountInv, StreakCounted
<1> QED BY <1>3, <1>4, <1>5, <1>6, <1>7 DEF AccountInv

\* A held step is counted now and written later.
LEMMA ObserveAccount == TypeOK /\ AccountInv /\ Observe => AccountInv'
<1> SUFFICES ASSUME TypeOK, AccountInv, Observe PROVE AccountInv'
  OBVIOUS
<1>1. /\ pc = "observe"
      /\ UNCHANGED <<trace, consecutiveApplyFailures, violated, stepIndex>>
  BY DEF Observe, loopVars
<1>2. CASE pc' = "verify" /\ UNCHANGED <<step, summary>>
  BY <1>1, <1>2, QuietAccount DEF BeforeVerdict
<1>3. CASE \E failed \in BOOLEAN :
             /\ step' = [step EXCEPT !.held = TRUE]
             /\ summary' = [summary EXCEPT
                  !.skippedVerification = @ + 1,
                  !.failedObservations = IF failed THEN @ + 1 ELSE @]
             /\ pc' = AfterHold
  <2>1. pc' = "record"
    BY <1>3 DEF AfterHold
  <2>2. step'.held /\ UNCHANGED <<step.onset, step.chosen, step.reason>>
    BY <1>3 DEF TypeOK, StepType
  <2>3. /\ UNCHANGED <<summary.steps, summary.violations, summary.dispatchedActions,
                       summary.generatorActions, summary.skippedActions>>
        /\ summary'.skippedVerification = summary.skippedVerification + 1
        /\ \/ summary'.failedObservations = summary.failedObservations
           \/ summary'.failedObservations = summary.failedObservations + 1
    BY <1>3 DEF TypeOK, SummaryType
  <2>4. /\ HeldLines' = HeldLines /\ SentLines' = SentLines /\ StreakLines' = StreakLines
        /\ DrivenLines' = DrivenLines
        /\ \A r : SkippedLines(r)' = SkippedLines(r)
        /\ Reported' = Reported
    BY <1>1, SameLines
  <2>5. ~step.held /\ step.onset = {} /\ ~step.chosen /\ step.reason = ""
    BY <1>1 DEF AccountInv, StepFilled, Acting
  <2>6. StepFilled'
    BY <2>1, <2>2, <2>5 DEF StepFilled, Acting
  <2>7. LinesNumbered'
    BY <1>1, <2>1, <2>3, <2>4 DEF AccountInv, LinesNumbered, Iterating, BeforeVerdict
  <2>8. LinesCounted'
    <3>1. /\ summary.skippedVerification \in Nat /\ summary.failedObservations \in Nat
          /\ Cardinality(HeldLines) \in Nat
      BY CountsTyped DEF TypeOK, SummaryType
    <3> QED BY <1>1, <2>1, <2>2, <2>3, <2>4, <3>1 DEF AccountInv, LinesCounted
  <2>9. ViolationsPlaced'
    BY <1>1, <2>1, <2>2, <2>3, <2>4 DEF AccountInv, ViolationsPlaced
  <2>10. StreakCounted'
    BY <1>1, <2>1, <2>2, <2>4, <2>5 DEF AccountInv, StreakCounted, ErrorReasons, Dispatched
  <2> QED BY <2>6, <2>7, <2>8, <2>9, <2>10 DEF AccountInv
<1> QED BY <1>2, <1>3 DEF Observe

\* The onset of a reading is what it adds to the violated properties.
LEMMA VerifyAccount == TypeOK /\ AccountInv /\ Verify => AccountInv'
<1> SUFFICES ASSUME TypeOK, AccountInv, Verify PROVE AccountInv'
  OBVIOUS
<1>1. /\ pc = "verify" /\ pc' = "choose"
      /\ UNCHANGED <<trace, summary, consecutiveApplyFailures, stepIndex>>
  BY DEF Verify, loopVars
<1>2. /\ violated \subseteq violated' /\ step'.onset = violated' \ violated
      /\ UNCHANGED <<step.held, step.chosen, step.reason>>
  <2>1. PICK verdicts \in SUBSET Props :
          /\ violated \subseteq verdicts /\ violated' = verdicts
          /\ step' = [step EXCEPT !.onset = Onset(verdicts)]
    BY DEF Verify
  <2>2. step \in StepType
    BY DEF TypeOK
  <2> QED BY <2>1, <2>2 DEF Onset, StepType
<1>3. /\ HeldLines' = HeldLines /\ SentLines' = SentLines /\ StreakLines' = StreakLines
      /\ DrivenLines' = DrivenLines
      /\ \A r : SkippedLines(r)' = SkippedLines(r)
      /\ Reported' = Reported
  BY <1>1, SameLines
<1>4. ~step.held /\ step.onset = {} /\ ~step.chosen /\ step.reason = ""
  BY <1>1 DEF AccountInv, StepFilled, Acting
<1>5. StepFilled'
  BY <1>1, <1>2, <1>4 DEF StepFilled, Acting
<1>6. LinesNumbered'
  BY <1>1, <1>3 DEF AccountInv, LinesNumbered, Iterating, BeforeVerdict, Acting
<1>7. LinesCounted'
  BY <1>1, <1>3 DEF AccountInv, LinesCounted
<1>8. ViolationsPlaced'
  <2>1. /\ violated = Reported \cup step.onset /\ trace' = trace /\ summary' = summary
        /\ Reported = UNION { summary.violations[i] : i \in DOMAIN summary.violations }
        /\ \A i, j \in DOMAIN trace : i # j => trace[i].violations \cap trace[j].violations = {}
        /\ \A i \in DOMAIN summary.violations : summary.violations[i] # {}
    BY <1>1 DEF AccountInv, ViolationsPlaced
  <2>2. violated' = Reported' \cup step'.onset /\ Reported' \cap step'.onset = {}
    BY <1>2, <1>3, <1>4, <2>1
  <2> QED BY <1>3, <2>1, <2>2 DEF ViolationsPlaced
<1>9. StreakCounted'
  BY <1>1, <1>3 DEF AccountInv, StreakCounted
<1> QED BY <1>5, <1>6, <1>7, <1>8, <1>9 DEF AccountInv

\* Choosing and applying write the step and, when they end it, the streak.
LEMMA ActingAccount ==
  ASSUME AccountInv, pc \in Acting, UNCHANGED <<trace, summary, violated, stepIndex>>,
         ~step'.held, step'.onset = step.onset,
         consecutiveApplyFailures' < MaxConsecutiveApplyFailures,
         \/ /\ pc' = "apply" /\ step'.chosen /\ step'.reason = ""
            /\ consecutiveApplyFailures' = consecutiveApplyFailures
         \/ /\ pc' = "record" /\ step'.reason \in ErrorReasons
            /\ consecutiveApplyFailures' = consecutiveApplyFailures + 1
         \/ /\ pc' = "record" /\ Dispatched(step') /\ consecutiveApplyFailures' = 0
         \/ /\ pc' = "record" /\ step'.reason \in Reasons \ ErrorReasons
            /\ consecutiveApplyFailures' = consecutiveApplyFailures
  PROVE  AccountInv'
<1>1. /\ HeldLines' = HeldLines /\ SentLines' = SentLines /\ StreakLines' = StreakLines
      /\ DrivenLines' = DrivenLines
      /\ \A r : SkippedLines(r)' = SkippedLines(r)
      /\ Reported' = Reported
  BY SameLines
<1>2. StepFilled'
  BY DEF AccountInv, StepFilled, Acting
<1>3. LinesNumbered'
  BY <1>1 DEF AccountInv, LinesNumbered, Iterating, BeforeVerdict, Acting
<1>4. LinesCounted'
  BY <1>1 DEF AccountInv, LinesCounted, Acting
<1>5. ViolationsPlaced'
  BY <1>1 DEF AccountInv, ViolationsPlaced, Acting
<1>6. StreakCounted'
  BY <1>1 DEF AccountInv, StreakCounted, Acting, Dispatched, Reasons, ErrorReasons
<1> QED BY <1>2, <1>3, <1>4, <1>5, <1>6 DEF AccountInv

LEMMA SkipAccount ==
  ASSUME TypeOK, AccountInv, pc \in Acting, NEW reason \in Reasons \ ErrorReasons,
         NEW chosen \in BOOLEAN, Skip(reason, chosen)
  PROVE  AccountInv'
<1>1. /\ pc' = "record"
      /\ UNCHANGED <<trace, summary, consecutiveApplyFailures, violated, stepIndex>>
  BY DEF Skip
<1>2. /\ step'.reason = reason /\ step'.held = step.held /\ step'.onset = step.onset
  BY DEF Skip, TypeOK, StepType
<1>3. ~step.held /\ consecutiveApplyFailures < MaxConsecutiveApplyFailures
  BY DEF AccountInv, StepFilled, StreakCounted, Acting
<1> QED BY <1>1, <1>2, <1>3, ActingAccount

LEMMA ChooseAccount == TypeOK /\ AccountInv /\ Choose => AccountInv'
<1> SUFFICES ASSUME TypeOK, AccountInv, Choose PROVE AccountInv'
  OBVIOUS
<1>1. pc = "choose" /\ pc \in Acting
  BY DEF Choose, NoActionProduced, AppLeftForeground, NothingToDispatch, Dispatch, Acting
<1>2. CASE NoActionProduced
  BY <1>1, <1>2, SkipAccount DEF NoActionProduced, Reasons, ErrorReasons
<1>3. CASE AppLeftForeground
  BY <1>1, <1>3, SkipAccount DEF AppLeftForeground, Reasons, ErrorReasons
<1>4. CASE NothingToDispatch
  <2>1. \A kind \in DOMAIN NotDispatched : NotDispatched[kind] \in Reasons \ ErrorReasons
    BY DEF NotDispatched, Reasons, ErrorReasons
  <2> QED BY <1>1, <1>4, <2>1, SkipAccount DEF NothingToDispatch
<1>5. CASE Dispatch
  <2>1. /\ pc' = "apply"
        /\ UNCHANGED <<trace, summary, consecutiveApplyFailures, violated, stepIndex>>
    BY <1>5 DEF Dispatch, loopVars
  <2>2. /\ step'.chosen /\ UNCHANGED <<step.held, step.onset, step.reason>>
    BY <1>5 DEF Dispatch, TypeOK, StepType
  <2>3. /\ ~step.held /\ step.reason = ""
        /\ consecutiveApplyFailures < MaxConsecutiveApplyFailures
    BY <1>1 DEF AccountInv, StepFilled, StreakCounted
  <2> QED BY <1>1, <2>1, <2>2, <2>3, ActingAccount
<1> QED BY <1>2, <1>3, <1>4, <1>5 DEF Choose

LEMMA ApplyAccount == TypeOK /\ AccountInv /\ Apply => AccountInv'
<1> SUFFICES ASSUME TypeOK, AccountInv, Apply PROVE AccountInv'
  OBVIOUS
<1>1. pc = "apply" /\ pc \in Acting
  BY DEF Apply, CallSucceeds, CallUndelivered, ApplyError, Applied, Acting
<1>2. ~step.held /\ step.chosen /\ step.reason = ""
  BY <1>1 DEF AccountInv, StepFilled
<1>3. CASE CallSucceeds
  <2>1. /\ pc' = pc
        /\ UNCHANGED <<trace, summary, consecutiveApplyFailures, violated, stepIndex>>
    BY <1>3 DEF CallSucceeds, loopVars
  <2>2. UNCHANGED <<step.held, step.onset, step.chosen, step.reason>>
    BY <1>3 DEF CallSucceeds, TypeOK, StepType
  <2> QED BY <2>1, <2>2, QuietAccount
<1>4. CASE CallUndelivered
  BY <1>1, <1>4, SkipAccount DEF CallUndelivered, Reasons, ErrorReasons
<1>5. CASE ApplyError
  <2>1. /\ pc' = "record" /\ UNCHANGED <<trace, summary, violated, stepIndex>>
        /\ consecutiveApplyFailures' = consecutiveApplyFailures + 1
        /\ consecutiveApplyFailures' < MaxConsecutiveApplyFailures
    BY <1>5 DEF ApplyError
  <2>2. step'.reason \in ErrorReasons /\ UNCHANGED <<step.held, step.onset>>
    BY <1>5 DEF ApplyError, TypeOK, StepType
  <2> QED BY <1>1, <1>2, <2>1, <2>2, ActingAccount
<1>6. CASE Applied
  <2>1. /\ pc' = "record" /\ UNCHANGED <<step, trace, summary, violated, stepIndex>>
        /\ consecutiveApplyFailures' = 0
        /\ consecutiveApplyFailures' < MaxConsecutiveApplyFailures
    BY <1>6, AssumptionsHold DEF Applied, StreakBroken, Assumptions
  <2> QED BY <1>1, <1>2, <2>1, ActingAccount DEF Dispatched
<1> QED BY <1>3, <1>4, <1>5, <1>6 DEF Apply

\* What Record writes to the summary.
LEMMA RecordedSummary ==
  ASSUME TypeOK, Record
  PROVE  /\ summary'.steps = stepIndex
         /\ summary'.violations = IF step.onset = {} THEN summary.violations
                                  ELSE Append(summary.violations, step.onset)
         /\ summary'.dispatchedActions =
              IF Dispatched(step) THEN summary.dispatchedActions + 1
              ELSE summary.dispatchedActions
         /\ summary'.generatorActions =
              IF Dispatched(step) /\ step.source = "seeded" THEN summary.generatorActions + 1
              ELSE summary.generatorActions
         /\ \A r \in Reasons :
              summary'.skippedActions[r] =
                IF r = step.reason THEN summary.skippedActions[r] + 1
                ELSE summary.skippedActions[r]
         /\ UNCHANGED <<summary.skippedVerification, summary.failedObservations>>
<1>1. /\ summary \in SummaryType
      /\ summary' = [summary EXCEPT
           !.skippedActions = [r \in Reasons |-> IF r = step.reason THEN @[r] + 1 ELSE @[r]],
           !.dispatchedActions = IF Dispatched(step) THEN @ + 1 ELSE @,
           !.generatorActions =
             IF Dispatched(step) /\ step.source = "seeded" THEN @ + 1 ELSE @,
           !.steps = stepIndex,
           !.violations = IF step.onset = {} THEN @ ELSE Append(@, step.onset)]
  BY DEF Record, TypeOK
<1>2. /\ summary.dispatchedActions \in Nat /\ summary.generatorActions \in Nat
      /\ \A r \in Reasons : summary.skippedActions[r] \in Nat
  BY <1>1 DEF SummaryType
<1>3. /\ summary'.steps = stepIndex
      /\ summary'.violations = IF step.onset = {} THEN summary.violations
                               ELSE Append(summary.violations, step.onset)
      /\ UNCHANGED <<summary.skippedVerification, summary.failedObservations>>
  BY <1>1 DEF SummaryType
<1>4. /\ summary'.dispatchedActions = IF Dispatched(step) THEN summary.dispatchedActions + 1
                                      ELSE summary.dispatchedActions
      /\ summary'.generatorActions = IF Dispatched(step) /\ step.source = "seeded"
                                     THEN summary.generatorActions + 1
                                     ELSE summary.generatorActions
  BY <1>1 DEF SummaryType
<1>5. \A r \in Reasons : summary'.skippedActions[r] =
        IF r = step.reason THEN summary.skippedActions[r] + 1 ELSE summary.skippedActions[r]
  BY <1>1 DEF SummaryType
<1> QED BY <1>2, <1>3, <1>4, <1>5

\* What a sequence of sets of properties holds.
InAny(s) == UNION { s[i] : i \in DOMAIN s }

\* A set of properties joined to the summary joins what the summary holds.
LEMMA SummaryGrows ==
  ASSUME NEW s \in Seq(SUBSET Props), NEW v \in SUBSET Props, v # {},
         \A i \in DOMAIN s : s[i] # {}
  PROVE  /\ InAny(Append(s, v)) = InAny(s) \cup v
         /\ \A i \in DOMAIN Append(s, v) : Append(s, v)[i] # {}
<1> DEFINE t == Append(s, v)
           n == Len(s) + 1
<1>1. /\ DOMAIN t = DOMAIN s \cup {n}
      /\ \A i \in DOMAIN s : t[i] = s[i]
      /\ t[n] = v
  OBVIOUS
<1> HIDE DEF t, n
<1>2. InAny(t) = InAny(s) \cup v
  <2>1. \A x : x \in InAny(t) <=> \E i \in DOMAIN t : x \in t[i]
    BY DEF InAny
  <2>2. \A x : x \in InAny(s) <=> \E i \in DOMAIN s : x \in s[i]
    BY DEF InAny
  <2> QED BY <1>1, <2>1, <2>2
<1>3. \A i \in DOMAIN t : t[i] # {}
  BY <1>1
<1> QED BY <1>2, <1>3 DEF t

\* The line is what the counters were moved by.
LEMMA RecordAccount == TypeOK /\ AccountInv /\ Record => AccountInv'
<1> SUFFICES ASSUME TypeOK, AccountInv, Record PROVE AccountInv'
  OBVIOUS
<1> DEFINE l == Line(stepIndex, step, step.onset)
           n == Len(trace) + 1
<1>1. /\ l.index = stepIndex /\ l.held = step.held /\ l.chosen = step.chosen
      /\ l.skipped = step.reason /\ l.violations = step.onset
      /\ l.source = IF step.chosen /\ step.reason = "" THEN step.source ELSE ""
  BY DEF Line, Dispatched
<1>2. l \in LineType /\ step.onset \in SUBSET Props
  <2>1. stepIndex \in Nat /\ step \in StepType
    BY DEF TypeOK
  <2>2. step.onset \in SUBSET Props
    BY <2>1 DEF StepType
  <2> QED BY <2>1, <2>2, LineTyped
<1>3. /\ pc = "record" /\ (pc' = "finalize" \/ pc' = "top")
      /\ trace' = Append(trace, l) /\ trace \in Seq(LineType) /\ n \in Nat
      /\ UNCHANGED <<consecutiveApplyFailures, stepIndex, violated>>
  BY DEF Record, TypeOK
<1>4. ~step'.held /\ step'.onset = {} /\ ~step'.chosen /\ step'.reason = ""
  BY DEF Record, NoStep
<1> HIDE DEF l
<1>5. n = stepIndex
  BY <1>3 DEF AccountInv, LinesNumbered, Iterating
<1>6. /\ Reported' = Reported \cup step.onset
      /\ DOMAIN trace = 1..Len(trace) /\ DOMAIN trace' = DOMAIN trace \cup {n}
      /\ \A i \in DOMAIN trace : trace'[i] = trace[i] /\ i # n
      /\ trace'[n] = l
  BY <1>1, <1>2, <1>3, AddedLine
<1>7. /\ Cardinality(HeldLines') = IF step.held THEN Cardinality(HeldLines) + 1
                                   ELSE Cardinality(HeldLines)
      /\ Cardinality(SentLines') =
           IF step.chosen /\ step.reason = "" THEN Cardinality(SentLines) + 1
           ELSE Cardinality(SentLines)
      /\ Cardinality(DrivenLines') =
           IF step.chosen /\ step.reason = "" /\ step.source = "seeded"
           THEN Cardinality(DrivenLines) + 1 ELSE Cardinality(DrivenLines)
      /\ \A r : Cardinality(SkippedLines(r)') =
                  IF step.reason = r THEN Cardinality(SkippedLines(r)) + 1
                  ELSE Cardinality(SkippedLines(r))
      /\ Cardinality(StreakLines') =
           IF step.reason \in ErrorReasons THEN Cardinality(StreakLines) + 1
           ELSE IF step.chosen /\ step.reason = "" THEN 0 ELSE Cardinality(StreakLines)
  BY <1>1, <1>2, <1>3, CountedLine
<1>8. StepFilled'
  BY <1>3, <1>4 DEF StepFilled
<1>9. LinesNumbered'
  <2>1. \A i \in DOMAIN trace' : trace'[i].index = i
    BY <1>1, <1>3, <1>5, <1>6 DEF AccountInv, LinesNumbered
  <2>2. Len(trace') = stepIndex' /\ summary'.steps = stepIndex'
    <3>1. Len(trace') = n
      BY <1>3
    <3> QED BY <1>3, <1>5, <3>1, RecordedSummary
  <2> QED BY <1>3, <2>1, <2>2 DEF LinesNumbered, Iterating, BeforeVerdict, Acting
<1>10. LinesCounted'
  <2>1. /\ summary.dispatchedActions = Cardinality(SentLines)
        /\ \A r \in Reasons : summary.skippedActions[r] = Cardinality(SkippedLines(r))
        /\ summary.generatorActions = Cardinality(DrivenLines)
        /\ summary.failedObservations <= summary.skippedVerification
        /\ summary.skippedVerification =
             IF step.held THEN Cardinality(HeldLines) + 1 ELSE Cardinality(HeldLines)
    BY <1>3 DEF AccountInv, LinesCounted
  <2>2. summary.dispatchedActions \in Nat /\ summary.generatorActions \in Nat
    BY DEF TypeOK, SummaryType
  <2>3. summary'.dispatchedActions = Cardinality(SentLines')
    BY <1>7, <2>1, RecordedSummary DEF Dispatched
  <2>4. \A r \in Reasons : summary'.skippedActions[r] = Cardinality(SkippedLines(r)')
    BY <1>7, <2>1, RecordedSummary
  <2>5. summary'.generatorActions = Cardinality(DrivenLines')
    BY <1>7, <2>1, <2>2, RecordedSummary DEF Dispatched
  <2>6. /\ summary'.failedObservations <= summary'.skippedVerification
        /\ summary'.skippedVerification = Cardinality(HeldLines')
    BY <1>7, <2>1, RecordedSummary
  <2> QED BY <1>3, <2>3, <2>4, <2>5, <2>6 DEF LinesCounted
<1>11. ViolationsPlaced'
  <2>1. /\ \A i, j \in DOMAIN trace :
             i # j => trace[i].violations \cap trace[j].violations = {}
        /\ violated = Reported \cup step.onset /\ Reported \cap step.onset = {}
        /\ Reported = UNION { summary.violations[i] : i \in DOMAIN summary.violations }
        /\ \A i \in DOMAIN summary.violations : summary.violations[i] # {}
    BY <1>3 DEF AccountInv, ViolationsPlaced
  <2>2. \A i \in DOMAIN trace : trace[i].violations \cap step.onset = {}
    BY <2>1 DEF Reported
  <2>3. \A i, j \in DOMAIN trace' :
          i # j => trace'[i].violations \cap trace'[j].violations = {}
    BY <1>1, <1>6, <2>1, <2>2
  <2>4. violated' = Reported' \cup step'.onset /\ Reported' \cap step'.onset = {}
    BY <1>3, <1>4, <1>6, <2>1
  <2>5. /\ Reported' = UNION { summary'.violations[i] : i \in DOMAIN summary'.violations }
        /\ \A i \in DOMAIN summary'.violations : summary'.violations[i] # {}
    <3>1. CASE step.onset = {}
      <4>1. summary'.violations = summary.violations /\ Reported' = Reported
        BY <1>6, <3>1, RecordedSummary
      <4> QED BY <2>1, <4>1
    <3>2. CASE step.onset # {}
      <4>1. summary'.violations = Append(summary.violations, step.onset)
        BY <3>2, RecordedSummary
      <4>2. summary.violations \in Seq(SUBSET Props)
        BY DEF TypeOK, SummaryType
      <4>3. Reported = InAny(summary.violations)
        BY <2>1 DEF InAny
      <4>4. /\ Reported' = InAny(summary'.violations)
            /\ \A i \in DOMAIN summary'.violations : summary'.violations[i] # {}
        <5>1. /\ InAny(Append(summary.violations, step.onset))
                   = InAny(summary.violations) \cup step.onset
              /\ \A i \in DOMAIN Append(summary.violations, step.onset) :
                   Append(summary.violations, step.onset)[i] # {}
          BY <1>2, <2>1, <3>2, <4>2, SummaryGrows
        <5> QED BY <1>6, <4>1, <4>3, <5>1
      <4> QED BY <4>4 DEF InAny
    <3> QED BY <3>1, <3>2
  <2> QED BY <2>3, <2>4, <2>5 DEF ViolationsPlaced
<1>12. StreakCounted'
  BY <1>3, <1>7 DEF AccountInv, StreakCounted, Dispatched
<1> QED BY <1>8, <1>9, <1>10, <1>11, <1>12 DEF AccountInv

\* The final line reports what the end of the run violates, and no other counter moves.
LEMMA FinalizeAccount == TypeOK /\ AccountInv /\ Finalize => AccountInv'
<1> SUFFICES ASSUME TypeOK, AccountInv, Finalize PROVE AccountInv'
  OBVIOUS
<1>1. /\ pc = "finalize" /\ pc' = "ended"
      /\ UNCHANGED <<step, stepIndex, consecutiveApplyFailures>>
  BY DEF Finalize
<1>2. PICK ended \in SUBSET (Props \ violated) :
        /\ violated' = violated \cup ended
        /\ IF ended = {} THEN UNCHANGED <<trace, summary>>
           ELSE /\ trace' = Append(trace, Line(FinalIndex, NoStep, ended))
                /\ summary' = [summary EXCEPT !.violations = Append(@, ended)]
  BY DEF Finalize
<1>3. ~step.held /\ step.onset = {} /\ ~step.chosen /\ step.reason = ""
  BY <1>1 DEF AccountInv, StepFilled, Acting
<1>4. /\ \A i \in DOMAIN trace : trace[i].index = i
      /\ Len(trace) = stepIndex /\ summary.steps = stepIndex
  BY <1>1 DEF AccountInv, LinesNumbered
<1>5. trace \in Seq(LineType) /\ stepIndex \in Nat
  BY DEF TypeOK
<1>6. HeldLines \subseteq 1..stepIndex
  BY <1>4, <1>5, LinesFinite
<1>7. StepFilled'
  BY <1>1, <1>3 DEF StepFilled
<1>8. CASE ended = {}
  <2>1. UNCHANGED <<trace, summary, violated>>
    BY <1>2, <1>8
  <2>2. /\ HeldLines' = HeldLines /\ SentLines' = SentLines /\ StreakLines' = StreakLines
        /\ DrivenLines' = DrivenLines
        /\ \A r : SkippedLines(r)' = SkippedLines(r)
        /\ Reported' = Reported
    BY <2>1, SameLines
  <2>3. LinesNumbered'
    BY <1>1, <1>4, <1>6, <2>1, <2>2 DEF LinesNumbered, Iterating, BeforeVerdict, Acting
  <2>4. LinesCounted'
    BY <1>1, <2>1, <2>2 DEF AccountInv, LinesCounted
  <2>5. ViolationsPlaced'
    BY <1>1, <2>1, <2>2 DEF AccountInv, ViolationsPlaced
  <2>6. StreakCounted'
    BY <1>1, <2>2 DEF AccountInv, StreakCounted
  <2> QED BY <1>7, <2>3, <2>4, <2>5, <2>6 DEF AccountInv
<1>9. CASE ended # {}
  <2> DEFINE l == Line(FinalIndex, NoStep, ended)
             n == Len(trace) + 1
  <2>1. /\ l.index = stepIndex + 1 /\ ~l.held /\ ~l.chosen /\ l.skipped = ""
        /\ l.violations = ended
    BY DEF Line, NoStep, FinalIndex
  <2>2. l \in LineType /\ ended \in SUBSET Props
    <3>1. FinalIndex \in Nat /\ ended \in SUBSET Props
      BY <1>5 DEF FinalIndex
    <3> QED BY <3>1, NoStepTyped, LineTyped
  <2>3. /\ trace' = Append(trace, l) /\ n \in Nat /\ n = stepIndex + 1
        /\ summary' = [summary EXCEPT !.violations = Append(summary.violations, ended)]
        /\ violated' = violated \cup ended
    BY <1>2, <1>4, <1>5, <1>9
  <2> HIDE DEF l
  <2>4. /\ Reported' = Reported \cup ended
        /\ HeldLines' = HeldLines
        /\ DOMAIN trace = 1..Len(trace) /\ DOMAIN trace' = DOMAIN trace \cup {n}
        /\ \A i \in DOMAIN trace : trace'[i] = trace[i] /\ i # n
        /\ trace'[n] = l
    BY <1>5, <2>1, <2>2, <2>3, AddedLine
  <2>5. /\ Cardinality(SentLines') = Cardinality(SentLines)
        /\ Cardinality(DrivenLines') = Cardinality(DrivenLines)
        /\ \A r \in Reasons : Cardinality(SkippedLines(r)') = Cardinality(SkippedLines(r))
        /\ Cardinality(StreakLines') = Cardinality(StreakLines)
    BY <1>5, <2>1, <2>2, <2>3, CountedLine, CountsTyped DEF Reasons, ErrorReasons
  <2>6. /\ UNCHANGED <<summary.steps, summary.skippedVerification, summary.failedObservations,
                       summary.dispatchedActions, summary.generatorActions,
                       summary.skippedActions>>
        /\ summary'.violations = Append(summary.violations, ended)
        /\ summary.violations \in Seq(SUBSET Props)
    BY <2>3 DEF TypeOK, SummaryType
  <2>7. LinesNumbered'
    <3>1. \A i \in DOMAIN trace' : trace'[i].index = i
      BY <1>4, <2>1, <2>3, <2>4
    <3>2. Len(trace') = stepIndex' + 1
      BY <1>1, <1>4, <1>5, <2>3
    <3>3. \A i \in HeldLines' : i <= stepIndex'
      BY <1>1, <1>6, <2>4
    <3> QED BY <1>1, <1>4, <2>6, <3>1, <3>2, <3>3
            DEF LinesNumbered, Iterating, BeforeVerdict, Acting
  <2>8. LinesCounted'
    BY <1>1, <2>4, <2>5, <2>6 DEF AccountInv, LinesCounted
  <2>9. ViolationsPlaced'
    <3>1. /\ \A i, j \in DOMAIN trace :
               i # j => trace[i].violations \cap trace[j].violations = {}
          /\ violated = Reported
          /\ Reported = UNION { summary.violations[i] : i \in DOMAIN summary.violations }
          /\ \A i \in DOMAIN summary.violations : summary.violations[i] # {}
      BY <1>1, <1>3 DEF AccountInv, ViolationsPlaced
    <3>2. \A i \in DOMAIN trace : trace[i].violations \cap ended = {}
      BY <3>1 DEF Reported
    <3>3. \A i, j \in DOMAIN trace' :
            i # j => trace'[i].violations \cap trace'[j].violations = {}
      BY <2>1, <2>4, <3>1, <3>2
    <3>4. violated' = Reported' \cup step'.onset /\ Reported' \cap step'.onset = {}
      BY <1>1, <1>3, <2>3, <2>4, <3>1
    <3>5. /\ Reported' = UNION { summary'.violations[i] : i \in DOMAIN summary'.violations }
          /\ \A i \in DOMAIN summary'.violations : summary'.violations[i] # {}
      <4>1. Reported = InAny(summary.violations)
        BY <3>1 DEF InAny
      <4>2. /\ Reported' = InAny(summary'.violations)
            /\ \A i \in DOMAIN summary'.violations : summary'.violations[i] # {}
        <5>1. /\ InAny(Append(summary.violations, ended))
                   = InAny(summary.violations) \cup ended
              /\ \A i \in DOMAIN Append(summary.violations, ended) :
                   Append(summary.violations, ended)[i] # {}
          BY <1>9, <2>2, <2>6, <3>1, SummaryGrows
        <5> QED BY <2>4, <2>6, <4>1, <5>1
      <4> QED BY <4>2 DEF InAny
    <3> QED BY <3>3, <3>4, <3>5 DEF ViolationsPlaced
  <2>10. StreakCounted'
    BY <1>1, <2>5 DEF AccountInv, StreakCounted
  <2> QED BY <1>7, <2>7, <2>8, <2>9, <2>10 DEF AccountInv
<1> QED BY <1>8, <1>9

\* A run whose last line cannot be written fails with its verdicts in the summary alone.
LEMMA FinalizeFailsAccount == TypeOK /\ AccountInv /\ FinalizeFails => AccountInv'
<1> SUFFICES ASSUME TypeOK, AccountInv, FinalizeFails PROVE AccountInv'
  OBVIOUS
<1>1. /\ pc = "finalize" /\ pc' = "failed"
      /\ UNCHANGED <<step, stepIndex, consecutiveApplyFailures, trace>>
  BY DEF FinalizeFails
<1>2. PICK ended \in SUBSET (Props \ violated) :
        /\ ended # {}
        /\ summary' = [summary EXCEPT !.violations = Append(@, ended)]
  BY DEF FinalizeFails
<1>3. /\ UNCHANGED <<summary.steps, summary.skippedVerification, summary.failedObservations,
                     summary.dispatchedActions, summary.generatorActions,
                     summary.skippedActions>>
      /\ summary'.violations = Append(summary.violations, ended)
      /\ summary.violations \in Seq(SUBSET Props)
  BY <1>2 DEF TypeOK, SummaryType
<1>4. /\ HeldLines' = HeldLines /\ SentLines' = SentLines /\ StreakLines' = StreakLines
      /\ DrivenLines' = DrivenLines
      /\ \A r : SkippedLines(r)' = SkippedLines(r)
      /\ Reported' = Reported
  BY <1>1, SameLines
<1>5. StepFilled' /\ LinesNumbered' /\ StreakCounted'
  BY <1>1, <1>4 DEF AccountInv, StepFilled, LinesNumbered, StreakCounted, Iterating,
                    BeforeVerdict, Acting
<1>6. LinesCounted'
  BY <1>1, <1>3, <1>4 DEF AccountInv, LinesCounted
<1>7. ViolationsPlaced'
  <2>1. /\ \A i \in DOMAIN summary.violations : summary.violations[i] # {}
        /\ \A i, j \in DOMAIN trace :
             i # j => trace[i].violations \cap trace[j].violations = {}
    BY DEF AccountInv, ViolationsPlaced
  <2>2. ended \in SUBSET Props
    BY DEF TypeOK
  <2>3. \A i \in DOMAIN summary'.violations : summary'.violations[i] # {}
    BY <1>2, <1>3, <2>1, <2>2, SummaryGrows
  <2> QED BY <1>1, <2>1, <2>3 DEF ViolationsPlaced
<1> QED BY <1>5, <1>6, <1>7 DEF AccountInv

LEMMA AccountStep == TypeOK /\ AccountInv /\ [Next]_vars => AccountInv'
<1> SUFFICES ASSUME TypeOK, AccountInv, [Next]_vars PROVE AccountInv'
  OBVIOUS
<1> USE DEF loopVars, deviceVars, historyVars
<1>1. CASE UNCHANGED vars \/ Device
  BY <1>1, QuietAccount DEF vars, Device, FrontChanges, BudgetElapses, Cancel
<1>2. CASE GateOpens \/ GatePolls
  <2>1. UNCHANGED <<trace, summary, consecutiveApplyFailures, violated, stepIndex, step>>
    BY <1>2 DEF GateOpens, GatePolls, ForegroundReached, Poll
  <2>2. pc' = pc \/ (pc = "gate" /\ pc' = "top")
    BY <1>2 DEF GateOpens, GatePolls, ForegroundReached, Poll
  <2>3. UNCHANGED <<step.held, step.onset, step.chosen, step.reason>>
    BY <2>1
  <2> QED BY <2>1, <2>2, <2>3, QuietAccount
<1>3. CASE GateFails
  BY <1>3, GateFailsAccount
<1>4. CASE StartStep
  BY <1>4, StartStepAccount
<1>5. CASE LoopEnds \/ AbortStep
  BY <1>5, QuietAccount DEF LoopEnds, AbortStep
<1>6. CASE Guard
  <2>1. pc \in BeforeVerdict /\ pc' \in BeforeVerdict
    BY <1>6 DEF BeforeVerdict, Guard, GuardIntact, GuardRelaunches, GuardReached, GuardPolls,
                GuardFails, GuardFindsOverlay, DismissOverlay, ForegroundReached, Poll
  <2>2. UNCHANGED <<trace, summary, consecutiveApplyFailures, violated, stepIndex>>
    BY <1>6 DEF Guard, GuardIntact, GuardRelaunches, GuardReached, GuardPolls, GuardFails,
                GuardFindsOverlay, DismissOverlay, ForegroundReached, Poll
  <2>3. UNCHANGED <<step.held, step.onset, step.chosen, step.reason>>
    <3>1. CASE UNCHANGED step
      BY <3>1
    <3>2. CASE GuardFails
      BY <3>2 DEF GuardFails, TypeOK, StepType
    <3> QED BY <1>6, <3>1, <3>2
            DEF Guard, GuardIntact, GuardRelaunches, GuardReached, GuardPolls,
                GuardFindsOverlay, DismissOverlay, ForegroundReached, Poll
  <2> QED BY <2>1, <2>2, <2>3, QuietAccount
<1>7. CASE Observe \/ Verify
  BY <1>7, ObserveAccount, VerifyAccount
<1>8. CASE Choose \/ Apply
  BY <1>8, ChooseAccount, ApplyAccount
<1>9. CASE Record \/ Finalize \/ FinalizeFails
  BY <1>9, RecordAccount, FinalizeAccount, FinalizeFailsAccount
<1> QED BY <1>1, <1>2, <1>3, <1>4, <1>5, <1>6, <1>7, <1>8, <1>9 DEF Next, Loop, Gate

\* The account is kept at every place of the loop, for every spec, every bound on the
\* steps and every length of the streak.
THEOREM AccountKept == Spec => [](TypeOK /\ AccountInv)
<1>1. Init => TypeOK /\ AccountInv
  BY TypeInit, AccountInit
<1>2. TypeOK /\ AccountInv /\ [Next]_vars => (TypeOK /\ AccountInv)'
  BY TypeStep, AccountStep
<1> QED BY <1>1, <1>2, PTL DEF Spec

\* The failure streak that ends a run is the count of apply errors on its trace since
\* the last action that reached the app.
THEOREM StreakIsOnTheTrace == Spec => []StreakMatchesTrace
<1>1. TypeOK /\ AccountInv => StreakMatchesTrace
  BY DEF AccountInv, StreakCounted, StreakMatchesTrace
<1> QED BY <1>1, AccountKept, PTL

\* The lines of the steps are all the lines up to the step index.
LEMMA RealLinesCounted ==
  ASSUME TypeOK, LinesNumbered, pc \in {"top", "finalize", "ended"}
  PROVE  /\ 1..stepIndex \subseteq DOMAIN trace
         /\ RealLines = 1..stepIndex /\ Cardinality(RealLines) = stepIndex
<1>1. \A i \in DOMAIN trace : trace[i].index = i
  BY DEF LinesNumbered
<1>2. Len(trace) = stepIndex \/ Len(trace) = stepIndex + 1
  BY DEF LinesNumbered
<1>3. stepIndex \in Nat
  BY DEF TypeOK
<1>4. 1..stepIndex \subseteq DOMAIN trace
  <2>1. stepIndex <= Len(trace) /\ Len(trace) \in Nat
    BY <1>2, <1>3
  <2>2. DOMAIN trace = 1..Len(trace)
    BY LinesFinite DEF TypeOK
  <2> QED BY <1>3, <2>1, <2>2
<1>5. RealLines = 1..stepIndex
  <2>1. DOMAIN trace \subseteq Nat \ {0}
    BY LinesFinite DEF TypeOK
  <2> QED BY <1>1, <1>3, <1>4, <2>1 DEF RealLines
<1>6. Cardinality(1..stepIndex) = stepIndex
  <2>1. Cardinality(1..stepIndex) = IF 1 > stepIndex THEN 0 ELSE stepIndex - 1 + 1
    BY <1>3, FS_Interval
  <2> QED BY <1>3, <2>1
<1> QED BY <1>4, <1>5, <1>6

\* The counters the exit status is decided on are the counts of the trace's lines, and
\* every violation is on one line and in the summary.
THEOREM SummaryIsAnAccount == Spec => []SummaryMatchesTrace
<1>1. TypeOK /\ AccountInv => SummaryMatchesTrace
  <2> SUFFICES ASSUME TypeOK, AccountInv PROVE SummaryMatchesTrace
    OBVIOUS
  <2>1. ViolationsReportedOnce
    <3>1. pc \in {"top", "ended"} => step.onset = {}
      BY DEF AccountInv, StepFilled, Acting
    <3> QED BY <3>1 DEF AccountInv, ViolationsPlaced, ViolationsReportedOnce
  <2>2. ASSUME pc \in {"top", "finalize", "ended"}
        PROVE  /\ summary.steps = Cardinality(RealLines)
               /\ summary.skippedVerification = Cardinality(HeldLines)
               /\ \A i, j \in DOMAIN trace : i < j => trace[i].index < trace[j].index
    <3>1. summary.steps = stepIndex /\ \A i \in DOMAIN trace : trace[i].index = i
      BY <2>2 DEF AccountInv, LinesNumbered
    <3>2. summary.skippedVerification = Cardinality(HeldLines)
      BY <2>2 DEF AccountInv, LinesCounted
    <3> QED BY <2>2, <3>1, <3>2, RealLinesCounted DEF AccountInv
  <2> QED BY <2>1, <2>2 DEF AccountInv, LinesCounted, SummaryMatchesTrace
<1> QED BY <1>1, AccountKept, PTL

\* A run that exits clean judged a step, had the generator drive the app or holds a verdict, and with
\* --exit-on-violation holds none.
THEOREM CleanExitsEarned == Spec => []CleanExitIsEarned
<1>1. TypeOK /\ AccountInv => CleanExitIsEarned
  <2> SUFFICES ASSUME TypeOK, AccountInv, pc = "ended", RunOutcome = "clean", summary.steps > 0
               PROVE  /\ \E i \in DOMAIN trace : trace[i].index \in StepIds /\ ~trace[i].held
                      /\ AllowNoGeneratorActions \/ violated # {} \/ DrivenLines # {}
                      /\ StopOnViolation => violated = {}
    BY DEF CleanExitIsEarned
  <2>1. /\ summary.steps = stepIndex /\ stepIndex \in 1..MaxSteps /\ MaxSteps \in Nat
        /\ \A i \in DOMAIN trace : trace[i].index = i
        /\ \A i \in HeldLines : i <= stepIndex
    BY AssumptionsHold DEF AccountInv, LinesNumbered, TypeOK, Assumptions
  <2>2. /\ summary.skippedVerification = Cardinality(HeldLines)
        /\ summary.generatorActions = Cardinality(DrivenLines)
    <3>1. Cardinality(HeldLines) \in Nat
      BY CountsTyped DEF TypeOK
    <3> QED BY <3>1 DEF AccountInv, LinesCounted, TypeOK, SummaryType
  <2>3. violated = UNION { summary.violations[i] : i \in DOMAIN summary.violations }
    BY DEF AccountInv, ViolationsPlaced, StepFilled, Acting
  <2>4. /\ ~VacuousRun /\ ~ViolationsFail
        /\ \/ AllowNoGeneratorActions \/ summary.violations # <<>>
           \/ summary.generatorActions # 0
    BY DEF RunOutcome, ActionsThatCount
  <2>5. \E i \in DOMAIN trace : trace[i].index \in StepIds /\ ~trace[i].held
    <3>1. 1..stepIndex \subseteq DOMAIN trace /\ Cardinality(1..stepIndex) = stepIndex
      BY RealLinesCounted DEF AccountInv
    <3>2. HeldLines # 1..stepIndex
      BY <2>1, <2>2, <2>4, <3>1 DEF VacuousRun
    <3>3. HeldLines \subseteq 1..stepIndex
      BY <2>1, LinesFinite DEF TypeOK, HeldLines
    <3>4. PICK i \in 1..stepIndex : i \notin HeldLines
      BY <3>2, <3>3
    <3>5. i \in DOMAIN trace /\ ~trace[i].held
      BY <3>1, <3>4 DEF HeldLines
    <3>6. trace[i].index = i /\ i \in StepIds
      BY <2>1, <3>5 DEF StepIds
    <3> QED BY <3>5, <3>6
  <2>6. CASE summary.generatorActions # 0
    <3>1. Cardinality(DrivenLines) # 0
      BY <2>2, <2>6
    <3>2. DrivenLines # {}
      BY <3>1, FS_EmptySet
    <3>3. StopOnViolation => violated = {}
      BY <2>3, <2>4 DEF ViolationsFail
    <3> QED BY <2>5, <3>2, <3>3
  <2>7. CASE summary.violations # <<>>
    <3>1. /\ summary.violations \in Seq(SUBSET Props)
          /\ \A i \in DOMAIN summary.violations : summary.violations[i] # {}
      BY DEF AccountInv, ViolationsPlaced, TypeOK, SummaryType
    <3>2. 1 \in DOMAIN summary.violations
      BY <2>7, <3>1
    <3>3. violated # {}
      BY <2>3, <3>1, <3>2
    <3> QED BY <2>4, <2>5, <2>7, <3>3 DEF ViolationsFail
  <2>8. CASE AllowNoGeneratorActions
    <3>1. StopOnViolation => violated = {}
      BY <2>3, <2>4 DEF ViolationsFail
    <3> QED BY <2>5, <2>8, <3>1
  <2> QED BY <2>4, <2>6, <2>7, <2>8
<1> QED BY <1>1, AccountKept, PTL

=============================================================================
