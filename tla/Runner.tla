------------------------------- MODULE Runner -------------------------------
(***************************************************************************)
(* The step loop of a run: runner.Run in internal/runner/runner.go.        *)
(*                                                                         *)
(* The loop is one goroutine; what interleaves with it is the device (the  *)
(* app leaves the foreground or comes back, a system window opens over it),*)
(* the clock of the foreground budget, and the cancellation of the run's   *)
(* context.  pc names the place in the loop body between two of which the  *)
(* device can move.  The trees, logs, metrics and screenshots a step reads *)
(* are abstracted to the one bit the loop branches on: whether the verifier*)
(* may look at them.                                                       *)
(***************************************************************************)
EXTENDS Naturals, Sequences, FiniteSets

CONSTANTS
  Props,                        \* the properties of the loaded spec
  MaxSteps,                     \* options.MaxSteps, the bound on stepIndex
  MaxConsecutiveApplyFailures,  \* maxConsecutiveApplyFailures
  StopOnViolation,              \* options.StopOnViolation (--exit-on-violation)
  AllowNoGeneratorActions,      \* testrun's flag of that name
  Kinds                         \* the ways of dispatching an action that occur

ASSUME PropsAssumption == IsFiniteSet(Props)
ASSUME StepsAssumption == MaxSteps \in Nat \ {0}
ASSUME FailuresAssumption == MaxConsecutiveApplyFailures \in Nat \ {0}
ASSUME FlagsAssumption ==
  StopOnViolation \in BOOLEAN /\ AllowNoGeneratorActions \in BOOLEAN

\* What the device shows: the app resumed and focused, the app resumed under
\* another window (a shade, or its own window not drawn yet), or another app.
Fronts == {"app", "covered", "other"}

\* The driver calls each kind of action is made of, in order.  A "point" call
\* carries coordinates, a "selector" call has the driver resolve one, "input"
\* is typing, erasing or a key.  A wait makes none.
Calls == [ tap               |-> <<"point">>,
           tapSelector       |-> <<"selector">>,
           doubleTapSelector |-> <<"selector", "selector">>,
           inputText         |-> <<"point", "input", "input">>,
           inputTextSelector |-> <<"selector", "input">>,
           pressKey          |-> <<"input">>,
           wait              |-> <<>> ]

\* The chosen actions no driver call exists for, with the reason recorded.
NotDispatched == [ longPressUnresolved |-> "unresolved_selector",
                   pressNoKey          |-> "missing_key",
                   waitZero            |-> "zero_duration_wait" ]

ASSUME KindsAssumption == Kinds \subseteq (DOMAIN Calls \cup DOMAIN NotDispatched)

ErrorReasons == {"apply_error", "apply_timeout"}
Reasons == ErrorReasons \cup
  { "app_left_foreground", "unresolved_selector", "missing_key",
    "zero_duration_wait", "gesture_undelivered", "no_action_produced" }
Sources == {"setup", "seeded"}

\* lastAction as the next verified step will be told it; id 0 is the nil pointer
\* and otherwise the index of the step that chose the action.
NoAction == [id |-> 0, applied |-> FALSE, relaunched |-> FALSE]
Action(id, applied) == [id |-> id, applied |-> applied, relaunched |-> FALSE]

\* The report of an action whose call failed: it may have reached the app.
UnconfirmedForgotten(id) == NoAction
Unconfirmed(id) == Action(id, FALSE)

\* The report of an action the app was relaunched after; the nil pointer stays nil.
RelaunchUnmarked(action) == action
Relaunched(action) == IF action.id = 0 THEN action ELSE [action EXCEPT !.relaunched = TRUE]

\* The locals of one iteration of the loop body.
NoStep == [ inScope |-> TRUE, held |-> FALSE, onset |-> {}, chosen |-> FALSE,
            source |-> "seeded", calls |-> <<>>, reason |-> "" ]

ZeroSummary == [ steps |-> 0, violations |-> <<>>, skippedVerification |-> 0,
                 failedObservations |-> 0, dispatchedActions |-> 0,
                 generatorActions |-> 0, skippedActions |-> [r \in Reasons |-> 0] ]

VARIABLES
  pc, stepIndex, lastAction, consecutiveApplyFailures, summary, step,
  trace,        \* the lines of trace.jsonl, one per WriteStep
  violated,     \* the verifier's priorVerdicts, as the set of violated ones
  front,        \* what the device shows
  budgetSpent,  \* foregroundReadyBudget has elapsed in awaitForeground
  cancelled,    \* ctx.Err() # nil
  landed,       \* history: steps whose action reached the app and whose effect
                \* no verified step has read yet
  told,         \* history: steps whose action a verified step was told of
  relaunched    \* history: the app was relaunched since the last verified step

loopVars == <<stepIndex, lastAction, consecutiveApplyFailures, summary, trace>>
deviceVars == <<front, budgetSpent, cancelled>>
historyVars == <<landed, told, relaunched>>
vars == <<pc, step, violated, loopVars, deviceVars, historyVars>>

\* The line of a step.  Its source, the producer of the action, is kept for an action
\* that was dispatched.
Chosen(s) == s.chosen
Dispatched(s) == s.chosen /\ s.reason = ""

Line(index, s, violations) ==
  [ index |-> index, inScope |-> s.inScope, held |-> s.held, chosen |-> s.chosen,
    source |-> IF Dispatched(s) THEN s.source ELSE "", skipped |-> s.reason,
    violations |-> violations ]

Init ==
  /\ pc = "gate"
  /\ stepIndex = 0
  /\ lastAction = NoAction
  /\ consecutiveApplyFailures = 0
  /\ summary = ZeroSummary
  /\ step = NoStep
  /\ trace = <<>>
  /\ violated = {}
  /\ front \in Fronts
  /\ budgetSpent = FALSE
  /\ cancelled = FALSE
  /\ landed = {}
  /\ told = {}
  /\ relaunched = FALSE

----------------------------------------------------------------------------
(* awaitForeground, which the startup gate and the per-step guard share.   *)

\* The app is on screen, or nothing can say that it is not: a read failed, the
\* foreground is unknown, or the run is ending.
ForegroundReached(next) ==
  /\ pc' = next
  /\ UNCHANGED <<step, violated, loopVars, deviceVars, historyVars>>

\* The clock of the gate: every poll reads it before it waits.
BudgetNeverEnds == TRUE
BudgetLeft == ~budgetSpent

\* One poll of a gate whose app is resumed but not focused: it only waits.  With
\* another app resumed it presses back and launches, and either may fail.
Poll ==
  /\ ~cancelled /\ BudgetLeft /\ front # "app"
  /\ IF front = "covered" THEN UNCHANGED <<front, relaunched>>
     ELSE /\ front' \in Fronts
          /\ relaunched' \in {relaunched, TRUE}
  /\ UNCHANGED <<pc, step, violated, loopVars, budgetSpent, cancelled, landed, told>>

\* The budget ran out with the app confirmed absent.
BudgetRanOut == ~cancelled /\ budgetSpent /\ front # "app"

GateOpens == pc = "gate" /\ ForegroundReached("top")
GatePolls == pc = "gate" /\ Poll

\* recordPreconditionFailure: the run never started and the trace says why.
GateFails ==
  /\ pc = "gate" /\ BudgetRanOut
  /\ trace' = Append(trace, Line(0, [NoStep EXCEPT !.inScope = FALSE], {}))
  /\ pc' = "failed"
  /\ UNCHANGED <<step, violated, stepIndex, lastAction, consecutiveApplyFailures,
                 summary, deviceVars, historyVars>>

----------------------------------------------------------------------------
(* One iteration of the loop.                                              *)

\* The loop condition holds: not past the deadline, not cancelled, under MaxSteps.
OneStepTooMany == stepIndex <= MaxSteps
MoreSteps == stepIndex < MaxSteps

StartStep ==
  /\ pc = "top" /\ ~cancelled /\ MoreSteps
  /\ stepIndex' = stepIndex + 1
  /\ budgetSpent' = FALSE
  /\ pc' = "guard"
  /\ UNCHANGED <<step, violated, lastAction, consecutiveApplyFailures, summary,
                 trace, front, cancelled, historyVars>>

\* The deadline may have passed at any iteration.
LoopEnds ==
  /\ pc = "top"
  /\ pc' = "finalize"
  /\ UNCHANGED <<step, violated, loopVars, deviceVars, historyVars>>

\* ensureForeground finds the app in front, or cannot read what is.
GuardIntact ==
  /\ pc = "guard"
  /\ pc' = "observe"
  /\ UNCHANGED <<step, violated, loopVars, deviceVars, historyVars>>

\* Another app is in front.  The relaunch is reported on the action it followed.
GuardRelaunches ==
  /\ pc = "guard" /\ front = "other"
  /\ lastAction' = Relaunched(lastAction)
  /\ pc' = "bringForward"
  /\ UNCHANGED <<step, violated, stepIndex, consecutiveApplyFailures, summary, trace,
                 deviceVars, historyVars>>

GuardReached == pc = "bringForward" /\ ForegroundReached("observe")
GuardPolls == pc = "bringForward" /\ Poll

\* The guard could not bring the app back: the step goes on, out of scope.
GuardFails ==
  /\ pc = "bringForward" /\ BudgetRanOut
  /\ step' = [step EXCEPT !.inScope = FALSE]
  /\ pc' = "observe"
  /\ UNCHANGED <<violated, loopVars, deviceVars, historyVars>>

\* A system window owns the focus: whether the app got the action is unknown.
GuardFindsOverlay ==
  /\ pc = "guard" /\ front = "covered"
  /\ lastAction' = [lastAction EXCEPT !.applied = FALSE]
  /\ pc' = "dismiss"
  /\ UNCHANGED <<step, violated, stepIndex, consecutiveApplyFailures, summary, trace,
                 deviceVars, historyVars>>

\* Back collapses the window, fails, or, when the window has closed by itself,
\* is the app's to handle and can exit it from its root screen.
DismissOverlay ==
  /\ pc = "dismiss"
  /\ front' \in CASE front = "covered" -> {"covered", "app"}
                  [] front = "app"     -> {"app", "other"}
                  [] front = "other"   -> {"other"}
  /\ pc' = "observe"
  /\ UNCHANGED <<step, violated, loopVars, budgetSpent, cancelled, historyVars>>

\* A held step chooses no action: it goes straight to its trace line.
ActOnMovingScreen == "choose"
AfterHold == "record"

\* The concurrent reads.  A tree that is transitional, empty or absent holds the
\* step; a read error also counts as a failed observation.
Observe ==
  /\ pc = "observe"
  /\ \/ /\ pc' = "verify"
        /\ UNCHANGED <<step, summary>>
     \/ \E failed \in BOOLEAN :
          /\ step' = [step EXCEPT !.held = TRUE]
          /\ summary' = [summary EXCEPT
               !.skippedVerification = @ + 1,
               !.failedObservations = IF failed THEN @ + 1 ELSE @]
          /\ pc' = AfterHold
  /\ UNCHANGED <<violated, stepIndex, lastAction, consecutiveApplyFailures, trace,
                 deviceVars, historyVars>>

\* PushSnapshot, EvaluateProperties and NewlyViolatedProperties.  Which of the
\* properties not violated so far violate now is the evaluators' business (see
\* Ltl); a violated verdict is final.
OnsetUnfiltered(verdicts) == verdicts
Onset(verdicts) == verdicts \ violated

Verify ==
  /\ pc = "verify"
  /\ \E verdicts \in SUBSET Props :
       /\ violated \subseteq verdicts
       /\ step' = [step EXCEPT !.onset = Onset(verdicts)]
       /\ violated' = verdicts
  /\ told' = told \cup ({lastAction.id} \ {0})
  /\ landed' = {}
  /\ relaunched' = FALSE
  /\ pc' = "choose"
  /\ UNCHANGED <<loopVars, deviceVars>>

\* A returned error: the permanent loss of the iOS runner, page values that do not
\* fit the bundle, an action source that fails, an apply error of a cancelled run or
\* one that fills the failure streak, a trace write.
AbortStep ==
  /\ pc \in {"observe", "verify", "choose", "apply", "record"}
  /\ pc' = "failed"
  /\ UNCHANGED <<step, violated, loopVars, deviceVars, historyVars>>

\* What a step leaves to report when it takes its action to have reached nothing.
Unsent == NoAction

Skip(reason, chosen) ==
  /\ step' = [step EXCEPT !.reason = reason, !.chosen = chosen, !.calls = <<>>]
  /\ lastAction' = Unsent
  /\ pc' = "record"
  /\ UNCHANGED <<violated, stepIndex, consecutiveApplyFailures, summary, trace,
                 deviceVars, historyVars>>

NoActionProduced == pc = "choose" /\ Skip("no_action_produced", FALSE)

\* appIsForeground, read after the action was chosen.
AppLeftForeground == pc = "choose" /\ front # "app" /\ Skip("app_left_foreground", TRUE)

NothingToDispatch ==
  /\ pc = "choose"
  /\ \E kind \in Kinds \cap DOMAIN NotDispatched : Skip(NotDispatched[kind], TRUE)

Dispatch ==
  /\ pc = "choose"
  /\ \E kind \in Kinds \cap DOMAIN Calls, source \in Sources :
       step' = [step EXCEPT !.chosen = TRUE, !.source = source, !.calls = Calls[kind]]
  /\ pc' = "apply"
  /\ UNCHANGED <<violated, loopVars, deviceVars, historyVars>>

\* One driver call of the action answers that it succeeded.
CallSucceeds ==
  /\ pc = "apply" /\ step.calls # <<>>
  /\ step' = [step EXCEPT !.calls = Tail(@)]
  /\ landed' = landed \cup {stepIndex}
  /\ UNCHANGED <<pc, violated, loopVars, deviceVars, told, relaunched>>

\* ErrGestureUndelivered and ErrSelectorMatchedNothing: this call landed on
\* nothing, and the runner takes the whole action to have.
CallUndelivered ==
  /\ pc = "apply" /\ step.calls # <<>>
  /\ \/ Head(step.calls) \in {"point", "selector"} /\ Skip("gesture_undelivered", TRUE)
     \/ Head(step.calls) = "selector" /\ Skip("unresolved_selector", TRUE)

\* Any other error of a call, its deadline included: whether the call reached the
\* app is unknown, so the action is reported with its fate unknown.
ApplyError ==
  /\ pc = "apply" /\ step.calls # <<>>
  /\ ~cancelled /\ consecutiveApplyFailures + 1 < MaxConsecutiveApplyFailures
  /\ consecutiveApplyFailures' = consecutiveApplyFailures + 1
  /\ \E reason \in ErrorReasons :
       step' = [step EXCEPT !.reason = reason, !.calls = <<>>]
  /\ lastAction' = Unconfirmed(stepIndex)
  /\ landed' \in {landed, landed \cup {stepIndex}}
  /\ pc' = "record"
  /\ UNCHANGED <<violated, stepIndex, summary, trace, deviceVars, told, relaunched>>

\* Every call of the action succeeded.
StreakKept == consecutiveApplyFailures
StreakBroken == 0

Applied ==
  /\ pc = "apply" /\ step.calls = <<>>
  /\ consecutiveApplyFailures' = StreakBroken
  /\ lastAction' = Action(stepIndex, TRUE)
  /\ pc' = "record"
  /\ UNCHANGED <<step, violated, stepIndex, summary, trace, deviceVars, historyVars>>

\* WriteStep, the counters of the summary, and the idle wait that ends the step.
StopsRun == step.onset # {} /\ StopOnViolation

Record ==
  /\ pc = "record"
  /\ trace' = Append(trace, Line(stepIndex, step, step.onset))
  /\ summary' = [summary EXCEPT
       !.skippedActions = [r \in Reasons |-> IF r = step.reason THEN @[r] + 1 ELSE @[r]],
       !.dispatchedActions = IF Dispatched(step) THEN @ + 1 ELSE @,
       !.generatorActions = IF Dispatched(step) /\ step.source = "seeded" THEN @ + 1 ELSE @,
       !.steps = stepIndex,
       !.violations = IF step.onset = {} THEN @ ELSE Append(@, step.onset)]
  /\ pc' = IF StopsRun THEN "finalize" ELSE "top"
  /\ step' = NoStep
  /\ UNCHANGED <<violated, stepIndex, lastAction, consecutiveApplyFailures, deviceVars,
                 historyVars>>

\* Verifier.Finalize: obligations that never discharged violate at the end, on a
\* synthetic line with an index of its own.  An evaluator that observed nothing has no
\* obligation pending.
FinalIndex == stepIndex + 1

Observed == \E i \in DOMAIN trace : ~trace[i].held

Finalize ==
  /\ pc = "finalize"
  /\ \E ended \in SUBSET (Props \ violated) :
       /\ ended = {} \/ Observed
       /\ violated' = violated \cup ended
       /\ IF ended = {} THEN UNCHANGED <<trace, summary>>
          ELSE /\ trace' = Append(trace, Line(FinalIndex, NoStep, ended))
               /\ summary' = [summary EXCEPT !.violations = Append(@, ended)]
  /\ pc' = "ended"
  /\ UNCHANGED <<step, stepIndex, lastAction, consecutiveApplyFailures, deviceVars,
                 historyVars>>

\* Writing the synthetic line fails: what ended violated is in the summary alone.
FinalizeFails ==
  /\ pc = "finalize" /\ Observed
  /\ \E ended \in (SUBSET (Props \ violated)) \ {{}} :
       /\ violated' = violated \cup ended
       /\ summary' = [summary EXCEPT !.violations = Append(@, ended)]
  /\ pc' = "failed"
  /\ UNCHANGED <<step, stepIndex, lastAction, consecutiveApplyFailures, trace, deviceVars,
                 historyVars>>

\* The run returned; testrun.runOutcome turns its summary into the exit.
FailedObservationsOnly ==
  summary.steps > 0 /\ summary.failedObservations = summary.steps
VacuousRun == summary.steps > 0 /\ summary.skippedVerification = summary.steps

ViolationsFail == StopOnViolation /\ summary.violations # <<>>

\* The actions that count against a generator with nothing to offer: its own, and not
\* those the spec's setup drives the app with before the generator is asked.
ActionsOfAnySource == summary.dispatchedActions
ActionsThatCount == summary.generatorActions

RunOutcome ==
  IF VacuousRun THEN "vacuous"
  ELSE IF ViolationsFail THEN "violations"
  ELSE IF /\ ~AllowNoGeneratorActions /\ summary.violations = <<>>
          /\ summary.steps > 0 /\ ActionsThatCount = 0
       THEN "no_generator_actions"
  ELSE "clean"

----------------------------------------------------------------------------
(* The device, the clock and the user.                                     *)

Running == pc \notin {"ended", "failed"}

FrontChanges ==
  /\ Running
  /\ front' \in Fronts \ {front}
  /\ UNCHANGED <<pc, step, violated, loopVars, budgetSpent, cancelled, historyVars>>

BudgetElapses ==
  /\ pc \in {"gate", "bringForward"} /\ ~budgetSpent
  /\ budgetSpent' = TRUE
  /\ UNCHANGED <<pc, step, violated, loopVars, front, cancelled, historyVars>>

Cancel ==
  /\ Running /\ ~cancelled
  /\ cancelled' = TRUE
  /\ UNCHANGED <<pc, step, violated, loopVars, front, budgetSpent, historyVars>>

Gate == GateOpens \/ GatePolls \/ GateFails
Guard ==
  \/ GuardIntact \/ GuardRelaunches \/ GuardReached \/ GuardPolls \/ GuardFails
  \/ GuardFindsOverlay \/ DismissOverlay
Choose == NoActionProduced \/ AppLeftForeground \/ NothingToDispatch \/ Dispatch
Apply == CallSucceeds \/ CallUndelivered \/ ApplyError \/ Applied
Loop ==
  \/ Gate \/ StartStep \/ LoopEnds \/ Guard \/ Observe \/ Verify \/ Choose \/ Apply
  \/ Record \/ AbortStep \/ Finalize \/ FinalizeFails
Device == FrontChanges \/ BudgetElapses \/ Cancel

Next == Loop \/ Device

\* The loop's calls return within their timeouts and the budget is wall-clock.
Fairness == WF_vars(Loop) /\ WF_vars(BudgetElapses)

Spec == Init /\ [][Next]_vars
FairSpec == Spec /\ Fairness

----------------------------------------------------------------------------
(* Properties.                                                             *)

StepIds == 1..MaxSteps
Places == { "gate", "top", "guard", "bringForward", "dismiss", "observe", "verify",
            "choose", "apply", "record", "finalize", "ended", "failed" }

ActionType == [id : 0..MaxSteps, applied : BOOLEAN, relaunched : BOOLEAN]
StepType == [ inScope : BOOLEAN, held : BOOLEAN, onset : SUBSET Props, chosen : BOOLEAN,
              source : Sources, calls : Seq({"point", "selector", "input"}),
              reason : Reasons \cup {""} ]
LineType == [ index : Nat, inScope : BOOLEAN, held : BOOLEAN, chosen : BOOLEAN,
              source : Sources \cup {""}, skipped : Reasons \cup {""}, violations : SUBSET Props ]
SummaryType == [ steps : Nat, violations : Seq(SUBSET Props), skippedVerification : Nat,
                 failedObservations : Nat, dispatchedActions : Nat,
                 generatorActions : Nat, skippedActions : [Reasons -> Nat] ]

\* Every variable of the loop holds a value of its Go type, and the step index
\* stays within options.MaxSteps.
TypeOK ==
  /\ pc \in Places
  /\ stepIndex \in 0..MaxSteps
  /\ lastAction \in ActionType
  /\ consecutiveApplyFailures \in Nat
  /\ summary \in SummaryType
  /\ step \in StepType
  /\ trace \in Seq(LineType)
  /\ violated \subseteq Props
  /\ front \in Fronts
  /\ budgetSpent \in BOOLEAN
  /\ cancelled \in BOOLEAN
  /\ landed \subseteq 0..MaxSteps
  /\ told \subseteq StepIds
  /\ relaunched \in BOOLEAN

\* The places of the loop at which the next reading of the verifier is ahead and
\* lastAction is what it will be told.
BeforeReading == {"gate", "top", "guard", "bringForward", "dismiss", "observe", "verify"}

\* An effect the verifier has not read yet is the effect of the action the next
\* reading will be told of: a property is never shown a change without its cause, nor
\* the same cause twice (runner.go:158-162, 332-346, 443-449).
EffectHasCause ==
  /\ pc \in BeforeReading => landed \subseteq {lastAction.id}
  /\ pc = "verify" => lastAction.id \notin told

\* The action carried to the next reading is only replaced once a reading was told
\* of it: holding steps back swallows none (runner.go:332-346).
NoActionSwallowed ==
  [][lastAction'.id # lastAction.id => lastAction.id \in told \cup {0}]_vars

\* A reading that is told of an action is told when the app was brought back in
\* between, over any number of held steps (runner.go:163-174, types.go:45-50).
RelaunchIsReported ==
  pc = "verify" /\ relaunched /\ lastAction.id # 0 => lastAction.relaunched

\* The runner implements the ledger of effects and reports.
Ledger == INSTANCE ActionLedger WITH Ids <- StepIds, unread <- landed, named <- told
LedgerSpec == Ledger!Spec

\* The lines of the trace by what they record: a step of the loop, a step held back, an
\* action that was dispatched, one the generator chose of those, one skipped for a reason,
\* and the apply errors no dispatched action has followed.
RealLines == { i \in DOMAIN trace : trace[i].index <= stepIndex }
HeldLines == { i \in DOMAIN trace : trace[i].held }
SentLines == { i \in DOMAIN trace : trace[i].chosen /\ trace[i].skipped = "" }
DrivenLines == { i \in SentLines : trace[i].source = "seeded" }
SkippedLines(reason) == { i \in DOMAIN trace : trace[i].skipped = reason }
StreakLines ==
  { i \in DOMAIN trace :
      trace[i].skipped \in ErrorReasons /\ \A j \in SentLines : j < i }

Reported == UNION { trace[i].violations : i \in DOMAIN trace }

\* A part of SummaryMatchesTrace: no property is reported on two lines of a trace, and a
\* run that ended normally has reported every property the verifier holds violated, in
\* the trace and in the summary (worker.go:727-732, runner.go:543-562).
ViolationsReportedOnce ==
  /\ \A i, j \in DOMAIN trace : i # j => trace[i].violations \cap trace[j].violations = {}
  /\ pc \in {"top", "ended"} => violated = Reported
  /\ pc = "ended" =>
       violated = UNION { summary.violations[i] : i \in DOMAIN summary.violations }

\* Between two steps the summary is an account of the trace: every line is a
\* dispatched action, an action skipped for one reason, or a held step, the
\* counters the exit status is decided on are the counts of those lines, no two
\* lines share a step index, the synthetic last one included, and every violation is on
\* one line and in the summary (runner.go:543-562, worker.go:727-732).
SummaryMatchesTrace ==
  /\ ViolationsReportedOnce
  /\ pc \in {"top", "finalize", "ended"} =>
       /\ summary.steps = Cardinality(RealLines)
       /\ summary.skippedVerification = Cardinality(HeldLines)
       /\ summary.dispatchedActions = Cardinality(SentLines)
       /\ \A r \in Reasons : summary.skippedActions[r] = Cardinality(SkippedLines(r))
       /\ summary.generatorActions = Cardinality(DrivenLines)
       /\ summary.failedObservations <= summary.skippedVerification
       /\ \A i, j \in DOMAIN trace : i < j => trace[i].index < trace[j].index

\* consecutiveApplyFailures is the number of apply errors on the trace since the last
\* action that succeeded, and a run with a full streak does not go on: steps that
\* reached no device neither break nor extend it (runner.go:425-434, 450-462).
StreakMatchesTrace ==
  /\ consecutiveApplyFailures < MaxConsecutiveApplyFailures
  /\ pc = "top" => consecutiveApplyFailures = Cardinality(StreakLines)

\* A run of at least one step that exits clean judged one of them, had the generator, and
\* not the spec's setup alone, drive the app or holds a verdict, and under
\* --exit-on-violation nothing it judged is violated (testrun.go:272-309).
CleanExitIsEarned ==
  pc = "ended" /\ RunOutcome = "clean" /\ summary.steps > 0 =>
    /\ \E i \in DOMAIN trace : trace[i].index \in StepIds /\ ~trace[i].held
    /\ AllowNoGeneratorActions \/ violated # {} \/ DrivenLines # {}
    /\ StopOnViolation => violated = {}

\* A run ends: MaxSteps bounds the loop and the foreground budget every gate.
Termination == <>(pc \in {"ended", "failed"})

\* What the documentation says of the program; each is checked on its own.

\* A violation the verifier found is on the trace, however the run ended
\* (docs/manual/introduction.md:50).
NoVerdictLost == pc = "failed" => violated \subseteq Reported

\* An action the runner records as having reached nothing reached nothing
\* (runner.go:396-401, 408-412).
UnsentReachedNothing ==
  pc = "record" /\ step.reason \in {"gesture_undelivered", "unresolved_selector"} =>
    stepIndex \notin landed

\* A step the guard found out of scope is not judged (runner.go:153-156).
OutOfScopeNotJudged ==
  \A i \in DOMAIN trace : trace[i].inScope \/ trace[i].held \/ trace[i].index = 0
=============================================================================
