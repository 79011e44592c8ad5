# A specification of sanderling

sanderling drives a mobile or web app with generated actions, evaluates the
linear-temporal properties of a TypeScript spec after every step, and writes a
trace of the run. This directory holds TLA+ modules for the parts of it that
decide whether a verdict can be trusted, the TLC configurations that check
them, and proofs checked by TLAPS. All line numbers are those of the
repository beside it.

## The system

| part | state it keeps | operations | talks to |
|---|---|---|---|
| step loop, `internal/runner/runner.go` | step index, `lastAction`, failure streak, summary | gate, guard, observe, verify, choose, apply, record, finalize | every other part, one call at a time |
| LTL evaluator, `internal/ltl` | the pending obligations of one property, its verdict and witness | `ObserveAtStep`, `Finalize` | called by the verifier |
| verifier, `internal/verifier` | the JavaScript runtime, previous verdicts, extractors, snapshot | `PushSnapshot`, `EvaluateProperties`, `Finalize`, `NextAction` | step loop, evaluators, spec bundle |
| run pipeline, `internal/testrun` | the exit of a run | prepare, run, `runOutcome` | step loop, drivers |
| sidecar client, `internal/driver/sidecar` | a gRPC connection | one call per operation, `doubleTap` as two | step loop, Kotlin sidecar |
| iOS companion driver, `internal/driver/ioscompanion` | session, connection with its dirty flag and deadline, restart flag, last tap | operations with recovery, restart, typing, settling | step loop, Swift companion |
| Swift companion, `companion/Sources` | connections, one serial work queue | receive, serve, answer | iOS driver over a tunnel |
| Android sidecar, `sidecar/src/main/kotlin` | the launched bundle, a lock around snapshots | one RPC per operation, the shutdown hook | step loop over gRPC, the device over adb |
| driver lifecycle, `internal/testrun/driver.go` | the sidecar process and its exit status, the navigation mode to restore | spawn, health check, cancel, stop, reap | the sidecar, `Execute` |
| Chrome driver, `internal/driver/chrome` | a DevTools session, console entries, navigations, the picker's position | one call per operation, two event listeners | step loop, page |
| page runtime, `pkg/spec/src/web-runtime.ts`, `runtime-entry.ts` | captured exceptions, installed action and logs, the random stream | getters and setters called over CDP | Chrome driver, the app's page |
| trace writer, `internal/trace` | `trace.jsonl`, `meta.json`, screenshots | `WriteStep`, `WriteScreenshot`, close | step loop writes, replay reads |
| replay server, `internal/replay` | a cache of parsed runs, subscribers | open, list, watch, broadcast | trace files, replay page |
| replay page, `replay-ui/src` | the run and its history, or the run list | load a run and its steps, listen for changes | replay server |
| action sources, `internal/runner/source.go`, `llm_source.go` | a seeded generator; or the last pick, the memory of actions and one record per question | `NextAction` | verifier (`verifier/llm.go` lists the candidates), model server |
| spec library, `pkg/spec` | action trees, the random stream | pick, retry, setup precedence | runs inside the verifier or the page |
| command line, doctor, offline tools | none between two calls | flags, reports | all of the above |

What makes it hard:

- **Concurrency with the device.** The loop is one goroutine, but the app, a
  notification shade, a crash or a dialog moves between any two of its calls. A
  check of the foreground is old by the time its answer arrives.
- **Actions of unknown fate.** An apply may fail after the gesture was
  delivered. Properties that attribute an effect to an action
  (`state.lastAction`) are convicted or acquitted by what the runner then says.
- **Held steps.** A screen that is still moving is neither judged nor acted on,
  for any number of steps in a row; what one verified step leaves for the next
  has to survive all of them.
- **Verdicts computed incrementally.** The evaluator never looks back at past
  states: it rewrites residual formulas, merges equal ones and forgets decided
  ones, over observations whose labels and times have gaps.
- **Two processes and a page.** Evidence passes through a page that navigates, a
  sidecar that crashes, a keyboard that comes and goes and a file that is
  read while it is written; each keeps something the others rely on.
- **A run that proves nothing.** A run that judged no step or drove no action
  must not exit as a clean one.

What each component has to get right:

- *Step loop*: an effect is shown to the properties with its cause, once, and no
  action is lost (`EffectHasCause`, `NoActionSwallowed`, `LedgerSpec`); a relaunch
  in between is reported (`RelaunchIsReported`); the summary is an account of the
  trace, its lines are in order and violations are reported exactly once
  (`SummaryMatchesTrace`, which contains `ViolationsReportedOnce`, and
  `StreakMatchesTrace`); the loop stops (`Termination`).
- *Run pipeline*: a clean exit is earned by the generator's own actions, which the
  spec's setup cannot stand in for (`CleanExitIsEarned`).
- *Evaluator*: the verdict is what the observations decide, no earlier and no
  later (`VerdictIsTruth`, `FinalVerdictIsTruth`), the witness names the step
  that armed the failed obligation (`BlamesArmingStep`), and nothing is reduced
  out of normal form (`TypeOK` of `LtlReference`).
- *iOS session*: an answer is not taken for another request's (`AnswersInStep`),
  a process performs an operation once however it was retried
  (`DoneOncePerProcess`), an operation is asked of two sessions at most and a
  launch of four (`RetriedOnce`), and every operation returns (`OperationsReturn`).
- *iOS simulator*: an InputText that succeeds replaced the field's content, over
  two channels that can drop (`InputReplaces`), and of two runs on one simulator only
  the one that holds it has children there and each talks to its own runner
  (`OneRunDrives`).
- *Replay*: a run that is handed out is as new as its files, and whole when it
  ended (`MissesOnlyUnfinishedLines`, which contains `EndedMeansComplete`;
  `CacheOnlyGrows`), server and page mark the same steps (`MarkersAgree`),
  and a viewer hears of changes and of the end (`ChangeReachesViewer`,
  `StreamsEnd`, `NoPanic`).
- *Web evidence*: a seed names one run (`DrawsFollowTheSeed`), log entries and
  navigations are not lost between windows (`EvidenceIsKept`), and page and host
  judge one action and one set of logs (`EnginesAgree`).
- *Android input*: where a text can end up other than in the field it is for, and
  what can be left of the old one (`TextGoesWhereMeant`), and when BACK can find no
  keyboard (`BackOnlyClosesKeyboard`).
- *Settling*: a tree read inside a cross-fade is not judged, and a layout that
  rests on two routes is (`VerifiedTreeIsSettled`).
- *Sidecar*: it does not outlive its run, nor does the app
  (`NothingLeftBehind`), and the run returns (`ExecuteReturns`).
- *Model's picks*: a step's record and its line tell one story
  (`RecordTellsTheStep`), the model is told the screen each of its actions led to
  (`MemoryTellsTheScreens`), and it is offered what the seeded picker could draw
  (`PoliciesShareOneSpace`).

## Modules

### `Runner`: the step loop

`pc` names the place in one iteration of `Run` between two of which the device
can move.

| `pc` | code, `runner.go` | actions |
|---|---|---|
| `gate` | `waitForForeground`, 108-123 | `GateOpens`, `GatePolls`, `GateFails` |
| `top` | loop head, 143-151 | `StartStep`, `LoopEnds` |
| `guard`, `bringForward`, `dismiss` | `ensureForeground`, `awaitForeground`, 153-174, 671-723, 832-913 | `GuardIntact`, `GuardRelaunches`, `GuardReached`, `GuardPolls`, `GuardFails`, `GuardFindsOverlay`, `DismissOverlay` |
| `observe` | the concurrent reads, 176-239 | `Observe` |
| `verify` | `PushSnapshot`, `EvaluateProperties`, 256-325 | `Verify` |
| `choose` | `NextAction`, `appIsForeground`, 353-394 | `NoActionProduced`, `AppLeftForeground`, `NothingToDispatch`, `Dispatch` |
| `apply` | `applyAction` and its errors, 391-467 | `CallSucceeds`, `CallUndelivered`, `ApplyError`, `Applied` |
| `record` | `WriteStep` and the summary, 474-541 | `Record` |
| `finalize` | `Verifier.Finalize`, 543-567 | `Finalize`, `FinalizeFails` |
| `failed`, `ended` | an error returned, the summary returned | - |

`AbortStep` stands for every `return summary, err` of the body. The device is
`FrontChanges`, the clock of the gate `BudgetElapses`, the user `Cancel`.

The program's variables keep their names. `lastAction` is a record whose `id`
is the index of the step that chose the action (0 for nil) with its `Applied`
and `Relaunched` flags. An action is the sequence of driver calls it is made of
(`Calls`), because that is what an apply can fail in the middle of: typing is a
tap, an erase and an input; a double tap by selector is two taps; everything
else is one call. Several kinds with the same calls are one kind (`tap` stands
for tap, double tap, long press, swipe and scroll at a point). A page of the tree,
a log line or a screenshot never appears: `Observe` keeps the bit the loop
branches on, and `Verify` lets any set of properties that includes the violated
ones be violated.

Three history variables state the properties: `landed` (steps whose action
reached the app, unread), `told` (steps whose action a verified step was told
of), `relaunched`. No guard reads them.

`RunOutcome` is `runOutcome` of `testrun.go` on the summary. A line keeps the
`source` of a dispatched action, so that what the generator did is counted apart
from what the spec's setup did. `FinalizeFails` is the synthetic line that cannot be
written (559-561): the summary then holds verdicts that no line carries, and the run
returns the error.

### `ActionLedger`: what a run promises about `state.lastAction`

Two variables: the actions whose effect no reading has seen, and those that
readings have named. At most one action is ever unread, a reading names it, and
names only grow. `Runner` implements it with `unread <- landed`,
`named <- told`.

### `Ltl`, `LtlReference`: the evaluator of one property

`Ltl` is `internal/ltl` with `buildFormula` and `.within` of the verifier: `Build`
and `Window` make the formula, `Normal` its normal form with that of its negation,
`Reduce` one step of one obligation, `StillPending` and `Collapse` the dropping and
the merging, `Observe` is `ObserveAtStep` and `Finalize` is `Finalize`. Each recursion
over formulas is a function on one of two sets: `Property`, what an author nests up to
`Depth` deep, and `Formula`, what the evaluator makes of that in `MaxObservations`
reductions; `Bounds` are the arguments of `.within`. A predicate is an atom and an observation chooses
its outcome (true, false, throws), so every sequence of app states is
considered. The `step` label and the clock move by the gaps of the cfg: labels
skip because held steps are not observed. Time is in half seconds.

`LtlReference` defines the same verdict without residuals: the three-valued
value of a formula at a `Place`: an observation, the last one known, and whether
more may follow. It is written over the authored formula, so the
normal form and the building are part of what is checked. Its convention at
the closing observation of a window is the code's (`evaluator.go:435-437`): an
inner formula that is merely pending has not discharged the promise.

### `IosSession`: operations on a physical iPhone

Device mode of the iOS driver, where one runner in the device serves everything
over a usbmux tunnel. `pc` is the place of each of two threads: the driver, which
runs one operation at a time, and the screenshot that `Snapshot` takes beside the
hierarchy on the client it captured.

| `pc` | code | actions |
|---|---|---|
| `lock`, `arm`, `write`, `read`, `leave` | `runnerCompanion.call`, `wrapTransport`, `reconnect`, `transport/runner.go:76-163` | `Lock`, `Reconnect`, `ReconnectFails`, `Arm`, `Write`, `TimedOut`, `Dropped`, `Read`, `Leave` |
| `done` | `withRecovery`, `launchWithSessionRecovery`, `describeAll`, `driver.go:463-616`, 1191-1209 | `Recover`, `RecoverSession`, `ReadAgain`, `Settle` |
| `close`, `kill`, `bringUp` | `respawnDevice`, `bringUpDevice`, `device.go:161-226` | `CloseClient`, `StopChild`, `BringUp`, `BringUpFails` |
| `idle` | the caller | `Begin` |

A call is cut only where another actor can see the difference: between
registering `AfterFunc` and setting the deadline, before the write, before the
read, before the defers. `due` and `ended` are the two moments of a context: its
deadline has passed, which the connection notices by itself, and it is Done,
which starts the goroutine (`FireDeadline`) that sets the immediate deadline. A
cancel is `ended` without `due`. The server is `Serve`; `TunnelDrops` and
`ProcessDies` happen at any point, also between performing a request and
answering it. `NextServed` gives no order between two connections: a request of
a connection that was given up may be served after one of its successor.
A `terminate` before a launch is an `act`. `Describe` and the health probe of a
bring-up are part of `BringUp`.

`StopChild` stops what the host has of a session, `xcodebuild` and the tunnel. The
server on the device is torn down with it or, where it has requests, may be orphaned
with them: it then serves them whenever it likes, beside its successor. No statement
of the code excludes that, and no property here does. What the code does bound is how many
sessions may be asked for one operation (`RetriedOnce`), and one process never performs
it twice. A fresh port per session (`driver.go:414-417`) is taken to reach the new server.

`effects` is the one history variable: how often each session's process performed
each operation.

### `RunFiles`, `RunCache`, `RunsWatcher`, `Replay`: a run beside its viewers

`RunFiles` is the run directory as `Execute` writes it: `stage` is how far it has
got (`MakeDirectory` to `MetaEnded`), a line is appended in two observable
moments (`BeginLine` stamps the modification time, `EndLine` completes it, and
`ShowPart` is a reader that sees it torn), and `WriteMeta` truncates before it
fills. `LineFails` and `Killed` end the writer in the middle of either. The
clock is that of modification times; two lines may share a tick.

`RunCache` is `Cache.Open` and `Cache.Step` for concurrent requests. `pc` of a
request:

| `pc` | code, `runs_cache.go`, `runs.go` | actions |
|---|---|---|
| `stat` | `os.Stat` before the mutex, 36-38 | `StatFirst` |
| `open` | the mutex and the comparison, 40-46 | `Hit`, `Miss` |
| `meta`, `scan`, `read`, `store` | `parseRun`, `scanSteps`, 55-119 | `ReadMeta`, `StatOpened`, `ReadLines`, `Store` |
| `list`, `tally` | `Scan`, `summarize`, which do not use the cache | `SummarizeMeta`, `TallyTrace` |

`RunsWatcher` is `Watcher.Run` with its debounce timer, the broadcast outside
the mutex, `Subscribe`, `Unsubscribe` and `shutdown`, the handler of
`/api/events` and the tab behind it. `owed` is history: a change the tab has not
made a request after.

`Replay` composes them with the page. Its two routes share nothing but the
server, so a behaviour is on one of them: on the detail route the run is being
written while the page loads it and all its steps (one request each) and
another tab asks too; on the list route directories come and go.

### `Drivers` and its parts: what the parts around the loop owe it

Seven parts that share no state, composed by `Drivers`, in which a behaviour
belongs to one of them.

- `WebSession`: one step on the web is the CDP calls of `runner.Run` and
  `webSource.ExtractorOverrides` in their order (`CollectLogs`,
  `CollectNavigations`, `SetLastAction`, `SetLogs`, `EvaluateExtractors`,
  `CollectExceptions`, `Judge`, `NextAction`, `Apply`, `Record`); between any two
  the page logs, throws or navigates (`PageActs`). `page` is the document's
  runtime, `wire` what is logged and not delivered, `chrome` the driver's
  fields. A page without the runtime fails the run in the unguarded calls and
  answers nothing in the guarded ones. `late`, `held`, `moved` and `drawn` are
  history.
- `AndroidInput`: the tree reads of a step with `treeWithoutKeyboard` (the first and,
  by `ReadOnceMore`, those of `fetchSyncedState`, which may press BACK again), the focus
  tap and its confirmation, `eraseFocusedField`, `typeChunks` with its foreground
  guard, and `dismissSoftKeyboard`. `focus` is what of the app takes the keys: the
  field, another field, or nothing. `call.target` is what the action's selector resolves
  to in the tree the step acts on, which need not be where the tap goes: `SizesOf` gives
  the erase no length without an element, the field's length when the selector names it,
  and any length when its first match is another element. `keyboard` is the window (down,
  up, leaving), `shown` the flag that trails it. `told` is the history of who disturbed
  the step and of what the last reading showed. `ReadOnceMore` may happen in any step and
  any number of times: more reads than a step makes, which only adds BACKs.
- `Settle`: the settle script of the Chrome driver, `awaitSettledTree` and
  `pollUntilStable` of the sidecar, `fetchSyncedState` and `changedOnReread` of
  the runner, against an app with a 700 ms cross-fade. Every timer is a countdown
  in ticks of 50 ms with the code's own constants. `since` holds how deep the
  tree has changed since the one it will be compared with.
- `SidecarLife`: `Execute` from the navigation mode to its restoration, the
  goroutine of `watchSidecar`, `exec.CommandContext`'s cancellation, the RPCs
  `launch` and `terminate` inside the sidecar (which go on when the client has
  given up) and the shutdown hook beside them. The step loop is one step.
  `mishaps` is history: what went wrong that the code cannot make good.
- `LlmSource`: a run under `--generator llm`. `turn` is the step loop's place
  (`HoldsStep`, `PushesSnapshot`, `AppliesAction`); `SetupActs`, `RunAborts`,
  `NothingToOffer` and `AsksModel` are `NextAction` up to the request, and
  `NoUsableAnswer`, `PickDiscarded` and `PickSelected` what `selectViaLLM` makes of the
  answer, which may be any number and any echo. `llmCall` and `line` are the
  lines of `llm-calls.jsonl` and `trace.jsonl` of the step; `labels` is history.
- `Candidates`, which it extends, has no state: the spec's action tree on one
  screen, worked out as the seeded picker does (`Drawable`, `pick.ts`) and as the
  verifier enumerates it for the model (`Offered`, `llm.go`). An action is its kind, its
  control and its detail; two controls may read alike. Both walk the tree by a
  function on `Nodes`, the nodes that occur in the trees; `DepthOf` counts the branches
  below a node, which are finitely many since a node is built from branches that
  already are.
- `SimulatorInput`: one `InputText` on an iOS simulator. `entry.way` is what carries
  the text: keys in one HID stream, the runner's typing after a chord on the other
  channel (hybrid), or the pasteboard (legacy). `SendClear` to `Typed` are
  `InputText` and `waitFieldCleared`, `PasteChord` to `PasteTimedOut` are `pasteText`,
  `ConnectionLost` and `Restarted` are `withRecovery`. `stream` and `typing` are
  what the two channels have still to carry, `widget` the app with the keys it has
  not applied, a selection that applies later, and the permission dialog. `fate`
  is history: what the driver took on trust.
- `SimulatorLife`: two runs on one simulator, each `New`, `respawnAndRedial` and
  `Close` with its companion and its test session. `children` are the host processes that
  live. The runner a session launches is the simulator's: `coming` until it listens, at
  any later time or never, then `answering`, whatever became of its session and its run;
  a session that still lives launches it again. `pickLoopbackAddress` sees the ports
  that are bound, not those a runner is coming to, and whoever answers the dial is taken
  for the session's own. A child may exit and a run be killed at any point. `slow` is
  history: the runners that had still to come up on the port a session was given.

### The proof modules

`RunnerProofs`, `IosSessionProofs`, `ReplayProofs` (of `Replay` with `RunFiles`,
`RunCache` and `RunsWatcher`), `ScreenProofs` (of `AndroidInput`, `SimulatorInput`
and `Settle`), `LifeProofs` (of `SidecarLife` and `SimulatorLife`), `DriversProofs`
(of `WebSession`, `LlmSource` with `Candidates`, and `Drivers` itself) and `LtlProofs` (of `Ltl` and
`LtlReference`) hold the theorems of the section on proofs. `Induction` belongs to no
component: it states induction, recursion and folds in a form the proofs can cite. Each part of `Drivers`
has a specification of its own for them (`WebSpec`, `SettleSpec`, `LifeSpec`,
`InputSpec`, `EntrySpec`, `SelectSpec`, `SimulatorSpec`): its initial states and its
steps, without fairness.

## Runs

`MC*.tla` extend a component and define the values its cfg assigns.

| run | cfg | shows |
|---|---|---|
| `step_loop` | `MCRunner.cfg` | type invariant, cause of every effect, ledger, summary against trace and its order, onset, exit status, termination; 486 thousand states |
| `exit_on_violation` | `MCRunnerStop.cfg` | relaunches, actions, failure streak and exit status in the same loop one step longer, with `--exit-on-violation` and without `--allow-no-generator-actions`; 1.3 million states |
| `evaluator` | `MCLtl.cfg` | verdicts, final verdicts and witnesses against the reference; 777 thousand states |
| `ios_session` | `MCIosSession.cfg` | answers, performed operations, sessions asked, return of every operation; 1.1 million states |
| `replay` | `MCReplay.cfg` | cache, listing, markers, signals and shutdown beside a run being written; 1.3 million states |
| `drivers` | `MCDrivers.cfg` | web evidence, Android input, settling, the sidecar's life, the model's picks, and on the simulator a text and two runs; 2.1 million states |
| `late_deadline` | `MCLateDeadline.cfg` | `InterruptedByOwnContext` is violated |
| `verdict_lost` | `MCVerdictLost.cfg` | `NoVerdictLost` is violated |
| `unsent_but_landed` | `MCUnsent.cfg` | `UnsentReachedNothing` is violated |
| `judged_out_of_scope` | `MCOutOfScope.cfg` | `OutOfScopeNotJudged` is violated |
| `negated_throw` | `MCThrow.cfg` | `ThrowConvicts` is violated |
| `fractional_window` | `MCFraction.cfg` | `ClosedWindowDecides` is violated |

**Bounds.** `MaxSteps` is 2 or 3: an action's report crosses one step boundary,
and the third step puts a held step in between, or an interruption between two
failures. `MaxSteps = 0` (no bound, the run ends by its duration) differs only
in what `LoopEnds` already allows at every iteration.
`MaxConsecutiveApplyFailures` is 2 instead of the code's constant, the smallest
value at which a streak, its interruption and its limit differ. Two properties
separate a new violation from an old one. `Kinds` in the passing runs leaves out
`doubleTapSelector`: it is the subject of `unsent_but_landed`. `MaxObservations`
is 4: a window of two observations opens, closes and leaves one observation
after it, under up to three nested operators. The windows and gaps are chosen so
that a window closes at, before and between observations and a label skips
over its end.

`IosSession` is asked for an operation of any kind and then for a gesture: the
hazards between operations (a connection left dirty, a goroutine left behind, a
request left queued) need one to leave something and one to meet it. Two sessions
are one restart; the second restart an operation may be owed fails by the bound
(`MaxSessions`), which the code's bring-up can do as well. A third session that is
being made already counts for `RetriedOnce`, so two are enough for its bound on gestures;
a launch's bound of four needs more sessions than the run has and is shown by the proof
alone. `CollapsedRetries` is
1 instead of 6, one repetition of a read.

`Replay` writes two lines (a marker can then go back to an earlier step, and a
cached run can lack one) under a clock of two values (a line in the tick of the
one before, and in the next), serves one request per step, one for the run and one of
another tab, and lets three changes meet a channel of capacity one instead of
four and two tabs: a signal can be dropped, a change can arrive in a debounce
window, in a broadcast and after it.

`Drivers` takes two steps on the web with one console error, one exception per
document and two navigations, so that a draw, a log window and an install each
meet a navigation before, in and after them; a text of two pieces, a field of up to one
old piece, and in each step one disturbance (`MaxDisturbances`: a theft of the
foreground, a moved focus or a write of the app), while the keyboard comes and goes
freely; one cross-fade and one other change
per settle, beside a cross-fade that may already run; one relaunch by the scope guard.
On the simulator a text
of two pieces replaces two old ones or none, over three reads and two lost
connections (the second one hits the retry); two runs of two spawns each, a start
and a restart, share two ports, so that a new session meets the runners of those
before, answering or still to come. Under a model it takes three steps with a memory of two, so that an entry is pushed
out and a held step falls between an action and the screen it led to. The action
trees are single leaves, all pairs of five weighted branches (of weight zero
and below too) and branches within branches, with leaves that overlap, sample
or throw; the screens are empty, of one button, and of two buttons that read
alike beside a field and a list.

**Deadlock.** A run that ended or failed stops, an ended evaluator takes no
observation: all cfgs say `CHECK_DEADLOCK FALSE`.

**Fairness.** `Termination` assumes `WF_vars(Loop)` and `WF_vars(BudgetElapses)`,
nothing about the device: it may move for ever and never show the app. The
second is the wall clock of `foregroundReadyBudget`. The first says that each
call of the loop returns. The code bounds the observation
(`observationTimeout`), the apply (`applyBound`) and the idle waits by timeouts
of their own. It does not bound the foreground reads, the guard's key press and
launch or the collection of navigations, which run under the run's context: for
those the assumption is about the drivers, and the gap is on the hazard list.

`OperationsReturn` assumes that the threads of the driver and the goroutine run
and that the deadline of an operation's context passes. Every caller sets one
(`observationTimeout`, `applyBound`, `launchTimeout`). Nothing is assumed about
the server, the tunnel, or that a restart succeeds, and not that the context is
ever Done: the deadline on the connection is enough.

`ChangeReachesViewer` and `StreamsEnd` assume that the watch goroutine and each
handler run and that the browser makes the request its event asks for, which is
the Go scheduler's and the browser's doing; nothing about the directory, the
user or a tab that leaves. Both exempt what the code does not promise: a tab that
left or a server that is stopped, and a watcher that could not start.

`ExecuteReturns` assumes `WF` of `Execute` and of the goroutine that reaps the sidecar,
nothing about the sidecar: health check, launch and terminate run under
deadlines, the shutdown under its grace. `RunEnds` being fair is `Termination`
of `Runner`. The navigation mode's restoration has no timeout; the
assumption covers it.

## What disagrees with the documentation

Six statements of the repository do not hold of the code. Each is a property
of its own, and the run is expected to violate it.

1. `NoVerdictLost` - a violation found in a step that then returns an error is
   written nowhere (`runner.go:323` against 362, 420, 423, 433 and 494).
2. `UnsentReachedNothing` - a double tap by selector may land once and be
   recorded as having reached nothing (`client.go:177-193`,
   `runner.go:408-417`).
3. `OutOfScopeNotJudged` - a step that could not bring the app back is judged
   all the same (`runner.go:153-163`, 492).
4. `ThrowConvicts` - a predicate that throws under a negation, or as the
   antecedent of an implication, makes the property hold
   (`evaluator.go:401-405`, 507).
5. `ClosedWindowDecides` - `within(0.5, "seconds")` is no window
   (`bindings.go:349`).
6. `InterruptedByOwnContext` - the goroutine that interrupts a call can run after
   the call returned and interrupt the next one, on its new connection
   (`transport/runner.go:95-104`); `stop()` does not wait for it. The caller sees
   a budget that ran out, and a launch answers that by restarting the session.

Smaller disagreements met while modelling, which no run states:

- `docs/development/architecture.md:50` has the replay's events sent "as new steps
  land"; only directories that appear or go are announced (`watcher.go:92`), a
  step that is appended is not, and the page does not ask again.
- `driver.go:924-926` of the iOS driver says that the clear chord "has demonstrably
  landed before typing starts". A field that was empty reads empty before the
  chord lands too, and the chord can then select what is being typed
  (`InputReplaces` exempts that case).
- `input.go:154-156` has the paste chord re-sent "ONLY after dismissing a permission
  dialog". When the dump shows a single enabled button, `findAllowPasteButton` takes
  it for the dialog's: the app's own button is tapped and the chord sent again.
- `driver.go:199-200` has a crashed run's claim that "never strands the device". The
  kernel gives the lock back, but the children of a killed run go on, and the next
  run resets the app under their session, the case the lock is for
  (`OneRunDrives` exempts children of a killed run).
- `driver.go:414-417` of the iOS driver has a fresh port keep a dead session's listener
  out of the new one's bring-up. The port is fresh among those that are bound: a runner
  that has not come up yet, of a session that was stopped or of a run that was killed,
  may have been given the same one, and `bringUpRunner` takes whoever answers first.
  `OneRunDrives` names that case (`slow`) and excludes every other.
- `DriverBackend.kt:926-931` has BACK "only safe on a true reading", and "a tree carrying
  the IME's own view ids is the keyboard being on screen". The tree also carries one
  that is leaving (892-894 of the same file says that the window leaves over an
  animation): a keyboard the app is putting away when the tree is read is dismissed
  again, and the key leaves the screen. `BackOnlyClosesKeyboard` names that case
  (`told.read = "leaving"`).
- `DriverBackend.kt:884-886` says the two dismissals of a keyboard are "a
  waitForIdle and a hierarchy fetch apart". `confirmFocus` (`runner.go:1189`)
  reads the hierarchy inside the action, which dismisses a keyboard that stands
  open, and the flag that `dismissSoftKeyboard` reads after the typing may still
  trail it.
- `DriverBackend.kt:876-882` relies on the focus tap to raise the keyboard "again
  long before this probe runs". A tap the field does not receive raises none, and
  `confirmFocus` passes it on a screen with nothing focused: a flag that is still true
  from the keyboard the snapshot dismissed then presses BACK on none.
  `BackOnlyClosesKeyboard` names both cases (`told.raised`).
- `runner.go:1013-1017` says "InputText replaces the field's content". The erase is
  skipped for an action without a selector, or with one the tree does not resolve
  (1257-1269), while the tap goes by the coordinates (1271-1301); and an ambiguous selector
  sizes it by its first match, which need not be the element the coordinates name. What
  the length falls short by stays in front of the text (`Shortfall` of
  `TextGoesWhereMeant`).
- `runner.go:1170-1179` has `confirmFocus` fail an action whose text would go to another
  field. It resolves the same selector: with an ambiguous one, or one the second
  tree no longer resolves, it passes and the text goes there
  (`call.target # "field"` of `TextGoesWhereMeant`).
- `runner.go:264-268` says the two engines "evaluate against one action and one
  set of logs". A page that navigates between the installs and the extractors
  evaluates against none (`EnginesAgree` allows exactly that).
- `docs/manual/spec-language.md:44` and `introduction.md:49` describe logs and
  exceptions "since the previous step"; log windows overlap by the length of a
  step and exceptions accumulate for as long as the document lives, and are lost
  with it.
- `verifier/llm.go:75-77` says the current screen matches "the runner's own screen
  labeling". It reads the label of the root alone, which the web driver sets and no
  other does, where `ScreenName` (`hierarchy.go`) falls back to resource ids. On a
  native platform every remembered action is told to have led nowhere
  (`MemoryTellsTheScreens` exempts `native`).
- `docs/manual/spec-language.md:386` has "every step of a model-driven run" append
  a record (`llm_call.go:23` too); a held step asks nobody and has none. For the same
  reason the image's step never lags, as `llm_source.go:302-305` provides for
  (`RecordTellsTheStep`).
- `llm_source.go:462-463` calls an entry of the memory a performed action, and
  `llm_call.go:27` has a selected one run; an action that was chosen and then not
  dispatched is remembered and recorded alike.
- `spec-language.md:378` has both policies explore the same actions. A branch of
  weight zero is offered and never drawn, and a swipe is offered at one distance
  (`PoliciesShareOneSpace` says what does hold).
- The comment at `runner.go:1420` has the retry handle transitions that begin
  after the settle; on the web one that begins then and shows the same bytes to two
  reads 200 ms apart is accepted as a tree at rest.

And behaviours a reader of the models may want to know: a console entry still on
its way when its window is read is not judged, nor are the entries a held step
read; a navigation between the two halves of `InstallBundle` fails the run; the
run list silently leaves out a run whose meta or last line is being written; a
run killed inside `WriteMeta` leaves a torn `meta.json` and cannot be opened; a
stream is flushed before it subscribes, so a change in between is not announced to
it; an erase is sized by the tree of the step, not by what the field holds; a tap that takes
no focus on a screen with nothing focused loses the text without an error; text
that is not shell-safe is typed without the foreground guard; a launch the run
gave up on can be recorded in the sidecar after its terminate cleared the bundle,
and the app runs on.

## Proofs

Each theorem below is proved by TLAPS for every value of the constants that the
named assumptions of the modules allow; TLC evaluates those assumptions in every
run. All but a few assumptions say that a bound is a natural number or that a set
is finite. The others are in the text below. A property is never inductive as it
stands, so each proof module defines the invariant that is, as a conjunction of
named parts, and the theorem about it comes first.

### `RunnerProofs`: the step loop

For every finite set of properties, every `MaxSteps`, every length of the failure
streak and every flag:

| theorem | states |
|---|---|
| `TypeCorrect` | `Spec => []TypeOK` |
| `LedgerInductive` | `Spec => [](TypeOK /\ LedgerInv)` |
| `EffectsHaveCauses` | `Spec => []EffectHasCause` |
| `NothingSwallowed` | `Spec => NoActionSwallowed` |
| `ImplementsLedger` | `Spec => LedgerSpec`, the refinement |
| `RelaunchesReported` | `Spec => []RelaunchIsReported` |
| `AccountKept` | `Spec => [](TypeOK /\ AccountInv)` |
| `SummaryIsAnAccount` | `Spec => []SummaryMatchesTrace` |
| `StreakIsOnTheTrace` | `Spec => []StreakMatchesTrace` |
| `CleanExitsEarned` | `Spec => []CleanExitIsEarned` |

`LedgerInductive` and the three that use it assume
`"doubleTapSelector" \notin Kinds`; with it `EffectHasCause` is false, since the
effect of the first tap is then unread with no report.

*The report of an action.* `EffectHasCause` speaks of the places before a
reading: a step could pass `choose` with an effect still unread, or tell an old
action again. `LedgerInv` adds, for every place,

- `IdsOrdered`: a step's index is larger than every one told before it;
- `ReportPending`: before a reading `lastAction` is later than all that were told,
  while choosing and applying it has been told;
- `EffectsOwned`: what is unread belongs to the carried action, or to the step
  being applied, and nothing is unread when an action is chosen;
- `FirstCallOnly`: after an action's first call only typing is left. A call that
  can land on nothing is therefore the first one, so a skipped action has no
  effect. This is the conjunct a double tap by selector breaks.

The argument for the relaunch is `RelaunchInv`, which needs only `TypeOK`.

*The account.* The counters are compared with the lines when the run is over or a
line was written; in between, some counters run ahead. `AccountInv` says by how much: a
held step is counted where its reading fails and gets its line afterwards
(`LinesCounted`); the streak is written where the action ends, one place ahead of the
line (`StreakCounted`); a violation the verifier holds is on a line already or is
what the step in hand is about to report, never both (`ViolationsPlaced`). The line
of the final verdicts is why `LinesNumbered` is stated: its index is one past the last
step and must not be taken for a step's. A counter is compared with the cardinality of a
set of line numbers (`SentLines`, `HeldLines`, `SkippedLines`, `StreakLines`): a line
appended to the trace adds one element to one set, and no induction over the trace
is needed. An error ends a run with `StepFilled` and the rest true of what was
written (`pc = "failed"`), and no summary is compared there.

### `LtlProofs` and `Induction`: the evaluator

For any properties nested to any `Depth`, any number of observations, any labels,
times and outcomes of them:

| theorem | states |
|---|---|
| `Shapely` | `Spec => []TypeOK` |
| `ReduceIsSound` | reducing a formula against an observation keeps its value |
| `NormalIsMeant` | the normal form has the value of what the author wrote |
| `EvaluatorInvariant` | `Spec => [](TypeInv /\ TrackInv)` |
| `ReportsTheTruth` | `Spec => []VerdictIsTruth` |
| `EndsWithTheTruth` | `Spec => []FinalVerdictIsTruth` |
| `BlamesTheFirst` | `Spec => []BlamesArmingStep` |

All but `Shapely` and `ReduceIsSound` assume `WholeWindows`: an argument of `.within`
is a whole number of steps or of seconds, and not zero seconds. Without it they are
false, which is what `fractional_window` shows: the code rounds the argument down, and
no duration is no window. The other runs' `MCBounds` has whole windows only.

*Induction.* The induction theorems of the library take an operator as a parameter
and cannot be instantiated by the provers at hand. `Induction` states what they say
about sets and functions instead, from the well-foundedness of `<` on the naturals,
which the library has without one: a set with 0 and every successor contains `Nat`
(`NatSteps`), a set that has every element whose inferiors in rank it has is everything
(`RankSteps`), and a definition that looks at lower ranks only has a solution
(the lemma `Recursion`, by gluing the solutions below each rank). A formula's rank is the level of
`Built` or `Authored` it appears on; with that, each recursive function of `Ltl` and of
`LtlReference` satisfies the equation that defines it (`NormalIs`, `ReducerIs`,
`FinalStatusIs`, `ValuerIs`), and the folds over the obligations are unrolled one
obligation at a time (`StillPendingIs`, `CollapseIs`), as `FoldExists` and `FoldRuns`
of `Induction` unroll any fold over the positions of a sequence.

*Levels.* A reduction may put one operator around a residual (`ReduceLevels`), the
normal form of a property one around its predicates (`NormalLevels`). So an obligation
never leaves `Formula`, which is part of `TypeInv`.

*Values.* `WorthOf(h)` gives the formulas of the evaluator the value they have at every
place of a record `h` of observations, windows that were resolved included. A residual
is worth, one observation later, what the formula was worth before (`ReduceIsSound`);
the normal form of a property is worth what the author's formula means
(`NormalIsMeant`, which is where a whole window is needed); and what `finalize` says of
a residual is its value when nothing follows (`FinalIsWorth`).

*Tracking.* `VerdictIsTruth` compares the verdict with all assertions made so far, of
which most have been decided and forgotten and others were merged. `TrackInv` keeps
the link. Both its sides quantify over every continuation of the observations, since
what an obligation owes is about the future: each open obligation `Owes` what
some assertion owes, under the label of that assertion's step, and each assertion is
`Settled` to hold or is owed by an obligation no younger than it (`Tracked`). The second
half is what merging needs: when equal residuals meet, the earliest is kept, and it
speaks for all of them. No assertion was violated so far (`Unbroken`), and once one is, the
blamed step's is violated for good, no earlier one was, and none before (`Convicted`).
That is exactly what `BlamesArmingStep` asks of the witness, and it stands whatever is
observed afterwards (`ConvictedStands`). TLC cannot evaluate `TrackInv`, which speaks of
every continuation; it checks what follows from it.

### `IosSessionProofs`: operations on a physical iPhone

For every script of operations, any number of sessions and of collapsed reads:

| theorem | states |
|---|---|
| `TypesKept` | `Spec => []TypeOK` |
| `SessionInvariant` | `Spec => [](Kept /\ SessionInv)` |
| `AnswersKeepStep` | `Spec => []AnswersInStep` |
| `DoneOnce` | `Spec => []DoneOncePerProcess` |
| `RetriesBounded` | `Spec => []RetriedOnce` |

None of them needs an old server to die: it may serve what it has at any time, and
what follows is about the sessions it was asked in.

`AnswersInStep` rests on `ConnectionClean`: a connection that is not dirty carries
nothing but the request of the thread that reads on it (`Awaits`). A call that is cut
off leaves its answer in flight and the connection dirty; the next one to write
has reconnected first, and answers to a connection that was given up go nowhere. That
needs the mutex to hold between `arm` and `leave`, which is in `Kept` and also the
last conjunct of `TypeOK`.

`DoneOncePerProcess` rests on `SentOnce`: to one session an operation is about to
be sent, or waits in its queue, or was performed by it, and only one of the three.
A retry of something that changes the app goes to a session after the one it was sent
to; `Recover` never sends to the same process again. `SuccessEarned` carries the second
half of the property from the answer to the return.

`RetriedOnce` counts sessions, and a count is not inductive: a restart says nothing of
how many the operation has met. `RetriesInv` says where they are instead. An operation
that changes the app reached no session further back than the restarts it has spent:
one that is `recovering` is at most one behind, and a launch that was `relaunched` two more,
since each of its attempts may recover once. Sessions that lie in an interval are no
more than it is long.

### `ReplayProofs`: a run beside its viewers

For any number of lines, clients, tabs, changes and any capacity of a channel:

| theorem | states |
|---|---|
| `ReplayInvariant` | `Spec => [](ReplayInv /\ WatcherInv)` |
| `ReplayTypes` | `Spec => []TypeOK` |
| `NothingElseIsMissing` | `Spec => []MissesOnlyUnfinishedLines` |
| `CacheGrows` | `Spec => CacheOnlyGrows` |
| `MarkersOnTheSameSteps` | `Spec => []MarkersAgree` |
| `WatcherDoesNotPanic` | `Spec => []NoPanic` |

`ClientsAssumption` says that there is a client for the run, for each step and for
another tab, which is how `StepClients`, `RunClient` and `OtherTab` name them.
The invariant has three layers. `FilesInv` says how far the writer can have got at
each stage and that the lines' times do not decrease. `CacheInv` is about the
cached run and each request: what has been read is a prefix of the trace
(`RunOK`), and a request in the middle of parsing still has nothing newer
than the moment it looked (`RequestOK`). One place needs care: a hit hands out a
run that somebody else parsed, so what is missing from it is bounded by the time
`os.Stat` returned *before* the mutex, with the lines that were complete then. `Alone`,
one request at a time inside the mutex, is what makes a stored run at least as
long as the one it replaces. `PageInv` says that each step the page shows is that
of the run it shows, from which `MarkersAgree` follows by comparing
two computations: the server's `MarkViolations` and the page's
`MovesToCause`. `WatcherInv` adds to `NoPanic` that channels are closed
only when the watcher is done.

### `DriversProofs`: the evidence of a web run

For any number of steps, console errors, exceptions and navigations:

| theorem | states |
|---|---|
| `WebInvariant` | `WebSpec => []WebInv` |
| `DrawsInOrder` | `WebSpec => []DrawsFollowTheSeed` |
| `EvidenceKept` | `WebSpec => []EvidenceIsKept` |
| `EnginesSeeOneStep` | `WebSpec => []EnginesAgree` |

`EnginesAgree` compares what ran in the page with the host at the end of the
reading. `PageFollows` says at each place between the installs and the reading
what the page has: what the step installed, or a fresh document's nothing if it
navigated meanwhile. `WindowFollows` says that an entry older than the window is
kept or is in the hands of the step that read it, since the window moves on before the
step has judged. `NavigationsFollow` says that the trace, the step and
the driver's list, in this order, are the navigations from the second on: taking
them out of the list and writing them down only moves the cuts. `CountersBounded` is
for the types: a step draws once at most, so the positions stay behind the step.

### `ScreenProofs`: a tree at rest

For any number of cross-fades and of other changes of the layout, whenever they
start:

| theorem | states |
|---|---|
| `SettleInvariant` | `SettleSpec => []SettleInv` |
| `TreesAreSettled` | `SettleSpec => []VerifiedTreeIsSettled` |

`VerifiedTreeIsSettled` is about the moment a tree is accepted. `ScriptWaits` is the
web's half: a fade the script can still wait for is shorter than what is left of its
window and of its budget, so none runs when a read begins. The rest is about Android.
`TreeFollowed` says what the tree in hand shows of the app, but for what changed
since it was read, and `ChangesSeen` that what changed under the reads is in the
comparison they are judged by. `PollOutlasts` relates two countdowns: a fade that ran
all through the poll is as much older as the poll is, so it ends before the cap
does. `AcceptedRests` draws the conclusion one read early, where a tree was accepted
once and is read again.

### `ScreenProofs`: text on Android and on an iOS simulator

For a text of any number of pieces, any former content of the field and any
number of thefts, disturbances and lost connections:

| theorem | states |
|---|---|
| `InputInvariant` | `InputSpec => []InputInv` |
| `TextPlaced` | `InputSpec => []TextGoesWhereMeant` |
| `BackAtKeyboard` | `InputSpec => BackOnlyClosesKeyboard` |
| `EntryInvariant` | `EntrySpec => []EntryInv` |
| `TextReplaced` | `EntrySpec => []InputReplaces` |

On Android, `PiecesGuarded` pairs each piece another app received with a theft after
the reading that let it be sent. `FocusFollowed` says that, while nothing takes the
foreground or moves the focus, the tree the step acts on shows where it is, and that past
`confirmFocus` it is not on another field if the selector names this one. That is the
argument of the code's own comment, with the condition under which it holds.
`FieldFollowed` says that while the app leaves the field alone it holds what that tree
showed, and after the erase no more than the length fell short by. `KeyboardFollowed` says
that a keyboard that was read or raised and is not up was put away by the app or by the
BACK the step is waiting out. The count may be anything `SizesOf` gives it.

On the simulator, `EntryInv` says for each place of the driver where the text is: in
the stream, in the keys the app has not applied, in the field. What the keys way
has left is a concrete sequence (`AllLeft` and its tails), what the app has still to
apply is `Deleting(n)` (the backspace and `n` pieces, or part of them applied), and
the paste goes through `Chord`, `Prompts`, `Again` and `Landed`. A text is a sequence
of equal pieces, so these statements have lengths only and need no induction. The
statement holds while the driver took nothing on trust and the field kept the
focus (`Sound`), the same exemptions `InputReplaces` has.

### `LifeProofs`: what a run starts and puts away

The sidecar of an Android run, for any number of relaunches:

| theorem | states |
|---|---|
| `SidecarInvariant` | `LifeSpec => []SidecarInv` |
| `PutAway` | `LifeSpec => []NothingLeftBehind` |

`NothingLeftBehind` is about the moment `Execute` returns. `ProcessReaped` says that
it gets past the drain only on a status that a dead process left. `NavigationOwed` and
`AppOwed` follow two debts: somebody alive still has to put the navigation mode back
and stop the app. For the app these are the launch in flight that will record it, the record,
or the hook that took the record; whoever takes the record away has stopped the
app before, and a launch in flight at that moment is one of the named excuses.

Two runs on one simulator, for any ports and any number of spawns of each:

| theorem | states |
|---|---|
| `LifeInductive` | `SimulatorSpec => [](LifeInv /\ RunnersInv)` |
| `OneRunAtATime` | `SimulatorSpec => []OneRunDrives` |

`OneRunDrives` says nothing of a run on its way up, down or through a restart.
`LifeInv` adds who holds the lock at every place, that a child is spawned only
where none of its kind is left (`Orderly`). `RunnersInv` is about the runners, which answer to
nobody: whatever listens, or is still coming, on the port a run dials is the runner of its own
session or was already coming when that port was chosen (`Met`). A port that nothing is
bound to keeps out those that answer; it is all the code has, and the
proof breaks without it. Nothing is assumed of when a runner comes up.

### `DriversProofs`: the model's picks, and the parts together

For any trees, screens and routes, any size of the memory and any number of steps:

| theorem | states |
|---|---|
| `RecordsTellTheSteps` | `SelectSpec => []RecordTellsTheStep` |
| `MemoriesTellTheScreens` | `SelectSpec => []MemoryTellsTheScreens` |
| `PoliciesAgree` | `SelectSpec => []PoliciesShareOneSpace` |
| `SelectTyped` | `SelectSpec => []SelectTypeOK` |
| `PartsImplemented` | `Spec` of `Drivers` implies the specification of each of its seven parts |
| `DriversTyped` | `Spec => []TypeOK` |
| `PartsKeepTheirPromises` | the parts' properties, of `Spec` of `Drivers` |

`RecordTellsTheStep` compares four places when a line is written. `RecordInv` says of
each place of a step which of them are this step's: the snapshot from the push on, the
record from the question on, the source's name only between a pick and the next
question (`RecordOpen`, `SourceNamed`), and that the action in hand is the one the
record numbers, or setup's (`ActionInHand`). What the list holds does not matter to
it: `Offered` and `ActionFor` stay unexpanded.

`MemoryTellsTheScreens` speaks of the first label after an entry, a minimum over
the steps. `Chronicle` states it without one: an entry with a label `Leads` to it (all steps
in between named no screen), and the last entry without one is followed by
silence, up to the last step the source was asked on (`Seen`). That silence is what makes
filling in the next label right. The lemmas are one for each thing that happens to a
chronicle: a label more, a step held, the last entry completed, an entry remembered. They
rest on `RoutesAssumption`: a web page always has a screen to name, since the driver
falls back to the path (`driver.go:579-583`).

`PoliciesAgree` has one fact about the state, `OfferInHand`: while the model is asked, the
list it reads is `Offered` of the declared tree and the pushed screen. The rest is
about two pure functions, for every tree and screen (`OfferedSpace`). `Drawable`,
`Leaves` and `Collect` walk the tree recursively and satisfy the equations that define
them (`DrawableIs`, `LeavesAre`, `CollectIs`, by `Recursion` along `DepthOf`). By
induction on the depth (`RankSteps`) what can be drawn is among what is collected, and
what is collected among what the leaves yield (`SameSpace`): a weighted node
is enumerated if the weights above zero have a sum above zero, which is when a branch
can be drawn (`TotalIs`); but the enumeration also takes the branches of no weight,
which is why these are two inclusions and not one equation. `Finalize` is a fold: it keeps of each identity the first candidate and loses
none (`FinalizeIs`, `JoinedIs`), so the list is as long as its identities are many
(`DistinctCounts`). `HostAssumption` and `NodesAssumption` say what a tree is: lists are
lists, a node has one of the four kinds, a verb is one of the eight, and a branch is less
deep than its node.

The parts share no state, so a step of one leaves the invariants of the others
alone; what is proved of a part is true in `Drivers`.

### Only model-checked

- Liveness: `Termination`, `OperationsReturn`, `ChangeReachesViewer`, `StreamsEnd`,
  `ExecuteReturns`.

## Not modelled

- The text of reasons, `IsError` of a witness, residuals on a trace line, and the
  JSON of anything.
- Extractors, the JavaScript runtime and page values: what they return is an
  input, their errors are `AbortStep`.
- `within` chained on an eventually twice: the type it returns has no `within`.
- `milliseconds` of `within`, which differ from seconds in scale only.
- A nondeterministic choice over a clock: `LoopEnds` may happen at any iteration.
- An action that lands after the reading that follows its timeout: in `Runner` a
  failed call has landed by the time of its error or never does. `IosSession`
  has such late landings, between two of its operations and from a server that was
  replaced; the two modules are not composed.
- What a stray BACK leads to: `AndroidInput` says when one is pressed, not which screen
  the app shows afterwards.
- The companion's own address, which a run chooses once and keeps through its
  restarts, and who answers on it.
- Gestures and reads of the iOS simulator beyond `InputText`: each is one call with
  the recovery `SimulatorInput` has. That driver's settle loop. A field that masks
  its text, for which any content counts as pasted.
- Gestures, screenshots, metrics and the dump of the DOM on the web; gestures,
  screenshots, metrics and logcat on Android: each is one command whose outcome is
  an input of the models.
- Prompts, labels, weights and images of the model's picks, and the HTTP client; the
  picker's arithmetic (which action a seed draws); the parsing of trees.
- The texts a model types: one stands for all.
- The reconnection of an `EventSource`, the overflow of an fsnotify queue and two
  runs that start in one second, which share a directory.
- The offline tools under `cmd/internal-tools`, flag parsing, bundling: no state
  between two calls. The generated protocol code.

## Plan

Written: `Runner`, `ActionLedger`, `Ltl`, `LtlReference`, `IosSession`, `Replay`
and its parts, `Drivers` and its parts, and the proof modules. Left, most useful
first:

1. The composition of `IosSession` with `Runner`: what a late landing does to
   `EffectHasCause`, and which of the theorems of `RunnerProofs` survive it.
2. The settle loop of the iOS driver, in `Settle`, with `SettleInv` extended to it.
3. The parsing of trees (`hierarchy.go`), as far as `Transitional` and the bounds of
   a node depend on it.
