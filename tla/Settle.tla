-------------------------------- MODULE Settle --------------------------------
(***************************************************************************)
(* How a step comes by a tree that no route transition is running in: the  *)
(* driver's WaitForIdle after an action, the Snapshot of the next step and *)
(* runner.fetchSyncedState around it, against an app whose cross-fade      *)
(* keeps two routes in the tree.                                           *)
(*                                                                         *)
(* A cross-fade changes the tree when it opens and when it closes, and     *)
(* nothing in between.  On the web the settle script waits it out from     *)
(* inside the page; on Android the wait is in the sidecar's snapshot, and  *)
(* WaitForIdle cannot see it.  Time is in ticks of 50 ms, and every timer  *)
(* is a countdown.                                                         *)
(***************************************************************************)
EXTENDS Naturals

CONSTANTS
  MaxFades,   \* bounds: cross-fades the app starts,
  MaxChurns   \*   and other changes it makes

ASSUME SettleBounds == MaxFades \in Nat /\ MaxChurns \in Nat

VARIABLES
  platform,  \* "web" or "android"
  app,       \* the cross-fade in flight, and whether the layout holds two routes at rest
  idle,      \* the settle script's timers
  fetch,     \* the reads: where they are, and the tree in hand
  since,     \* what changed since the tree to compare with, and since the last read
  unseen     \* history: what the fetch could not see

settleVars == <<platform, app, idle, fetch, since, unseen>>

Fade == 14              \* 700 ms
Quiet == 3              \* domQuietPeriod
Window == 16            \* transitionSettlePeriod
Budget == 27            \* MinIdleTimeout less settleReturnMargin
Attempts == 4           \* transitionalRetryAttempts
RetrySleep == 4         \* transitionalRetrySleep
Cap == 30               \* TRANSITION_POLL_CAP_MILLIS
Streak == 6             \* TRANSITION_STABLE_STREAK_MILLIS
Interval == 2           \* TRANSITION_POLL_INTERVAL_MILLIS
NoStreak == Streak + 1

ReadTime == IF platform = "web" THEN {1} ELSE {2, 4}

\* How deep a change goes: into the bytes alone, the text, or which nodes there are.
Kinds == {"layout", "text", "shape"}

TwoRoutes == app.resting \/ app.live

\* Each mutation restarts the quiet period and closes the transition window, which opens
\* anew when the quiet period has passed.
Anchored(left) == [opened |-> TRUE, left |-> left]
Reopened(left) == [opened |-> FALSE, left |-> Window]

\* The script when it starts.
Unsettled ==
  [ timer |-> Quiet, opened |-> Reopened(Window).opened, window |-> Reopened(Window).left,
    budget |-> Budget ]

SettleInit ==
  /\ platform \in {"web", "android"}
  /\ app \in { [ left |-> left, live |-> left > 0, resting |-> resting, fades |-> 0,
                 churns |-> 0 ] : left \in 0..Fade, resting \in BOOLEAN }
  /\ idle = Unsettled
  /\ fetch = [ pc |-> "idle", wait |-> 0, attempt |-> 1, again |-> FALSE, cap |-> 0,
               streak |-> NoStreak, prior |-> FALSE,
               tree |-> [two |-> FALSE, live |-> FALSE, diff |-> {}] ]
  /\ since = [tree |-> {}, read |-> {}, fetch |-> {}]
  /\ unseen = [late |-> FALSE, timedOut |-> FALSE, failed |-> FALSE]

----------------------------------------------------------------------------
(* The app.                                                                *)

Countdown(n) == IF n > 0 THEN n - 1 ELSE 0

Changes(kind) ==
  /\ since' = [tree |-> since.tree \cup {kind}, read |-> since.read \cup {kind},
               fetch |-> since.fetch \cup IF fetch.pc = "idle" THEN {} ELSE {kind}]
  /\ idle' = IF kind = "layout" \/ fetch.pc # "idle" \/ platform = "android" THEN idle
             ELSE [idle EXCEPT !.timer = Quiet, !.opened = Reopened(idle.window).opened,
                               !.window = Reopened(idle.window).left]

Ended == fetch.pc \in {"verified", "held"}

Opens ==
  /\ app.fades < MaxFades /\ ~Ended
  /\ app' = [app EXCEPT !.live = TRUE, !.left = Fade, !.fades = @ + 1]
  /\ Changes("shape")
  /\ unseen' = [unseen EXCEPT !.late = @ \/ fetch.pc # "idle" \/ idle.budget <= Fade]
  /\ UNCHANGED <<platform, fetch>>

Closes ==
  /\ app.live /\ app.left = 0 /\ ~Ended
  /\ app' = [app EXCEPT !.live = FALSE]
  /\ Changes("shape")
  /\ UNCHANGED <<platform, fetch, unseen>>

Churns ==
  /\ app.churns < MaxChurns /\ ~Ended
  /\ app' = [app EXCEPT !.churns = @ + 1]
  /\ \E kind \in Kinds : Changes(kind)
  /\ UNCHANGED <<platform, fetch, unseen>>

\* Time passes while something waits.  The wait on Android ends when it likes.
Tick ==
  /\ ~(app.live /\ app.left = 0)
  /\ \/ fetch.wait > 0
     \/ fetch.pc = "idle" /\ (platform = "android" \/ (idle.timer > 0 /\ idle.budget > 0))
  /\ app' = [app EXCEPT !.left = Countdown(@)]
  /\ idle' = IF fetch.pc # "idle" \/ platform = "android" THEN idle
             ELSE [idle EXCEPT !.timer = Countdown(@), !.budget = Countdown(@),
                               !.window = IF idle.opened THEN Countdown(@) ELSE @]
  /\ fetch' = [fetch EXCEPT !.wait = Countdown(@), !.cap = Countdown(@),
                            !.streak = IF @ = NoStreak THEN @ ELSE Countdown(@)]
  /\ UNCHANGED <<platform, since, unseen>>

----------------------------------------------------------------------------
(* WaitForIdle.                                                            *)

\* Every attempt reads after the wait that leads to it.
Reads(pc, attempt, after) ==
  \E duration \in ReadTime :
    fetch' = [fetch EXCEPT !.pc = pc, !.attempt = attempt, !.wait = after + duration]

Settled ==
  /\ Reads("read", 1, 0)
  /\ idle' = Unsettled
  /\ UNCHANGED <<platform, app, since, unseen>>

\* quiet(): both routes live keep it polling until the window is spent.
QuietEnds ==
  /\ fetch.pc = "idle" /\ platform = "web" /\ idle.timer = 0
  /\ IF TwoRoutes /\ idle.window > 0
     THEN /\ idle' = [idle EXCEPT !.opened = TRUE, !.timer = 1]
          /\ UNCHANGED <<platform, app, fetch, since, unseen>>
     ELSE Settled

BudgetEnds ==
  /\ fetch.pc = "idle" /\ platform = "web" /\ idle.budget = 0
  /\ Settled

WaitForAppToSettle ==
  /\ fetch.pc = "idle" /\ platform = "android"
  /\ Settled

----------------------------------------------------------------------------
(* A snapshot, and the second read that serves the same tree.              *)

\* The tree a read returns: what it shows, and how it differs from the one it will be
\* compared with.
Tree == [two |-> TwoRoutes, live |-> app.live, diff |-> since.tree]

At(pc) == fetch.pc = pc /\ fetch.wait = 0

\* awaitSettledTree: a tree with one route is the answer; two start the poll, which reads
\* its first tree at once.
Read ==
  /\ At("read")
  /\ IF platform = "android" /\ TwoRoutes
     THEN \E duration \in ReadTime :
            fetch' = [fetch EXCEPT !.pc = "prior", !.wait = duration, !.cap = Cap,
                                   !.streak = NoStreak, !.tree = Tree]
     ELSE fetch' = [fetch EXCEPT !.pc = "judge", !.tree = Tree]
  /\ since' = [since EXCEPT !.read = {}]
  /\ UNCHANGED <<platform, app, idle, unseen>>

Answers(state) ==
  fetch' = [state EXCEPT !.pc = "judge", !.cap = 0, !.streak = NoStreak, !.prior = FALSE]

\* The poll goes round while its cap lasts; otherwise the last tree read is the answer.
PollsOn(state) ==
  IF state.cap = 0 THEN Answers(state)
  ELSE \E duration \in ReadTime :
         fetch' = [state EXCEPT !.pc = "poll", !.wait = Interval + duration]

\* stabilitySnapshot is null for two routes.  A read that throws is null too, and leaves
\* the tree in hand.
Prior ==
  /\ At("prior")
  /\ \/ PollsOn([fetch EXCEPT !.tree = Tree, !.prior = ~TwoRoutes])
        /\ since' = [since EXCEPT !.read = {}]
     \/ PollsOn([fetch EXCEPT !.prior = FALSE]) /\ UNCHANGED since
  /\ UNCHANGED <<platform, app, idle, unseen>>

\* The clock of the streak starts with the first read that matched the one before it.
Poll ==
  /\ At("poll")
  /\ LET matched == fetch.prior /\ ~TwoRoutes /\ since.read \subseteq {"layout"}
         read == [fetch EXCEPT !.tree = Tree, !.prior = ~TwoRoutes]
     IN \/ /\ matched /\ fetch.streak = 0
           /\ Answers(read)
           /\ since' = [since EXCEPT !.read = {}]
        \/ /\ matched /\ fetch.streak # 0
           /\ PollsOn([read EXCEPT !.streak = IF @ = NoStreak THEN Streak ELSE @])
           /\ since' = [since EXCEPT !.read = {}]
        \/ /\ ~matched
           /\ PollsOn([read EXCEPT !.streak = NoStreak])
           /\ since' = [since EXCEPT !.read = {}]
        \/ /\ PollsOn([fetch EXCEPT !.prior = FALSE, !.streak = NoStreak])
           /\ UNCHANGED since
  /\ UNCHANGED <<platform, app, idle, unseen>>

\* A first read that fails fails the call: no tree holds the step, and a second read
\* that failed says nothing changed.
ReadFails ==
  /\ At("read")
  /\ fetch' = [fetch EXCEPT !.pc = IF fetch.again THEN "verified" ELSE "held"]
  /\ unseen' = [unseen EXCEPT !.failed = TRUE]
  /\ UNCHANGED <<platform, app, idle, since>>

----------------------------------------------------------------------------
(* fetchSyncedState.                                                       *)

\* A tree in hand that is not transitional, or is the one of the attempt before it.
LooksRestful == ~fetch.tree.two
RestsUnchanged == fetch.attempt > 1 /\ fetch.tree.diff = {}

\* On the web the tree goes to the verifier; on Android it is read once more.
Accept ==
  /\ At("judge") /\ ~fetch.again /\ (LooksRestful \/ RestsUnchanged)
  /\ IF platform = "web" THEN fetch' = [fetch EXCEPT !.pc = "verified"]
     ELSE \E duration \in ReadTime :
            fetch' = [fetch EXCEPT !.pc = "read", !.wait = duration, !.again = TRUE]
  /\ since' = [since EXCEPT !.tree = since.read]
  /\ UNCHANGED <<platform, app, idle, unseen>>

Retry ==
  /\ At("judge") /\ ~fetch.again /\ ~LooksRestful /\ ~RestsUnchanged
  /\ IF fetch.attempt = Attempts
     THEN fetch' = [fetch EXCEPT !.pc = "held"] /\ UNCHANGED since
     ELSE /\ fetch' = [fetch EXCEPT !.pc = "sleep", !.wait = RetrySleep]
          /\ since' = [since EXCEPT !.tree = since.read]
  /\ UNCHANGED <<platform, app, idle, unseen>>

FetchAgain ==
  /\ At("sleep")
  /\ Reads("read", fetch.attempt + 1, 0)
  /\ UNCHANGED <<platform, app, idle, since, unseen>>

\* The observation's deadline in the sleep: the loop is left with the tree in hand, and
\* a second read under the spent context fails.
TimesOut ==
  /\ fetch.pc = "sleep"
  /\ fetch' = [fetch EXCEPT !.pc = "verified"]
  /\ unseen' = [unseen EXCEPT !.timedOut = TRUE]
  /\ UNCHANGED <<platform, app, idle, since>>

\* changedOnReread compares which nodes there are, and neither text nor bounds.
ChangedOnReread ==
  /\ At("judge") /\ fetch.again
  /\ fetch' = [fetch EXCEPT !.pc = IF "shape" \in fetch.tree.diff THEN "held" ELSE "verified"]
  /\ UNCHANGED <<platform, app, idle, since, unseen>>

SettleNext ==
  \/ Opens \/ Closes \/ Churns \/ Tick
  \/ QuietEnds \/ BudgetEnds \/ WaitForAppToSettle
  \/ Read \/ Prior \/ Poll \/ ReadFails
  \/ Accept \/ Retry \/ FetchAgain \/ TimesOut \/ ChangedOnReread

SettleSpec == SettleInit /\ [][SettleNext]_settleVars

----------------------------------------------------------------------------
(* Properties.                                                             *)

SettleTypeOK ==
  /\ app.left \in 0..Fade /\ (~app.live => app.left = 0)
  /\ idle.timer \in 0..Quiet /\ idle.window \in 0..Window /\ idle.budget \in 0..Budget
  /\ fetch.attempt \in 1..Attempts /\ fetch.streak \in 0..NoStreak
  /\ since.tree \subseteq Kinds /\ since.read \subseteq Kinds

\* A tree read in the middle of a cross-fade, of a layout that shows one route at rest, is
\* not given to the verifier, unless the observation timed out, the cross-fade began on the
\* web when the settle was over or could no longer wait for its end, or the second read
\* failed on Android; and a step is held only if a read failed or the screen changed under
\* the reads, so a layout that rests on two routes is verified
\* (chrome/driver.go:830-962, runner.go:1409-1563, DriverBackend.kt:111-188).
VerifiedTreeIsSettled ==
  /\ fetch.pc = "verified" /\ fetch.tree.live /\ ~app.resting =>
       \/ unseen.timedOut
       \/ platform = "web" /\ unseen.late
       \/ platform = "android" /\ unseen.failed
  /\ fetch.pc = "held" => unseen.failed \/ since.fetch # {}
=============================================================================
