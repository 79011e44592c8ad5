----------------------------- MODULE WebSession -----------------------------
(***************************************************************************)
(* One web run's step seen from the three places its evidence passes       *)
(* through: the page (pkg/spec/src/web-runtime.ts runs in it), the Chrome   *)
(* driver that drives the page over CDP, and the step loop of runner.Run.  *)
(*                                                                         *)
(* The page logs, throws and navigates whenever it likes, between any two  *)
(* CDP calls of a step.  A navigation replaces the page's runtime: what    *)
(* the runner had installed in it, the exceptions it had captured and the  *)
(* picker's place in the seed's stream are gone.  A console message        *)
(* reaches the driver some time after the page logged it.  Step loop       *)
(* details that are not about this evidence are in Runner.                 *)
(***************************************************************************)
EXTENDS Naturals, Sequences, FiniteSets

CONSTANTS
  MaxSteps,        \* bounds: steps of the run,
  MaxLogs,         \*   console errors the page logs,
  MaxThrows,       \*   uncaught errors of one document,
  MaxNavigations,  \*   navigations,
  MaxClock         \*   and ticks of the clock that stamps logs and steps

ASSUME WebBounds == MaxSteps \in Nat /\ MaxLogs \in Nat /\ MaxClock \in Nat

VARIABLES
  time,      \* the clock
  page,      \* the document the tab shows
  wire,      \* console errors logged and not yet delivered to the listener
  chrome,    \* chrome.Driver: logs, navigations, pickerState; and the script it registered
  step,      \* runner.Run: its place and the locals that carry evidence
  verifier,  \* what the verifier has been given
  traced,    \* the navigations on the trace's lines, in order
  drawn      \* history: the place in the seed's stream of every draw

webVars == <<time, page, wire, chrome, step, verifier, traced, drawn>>

NoAction == 0   \* lastAction = nil; otherwise the step whose action it is

\* A document with a fresh runtime, or without one when the bundle is not registered.
Document(runtime) ==
  [ runtime |-> runtime, last |-> NoAction, logs |-> {}, thrown |-> 0, position |-> 0 ]

Logged == wire \cup chrome.logs

WebInit ==
  /\ time = 0
  /\ page = Document(FALSE)
  /\ wire = {}
  /\ chrome = [ logs |-> {}, navigations |-> <<>>, opened |-> 0, script |-> FALSE,
                picker |-> 0 ]
  /\ step = [ pc |-> "launch", index |-> 0, start |-> 0, since |-> 0, last |-> NoAction,
              logs |-> {}, navigations |-> <<>>, ran |-> Document(FALSE), thrown |-> 0,
              moved |-> FALSE ]
  /\ verifier = [judged |-> {}, held |-> {}, late |-> {}]
  /\ traced = <<>>
  /\ drawn = <<>>

----------------------------------------------------------------------------
(* The page, and the events it sends.                                      *)

Ticks ==
  /\ time < MaxClock
  /\ time' = time + 1
  /\ UNCHANGED <<page, wire, chrome, step, verifier, traced, drawn>>

LogsError ==
  /\ Cardinality(Logged) < MaxLogs
  /\ wire' = wire \cup {[id |-> Cardinality(Logged) + 1, at |-> time]}
  /\ UNCHANGED <<time, page, chrome, step, verifier, traced, drawn>>

\* The console listener appends under logsMu.
Delivered ==
  /\ \E entry \in wire :
       /\ wire' = wire \ {entry}
       /\ chrome' = [chrome EXCEPT !.logs = @ \cup {entry}]
  /\ UNCHANGED <<time, page, step, verifier, traced, drawn>>

\* recordException: only a page that runs the bundle captures.
Throws ==
  /\ page.runtime /\ page.thrown < MaxThrows
  /\ page' = [page EXCEPT !.thrown = @ + 1]
  /\ UNCHANGED <<time, wire, chrome, step, verifier, traced, drawn>>

\* The main frame loads a document; the registered script runs in it first.
NextDocument ==
  /\ page' = Document(chrome.script)
  /\ chrome' = [chrome EXCEPT !.opened = @ + 1,
                              !.navigations = Append(@, chrome.opened + 1)]

Navigates ==
  /\ step.pc # "launch" /\ chrome.opened <= MaxNavigations
  /\ NextDocument
  /\ step' = [step EXCEPT !.moved = TRUE]
  /\ UNCHANGED <<time, wire, verifier, traced, drawn>>

PageActs == Ticks \/ LogsError \/ Delivered \/ Throws \/ Navigates

----------------------------------------------------------------------------
(* Launch and InstallBundle.                                               *)

\* Launch navigates and then drops the navigations seen so far.
Launch ==
  /\ step.pc = "launch"
  /\ page' = Document(FALSE)
  /\ chrome' = [chrome EXCEPT !.opened = 1, !.navigations = <<>>]
  /\ step' = [step EXCEPT !.pc = "register"]
  /\ UNCHANGED <<time, wire, verifier, traced, drawn>>

RegisterScript ==
  /\ step.pc = "register"
  /\ chrome' = [chrome EXCEPT !.script = TRUE]
  /\ step' = [step EXCEPT !.pc = "install"]
  /\ UNCHANGED <<time, page, wire, verifier, traced, drawn>>

\* The bundle is evaluated in the page there is.  One that navigated after the script
\* was registered has it already, and the second evaluation throws on the globals that
\* the first one locked.
EvaluateBundle ==
  /\ step.pc = "install"
  /\ page' = [page EXCEPT !.runtime = TRUE]
  /\ step' = [step EXCEPT !.pc = IF page.runtime THEN "failed" ELSE "top"]
  /\ UNCHANGED <<time, wire, chrome, verifier, traced, drawn>>

----------------------------------------------------------------------------
(* A step.                                                                 *)

StartStep ==
  /\ step.pc = "top" /\ step.index < MaxSteps
  /\ step' = [step EXCEPT !.pc = "observe", !.index = @ + 1, !.start = time]
  /\ UNCHANGED <<time, page, wire, chrome, verifier, traced, drawn>>

\* RecentLogs: a filter over everything delivered, which nothing is dropped from.
RecentLogs(from) == { entry \in chrome.logs : entry.at >= from }

\* late is history: errors logged in the window of this read and not delivered yet.
CollectLogs ==
  /\ step.pc = "observe"
  /\ step' = [step EXCEPT !.pc = "navigations", !.logs = RecentLogs(step.since)]
  /\ verifier' = [verifier EXCEPT !.late = @ \cup { entry \in wire : entry.at >= step.since }]
  /\ UNCHANGED <<time, page, wire, chrome, traced, drawn>>

\* Navigations drains the driver's list, on every step; then lastLogTime moves to where
\* this step began.  A tree that nothing can vouch for holds the step.
NextWindowFromNow == time
NextWindow == step.start

CollectNavigations ==
  /\ step.pc = "navigations"
  /\ chrome' = [chrome EXCEPT !.navigations = <<>>]
  /\ \E held \in BOOLEAN :
       /\ step' = [step EXCEPT !.navigations = chrome.navigations, !.since = NextWindow,
                               !.pc = IF held THEN "record" ELSE "last"]
       /\ verifier' = [verifier EXCEPT !.held = IF held THEN @ \cup step.logs ELSE @]
  /\ UNCHANGED <<time, page, wire, traced, drawn>>

\* The setters are called unguarded: a page without the runtime fails the run.
Installs(at, next, with) ==
  /\ step.pc = at
  /\ IF page.runtime
     THEN page' = with /\ step' = [step EXCEPT !.pc = next,
                                                !.moved = IF at = "last" THEN FALSE ELSE @]
     ELSE step' = [step EXCEPT !.pc = "failed"] /\ UNCHANGED page
  /\ UNCHANGED <<time, wire, chrome, verifier, traced, drawn>>

SetLastAction == Installs("last", "logs", [page EXCEPT !.last = step.last])

LogsWhenThereAreAny == IF step.logs = {} THEN page.logs ELSE step.logs
InstalledLogs == step.logs

SetLogs == Installs("logs", "extract", [page EXCEPT !.logs = InstalledLogs])

\* EvaluateExtractors: the getters run against the page as it is now.
EvaluateExtractors ==
  /\ step.pc = "extract"
  /\ step' = [step EXCEPT !.pc = IF page.runtime THEN "exceptions" ELSE "failed",
                          !.ran = page]
  /\ UNCHANGED <<time, page, wire, chrome, verifier, traced, drawn>>

\* Exceptions: the page's list; a page without a runtime has none.
CollectExceptions ==
  /\ step.pc = "exceptions"
  /\ step' = [step EXCEPT !.pc = "judge", !.thrown = page.thrown]
  /\ UNCHANGED <<time, page, wire, chrome, verifier, traced, drawn>>

\* PushSnapshot, OverrideExtractorValues, EvaluateProperties.
Judge ==
  /\ step.pc = "judge"
  /\ verifier' = [verifier EXCEPT !.judged = @ \cup step.logs]
  /\ step' = [step EXCEPT !.pc = "choose"]
  /\ UNCHANGED <<time, page, wire, chrome, traced, drawn>>

\* NextActionFromV8: one evaluation puts the carried position back, draws, and reads the
\* new one.  A page without the runtime answers with no action and no position.
StartsOver(position) == position
Restored(position) == IF chrome.picker = 0 THEN position ELSE chrome.picker

NextAction ==
  /\ step.pc = "choose"
  /\ IF page.runtime
     THEN LET at == Restored(page.position)
          IN /\ page' = [page EXCEPT !.position = at + 1]
             /\ chrome' = [chrome EXCEPT !.picker = at + 1]
             /\ drawn' = Append(drawn, at)
             /\ step' = [step EXCEPT !.pc = "apply"]
     ELSE /\ step' = [step EXCEPT !.pc = "record", !.last = NoAction]
          /\ UNCHANGED <<page, chrome, drawn>>
  /\ UNCHANGED <<time, wire, verifier, traced>>

\* The gesture landed or may have, or it reached nothing: pointInView found no element,
\* requireSelectorMatch no node, or the picker declined.
Apply ==
  /\ step.pc = "apply"
  /\ \E last \in {NoAction, step.index} : step' = [step EXCEPT !.pc = "record", !.last = last]
  /\ UNCHANGED <<time, page, wire, chrome, verifier, traced, drawn>>

Record ==
  /\ step.pc = "record"
  /\ traced' = traced \o step.navigations
  /\ step' = [step EXCEPT !.pc = "top", !.navigations = <<>>, !.logs = {}]
  /\ UNCHANGED <<time, page, wire, chrome, verifier, drawn>>

WebNext ==
  \/ PageActs
  \/ Launch \/ RegisterScript \/ EvaluateBundle
  \/ StartStep \/ CollectLogs \/ CollectNavigations
  \/ SetLastAction \/ SetLogs \/ EvaluateExtractors \/ CollectExceptions \/ Judge
  \/ NextAction \/ Apply \/ Record

WebSpec == WebInit /\ [][WebNext]_webVars

----------------------------------------------------------------------------
(* Properties.                                                             *)

WebTypeOK ==
  /\ page.position \in 0..MaxSteps /\ page.last \in 0..step.index
  /\ step.start <= time /\ step.since <= step.start
  /\ page.runtime => chrome.script
  /\ Len(drawn) <= step.index

\* Every draw of a run takes the seed's next number, whatever documents the page goes
\* through: a seed names one run (driver.go:1249-1296).
DrawsFollowTheSeed == \A k \in DOMAIN drawn : drawn[k] = k - 1

\* An error the app logged before the window moved past it has been judged, unless the
\* step that read it was held or it was still on its way when its window was read; and
\* every navigation since the launch is on one line of the trace, in order, or still to
\* be read (runner.go:203-239, 1056-1140; driver.go:109-120, 161-175, 813-828).
EvidenceIsKept ==
  step.pc \in {"top", "record"} =>
    /\ \A entry \in Logged : entry.at < step.since =>
         entry \in verifier.judged \cup verifier.held \cup verifier.late
    /\ traced \o step.navigations \o chrome.navigations =
         [ k \in 1 .. chrome.opened - 1 |-> k + 1 ]

\* The page's getters and the host's state are evaluated against one action, one set of
\* log entries and one list of exceptions; when the page navigated between the installs
\* and the reading, its getters saw none of them and never an earlier step's
\* (runner.go:264-275, source.go:97-121).
EnginesAgree ==
  step.pc = "judge" =>
    /\ step.ran.last \in {NoAction, step.last} /\ step.ran.logs \in {{}, step.logs}
    /\ ~step.moved => /\ step.ran.last = step.last /\ step.ran.logs = step.logs
                      /\ step.ran.thrown <= step.thrown
=============================================================================
