---------------------------- MODULE DriversProofs ----------------------------
(***************************************************************************)
(* Proofs about a web run (WebSession), which keeps its evidence for any   *)
(* number of steps, logs, errors and navigations; about the model that     *)
(* picks the actions (LlmSource), for any trees, screens, routes, memory   *)
(* and number of steps; about what it is offered and what the seeded       *)
(* picker could draw (Candidates), for any tree; and about Drivers, whose  *)
(* behaviours are behaviours of each of its seven parts.                   *)
(***************************************************************************)
EXTENDS Drivers, ScreenProofs, LifeProofs, Induction, SequenceTheorems, FiniteSetTheorems,
        TLAPS

(***************************************************************************)
(* WebSession.                                                             *)
(***************************************************************************)

\* The places of a step, in order.
Reading == {"last", "logs", "extract", "exceptions", "judge"}
WebPlaces == {"launch", "register", "install", "failed", "top", "observe", "navigations",
              "choose", "apply", "record"} \cup Reading

Entries == [id : Nat, at : Nat]
PageType ==
  [ runtime : BOOLEAN, last : Nat, logs : SUBSET Entries, thrown : Nat, position : Nat ]
ChromeType ==
  [ logs : SUBSET Entries, navigations : Seq(Nat), opened : Nat, script : BOOLEAN,
    picker : Nat ]
StepType ==
  [ pc : WebPlaces, index : Nat, start : Nat, since : Nat, last : Nat, logs : SUBSET Entries,
    navigations : Seq(Nat), ran : PageType, thrown : Nat, moved : BOOLEAN ]
VerifierType == [judged : SUBSET Entries, held : SUBSET Entries, late : SUBSET Entries]

WebTyped ==
  /\ time \in Nat /\ page \in PageType /\ wire \subseteq Entries /\ IsFiniteSet(Logged)
  /\ chrome \in ChromeType /\ step \in StepType /\ verifier \in VerifierType
  /\ traced \in Seq(Nat) /\ drawn \in Seq(Nat)

LEMMA FreshDocument == \A runtime \in BOOLEAN : Document(runtime) \in PageType
  BY DEF Document, PageType, NoAction

\* Writing one field of a record keeps its type, and reading one gives the field's.
LEMMA StepFields ==
  /\ \A s \in StepType, x \in WebPlaces : [s EXCEPT !.pc = x] \in StepType
  /\ \A s \in StepType, x \in Nat : [s EXCEPT !.index = x] \in StepType
  /\ \A s \in StepType, x \in Nat : [s EXCEPT !.start = x] \in StepType
  /\ \A s \in StepType, x \in Nat : [s EXCEPT !.since = x] \in StepType
  /\ \A s \in StepType, x \in Nat : [s EXCEPT !.last = x] \in StepType
  /\ \A s \in StepType, x \in SUBSET Entries : [s EXCEPT !.logs = x] \in StepType
  /\ \A s \in StepType, x \in Seq(Nat) : [s EXCEPT !.navigations = x] \in StepType
  /\ \A s \in StepType, x \in PageType : [s EXCEPT !.ran = x] \in StepType
  /\ \A s \in StepType, x \in Nat : [s EXCEPT !.thrown = x] \in StepType
  /\ \A s \in StepType, x \in BOOLEAN : [s EXCEPT !.moved = x] \in StepType
  /\ \A s \in StepType : s.pc \in WebPlaces
  /\ \A s \in StepType : s.index \in Nat
  /\ \A s \in StepType : s.start \in Nat
  /\ \A s \in StepType : s.since \in Nat
  /\ \A s \in StepType : s.last \in Nat
  /\ \A s \in StepType : s.logs \in SUBSET Entries
  /\ \A s \in StepType : s.navigations \in Seq(Nat)
  /\ \A s \in StepType : s.ran \in PageType
  /\ \A s \in StepType : s.thrown \in Nat
  /\ \A s \in StepType : s.moved \in BOOLEAN
  BY DEF StepType

LEMMA ChromeFields ==
  /\ \A c \in ChromeType, x \in SUBSET Entries : [c EXCEPT !.logs = x] \in ChromeType
  /\ \A c \in ChromeType, x \in Seq(Nat) : [c EXCEPT !.navigations = x] \in ChromeType
  /\ \A c \in ChromeType, x \in Nat : [c EXCEPT !.opened = x] \in ChromeType
  /\ \A c \in ChromeType, x \in BOOLEAN : [c EXCEPT !.script = x] \in ChromeType
  /\ \A c \in ChromeType, x \in Nat : [c EXCEPT !.picker = x] \in ChromeType
  /\ \A c \in ChromeType : c.logs \in SUBSET Entries
  /\ \A c \in ChromeType : c.navigations \in Seq(Nat)
  /\ \A c \in ChromeType : c.opened \in Nat
  /\ \A c \in ChromeType : c.script \in BOOLEAN
  /\ \A c \in ChromeType : c.picker \in Nat
  BY DEF ChromeType

LEMMA PageFields ==
  /\ \A p \in PageType, x \in BOOLEAN : [p EXCEPT !.runtime = x] \in PageType
  /\ \A p \in PageType, x \in Nat : [p EXCEPT !.last = x] \in PageType
  /\ \A p \in PageType, x \in SUBSET Entries : [p EXCEPT !.logs = x] \in PageType
  /\ \A p \in PageType, x \in Nat : [p EXCEPT !.thrown = x] \in PageType
  /\ \A p \in PageType, x \in Nat : [p EXCEPT !.position = x] \in PageType
  /\ \A p \in PageType : p.runtime \in BOOLEAN
  /\ \A p \in PageType : p.last \in Nat
  /\ \A p \in PageType : p.logs \in SUBSET Entries
  /\ \A p \in PageType : p.thrown \in Nat
  /\ \A p \in PageType : p.position \in Nat
  BY DEF PageType

LEMMA WebTypedInit == WebInit => WebTyped
<1> SUFFICES ASSUME WebInit PROVE WebTyped
  OBVIOUS
<1> USE DEF WebInit, NoAction
<1>0. <<>> \in Seq(Nat) /\ "launch" \in WebPlaces
  BY DEF WebPlaces
<1>1. page \in PageType
  BY FreshDocument
<1>2. chrome \in ChromeType
  BY DEF ChromeType
<1>3. step \in StepType
  BY <1>0, FreshDocument DEF StepType
<1>4. verifier \in VerifierType
  BY DEF VerifierType
<1>5. Logged = {}
  BY DEF Logged
<1> QED
  BY <1>0, <1>1, <1>2, <1>3, <1>4, <1>5, FS_EmptySet DEF WebTyped

LEMMA WebTypedStep == WebTyped /\ [WebNext]_webVars => WebTyped'
<1> SUFFICES ASSUME WebTyped, [WebNext]_webVars PROVE WebTyped'
  OBVIOUS
<1>t. /\ time \in Nat /\ page \in PageType /\ wire \subseteq Entries /\ IsFiniteSet(Logged)
      /\ chrome \in ChromeType /\ step \in StepType /\ verifier \in VerifierType
      /\ traced \in Seq(Nat) /\ drawn \in Seq(Nat)
  BY DEF WebTyped
<1>p. {"failed", "top", "register", "install", "observe", "navigations", "choose", "apply",
       "record", "last", "logs", "extract", "exceptions", "judge"} \subseteq WebPlaces
  BY DEF WebPlaces, Reading
<1>s. /\ step.index \in Nat /\ step.index + 1 \in Nat /\ step.start \in Nat /\ step.last \in Nat
      /\ step.logs \subseteq Entries /\ step.navigations \in Seq(Nat) /\ step.since \in Nat
      /\ <<>> \in Seq(Nat) /\ 0 \in Nat /\ {} \subseteq Entries
  BY <1>t, StepFields
<1>c. /\ chrome.opened + 1 \in Nat /\ chrome.navigations \in Seq(Nat)
      /\ chrome.logs \subseteq Entries /\ chrome.picker \in Nat /\ chrome.picker + 1 \in Nat
      /\ Append(chrome.navigations, chrome.opened + 1) \in Seq(Nat)
  BY <1>t, ChromeFields
<1>g. /\ page.thrown \in Nat /\ page.thrown + 1 \in Nat /\ page.position + 1 \in Nat
      /\ page.position \in Nat
  BY <1>t, PageFields
<1>1. CASE UNCHANGED webVars
  BY <1>1, <1>t DEF webVars, Logged, WebTyped
<1>2. CASE Ticks
  BY <1>2, <1>t DEF Ticks, Logged, WebTyped
<1>3. CASE Throws
  <2>1. page' \in PageType
    BY <1>3, <1>t, <1>g, PageFields DEF Throws
  <2> QED
    BY <1>3, <1>t, <2>1 DEF Throws, Logged, WebTyped
<1>4. CASE LogsError
  <2>1. Cardinality(Logged) + 1 \in Nat
    BY <1>t, FS_CardinalityType
  <2> DEFINE event == [id |-> Cardinality(Logged) + 1, at |-> time]
  <2>2. event \in Entries
    BY <1>t, <2>1 DEF Entries
  <2>3. wire' = wire \cup {event} /\ Logged' = Logged \cup {event}
    BY <1>4 DEF LogsError, Logged
  <2>4. IsFiniteSet(Logged') /\ wire' \subseteq Entries
    BY <1>t, <2>2, <2>3, FS_AddElement
  <2> QED
    BY <1>4, <1>t, <2>4 DEF LogsError, WebTyped
<1>5. CASE Delivered
  <2>1. PICK event \in wire : /\ wire' = wire \ {event}
                              /\ chrome' = [chrome EXCEPT !.logs = @ \cup {event}]
    BY <1>5 DEF Delivered
  <2>2. chrome'.logs = chrome.logs \cup {event}
    BY <1>t, <2>1 DEF ChromeType
  <2>3. Logged' = Logged
    BY <2>1, <2>2 DEF Logged
  <2>4. chrome' \in ChromeType
    BY <1>t, <1>c, <2>1, ChromeFields
  <2> QED
    BY <1>5, <1>t, <2>1, <2>3, <2>4 DEF Delivered, WebTyped
<1>6. CASE Navigates
  <2>1. page' \in PageType
    BY <1>6, <1>t, ChromeFields, FreshDocument DEF Navigates, NextDocument
  <2>2. chrome' = [chrome EXCEPT !.opened = @ + 1,
                                 !.navigations = Append(@, chrome.opened + 1)]
    BY <1>6 DEF Navigates, NextDocument
  <2>3. chrome' \in ChromeType /\ chrome'.logs = chrome.logs
    BY <1>t, <1>c, <2>2, ChromeFields DEF ChromeType
  <2>4. step' \in StepType
    BY <1>6, <1>t, StepFields DEF Navigates
  <2> QED
    BY <1>6, <1>t, <2>1, <2>3, <2>4 DEF Navigates, Logged, WebTyped
<1>7. CASE Launch
  <2>1. page' \in PageType
    BY <1>7, FreshDocument DEF Launch
  <2>2. chrome' = [chrome EXCEPT !.opened = 1, !.navigations = <<>>]
    BY <1>7 DEF Launch
  <2>3. chrome' \in ChromeType /\ chrome'.logs = chrome.logs
    BY <1>t, <1>s, <2>2, ChromeFields DEF ChromeType
  <2>4. step' \in StepType
    BY <1>7, <1>t, <1>p, StepFields DEF Launch
  <2> QED
    BY <1>7, <1>t, <2>1, <2>3, <2>4 DEF Launch, Logged, WebTyped
<1>8. CASE RegisterScript
  <2>1. chrome' = [chrome EXCEPT !.script = TRUE] /\ step' = [step EXCEPT !.pc = "install"]
    BY <1>8 DEF RegisterScript
  <2>2. chrome' \in ChromeType /\ chrome'.logs = chrome.logs
    BY <1>t, <2>1, ChromeFields DEF ChromeType
  <2>3. step' \in StepType
    BY <1>t, <1>p, <2>1, StepFields
  <2> QED
    BY <1>8, <1>t, <2>2, <2>3 DEF RegisterScript, Logged, WebTyped
<1>9. CASE EvaluateBundle
  <2>1. page' \in PageType
    BY <1>9, <1>t, PageFields DEF EvaluateBundle
  <2>2. step' \in StepType
    BY <1>9, <1>t, <1>p, StepFields DEF EvaluateBundle
  <2> QED
    BY <1>9, <1>t, <2>1, <2>2 DEF EvaluateBundle, Logged, WebTyped
<1>10. CASE StartStep
  <2>1. step' \in StepType
    BY <1>10, <1>t, <1>p, <1>s, StepFields DEF StartStep
  <2> QED
    BY <1>10, <1>t, <2>1 DEF StartStep, Logged, WebTyped
<1>11. CASE CollectLogs
  <2>1. RecentLogs(step.since) \subseteq Entries
    BY <1>c DEF RecentLogs
  <2>2. step' \in StepType
    BY <1>11, <1>t, <1>p, <2>1, StepFields DEF CollectLogs
  <2>3. verifier' \in VerifierType
    BY <1>11, <1>t DEF CollectLogs, VerifierType
  <2> QED
    BY <1>11, <1>t, <2>2, <2>3 DEF CollectLogs, Logged, WebTyped
<1>12. CASE CollectNavigations
  <2>1. PICK held \in BOOLEAN :
          step' = [step EXCEPT !.navigations = chrome.navigations, !.since = step.start,
                               !.pc = IF held THEN "record" ELSE "last"]
    BY <1>12 DEF CollectNavigations, NextWindow
  <2>2. step' \in StepType
    BY <1>t, <1>p, <1>s, <1>c, <2>1, StepFields
  <2>3. verifier' \in VerifierType
    BY <1>12, <1>t, <1>s DEF CollectNavigations, VerifierType
  <2>4. chrome' = [chrome EXCEPT !.navigations = <<>>]
    BY <1>12 DEF CollectNavigations
  <2>5. chrome' \in ChromeType /\ chrome'.logs = chrome.logs
    BY <1>t, <1>s, <2>4, ChromeFields DEF ChromeType
  <2> QED
    BY <1>12, <1>t, <2>2, <2>3, <2>5 DEF CollectNavigations, Logged, WebTyped
<1>13. CASE SetLastAction
  <2>1. /\ page' = page \/ page' = [page EXCEPT !.last = step.last]
        /\ \/ step' = [step EXCEPT !.pc = "logs", !.moved = FALSE]
           \/ step' = [step EXCEPT !.pc = "failed"]
    BY <1>13 DEF SetLastAction, Installs
  <2>2. page' \in PageType
    BY <1>t, <1>s, <2>1, PageFields
  <2>3. [step EXCEPT !.pc = "logs", !.moved = FALSE] \in StepType
    BY <1>t, <1>p, StepFields
  <2>4. [step EXCEPT !.pc = "failed"] \in StepType
    BY <1>t, <1>p, StepFields
  <2>5. step' \in StepType
    BY <2>1, <2>3, <2>4
  <2> QED
    BY <1>13, <1>t, <2>2, <2>5 DEF SetLastAction, Installs, Logged, WebTyped
<1>14. CASE SetLogs
  <2>1. /\ page' = page \/ page' = [page EXCEPT !.logs = step.logs]
        /\ \/ step' = [step EXCEPT !.pc = "extract", !.moved = step.moved]
           \/ step' = [step EXCEPT !.pc = "failed"]
    BY <1>14 DEF SetLogs, Installs, InstalledLogs
  <2>2. page' \in PageType
    <3>1. [page EXCEPT !.logs = step.logs] \in PageType
      BY <1>t, StepFields, PageFields
    <3> QED
      BY <1>t, <2>1, <3>1
  <2>3. [step EXCEPT !.pc = "extract", !.moved = step.moved] \in StepType
    BY <1>t, <1>p, StepFields
  <2>4. [step EXCEPT !.pc = "failed"] \in StepType
    BY <1>t, <1>p, StepFields
  <2>5. step' \in StepType
    BY <2>1, <2>3, <2>4
  <2> QED
    BY <1>14, <1>t, <2>2, <2>5 DEF SetLogs, Installs, Logged, WebTyped
<1>15. CASE EvaluateExtractors
  <2>1. step' \in StepType
    BY <1>15, <1>t, <1>p, StepFields DEF EvaluateExtractors
  <2> QED
    BY <1>15, <1>t, <2>1 DEF EvaluateExtractors, Logged, WebTyped
<1>16. CASE CollectExceptions
  <2>1. step' \in StepType
    BY <1>16, <1>t, <1>p, <1>g, StepFields DEF CollectExceptions
  <2> QED
    BY <1>16, <1>t, <2>1 DEF CollectExceptions, Logged, WebTyped
<1>17. CASE Judge
  <2>1. step' \in StepType
    BY <1>17, <1>t, <1>p, StepFields DEF Judge
  <2>2. verifier' \in VerifierType
    BY <1>17, <1>t, <1>s DEF Judge, VerifierType
  <2> QED
    BY <1>17, <1>t, <2>1, <2>2 DEF Judge, Logged, WebTyped
<1>18. CASE NextAction
  <2>1. CASE page.runtime
    <3> DEFINE at == Restored(page.position)
    <3>1. at \in Nat /\ at + 1 \in Nat
      BY <1>c, <1>g DEF Restored
    <3>2. /\ page' = [page EXCEPT !.position = at + 1]
          /\ chrome' = [chrome EXCEPT !.picker = at + 1]
          /\ drawn' = Append(drawn, at)
          /\ step' = [step EXCEPT !.pc = "apply"]
      BY <1>18, <2>1 DEF NextAction
    <3> HIDE DEF at
    <3>3. page' \in PageType /\ drawn' \in Seq(Nat)
      BY <1>t, <3>1, <3>2, PageFields
    <3>4. chrome' \in ChromeType /\ chrome'.logs = chrome.logs
      BY <1>t, <3>1, <3>2, ChromeFields DEF ChromeType
    <3>5. step' \in StepType
      BY <1>t, <1>p, <3>2, StepFields
    <3> QED
      BY <1>18, <1>t, <3>3, <3>4, <3>5 DEF NextAction, Logged, WebTyped
  <2>2. CASE ~page.runtime
    <3>1. step' = [step EXCEPT !.pc = "record", !.last = 0]
      BY <1>18, <2>2 DEF NextAction, NoAction
    <3>2. step' \in StepType
      BY <1>t, <1>p, <1>s, <3>1, StepFields
    <3> QED
      BY <1>18, <1>t, <2>2, <3>2 DEF NextAction, Logged, WebTyped
  <2> QED
    BY <2>1, <2>2
<1>19. CASE Apply
  <2>1. PICK last \in {0, step.index} : step' = [step EXCEPT !.pc = "record", !.last = last]
    BY <1>19 DEF Apply, NoAction
  <2>2. last \in Nat
    BY <1>s
  <2>3. step' \in StepType
    BY <1>t, <1>p, <2>1, <2>2, StepFields
  <2> QED
    BY <1>19, <1>t, <2>3 DEF Apply, Logged, WebTyped
<1>20. CASE Record
  <2>1. step' \in StepType
    BY <1>20, <1>t, <1>p, <1>s, StepFields DEF Record
  <2> QED
    BY <1>20, <1>t, <1>s, <2>1 DEF Record, Logged, WebTyped
<1> QED
  BY <1>1, <1>2, <1>3, <1>4, <1>5, <1>6, <1>7, <1>8, <1>9, <1>10, <1>11, <1>12, <1>13, <1>14,
     <1>15, <1>16, <1>17, <1>18, <1>19, <1>20 DEF WebNext, PageActs

----------------------------------------------------------------------------
(* The invariants.                                                         *)

\* The driver's place in the seed's stream is the number of draws, and before the first of
\* them every document starts where the stream does.
PickerFollows ==
  /\ chrome.picker = Len(drawn)
  /\ Len(drawn) = 0 => page.position = 0
  /\ DrawsFollowTheSeed

\* What the page's getters read is what this step installed or what a fresh document has.
PageFollows ==
  /\ step.pc \in {"logs", "extract"} =>
       /\ page.last \in {NoAction, step.last}
       /\ ~step.moved => page.last = step.last
  /\ step.pc = "extract" =>
       /\ page.logs \in {{}, step.logs}
       /\ ~step.moved => page.logs = step.logs
  /\ step.pc = "exceptions" =>
       /\ step.ran.last \in {NoAction, step.last} /\ step.ran.logs \in {{}, step.logs}
       /\ ~step.moved => /\ step.ran.last = step.last /\ step.ran.logs = step.logs
                         /\ step.ran.thrown <= page.thrown
  /\ EnginesAgree

Retained == verifier.judged \cup verifier.held \cup verifier.late

\* The window only moves forward, and what it has passed is kept, or is in the hands of
\* the step that read it and has not judged it yet.
WindowFollows ==
  /\ step.since <= step.start /\ step.start <= time
  /\ step.pc = "navigations" =>
       \A event \in Logged : event.at < step.start => event \in Retained \cup step.logs
  /\ step.pc \in Reading =>
       \A event \in Logged : event.at < step.since => event \in Retained \cup step.logs
  /\ step.pc \notin {"navigations", "failed"} \cup Reading =>
       \A event \in Logged : event.at < step.since => event \in Retained

\* The navigations after the launch's, in order.
Opened(n) == [k \in 1 .. n - 1 |-> k + 1]

\* No navigation is lost or doubled on its way from the driver's list to the trace.
NavigationsFollow ==
  /\ step.pc = "launch" =>
       chrome.opened = 0 /\ chrome.navigations = <<>> /\ traced = <<>>
  /\ step.pc # "launch" =>
       /\ chrome.opened > 0
       /\ traced \o step.navigations \o chrome.navigations = Opened(chrome.opened)
  /\ step.pc \in {"launch", "register", "install", "top", "observe", "navigations"} =>
       step.navigations = <<>>

\* A step draws once at most, and what the page holds of a run is behind where the run is;
\* the runtime is in a page only once the script is registered.
CountersBounded ==
  /\ step.index <= MaxSteps /\ page.last <= step.index /\ step.last <= step.index
  /\ page.position <= Len(drawn) /\ Len(drawn) <= step.index
  /\ step.pc \in {"observe", "navigations", "choose"} \cup Reading => Len(drawn) < step.index
  /\ page.runtime => chrome.script
  /\ step.pc \notin {"launch", "register"} => chrome.script

WebInv ==
  /\ WebTyped /\ PickerFollows /\ PageFollows /\ WindowFollows /\ NavigationsFollow
  /\ CountersBounded

LEMMA PickerInit == WebInit => PickerFollows
  BY DEF WebInit, PickerFollows, DrawsFollowTheSeed, Document

LEMMA PickerStep == WebTyped /\ PickerFollows /\ [WebNext]_webVars => PickerFollows'
<1> SUFFICES ASSUME WebTyped, PickerFollows, [WebNext]_webVars PROVE PickerFollows'
  OBVIOUS
<1>t. page \in PageType /\ chrome \in ChromeType /\ drawn \in Seq(Nat)
  BY DEF WebTyped
<1> USE DEF PickerFollows, DrawsFollowTheSeed
<1>1. CASE NextAction
  <2>1. CASE page.runtime
    <3> DEFINE at == Restored(page.position)
    <3>1. at = Len(drawn)
      BY <1>t DEF Restored
    <3>2. /\ chrome' = [chrome EXCEPT !.picker = at + 1]
          /\ drawn' = Append(drawn, at)
      BY <1>1, <2>1 DEF NextAction
    <3> HIDE DEF at
    <3>3. chrome'.picker = Len(drawn')
      BY <1>t, <3>1, <3>2 DEF ChromeType
    <3>4. \A k \in DOMAIN drawn' : drawn'[k] = k - 1
      BY <1>t, <3>1, <3>2
    <3> QED
      BY <1>t, <3>1, <3>2, <3>3, <3>4
  <2>2. CASE ~page.runtime
    BY <1>1, <2>2 DEF NextAction
  <2> QED
    BY <2>1, <2>2
<1>2. CASE ~NextAction
  <2>1. drawn' = drawn /\ chrome'.picker = chrome.picker
    BY <1>2, <1>t DEF ChromeType, WebNext, webVars, PageActs, Ticks, LogsError, Delivered, Throws,
       Navigates, NextDocument, Launch, RegisterScript, EvaluateBundle, StartStep, CollectLogs,
       CollectNavigations, SetLastAction, SetLogs, Installs, EvaluateExtractors,
       CollectExceptions, Judge, Apply, Record
  <2>2. page'.position = 0 \/ page'.position = page.position
    <3>1. CASE Navigates \/ Launch
      BY <3>1 DEF Document, Navigates, NextDocument, Launch
    <3>2. CASE Throws \/ EvaluateBundle \/ SetLastAction \/ SetLogs
      BY <3>2, <1>t DEF PageType, Throws, EvaluateBundle, SetLastAction, SetLogs, Installs
    <3>3. CASE UNCHANGED page
      BY <3>3
    <3> QED
      BY <1>2, <3>1, <3>2, <3>3 DEF WebNext, webVars, PageActs, Ticks, LogsError, Delivered,
         RegisterScript, StartStep, CollectLogs, CollectNavigations, EvaluateExtractors,
         CollectExceptions, Judge, Apply, Record
  <2> QED
    BY <2>1, <2>2
<1> QED
  BY <1>1, <1>2

LEMMA PageInit == WebInit => PageFollows
  BY DEF WebInit, PageFollows, EnginesAgree

LEMMA PageStep == WebTyped /\ PageFollows /\ [WebNext]_webVars => PageFollows'
<1> SUFFICES ASSUME WebTyped, PageFollows, [WebNext]_webVars PROVE PageFollows'
  OBVIOUS
<1>t. page \in PageType /\ step \in StepType /\ step.pc \in WebPlaces
  BY StepFields DEF WebTyped
<1> USE DEF PageFollows, EnginesAgree, NoAction
<1>1. CASE UNCHANGED <<page, step>>
  BY <1>1
<1>2. CASE Throws
  <2>1. /\ page'.last = page.last /\ page'.logs = page.logs /\ page'.thrown = page.thrown + 1
        /\ step' = step /\ page.thrown \in Nat /\ step.ran.thrown \in Nat
    BY <1>2, <1>t, StepFields, PageFields DEF Throws, PageType
  <2> QED
    BY <2>1
<1>3. CASE Navigates
  <2>1. /\ page'.last = 0 /\ page'.logs = {}
        /\ step'.moved = TRUE /\ step'.pc = step.pc /\ step'.last = step.last
        /\ step'.logs = step.logs /\ step'.ran = step.ran /\ step'.thrown = step.thrown
    BY <1>3, <1>t DEF Navigates, NextDocument, Document, StepType
  <2> QED
    BY <2>1
<1>4. CASE SetLastAction
  <2>1. CASE page.runtime
    <3>1. page' = [page EXCEPT !.last = step.last] /\ step' = [step EXCEPT !.pc = "logs", !.moved = FALSE]
      BY <1>4, <2>1 DEF SetLastAction, Installs
    <3>2. page'.last = step.last /\ step'.last = step.last /\ step'.pc = "logs"
      BY <1>t, <3>1 DEF PageType, StepType
    <3> QED
      BY <3>2
  <2>2. CASE ~page.runtime
    <3>1. step'.pc = "failed"
      BY <1>4, <1>t, <2>2 DEF SetLastAction, Installs, StepType
    <3> QED
      BY <3>1
  <2> QED
    BY <2>1, <2>2
<1>5. CASE SetLogs
  <2>1. CASE page.runtime
    <3>1. /\ page' = [page EXCEPT !.logs = step.logs]
          /\ step' = [step EXCEPT !.pc = "extract", !.moved = step.moved] /\ step.pc = "logs"
      BY <1>5, <2>1 DEF SetLogs, Installs, InstalledLogs
    <3>2. /\ page'.last = page.last /\ page'.logs = step.logs
          /\ step'.last = step.last /\ step'.logs = step.logs /\ step'.pc = "extract"
          /\ step'.moved = step.moved
      BY <1>t, <3>1 DEF PageType, StepType
    <3> QED
      BY <3>1, <3>2
  <2>2. CASE ~page.runtime
    <3>1. step'.pc = "failed"
      BY <1>5, <1>t, <2>2 DEF SetLogs, Installs, StepType
    <3> QED
      BY <3>1
  <2> QED
    BY <2>1, <2>2
<1>6. CASE EvaluateExtractors
  <2>1. CASE page.runtime
    <3>1. step' = [step EXCEPT !.pc = "exceptions", !.ran = page] /\ step.pc = "extract" /\ page' = page
      BY <1>6, <2>1 DEF EvaluateExtractors
    <3>2. /\ step'.pc = "exceptions" /\ step'.ran = page /\ step'.last = step.last
          /\ step'.logs = step.logs /\ step'.moved = step.moved
      BY <1>t, <3>1 DEF StepType
    <3>3. page.thrown \in Nat
      BY <1>t, PageFields
    <3> QED
      BY <3>1, <3>2, <3>3
  <2>2. CASE ~page.runtime
    <3>1. step'.pc = "failed"
      BY <1>6, <1>t, <2>2 DEF EvaluateExtractors, StepType
    <3> QED
      BY <3>1
  <2> QED
    BY <2>1, <2>2
<1>7. CASE CollectExceptions
  <2>1. /\ step'.pc = "judge" /\ step'.ran = step.ran /\ step'.last = step.last
        /\ step'.logs = step.logs /\ step'.moved = step.moved /\ step'.thrown = page.thrown
        /\ step.pc = "exceptions"
    BY <1>7, <1>t DEF CollectExceptions, StepType
  <2> QED
    BY <2>1
<1>8. CASE \/ Launch \/ RegisterScript \/ EvaluateBundle \/ StartStep \/ CollectLogs
           \/ CollectNavigations \/ Judge \/ NextAction \/ Apply \/ Record
  <2>1. step'.pc \in WebPlaces \ {"logs", "extract", "exceptions", "judge"}
    <3>1. CASE Launch \/ RegisterScript \/ EvaluateBundle
      BY <1>t, <3>1 DEF Launch, RegisterScript, EvaluateBundle, StepType, WebPlaces, Reading
    <3>2. CASE StartStep \/ CollectLogs \/ CollectNavigations
      BY <1>t, <3>2 DEF StartStep, CollectLogs, CollectNavigations, StepType, WebPlaces, Reading
    <3>3. CASE Judge \/ NextAction
      BY <1>t, <3>3 DEF Judge, NextAction, StepType, WebPlaces, Reading
    <3>4. CASE Apply \/ Record
      BY <1>t, <3>4 DEF Apply, Record, StepType, WebPlaces, Reading
    <3> QED BY <1>8, <3>1, <3>2, <3>3, <3>4
  <2> QED
    BY <2>1
<1> QED
  BY <1>1, <1>2, <1>3, <1>4, <1>5, <1>6, <1>7, <1>8
  DEF WebNext, PageActs, webVars, Ticks, LogsError, Delivered

LEMMA WindowInit == WebInit => WindowFollows
  BY DEF WebInit, WindowFollows, Reading, Logged

LEMMA WindowStep == WebTyped /\ WindowFollows /\ [WebNext]_webVars => WindowFollows'
<1> SUFFICES ASSUME WebTyped, WindowFollows, [WebNext]_webVars PROVE WindowFollows'
  OBVIOUS
<1>t. /\ time \in Nat /\ chrome \in ChromeType /\ step \in StepType /\ verifier \in VerifierType
      /\ step.start \in Nat /\ step.since \in Nat /\ step.pc \in WebPlaces
      /\ \A event \in Logged : event \in Entries /\ event.at \in Nat
  BY StepFields, ChromeFields DEF WebTyped, Logged, Entries
<1> USE DEF WindowFollows, Retained
<1>l. CASE LogsError
  <2> DEFINE new == [id |-> Cardinality(Logged) + 1, at |-> time]
  <2>1. Logged' = Logged \cup {new} /\ new.at = time
    BY <1>l DEF LogsError, Logged
  <2>2. UNCHANGED <<time, step, verifier>>
    BY <1>l DEF LogsError
  <2> HIDE DEF new
  <2> QED
    BY <1>t, <2>1, <2>2
<1>d. CASE Delivered
  <2>1. PICK event \in wire : /\ wire' = wire \ {event}
                              /\ chrome' = [chrome EXCEPT !.logs = @ \cup {event}]
    BY <1>d DEF Delivered
  <2>2. Logged' = Logged
    BY <1>t, <2>1 DEF Logged, ChromeType
  <2> QED
    BY <2>2, <1>d DEF Delivered
<1>k. CASE Ticks
  BY <1>k, <1>t DEF Ticks, Logged
<1>n. CASE UNCHANGED <<time, wire, chrome, step, verifier>>
  BY <1>n DEF Logged
<1>o. CASE ~LogsError /\ ~Delivered /\ ~Ticks
  <2>1. Logged' = Logged /\ time' = time
    BY <1>o, <1>t DEF Logged, ChromeType, WebNext, webVars, PageActs, Throws,
       Navigates, NextDocument, Launch, RegisterScript, EvaluateBundle, StartStep, CollectLogs,
       CollectNavigations, SetLastAction, SetLogs, Installs, EvaluateExtractors,
       CollectExceptions, Judge, NextAction, Apply, Record
  <2>2. CASE Navigates
    BY <1>t, <2>1, <2>2 DEF Navigates, StepType
  <2>3. CASE StartStep
    <3>1. /\ step.pc = "top" /\ step'.pc = "observe" /\ step'.start = time
          /\ step'.since = step.since /\ verifier' = verifier
      BY <2>3, <1>t DEF StartStep, StepType
    <3> QED
      BY <1>t, <2>1, <3>1 DEF Reading
  <2>4. CASE CollectLogs
    <3>1. /\ step.pc = "observe" /\ step'.pc = "navigations" /\ step'.start = step.start
          /\ step'.since = step.since /\ step'.logs = RecentLogs(step.since)
          /\ Retained' = Retained \cup {event \in wire : event.at >= step.since}
      BY <2>4, <1>t DEF CollectLogs, StepType, VerifierType
    <3>2. \A event \in Logged : event \in Retained' \cup step'.logs
      BY <1>t, <3>1 DEF Logged, RecentLogs, Reading
    <3> QED
      BY <1>t, <2>1, <3>1, <3>2 DEF Reading
  <2>5. CASE CollectNavigations
    <3>1. PICK held \in BOOLEAN :
            /\ step' = [step EXCEPT !.navigations = chrome.navigations, !.since = step.start,
                                    !.pc = IF held THEN "record" ELSE "last"]
            /\ verifier' = [verifier EXCEPT !.held = IF held THEN @ \cup step.logs ELSE @]
      BY <2>5 DEF CollectNavigations, NextWindow
    <3>2. /\ step.pc = "navigations" /\ step'.start = step.start /\ step'.since = step.start
          /\ step'.logs = step.logs /\ step'.pc = IF held THEN "record" ELSE "last"
          /\ Retained' = IF held THEN Retained \cup step.logs ELSE Retained
      BY <2>5, <3>1, <1>t DEF CollectNavigations, StepType, VerifierType
    <3> QED
      BY <1>t, <2>1, <3>2 DEF Reading
  <2>6. CASE Judge
    <3>1. /\ step.pc = "judge" /\ step'.pc = "choose" /\ step'.start = step.start
          /\ step'.since = step.since /\ Retained' = Retained \cup step.logs
      BY <2>6, <1>t DEF Judge, StepType, VerifierType
    <3> QED
      BY <1>t, <2>1, <3>1 DEF Reading
  <2>7. CASE SetLastAction \/ SetLogs \/ EvaluateExtractors \/ CollectExceptions
    <3>1. /\ step.pc \in Reading /\ step'.pc \in Reading \cup {"failed"}
          /\ step'.start = step.start /\ step'.since = step.since /\ step'.logs = step.logs
          /\ verifier' = verifier
      <4>1. CASE SetLastAction
        BY <1>t, <4>1 DEF SetLastAction, Installs, StepType, Reading
      <4>2. CASE SetLogs
        BY <1>t, <4>2 DEF SetLogs, Installs, StepType, Reading
      <4>3. CASE EvaluateExtractors
        BY <1>t, <4>3 DEF EvaluateExtractors, StepType, Reading
      <4>4. CASE CollectExceptions
        BY <1>t, <4>4 DEF CollectExceptions, StepType, Reading
      <4> QED BY <2>7, <4>1, <4>2, <4>3, <4>4
    <3> QED
      BY <1>t, <2>1, <3>1 DEF Reading
  <2>8. CASE Launch \/ RegisterScript \/ EvaluateBundle \/ NextAction \/ Apply \/ Record
    <3>1. /\ step.pc \notin Reading \cup {"navigations", "failed"}
          /\ step'.pc \notin Reading \cup {"navigations"}
          /\ step'.start = step.start /\ step'.since = step.since
          /\ verifier' = verifier
      <4>1. CASE Launch \/ RegisterScript \/ EvaluateBundle
        BY <1>t, <4>1 DEF Launch, RegisterScript, EvaluateBundle, StepType, Reading
      <4>2. CASE NextAction
        BY <1>t, <4>2 DEF NextAction, StepType, Reading
      <4>3. CASE Apply \/ Record
        BY <1>t, <4>3 DEF Apply, Record, StepType, Reading
      <4> QED BY <2>8, <4>1, <4>2, <4>3
    <3> QED
      BY <1>t, <2>1, <3>1 DEF Reading
  <2> QED
    BY <1>n, <1>o, <2>1, <2>2, <2>3, <2>4, <2>5, <2>6, <2>7, <2>8
    DEF WebNext, PageActs, webVars, Throws
<1> QED
  BY <1>l, <1>d, <1>k, <1>o

\* One more navigation at the end of the list is the list of one more.
LEMMA OpenedGrows ==
  ASSUME NEW n \in Nat, n > 0, NEW t \in Seq(Nat), NEW s \in Seq(Nat), NEW c \in Seq(Nat),
         t \o s \o c = Opened(n)
  PROVE  t \o s \o Append(c, n + 1) = Opened(n + 1)
<1> DEFINE before == t \o s
<1>0. before \in Seq(Nat) /\ n + 1 \in Nat /\ <<n + 1>> \in Seq(Nat)
  BY ConcatProperties
<1> HIDE DEF before
<1>1. Append(c, n + 1) = c \o <<n + 1>>
  BY <1>0, AppendIsConcat
<1>2. before \o Append(c, n + 1) = (before \o c) \o <<n + 1>>
  BY <1>0, <1>1, ConcatAssociative
<1>3. before \o c \in Seq(Nat)
  BY <1>0, ConcatProperties
<1>4. Opened(n) \in Seq(Nat) /\ Len(Opened(n)) = n - 1
  BY <1>3 DEF Opened, before
<1>5. Opened(n) \o <<n + 1>> = Opened(n + 1)
  <2> DEFINE more == Opened(n) \o <<n + 1>>
  <2>1. more = Append(Opened(n), n + 1)
    BY <1>4, AppendIsConcat
  <2>2. /\ more \in Seq(Nat) /\ Len(more) = n
        /\ \A k \in 1 .. n - 1 : more[k] = k + 1
        /\ more[n] = n + 1
    BY <1>4, <2>1, AppendProperties DEF Opened
  <2>3. Opened(n + 1) = [k \in 1 .. n |-> k + 1]
    BY DEF Opened
  <2>4. \A k \in 1 .. n : more[k] = k + 1
    BY <2>2
  <2>5. more = [k \in 1 .. n |-> more[k]]
    BY <2>2
  <2> HIDE DEF more
  <2>6. [k \in 1 .. n |-> more[k]] = [k \in 1 .. n |-> k + 1]
    BY <2>4
  <2> QED
    BY <2>3, <2>5, <2>6 DEF more
<1> QED
  BY <1>2, <1>5 DEF before

LEMMA NavigationInit == WebInit => NavigationsFollow
  BY DEF WebInit, NavigationsFollow

LEMMA NavigationStep == WebTyped /\ NavigationsFollow /\ [WebNext]_webVars => NavigationsFollow'
<1> SUFFICES ASSUME WebTyped, NavigationsFollow, [WebNext]_webVars PROVE NavigationsFollow'
  OBVIOUS
<1>t. /\ chrome \in ChromeType /\ step \in StepType /\ step.pc \in WebPlaces
      /\ chrome.opened \in Nat /\ chrome.navigations \in Seq(Nat) /\ step.navigations \in Seq(Nat)
      /\ traced \in Seq(Nat) /\ <<>> \in Seq(Nat)
  BY StepFields, ChromeFields DEF WebTyped
<1> USE DEF NavigationsFollow
<1>1. CASE Navigates
  <2>1. /\ step.pc # "launch" /\ step'.pc = step.pc /\ step'.navigations = step.navigations
        /\ chrome'.opened = chrome.opened + 1 /\ traced' = traced
        /\ chrome'.navigations = Append(chrome.navigations, chrome.opened + 1)
    BY <1>1, <1>t DEF Navigates, NextDocument, StepType, ChromeType
  <2>2. traced \o step.navigations \o chrome.navigations = Opened(chrome.opened)
        /\ chrome.opened > 0
    BY <2>1
  <2>3. traced \o step.navigations \o Append(chrome.navigations, chrome.opened + 1)
          = Opened(chrome.opened + 1)
    BY <1>t, <2>2, OpenedGrows
  <2>4. chrome'.opened > 0 /\ step'.pc # "launch"
    BY <1>t, <2>1
  <2>5. traced' \o step'.navigations \o chrome'.navigations = Opened(chrome'.opened)
    BY <2>1, <2>3
  <2>6. step'.pc \in {"register", "install", "top", "observe", "navigations"} =>
          step'.navigations = <<>>
    BY <2>1
  <2> QED
    BY <2>4, <2>5, <2>6
<1>2. CASE Launch
  <2>1. /\ step.pc = "launch" /\ step'.pc = "register" /\ step'.navigations = step.navigations
        /\ chrome'.opened = 1 /\ traced' = traced /\ chrome'.navigations = <<>>
    BY <1>2, <1>t DEF Launch, StepType, ChromeType
  <2>2. traced' = <<>> /\ step'.navigations = <<>> /\ <<>> \o <<>> = <<>>
    BY <1>t, <2>1, ConcatEmptySeq
  <2>3. Opened(1) = <<>>
    BY DEF Opened
  <2> QED
    BY <2>1, <2>2, <2>3
<1>3. CASE CollectNavigations
  <2>1. PICK held \in BOOLEAN :
          step' = [step EXCEPT !.navigations = chrome.navigations, !.since = step.start,
                               !.pc = IF held THEN "record" ELSE "last"]
    BY <1>3 DEF CollectNavigations, NextWindow
  <2>2. /\ step.pc = "navigations" /\ step'.pc \in {"record", "last"}
        /\ step'.navigations = chrome.navigations
        /\ chrome'.opened = chrome.opened /\ traced' = traced /\ chrome'.navigations = <<>>
    BY <1>3, <1>t, <2>1 DEF CollectNavigations, StepType, ChromeType
  <2>3. traced \o chrome.navigations = Opened(chrome.opened)
    BY <1>t, <2>2, ConcatEmptySeq
  <2>4. traced \o chrome.navigations \o <<>> = Opened(chrome.opened)
    BY <1>t, <2>3, ConcatProperties, ConcatEmptySeq
  <2> QED
    BY <2>2, <2>4
<1>4. CASE Record
  <2>1. /\ step.pc = "record" /\ step'.pc = "top" /\ step'.navigations = <<>>
        /\ chrome' = chrome /\ traced' = traced \o step.navigations
    BY <1>4, <1>t DEF Record, StepType
  <2>2. traced' \o <<>> = traced'
    BY <1>t, <2>1, ConcatProperties, ConcatEmptySeq
  <2> QED
    BY <2>1, <2>2
<1>5. CASE UNCHANGED <<chrome, step, traced>>
  BY <1>5
<1>6. CASE \/ Delivered \/ RegisterScript \/ EvaluateBundle \/ StartStep \/ CollectLogs
           \/ SetLastAction \/ SetLogs \/ EvaluateExtractors \/ CollectExceptions \/ Judge
           \/ NextAction \/ Apply
  <2>1. /\ step'.navigations = step.navigations /\ traced' = traced
        /\ chrome'.opened = chrome.opened /\ chrome'.navigations = chrome.navigations
    <3>1. CASE Delivered \/ RegisterScript \/ EvaluateBundle
      BY <1>t, <3>1 DEF Delivered, RegisterScript, EvaluateBundle, StepType, ChromeType
    <3>2. CASE StartStep \/ CollectLogs
      BY <1>t, <3>2 DEF StartStep, CollectLogs, StepType, ChromeType
    <3>3. CASE SetLastAction \/ SetLogs
      BY <1>t, <3>3 DEF SetLastAction, SetLogs, Installs, StepType, ChromeType
    <3>4. CASE EvaluateExtractors \/ CollectExceptions
      BY <1>t, <3>4 DEF EvaluateExtractors, CollectExceptions, StepType, ChromeType
    <3>5. CASE Judge \/ NextAction \/ Apply
      BY <1>t, <3>5 DEF Judge, NextAction, Apply, StepType, ChromeType
    <3> QED BY <1>6, <3>1, <3>2, <3>3, <3>4, <3>5
  <2>2. /\ step'.pc = "launch" <=> step.pc = "launch"
        /\ step'.pc \in {"register", "install", "top", "observe", "navigations"} =>
             step.pc \in {"register", "install", "top", "observe", "navigations"}
    <3>1. CASE Delivered \/ RegisterScript \/ EvaluateBundle
      BY <1>t, <3>1 DEF Delivered, RegisterScript, EvaluateBundle, StepType, ChromeType
    <3>2. CASE StartStep \/ CollectLogs
      BY <1>t, <3>2 DEF StartStep, CollectLogs, StepType, ChromeType
    <3>3. CASE SetLastAction \/ SetLogs
      BY <1>t, <3>3 DEF SetLastAction, SetLogs, Installs, StepType, ChromeType
    <3>4. CASE EvaluateExtractors \/ CollectExceptions
      BY <1>t, <3>4 DEF EvaluateExtractors, CollectExceptions, StepType, ChromeType
    <3>5. CASE Judge \/ NextAction \/ Apply
      BY <1>t, <3>5 DEF Judge, NextAction, Apply, StepType, ChromeType
    <3> QED BY <1>6, <3>1, <3>2, <3>3, <3>4, <3>5
  <2> QED
    BY <2>1, <2>2
<1> QED
  BY <1>1, <1>2, <1>3, <1>4, <1>5, <1>6
  DEF WebNext, PageActs, webVars, Ticks, LogsError, Throws

LEMMA CountersInit == WebInit => CountersBounded
<1> SUFFICES ASSUME WebInit PROVE CountersBounded
  OBVIOUS
<1>1. /\ step.pc = "launch" /\ step.index = 0 /\ step.last = 0 /\ Len(drawn) = 0
      /\ page.last = 0 /\ page.position = 0 /\ ~page.runtime
  BY DEF WebInit, Document, NoAction
<1> QED
  BY <1>1, WebBounds DEF CountersBounded, Reading

\* The fields of the page, of the driver and of the step that the bounds are about, when
\* only the place moves.
LEMMA CountersStill ==
  ASSUME CountersBounded, drawn' = drawn,
         step'.index = step.index, step'.last = step.last,
         page'.last = page.last, page'.position = page.position,
         page'.runtime = page.runtime, chrome'.script = chrome.script,
         step'.pc \in {"observe", "navigations", "choose"} \cup Reading =>
           step.pc \in {"observe", "navigations", "choose"} \cup Reading,
         step'.pc \notin {"launch", "register"} => step.pc \notin {"launch", "register"}
  PROVE  CountersBounded'
  BY DEF CountersBounded

LEMMA CountersStep ==
  WebTyped /\ PickerFollows /\ CountersBounded /\ [WebNext]_webVars => CountersBounded'
<1> SUFFICES ASSUME WebTyped, PickerFollows, CountersBounded, [WebNext]_webVars
             PROVE  CountersBounded'
  OBVIOUS
<1>t. /\ page \in PageType /\ chrome \in ChromeType /\ step \in StepType
      /\ drawn \in Seq(Nat)
  BY DEF WebTyped
<1>n. /\ step.index \in Nat /\ step.last \in Nat /\ page.last \in Nat
      /\ page.position \in Nat /\ Len(drawn) \in Nat /\ chrome.picker \in Nat
  BY <1>t, StepFields, ChromeFields, PageFields
<1>b. MaxSteps \in Nat
  BY WebBounds
<1>1. CASE Ticks \/ LogsError \/ UNCHANGED webVars
  BY <1>1 DEF Ticks, LogsError, webVars, CountersBounded
<1>2. CASE Delivered
  <2>1. chrome'.script = chrome.script /\ UNCHANGED <<page, step, drawn>>
    BY <1>2, <1>t DEF Delivered, ChromeType
  <2> QED
    BY <2>1, CountersStill
<1>3. CASE Throws
  <2>1. /\ page'.last = page.last /\ page'.position = page.position
        /\ page'.runtime = page.runtime /\ UNCHANGED <<chrome, step, drawn>>
    BY <1>3, <1>t DEF Throws, PageType
  <2> QED
    BY <2>1, CountersStill
<1>4. CASE Navigates \/ Launch
  <2>1. page'.last = 0 /\ page'.position = 0 /\ drawn' = drawn
    BY <1>4 DEF Navigates, NextDocument, Launch, Document, NoAction
  <2>2. /\ chrome'.script = chrome.script /\ (page'.runtime => chrome.script)
        /\ step'.index = step.index /\ step'.last = step.last
        /\ step'.pc = step.pc \/ step'.pc = "register"
    <3>1. CASE Navigates
      BY <1>t, <3>1 DEF Navigates, NextDocument, Document, ChromeType, StepType
    <3>2. CASE Launch
      BY <1>t, <3>2 DEF Launch, Document, ChromeType, StepType
    <3> QED
      BY <1>4, <3>1, <3>2
  <2> QED
    BY <1>n, <2>1, <2>2 DEF CountersBounded, Reading
<1>5. CASE RegisterScript
  <2>1. /\ chrome'.script /\ step'.pc = "install" /\ UNCHANGED <<page, drawn>>
        /\ step'.index = step.index /\ step'.last = step.last
    BY <1>5, <1>t DEF RegisterScript, ChromeType, StepType
  <2> QED
    BY <2>1 DEF CountersBounded, Reading
<1>6. CASE EvaluateBundle
  <2>1. /\ step.pc = "install" /\ page'.last = page.last /\ page'.position = page.position
        /\ step'.pc \in {"top", "failed"} /\ UNCHANGED <<chrome, drawn>>
        /\ step'.index = step.index /\ step'.last = step.last
    BY <1>6, <1>t DEF EvaluateBundle, PageType, StepType
  <2> QED
    BY <2>1 DEF CountersBounded, Reading
<1>7. CASE StartStep
  <2>1. /\ step.pc = "top" /\ step.index < MaxSteps /\ step'.index = step.index + 1
        /\ step'.last = step.last /\ UNCHANGED <<page, chrome, drawn>>
    BY <1>7, <1>t DEF StartStep, StepType
  <2>2. step'.index <= MaxSteps /\ page.last <= step'.index /\ step.last <= step'.index
    BY <1>b, <1>n, <2>1 DEF CountersBounded
  <2>3. Len(drawn) < step'.index
    BY <1>n, <2>1 DEF CountersBounded
  <2> QED
    BY <1>n, <2>1, <2>2, <2>3 DEF CountersBounded
<1>8. CASE CollectLogs
  <2>1. /\ step.pc = "observe" /\ UNCHANGED <<page, chrome, drawn>>
        /\ step'.index = step.index /\ step'.last = step.last
    BY <1>8, <1>t DEF CollectLogs, StepType
  <2> QED
    BY <2>1, CountersStill
<1>9. CASE CollectNavigations
  <2>1. PICK held \in BOOLEAN :
          step' = [step EXCEPT !.navigations = chrome.navigations, !.since = NextWindow,
                               !.pc = IF held THEN "record" ELSE "last"]
    BY <1>9 DEF CollectNavigations
  <2>2. /\ step.pc = "navigations" /\ UNCHANGED <<page, drawn>>
        /\ chrome'.script = chrome.script
    BY <1>9, <1>t DEF CollectNavigations, ChromeType
  <2>3. step'.index = step.index /\ step'.last = step.last
    BY <1>t, <2>1 DEF StepType
  <2> QED
    BY <2>2, <2>3, CountersStill
<1>10. CASE SetLastAction \/ SetLogs
  <2>1. /\ step.pc \in {"last", "logs"} /\ UNCHANGED <<chrome, drawn>>
        /\ page'.last \in {page.last, step.last} /\ page'.position = page.position
        /\ page'.runtime = page.runtime
    BY <1>10, <1>t DEF SetLastAction, SetLogs, Installs, PageType
  <2>2. /\ step'.index = step.index /\ step'.last = step.last
        /\ step'.pc \in {"logs", "extract", "failed"}
    BY <1>10, <1>t DEF SetLastAction, SetLogs, Installs, StepType
  <2> QED
    BY <2>1, <2>2 DEF CountersBounded, Reading
<1>11. CASE EvaluateExtractors \/ CollectExceptions \/ Judge
  <2>1. /\ step.pc \in Reading /\ UNCHANGED <<page, chrome, drawn>>
        /\ step'.index = step.index /\ step'.last = step.last
    BY <1>11, <1>t DEF EvaluateExtractors, CollectExceptions, Judge, StepType, Reading
  <2> QED
    BY <2>1, CountersStill DEF Reading
<1>12. CASE NextAction
  <2>1. CASE page.runtime
    <3> DEFINE at == Restored(page.position)
    <3>1. at = Len(drawn)
      BY <1>t DEF Restored, PickerFollows
    <3>2. /\ page' = [page EXCEPT !.position = at + 1]
          /\ chrome' = [chrome EXCEPT !.picker = at + 1]
          /\ drawn' = Append(drawn, at) /\ step' = [step EXCEPT !.pc = "apply"]
          /\ step.pc = "choose"
      BY <1>12, <2>1 DEF NextAction
    <3> HIDE DEF at
    <3>3. /\ page'.position = Len(drawn) + 1 /\ page'.last = page.last
          /\ page'.runtime = page.runtime /\ chrome'.script = chrome.script
      BY <1>t, <3>1, <3>2 DEF PageType, ChromeType
    <3>4. step'.pc = "apply" /\ step'.index = step.index /\ step'.last = step.last
      BY <1>t, <3>2 DEF StepType
    <3>5. Len(drawn') = Len(drawn) + 1
      BY <1>n, <1>t, <3>1, <3>2
    <3>6. Len(drawn) < step.index
      BY <3>2 DEF CountersBounded
    <3> QED
      BY <1>n, <3>2, <3>3, <3>4, <3>5, <3>6 DEF CountersBounded, Reading
  <2>2. CASE ~page.runtime
    <3>1. /\ step.pc = "choose" /\ step'.pc = "record" /\ step'.index = step.index
          /\ step'.last = 0 /\ UNCHANGED <<page, chrome, drawn>>
      BY <1>12, <1>t, <2>2 DEF NextAction, StepType, NoAction
    <3> QED
      BY <1>n, <3>1 DEF CountersBounded, Reading
  <2> QED
    BY <2>1, <2>2
<1>13. CASE Apply
  <2>1. PICK last \in {NoAction, step.index} :
          step' = [step EXCEPT !.pc = "record", !.last = last]
    BY <1>13 DEF Apply
  <2>2. step'.pc = "record" /\ step'.index = step.index /\ step'.last = last
    BY <1>t, <2>1 DEF StepType
  <2>3. step.pc = "apply" /\ UNCHANGED <<page, chrome, drawn>>
    BY <1>13 DEF Apply
  <2>4. last <= step.index
    BY <1>n, <2>1 DEF NoAction
  <2> QED
    BY <2>2, <2>3, <2>4 DEF CountersBounded, Reading
<1>14. CASE Record
  <2>1. /\ step.pc = "record" /\ step'.pc = "top" /\ UNCHANGED <<page, chrome, drawn>>
        /\ step'.index = step.index /\ step'.last = step.last
    BY <1>14, <1>t DEF Record, StepType
  <2> QED
    BY <2>1, CountersStill DEF Reading
<1> QED
  BY <1>1, <1>2, <1>3, <1>4, <1>5, <1>6, <1>7, <1>8, <1>9, <1>10, <1>11, <1>12, <1>13, <1>14
  DEF WebNext, PageActs

----------------------------------------------------------------------------
(* The theorems.                                                           *)

THEOREM WebInvariant == WebSpec => []WebInv
<1>1. WebInit => WebInv
  BY WebTypedInit, PickerInit, PageInit, WindowInit, NavigationInit, CountersInit
     DEF WebInv
<1>2. WebInv /\ [WebNext]_webVars => WebInv'
  BY WebTypedStep, PickerStep, PageStep, WindowStep, NavigationStep, CountersStep
     DEF WebInv
<1> QED
  BY <1>1, <1>2, PTL DEF WebSpec

\* A seed names one run: the draws take its numbers in order, whatever documents the page
\* goes through and wherever between two CDP calls it navigates (driver.go:1249-1296).
THEOREM DrawsInOrder == WebSpec => []DrawsFollowTheSeed
<1>1. WebInv => DrawsFollowTheSeed
  BY DEF WebInv, PickerFollows
<1> QED
  BY <1>1, WebInvariant, PTL

\* No error the app logged is passed over by a window that moved on, and no navigation is
\* lost, doubled or reordered between the driver's list and the trace
\* (runner.go:203-239, 1056-1140; driver.go:109-120, 161-175, 813-828).
THEOREM EvidenceKept == WebSpec => []EvidenceIsKept
<1>1. WebInv => EvidenceIsKept
  <2> SUFFICES ASSUME WebInv, step.pc \in {"top", "record"} PROVE EvidenceIsKept
    BY DEF EvidenceIsKept
  <2>1. \A event \in Logged : event.at < step.since => event \in Retained
    BY DEF WebInv, WindowFollows, Reading
  <2> QED
    BY <2>1 DEF WebInv, NavigationsFollow, Retained, EvidenceIsKept, Opened
<1> QED
  BY <1>1, WebInvariant, PTL

\* The getters that ran in the page saw this step's action, logs and exceptions, or a fresh
\* document's nothing; never an earlier step's (runner.go:264-275, source.go:97-121).
THEOREM EnginesSeeOneStep == WebSpec => []EnginesAgree
<1>1. WebInv => EnginesAgree
  BY DEF WebInv, PageFollows
<1> QED
  BY <1>1, WebInvariant, PTL

(***************************************************************************)
(* LlmSource and Drivers.                                                  *)
(***************************************************************************)

Entry == [at : Nat, label : Routes \cup {NoLabel}]

\* The records keep their fields, and one label is kept for each step.
SelectShaped ==
  /\ turn = [pc |-> turn.pc, step |-> turn.step, by |-> turn.by, action |-> turn.action]
  /\ llmCall = [step |-> llmCall.step, outcome |-> llmCall.outcome,
                screenshot |-> llmCall.screenshot, image |-> llmCall.image,
                candidates |-> llmCall.candidates, choice |-> llmCall.choice]
  /\ turn.step \in Nat /\ turn.step <= MaxAsks
  /\ labels \in Seq(Routes \cup {NoLabel}) /\ Len(labels) = turn.step
  /\ declared \in [tree : Trees, native : BOOLEAN]
  /\ turn.pc \in {"observe", "ask", "answer", "apply", "aborted"}

\* What the source has in hand is this step's, or an earlier one's that no
\* record of this step names.
SnapshotInHand ==
  /\ snapshot.step \in Nat /\ snapshot.step <= turn.step
  /\ snapshot.image \in {None, snapshot.step}
  /\ turn.pc \in {"ask", "answer", "apply"} => snapshot.step = turn.step /\ turn.step > 0

\* A model's pick and its number come and go together.
SourceNamed ==
  /\ source.by \in {"", "llm"}
  /\ source.by = "llm" <=> source.choice # None
  /\ turn.pc = "answer" => source = NoSource

\* The record this step has appended, by the place it stands at.
RecordOpen ==
  /\ turn.pc \in {"ask", "answer", "apply"} => line = NoLine
  /\ turn.pc = "ask" => llmCall = NoCall
  /\ turn.pc \in {"answer", "apply"} => llmCall.step = turn.step
  /\ llmCall.screenshot # None =>
       llmCall.screenshot = llmCall.step /\ llmCall.image = llmCall.step

\* What is applied was picked by the model, or is setup's.
ActionInHand ==
  turn.pc = "apply" =>
    \/ /\ llmCall.outcome = "selected" /\ turn.by = ""
       /\ source = [by |-> "llm", choice |-> llmCall.choice]
       /\ turn.action = ActionFor(llmCall.candidates[llmCall.choice], "typed")
    \/ llmCall.outcome = "setup_action" /\ turn.by = "setup" /\ source = NoSource

RecordInv ==
  /\ SelectShaped /\ SnapshotInHand /\ SourceNamed /\ RecordOpen /\ ActionInHand
  /\ RecordTellsTheStep

LEMMA NoCallShape ==
  /\ NoCall = [step |-> NoCall.step, outcome |-> NoCall.outcome,
               screenshot |-> NoCall.screenshot, image |-> NoCall.image,
               candidates |-> NoCall.candidates, choice |-> NoCall.choice]
  /\ NoCall.step = None /\ NoCall.outcome = "" /\ NoCall.screenshot = None
  BY DEF NoCall

LEMMA SelectInitial == SelectInit => RecordInv
<1> SUFFICES ASSUME SelectInit PROVE RecordInv
  OBVIOUS
<1> USE DEF None
<1>1. turn.pc = "observe" /\ turn.step = 0 /\ llmCall = NoCall /\ line.step = None
  BY DEF SelectInit, NoLine
<1>2. SelectShaped
  <2> labels = <<>>
    BY DEF SelectInit
  <2>1. labels \in Seq(Routes \cup {NoLabel}) /\ Len(labels) = 0
    OBVIOUS
  <2>2. turn = [pc |-> turn.pc, step |-> turn.step, by |-> turn.by, action |-> turn.action]
    BY DEF SelectInit
  <2>3. llmCall = [step |-> llmCall.step, outcome |-> llmCall.outcome,
                   screenshot |-> llmCall.screenshot, image |-> llmCall.image,
                   candidates |-> llmCall.candidates, choice |-> llmCall.choice]
    BY <1>1, NoCallShape
  <2>4. declared \in [tree : Trees, native : BOOLEAN]
    BY DEF SelectInit
  <2> QED
    BY <1>1, <2>1, <2>2, <2>3, <2>4, MemoryAssumption DEF SelectShaped
<1>3. SnapshotInHand /\ SourceNamed
  <2>1. snapshot.step = 0 /\ snapshot.image = None
    BY DEF SelectInit
  <2>2. source = NoSource /\ source.by = "" /\ source.choice = None
    BY DEF SelectInit, NoSource
  <2>3. SnapshotInHand
    BY <1>1, <2>1 DEF SnapshotInHand
  <2>4. SourceNamed
    BY <1>1, <2>2 DEF SourceNamed
  <2> QED
    BY <2>3, <2>4
<1>4. RecordOpen /\ ActionInHand /\ RecordTellsTheStep
  BY <1>1, NoCallShape DEF RecordOpen, ActionInHand, RecordTellsTheStep
<1> QED
  BY <1>2, <1>3, <1>4 DEF RecordInv

LEMMA RecordHeld == RecordInv /\ HoldsStep => RecordInv'
<1> SUFFICES ASSUME RecordInv, HoldsStep PROVE RecordInv'
  OBVIOUS
<1> USE DEF None
<1>1. /\ turn'.pc = "observe" /\ turn'.step = turn.step + 1
      /\ turn'.by = turn.by /\ turn'.action = turn.action
      /\ turn' = [pc |-> turn'.pc, step |-> turn'.step, by |-> turn'.by,
                  action |-> turn'.action]
  BY DEF RecordInv, SelectShaped, HoldsStep
<1>2. line'.step = turn.step + 1 /\ line'.by = ""
  BY DEF HoldsStep, NoLine
<1>3. llmCall' = NoCall
  BY DEF HoldsStep
<1>4. SelectShaped'
  <2>1. labels' \in Seq(Routes \cup {NoLabel}) /\ Len(labels') = Len(labels) + 1
    BY DEF RecordInv, SelectShaped, HoldsStep
  <2>2. llmCall' = [step |-> llmCall'.step, outcome |-> llmCall'.outcome,
                    screenshot |-> llmCall'.screenshot, image |-> llmCall'.image,
                    candidates |-> llmCall'.candidates, choice |-> llmCall'.choice]
    BY <1>3, NoCallShape
  <2>3. /\ turn.step \in Nat /\ turn.step < MaxAsks /\ Len(labels) = turn.step
        /\ declared' \in [tree : Trees, native : BOOLEAN]
    BY DEF RecordInv, SelectShaped, HoldsStep
  <2> QED
    BY <1>1, <2>1, <2>2, <2>3, MemoryAssumption DEF SelectShaped
<1>5. SnapshotInHand'
  BY <1>1 DEF RecordInv, SelectShaped, SnapshotInHand, HoldsStep
<1>6. SourceNamed' /\ RecordOpen' /\ ActionInHand'
  <2>1. SourceNamed' /\ ActionInHand'
    BY <1>1 DEF RecordInv, SourceNamed, ActionInHand, HoldsStep
  <2>2. RecordOpen'
    BY <1>1, <1>3, NoCallShape DEF RecordOpen
  <2> QED
    BY <2>1, <2>2
<1>7. RecordTellsTheStep'
  <2>1. snapshot' = snapshot /\ snapshot.step # turn.step + 1 /\ turn.step + 1 # 0
    BY DEF RecordInv, SelectShaped, SnapshotInHand, HoldsStep
  <2>2. llmCall'.step # line'.step /\ llmCall'.screenshot = None
    BY <1>2, <1>3, <2>1, NoCallShape
  <2> QED
    BY <1>2, <2>1, <2>2 DEF RecordTellsTheStep
<1> QED
  BY <1>4, <1>5, <1>6, <1>7 DEF RecordInv

LEMMA RecordPushed == RecordInv /\ PushesSnapshot => RecordInv'
<1> SUFFICES ASSUME RecordInv, PushesSnapshot PROVE RecordInv'
  OBVIOUS
<1> USE DEF None
<1>1. /\ turn'.pc = "ask" /\ turn'.step = turn.step + 1
      /\ turn' = [pc |-> turn'.pc, step |-> turn'.step, by |-> turn'.by,
                  action |-> turn'.action]
  BY DEF RecordInv, SelectShaped, PushesSnapshot
<1>2. PICK image \in {None, turn.step + 1}, screen \in Displays,
           label \in IF declared.native THEN {NoLabel} ELSE Routes :
        /\ snapshot' = [step |-> turn.step + 1, image |-> image, label |-> label,
                        screen |-> screen]
        /\ labels' = Append(labels, label)
  BY DEF PushesSnapshot
<1>3. llmCall' = NoCall /\ line' = NoLine /\ source' = source /\ declared' = declared
  BY DEF PushesSnapshot
<1>4. SelectShaped'
  <2>1. labels' \in Seq(Routes \cup {NoLabel}) /\ Len(labels') = Len(labels) + 1
    BY <1>2 DEF RecordInv, SelectShaped
  <2>2. llmCall' = [step |-> llmCall'.step, outcome |-> llmCall'.outcome,
                    screenshot |-> llmCall'.screenshot, image |-> llmCall'.image,
                    candidates |-> llmCall'.candidates, choice |-> llmCall'.choice]
    BY <1>3, NoCallShape
  <2>3. /\ turn.step \in Nat /\ turn.step < MaxAsks /\ Len(labels) = turn.step
        /\ declared' \in [tree : Trees, native : BOOLEAN]
    BY DEF RecordInv, SelectShaped, PushesSnapshot
  <2> QED
    BY <1>1, <2>1, <2>2, <2>3, MemoryAssumption DEF SelectShaped
<1>5. SnapshotInHand'
  BY <1>1, <1>2 DEF RecordInv, SelectShaped, SnapshotInHand
<1>6. SourceNamed' /\ RecordOpen' /\ ActionInHand' /\ RecordTellsTheStep'
  BY <1>1, <1>3, NoCallShape
     DEF RecordInv, SourceNamed, RecordOpen, ActionInHand, RecordTellsTheStep
<1> QED
  BY <1>4, <1>5, <1>6 DEF RecordInv

LEMMA RecordApplied == RecordInv /\ AppliesAction => RecordInv'
<1> SUFFICES ASSUME RecordInv, AppliesAction PROVE RecordInv'
  OBVIOUS
<1> USE DEF None
<1>1. /\ turn'.pc = "observe" /\ turn'.step = turn.step
      /\ turn' = [pc |-> turn'.pc, step |-> turn'.step, by |-> turn'.by,
                  action |-> turn'.action]
  BY DEF RecordInv, SelectShaped, AppliesAction
<1>2. /\ line'.step = turn.step /\ line'.action = turn.action
      /\ line'.choice = source.choice
      /\ line'.by = IF source.by # "" THEN source.by ELSE turn.by
  BY DEF AppliesAction, Stamped
<1>3. UNCHANGED <<declared, snapshot, source, llmCall, labels>> /\ turn.pc = "apply"
  BY DEF AppliesAction
<1>4. SelectShaped' /\ SnapshotInHand' /\ SourceNamed' /\ RecordOpen' /\ ActionInHand'
  BY <1>1, <1>3
     DEF RecordInv, SelectShaped, SnapshotInHand, SourceNamed, RecordOpen, ActionInHand
<1>5. RecordTellsTheStep'
  <2>1. /\ llmCall.step = turn.step /\ snapshot.step = turn.step
        /\ llmCall.screenshot # None =>
             llmCall.screenshot = llmCall.step /\ llmCall.image = llmCall.step
    BY <1>3 DEF RecordInv, SnapshotInHand, RecordOpen
  <2>2. \/ /\ llmCall.outcome = "selected" /\ line'.by = "llm"
           /\ line'.choice = llmCall.choice
           /\ line'.action = ActionFor(llmCall.candidates[llmCall.choice], "typed")
        \/ llmCall.outcome = "setup_action" /\ line'.by = "setup"
    <3>1. CASE /\ llmCall.outcome = "selected" /\ turn.by = ""
               /\ source = [by |-> "llm", choice |-> llmCall.choice]
               /\ turn.action = ActionFor(llmCall.candidates[llmCall.choice], "typed")
      BY <1>2, <3>1
    <3>2. CASE /\ llmCall.outcome = "setup_action" /\ turn.by = "setup"
               /\ source = NoSource
      BY <1>2, <3>2 DEF NoSource
    <3> QED
      BY <1>3, <3>1, <3>2 DEF RecordInv, ActionInHand
  <2>3. CASE line'.by = "llm"
    BY <1>2, <1>3, <2>1, <2>2, <2>3 DEF RecordTellsTheStep
  <2>4. CASE line'.by = "setup"
    BY <1>2, <1>3, <2>1, <2>2, <2>4 DEF RecordTellsTheStep
  <2> QED
    BY <2>2, <2>3, <2>4
<1> QED
  BY <1>4, <1>5 DEF RecordInv

LEMMA RecordedShape ==
  ASSUME NEW outcome
  PROVE  /\ Recorded(outcome) =
              [step |-> Recorded(outcome).step, outcome |-> Recorded(outcome).outcome,
               screenshot |-> Recorded(outcome).screenshot,
               image |-> Recorded(outcome).image,
               candidates |-> Recorded(outcome).candidates,
               choice |-> Recorded(outcome).choice]
         /\ Recorded(outcome).step = turn.step /\ Recorded(outcome).outcome = outcome
         /\ Recorded(outcome).screenshot = None
<1> PICK r : r = [NoCall EXCEPT !.step = turn.step, !.outcome = outcome]
  OBVIOUS
<1>1. /\ r = [step |-> r.step, outcome |-> r.outcome, screenshot |-> r.screenshot,
              image |-> r.image, candidates |-> r.candidates, choice |-> r.choice]
      /\ r.step = turn.step /\ r.outcome = outcome /\ r.screenshot = None
  BY NoCallShape
<1> QED
  BY <1>1 DEF Recorded

\* What every step that leaves the record's and the loop's shape has to show.
LEMMA ShapeKept ==
  ASSUME SelectShaped, UNCHANGED <<declared, labels>>,
         turn'.step = turn.step,
         turn'.pc \in {"observe", "ask", "answer", "apply", "aborted"},
         turn' = [pc |-> turn'.pc, step |-> turn'.step, by |-> turn'.by,
                  action |-> turn'.action],
         llmCall' = [step |-> llmCall'.step, outcome |-> llmCall'.outcome,
                     screenshot |-> llmCall'.screenshot, image |-> llmCall'.image,
                     candidates |-> llmCall'.candidates, choice |-> llmCall'.choice]
  PROVE  SelectShaped'
  BY DEF SelectShaped

LEMMA RecordSetup == RecordInv /\ SetupActs => RecordInv'
<1> SUFFICES ASSUME RecordInv, SetupActs PROVE RecordInv'
  OBVIOUS
<1> USE DEF None
<1>1. /\ turn'.pc = "apply" /\ turn'.step = turn.step /\ turn'.by = "setup"
      /\ turn' = [pc |-> turn'.pc, step |-> turn'.step, by |-> turn'.by,
                  action |-> turn'.action]
  BY DEF RecordInv, SelectShaped, SetupActs, InHand
<1>2. /\ turn.pc = "ask" /\ source' = NoSource /\ llmCall' = Recorded("setup_action")
      /\ UNCHANGED <<declared, snapshot, line, labels>>
  BY DEF SetupActs, Asked
<1>3. llmCall' = [step |-> llmCall'.step, outcome |-> llmCall'.outcome,
                  screenshot |-> llmCall'.screenshot, image |-> llmCall'.image,
                  candidates |-> llmCall'.candidates, choice |-> llmCall'.choice]
  BY <1>2, RecordedShape
<1>4. /\ llmCall'.step = turn.step /\ llmCall'.outcome = "setup_action"
      /\ llmCall'.screenshot = None
  BY <1>2, RecordedShape
<1>5. SelectShaped'
  BY <1>1, <1>2, <1>3, ShapeKept DEF RecordInv
<1>6. SnapshotInHand'
  BY <1>1, <1>2 DEF RecordInv, SnapshotInHand
<1>7. SourceNamed' /\ ActionInHand'
  BY <1>1, <1>2, <1>4 DEF SourceNamed, ActionInHand, NoSource
<1>8. RecordOpen' /\ RecordTellsTheStep'
  BY <1>1, <1>2, <1>4 DEF RecordInv, RecordOpen, RecordTellsTheStep
<1> QED
  BY <1>5, <1>6, <1>7, <1>8 DEF RecordInv

LEMMA RecordAborted == RecordInv /\ RunAborts => RecordInv'
<1> SUFFICES ASSUME RecordInv, RunAborts PROVE RecordInv'
  OBVIOUS
<1> USE DEF None
<1>1. /\ turn'.pc = "aborted" /\ turn'.step = turn.step
      /\ turn' = [pc |-> turn'.pc, step |-> turn'.step, by |-> turn'.by,
                  action |-> turn'.action]
  BY DEF RecordInv, SelectShaped, RunAborts
<1>2. /\ turn.pc = "ask" /\ source' = NoSource
      /\ UNCHANGED <<declared, snapshot, line, labels>>
  BY DEF RunAborts, Asked
<1>3. PICK outcome \in {"setup_failed", "candidates_failed"} : llmCall' = Recorded(outcome)
  BY DEF RunAborts
<1>4. llmCall' = [step |-> llmCall'.step, outcome |-> llmCall'.outcome,
                  screenshot |-> llmCall'.screenshot, image |-> llmCall'.image,
                  candidates |-> llmCall'.candidates, choice |-> llmCall'.choice]
  BY <1>3, RecordedShape
<1>5. llmCall'.screenshot = None
  BY <1>3, RecordedShape
<1>6. SelectShaped'
  BY <1>1, <1>2, <1>4, ShapeKept DEF RecordInv
<1>7. SnapshotInHand'
  BY <1>1, <1>2 DEF RecordInv, SnapshotInHand
<1>8. SourceNamed' /\ ActionInHand'
  BY <1>1, <1>2 DEF SourceNamed, ActionInHand, NoSource
<1>9. RecordOpen' /\ RecordTellsTheStep'
  BY <1>1, <1>2, <1>5 DEF RecordOpen, RecordTellsTheStep
<1> QED
  BY <1>6, <1>7, <1>8, <1>9 DEF RecordInv

\* A step that ends without an action: its record does not say "selected".
LEMMA LineDeclined ==
  ASSUME RecordInv, Declines, SelectShaped',
         turn.pc \in {"ask", "answer"}, UNCHANGED snapshot, source' = NoSource,
         llmCall'.step = turn.step,
         llmCall'.outcome \notin {"selected", "setup_action"},
         llmCall'.screenshot # None =>
           llmCall'.screenshot = llmCall'.step /\ llmCall'.image = llmCall'.step
  PROVE  RecordInv'
<1> USE DEF None
<1>1. turn'.pc = "observe" /\ turn'.step = turn.step
  BY DEF RecordInv, SelectShaped, Declines
<1>2. line'.step = turn.step /\ line'.by = ""
  BY DEF Declines, NoLine
<1>3. snapshot.step = turn.step
  BY DEF RecordInv, SnapshotInHand
<1>4. SnapshotInHand'
  BY <1>1 DEF RecordInv, SnapshotInHand
<1>5. SourceNamed' /\ ActionInHand'
  BY <1>1 DEF SourceNamed, ActionInHand, NoSource
<1>6. RecordOpen' /\ RecordTellsTheStep'
  BY <1>1, <1>2, <1>3 DEF RecordOpen, RecordTellsTheStep
<1> QED
  BY <1>4, <1>5, <1>6 DEF RecordInv

LEMMA RecordNothing == RecordInv /\ NothingToOffer => RecordInv'
<1> SUFFICES ASSUME RecordInv, NothingToOffer PROVE RecordInv'
  OBVIOUS
<1> USE DEF None
<1>1. /\ turn'.pc = "observe" /\ turn'.step = turn.step
      /\ turn' = [pc |-> turn'.pc, step |-> turn'.step, by |-> turn'.by,
                  action |-> turn'.action]
  BY DEF RecordInv, SelectShaped, NothingToOffer, Declines
<1>2. /\ turn.pc = "ask" /\ source' = NoSource /\ llmCall' = Recorded("no_candidates")
      /\ UNCHANGED <<declared, snapshot, labels>> /\ Declines
  BY DEF NothingToOffer, Asked
<1>3. llmCall' = [step |-> llmCall'.step, outcome |-> llmCall'.outcome,
                  screenshot |-> llmCall'.screenshot, image |-> llmCall'.image,
                  candidates |-> llmCall'.candidates, choice |-> llmCall'.choice]
  BY <1>2, RecordedShape
<1>4. /\ llmCall'.step = turn.step /\ llmCall'.outcome = "no_candidates"
      /\ llmCall'.screenshot = None
  BY <1>2, RecordedShape
<1>5. SelectShaped'
  BY <1>1, <1>2, <1>3, ShapeKept DEF RecordInv
<1> QED
  BY <1>2, <1>4, <1>5, LineDeclined

LEMMA RecordAsked == RecordInv /\ AsksModel => RecordInv'
<1> SUFFICES ASSUME RecordInv, AsksModel PROVE RecordInv'
  OBVIOUS
<1> USE DEF None
<1>1. /\ turn'.pc = "answer" /\ turn'.step = turn.step
      /\ turn' = [pc |-> turn'.pc, step |-> turn'.step, by |-> turn'.by,
                  action |-> turn'.action]
  BY DEF RecordInv, SelectShaped, AsksModel
<1>2. /\ turn.pc = "ask" /\ source' = NoSource
      /\ UNCHANGED <<declared, snapshot, line, labels>>
  BY DEF AsksModel, Asked
<1>3. PICK candidates :
        llmCall' = [Recorded("") EXCEPT
                    !.candidates = candidates, !.image = snapshot.image,
                    !.screenshot = IF snapshot.image = None THEN None ELSE snapshot.step]
  BY DEF AsksModel
<1>4. llmCall' = [step |-> llmCall'.step, outcome |-> llmCall'.outcome,
                  screenshot |-> llmCall'.screenshot, image |-> llmCall'.image,
                  candidates |-> llmCall'.candidates, choice |-> llmCall'.choice]
  BY <1>3, RecordedShape DEF Recorded, NoCall
<1>5. /\ llmCall'.step = turn.step /\ llmCall'.outcome = "" /\ llmCall'.image = snapshot.image
      /\ llmCall'.screenshot = IF snapshot.image = None THEN None ELSE snapshot.step
  BY <1>3 DEF Recorded, NoCall
<1>6. SelectShaped'
  BY <1>1, <1>2, <1>4, ShapeKept DEF RecordInv
<1>7. SnapshotInHand'
  BY <1>1, <1>2 DEF RecordInv, SnapshotInHand
<1>8. SourceNamed' /\ ActionInHand'
  BY <1>1, <1>2 DEF SourceNamed, ActionInHand, NoSource
<1>9. RecordOpen' /\ RecordTellsTheStep'
  BY <1>1, <1>2, <1>5 DEF RecordInv, SnapshotInHand, RecordOpen, RecordTellsTheStep
<1> QED
  BY <1>6, <1>7, <1>8, <1>9 DEF RecordInv

LEMMA RecordUnusable == RecordInv /\ NoUsableAnswer => RecordInv'
<1> SUFFICES ASSUME RecordInv, NoUsableAnswer PROVE RecordInv'
  OBVIOUS
<1> USE DEF None
<1>1. /\ turn'.pc = "observe" /\ turn'.step = turn.step
      /\ turn' = [pc |-> turn'.pc, step |-> turn'.step, by |-> turn'.by,
                  action |-> turn'.action]
  BY DEF RecordInv, SelectShaped, NoUsableAnswer, Declines
<1>2. /\ turn.pc = "answer" /\ Declines
      /\ UNCHANGED <<declared, snapshot, source, labels>>
  BY DEF NoUsableAnswer
<1>3. PICK outcome \in {"request_failed", "no_choices", "unparsable_response"} :
        llmCall' = [llmCall EXCEPT !.outcome = outcome]
  BY DEF NoUsableAnswer
<1>4. llmCall = [step |-> llmCall.step, outcome |-> llmCall.outcome,
                 screenshot |-> llmCall.screenshot, image |-> llmCall.image,
                 candidates |-> llmCall.candidates, choice |-> llmCall.choice]
  BY DEF RecordInv, SelectShaped
<1>5. /\ llmCall' = [step |-> llmCall'.step, outcome |-> llmCall'.outcome,
                     screenshot |-> llmCall'.screenshot, image |-> llmCall'.image,
                     candidates |-> llmCall'.candidates, choice |-> llmCall'.choice]
      /\ llmCall'.step = llmCall.step /\ llmCall'.outcome = outcome
      /\ llmCall'.screenshot = llmCall.screenshot /\ llmCall'.image = llmCall.image
  BY <1>3, <1>4
<1>6. SelectShaped'
  BY <1>1, <1>2, <1>5, ShapeKept DEF RecordInv
<1>7. /\ llmCall.step = turn.step /\ source = NoSource
      /\ llmCall.screenshot # None =>
           llmCall.screenshot = llmCall.step /\ llmCall.image = llmCall.step
  BY <1>2 DEF RecordInv, RecordOpen, SourceNamed
<1> QED
  BY <1>2, <1>5, <1>6, <1>7, LineDeclined

LEMMA RecordDiscarded == RecordInv /\ PickDiscarded => RecordInv'
<1> SUFFICES ASSUME RecordInv, PickDiscarded PROVE RecordInv'
  OBVIOUS
<1> USE DEF None
<1>1. /\ turn'.pc = "observe" /\ turn'.step = turn.step
      /\ turn' = [pc |-> turn'.pc, step |-> turn'.step, by |-> turn'.by,
                  action |-> turn'.action]
  BY DEF RecordInv, SelectShaped, PickDiscarded, Declines
<1>2. /\ turn.pc = "answer" /\ Declines
      /\ UNCHANGED <<declared, snapshot, source, labels>>
  BY DEF PickDiscarded
<1>3. PICK choice, outcome :
        /\ outcome \in {"choice_out_of_range", "echo_mismatch", "action_build_failed"}
        /\ llmCall' = [llmCall EXCEPT !.choice = choice, !.outcome = outcome]
  BY DEF PickDiscarded, Outcome
<1>4. llmCall = [step |-> llmCall.step, outcome |-> llmCall.outcome,
                 screenshot |-> llmCall.screenshot, image |-> llmCall.image,
                 candidates |-> llmCall.candidates, choice |-> llmCall.choice]
  BY DEF RecordInv, SelectShaped
<1>5. /\ llmCall' = [step |-> llmCall'.step, outcome |-> llmCall'.outcome,
                     screenshot |-> llmCall'.screenshot, image |-> llmCall'.image,
                     candidates |-> llmCall'.candidates, choice |-> llmCall'.choice]
      /\ llmCall'.step = llmCall.step /\ llmCall'.outcome = outcome
      /\ llmCall'.screenshot = llmCall.screenshot /\ llmCall'.image = llmCall.image
  BY <1>3, <1>4
<1>6. SelectShaped'
  BY <1>1, <1>2, <1>5, ShapeKept DEF RecordInv
<1>7. /\ llmCall.step = turn.step /\ source = NoSource
      /\ llmCall.screenshot # None =>
           llmCall.screenshot = llmCall.step /\ llmCall.image = llmCall.step
  BY <1>2 DEF RecordInv, RecordOpen, SourceNamed
<1> QED
  BY <1>2, <1>3, <1>5, <1>6, <1>7, LineDeclined

LEMMA RecordSelected == RecordInv /\ PickSelected => RecordInv'
<1> SUFFICES ASSUME RecordInv, PickSelected PROVE RecordInv'
  OBVIOUS
<1> USE DEF None
<1>1. PICK choice \in 1..Len(llmCall.candidates) :
        /\ llmCall' = [llmCall EXCEPT !.choice = choice, !.outcome = "selected"]
        /\ source' = [by |-> "llm", choice |-> choice]
        /\ turn' = InHand("", ActionFor(llmCall.candidates[choice], "typed"))
  BY DEF PickSelected
<1>2. choice # 0
  <2>1. choice \in 1..Len(llmCall.candidates)
    BY <1>1
  <2> QED
    BY <2>1
<1>3. /\ turn'.pc = "apply" /\ turn'.step = turn.step /\ turn'.by = ""
      /\ turn'.action = ActionFor(llmCall.candidates[choice], "typed")
      /\ turn' = [pc |-> turn'.pc, step |-> turn'.step, by |-> turn'.by,
                  action |-> turn'.action]
  BY <1>1 DEF RecordInv, SelectShaped, InHand
<1>4. turn.pc = "answer" /\ UNCHANGED <<declared, snapshot, line, labels>>
  BY DEF PickSelected
<1>5. llmCall = [step |-> llmCall.step, outcome |-> llmCall.outcome,
                 screenshot |-> llmCall.screenshot, image |-> llmCall.image,
                 candidates |-> llmCall.candidates, choice |-> llmCall.choice]
  BY DEF RecordInv, SelectShaped
<1>6. /\ llmCall' = [step |-> llmCall'.step, outcome |-> llmCall'.outcome,
                     screenshot |-> llmCall'.screenshot, image |-> llmCall'.image,
                     candidates |-> llmCall'.candidates, choice |-> llmCall'.choice]
      /\ llmCall'.step = llmCall.step /\ llmCall'.outcome = "selected"
      /\ llmCall'.screenshot = llmCall.screenshot /\ llmCall'.image = llmCall.image
      /\ llmCall'.candidates = llmCall.candidates /\ llmCall'.choice = choice
  BY <1>1, <1>5
<1>7. SelectShaped'
  BY <1>3, <1>4, <1>6, ShapeKept DEF RecordInv
<1>8. SnapshotInHand'
  BY <1>3, <1>4 DEF RecordInv, SnapshotInHand
<1>9. SourceNamed' /\ ActionInHand'
  BY <1>1, <1>2, <1>3, <1>6 DEF SourceNamed, ActionInHand
<1>10. RecordOpen' /\ RecordTellsTheStep'
  BY <1>3, <1>4, <1>6 DEF RecordInv, RecordOpen, RecordTellsTheStep
<1> QED
  BY <1>7, <1>8, <1>9, <1>10 DEF RecordInv

LEMMA RecordRests == RecordInv /\ UNCHANGED selectVars => RecordInv'
  BY DEF RecordInv, SelectShaped, SnapshotInHand, SourceNamed, RecordOpen, ActionInHand,
         RecordTellsTheStep, selectVars

LEMMA RecordStep == RecordInv /\ [SelectNext]_selectVars => RecordInv'
  BY RecordHeld, RecordPushed, RecordApplied, RecordSetup, RecordAborted, RecordNothing,
     RecordAsked, RecordUnusable, RecordDiscarded, RecordSelected, RecordRests
     DEF SelectNext

\* The record of a step tells what its line shows, in every state of a run.
THEOREM RecordsTellTheSteps == SelectSpec => []RecordTellsTheStep
<1>1. RecordInv => RecordTellsTheStep
  BY DEF RecordInv
<1> QED
  BY <1>1, SelectInitial, RecordStep, PTL DEF SelectSpec

----------------------------------------------------------------------------
(* What the memory says of the labels of the past steps.                   *)

\* The item's label is the first one that a step after it carried.
Leads(item, past) ==
  \E s \in item.at + 1..Len(past) :
    /\ past[s] = item.label
    /\ \A r \in item.at + 1..s - 1 : past[r] = NoLabel

\* No step after the item, up to step n, carried one.
Silent(item, past, n) == \A s \in item.at + 1..n : past[s] = NoLabel

\* Every item is of one of the first n steps; a label it has is the one it led
\* to; all but the last are in order and, on the web, labelled; and the last is
\* unlabelled only while no step has named a screen since.
Chronicle(mem, past, n, native) ==
  /\ mem \in Seq(Entry) /\ Len(mem) <= MemorySize
  /\ \A i \in 1..Len(mem) :
       mem[i].at <= n /\ (mem[i].label # NoLabel => Leads(mem[i], past))
  /\ \A i \in 1..Len(mem) : i < Len(mem) =>
       mem[i].at < mem[i + 1].at /\ (~native => mem[i].label # NoLabel)
  /\ mem # <<>> /\ mem[Len(mem)].label = NoLabel => Silent(mem[Len(mem)], past, n)

LEMMA LeadsOn ==
  ASSUME NEW item \in Entry, NEW past \in Seq(Routes \cup {NoLabel}),
         NEW label \in Routes \cup {NoLabel}, Leads(item, past)
  PROVE  Leads(item, Append(past, label))
<1> DEFINE after == Append(past, label)
<1>1. /\ Len(after) = Len(past) + 1
      /\ \A s \in 1..Len(past) : after[s] = past[s]
  BY AppendProperties
<1>2. PICK s \in item.at + 1..Len(past) :
        /\ past[s] = item.label
        /\ \A r \in item.at + 1..s - 1 : past[r] = NoLabel
  BY DEF Leads
<1>3. item.at \in Nat /\ Len(past) \in Nat
  BY DEF Entry
<1> HIDE DEF after
<1>4. s \in item.at + 1..Len(after) /\ after[s] = item.label
  BY <1>1, <1>2, <1>3
<1>5. \A r \in item.at + 1..s - 1 : after[r] = NoLabel
  BY <1>1, <1>2, <1>3
<1> QED
  BY <1>4, <1>5 DEF Leads, after

\* One more label leaves what is said of the first n steps as it was.
LEMMA ChronicleLonger ==
  ASSUME NEW past \in Seq(Routes \cup {NoLabel}), NEW label \in Routes \cup {NoLabel},
         NEW n \in Nat, n <= Len(past), NEW native, NEW mem,
         Chronicle(mem, past, n, native)
  PROVE  Chronicle(mem, Append(past, label), n, native)
<1> DEFINE after == Append(past, label)
<1>1. \A s \in 1..Len(past) : after[s] = past[s]
  BY AppendProperties
<1>2. \A i \in 1..Len(mem) : mem[i] \in Entry
  BY DEF Chronicle
<1>3. \A i \in 1..Len(mem) : mem[i].label # NoLabel => Leads(mem[i], after)
  BY <1>2, LeadsOn DEF Chronicle
<1> HIDE DEF after
<1>4. mem # <<>> /\ mem[Len(mem)].label = NoLabel => Silent(mem[Len(mem)], after, n)
  <2> SUFFICES ASSUME mem # <<>>, mem[Len(mem)].label = NoLabel,
                      NEW s \in mem[Len(mem)].at + 1..n
               PROVE  after[s] = NoLabel
    BY DEF Silent
  <2>1. Len(mem) \in 1..Len(mem)
    BY DEF Chronicle
  <2>2. mem[Len(mem)].at \in Nat
    BY <1>2, <2>1 DEF Entry
  <2>3. past[s] = NoLabel
    BY DEF Chronicle, Silent
  <2> QED
    BY <1>1, <2>2, <2>3
<1> QED
  BY <1>3, <1>4 DEF Chronicle, after

\* A step without a snapshot says nothing.
LEMMA ChronicleHeld ==
  ASSUME NEW past \in Seq(Routes \cup {NoLabel}), NEW native, NEW mem,
         Chronicle(mem, past, Len(past), native)
  PROVE  Chronicle(mem, Append(past, NoLabel), Len(past) + 1, native)
<1> DEFINE after == Append(past, NoLabel)  n == Len(past)
<1>1. n \in Nat /\ after[n + 1] = NoLabel
  BY AppendProperties
<1>2. Chronicle(mem, after, n, native)
  BY ChronicleLonger
<1> HIDE DEF after, n
<1>3. \A i \in 1..Len(mem) : mem[i] \in Entry /\ mem[i].at \in Nat
  <2>1. mem \in Seq(Entry)
    BY <1>2 DEF Chronicle
  <2>2. \A i \in 1..Len(mem) : mem[i] \in Entry
    BY <2>1, ElementOfSeq
  <2> QED
    BY <2>2 DEF Entry
<1>4. \A i \in 1..Len(mem) :
        mem[i].at <= n + 1 /\ (mem[i].label # NoLabel => Leads(mem[i], after))
  BY <1>1, <1>2, <1>3 DEF Chronicle
<1>5. mem # <<>> /\ mem[Len(mem)].label = NoLabel => Silent(mem[Len(mem)], after, n + 1)
  <2> SUFFICES ASSUME mem # <<>>, mem[Len(mem)].label = NoLabel,
                      NEW s \in mem[Len(mem)].at + 1..n + 1
               PROVE  after[s] = NoLabel
    BY DEF Silent
  <2>1. Len(mem) \in 1..Len(mem)
    BY <1>2 DEF Chronicle
  <2>2. CASE s = n + 1
    BY <1>1, <2>2
  <2>3. CASE s # n + 1
    <3>1. s \in mem[Len(mem)].at + 1..n
      BY <1>1, <1>3, <2>1, <2>3
    <3> QED
      BY <1>2, <3>1 DEF Chronicle, Silent
  <2> QED
    BY <2>2, <2>3
<1> QED
  BY <1>2, <1>4, <1>5 DEF Chronicle, after, n

\* completeLast, once the step n + 1 has its snapshot: the last item gets its
\* label, or the step named none.
LEMMA ChronicleCompleted ==
  ASSUME NEW past \in Seq(Routes \cup {NoLabel}), NEW n \in Nat, Len(past) = n + 1,
         NEW mem, NEW native, Chronicle(mem, past, n, native),
         snapshot.label = past[n + 1]
  PROVE  /\ Chronicle(CompleteLast(mem), past, n + 1, native)
         /\ \A i \in 1..Len(CompleteLast(mem)) : CompleteLast(mem)[i].at <= n
         /\ ~native /\ past[n + 1] # NoLabel =>
              \A i \in 1..Len(CompleteLast(mem)) : CompleteLast(mem)[i].label # NoLabel
<1> DEFINE done == CompleteLast(mem)
<1>1. mem \in Seq(Entry) /\ Len(mem) \in Nat /\ Len(mem) <= MemorySize
  BY DEF Chronicle
<1>2. \A i \in 1..Len(mem) : mem[i] \in Entry /\ mem[i].at \in Nat
  <2>1. \A i \in 1..Len(mem) : mem[i] \in Entry
    BY <1>1, ElementOfSeq
  <2> QED
    BY <2>1 DEF Entry
<1>3. past[n + 1] \in Routes \cup {NoLabel}
  BY ElementOfSeq
<1>4. /\ done \in Seq(Entry) /\ Len(done) = Len(mem)
      /\ \A i \in 1..Len(mem) :
           /\ done[i].at = mem[i].at
           /\ done[i].label = IF i = Len(mem) /\ mem[i].label = NoLabel
                              THEN past[n + 1] ELSE mem[i].label
  <2>1. CASE mem = <<>> \/ mem[Len(mem)].label # NoLabel
    BY <1>1, <2>1 DEF CompleteLast
  <2>2. CASE mem # <<>> /\ mem[Len(mem)].label = NoLabel
    <3>1. Len(mem) \in 1..Len(mem)
      BY <1>1, <2>2
    <3> PICK last : last = [mem[Len(mem)] EXCEPT !.label = past[n + 1]]
      OBVIOUS
    <3>2. last \in Entry /\ last.at = mem[Len(mem)].at /\ last.label = past[n + 1]
      <4>1. mem[Len(mem)] \in Entry
        BY <1>2, <3>1
      <4> QED
        BY <1>3, <4>1 DEF Entry
    <3>3. done = [mem EXCEPT ![Len(mem)] = last]
      BY <2>2 DEF CompleteLast
    <3> HIDE DEF done
    <3>4. /\ done \in Seq(Entry) /\ Len(done) = Len(mem)
          /\ \A i \in 1..Len(mem) : done[i] = IF i = Len(mem) THEN last ELSE mem[i]
      BY <1>1, <3>1, <3>2, <3>3
    <3> QED
      BY <2>2, <3>2, <3>4
  <2> QED
    BY <2>1, <2>2
<1> HIDE DEF done
<1>5. \A i \in 1..Len(done) : done[i] \in Entry /\ done[i].at \in Nat
  <2>1. \A i \in 1..Len(done) : done[i] \in Entry
    BY <1>4, ElementOfSeq
  <2> QED
    BY <2>1 DEF Entry
<1>6. \A i \in 1..Len(done) : done[i].at <= n
  BY <1>4 DEF Chronicle
<1>7. \A i \in 1..Len(done) : done[i].label # NoLabel => Leads(done[i], past)
  <2> SUFFICES ASSUME NEW i \in 1..Len(done), done[i].label # NoLabel
               PROVE  Leads(done[i], past)
    OBVIOUS
  <2>1. CASE mem[i].label # NoLabel
    <3>1. Leads(mem[i], past) /\ done[i].at = mem[i].at /\ done[i].label = mem[i].label
      BY <1>4, <2>1 DEF Chronicle
    <3> QED
      BY <3>1 DEF Leads
  <2>2. CASE mem[i].label = NoLabel
    <3>1. /\ i = Len(mem) /\ mem # <<>> /\ done[i].label = past[n + 1]
          /\ done[i].at = mem[i].at /\ done[i].at \in Nat /\ done[i].at <= n
      BY <1>1, <1>4, <1>5, <1>6, <2>2
    <3>2. Silent(mem[i], past, n)
      BY <2>2, <3>1 DEF Chronicle
    <3>3. /\ n + 1 \in done[i].at + 1..Len(past)
          /\ \A r \in done[i].at + 1..(n + 1) - 1 : past[r] = NoLabel
      BY <3>1, <3>2 DEF Silent
    <3> QED
      BY <3>1, <3>3 DEF Leads
  <2> QED
    BY <2>1, <2>2
<1>8. \A i \in 1..Len(done) : i < Len(done) =>
        done[i].at < done[i + 1].at /\ (~native => done[i].label # NoLabel)
  <2> SUFFICES ASSUME NEW i \in 1..Len(done), i < Len(done)
               PROVE  done[i].at < done[i + 1].at /\ (~native => done[i].label # NoLabel)
    OBVIOUS
  <2>1. i \in 1..Len(mem) /\ i + 1 \in 1..Len(mem) /\ i # Len(mem)
    BY <1>1, <1>4
  <2>2. mem[i].at < mem[i + 1].at /\ (~native => mem[i].label # NoLabel)
    BY <1>4, <2>1 DEF Chronicle
  <2> QED
    BY <1>4, <2>1, <2>2
<1>9. done # <<>> /\ done[Len(done)].label = NoLabel =>
        Silent(done[Len(done)], past, n + 1)
  <2> SUFFICES ASSUME done # <<>>, done[Len(done)].label = NoLabel
               PROVE  Silent(done[Len(done)], past, n + 1)
    OBVIOUS
  <2>1. Len(done) \in 1..Len(done) /\ mem # <<>>
    BY <1>1, <1>4
  <2>2. mem[Len(mem)].label = NoLabel /\ past[n + 1] = NoLabel
    BY <1>4, <2>1
  <2>3. Silent(mem[Len(mem)], past, n)
    BY <2>1, <2>2 DEF Chronicle
  <2>4. done[Len(done)].at = mem[Len(mem)].at /\ mem[Len(mem)].at \in Nat
    BY <1>2, <1>4, <2>1
  <2> QED
    BY <2>2, <2>3, <2>4 DEF Silent
<1>10. ~native /\ past[n + 1] # NoLabel => \A i \in 1..Len(done) : done[i].label # NoLabel
  <2> SUFFICES ASSUME ~native, past[n + 1] # NoLabel, NEW i \in 1..Len(done)
               PROVE  done[i].label # NoLabel
    OBVIOUS
  <2>1. CASE i = Len(done)
    BY <1>4, <2>1
  <2>2. CASE i # Len(done)
    BY <1>1, <1>4, <1>8, <2>2
  <2> QED
    BY <2>1, <2>2
<1>11. Chronicle(done, past, n + 1, native)
  <2>1. \A i \in 1..Len(done) : done[i].at <= n + 1
    BY <1>5, <1>6
  <2> QED
    BY <1>1, <1>4, <1>7, <1>8, <1>9, <2>1 DEF Chronicle
<1> QED
  BY <1>6, <1>10, <1>11 DEF done

\* add: what is chosen at step n is remembered last, and the oldest is forgotten
\* when the memory is full.
LEMMA ChronicleRemembered ==
  ASSUME NEW past \in Seq(Routes \cup {NoLabel}), turn.step = Len(past), Len(past) > 0,
         NEW mem, NEW native, Chronicle(mem, past, Len(past), native),
         \A i \in 1..Len(mem) : mem[i].at < Len(past),
         ~native => \A i \in 1..Len(mem) : mem[i].label # NoLabel
  PROVE  /\ Chronicle(Remembered(mem), past, Len(past), native)
         /\ Remembered(mem) # <<>>
         /\ Remembered(mem)[Len(Remembered(mem))].at = Len(past)
<1> DEFINE new == [at |-> turn.step, label |-> NoLabel]
           longer == Append(mem, new)
           most == Min({MemorySize, Len(longer)})
           first == Len(longer) - most + 1
           kept == Remembered(mem)
<1>1. mem \in Seq(Entry) /\ Len(mem) \in Nat /\ Len(mem) <= MemorySize
  BY DEF Chronicle
<1>2. new \in Entry /\ new.at = Len(past) /\ new.label = NoLabel /\ Len(past) \in Nat
  BY DEF Entry
<1> HIDE DEF new
<1>3. /\ longer \in Seq(Entry) /\ Len(longer) = Len(mem) + 1
      /\ \A i \in 1..Len(mem) : longer[i] = mem[i]
      /\ longer[Len(mem) + 1] = new
  BY <1>1, <1>2, AppendProperties
<1> HIDE DEF longer
<1>4. most \in 1..Len(longer) /\ most <= MemorySize
  <2>1. MemorySize \in Nat \ {0} /\ Len(longer) \in Nat \ {0}
    BY <1>1, <1>3, MemoryAssumption
  <2>2. \E x \in {MemorySize, Len(longer)} : \A y \in {MemorySize, Len(longer)} : x <= y
    BY <2>1
  <2>3. /\ most \in {MemorySize, Len(longer)}
        /\ \A y \in {MemorySize, Len(longer)} : most <= y
    BY <2>2, Zenon DEF Min
  <2> HIDE DEF most
  <2> QED
    BY <2>1, <2>3
<1>5. kept = SubSeq(longer, first, Len(longer))
  BY DEF Remembered, longer, new
<1> HIDE DEF most, kept
<1>6. first \in 1..Len(longer) /\ Len(longer) - first + 1 = most
  BY <1>1, <1>3, <1>4
<1>7. /\ kept \in Seq(Entry) /\ Len(kept) = most
      /\ \A i \in 1..most : kept[i] = longer[first + i - 1]
  <2>1. \A i \in first..Len(longer) : longer[i] \in Entry
    BY <1>3, <1>6
  <2>2. first \in Int /\ Len(longer) \in Int /\ first <= Len(longer)
    BY <1>6
  <2> QED
    BY <1>5, <1>6, <2>1, <2>2, SubSeqProperties
<1> HIDE DEF first
<1>8. /\ \A i \in 1..most : first + i - 1 \in 1..Len(mem) + 1
      /\ \A i \in 1..most : i < most => first + i - 1 \in 1..Len(mem)
      /\ first + most - 1 = Len(mem) + 1
  BY <1>1, <1>3, <1>4, <1>6
<1>9. /\ \A i \in 1..most : i < most => kept[i] = mem[first + i - 1]
      /\ kept[most] = new /\ most \in 1..most
  BY <1>3, <1>4, <1>7, <1>8
<1>10. \A i \in 1..Len(kept) :
         kept[i].at <= Len(past) /\ (kept[i].label # NoLabel => Leads(kept[i], past))
  <2> SUFFICES ASSUME NEW i \in 1..most
               PROVE  /\ kept[i].at <= Len(past)
                      /\ kept[i].label # NoLabel => Leads(kept[i], past)
    BY <1>7
  <2>1. CASE i = most
    BY <1>2, <1>9, <2>1
  <2>2. CASE i # most
    <3>1. i < most
      BY <1>4, <2>2
    <3> QED
      BY <1>8, <1>9, <3>1 DEF Chronicle
  <2> QED
    BY <2>1, <2>2
<1>11. \A i \in 1..Len(kept) : i < Len(kept) =>
         kept[i].at < kept[i + 1].at /\ (~native => kept[i].label # NoLabel)
  <2> SUFFICES ASSUME NEW i \in 1..most, i < most
               PROVE  kept[i].at < kept[i + 1].at /\ (~native => kept[i].label # NoLabel)
    BY <1>7
  <2>1. kept[i] = mem[first + i - 1] /\ first + i - 1 \in 1..Len(mem)
    BY <1>8, <1>9
  <2>2. CASE i + 1 = most
    BY <1>2, <1>9, <2>1, <2>2
  <2>3. CASE i + 1 # most
    <3>1. i + 1 \in 1..most /\ i + 1 < most
      BY <1>4, <2>3
    <3>2. kept[i + 1] = mem[first + (i + 1) - 1] /\ first + (i + 1) - 1 \in 1..Len(mem)
      BY <1>8, <1>9, <3>1
    <3>3. first + (i + 1) - 1 = (first + i - 1) + 1
      BY <1>6
    <3>4. mem[first + i - 1].at < mem[(first + i - 1) + 1].at
      <4>1. first + i - 1 < Len(mem)
        BY <1>1, <1>6, <3>2, <3>3
      <4> QED
        BY <2>1, <4>1 DEF Chronicle
    <3> QED
      BY <2>1, <3>2, <3>3, <3>4
  <2> QED
    BY <2>2, <2>3
<1>12. kept # <<>> /\ Silent(kept[Len(kept)], past, Len(past))
  BY <1>2, <1>4, <1>7, <1>9 DEF Silent
<1>13. Len(kept) <= MemorySize
  BY <1>4, <1>7
<1>14. Chronicle(kept, past, Len(past), native)
  BY <1>7, <1>10, <1>11, <1>12, <1>13 DEF Chronicle
<1> QED
  BY <1>2, <1>7, <1>9, <1>12, <1>14 DEF kept

\* An item that has a label has the one it led to.
LEMMA LabelLedTo ==
  ASSUME labels \in Seq(Routes \cup {NoLabel}), NEW item \in Entry,
         item.label # NoLabel, Leads(item, labels)
  PROVE  item.label = LedTo(item.at)
<1> DEFINE after == {s \in item.at + 1..Len(labels) : labels[s] # NoLabel}
<1>1. PICK s \in item.at + 1..Len(labels) :
        /\ labels[s] = item.label
        /\ \A r \in item.at + 1..s - 1 : labels[r] = NoLabel
  BY DEF Leads
<1>2. item.at \in Nat /\ Len(labels) \in Nat
  BY DEF Entry
<1>3. s \in after /\ after # {}
  BY <1>1
<1>4. \A t \in after : t \in Int /\ s <= t
  BY <1>1, <1>2
<1>5. Min(after) = s
  <2>1. \A x \in after : (\A y \in after : x <= y) => x = s
    BY <1>3, <1>4
  <2> HIDE DEF after
  <2> QED
    BY <1>3, <1>4, <2>1 DEF Min
<1> QED
  BY <1>1, <1>3, <1>5 DEF LedTo

\* The steps whose snapshot the source has seen: the one at hand is not, until
\* NextAction runs.
Seen == IF turn.pc = "ask" THEN turn.step - 1 ELSE turn.step

\* The label of the step the source is asked on is in the snapshot.
LabelInHand ==
  turn.pc = "ask" =>
    /\ turn.step > 0 /\ snapshot.label = labels[turn.step]
    /\ ~declared.native => snapshot.label # NoLabel

\* While the model is asked, what is remembered is of earlier steps and, on the
\* web, labelled; when an action is in hand, it is remembered last.
MemoryInHand ==
  /\ turn.pc = "answer" =>
       /\ \A i \in 1..Len(memory) : memory[i].at < turn.step
       /\ ~declared.native => \A i \in 1..Len(memory) : memory[i].label # NoLabel
  /\ turn.pc = "apply" => memory # <<>> /\ memory[Len(memory)].at = turn.step
  /\ turn.pc # "observe" => line = NoLine
  /\ line.by # "" => memory # <<>> /\ memory[Len(memory)].at >= line.step

MemoryInv ==
  /\ SelectShaped /\ (turn.pc \in {"answer", "apply"} => turn.step > 0)
  /\ Chronicle(memory, labels, Seen, declared.native)
  /\ LabelInHand /\ MemoryInHand

LEMMA NoLineSource == NoLine.by = ""
  BY DEF NoLine

LEMMA MemoryInitial == SelectInit => MemoryInv
<1> SUFFICES ASSUME SelectInit PROVE MemoryInv
  OBVIOUS
<1>1. turn.pc = "observe" /\ turn.step = 0 /\ line.by = "" /\ memory = <<>>
  BY DEF SelectInit, NoLine
<1>2. SelectShaped
  BY SelectInitial DEF RecordInv
<1>3. Chronicle(memory, labels, Seen, declared.native)
  <2>1. memory \in Seq(Entry) /\ Len(memory) = 0
    <3> <<>> \in Seq(Entry) /\ Len(<<>>) = 0
      BY EmptySeq
    <3> QED
      BY <1>1
  <2>2. 1..Len(memory) = {} /\ Len(memory) <= MemorySize
    BY <2>1, MemoryAssumption
  <2> QED
    BY <1>1, <2>1, <2>2 DEF Chronicle
<1> QED
  BY <1>1, <1>2, <1>3 DEF MemoryInv, LabelInHand, MemoryInHand

LEMMA MemoryHeld == MemoryInv /\ SelectShaped' /\ HoldsStep => MemoryInv'
<1> SUFFICES ASSUME MemoryInv, SelectShaped', HoldsStep PROVE MemoryInv'
  OBVIOUS
<1>1. /\ turn.pc = "observe" /\ turn'.pc = "observe" /\ turn'.step = turn.step + 1
      /\ line'.by = "" /\ UNCHANGED <<declared, memory>> /\ labels' = Append(labels, NoLabel)
  BY DEF HoldsStep, NoLine, MemoryInv, SelectShaped
<1>2. labels \in Seq(Routes \cup {NoLabel}) /\ Len(labels) = turn.step /\ turn.step \in Nat
  BY DEF MemoryInv, SelectShaped
<1>3. Chronicle(memory, labels, Len(labels), declared.native)
  BY <1>1, <1>2 DEF MemoryInv, Seen
<1>4. Chronicle(memory, Append(labels, NoLabel), Len(labels) + 1, declared.native)
  BY <1>2, <1>3, ChronicleHeld
<1>5. Chronicle(memory, labels, Seen, declared.native)'
  BY <1>1, <1>2, <1>4 DEF Seen
<1> QED
  BY <1>1, <1>5 DEF MemoryInv, LabelInHand, MemoryInHand

LEMMA MemoryPushed == MemoryInv /\ SelectShaped' /\ PushesSnapshot => MemoryInv'
<1> SUFFICES ASSUME MemoryInv, SelectShaped', PushesSnapshot PROVE MemoryInv'
  OBVIOUS
<1>1. /\ turn.pc = "observe" /\ turn'.pc = "ask" /\ turn'.step = turn.step + 1
      /\ line' = NoLine /\ UNCHANGED <<declared, memory>>
  BY DEF PushesSnapshot, MemoryInv, SelectShaped
<1>2. PICK label \in IF declared.native THEN {NoLabel} ELSE Routes :
        snapshot'.label = label /\ labels' = Append(labels, label)
  BY DEF PushesSnapshot
<1>3. labels \in Seq(Routes \cup {NoLabel}) /\ Len(labels) = turn.step /\ turn.step \in Nat
  BY DEF MemoryInv, SelectShaped
<1>4. Chronicle(memory, labels, Len(labels), declared.native)
  BY <1>1, <1>3 DEF MemoryInv, Seen
<1>5. label \in Routes \cup {NoLabel} /\ (~declared.native => label # NoLabel)
  BY <1>2, RoutesAssumption
<1>6. Chronicle(memory, labels', Len(labels), declared.native)
  BY <1>2, <1>3, <1>4, <1>5, ChronicleLonger
<1>7. Chronicle(memory, labels, Seen, declared.native)'
  BY <1>1, <1>3, <1>6 DEF Seen
<1>8. labels'[turn'.step] = label
  BY <1>1, <1>2, <1>3, <1>5, AppendProperties
<1>9. LabelInHand'
  BY <1>1, <1>2, <1>3, <1>5, <1>8 DEF LabelInHand
<1>10. MemoryInHand'
  BY <1>1 DEF MemoryInHand, NoLine
<1> QED
  BY <1>1, <1>7, <1>9, <1>10 DEF MemoryInv

LEMMA MemoryApplied == MemoryInv /\ SelectShaped' /\ AppliesAction => MemoryInv'
<1> SUFFICES ASSUME MemoryInv, SelectShaped', AppliesAction PROVE MemoryInv'
  OBVIOUS
<1>1. /\ turn.pc = "apply" /\ turn'.pc = "observe" /\ turn'.step = turn.step
      /\ line'.step = turn.step /\ UNCHANGED <<declared, memory, labels>>
  BY DEF AppliesAction, Stamped, MemoryInv, SelectShaped
<1>2. Chronicle(memory, labels, Seen, declared.native)'
  BY <1>1 DEF MemoryInv, Seen
<1>3. memory # <<>> /\ memory[Len(memory)].at = turn.step /\ turn.step \in Nat
  BY <1>1 DEF MemoryInv, MemoryInHand, SelectShaped
<1>4. MemoryInHand'
  <2>1. turn.step >= turn.step /\ turn'.pc = "observe"
    BY <1>1, <1>3
  <2>2. memory' # <<>> /\ memory'[Len(memory')].at >= line'.step
    BY <1>1, <1>3, <2>1
  <2> QED
    BY <2>1, <2>2 DEF MemoryInHand
<1> QED
  BY <1>1, <1>2, <1>4 DEF MemoryInv, LabelInHand

\* What NextAction does first, whatever follows: the last item is completed.
LEMMA MemoryCompleted ==
  ASSUME MemoryInv, turn.pc = "ask"
  PROVE  /\ Chronicle(CompleteLast(memory), labels, turn.step, declared.native)
         /\ \A i \in 1..Len(CompleteLast(memory)) : CompleteLast(memory)[i].at < turn.step
         /\ ~declared.native =>
              \A i \in 1..Len(CompleteLast(memory)) : CompleteLast(memory)[i].label # NoLabel
         /\ turn.step \in Nat /\ turn.step > 0
<1> DEFINE n == turn.step - 1
<1>1. /\ turn.step \in Nat /\ turn.step > 0 /\ snapshot.label = labels[turn.step]
      /\ labels \in Seq(Routes \cup {NoLabel}) /\ Len(labels) = turn.step
      /\ ~declared.native => labels[turn.step] # NoLabel
  BY DEF MemoryInv, LabelInHand, SelectShaped
<1>2. n \in Nat /\ turn.step = n + 1
  BY <1>1
<1>3. Chronicle(memory, labels, n, declared.native)
  BY DEF MemoryInv, Seen
<1> HIDE DEF n
<1>4. /\ Chronicle(CompleteLast(memory), labels, n + 1, declared.native)
      /\ \A i \in 1..Len(CompleteLast(memory)) : CompleteLast(memory)[i].at <= n
      /\ ~declared.native /\ labels[n + 1] # NoLabel =>
           \A i \in 1..Len(CompleteLast(memory)) : CompleteLast(memory)[i].label # NoLabel
  BY <1>1, <1>2, <1>3, ChronicleCompleted
<1>5. CompleteLast(memory) \in Seq(Entry)
  BY <1>4 DEF Chronicle
<1>6. \A i \in 1..Len(CompleteLast(memory)) : CompleteLast(memory)[i].at \in Nat
  <2>1. \A i \in 1..Len(CompleteLast(memory)) : CompleteLast(memory)[i] \in Entry
    BY <1>5, ElementOfSeq
  <2> QED
    BY <2>1 DEF Entry
<1> QED
  BY <1>1, <1>2, <1>4, <1>6

LEMMA MemorySetup == MemoryInv /\ SelectShaped' /\ SetupActs => MemoryInv'
<1> SUFFICES ASSUME MemoryInv, SelectShaped', SetupActs PROVE MemoryInv'
  OBVIOUS
<1>1. /\ turn.pc = "ask" /\ turn'.pc = "apply" /\ turn'.step = turn.step
      /\ memory' = Remembered(CompleteLast(memory))
      /\ UNCHANGED <<declared, line, labels>>
  BY DEF SetupActs, Asked, InHand, MemoryInv, SelectShaped
<1>2. /\ labels \in Seq(Routes \cup {NoLabel}) /\ Len(labels) = turn.step
  BY DEF MemoryInv, SelectShaped
<1>3. /\ Chronicle(memory', labels, turn.step, declared.native)
      /\ memory' # <<>> /\ memory'[Len(memory')].at = turn.step /\ turn.step > 0
  <2> PICK mem : mem = CompleteLast(memory)
    OBVIOUS
  <2>1. /\ Chronicle(mem, labels, Len(labels), declared.native)
        /\ \A i \in 1..Len(mem) : mem[i].at < Len(labels)
        /\ ~declared.native => \A i \in 1..Len(mem) : mem[i].label # NoLabel
        /\ turn.step > 0
    BY <1>1, <1>2, MemoryCompleted
  <2>2. Len(labels) > 0
    BY <1>2, <2>1
  <2>3. /\ Chronicle(Remembered(mem), labels, Len(labels), declared.native)
        /\ Remembered(mem) # <<>>
        /\ Remembered(mem)[Len(Remembered(mem))].at = Len(labels)
    BY <1>2, <2>1, <2>2, ChronicleRemembered
  <2>4. memory' = Remembered(mem)
    BY <1>1
  <2> QED
    BY <1>2, <2>1, <2>3, <2>4
<1>4. Chronicle(memory, labels, Seen, declared.native)'
  BY <1>1, <1>3 DEF Seen
<1>5. line' = NoLine
  BY <1>1 DEF MemoryInv, MemoryInHand
<1>6. LabelInHand' /\ MemoryInHand'
  BY <1>1, <1>3, <1>5, NoLineSource DEF LabelInHand, MemoryInHand
<1> QED
  BY <1>1, <1>3, <1>4, <1>6 DEF MemoryInv

\* The step ends with nothing chosen.
LEMMA MemoryDone ==
  ASSUME MemoryInv, SelectShaped', turn.pc = "ask", turn'.pc \in {"observe", "aborted"},
         turn'.step = turn.step, memory' = CompleteLast(memory), line'.by = "",
         turn'.pc # "observe" => line' = NoLine, UNCHANGED <<declared, labels>>
  PROVE  MemoryInv'
<1>1. Chronicle(memory, labels, Seen, declared.native)'
  BY MemoryCompleted DEF Seen
<1> QED
  BY <1>1 DEF MemoryInv, LabelInHand, MemoryInHand

LEMMA MemoryAborted == MemoryInv /\ SelectShaped' /\ RunAborts => MemoryInv'
<1> SUFFICES ASSUME MemoryInv, SelectShaped', RunAborts PROVE MemoryInv'
  OBVIOUS
<1>1. /\ turn.pc = "ask" /\ turn'.pc = "aborted" /\ turn'.step = turn.step
      /\ memory' = CompleteLast(memory) /\ UNCHANGED <<declared, line, labels>>
  BY DEF RunAborts, Asked, MemoryInv, SelectShaped
<1>2. line' = NoLine /\ line'.by = ""
  BY <1>1, NoLineSource DEF MemoryInv, MemoryInHand
<1> QED
  BY <1>1, <1>2, MemoryDone

LEMMA MemoryNothing == MemoryInv /\ SelectShaped' /\ NothingToOffer => MemoryInv'
<1> SUFFICES ASSUME MemoryInv, SelectShaped', NothingToOffer PROVE MemoryInv'
  OBVIOUS
<1>1. /\ turn.pc = "ask" /\ turn'.pc = "observe" /\ turn'.step = turn.step
      /\ memory' = CompleteLast(memory) /\ line'.by = "" /\ UNCHANGED <<declared, labels>>
  BY DEF NothingToOffer, Asked, Declines, NoLine, MemoryInv, SelectShaped
<1> QED
  BY <1>1, MemoryDone

LEMMA MemoryAsked == MemoryInv /\ SelectShaped' /\ AsksModel => MemoryInv'
<1> SUFFICES ASSUME MemoryInv, SelectShaped', AsksModel PROVE MemoryInv'
  OBVIOUS
<1>1. /\ turn.pc = "ask" /\ turn'.pc = "answer" /\ turn'.step = turn.step
      /\ memory' = CompleteLast(memory) /\ UNCHANGED <<declared, line, labels>>
  BY DEF AsksModel, Asked, MemoryInv, SelectShaped
<1>2. /\ Chronicle(memory', labels, turn.step, declared.native) /\ turn.step > 0
      /\ \A i \in 1..Len(memory') : memory'[i].at < turn.step
      /\ ~declared.native => \A i \in 1..Len(memory') : memory'[i].label # NoLabel
  BY <1>1, MemoryCompleted
<1>3. Chronicle(memory, labels, Seen, declared.native)'
  BY <1>1, <1>2 DEF Seen
<1>4. line' = NoLine
  BY <1>1 DEF MemoryInv, MemoryInHand
<1>5. LabelInHand' /\ MemoryInHand'
  BY <1>1, <1>2, <1>4, NoLineSource DEF LabelInHand, MemoryInHand
<1> QED
  BY <1>1, <1>2, <1>3, <1>5 DEF MemoryInv

LEMMA MemoryDeclined ==
  MemoryInv /\ SelectShaped' /\ (NoUsableAnswer \/ PickDiscarded) => MemoryInv'
<1> SUFFICES ASSUME MemoryInv, SelectShaped', NoUsableAnswer \/ PickDiscarded
             PROVE  MemoryInv'
  OBVIOUS
<1>1. /\ turn.pc = "answer" /\ Declines /\ UNCHANGED <<declared, memory, labels>>
  BY DEF NoUsableAnswer, PickDiscarded
<1>2. turn'.pc = "observe" /\ turn'.step = turn.step /\ line'.by = ""
  BY <1>1 DEF Declines, NoLine, MemoryInv, SelectShaped
<1>3. Chronicle(memory, labels, Seen, declared.native)'
  BY <1>1, <1>2 DEF MemoryInv, Seen
<1> QED
  BY <1>2, <1>3 DEF MemoryInv, LabelInHand, MemoryInHand

LEMMA MemorySelected == MemoryInv /\ SelectShaped' /\ PickSelected => MemoryInv'
<1> SUFFICES ASSUME MemoryInv, SelectShaped', PickSelected PROVE MemoryInv'
  OBVIOUS
<1>1. /\ turn.pc = "answer" /\ turn'.pc = "apply" /\ turn'.step = turn.step
      /\ memory' = Remembered(memory) /\ UNCHANGED <<declared, line, labels>>
  BY DEF PickSelected, InHand, MemoryInv, SelectShaped
<1>2. /\ labels \in Seq(Routes \cup {NoLabel}) /\ Len(labels) = turn.step /\ turn.step > 0
      /\ Chronicle(memory, labels, turn.step, declared.native)
      /\ \A i \in 1..Len(memory) : memory[i].at < turn.step
      /\ ~declared.native => \A i \in 1..Len(memory) : memory[i].label # NoLabel
  BY <1>1 DEF MemoryInv, MemoryInHand, SelectShaped, Seen
<1>3. /\ Chronicle(memory', labels, turn.step, declared.native)
      /\ memory' # <<>> /\ memory'[Len(memory')].at = turn.step
  BY <1>1, <1>2, ChronicleRemembered
<1>4. Chronicle(memory, labels, Seen, declared.native)'
  BY <1>1, <1>3 DEF Seen
<1>5. line' = NoLine
  BY <1>1 DEF MemoryInv, MemoryInHand
<1>6. LabelInHand' /\ MemoryInHand'
  BY <1>1, <1>3, <1>5, NoLineSource DEF LabelInHand, MemoryInHand
<1> QED
  BY <1>1, <1>2, <1>4, <1>6 DEF MemoryInv

LEMMA MemoryRests == MemoryInv /\ UNCHANGED selectVars => MemoryInv'
  BY DEF MemoryInv, SelectShaped, Chronicle, Seen, LabelInHand, MemoryInHand, selectVars

LEMMA MemoryStep == MemoryInv /\ SelectShaped' /\ [SelectNext]_selectVars => MemoryInv'
  BY MemoryHeld, MemoryPushed, MemoryApplied, MemorySetup, MemoryAborted, MemoryNothing,
     MemoryAsked, MemoryDeclined, MemorySelected, MemoryRests
     DEF SelectNext

LEMMA MemoryTold == MemoryInv => MemoryTellsTheScreens
<1> SUFFICES ASSUME MemoryInv PROVE MemoryTellsTheScreens
  OBVIOUS
<1>1. /\ memory \in Seq(Entry) /\ labels \in Seq(Routes \cup {NoLabel})
      /\ DOMAIN memory = 1..Len(memory)
  BY DEF MemoryInv, Chronicle, SelectShaped
<1>2. \A i \in 1..Len(memory) : memory[i].label # NoLabel => memory[i].label = LedTo(memory[i].at)
  <2> SUFFICES ASSUME NEW i \in 1..Len(memory), memory[i].label # NoLabel
               PROVE  memory[i].label = LedTo(memory[i].at)
    OBVIOUS
  <2>1. memory[i] \in Entry
    BY <1>1, ElementOfSeq
  <2>2. Leads(memory[i], labels)
    BY DEF MemoryInv, Chronicle
  <2> QED
    BY <1>1, <2>1, <2>2, LabelLedTo
<1>3. \A i \in 1..Len(memory) : i < Len(memory) =>
        memory[i].at < memory[i + 1].at /\ (~declared.native => memory[i].label # NoLabel)
  BY DEF MemoryInv, Chronicle
<1> QED
  BY <1>1, <1>2, <1>3 DEF MemoryTellsTheScreens, MemoryInv, MemoryInHand

\* The memory tells which screens the past actions led to, in every state.
THEOREM MemoriesTellTheScreens == SelectSpec => []MemoryTellsTheScreens
<1>1. RecordInv => SelectShaped
  BY DEF RecordInv
<1> QED
  BY <1>1, SelectInitial, RecordStep, MemoryInitial, MemoryStep, MemoryTold, PTL
     DEF SelectSpec

\* The model's part keeps its types, and its memory its bound.
THEOREM SelectTyped == SelectSpec => []SelectTypeOK
<1>1. RecordInv /\ MemoryInv => SelectTypeOK
  <2> SUFFICES ASSUME RecordInv, MemoryInv PROVE SelectTypeOK
    OBVIOUS
  <2>1. /\ turn.step \in Nat /\ turn.step <= MaxAsks /\ Len(labels) = turn.step
        /\ declared \in [tree : Trees, native : BOOLEAN]
        /\ turn.pc \in {"observe", "ask", "answer", "apply", "aborted"}
    BY DEF RecordInv, SelectShaped
  <2>2. /\ source.by \in {"", "llm"}
        /\ source.by = "llm" <=> source.choice # None
    BY DEF RecordInv, SourceNamed
  <2>3. Len(memory) <= MemorySize
    BY DEF MemoryInv, Chronicle
  <2>4. turn.step \in 0..MaxAsks
    BY <2>1, MemoryAssumption
  <2> QED
    BY <2>1, <2>2, <2>3, <2>4, Zenon DEF SelectTypeOK
<1>2. RecordInv => SelectShaped
  BY DEF RecordInv
<1> QED
  BY <1>1, <1>2, SelectInitial, RecordStep, MemoryInitial, MemoryStep, PTL
     DEF SelectSpec

----------------------------------------------------------------------------
(* What is offered on a screen (Candidates), and what the model can pick.  *)

\* What Only keeps of a list is a list of the same things.
LEMMA OnlyIs ==
  ASSUME NEW S, NEW list \in Seq(S), NEW wanted
  PROVE  Only(list, wanted) \in Seq(S)
<1> DEFINE n == Len(list)
           V == Seq(S)
           Keep(i, kept) == IF list[i] \in wanted THEN Append(kept, list[i]) ELSE kept
           G == [i \in 1 .. n |-> [kept \in V |-> Keep(i, kept)]]
           Folds(iter) == iter = [s \in SUBSET (1 .. n) |->
                             IF s = {} THEN <<>> ELSE Keep(Max(s), iter[s \ {Max(s)}])]
           iter == CHOOSE f : Folds(f)
<1>1. n \in Nat /\ DOMAIN list = 1 .. n /\ \A i \in 1 .. n : list[i] \in S
  OBVIOUS
<1>2. <<>> \in V /\ G \in [1 .. n -> [V -> V]]
  OBVIOUS
<1>3. PICK f \in [SUBSET (1 .. n) -> V] :
        f = [s \in SUBSET (1 .. n) |-> IF s = {} THEN <<>> ELSE G[Max(s)][f[s \ {Max(s)}]]]
  <2> DEFINE base == <<>>
  <2>1. n \in Nat /\ base \in V /\ G \in [1 .. n -> [V -> V]]
    BY <1>1, <1>2
  <2> HIDE DEF n, V, G, base
  <2>2. \E f \in [SUBSET (1 .. n) -> V] : Folded(n, base, G, f)
    BY <2>1, FoldExists
  <2> QED BY <2>2 DEF base, Folded
<1>4. ASSUME NEW s \in SUBSET (1 .. n), s # {}, NEW v \in V
      PROVE  G[Max(s)][v] = Keep(Max(s), v)
  <2>1. Max(s) \in 1 .. n
    BY <1>1, <1>4, MaxIs
  <2> QED BY <2>1
<1>5. Folds(f)
  <2>1. ASSUME NEW s \in SUBSET (1 .. n), s # {}
        PROVE  G[Max(s)][f[s \ {Max(s)}]] = Keep(Max(s), f[s \ {Max(s)}])
    <3>1. f[s \ {Max(s)}] \in V
      BY <1>3
    <3> HIDE DEF G, Keep, V
    <3> QED BY <1>4, <2>1, <3>1
  <2> HIDE DEF G, Keep
  <2> QED BY <1>3, <2>1
<1>6. Folds(iter)
  <2> HIDE DEF Folds
  <2> QED BY <1>5
<1>7. Only(list, wanted) = iter[1 .. n]
  BY <1>1 DEF Only, FoldLeft, MapThenFoldSet
<1> HIDE DEF iter
<1>8. iter[{}] = <<>>
  BY <1>6
<1>9. \A s \in SUBSET (1 .. n) : s # {} /\ iter[s \ {Max(s)}] \in V =>
        iter[s] = G[Max(s)][iter[s \ {Max(s)}]]
  <2> HIDE DEF G, Keep, V
  <2> QED BY <1>4, <1>6
<1>10. PICK kept \in [0 .. n -> V] : kept[n] = iter[1 .. n]
  <2> DEFINE base == <<>>
  <2>1. n \in Nat /\ base \in V /\ G \in [1 .. n -> [V -> V]]
    BY <1>1, <1>2
  <2>2. Folding(n, V, base, G, iter)
    <3> HIDE DEF n, V, G
    <3> QED BY <1>8, <1>9 DEF Folding
  <2> HIDE DEF n, V, G, base
  <2>3. \E kept \in [0 .. n -> V] : Passing(n, base, G, iter, kept)
    BY <2>1, <2>2, FoldRuns
  <2> QED BY <2>3 DEF Passing
<1>11. n \in 0 .. n
  BY <1>1
<1> HIDE DEF n, G, V
<1>12. iter[1 .. n] \in V
  BY <1>10, <1>11
<1> QED BY <1>7, <1>12 DEF V

\* A branch of positive weight makes the total positive (collectWeighted's total).
LEMMA TotalIs ==
  ASSUME NEW S, NEW branches \in Seq(Int \X S), NEW k \in DOMAIN branches, branches[k][1] > 0
  PROVE  Total(branches) \in Nat /\ Total(branches) > 0
<1> DEFINE n == Len(branches)
           Weight(i) == IF branches[i][1] > 0 THEN branches[i][1] ELSE 0
           G == [i \in 1 .. n |-> [sum \in Nat |-> sum + Weight(i)]]
           Folds(iter) == iter = [s \in SUBSET (1 .. n) |->
                             IF s = {} THEN 0 ELSE iter[s \ {Max(s)}] + Weight(Max(s))]
           iter == CHOOSE f : Folds(f)
<1>1. n \in Nat /\ DOMAIN branches = 1 .. n /\ \A i \in 1 .. n : Weight(i) \in Nat
  <2>1. n \in Nat /\ DOMAIN branches = 1 .. n /\ \A i \in 1 .. n : branches[i] \in Int \X S
    OBVIOUS
  <2>2. \A i \in 1 .. n : branches[i][1] \in Int
    BY <2>1
  <2> QED BY <2>1, <2>2
<1>0. Weight(k) > 0
  OBVIOUS
<1> HIDE DEF Weight
<1>2. G \in [1 .. n -> [Nat -> Nat]]
  <2> HIDE DEF n
  <2> QED BY <1>1
<1>3. PICK f \in [SUBSET (1 .. n) -> Nat] :
        f = [s \in SUBSET (1 .. n) |-> IF s = {} THEN 0 ELSE G[Max(s)][f[s \ {Max(s)}]]]
  <2> DEFINE base == 0
  <2>1. n \in Nat /\ base \in Nat /\ G \in [1 .. n -> [Nat -> Nat]]
    BY <1>1, <1>2
  <2> HIDE DEF n, G, base
  <2>2. \E f \in [SUBSET (1 .. n) -> Nat] : Folded(n, base, G, f)
    BY <2>1, FoldExists
  <2> QED BY <2>2 DEF base, Folded
<1>4. ASSUME NEW s \in SUBSET (1 .. n), s # {}, NEW v \in Nat
      PROVE  G[Max(s)][v] = v + Weight(Max(s))
  <2>1. Max(s) \in 1 .. n
    BY <1>1, <1>4, MaxIs
  <2> QED BY <2>1
<1>5. Folds(f)
  <2>1. ASSUME NEW s \in SUBSET (1 .. n), s # {}
        PROVE  G[Max(s)][f[s \ {Max(s)}]] = f[s \ {Max(s)}] + Weight(Max(s))
    <3>1. f[s \ {Max(s)}] \in Nat
      BY <1>3
    <3> HIDE DEF G
    <3> QED BY <1>4, <2>1, <3>1
  <2> HIDE DEF G
  <2> QED BY <1>3, <2>1
<1>6. Folds(iter)
  <2> HIDE DEF Folds
  <2> QED BY <1>5
<1>7. Total(branches) = iter[1 .. n]
  BY <1>1 DEF Total, Weight, FoldLeft, MapThenFoldSet
<1> HIDE DEF iter
<1>8. iter[{}] = 0
  BY <1>6
<1>9. \A s \in SUBSET (1 .. n) : s # {} /\ iter[s \ {Max(s)}] \in Nat =>
        iter[s] = G[Max(s)][iter[s \ {Max(s)}]]
  <2> HIDE DEF G
  <2> QED BY <1>4, <1>6
<1>10. PICK sum \in [0 .. n -> Nat] :
         /\ \A i \in 1 .. n : sum[i] = G[i][sum[i - 1]]
         /\ sum[n] = iter[1 .. n]
  <2> DEFINE base == 0
             V == Nat
  <2>1. n \in Nat /\ base \in V /\ G \in [1 .. n -> [V -> V]]
    BY <1>1, <1>2
  <2>2. Folding(n, V, base, G, iter)
    <3> HIDE DEF n, G
    <3> QED BY <1>8, <1>9 DEF Folding
  <2> HIDE DEF n, V, G, base
  <2>3. \E sum \in [0 .. n -> V] : Passing(n, base, G, iter, sum)
    BY <2>1, <2>2, FoldRuns
  <2> QED BY <2>3 DEF V, Passing
<1> HIDE DEF n
<1>11. \A i \in 1 .. n : i - 1 \in 0 .. n /\ sum[i - 1] \in Nat /\ sum[i] = sum[i - 1] + Weight(i)
  <2> SUFFICES ASSUME NEW i \in 1 .. n
               PROVE  i - 1 \in 0 .. n /\ sum[i - 1] \in Nat /\ sum[i] = sum[i - 1] + Weight(i)
    OBVIOUS
  <2>1. i - 1 \in 0 .. n
    BY <1>1
  <2>2. sum[i - 1] \in Nat
    BY <1>10, <2>1
  <2> QED BY <1>10, <2>1, <2>2
<1> DEFINE T == {j \in Nat : k <= j /\ j <= n => sum[j] > 0}
<1>12. k \in 1 .. n
  BY <1>1
<1>13. Nat \subseteq T
  <2>1. 0 \in T
    BY <1>1, <1>12
  <2>2. ASSUME NEW j \in Nat, j \in T PROVE j + 1 \in T
    <3> SUFFICES ASSUME k <= j + 1, j + 1 <= n PROVE sum[j + 1] > 0
      OBVIOUS
    <3>1. j + 1 \in 1 .. n /\ j + 1 - 1 = j
      BY <1>1
    <3>2. sum[j] \in Nat /\ Weight(j + 1) \in Nat /\ sum[j + 1] = sum[j] + Weight(j + 1)
      BY <1>1, <1>11, <3>1
    <3>3. CASE k = j + 1
      BY <1>0, <3>2, <3>3
    <3>4. CASE k # j + 1
      <4>1. k <= j /\ j <= n
        BY <1>1, <1>12, <3>4
      <4>2. sum[j] > 0
        BY <2>2, <4>1
      <4> QED BY <3>2, <4>2
    <3> QED BY <3>3, <3>4
  <2> HIDE DEF T
  <2> QED BY <2>1, <2>2, NatSteps
<1>14. sum[n] \in Nat /\ sum[n] > 0
  <2>1. n \in T /\ k <= n
    BY <1>1, <1>12, <1>13
  <2> QED BY <1>1, <2>1
<1> QED BY <1>7, <1>10, <1>14

\* The members of a list after another.
LEMMA ConcatSet ==
  ASSUME NEW C, NEW a \in Seq(C), NEW b \in Seq(C)
  PROVE  a \o b \in Seq(C) /\ ToSet(a \o b) = ToSet(a) \cup ToSet(b)
<1>1. /\ a \o b \in Seq(C) /\ Len(a \o b) = Len(a) + Len(b)
      /\ \A i \in 1 .. Len(a) + Len(b) :
           (a \o b)[i] = IF i <= Len(a) THEN a[i] ELSE b[i - Len(a)]
  BY ConcatProperties
<1>2. Len(a) \in Nat /\ Len(b) \in Nat /\ DOMAIN a = 1 .. Len(a) /\ DOMAIN b = 1 .. Len(b)
  OBVIOUS
<1> DEFINE c == a \o b
<1>3. c \in Seq(C) /\ DOMAIN c = 1 .. Len(a) + Len(b)
  BY <1>1
<1> HIDE DEF c
<1>4. \A i \in 1 .. Len(a) + Len(b) : c[i] = IF i <= Len(a) THEN a[i] ELSE b[i - Len(a)]
  BY <1>1 DEF c
<1>5. ASSUME NEW x \in ToSet(c) PROVE x \in ToSet(a) \cup ToSet(b)
  <2>1. PICK i \in 1 .. Len(a) + Len(b) : x = c[i]
    BY <1>3, <1>5 DEF ToSet
  <2>2. CASE i <= Len(a)
    <3>1. i \in 1 .. Len(a) /\ x = a[i]
      BY <1>2, <1>4, <2>1, <2>2
    <3> QED BY <1>2, <3>1 DEF ToSet
  <2>3. CASE ~ (i <= Len(a))
    <3>1. i - Len(a) \in 1 .. Len(b) /\ x = b[i - Len(a)]
      BY <1>2, <1>4, <2>1, <2>3
    <3> QED BY <1>2, <3>1 DEF ToSet
  <2> QED BY <2>2, <2>3
<1>6. ASSUME NEW x \in ToSet(a) PROVE x \in ToSet(c)
  <2>1. PICK i \in 1 .. Len(a) : x = a[i]
    BY <1>2, <1>6 DEF ToSet
  <2>2. i \in 1 .. Len(a) + Len(b) /\ i <= Len(a)
    BY <1>2
  <2> QED BY <1>3, <1>4, <2>1, <2>2 DEF ToSet
<1>7. ASSUME NEW x \in ToSet(b) PROVE x \in ToSet(c)
  <2>1. PICK i \in 1 .. Len(b) : x = b[i]
    BY <1>2, <1>7 DEF ToSet
  <2>2. i + Len(a) \in 1 .. Len(a) + Len(b) /\ ~ (i + Len(a) <= Len(a)) /\ i + Len(a) - Len(a) = i
    BY <1>2
  <2>3. c[i + Len(a)] = b[i]
    BY <1>4, <2>2
  <2> QED BY <1>3, <2>1, <2>2, <2>3 DEF ToSet
<1> QED BY <1>3, <1>5, <1>6, <1>7 DEF c

\* Lists put end to end: a list of what they hold.
LEMMA FlattenIs ==
  ASSUME NEW C, NEW lists \in Seq(Seq(C))
  PROVE  /\ FlattenSeq(lists) \in Seq(C)
         /\ ToSet(FlattenSeq(lists)) = UNION {ToSet(lists[i]) : i \in DOMAIN lists}
<1> DEFINE n == Len(lists)
           S == 1 .. n
           V == Seq(C)
           One(g, i) == IF i = 1 THEN lists[i] ELSE g[i - 1] \o lists[i]
           Step == [g \in [S -> V] |-> [i \in S |-> One(g, i)]]
           rank == [i \in S |-> i]
           Flattens(f) == f = [i \in S |-> One(f, i)]
           flatten == CHOOSE f : Flattens(f)
<1>1. n \in Nat /\ DOMAIN lists = S /\ \A i \in S : lists[i] \in V
  OBVIOUS
<1>2. CASE n = 0
  <2>1. FlattenSeq(lists) = lists /\ lists = <<>>
    BY <1>2 DEF FlattenSeq
  <2>2. DOMAIN <<>> = {}
    OBVIOUS
  <2> QED BY <2>1, <2>2 DEF ToSet
<1>3. CASE n # 0
  <2>1. ASSUME NEW g \in [S -> V], NEW i \in S PROVE One(g, i) \in V
    <3>1. CASE i = 1
      BY <1>1, <3>1
    <3>2. CASE i # 1
      <4>1. i - 1 \in S
        BY <1>1, <3>2
      <4>2. g[i - 1] \in V /\ lists[i] \in V
        BY <1>1, <4>1
      <4>3. g[i - 1] \o lists[i] \in Seq(C)
        <5> DEFINE x == g[i - 1]
                   y == lists[i]
        <5>1. x \in Seq(C) /\ y \in Seq(C)
          BY <4>2
        <5> HIDE DEF x, y
        <5>2. x \o y \in Seq(C)
          BY <5>1
        <5> QED BY <5>2 DEF x, y
      <4> QED BY <3>2, <4>3
    <3> QED BY <3>1, <3>2
  <2>2. Step \in [[S -> V] -> [S -> V]]
    <3> HIDE DEF One, S, V
    <3>1. \A g \in [S -> V] : [i \in S |-> One(g, i)] \in [S -> V]
      BY <2>1
    <3> QED BY <3>1
  <2>3. rank \in [S -> Nat] /\ V # {}
    <3>1. <<>> \in V
      OBVIOUS
    <3>2. rank \in [S -> Nat]
      BY <1>1
    <3> HIDE DEF V, S, rank
    <3> QED BY <3>1, <3>2
  <2>4. ASSUME NEW g \in [S -> V], NEW h \in [S -> V], NEW i \in S,
               \A j \in S : rank[j] < rank[i] => g[j] = h[j]
        PROVE  Step[g][i] = Step[h][i]
    <3>1. CASE i = 1
      BY <3>1
    <3>2. CASE i # 1
      <4>1. i - 1 \in S /\ i - 1 < i
        BY <1>1, <3>2
      <4>2. rank[i - 1] < rank[i]
        BY <4>1
      <4>3. g[i - 1] = h[i - 1]
        BY <2>4, <4>1, <4>2
      <4> QED BY <4>3
    <3> QED BY <3>1, <3>2
  <2>5. \E f \in [S -> V] : f = Step[f]
    <3>1. Grounded(S, V, rank, Step)
      <4> HIDE DEF S, V, rank, Step
      <4> QED BY <2>2, <2>3, <2>4 DEF Grounded
    <3> HIDE DEF S, V, rank, Step
    <3> QED BY <3>1, Recursion
  <2>6. \E f : Flattens(f)
    <3> HIDE DEF One, S, V
    <3> QED BY <2>5
  <2>7. Flattens(flatten)
    <3> HIDE DEF Flattens
    <3> QED BY <2>6
  <2>8. FlattenSeq(lists) = flatten[n]
    BY <1>3 DEF FlattenSeq
  <2> HIDE DEF flatten
  <2>9. \A i \in S : flatten[i] = One(flatten, i)
    <3> HIDE DEF One
    <3> QED BY <2>7
  <2> DEFINE Good(i) == /\ flatten[i] \in Seq(C)
                        /\ ToSet(flatten[i]) = UNION {ToSet(lists[j]) : j \in 1 .. i}
             T == {i \in Nat : i \in S => Good(i)}
  <2>10. 0 \in T
    OBVIOUS
  <2>11. ASSUME NEW i \in Nat, i \in T PROVE i + 1 \in T
    <3> SUFFICES ASSUME i + 1 \in S PROVE Good(i + 1)
      OBVIOUS
    <3>1. CASE i = 0
      <4>1. flatten[1] = lists[1] /\ 1 \in S /\ 1 .. 1 = {1}
        BY <1>3, <2>9, <3>1
      <4> QED BY <1>1, <3>1, <4>1
    <3>2. CASE i # 0
      <4>1. i \in S /\ i + 1 - 1 = i /\ i + 1 # 1 /\ 1 .. i + 1 = (1 .. i) \cup {i + 1}
        BY <1>1, <3>2
      <4>2. Good(i)
        BY <2>11, <4>1
      <4>3. flatten[i + 1] = flatten[i] \o lists[i + 1]
        <5> DEFINE m == i + 1
        <5>1. m \in S /\ m # 1 /\ m - 1 = i
          BY <4>1
        <5> HIDE DEF m, S
        <5>2. flatten[m] = flatten[m - 1] \o lists[m]
          BY <2>9, <5>1
        <5> QED BY <5>1, <5>2 DEF m
      <4>4. flatten[i] \in Seq(C) /\ lists[i + 1] \in Seq(C)
        BY <1>1, <4>2
      <4> DEFINE x == flatten[i]
                 y == lists[i + 1]
                 z == flatten[i + 1]
      <4>5. x \o y \in Seq(C) /\ ToSet(x \o y) = ToSet(x) \cup ToSet(y)
        <5>1. x \in Seq(C) /\ y \in Seq(C)
          BY <4>4
        <5> HIDE DEF x, y
        <5> QED BY <5>1, ConcatSet
      <4>6. z \in Seq(C) /\ ToSet(z) = ToSet(x) \cup ToSet(y)
        BY <4>3, <4>5
      <4>7. UNION {ToSet(lists[j]) : j \in 1 .. i + 1}
              = (UNION {ToSet(lists[j]) : j \in 1 .. i}) \cup ToSet(lists[i + 1])
        <5> DEFINE P == 1 .. i
                   Q == 1 .. i + 1
                   m == i + 1
        <5>1. Q = P \cup {m}
          BY <4>1
        <5> HIDE DEF P, Q, m
        <5>2. UNION {ToSet(lists[j]) : j \in Q} = (UNION {ToSet(lists[j]) : j \in P}) \cup ToSet(lists[m])
          BY <5>1
        <5> QED BY <5>2 DEF P, Q, m
      <4> QED BY <4>2, <4>6, <4>7
    <3> QED BY <3>1, <3>2
  <2>12. Good(n)
    <3>1. Nat \subseteq T
      <4> HIDE DEF T
      <4> QED BY <2>10, <2>11, NatSteps
    <3>2. n \in S
      BY <1>1, <1>3
    <3> HIDE DEF Good
    <3> QED BY <1>1, <3>1, <3>2
  <2> HIDE DEF S, n
  <2> QED BY <1>1, <2>8, <2>12 DEF S
<1> QED BY <1>2, <1>3

----------------------------------------------------------------------------
(* The walks over the tree are well defined: a branch's tree is less deep. *)

LEMMA ListIs == \A S : \A list \in Seq(S) : IsList(list)
  BY DEF IsList, ToSet

\* What the screen shows of a leaf, authored or built in, is a list of actions.
LEMMA LeafLists ==
  ASSUME NEW screen
  PROVE  /\ \A list : IsList(list) => IsList(Visible(list, screen))
         /\ \A verb \in Verbs : IsList(BuiltinCandidates(verb, screen))
<1>1. ASSUME NEW list, IsList(list) PROVE IsList(Visible(list, screen))
  <2>1. Visible(list, screen) \in Seq(ToSet(list))
    BY <1>1, OnlyIs DEF Visible, IsList
  <2> QED BY <2>1, ListIs
<1>2. ASSUME NEW verb \in Verbs PROVE IsList(BuiltinCandidates(verb, screen))
  <2> DEFINE on == Only(Controls, {control \in screen : AcceptsTarget(verb, control)})
             n == Len(on)
  <2>1. on \in Seq(ToSet(Controls))
    BY HostAssumption, OnlyIs DEF IsList
  <2>2. n \in Nat /\ DOMAIN on = 1 .. n /\ \A i \in 1 .. n : on[i] \in ToSet(Controls)
    <3> HIDE DEF on
    <3> QED BY <2>1
  <2> HIDE DEF on, n
  <2>8. /\ "waitOnce" # "pressKeys"
        /\ \A name \in DOMAIN Targeted :
             name # "waitOnce" /\ name # "pressKeys" /\ name \notin DOMAIN Gestures
        /\ \A name \in DOMAIN Gestures :
             name # "waitOnce" /\ name # "pressKeys" /\ name \notin DOMAIN Targeted
    BY DEF Targeted, Gestures
  <2>4. CASE verb = "waitOnce"
    <3>1. BuiltinCandidates(verb, screen) = <<Wait>>
      BY <2>4, <2>8, Zenon DEF BuiltinCandidates
    <3>2. <<Wait>> \in Seq({Wait})
      OBVIOUS
    <3> QED BY <3>1, <3>2, ListIs
  <2>5. CASE verb = "pressKeys"
    <3> DEFINE Press(i) == Action("PressKey", "", Keys[i])
               all == {Press(i) : i \in DOMAIN Keys}
    <3>1. BuiltinCandidates(verb, screen) = [i \in DOMAIN Keys |-> Press(i)]
      BY <2>5, <2>8, Zenon DEF BuiltinCandidates
    <3>2. Len(Keys) \in Nat /\ DOMAIN Keys = 1 .. Len(Keys)
      BY HostAssumption DEF IsList
    <3>3. [i \in DOMAIN Keys |-> Press(i)] \in Seq(all)
      <4> HIDE DEF Press
      <4> QED BY <3>2
    <3> HIDE DEF all
    <3> QED BY <3>1, <3>3, ListIs
  <2>6. CASE verb \in DOMAIN Targeted
    <3> DEFINE Made(i) == Action(Targeted[verb], on[i], "")
               all == {Made(i) : i \in DOMAIN on}
    <3>1. BuiltinCandidates(verb, screen) = [i \in DOMAIN on |-> Made(i)]
      BY <2>6, <2>8, Zenon DEF BuiltinCandidates, on
    <3>2. [i \in DOMAIN on |-> Made(i)] \in Seq(all)
      <4> HIDE DEF Made
      <4> QED BY <2>2
    <3> HIDE DEF all
    <3> QED BY <3>1, <3>2, ListIs
  <2>7. CASE verb \in DOMAIN Gestures
    <3> DEFINE kind == Gestures[verb].kind
               ways == Gestures[verb].directions
               Toward(control) == [i \in DOMAIN ways |-> Action(kind, control, ways[i])]
               lists == [i \in DOMAIN on |-> Toward(on[i])]
               all == {Action(kind, control, ways[i]) : control \in ToSet(Controls), i \in DOMAIN ways}
    <3>1. BuiltinCandidates(verb, screen) = FlattenSeq(lists)
      BY <2>7, <2>8, Zenon DEF BuiltinCandidates, on
    <3>2. PICK m \in Nat : DOMAIN ways = 1 .. m
      <4>1. verb \in {"scrolls", "swipes"}
        BY <2>7 DEF Gestures
      <4>2. CASE verb = "scrolls"
        <5>1. DOMAIN ways = 1 .. 2
          BY <4>2 DEF Gestures
        <5> QED BY <5>1
      <4>3. CASE verb = "swipes"
        <5>1. DOMAIN ways = 1 .. 4
          BY <4>3 DEF Gestures
        <5> QED BY <5>1
      <4> QED BY <4>1, <4>2, <4>3
    <3> HIDE DEF kind, ways
    <3>4. ASSUME NEW control \in ToSet(Controls) PROVE Toward(control) \in Seq(all)
      <4>1. \A i \in DOMAIN ways : Action(kind, control, ways[i]) \in all
        OBVIOUS
      <4> HIDE DEF all
      <4> QED BY <3>2, <4>1
    <3>5. lists \in Seq(Seq(all))
      <4>1. \A i \in 1 .. n : Toward(on[i]) \in Seq(all)
        BY <2>2, <3>4
      <4> HIDE DEF Toward, all
      <4> QED BY <2>2, <4>1
    <3> HIDE DEF lists, all
    <3>6. FlattenSeq(lists) \in Seq(all)
      BY <3>5, FlattenIs
    <3> QED BY <3>1, <3>6, ListIs
  <2> QED BY <2>4, <2>5, <2>6, <2>7 DEF Verbs
<1> QED BY <1>1, <1>2

\* A node is of one of the kinds, and its branches are nodes of less depth.
LEMMA NodeIs ==
  ASSUME NEW node \in Nodes
  PROVE  /\ DepthOf(node) \in Nat
         /\ node.kind \in {"weighted", "actions", "samples", "throws", "builtin"}
         /\ node.kind = "weighted" =>
              /\ node.branches \in Seq(Int \X Nodes)
              /\ \A i \in DOMAIN node.branches :
                   /\ node.branches[i][2] \in Nodes
                   /\ DepthOf(node.branches[i][2]) < DepthOf(node)
         /\ node.kind \in {"actions", "samples"} => IsList(node.list)
         /\ node.kind = "builtin" => node.verb \in Verbs
<1>1. /\ DepthOf(node) \in Nat
      /\ \/ /\ node.kind = "weighted" /\ node.branches \in Seq(Int \X Nodes)
            /\ \A i \in DOMAIN node.branches : DepthOf(node.branches[i][2]) < DepthOf(node)
         \/ node.kind \in {"actions", "samples"} /\ IsList(node.list)
         \/ node.kind = "throws"
         \/ node.kind = "builtin" /\ node.verb \in Verbs
  BY NodesAssumption
<1>2. ASSUME node.branches \in Seq(Int \X Nodes), NEW i \in DOMAIN node.branches
      PROVE  node.branches[i][2] \in Nodes
  <2>1. node.branches[i] \in Int \X Nodes
    BY <1>2
  <2> QED BY <2>1
<1> QED BY <1>1, <1>2

\* What a walk says of a node rests on what it says of its branches: what holds of a
\* node when it holds of its branches holds of every node.
LEMMA NodeSteps ==
  ASSUME NEW T,
         \A node \in Nodes :
           (node.kind = "weighted" => \A i \in DOMAIN node.branches : node.branches[i][2] \in T)
           => node \in T
  PROVE  Nodes \subseteq T
<1> DEFINE rank == [node \in Nodes |-> DepthOf(node)]
<1>1. rank \in [Nodes -> Nat]
  BY NodeIs
<1>2. ASSUME NEW node \in Nodes, \A x \in Nodes : rank[x] < rank[node] => x \in T
      PROVE  node \in T
  <2>1. ASSUME node.kind = "weighted", NEW i \in DOMAIN node.branches
        PROVE  node.branches[i][2] \in T
    <3> DEFINE x == node.branches[i][2]
    <3>1. x \in Nodes /\ DepthOf(x) < DepthOf(node)
      BY <2>1, NodeIs
    <3> HIDE DEF x
    <3>2. x \in T
      BY <1>2, <3>1
    <3> QED BY <3>2 DEF x
  <2> QED BY <2>1
<1> HIDE DEF rank
<1> QED BY <1>1, <1>2, RankSteps

\* A walk's value at a node depends on the values at its branches only.
Walks(V, Step) ==
  /\ V # {} /\ Step \in [[Nodes -> V] -> [Nodes -> V]]
  /\ \A g, h \in [Nodes -> V] : \A node \in Nodes :
       (node.kind = "weighted" =>
          \A i \in DOMAIN node.branches : g[node.branches[i][2]] = h[node.branches[i][2]])
       => Step[g][node] = Step[h][node]

LEMMA WalkExists ==
  ASSUME NEW V, NEW Step, Walks(V, Step)
  PROVE  \E f \in [Nodes -> V] : f = Step[f]
<1> DEFINE rank == [node \in Nodes |-> DepthOf(node)]
<1>1. rank \in [Nodes -> Nat]
  BY NodeIs
<1>2. V # {} /\ Step \in [[Nodes -> V] -> [Nodes -> V]]
  BY DEF Walks
<1>3. ASSUME NEW g \in [Nodes -> V], NEW h \in [Nodes -> V], NEW node \in Nodes,
             \A x \in Nodes : rank[x] < rank[node] => g[x] = h[x]
      PROVE  Step[g][node] = Step[h][node]
  <2>1. ASSUME node.kind = "weighted", NEW i \in DOMAIN node.branches
        PROVE  g[node.branches[i][2]] = h[node.branches[i][2]]
    <3> DEFINE x == node.branches[i][2]
    <3>1. x \in Nodes /\ DepthOf(x) < DepthOf(node)
      BY <2>1, NodeIs
    <3> HIDE DEF x
    <3>2. g[x] = h[x]
      BY <1>3, <3>1
    <3> QED BY <3>2 DEF x
  <2> QED BY <2>1 DEF Walks
<1>4. Grounded(Nodes, V, rank, Step)
  <2> HIDE DEF rank
  <2> QED BY <1>1, <1>2, <1>3 DEF Grounded
<1> HIDE DEF rank
<1> QED BY <1>4, Recursion

\* The actions that some leaf of some tree yields on a screen.
Yields(screen) ==
  (UNION {ToSet(Visible(node.list, screen)) :
            node \in {x \in Nodes : x.kind \in {"actions", "samples"}}})
  \cup UNION {ToSet(BuiltinCandidates(verb, screen)) : verb \in Verbs}

LEMMA YieldedBy ==
  ASSUME NEW screen, NEW node \in Nodes
  PROVE  /\ node.kind \in {"actions", "samples"} =>
              ToSet(Visible(node.list, screen)) \subseteq Yields(screen)
         /\ node.kind = "builtin" =>
              ToSet(BuiltinCandidates(node.verb, screen)) \subseteq Yields(screen)
<1>1. ASSUME node.kind \in {"actions", "samples"}
      PROVE  ToSet(Visible(node.list, screen)) \subseteq Yields(screen)
  BY <1>1, Zenon DEF Yields
<1>2. ASSUME node.kind = "builtin"
      PROVE  ToSet(BuiltinCandidates(node.verb, screen)) \subseteq Yields(screen)
  <2>1. node.verb \in Verbs
    BY <1>2, NodeIs
  <2> QED BY <2>1, Zenon DEF Yields
<1> QED BY <1>1, <1>2

LEMMA PairsIn ==
  ASSUME NEW A, NEW B, A \subseteq B
  PROVE  /\ {<<a, FALSE>> : a \in A} \subseteq B \X BOOLEAN
         /\ {<<a, a.kind = "InputText">> : a \in A} \subseteq B \X BOOLEAN
<1>1. ASSUME NEW a \in A PROVE <<a, FALSE>> \in B \X BOOLEAN
  OBVIOUS
<1>2. ASSUME NEW a \in A PROVE <<a, a.kind = "InputText">> \in B \X BOOLEAN
  <2>1. \A b \in BOOLEAN : <<a, b>> \in B \X BOOLEAN
    OBVIOUS
  <2>2. (a.kind = "InputText") \in BOOLEAN
    OBVIOUS
  <2> QED BY <2>1, <2>2, Zenon
<1> QED BY <1>1, <1>2, Zenon

\* One step of the picker's walk.
Draws(walk, node, screen) ==
  CASE node.kind = "weighted" ->
         UNION {walk[node.branches[i][2]] :
                  i \in {j \in DOMAIN node.branches : node.branches[j][1] > 0}}
    [] node.kind \in {"actions", "samples"} ->
         {<<action, FALSE>> : action \in ToSet(Visible(node.list, screen))}
    [] node.kind = "throws" -> {}
    [] node.kind = "builtin" ->
         {<<action, action.kind = "InputText">> :
            action \in ToSet(BuiltinCandidates(node.verb, screen))}

LEMMA NodeKinds ==
  /\ "weighted" \notin {"actions", "samples", "throws", "builtin"}
  /\ "throws" \notin {"actions", "samples", "builtin"}
  /\ "builtin" \notin {"actions", "samples"} /\ "actions" # "samples"
  OBVIOUS

LEMMA DrawsAre ==
  ASSUME NEW walk, NEW node, NEW screen
  PROVE  /\ node.kind = "weighted" =>
              Draws(walk, node, screen) =
                UNION {walk[node.branches[i][2]] :
                         i \in {j \in DOMAIN node.branches : node.branches[j][1] > 0}}
         /\ node.kind \in {"actions", "samples"} =>
              Draws(walk, node, screen) = {<<action, FALSE>> : action \in ToSet(Visible(node.list, screen))}
         /\ node.kind = "throws" => Draws(walk, node, screen) = {}
         /\ node.kind = "builtin" =>
              Draws(walk, node, screen) =
                {<<action, action.kind = "InputText">> :
                   action \in ToSet(BuiltinCandidates(node.verb, screen))}
  BY NodeKinds, Zenon DEF Draws

\* Drawable satisfies the recursion that defines it (walk).
LEMMA DrawableIs ==
  ASSUME NEW screen, NEW node \in Nodes
  PROVE  /\ node.kind = "weighted" =>
              Drawable(node, screen) =
                UNION {Drawable(node.branches[i][2], screen) :
                         i \in {j \in DOMAIN node.branches : node.branches[j][1] > 0}}
         /\ node.kind \in {"actions", "samples"} =>
              Drawable(node, screen) = {<<action, FALSE>> : action \in ToSet(Visible(node.list, screen))}
         /\ node.kind = "throws" => Drawable(node, screen) = {}
         /\ node.kind = "builtin" =>
              Drawable(node, screen) =
                {<<action, action.kind = "InputText">> :
                   action \in ToSet(BuiltinCandidates(node.verb, screen))}
<1> DEFINE V == SUBSET (Yields(screen) \X BOOLEAN)
           One(g, x) == Draws(g, x, screen)
           Step == [g \in [Nodes -> V] |-> [x \in Nodes |-> One(g, x)]]
           Walk(f) == f = [x \in Nodes |-> One(f, x)]
           walk == CHOOSE f : Walk(f)
<1>1. ASSUME NEW g \in [Nodes -> V], NEW x \in Nodes PROVE One(g, x) \in V
  <2>1. CASE x.kind = "weighted"
    <3>1. \A i \in DOMAIN x.branches : g[x.branches[i][2]] \in V
      BY <2>1, NodeIs
    <3>2. One(g, x) = UNION {g[x.branches[i][2]] : i \in {j \in DOMAIN x.branches : x.branches[j][1] > 0}}
      BY <2>1, DrawsAre
    <3> QED BY <3>1, <3>2
  <2>2. CASE x.kind \in {"actions", "samples"}
    <3>1. One(g, x) = {<<action, FALSE>> : action \in ToSet(Visible(x.list, screen))}
      BY <2>2, DrawsAre
    <3>2. ToSet(Visible(x.list, screen)) \subseteq Yields(screen)
      BY <2>2, YieldedBy
    <3> DEFINE list == ToSet(Visible(x.list, screen))
               all == Yields(screen)
    <3> HIDE DEF list, all
    <3>3. {<<action, FALSE>> : action \in list} \subseteq all \X BOOLEAN
      <4>1. list \subseteq all
        BY <3>2 DEF list, all
      <4> QED BY <4>1, PairsIn
    <3> QED BY <3>1, <3>3 DEF list, all
  <2>3. CASE x.kind = "throws"
    <3>1. One(g, x) = {}
      BY <2>3, DrawsAre
    <3> QED BY <3>1
  <2>4. CASE x.kind = "builtin"
    <3>1. One(g, x) = {<<action, action.kind = "InputText">> :
                         action \in ToSet(BuiltinCandidates(x.verb, screen))}
      BY <2>4, DrawsAre
    <3>2. ToSet(BuiltinCandidates(x.verb, screen)) \subseteq Yields(screen)
      BY <2>4, YieldedBy
    <3> DEFINE list == ToSet(BuiltinCandidates(x.verb, screen))
               all == Yields(screen)
    <3> HIDE DEF list, all
    <3>3. {<<action, action.kind = "InputText">> : action \in list} \subseteq all \X BOOLEAN
      <4>1. list \subseteq all
        BY <3>2 DEF list, all
      <4> QED BY <4>1, PairsIn
    <3> QED BY <3>1, <3>3 DEF list, all
  <2> QED BY <2>1, <2>2, <2>3, <2>4, NodeIs
<1>2. ASSUME NEW g \in [Nodes -> V], NEW h \in [Nodes -> V], NEW x \in Nodes,
             x.kind = "weighted" => \A i \in DOMAIN x.branches : g[x.branches[i][2]] = h[x.branches[i][2]]
      PROVE  One(g, x) = One(h, x)
  <2>1. CASE x.kind = "weighted"
    <3>1. /\ One(g, x) = UNION {g[x.branches[i][2]] : i \in {j \in DOMAIN x.branches : x.branches[j][1] > 0}}
          /\ One(h, x) = UNION {h[x.branches[i][2]] : i \in {j \in DOMAIN x.branches : x.branches[j][1] > 0}}
      BY <2>1, DrawsAre
    <3> HIDE DEF One
    <3> QED BY <1>2, <2>1, <3>1
  <2>2. CASE x.kind \in {"actions", "samples"}
    BY <2>2, DrawsAre
  <2>3. CASE x.kind = "throws"
    BY <2>3, DrawsAre
  <2>4. CASE x.kind = "builtin"
    BY <2>4, DrawsAre
  <2> QED BY <2>1, <2>2, <2>3, <2>4, NodeIs
<1>3. Walks(V, Step)
  <2>1. V # {}
    OBVIOUS
  <2> HIDE DEF V, One
  <2> QED BY <1>1, <1>2, <2>1 DEF Walks
<1>4. \E f : Walk(f)
  <2>1. \E f \in [Nodes -> V] : f = Step[f]
    <3> HIDE DEF V, Step
    <3> QED BY <1>3, WalkExists
  <2> HIDE DEF V, One
  <2> QED BY <2>1
<1>5. Walk(walk)
  <2> HIDE DEF Walk
  <2> QED BY <1>4
<1>6. \A x : Drawable(x, screen) = walk[x]
  BY DEF Drawable, Draws
<1> HIDE DEF walk
<1>7. \A x \in Nodes : Drawable(x, screen) = One(walk, x)
  <2> HIDE DEF One
  <2> QED BY <1>5, <1>6
<1>8. Drawable(node, screen) = Draws(walk, node, screen)
  BY <1>7
<1>9. ASSUME node.kind = "weighted"
      PROVE  Drawable(node, screen) =
               UNION {Drawable(node.branches[i][2], screen) :
                        i \in {j \in DOMAIN node.branches : node.branches[j][1] > 0}}
  <2> DEFINE weighed == {j \in DOMAIN node.branches : node.branches[j][1] > 0}
             Branch(i) == node.branches[i][2]
  <2>1. Drawable(node, screen) = UNION {walk[Branch(i)] : i \in weighed}
    BY <1>8, <1>9, DrawsAre
  <2>2. \A i \in weighed : Drawable(Branch(i), screen) = walk[Branch(i)]
    BY <1>6
  <2> HIDE DEF weighed, Branch
  <2>3. Drawable(node, screen) = UNION {Drawable(Branch(i), screen) : i \in weighed}
    BY <2>1, <2>2
  <2> QED BY <2>3 DEF weighed, Branch
<1>10. ASSUME node.kind \in {"actions", "samples"}
      PROVE  Drawable(node, screen) = {<<action, FALSE>> : action \in ToSet(Visible(node.list, screen))}
  BY <1>8, <1>10, DrawsAre
<1>11. ASSUME node.kind = "throws" PROVE Drawable(node, screen) = {}
  BY <1>8, <1>11, DrawsAre
<1>12. ASSUME node.kind = "builtin"
      PROVE  Drawable(node, screen) =
               {<<action, action.kind = "InputText">> :
                  action \in ToSet(BuiltinCandidates(node.verb, screen))}
  BY <1>8, <1>12, DrawsAre
<1> QED BY <1>9, <1>10, <1>11, <1>12, Zenon

\* Leaves satisfies the recursion that defines it.
LEMMA LeavesAre ==
  ASSUME NEW node \in Nodes
  PROVE  Leaves(node) = IF node.kind = "weighted"
                        THEN UNION {Leaves(node.branches[i][2]) : i \in DOMAIN node.branches}
                        ELSE {node}
<1> DEFINE V == SUBSET Nodes
           One(g, x) == IF x.kind = "weighted"
                        THEN UNION {g[x.branches[i][2]] : i \in DOMAIN x.branches}
                        ELSE {x}
           Step == [g \in [Nodes -> V] |-> [x \in Nodes |-> One(g, x)]]
           Walk(f) == f = [x \in Nodes |-> One(f, x)]
           walk == CHOOSE f : Walk(f)
<1>1. ASSUME NEW g \in [Nodes -> V], NEW x \in Nodes PROVE One(g, x) \in V
  <2>1. CASE x.kind = "weighted"
    <3>1. \A i \in DOMAIN x.branches : g[x.branches[i][2]] \in V
      BY <2>1, NodeIs
    <3> QED BY <2>1, <3>1
  <2>2. CASE x.kind # "weighted"
    BY <2>2
  <2> QED BY <2>1, <2>2
<1>2. ASSUME NEW g \in [Nodes -> V], NEW h \in [Nodes -> V], NEW x \in Nodes,
             x.kind = "weighted" => \A i \in DOMAIN x.branches : g[x.branches[i][2]] = h[x.branches[i][2]]
      PROVE  One(g, x) = One(h, x)
  <2>1. CASE x.kind = "weighted"
    <3> DEFINE Branch(i) == x.branches[i][2]
    <3>1. \A i \in DOMAIN x.branches : g[Branch(i)] = h[Branch(i)]
      BY <1>2, <2>1
    <3> HIDE DEF Branch
    <3>2. UNION {g[Branch(i)] : i \in DOMAIN x.branches} = UNION {h[Branch(i)] : i \in DOMAIN x.branches}
      BY <3>1
    <3> QED BY <2>1, <3>2 DEF Branch
  <2>2. CASE x.kind # "weighted"
    BY <2>2
  <2> QED BY <2>1, <2>2
<1>3. Walks(V, Step)
  <2>1. V # {}
    OBVIOUS
  <2> HIDE DEF V, One
  <2> QED BY <1>1, <1>2, <2>1 DEF Walks
<1>4. \E f : Walk(f)
  <2>1. \E f \in [Nodes -> V] : f = Step[f]
    <3> HIDE DEF V, Step
    <3> QED BY <1>3, WalkExists
  <2> HIDE DEF V, One
  <2> QED BY <2>1
<1>5. Walk(walk)
  <2> HIDE DEF Walk
  <2> QED BY <1>4
<1>6. \A x : Leaves(x) = walk[x]
  BY DEF Leaves
<1> HIDE DEF walk
<1>7. Leaves(node) = One(walk, node)
  <2> HIDE DEF One
  <2> QED BY <1>5, <1>6
<1> QED BY <1>6, <1>7

\* One step of the enumeration's walk.
Collects(walk, node, screen) ==
  CASE node.kind = "weighted" ->
         IF Total(node.branches) <= 0 THEN <<>>
         ELSE FlattenSeq([i \in DOMAIN node.branches |-> walk[node.branches[i][2]]])
    [] node.kind \in {"actions", "samples"} ->
         LET list == Visible(node.list, screen)
         IN [i \in DOMAIN list |-> Candidate(list[i], FALSE)]
    [] node.kind = "throws" -> <<>>
    [] node.kind = "builtin" -> CollectBuiltin(node.verb, screen)

\* What an authored leaf offers, and what the branches of a node do.
Authored(node, screen) ==
  [i \in DOMAIN Visible(node.list, screen) |-> Candidate(Visible(node.list, screen)[i], FALSE)]
Parts(walk, node) == [i \in DOMAIN node.branches |-> walk[node.branches[i][2]]]
Branched(node, screen) == [i \in DOMAIN node.branches |-> Collect(node.branches[i][2], screen)]

LEMMA CollectsAre ==
  ASSUME NEW walk, NEW node, NEW screen
  PROVE  /\ node.kind = "weighted" =>
              Collects(walk, node, screen) =
                IF Total(node.branches) <= 0 THEN <<>>
                ELSE FlattenSeq(Parts(walk, node))
         /\ node.kind \in {"actions", "samples"} =>
              Collects(walk, node, screen) =
                Authored(node, screen)
         /\ node.kind = "throws" => Collects(walk, node, screen) = <<>>
         /\ node.kind = "builtin" => Collects(walk, node, screen) = CollectBuiltin(node.verb, screen)
  BY NodeKinds, Zenon DEF Collects, Parts, Authored

\* The candidates that the actions of some leaf make.
Raised(screen) == {Candidate(action, llmText) : action \in Yields(screen), llmText \in BOOLEAN}

LEMMA RaisedIs ==
  ASSUME NEW screen, NEW action \in Yields(screen), NEW llmText \in BOOLEAN
  PROVE  Candidate(action, llmText) \in Raised(screen)
  BY DEF Raised

\* A leaf's list makes a list of candidates, each of them for one of its actions.
LEMMA LeafCandidates ==
  ASSUME NEW screen, NEW node \in Nodes
  PROVE  /\ node.kind \in {"actions", "samples"} =>
              Authored(node, screen)
                \in Seq(Raised(screen))
         /\ node.kind = "builtin" => CollectBuiltin(node.verb, screen) \in Seq(Raised(screen))
<1>1. ASSUME node.kind \in {"actions", "samples"}
      PROVE  Authored(node, screen)
               \in Seq(Raised(screen))
  <2> DEFINE list == Visible(node.list, screen)
  <2>1. IsList(list) /\ ToSet(list) \subseteq Yields(screen)
    BY <1>1, NodeIs, LeafLists, YieldedBy
  <2> HIDE DEF list
  <2>2. Len(list) \in Nat /\ DOMAIN list = 1 .. Len(list) /\ \A i \in 1 .. Len(list) : list[i] \in ToSet(list)
    BY <2>1 DEF IsList
  <2> DEFINE Made(i) == Candidate(list[i], FALSE)
  <2>3. \A i \in 1 .. Len(list) : Made(i) \in Raised(screen)
    <3>1. \A i \in 1 .. Len(list) : list[i] \in Yields(screen)
      BY <2>1, <2>2
    <3> QED BY <3>1, RaisedIs
  <2>4. [i \in DOMAIN list |-> Made(i)] \in Seq(Raised(screen))
    <3> HIDE DEF Made
    <3> QED BY <2>2, <2>3
  <2> QED BY <2>4 DEF list, Authored
<1>2. ASSUME node.kind = "builtin" PROVE CollectBuiltin(node.verb, screen) \in Seq(Raised(screen))
  <2> DEFINE list == BuiltinCandidates(node.verb, screen)
             ByModel(i) == list[i].kind = "InputText"
  <2>1. IsList(list) /\ ToSet(list) \subseteq Yields(screen)
    BY <1>2, NodeIs, LeafLists, YieldedBy
  <2>2. CollectBuiltin(node.verb, screen) = [i \in DOMAIN list |-> Candidate(list[i], ByModel(i))]
    BY Zenon DEF CollectBuiltin
  <2>3. \A i : ByModel(i) \in BOOLEAN
    OBVIOUS
  <2> HIDE DEF list, ByModel
  <2>4. Len(list) \in Nat /\ DOMAIN list = 1 .. Len(list) /\ \A i \in 1 .. Len(list) : list[i] \in ToSet(list)
    BY <2>1 DEF IsList
  <2>5. ASSUME NEW i \in 1 .. Len(list) PROVE Candidate(list[i], ByModel(i)) \in Raised(screen)
    <3>1. list[i] \in Yields(screen) /\ ByModel(i) \in BOOLEAN
      BY <2>1, <2>3, <2>4
    <3> QED BY <3>1, RaisedIs
  <2>6. [i \in DOMAIN list |-> Candidate(list[i], ByModel(i))] \in Seq(Raised(screen))
    <3> DEFINE Made(i) == Candidate(list[i], ByModel(i))
    <3> HIDE DEF Made
    <3>1. \A i \in 1 .. Len(list) : Made(i) \in Raised(screen)
      BY <2>5 DEF Made
    <3>2. [i \in DOMAIN list |-> Made(i)] \in Seq(Raised(screen))
      BY <2>4, <3>1
    <3> QED BY <3>2 DEF Made
  <2> QED BY <2>2, <2>6
<1> QED BY <1>1, <1>2

\* Collect satisfies the recursion that defines it, and is a list (collectNode).
LEMMA CollectIs ==
  ASSUME NEW screen, NEW node \in Nodes
  PROVE  /\ Collect(node, screen) \in Seq(Raised(screen))
         /\ node.kind = "weighted" =>
              Collect(node, screen) =
                IF Total(node.branches) <= 0 THEN <<>>
                ELSE FlattenSeq(Branched(node, screen))
         /\ node.kind \in {"actions", "samples"} =>
              Collect(node, screen) =
                Authored(node, screen)
         /\ node.kind = "throws" => Collect(node, screen) = <<>>
         /\ node.kind = "builtin" => Collect(node, screen) = CollectBuiltin(node.verb, screen)
<1> DEFINE C == Raised(screen)
           V == Seq(C)
           One(g, x) == Collects(g, x, screen)
           Step == [g \in [Nodes -> V] |-> [x \in Nodes |-> One(g, x)]]
           Walk(f) == f = [x \in Nodes |-> One(f, x)]
           walk == CHOOSE f : Walk(f)
<1>1. ASSUME NEW g, NEW x \in Nodes,
             x.kind = "weighted" => \A i \in DOMAIN x.branches : g[x.branches[i][2]] \in V
      PROVE  One(g, x) \in V
  <2>0. <<>> \in V
    OBVIOUS
  <2>1. CASE x.kind = "weighted"
    <3> DEFINE n == Len(x.branches)
               lists == Parts(g, x)
    <3>1. n \in Nat /\ DOMAIN x.branches = 1 .. n
      <4>1. x.branches \in Seq(Int \X Nodes)
        BY <2>1, NodeIs
      <4> QED BY <4>1
    <3>2. lists \in Seq(V)
      <4> DEFINE Part(i) == g[x.branches[i][2]]
      <4>1. \A i \in 1 .. n : Part(i) \in V
        BY <1>1, <2>1, <3>1
      <4> HIDE DEF Part, V, n
      <4>2. [i \in DOMAIN x.branches |-> Part(i)] \in Seq(V)
        BY <3>1, <4>1
      <4> QED BY <4>2 DEF Part, Parts
    <3> HIDE DEF lists
    <3>3. FlattenSeq(lists) \in V
      BY <3>2, FlattenIs
    <3>4. One(g, x) = IF Total(x.branches) <= 0 THEN <<>> ELSE FlattenSeq(lists)
      BY <2>1, CollectsAre DEF lists
    <3> HIDE DEF V, One
    <3> QED BY <2>0, <3>3, <3>4
  <2>2. CASE x.kind \in {"actions", "samples"}
    <3>1. One(g, x) = Authored(x, screen)
      BY <2>2, CollectsAre
    <3>2. Authored(x, screen) \in V
      BY <2>2, LeafCandidates
    <3> QED BY <3>1, <3>2
  <2>3. CASE x.kind = "throws"
    BY <2>0, <2>3, CollectsAre
  <2>4. CASE x.kind = "builtin"
    <3>1. One(g, x) = CollectBuiltin(x.verb, screen)
      BY <2>4, CollectsAre
    <3>2. CollectBuiltin(x.verb, screen) \in V
      BY <2>4, LeafCandidates
    <3> QED BY <3>1, <3>2
  <2> QED BY <2>1, <2>2, <2>3, <2>4, NodeIs
<1>2. ASSUME NEW g, NEW h, NEW x \in Nodes,
             x.kind = "weighted" => \A i \in DOMAIN x.branches : g[x.branches[i][2]] = h[x.branches[i][2]]
      PROVE  One(g, x) = One(h, x)
  <2>1. CASE x.kind = "weighted"
    <3> DEFINE left == Parts(g, x)
               right == Parts(h, x)
    <3>1. left = right
      BY <1>2, <2>1 DEF Parts
    <3>2. /\ One(g, x) = IF Total(x.branches) <= 0 THEN <<>> ELSE FlattenSeq(left)
          /\ One(h, x) = IF Total(x.branches) <= 0 THEN <<>> ELSE FlattenSeq(right)
      BY <2>1, CollectsAre
    <3> HIDE DEF left, right, One
    <3> QED BY <3>1, <3>2
  <2>2. CASE x.kind \in {"actions", "samples"}
    BY <2>2, CollectsAre
  <2>3. CASE x.kind = "throws"
    BY <2>3, CollectsAre
  <2>4. CASE x.kind = "builtin"
    BY <2>4, CollectsAre
  <2> QED BY <2>1, <2>2, <2>3, <2>4, NodeIs
<1>3. Walks(V, Step)
  <2>1. V # {}
    <3>1. <<>> \in V
      OBVIOUS
    <3> QED BY <3>1
  <2>2. ASSUME NEW g \in [Nodes -> V], NEW x \in Nodes PROVE One(g, x) \in V
    <3>1. x.kind = "weighted" => \A i \in DOMAIN x.branches : g[x.branches[i][2]] \in V
      BY NodeIs
    <3> HIDE DEF V, One
    <3> QED BY <1>1, <3>1
  <2> HIDE DEF V, One
  <2> QED BY <1>2, <2>1, <2>2 DEF Walks
<1>4. PICK f \in [Nodes -> V] : Walk(f)
  <2>1. \E f \in [Nodes -> V] : f = Step[f]
    <3> HIDE DEF V, Step
    <3> QED BY <1>3, WalkExists
  <2> HIDE DEF V, One
  <2> QED BY <2>1
<1>5. Walk(walk)
  <2> HIDE DEF Walk
  <2> QED BY <1>4
<1>6. \A x : Collect(x, screen) = walk[x]
  BY DEF Collect, Collects
<1> HIDE DEF walk
<1>7. \A x \in Nodes : walk[x] = One(walk, x)
  <2> HIDE DEF One
  <2> QED BY <1>5
<1>8. node.kind = "weighted" => \A i \in DOMAIN node.branches : walk[node.branches[i][2]] \in V
  <2> DEFINE T == {x \in Nodes : walk[x] \in V}
  <2>1. ASSUME NEW x \in Nodes,
               x.kind = "weighted" => \A i \in DOMAIN x.branches : x.branches[i][2] \in T
        PROVE  x \in T
    <3>1. x.kind = "weighted" => \A i \in DOMAIN x.branches : walk[x.branches[i][2]] \in V
      BY <2>1
    <3> HIDE DEF V, One
    <3>2. walk[x] \in V
      BY <1>1, <1>7, <3>1
    <3> QED BY <3>2
  <2>2. Nodes \subseteq T
    <3> HIDE DEF T
    <3> QED BY <2>1, NodeSteps
  <2> HIDE DEF V
  <2> QED BY <2>2, NodeIs
<1>9. Collect(node, screen) = Collects(walk, node, screen)
  BY <1>6, <1>7
<1>10. Collect(node, screen) \in V
  <2> HIDE DEF V
  <2> QED BY <1>1, <1>8, <1>9
<1>11. ASSUME node.kind = "weighted"
       PROVE  Collect(node, screen) =
                IF Total(node.branches) <= 0 THEN <<>>
                ELSE FlattenSeq(Branched(node, screen))
  <2> DEFINE left == Parts(walk, node)
             right == Branched(node, screen)
  <2>1. left = right
    BY <1>6 DEF Parts, Branched
  <2>2. Collect(node, screen) = IF Total(node.branches) <= 0 THEN <<>> ELSE FlattenSeq(left)
    BY <1>9, <1>11, CollectsAre
  <2> HIDE DEF left, right
  <2>3. Collect(node, screen) = IF Total(node.branches) <= 0 THEN <<>> ELSE FlattenSeq(right)
    BY <2>1, <2>2
  <2> QED BY <2>3 DEF right
<1>12. ASSUME node.kind \in {"actions", "samples"}
       PROVE  Collect(node, screen) =
                Authored(node, screen)
  BY <1>9, <1>12, CollectsAre
<1>13. ASSUME node.kind = "throws" PROVE Collect(node, screen) = <<>>
  BY <1>9, <1>13, CollectsAre
<1>14. ASSUME node.kind = "builtin" PROVE Collect(node, screen) = CollectBuiltin(node.verb, screen)
  BY <1>9, <1>14, CollectsAre
<1> QED BY <1>10, <1>11, <1>12, <1>13, <1>14, Zenon

\* What the entries of a list would do.
Identities(list) == {Identity(candidate) : candidate \in ToSet(list)}

LEMMA IdentityIs ==
  ASSUME NEW action, NEW llmText
  PROVE  Identity(Candidate(action, llmText)) = <<action, llmText>>
  BY DEF Identity, Candidate

\* At a leaf both policies have the same actions.
LEMMA LeafSpace ==
  ASSUME NEW screen, NEW node \in Nodes, node.kind # "weighted"
  PROVE  Identities(Collect(node, screen)) = Drawable(node, screen)
<1>1. CASE node.kind \in {"actions", "samples"}
  <2> DEFINE list == Visible(node.list, screen)
             Made(i) == Candidate(list[i], FALSE)
             made == [i \in DOMAIN list |-> Made(i)]
  <2>1. Collect(node, screen) = made
    BY <1>1, CollectIs DEF Authored
  <2>2. Drawable(node, screen) = {<<action, FALSE>> : action \in ToSet(list)}
    BY <1>1, DrawableIs
  <2>3. \A i \in DOMAIN list : Identity(Made(i)) = <<list[i], FALSE>>
    BY IdentityIs
  <2>4. DOMAIN made = DOMAIN list /\ \A i \in DOMAIN list : made[i] = Made(i)
    <3> HIDE DEF Made, list
    <3> QED OBVIOUS
  <2> HIDE DEF made, Made, list
  <2>5. ToSet(made) = {Made(i) : i \in DOMAIN list}
    BY <2>4 DEF ToSet
  <2>6. Identities(made) = {<<list[i], FALSE>> : i \in DOMAIN list}
    BY <2>3, <2>5 DEF Identities
  <2>7. {<<action, FALSE>> : action \in ToSet(list)} = {<<list[i], FALSE>> : i \in DOMAIN list}
    BY DEF ToSet
  <2> QED BY <2>1, <2>2, <2>6, <2>7
<1>2. CASE node.kind = "throws"
  <2>1. Collect(node, screen) = <<>> /\ Drawable(node, screen) = {}
    BY <1>2, CollectIs, DrawableIs
  <2>2. DOMAIN <<>> = {}
    OBVIOUS
  <2> QED BY <2>1, <2>2 DEF Identities, ToSet
<1>3. CASE node.kind = "builtin"
  <2> DEFINE list == BuiltinCandidates(node.verb, screen)
             ByModel(action) == action.kind = "InputText"
             Made(i) == Candidate(list[i], ByModel(list[i]))
             made == [i \in DOMAIN list |-> Made(i)]
  <2>1. Collect(node, screen) = made
    <3>1. Collect(node, screen) = CollectBuiltin(node.verb, screen)
      BY <1>3, CollectIs
    <3> QED BY <3>1, Zenon DEF CollectBuiltin
  <2>2. Drawable(node, screen) = {<<action, ByModel(action)>> : action \in ToSet(list)}
    BY <1>3, DrawableIs, Zenon
  <2>3. \A i \in DOMAIN list : Identity(Made(i)) = <<list[i], ByModel(list[i])>>
    BY IdentityIs, Zenon
  <2>4. DOMAIN made = DOMAIN list /\ \A i \in DOMAIN list : made[i] = Made(i)
    <3> HIDE DEF Made, list
    <3> QED OBVIOUS
  <2> HIDE DEF made, Made, list, ByModel
  <2>5. ToSet(made) = {Made(i) : i \in DOMAIN list}
    BY <2>4 DEF ToSet
  <2>6. Identities(made) = {<<list[i], ByModel(list[i])>> : i \in DOMAIN list}
    BY <2>3, <2>5 DEF Identities
  <2>7. {<<action, ByModel(action)>> : action \in ToSet(list)} = {<<list[i], ByModel(list[i])>> : i \in DOMAIN list}
    BY DEF ToSet
  <2> QED BY <2>1, <2>2, <2>6, <2>7
<1> QED BY <1>1, <1>2, <1>3, NodeIs

\* On every tree the model is offered what the picker could draw, and nothing but what
\* the tree's leaves yield (walkWeighted and collectWeighted).
LEMMA SameSpace ==
  ASSUME NEW screen, NEW tree \in Nodes
  PROVE  /\ Drawable(tree, screen) \subseteq Identities(Collect(tree, screen))
         /\ Identities(Collect(tree, screen)) \subseteq UNION {Drawable(leaf, screen) : leaf \in Leaves(tree)}
<1> DEFINE Same(x) == /\ Drawable(x, screen) \subseteq Identities(Collect(x, screen))
                      /\ Identities(Collect(x, screen)) \subseteq
                           UNION {Drawable(leaf, screen) : leaf \in Leaves(x)}
           T == {x \in Nodes : Same(x)}
<1>1. ASSUME NEW node \in Nodes,
             node.kind = "weighted" => \A i \in DOMAIN node.branches : node.branches[i][2] \in T
      PROVE  node \in T
  <2>1. CASE node.kind # "weighted"
    <3>1. Leaves(node) = {node}
      BY <2>1, LeavesAre
    <3>2. Identities(Collect(node, screen)) = Drawable(node, screen)
      BY <2>1, LeafSpace
    <3> QED BY <3>1, <3>2
  <2>2. CASE node.kind = "weighted"
    <3> DEFINE all == DOMAIN node.branches
               weighed == {j \in all : node.branches[j][1] > 0}
               Branch(i) == node.branches[i][2]
               List(i) == Collect(Branch(i), screen)
               lists == [i \in all |-> List(i)]
    <3>1. Drawable(node, screen) = UNION {Drawable(Branch(i), screen) : i \in weighed}
      BY <2>2, DrawableIs
    <3>2. Leaves(node) = UNION {Leaves(Branch(i)) : i \in all}
      BY <2>2, LeavesAre
    <3>3. Collect(node, screen) = IF Total(node.branches) <= 0 THEN <<>> ELSE FlattenSeq(lists)
      BY <2>2, CollectIs DEF Branched
    <3>4. \A i \in all : Branch(i) \in Nodes /\ Same(Branch(i))
      BY <1>1, <2>2
    <3>5. Total(node.branches) <= 0 => weighed = {}
      <4>1. node.branches \in Seq(Int \X Nodes)
        BY <2>2, NodeIs
      <4>2. ASSUME NEW k \in weighed PROVE ~ (Total(node.branches) <= 0)
        <5>1. Total(node.branches) > 0 /\ Total(node.branches) \in Nat
          BY <4>1, TotalIs
        <5> QED BY <5>1
      <4> QED BY <4>2
    <3>6. lists \in Seq(Seq(Raised(screen)))
      <4>1. node.branches \in Seq(Int \X Nodes)
        BY <2>2, NodeIs
      <4>2. Len(node.branches) \in Nat /\ all = 1 .. Len(node.branches)
        BY <4>1
      <4>3. \A i \in all : List(i) \in Seq(Raised(screen))
        BY <3>4, CollectIs
      <4> HIDE DEF all, List
      <4> QED BY <4>2, <4>3
    <3>7. DOMAIN lists = all /\ \A i \in all : lists[i] = List(i)
      <4> HIDE DEF List, all
      <4> QED OBVIOUS
    <3> HIDE DEF lists
    <3>8. ToSet(FlattenSeq(lists)) = UNION {ToSet(List(i)) : i \in all}
      <4>1. ToSet(FlattenSeq(lists)) = UNION {ToSet(lists[i]) : i \in DOMAIN lists}
        BY <3>6, FlattenIs
      <4> HIDE DEF List, all
      <4> QED BY <3>7, <4>1
    <3>9. CASE Total(node.branches) <= 0
      <4>1. Collect(node, screen) = <<>> /\ Drawable(node, screen) = {}
        BY <3>1, <3>3, <3>5, <3>9
      <4>2. Identities(<<>>) = {}
        BY DEF Identities, ToSet
      <4> QED BY <4>1, <4>2
    <3>10. CASE ~ (Total(node.branches) <= 0)
      <4>1. Identities(Collect(node, screen)) = UNION {Identities(List(i)) : i \in all}
        <5>1. Collect(node, screen) = FlattenSeq(lists)
          BY <3>3, <3>10
        <5> HIDE DEF List, all
        <5> QED BY <3>8, <5>1 DEF Identities
      <4>2. \A i \in all : /\ Drawable(Branch(i), screen) \subseteq Identities(List(i))
                           /\ Identities(List(i)) \subseteq
                                UNION {Drawable(leaf, screen) : leaf \in Leaves(Branch(i))}
        BY <3>4
      <4>3. weighed \subseteq all
        OBVIOUS
      <4> HIDE DEF List, Branch, all, weighed
      <4>4. Drawable(node, screen) \subseteq Identities(Collect(node, screen))
        BY <3>1, <4>1, <4>2, <4>3
      <4>5. ASSUME NEW x \in Identities(Collect(node, screen))
            PROVE  x \in UNION {Drawable(leaf, screen) : leaf \in Leaves(node)}
        <5>1. PICK i \in all : x \in Identities(List(i))
          BY <4>1
        <5>2. PICK leaf \in Leaves(Branch(i)) : x \in Drawable(leaf, screen)
          BY <4>2, <5>1
        <5>3. leaf \in Leaves(node)
          BY <3>2
        <5> QED BY <5>2, <5>3
      <4> QED BY <4>4, <4>5
    <3> QED BY <3>9, <3>10
  <2> QED BY <2>1, <2>2
<1>2. Nodes \subseteq T
  <2> HIDE DEF T
  <2> QED BY <1>1, NodeSteps
<1> QED BY <1>2

\* The entries of a list are for different things.
Distinct(list) == \A i, j \in DOMAIN list : Identity(list[i]) = Identity(list[j]) => i = j

\* One step of finalizeCandidates: a candidate joins unless one like it is there.
Joined(kept, candidate) ==
  IF \E i \in DOMAIN kept : Identity(kept[i]) = Identity(candidate)
  THEN kept ELSE Append(kept, candidate)

LEMMA JoinedIs ==
  ASSUME NEW C, NEW kept \in Seq(C), NEW candidate \in C, Distinct(kept)
  PROVE  /\ Joined(kept, candidate) \in Seq(C) /\ Distinct(Joined(kept, candidate))
         /\ Identities(Joined(kept, candidate)) = Identities(kept) \cup {Identity(candidate)}
<1>0. Len(kept) \in Nat /\ DOMAIN kept = 1 .. Len(kept)
  OBVIOUS
<1>1. CASE \E i \in DOMAIN kept : Identity(kept[i]) = Identity(candidate)
  <2>1. Joined(kept, candidate) = kept
    BY <1>1 DEF Joined
  <2>2. Identity(candidate) \in Identities(kept)
    BY <1>1 DEF Identities, ToSet
  <2> QED BY <2>1, <2>2
<1>2. CASE ~ \E i \in DOMAIN kept : Identity(kept[i]) = Identity(candidate)
  <2> DEFINE longer == Append(kept, candidate)
             n == Len(kept)
  <2>1. Joined(kept, candidate) = longer
    BY <1>2 DEF Joined
  <2>2. /\ longer \in Seq(C) /\ DOMAIN longer = 1 .. n + 1 /\ longer[n + 1] = candidate
        /\ \A i \in 1 .. n : longer[i] = kept[i]
    BY <1>0
  <2>3. \A i \in 1 .. n + 1 : i \in 1 .. n \/ i = n + 1
    BY <1>0
  <2>4. \A i \in 1 .. n : i \in 1 .. n + 1
    BY <1>0
  <2>5. n + 1 \in 1 .. n + 1
    BY <1>0
  <2> HIDE DEF longer, n
  <2>6. \A i \in 1 .. n : Identity(longer[i]) = Identity(kept[i]) /\ Identity(kept[i]) # Identity(candidate)
    BY <1>0, <1>2, <2>2 DEF n
  <2>7. Distinct(longer)
    <3> SUFFICES ASSUME NEW i \in 1 .. n + 1, NEW j \in 1 .. n + 1, Identity(longer[i]) = Identity(longer[j])
                 PROVE  i = j
      BY <2>2 DEF Distinct
    <3>1. CASE i \in 1 .. n /\ j \in 1 .. n
      <4>1. Identity(kept[i]) = Identity(kept[j])
        BY <2>6, <3>1
      <4>2. i \in DOMAIN kept /\ j \in DOMAIN kept
        BY <1>0, <3>1 DEF n
      <4> QED BY <4>1, <4>2 DEF Distinct
    <3>2. CASE i \in 1 .. n /\ j = n + 1
      BY <2>2, <2>6, <3>2
    <3>3. CASE i = n + 1 /\ j \in 1 .. n
      BY <2>2, <2>6, <3>3
    <3> QED BY <2>3, <3>1, <3>2, <3>3
  <2>8. Identities(longer) = Identities(kept) \cup {Identity(candidate)}
    <3>1. ToSet(longer) = ToSet(kept) \cup {candidate}
      <4>1. ToSet(longer) = {longer[i] : i \in 1 .. n + 1} /\ ToSet(kept) = {kept[i] : i \in 1 .. n}
        BY <1>0, <2>2 DEF ToSet, n
      <4>2. ASSUME NEW x \in ToSet(longer) PROVE x \in ToSet(kept) \cup {candidate}
        BY <2>2, <2>3, <4>1, <4>2
      <4>3. ASSUME NEW x \in ToSet(kept) PROVE x \in ToSet(longer)
        BY <2>2, <2>4, <4>1, <4>3
      <4>4. candidate \in ToSet(longer)
        BY <2>2, <2>5, <4>1
      <4> QED BY <4>2, <4>3, <4>4
    <3> QED BY <3>1 DEF Identities
  <2> QED BY <2>1, <2>2, <2>7, <2>8
<1> QED BY <1>1, <1>2

\* The list that is offered names each thing once, and what was collected (finalizeCandidates).
LEMMA FinalizeIs ==
  ASSUME NEW C, NEW raw \in Seq(C)
  PROVE  /\ Finalize(raw) \in Seq(C) /\ Distinct(Finalize(raw))
         /\ Identities(Finalize(raw)) = Identities(raw)
<1> DEFINE n == Len(raw)
           V == {kept \in Seq(C) : Distinct(kept)}
           Keep(i, kept) == Joined(kept, raw[i])
           G == [i \in 1 .. n |-> [kept \in V |-> Keep(i, kept)]]
           Folds(iter) == iter = [s \in SUBSET (1 .. n) |->
                             IF s = {} THEN <<>> ELSE Keep(Max(s), iter[s \ {Max(s)}])]
           iter == CHOOSE f : Folds(f)
<1>1. n \in Nat /\ DOMAIN raw = 1 .. n /\ \A i \in 1 .. n : raw[i] \in C
  OBVIOUS
<1>2. <<>> \in V /\ G \in [1 .. n -> [V -> V]]
  <2>1. \A i \in 1 .. n, kept \in V : Keep(i, kept) \in V
    <3> SUFFICES ASSUME NEW i \in 1 .. n, NEW kept \in V PROVE Keep(i, kept) \in V
      OBVIOUS
    <3>1. kept \in Seq(C) /\ Distinct(kept) /\ raw[i] \in C
      BY <1>1
    <3> QED BY <3>1, JoinedIs
  <2>2. <<>> \in V
    BY DEF Distinct
  <2> HIDE DEF V, Keep
  <2> QED BY <2>1, <2>2
<1>3. PICK f \in [SUBSET (1 .. n) -> V] :
        f = [s \in SUBSET (1 .. n) |-> IF s = {} THEN <<>> ELSE G[Max(s)][f[s \ {Max(s)}]]]
  <2> DEFINE base == <<>>
  <2>1. n \in Nat /\ base \in V /\ G \in [1 .. n -> [V -> V]]
    BY <1>1, <1>2
  <2> HIDE DEF n, V, G, base
  <2>2. \E f \in [SUBSET (1 .. n) -> V] : Folded(n, base, G, f)
    BY <2>1, FoldExists
  <2> QED BY <2>2 DEF base, Folded
<1> HIDE DEF V
<1>4. ASSUME NEW s \in SUBSET (1 .. n), s # {}, NEW v \in V
      PROVE  G[Max(s)][v] = Keep(Max(s), v)
  <2>1. Max(s) \in 1 .. n
    BY <1>1, <1>4, MaxIs
  <2> QED BY <2>1
<1>5. Folds(f)
  <2>1. ASSUME NEW s \in SUBSET (1 .. n), s # {}
        PROVE  G[Max(s)][f[s \ {Max(s)}]] = Keep(Max(s), f[s \ {Max(s)}])
    <3>1. f[s \ {Max(s)}] \in V
      BY <1>3
    <3> HIDE DEF G, Keep
    <3> QED BY <1>4, <2>1, <3>1
  <2> HIDE DEF G, Keep
  <2> QED BY <1>3, <2>1
<1>6. Folds(iter)
  <2> HIDE DEF Folds
  <2> QED BY <1>5
<1>7. Finalize(raw) = iter[1 .. n]
  BY <1>1 DEF Finalize, Joined, FoldLeft, MapThenFoldSet
<1> HIDE DEF iter
<1>8. iter[{}] = <<>>
  BY <1>6
<1>9. \A s \in SUBSET (1 .. n) : s # {} /\ iter[s \ {Max(s)}] \in V =>
        iter[s] = G[Max(s)][iter[s \ {Max(s)}]]
  <2> HIDE DEF G, Keep
  <2> QED BY <1>4, <1>6
<1>10. PICK kept \in [0 .. n -> V] :
         /\ kept[0] = <<>>
         /\ \A i \in 1 .. n : kept[i] = G[i][kept[i - 1]]
         /\ kept[n] = iter[1 .. n]
  <2> DEFINE base == <<>>
  <2>1. n \in Nat /\ base \in V /\ G \in [1 .. n -> [V -> V]]
    BY <1>1, <1>2
  <2>2. Folding(n, V, base, G, iter)
    <3> HIDE DEF n, G
    <3> QED BY <1>8, <1>9 DEF Folding
  <2> HIDE DEF n, G, base
  <2>3. \E kept \in [0 .. n -> V] : Passing(n, base, G, iter, kept)
    BY <2>1, <2>2, FoldRuns
  <2> QED BY <2>3 DEF base, Passing
<1> HIDE DEF n
<1>11. ASSUME NEW i \in 1 .. n
       PROVE  /\ i - 1 \in 0 .. n /\ kept[i - 1] \in Seq(C) /\ Distinct(kept[i - 1])
              /\ kept[i] = Joined(kept[i - 1], raw[i])
  <2>1. i - 1 \in 0 .. n
    BY <1>1
  <2>2. kept[i - 1] \in V
    BY <1>10, <2>1
  <2>3. kept[i] = Keep(i, kept[i - 1])
    <3> HIDE DEF Keep
    <3> QED BY <1>10, <2>2
  <2> QED BY <2>1, <2>2, <2>3 DEF V
<1> DEFINE Named(i) == {Identity(raw[j]) : j \in 1 .. i}
           T == {i \in Nat : i <= n => Identities(kept[i]) = Named(i)}
<1>12. Nat \subseteq T
  <2>1. 0 \in T
    <3>1. 1 .. 0 = {} /\ DOMAIN <<>> = {}
      OBVIOUS
    <3> QED BY <1>10, <3>1 DEF Identities, ToSet
  <2>2. ASSUME NEW i \in Nat, i \in T PROVE i + 1 \in T
    <3> SUFFICES ASSUME i + 1 <= n PROVE Identities(kept[i + 1]) = Named(i + 1)
      OBVIOUS
    <3> DEFINE m == i + 1
    <3>1. m \in 1 .. n /\ m - 1 = i /\ i <= n /\ 1 .. m = (1 .. i) \cup {m}
      BY <1>1
    <3>2. Identities(kept[i]) = Named(i)
      BY <2>2, <3>1
    <3> HIDE DEF m
    <3>3. Identities(kept[m]) = Identities(kept[i]) \cup {Identity(raw[m])}
      <4> DEFINE less == kept[m - 1]
                 candidate == raw[m]
      <4>1. less \in Seq(C) /\ Distinct(less) /\ kept[m] = Joined(less, candidate)
        BY <1>11, <3>1
      <4>2. candidate \in C
        BY <1>1, <3>1
      <4> HIDE DEF less, candidate
      <4>3. Identities(kept[m]) = Identities(less) \cup {Identity(candidate)}
        BY <4>1, <4>2, JoinedIs
      <4> QED BY <3>1, <4>3 DEF less, candidate
    <3>4. Named(m) = Named(i) \cup {Identity(raw[m])}
      <4> DEFINE less == 1 .. i
                 more == 1 .. m
      <4>1. more = less \cup {m}
        BY <3>1
      <4> HIDE DEF less, more
      <4>2. {Identity(raw[j]) : j \in more} = {Identity(raw[j]) : j \in less} \cup {Identity(raw[m])}
        BY <4>1
      <4> QED BY <4>2 DEF less, more
    <3> HIDE DEF Named
    <3>5. Identities(kept[m]) = Named(m)
      BY <3>2, <3>3, <3>4
    <3> QED BY <3>5 DEF m
  <2> HIDE DEF T
  <2> QED BY <2>1, <2>2, NatSteps
<1>13. Identities(kept[n]) = Identities(raw)
  <2>1. Identities(kept[n]) = Named(n)
    BY <1>1, <1>12
  <2>2. ToSet(raw) = {raw[j] : j \in 1 .. n}
    BY <1>1 DEF ToSet
  <2>3. Identities(raw) = Named(n)
    BY <2>2 DEF Identities
  <2> QED BY <2>1, <2>3
<1>14. kept[n] \in Seq(C) /\ Distinct(kept[n])
  <2>1. n \in 0 .. n
    BY <1>1
  <2>2. kept[n] \in V
    BY <1>10, <2>1
  <2> QED BY <2>2 DEF V
<1> QED BY <1>7, <1>10, <1>13, <1>14

\* A list of different things is as long as they are many.
LEMMA DistinctCounts ==
  ASSUME NEW C, NEW list \in Seq(C), Distinct(list)
  PROVE  Len(list) = Cardinality(Identities(list))
<1> DEFINE n == Len(list)
           S == Identities(list)
           f == [i \in 1 .. n |-> Identity(list[i])]
<1>1. n \in Nat /\ DOMAIN list = 1 .. n
  OBVIOUS
<1>2. S = {Identity(list[i]) : i \in 1 .. n}
  <2>1. ToSet(list) = {list[i] : i \in 1 .. n}
    BY <1>1 DEF ToSet
  <2> QED BY <2>1 DEF Identities
<1>3. f \in Bijection(1 .. n, S)
  <2>1. f \in [1 .. n -> S]
    BY <1>2
  <2>2. \A i, j \in 1 .. n : f[i] = f[j] => i = j
    BY <1>1 DEF Distinct
  <2>3. \A x \in S : \E i \in 1 .. n : f[i] = x
    BY <1>2
  <2> HIDE DEF S, f, n
  <2> QED BY <2>1, <2>2, <2>3 DEF Bijection, Injection, Surjection, IsInjective
<1>4. ExistsBijection(1 .. n, S)
  BY <1>3 DEF ExistsBijection
<1> HIDE DEF S, n
<1>5. Cardinality(S) = n
  BY <1>1, <1>4, FS_CountingElements
<1> QED BY <1>5 DEF S, n

\* What the model is offered on a screen (Candidates).
LEMMA OfferedSpace ==
  ASSUME NEW screen, NEW tree \in Nodes
  PROVE  /\ Drawable(tree, screen) \subseteq Identities(Offered(tree, screen))
         /\ Identities(Offered(tree, screen)) \subseteq
              UNION {Drawable(leaf, screen) : leaf \in Leaves(tree)}
         /\ Len(Offered(tree, screen)) = Cardinality(Identities(Offered(tree, screen)))
<1> DEFINE raw == Collect(tree, screen)
           C == Raised(screen)
<1>1. raw \in Seq(C)
  BY CollectIs
<1>2. /\ Drawable(tree, screen) \subseteq Identities(raw)
      /\ Identities(raw) \subseteq UNION {Drawable(leaf, screen) : leaf \in Leaves(tree)}
  BY SameSpace
<1>3. Offered(tree, screen) = Finalize(raw)
  BY DEF Offered
<1> HIDE DEF raw, C
<1>4. /\ Finalize(raw) \in Seq(C) /\ Distinct(Finalize(raw))
      /\ Identities(Finalize(raw)) = Identities(raw)
  BY <1>1, FinalizeIs
<1>5. Len(Finalize(raw)) = Cardinality(Identities(Finalize(raw)))
  BY <1>4, DistinctCounts
<1> QED BY <1>2, <1>3, <1>4, <1>5

\* While the model is asked, what it is offered is what there is on the screen of the
\* snapshot (buildRequest).
OfferInHand ==
  turn.pc = "answer" => llmCall.candidates = Offered(declared.tree, snapshot.screen)

LEMMA OfferInitial == SelectInit => OfferInHand
<1> SUFFICES ASSUME SelectInit PROVE OfferInHand
  OBVIOUS
<1>1. turn = [pc |-> "observe", step |-> 0, by |-> "", action |-> Wait]
  BY DEF SelectInit
<1>2. turn.pc # "answer"
  BY <1>1
<1> QED BY <1>2 DEF OfferInHand

LEMMA OfferStep == SelectShaped /\ OfferInHand /\ [SelectNext]_selectVars => OfferInHand'
<1> SUFFICES ASSUME SelectShaped, OfferInHand, [SelectNext]_selectVars PROVE OfferInHand'
  OBVIOUS
<1>0. turn = [pc |-> turn.pc, step |-> turn.step, by |-> turn.by, action |-> turn.action]
  BY DEF SelectShaped
<1>1. CASE AsksModel
  <2>1. llmCall' = [Recorded("") EXCEPT
                      !.candidates = Offered(declared.tree, snapshot.screen), !.image = snapshot.image,
                      !.screenshot = IF snapshot.image = None THEN None ELSE snapshot.step]
        /\ UNCHANGED <<declared, snapshot>>
    BY <1>1 DEF AsksModel
  <2>2. llmCall'.candidates = Offered(declared.tree, snapshot.screen)
    BY <2>1 DEF Recorded, NoCall
  <2> QED BY <2>1, <2>2 DEF OfferInHand
<1>2. CASE HoldsStep
  <2>1. turn'.pc # "answer"
    BY <1>0, <1>2 DEF HoldsStep
  <2> QED BY <2>1 DEF OfferInHand
<1>3. CASE PushesSnapshot
  <2>1. turn'.pc # "answer"
    BY <1>0, <1>3 DEF PushesSnapshot
  <2> QED BY <2>1 DEF OfferInHand
<1>4. CASE AppliesAction
  <2>1. turn'.pc # "answer"
    BY <1>0, <1>4 DEF AppliesAction
  <2> QED BY <2>1 DEF OfferInHand
<1>5. CASE SetupActs
  <2>1. turn'.pc # "answer"
    BY <1>0, <1>5 DEF SetupActs, InHand
  <2> QED BY <2>1 DEF OfferInHand
<1>6. CASE RunAborts
  <2>1. turn'.pc # "answer"
    <3>1. turn' = [turn EXCEPT !.pc = "aborted"]
      BY <1>6, Zenon DEF RunAborts
    <3> QED BY <1>0, <3>1
  <2> QED BY <2>1 DEF OfferInHand
<1>7. CASE NothingToOffer \/ NoUsableAnswer \/ PickDiscarded
  <2>1. turn' = [turn EXCEPT !.pc = "observe"]
    BY <1>7 DEF NothingToOffer, NoUsableAnswer, PickDiscarded, Declines
  <2>2. turn'.pc # "answer"
    BY <1>0, <2>1
  <2> QED BY <2>2 DEF OfferInHand
<1>8. CASE PickSelected
  <2>1. turn'.pc # "answer"
    <3>1. PICK action : turn' = InHand("", action)
      BY <1>8 DEF PickSelected
    <3> QED BY <1>0, <3>1 DEF InHand
  <2> QED BY <2>1 DEF OfferInHand
<1>9. CASE UNCHANGED selectVars
  BY <1>9 DEF OfferInHand, selectVars
<1> QED
  BY <1>1, <1>2, <1>3, <1>4, <1>5, <1>6, <1>7, <1>8, <1>9 DEF SelectNext

\* Both policies explore one space, in every state of a run: what the model can pick is
\* what the seeded picker could draw, each thing by one number, and nothing that the
\* leaves of the tree do not yield.
THEOREM PoliciesAgree == SelectSpec => []PoliciesShareOneSpace
<1>1. RecordInv => SelectShaped
  BY DEF RecordInv
<1>2. SelectShaped /\ OfferInHand => PoliciesShareOneSpace
  <2> SUFFICES ASSUME SelectShaped, OfferInHand, turn.pc = "answer"
               PROVE  LET offered == {Identity(llmCall.candidates[i]) : i \in DOMAIN llmCall.candidates}
                      IN  /\ Drawable(declared.tree, snapshot.screen) \subseteq offered
                          /\ offered \subseteq
                               UNION {Drawable(leaf, snapshot.screen) : leaf \in Leaves(declared.tree)}
                          /\ Len(llmCall.candidates) = Cardinality(offered)
    BY DEF PoliciesShareOneSpace
  <2> DEFINE tree == declared.tree
             screen == snapshot.screen
             list == llmCall.candidates
  <2>1. tree \in Nodes
    <3>1. declared \in [tree : Trees, native : BOOLEAN]
      BY DEF SelectShaped
    <3> QED BY <3>1, TreesAssumption
  <2>2. list = Offered(tree, screen)
    BY DEF OfferInHand
  <2> HIDE DEF tree, screen, list
  <2>3. /\ Drawable(tree, screen) \subseteq Identities(list)
        /\ Identities(list) \subseteq UNION {Drawable(leaf, screen) : leaf \in Leaves(tree)}
        /\ Len(list) = Cardinality(Identities(list))
    BY <2>1, <2>2, OfferedSpace
  <2>4. Identities(list) = {Identity(list[i]) : i \in DOMAIN list}
    BY DEF Identities, ToSet
  <2> QED BY <2>3, <2>4 DEF tree, screen, list
<1> QED
  BY <1>1, <1>2, SelectInitial, RecordStep, OfferInitial, OfferStep, PTL DEF SelectSpec

----------------------------------------------------------------------------
(* The seven parts side by side.                                           *)

\* A behaviour of Drivers is one of every part: each step is a step of its own
\* part and leaves the state of the others alone.
THEOREM PartsImplemented ==
  Spec => /\ WebSpec /\ InputSpec /\ SettleSpec /\ LifeSpec /\ SelectSpec
          /\ EntrySpec /\ SimulatorSpec
<1>1. Init => /\ WebInit /\ InputInit /\ SettleInit /\ LifeInit /\ SelectInit
              /\ EntryInit /\ SimulatorInit
  BY DEF Init
<1>2. [Next]_vars => /\ [WebNext]_webVars /\ [InputNext]_inputVars
                     /\ [SettleNext]_settleVars /\ [LifeNext]_lifeVars
                     /\ [SelectNext]_selectVars /\ [EntryNext]_entryVars
                     /\ [SimulatorNext]_simulatorVars
  BY DEF Next, vars, WebStep, InputStep, SettleStep, LifeStep, SelectStep, EntryStep,
         SimulatorStep
<1> QED
  BY <1>1, <1>2, PTL
     DEF Spec, WebSpec, InputSpec, SettleSpec, LifeSpec, SelectSpec, EntrySpec,
         SimulatorSpec

LEMMA WebParts == WebInv => WebTypeOK
<1> SUFFICES ASSUME WebInv PROVE WebTypeOK
  OBVIOUS
<1>1. /\ page.position \in Nat /\ page.last \in Nat /\ step.index \in Nat
      /\ Len(drawn) \in Nat
  BY StepFields, PageFields DEF WebInv, WebTyped
<1>2. /\ page.position <= Len(drawn) /\ Len(drawn) <= step.index /\ page.last <= step.index
      /\ step.index <= MaxSteps /\ (page.runtime => chrome.script)
  BY DEF WebInv, CountersBounded
<1>3. step.since <= step.start /\ step.start <= time
  BY DEF WebInv, WindowFollows
<1>4. page.position \in 0..MaxSteps /\ page.last \in 0..step.index
  BY <1>1, <1>2, WebBounds
<1> QED
  BY <1>2, <1>3, <1>4 DEF WebTypeOK
LEMMA InputParts == InputInv => InputTypeOK
  BY DEF InputInv, CallTyped, InputCalls, DeviceTyped, InputTypeOK, KeyboardDismissReads
LEMMA SettleParts == SettleInv => SettleTypeOK
  BY DEF SettleInv, SettleTyped, SettleTypeOK, AppType, IdleType, FetchType
LEMMA LifeParts == SidecarInv => LifeTypeOK
  BY DEF SidecarInv, LifeTyped
LEMMA EntryParts == EntryInv => EntryTypeOK
<1> SUFFICES ASSUME EntryInv PROVE EntryTypeOK
  OBVIOUS
<1>1. /\ entry.pc \in EntryPlaces /\ entry.reads \in 0..MaxReads /\ typing \in 0..Pieces
      /\ widget.selection \in {"none", "applying", "all"}
      /\ widget.dialog \in {"none", "up", "blackout"}
  BY DEF EntryInv, EntryTyped, WidgetTyped, ChannelsTyped
<1> QED
  BY <1>1 DEF EntryTypeOK, EntryPlaces
LEMMA SimulatorParts == LifeInv /\ SpawnsCounted => SimulatorTypeOK
<1> SUFFICES ASSUME LifeInv, SpawnsCounted PROVE SimulatorTypeOK
  OBVIOUS
<1>1. deviceLock \in {Nobody} \cup Runs
  BY DEF LifeInv, LifeType
<1>2. \A run \in Runs : runs[run].spawns \in Nat /\ runs[run].port \in {Nobody} \cup Ports
  BY DEF LifeInv, LifeType, RunType
<1>3. \A run \in Runs : runs[run].spawns \in 0..MaxSpawns
  BY <1>2, SpawnBounds DEF SpawnsCounted
<1> QED
  BY <1>1, <1>2, <1>3 DEF SimulatorTypeOK, SpawnsCounted

\* The types of the seven parts hold in every behaviour of Drivers.
THEOREM DriversTyped == Spec => []TypeOK
<1>1. /\ WebInv /\ InputInv /\ SettleInv /\ SidecarInv /\ SelectTypeOK /\ EntryInv
      /\ LifeInv /\ SpawnsCounted
      => TypeOK
  BY WebParts, InputParts, SettleParts, LifeParts, EntryParts, SimulatorParts DEF TypeOK
<1> QED
  BY <1>1, PartsImplemented, WebInvariant, InputInvariant, SettleInvariant, SidecarInvariant,
     SelectTyped, EntryInvariant, LifeInductive, SpawnsInductive, PTL

\* And so does what the parts promise: the evidence of a web run is kept and its draws
\* follow the seed, the tree of a step is settled, text goes where it is meant and
\* replaces what was there, what a run started is put away and one run drives a
\* simulator, and the model's record and its memory tell the truth.
THEOREM PartsKeepTheirPromises ==
  Spec => /\ [](DrawsFollowTheSeed /\ EvidenceIsKept /\ EnginesAgree)
          /\ []VerifiedTreeIsSettled
          /\ [](TextGoesWhereMeant /\ InputReplaces) /\ BackOnlyClosesKeyboard
          /\ [](NothingLeftBehind /\ OneRunDrives)
          /\ [](RecordTellsTheStep /\ MemoryTellsTheScreens /\ PoliciesShareOneSpace)
  BY PartsImplemented, DrawsInOrder, EvidenceKept, EnginesSeeOneStep, TreesAreSettled,
     TextPlaced, TextReplaced, BackAtKeyboard, PutAway, OneRunAtATime, RecordsTellTheSteps,
     MemoriesTellTheScreens, PoliciesAgree, PTL
=============================================================================
