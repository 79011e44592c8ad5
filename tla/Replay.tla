------------------------------- MODULE Replay -------------------------------
(***************************************************************************)
(* sanderling replay beside a run that is being written: the server's cache*)
(* and watcher, and the page a browser has open.                           *)
(*                                                                         *)
(* The page is on one of its two routes (App.tsx).  The run list listens to*)
(* the watcher; the run detail reads the run and then every step of it, all*)
(* at once, and shows each violation on the step that caused it.           *)
(***************************************************************************)
EXTENDS RunCache, RunsWatcher

\* One client for the run, one for each of its steps, and the other tab's.
ASSUME ClientsAssumption == 0 .. MaxLines + 1 \subseteq Clients

VARIABLES
  route,   \* the route the page is on
  page     \* the state of RunDetail

vars == <<filesVars, cacheVars, watcherVars, route, page>>

StepClients == 1..MaxLines
RunClient == 0
OtherTab == MaxLines + 1

Blank == [shown |-> "loading"]

Init ==
  /\ FilesInit /\ CacheInit /\ WatcherInit
  /\ route \in {"list", "detail"}
  /\ page = Blank

----------------------------------------------------------------------------
(* The detail route.                                                       *)

\* RunDetail mounts and asks for the run.
Mount ==
  /\ request[RunClient].pc = "idle"
  /\ Ask(RunClient, 0)
  /\ UNCHANGED <<filesVars, page>>

\* loadHistory: the steps the detail lists are all asked for at once.
RunLoaded ==
  /\ page = Blank /\ request[RunClient].pc = "answered"
  /\ LET answer == request[RunClient]
     IN IF answer.result # "run"
        THEN page' = [shown |-> "failed"] /\ UNCHANGED request
        ELSE /\ page' = [shown |-> "run", run |-> answer.run]
             /\ request' = [c \in Clients |->
                  IF c \in DOMAIN answer.run.steps THEN Asks(c)
                  ELSE request[c]]
  /\ UNCHANGED <<filesVars, cached, mutex>>

\* relocateViolationsToCause: a violation is moved from the step that reported it to
\* the step its witness blames, when both were loaded.
StaysOnDetection(steps, i, name) == i
MovesToCause(steps, i, name) ==
  LET cause == steps[i].blames[name]
  IN IF cause \in DOMAIN steps /\ steps[cause] # NoStep THEN cause ELSE i
ShownOn(steps) ==
  [ j \in DOMAIN steps |->
      { name \in Names : \E i \in DOMAIN steps :
          /\ steps[i] # NoStep
          /\ name \in DOMAIN steps[i].blames
          /\ MovesToCause(steps, i, name) = j } ]

\* Every step has answered; one that failed is null.
HistoryLoaded ==
  /\ page.shown = "run"
  /\ \A i \in DOMAIN page.run.steps : request[i].pc = "answered"
  /\ LET steps == [ i \in DOMAIN page.run.steps |->
                      IF request[i].result = "step" THEN request[i].line ELSE NoStep ]
     IN page' = [ shown |-> "history", run |-> page.run, steps |-> steps,
                  violations |-> ShownOn(steps) ]
  /\ UNCHANGED <<filesVars, cacheVars>>

\* Another tab asks for the run or the list, once, at any time.
OtherTabAsks ==
  /\ request[OtherTab].pc = "idle"
  /\ Ask(OtherTab, 0) \/ AskList(OtherTab)
  /\ UNCHANGED <<filesVars, page>>

Detail ==
  /\ route = "detail"
  /\ \/ (MakeDirectory \/ Write \/ Tick) /\ UNCHANGED <<cacheVars, page>>
     \/ \E c \in Clients : Serve(c) /\ UNCHANGED <<filesVars, page>>
     \/ Mount \/ RunLoaded \/ HistoryLoaded \/ OtherTabAsks
  /\ UNCHANGED <<watcherVars, route>>

\* The list route: the files matter to it only through the changes of the directory.
List ==
  /\ route = "list"
  /\ WatcherNext
  /\ UNCHANGED <<filesVars, cacheVars, route, page>>

Next == Detail \/ List

\* The watch goroutine and the handlers run; the browser makes the requests it has to.
Fairness ==
  /\ WF_vars(List /\ Watch)
  /\ \A v \in Viewers : WF_vars(List /\ View(v))

Spec == Init /\ [][Next]_vars
FairSpec == Spec /\ Fairness

----------------------------------------------------------------------------
(* Properties.                                                             *)

RunType ==
  [ is : {"run"}, meta : {"started", "ended"}, mtime : SUBSET (0..MaxTick),
    steps : Seq(LineType), marked : SUBSET (1..MaxLines), readAt : 0..MaxTick ]

\* The places at which a request reads the files.
Parsing == {"meta", "scan", "read", "store"}

\* Every variable of the server and the page holds a value the code can give it, and the
\* one request that parses is the one that holds the mutex.
TypeOK ==
  /\ meta \in {"absent", "torn", "started", "ended"}
  /\ lines \in Seq(LineType)
  /\ tail.state \in TailType
  /\ mtime \in 0..clock
  /\ cached = Absent \/ cached \in RunType
  /\ \A c \in Clients : request[c].pc \in
       {"idle", "stat", "open", "list", "tally", "answered"} \cup Parsing
  /\ mutex = { c \in Clients : request[c].pc \in Parsing }
  /\ targets \subseteq Viewers
  /\ \A v \in Viewers : channel[v].held \in 0..Capacity
  /\ page.shown \in {"loading", "failed", "run", "history"}

\* The steps on which the page shows a violation are the steps the server put a marker
\* on, once every step has arrived: the two work it out apart, the server while the run
\* is being written, the page from steps it asks for later (run-history.ts:17-64,
\* runs_decode.go:141-165).
MarkersAgree ==
  page.shown = "history" /\ (\A i \in DOMAIN page.steps : page.steps[i] # NoStep) =>
    { i \in DOMAIN page.steps : page.violations[i] # {} } = page.run.marked
=============================================================================
