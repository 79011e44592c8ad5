------------------------------ MODULE RunCache ------------------------------
(***************************************************************************)
(* The parsed run the replay server keeps (replay.Cache), read by requests *)
(* that run concurrently with each other and with the run that is still    *)
(* being written (RunFiles).                                               *)
(*                                                                         *)
(* A request is Cache.Open, and Cache.Step on what it returned when it asks*)
(* for a step.  Open is cut at every place another actor can get between:  *)
(* before it has the mutex, and between its reads of the files.            *)
(***************************************************************************)
EXTENDS RunFiles

CONSTANT Clients    \* the requests in flight

VARIABLES
  cached,   \* the entry of Cache.runs
  mutex,    \* the request that holds Cache.mutex, as a set of at most one
  request   \* each request

cacheVars == <<cached, mutex, request>>

\* A parsed run: meta.json, the modification time taken, the steps with their
\* violation markers.  readAt is history: when the last line was read.
Absent == [is |-> "absent"]
Parsed(scan, m, time, marked) ==
  [ is |-> "run", meta |-> m, mtime |-> time, steps |-> scan.steps,
    marked |-> marked, readAt |-> scan.readAt ]

\* os.Stat: a set of one time, empty when there is no trace yet.
StatTrace == IF HasTrace THEN {mtime} ELSE {}

\* A request keeps what it was asked for, what it has read, and in the end its answer.
NoStep == [is |-> "null"]
NoRequest ==
  [ pc |-> "idle", index |-> 0, stat |-> {}, asked |-> 0,
    meta |-> "absent", mtime |-> {}, steps |-> <<>>, readAt |-> 0,
    result |-> "none", run |-> Absent, line |-> NoStep, stepCount |-> 0 ]

CacheInit ==
  /\ cached = Absent
  /\ mutex = {}
  /\ request = [c \in Clients |-> NoRequest]

\* markViolations: the marker goes on the step the witness blames, or on the step
\* that reported the violation when the witness blames none or one not in the trace.
DetectedStep(ls, i, name) == i
BlamedStep(ls, i, name) ==
  IF ls[i].blames[name] \in DOMAIN ls THEN ls[i].blames[name] ELSE i
MarkViolations(ls) ==
  UNION { { BlamedStep(ls, i, name) : name \in DOMAIN ls[i].blames } : i \in DOMAIN ls }

\* What c was asked, with this result and nothing of what it read.
Answer(c, result) ==
  [NoRequest EXCEPT !.pc = "answered", !.index = request[c].index, !.asked = request[c].asked,
                    !.result = result]

\* Cache.Step: the first step with that index, or not found.
ServeStep(c, run) ==
  IF request[c].index \in DOMAIN run.steps
  THEN [Answer(c, "step") EXCEPT !.line = run.steps[request[c].index]]
  ELSE Answer(c, "not found")

\* What a request answers once Open has returned a run: a detail, or one step.
Answered(c, run) ==
  [request EXCEPT ![c] = IF request[c].index = 0 THEN [Answer(c, "run") EXCEPT !.run = run]
                         ELSE ServeStep(c, run)]
Refused(c, result) == [request EXCEPT ![c] = Answer(c, result)]

\* A request arrives: for the run (index 0) or for one of its steps.
Asks(index) == [NoRequest EXCEPT !.pc = "stat", !.index = index]

Ask(c, index) ==
  /\ request' = [request EXCEPT ![c] = Asks(index)]
  /\ UNCHANGED <<cached, mutex>>

\* os.Stat, before the mutex is taken.  asked is history: the lines there were when the
\* run was asked for.
StatFirst(c) ==
  /\ request[c].pc = "stat"
  /\ request' = [request EXCEPT ![c] =
       [@ EXCEPT !.pc = "open", !.stat = StatTrace,
                 !.asked = IF request[c].index = 0 THEN Len(lines) ELSE 0]]
  /\ UNCHANGED <<cached, mutex>>

\* The cached run stands while the trace has the modification time it was read with; a
\* trace that is not there is parsed again.
Fresh(c) ==
  cached # Absent /\ request[c].stat # {} /\ cached.mtime = request[c].stat

Hit(c) ==
  /\ request[c].pc = "open" /\ mutex = {} /\ Fresh(c)
  /\ request' = Answered(c, cached)
  /\ UNCHANGED <<cached, mutex>>

\* The mutex is held while the files are parsed.
NotHeld(c) == {}
HeldBy(c) == {c}

Miss(c) ==
  /\ request[c].pc = "open" /\ mutex = {} /\ ~Fresh(c)
  /\ mutex' = HeldBy(c)
  /\ request' = [request EXCEPT ![c] = [@ EXCEPT !.pc = "meta"]]
  /\ UNCHANGED cached

\* readMeta: absent is 404, torn is 500.
ReadMeta(c) ==
  /\ request[c].pc = "meta"
  /\ IF meta \in {"absent", "torn"}
     THEN /\ request' = Refused(c, IF meta = "absent" THEN "not found" ELSE "error")
          /\ mutex' = {}
     ELSE /\ request' = [request EXCEPT ![c] = [@ EXCEPT !.pc = "scan", !.meta = meta]]
          /\ UNCHANGED mutex
  /\ UNCHANGED cached

\* scanSteps takes the modification time of the open file before it reads a line.
StatOpened(c) ==
  /\ request[c].pc = "scan"
  /\ request' = [request EXCEPT ![c] = [@ EXCEPT !.pc = "read", !.mtime = StatTrace]]
  /\ UNCHANGED <<cached, mutex>>

\* The lines up to the end of the file.  A torn last line fails the whole open.
ReadLines(c) ==
  /\ request[c].pc = "read"
  /\ IF tail.state = "torn"
     THEN request' = Refused(c, "error") /\ mutex' = {}
     ELSE /\ request' = [request EXCEPT ![c] =
               [@ EXCEPT !.pc = "store", !.steps = lines, !.readAt = clock]]
          /\ UNCHANGED mutex
  /\ UNCHANGED cached

\* The time and the meta that are stored with what was read.
TimeAfterReading(c) == StatTrace
TimeOfScan(c) == request[c].mtime
MetaAfterReading(c) == meta
MetaOfScan(c) == request[c].meta

Store(c) ==
  /\ request[c].pc = "store"
  /\ cached' = Parsed(request[c], MetaOfScan(c), TimeOfScan(c),
                      MarkViolations(request[c].steps))
  /\ request' = Answered(c, cached')
  /\ mutex' = {}

\* The run list does not use the cache: Scan reads meta.json and counts the lines, and
\* leaves out a run either of which it cannot decode.
LeftOut(c) == request' = Refused(c, "left out")

AskList(c) ==
  /\ request' = [request EXCEPT ![c] = [NoRequest EXCEPT !.pc = "list"]]
  /\ UNCHANGED <<cached, mutex>>

SummarizeMeta(c) ==
  /\ request[c].pc = "list"
  /\ IF meta \in {"absent", "torn"} THEN LeftOut(c)
     ELSE request' = [request EXCEPT ![c] = [@ EXCEPT !.pc = "tally", !.meta = meta]]
  /\ UNCHANGED <<cached, mutex>>

TallyTrace(c) ==
  /\ request[c].pc = "tally"
  /\ IF tail.state = "torn" THEN LeftOut(c)
     ELSE request' = [request EXCEPT ![c] =
            [Answer(c, "summary") EXCEPT !.meta = request[c].meta, !.stepCount = Len(lines)]]
  /\ UNCHANGED <<cached, mutex>>

Serve(c) ==
  \/ StatFirst(c) \/ Hit(c) \/ Miss(c) \/ ReadMeta(c) \/ StatOpened(c)
  \/ ReadLines(c) \/ Store(c) \/ SummarizeMeta(c) \/ TallyTrace(c)

----------------------------------------------------------------------------
(* Properties.                                                             *)

\* A part of MissesOnlyUnfinishedLines: a run that is listed or opened as ended is all
\* there, for the meta is read before the lines, and one that says ended was written
\* after the last of them (runs.go:103-113, runs_cache.go:55-76).
EndedMeansComplete ==
  \A c \in Clients :
    request[c].pc = "answered" =>
      /\ request[c].result = "run" /\ request[c].run.meta = "ended" =>
           Len(request[c].run.steps) = Len(lines)
      /\ request[c].result = "summary" /\ request[c].meta = "ended" =>
           request[c].stepCount = Len(lines)

\* A run the server hands out lacks none of the lines that were complete when it was
\* asked, save lines whose write had begun, by the clock of modification times, when
\* the file was read: the time stored with a run is not newer than what was read.
\* And one that ended lacks nothing (runs_cache.go:42-51, 55-76, 87-118, runs.go:103-113).
MissesOnlyUnfinishedLines ==
  /\ EndedMeansComplete
  /\ \A c \in Clients :
       request[c].pc = "answered" /\ request[c].result = "run" =>
         LET run == request[c].run
         IN \A i \in Len(run.steps) + 1 .. request[c].asked : lines[i].at <= run.readAt

\* A later parse never replaces the cached run by an older one: the steps a client was
\* told of are still there when it asks for one of them (runs_cache.go:44-53).
CacheOnlyGrows ==
  [][cached # Absent => Len(cached'.steps) >= Len(cached.steps)]_<<filesVars, cacheVars>>
=============================================================================
