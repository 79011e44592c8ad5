------------------------------ MODULE RunFiles ------------------------------
(***************************************************************************)
(* The files of one run directory, as testrun.Execute writes them through  *)
(* trace.Writer while the replay server may be reading them.               *)
(*                                                                         *)
(* A line is appended by one write call, but a reader can see the file     *)
(* between the moment the call stamps the modification time and the moment *)
(* the whole line is there; meta.json is truncated and then written.  The  *)
(* writer may stop at any point.  A line keeps what the replay reads of it *)
(* across lines: the properties it reports, each with the step its witness *)
(* blames (0 when the witness names none).                                 *)
(***************************************************************************)
EXTENDS Naturals, Sequences

CONSTANTS
  Names,      \* the properties that are violated in the run
  MaxLines,   \* a bound on the lines of trace.jsonl
  MaxTick     \* a bound on the clock modification times are taken from

ASSUME MaxLinesAssumption == MaxLines \in Nat
ASSUME MaxTickAssumption == MaxTick \in Nat

VARIABLES
  stage,   \* how far Execute has got with the directory
  meta,    \* meta.json: absent, torn, or complete without or with ended_at
  lines,   \* the complete lines of trace.jsonl
  tail,    \* what is there of the line being appended
  mtime,   \* the modification time of trace.jsonl
  clock

filesVars == <<stage, meta, lines, tail, mtime, clock>>

\* A line reports some properties, with the step blamed for each; it was appended
\* at a time.
LineType ==
  [ blames : UNION { [reported -> 0..MaxLines] : reported \in SUBSET Names },
    at : 0..MaxTick ]
TailType == {"none", "begun", "torn"}

\* The properties the lines so far report: none is reported twice (Runner,
\* ViolationsReportedOnce).
ReportedOn(ls) == UNION { DOMAIN ls[i].blames : i \in DOMAIN ls }

FilesInit ==
  /\ stage = "absent"
  /\ meta = "absent"
  /\ lines = <<>>
  /\ tail = [state |-> "none"]
  /\ mtime = 0
  /\ clock = 0

HasTrace == stage \notin {"absent", "made"}

\* NewWriter: the directory, then trace.jsonl in it.
MakeDirectory ==
  /\ stage = "absent"
  /\ stage' = "made"
  /\ UNCHANGED <<meta, lines, tail, mtime, clock>>

OpenTraceFile ==
  /\ stage = "made"
  /\ stage' = "opened"
  /\ mtime' = clock
  /\ UNCHANGED <<meta, lines, tail, clock>>

\* WriteMeta truncates the file and then writes it.
TruncateMeta(before, after) ==
  /\ stage \in before
  /\ stage' = after
  /\ meta' = "torn"
  /\ UNCHANGED <<lines, tail, mtime, clock>>

FillMeta(before, after, body) ==
  /\ stage = before
  /\ stage' = after
  /\ meta' = body
  /\ UNCHANGED <<lines, tail, mtime, clock>>

StartMeta == TruncateMeta({"opened"}, "starting")
MetaStarted == FillMeta("starting", "running", "started")

\* WriteStep: one write of a whole line.  A reader sees the new modification time
\* first, then any part of the line.
BeginLine ==
  /\ stage = "running" /\ tail.state = "none" /\ Len(lines) < MaxLines
  /\ \E reported \in SUBSET (Names \ ReportedOn(lines)) :
       \E blames \in [reported -> 0 .. Len(lines) + 1] :
         tail' = [state |-> "begun", line |-> [blames |-> blames, at |-> clock]]
  /\ mtime' = clock
  /\ UNCHANGED <<stage, meta, lines, clock>>

ShowPart ==
  /\ stage = "running" /\ tail.state = "begun"
  /\ tail' = [tail EXCEPT !.state = "torn"]
  /\ UNCHANGED <<stage, meta, lines, mtime, clock>>

EndLine ==
  /\ stage = "running" /\ tail.state # "none"
  /\ lines' = Append(lines, tail.line)
  /\ tail' = [state |-> "none"]
  /\ UNCHANGED <<stage, meta, mtime, clock>>

\* The write fails with part of the line written: the run ends with that error.
LineFails ==
  /\ stage = "running" /\ tail.state # "none"
  /\ stage' = "broken"
  /\ UNCHANGED <<meta, lines, tail, mtime, clock>>

\* The deferred WriteMeta of Execute, however the run ended.
RunReturns ==
  /\ stage = "running" => tail.state = "none"
  /\ TruncateMeta({"running", "broken"}, "ending")

MetaEnded == FillMeta("ending", "ended", "ended")

\* The process is killed.
Killed ==
  /\ stage \notin {"absent", "ended", "killed"} /\ HasTrace
  /\ stage' = "killed"
  /\ UNCHANGED <<meta, lines, tail, mtime, clock>>

Tick ==
  /\ clock < MaxTick
  /\ clock' = clock + 1
  /\ UNCHANGED <<stage, meta, lines, tail, mtime>>

Write ==
  \/ OpenTraceFile \/ StartMeta \/ MetaStarted \/ BeginLine \/ ShowPart \/ EndLine
  \/ LineFails \/ RunReturns \/ MetaEnded \/ Killed
=============================================================================
