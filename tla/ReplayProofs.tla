----------------------------- MODULE ReplayProofs -----------------------------
(***************************************************************************)
(* What the replay server hands out of a run that is still being written,  *)
(* for a run of any length, any clock and any number of requests.          *)
(***************************************************************************)
EXTENDS Replay, SequenceTheorems, TLAPS

----------------------------------------------------------------------------
(* The files.                                                              *)

\* Lines are stamped no later than the file is, and a meta.json that says the run ended
\* is the last thing written.
FilesInv ==
  /\ lines \in Seq(LineType) /\ Len(lines) <= MaxLines
  /\ meta \in {"absent", "torn", "started", "ended"}
  /\ clock \in 0..MaxTick /\ mtime \in 0..clock
  /\ tail \in [state : {"none"}] \cup [state : {"begun", "torn"}, line : LineType]
  /\ tail.state # "none" => tail.line.at <= mtime /\ Len(lines) < MaxLines
  /\ \A i \in DOMAIN lines : lines[i].at <= mtime
  /\ meta = "ended" => stage = "ended"

\* What a step of the writer leaves of the files as they were.
FilesGrow ==
  /\ Len(lines) <= Len(lines') /\ \A i \in DOMAIN lines : lines'[i] = lines[i]
  /\ clock <= clock'
  /\ stage = "ended" => stage' = "ended" /\ lines' = lines

LEMMA FilesInitial == FilesInit => FilesInv
<1> SUFFICES ASSUME FilesInit PROVE FilesInv
  OBVIOUS
<1>1. lines \in Seq(LineType) /\ Len(lines) = 0 /\ DOMAIN lines = {}
  BY DEF FilesInit
<1> QED
  BY <1>1, MaxLinesAssumption, MaxTickAssumption DEF FilesInit, FilesInv

LEMMA BlamesAreLines ==
  ASSUME FilesInv, NEW reported \in SUBSET Names, Len(lines) < MaxLines,
         NEW blames \in [reported -> 0 .. Len(lines) + 1]
  PROVE  [blames |-> blames, at |-> clock] \in LineType
<1>1. blames \in [reported -> 0 .. MaxLines]
  BY MaxLinesAssumption DEF FilesInv
<1>2. blames \in UNION { [r -> 0..MaxLines] : r \in SUBSET Names }
  BY <1>1
<1> QED
  BY <1>2 DEF LineType, FilesInv

LEMMA FilesStep ==
  ASSUME FilesInv, MakeDirectory \/ Write \/ Tick
  PROVE  FilesInv' /\ FilesGrow
<1>t. /\ lines \in Seq(LineType) /\ clock \in Nat /\ mtime \in Nat /\ mtime <= clock
      /\ clock <= MaxTick
  BY MaxTickAssumption DEF FilesInv
<1>a. \A i \in DOMAIN lines : lines[i].at \in Nat /\ lines[i].at <= clock
  <2> SUFFICES ASSUME NEW i \in DOMAIN lines PROVE lines[i].at \in Nat /\ lines[i].at <= clock
    OBVIOUS
  <2>1. lines[i] \in LineType /\ lines[i].at <= mtime
    BY DEF FilesInv
  <2> QED
    BY <1>t, <2>1, MaxTickAssumption DEF LineType
<1>1. CASE MakeDirectory \/ StartMeta \/ MetaStarted
  BY <1>1, <1>t DEF FilesInv, FilesGrow, MakeDirectory, StartMeta, MetaStarted, TruncateMeta,
     FillMeta
<1>7. CASE OpenTraceFile
  <2>1. tail.state # "none" => tail.line \in LineType
    BY DEF FilesInv
  <2>2. tail.state # "none" => tail.line.at <= clock
    BY <1>t, <2>1, MaxTickAssumption DEF FilesInv, LineType
  <2> QED
    BY <1>7, <1>t, <1>a, <2>2 DEF FilesInv, FilesGrow, OpenTraceFile
<1>2. CASE LineFails \/ RunReturns \/ MetaEnded \/ Killed
  BY <1>2, <1>t DEF FilesInv, FilesGrow, LineFails, RunReturns, MetaEnded, Killed, TruncateMeta,
     FillMeta
<1>3. CASE BeginLine
  <2>1. PICK reported \in SUBSET (Names \ ReportedOn(lines)) :
          \E blames \in [reported -> 0 .. Len(lines) + 1] :
            tail' = [state |-> "begun", line |-> [blames |-> blames, at |-> clock]]
    BY <1>3 DEF BeginLine
  <2>2. PICK blames \in [reported -> 0 .. Len(lines) + 1] :
          tail' = [state |-> "begun", line |-> [blames |-> blames, at |-> clock]]
    BY <2>1
  <2>3. [blames |-> blames, at |-> clock] \in LineType
    BY <1>3, BlamesAreLines DEF BeginLine
  <2>4. /\ tail' \in [state : {"begun", "torn"}, line : LineType]
        /\ tail'.line.at = clock
    BY <2>2, <2>3
  <2> QED
    BY <1>3, <1>t, <1>a, <2>4 DEF BeginLine, FilesInv, FilesGrow
<1>4. CASE ShowPart
  <2>1. /\ tail' \in [state : {"begun", "torn"}, line : LineType]
        /\ tail'.line = tail.line
    BY <1>4 DEF ShowPart, FilesInv
  <2> QED
    BY <1>4, <1>t, <2>1 DEF ShowPart, FilesInv, FilesGrow
<1>5. CASE EndLine
  <2>1. tail.line \in LineType /\ tail.line.at <= mtime
    BY <1>5 DEF EndLine, FilesInv
  <2>2. /\ lines' = Append(lines, tail.line) /\ lines' \in Seq(LineType)
        /\ Len(lines') = Len(lines) + 1
        /\ \A i \in DOMAIN lines : lines'[i] = lines[i]
        /\ lines'[Len(lines) + 1] = tail.line
    BY <1>5, <1>t, <2>1, AppendProperties DEF EndLine
  <2>3. \A i \in DOMAIN lines' : lines'[i].at <= mtime
    BY <1>t, <2>1, <2>2 DEF FilesInv
  <2>4. Len(lines') <= MaxLines
    BY <1>5, <1>t, <2>2, MaxLinesAssumption DEF EndLine, FilesInv
  <2> QED
    BY <1>5, <1>t, <2>2, <2>3, <2>4 DEF EndLine, FilesInv, FilesGrow
<1>6. CASE Tick
  BY <1>6, <1>t, MaxTickAssumption DEF Tick, FilesInv, FilesGrow
<1> QED
  BY <1>1, <1>2, <1>3, <1>4, <1>5, <1>6, <1>7 DEF Write

----------------------------------------------------------------------------
(* The cache and the requests.                                             *)

Places == {"idle", "stat", "open", "list", "tally", "answered"} \cup Parsing
Results == {"none", "run", "step", "not found", "error", "left out", "summary"}
Metas == {"absent", "torn", "started", "ended"}

RequestType ==
  [ pc : Places, index : Nat, stat : SUBSET (0..MaxTick), asked : Nat,
    meta : Metas, mtime : SUBSET (0..MaxTick), steps : Seq(LineType), readAt : 0..MaxTick,
    result : Results, run : {Absent} \cup RunType, line : {NoStep} \cup LineType,
    stepCount : Nat ]

\* Steps that were read from the trace are the first of its lines.
FromTrace(steps) == Len(steps) <= Len(lines) /\ \A i \in DOMAIN steps : steps[i] = lines[i]

\* A parsed run is a beginning of the trace, all of it when the meta says ended; its time
\* is no later than the reading; and its markers are worked out from its steps.
RunOK(run) ==
  /\ run \in RunType /\ FromTrace(run.steps)
  /\ \A t \in run.mtime : t <= run.readAt
  /\ run.meta = "ended" => stage = "ended" /\ Len(run.steps) = Len(lines)
  /\ run.marked = MarkViolations(run.steps)

\* Everything complete when a run was asked for was stamped no later than the file was then;
\* what a request has read is no newer than the place it has got to.
RequestOK(r) ==
  /\ r \in RequestType /\ r.asked <= Len(lines)
  /\ r.pc = "open" => \A t \in r.stat, i \in 1 .. r.asked : lines[i].at <= t
  /\ r.pc \in {"scan", "read", "store", "tally"} =>
       r.meta \in {"started", "ended"} /\ (r.meta = "ended" => stage = "ended")
  /\ r.pc \in {"read", "store"} => \A t \in r.mtime : t <= clock
  /\ r.pc = "store" =>
       /\ FromTrace(r.steps) /\ r.asked <= Len(r.steps)
       /\ \A t \in r.mtime : t <= r.readAt
       /\ r.meta = "ended" => Len(r.steps) = Len(lines)
       /\ cached # Absent => Len(cached.steps) <= Len(r.steps)
  /\ r.pc = "answered" /\ r.result = "run" =>
       /\ RunOK(r.run)
       /\ \A i \in Len(r.run.steps) + 1 .. r.asked : lines[i].at <= r.run.readAt
  /\ r.pc = "answered" /\ r.result = "step" => r.index \in DOMAIN lines /\ r.line = lines[r.index]
  /\ r.pc = "answered" /\ r.result = "summary" /\ r.meta = "ended" =>
       stage = "ended" /\ r.stepCount = Len(lines)

\* Only the request that holds the mutex parses.
Alone ==
  /\ mutex = { c \in Clients : request[c].pc \in Parsing }
  /\ \A c, d \in Clients : request[c].pc \in Parsing /\ request[d].pc \in Parsing => c = d

CacheInv ==
  /\ cached = Absent \/ RunOK(cached)
  /\ DOMAIN request = Clients /\ \A c \in Clients : RequestOK(request[c])
  /\ Alone

----------------------------------------------------------------------------

LEMMA RunAbsent == Absent \notin RunType
  BY DEF Absent, RunType

\* What was read from the trace is still in it when the trace has grown.
LEMMA RunStable ==
  ASSUME FilesInv, FilesGrow, FilesInv', NEW run, RunOK(run)
  PROVE  RunOK(run)'
  BY DEF RunOK, FromTrace, FilesGrow, FilesInv, RunType

LEMMA RequestStable ==
  ASSUME FilesInv, FilesGrow, FilesInv', UNCHANGED cached, NEW r, RequestOK(r)
  PROVE  RequestOK(r)'
<1>1. /\ Len(lines) \in Nat /\ Len(lines') \in Nat /\ Len(lines) <= Len(lines')
      /\ \A i \in 1 .. Len(lines) : lines'[i] = lines[i]
      /\ clock \in Nat /\ clock' \in Nat /\ clock <= clock'
      /\ stage = "ended" => stage' = "ended" /\ lines' = lines
  BY MaxTickAssumption DEF FilesInv, FilesGrow
<1>2. /\ r \in RequestType /\ r.asked \in Nat /\ r.mtime \in SUBSET Nat /\ r.steps \in Seq(LineType)
      /\ r.asked <= Len(lines)
  BY MaxTickAssumption DEF RequestOK, RequestType
<1>3. r.pc = "answered" /\ r.result = "run" => RunOK(r.run)' /\ r.run.steps \in Seq(LineType)
  BY RunStable DEF RequestOK, RunOK, RunType
<1>4. r.pc = "store" => FromTrace(r.steps)'
  BY <1>1, <1>2 DEF RequestOK, FromTrace
<1>5. r.pc = "open" => \A t \in r.stat, i \in 1 .. r.asked : lines'[i].at <= t
  BY <1>1, <1>2 DEF RequestOK
<1>6. r.pc \in {"read", "store"} => \A t \in r.mtime : t <= clock'
  BY <1>1, <1>2 DEF RequestOK
<1>7. r.pc = "answered" /\ r.result = "run" =>
        \A i \in Len(r.run.steps) + 1 .. r.asked : lines'[i].at <= r.run.readAt
  BY <1>1, <1>2, <1>3 DEF RequestOK
<1>8. r.pc = "answered" /\ r.result = "step" => r.index \in DOMAIN lines' /\ r.line = lines'[r.index]
  BY <1>1 DEF RequestOK, FilesInv
<1> QED
  BY <1>1, <1>2, <1>3, <1>4, <1>5, <1>6, <1>7, <1>8 DEF RequestOK

\* Writing one field of a request keeps its type.
LEMMA RequestFields ==
  /\ \A r \in RequestType, x \in Places : [r EXCEPT !.pc = x] \in RequestType
  /\ \A r \in RequestType, x \in Nat : [r EXCEPT !.index = x] \in RequestType
  /\ \A r \in RequestType, x \in SUBSET (0..MaxTick) : [r EXCEPT !.stat = x] \in RequestType
  /\ \A r \in RequestType, x \in Nat : [r EXCEPT !.asked = x] \in RequestType
  /\ \A r \in RequestType, x \in Metas : [r EXCEPT !.meta = x] \in RequestType
  /\ \A r \in RequestType, x \in SUBSET (0..MaxTick) : [r EXCEPT !.mtime = x] \in RequestType
  /\ \A r \in RequestType, x \in Seq(LineType) : [r EXCEPT !.steps = x] \in RequestType
  /\ \A r \in RequestType, x \in 0..MaxTick : [r EXCEPT !.readAt = x] \in RequestType
  /\ \A r \in RequestType, x \in Results : [r EXCEPT !.result = x] \in RequestType
  /\ \A r \in RequestType, x \in Nat : [r EXCEPT !.stepCount = x] \in RequestType
  BY DEF RequestType

LEMMA NoRequestTyped == NoRequest \in RequestType
  BY MaxTickAssumption DEF NoRequest, RequestType, Places, Results, Metas

LEMMA CacheInitial == FilesInit /\ CacheInit => CacheInv
<1> SUFFICES ASSUME FilesInit, CacheInit PROVE CacheInv
  OBVIOUS
<1>1. NoRequest \in RequestType /\ NoRequest.pc = "idle" /\ NoRequest.asked = 0
  BY MaxTickAssumption DEF NoRequest, RequestType, Places, Results, Metas
<1>2. RequestOK(NoRequest)
  BY <1>1 DEF RequestOK, FilesInit
<1>3. \A c \in Clients : request[c] = NoRequest
  BY DEF CacheInit
<1>4. Alone
  BY <1>1, <1>3 DEF Alone, CacheInit, Parsing
<1> QED
  BY <1>2, <1>3, <1>4 DEF CacheInit, CacheInv

\* One request changes and the cache does not.
LEMMA OneRequestChanges ==
  ASSUME CacheInv, UNCHANGED <<filesVars, cached>>, NEW c \in Clients, NEW r,
         request' = [request EXCEPT ![c] = r], RequestOK(r),
         \/ mutex' = mutex /\ (r.pc \in Parsing <=> request[c].pc \in Parsing)
         \/ mutex' = {} /\ request[c].pc \in Parsing /\ r.pc \notin Parsing
         \/ mutex = {} /\ mutex' = {c} /\ r.pc \in Parsing
  PROVE  CacheInv'
<1>1. /\ DOMAIN request' = Clients /\ request'[c] = r
      /\ \A d \in Clients : d # c => request'[d] = request[d]
  BY DEF CacheInv
<1>2. \A x : RequestOK(x) => RequestOK(x)'
  BY DEF RequestOK, RunOK, FromTrace, filesVars
<1>3. \A d \in Clients : RequestOK(request[d])'
  BY <1>1, <1>2 DEF CacheInv
<1>4. Alone'
  BY <1>1 DEF CacheInv, Alone
<1>5. RunOK(cached) => RunOK(cached)'
  BY DEF RunOK, FromTrace, filesVars
<1> QED
  BY <1>1, <1>3, <1>4, <1>5 DEF CacheInv

LEMMA AnswerFields ==
  ASSUME NEW c, request[c] \in RequestType, NEW result \in Results
  PROVE  LET r == Answer(c, result)
         IN /\ r \in RequestType /\ r.pc = "answered" /\ r.result = result
            /\ r.index = request[c].index /\ r.asked = request[c].asked /\ r.run = Absent
<1>1. request[c].index \in Nat /\ request[c].asked \in Nat /\ "answered" \in Places
  BY DEF RequestType, Places
<1>2. Answer(c, result) \in RequestType
  BY <1>1, NoRequestTyped, RequestFields DEF Answer
<1>3. LET r == Answer(c, result)
      IN /\ r.pc = "answered" /\ r.result = result /\ r.index = request[c].index
         /\ r.asked = request[c].asked /\ r.run = Absent
  BY DEF Answer, NoRequest
<1> QED
  BY <1>2, <1>3

\* A run that is a beginning of the trace, and lacks only what was stamped no later than it
\* was read, may be handed out, or one of its steps.
LEMMA AnsweredOK ==
  ASSUME FilesInv, NEW c \in Clients, DOMAIN request = Clients, RequestOK(request[c]),
         NEW run, RunOK(run),
         \A i \in Len(run.steps) + 1 .. request[c].asked : lines[i].at <= run.readAt
  PROVE  \E r : /\ Answered(c, run) = [request EXCEPT ![c] = r]
                /\ r.pc = "answered" /\ RequestOK(r)
<1>t. request[c] \in RequestType /\ request[c].asked <= Len(lines)
  BY DEF RequestOK
<1>s. run \in RunType /\ run.steps \in Seq(LineType) /\ FromTrace(run.steps)
  BY DEF RunOK, RunType
<1>1. CASE request[c].index = 0
  <2> DEFINE r == [Answer(c, "run") EXCEPT !.run = run]
  <2>1. Answer(c, "run") \in RequestType /\ Answer(c, "run").pc = "answered"
        /\ Answer(c, "run").result = "run" /\ Answer(c, "run").asked = request[c].asked
    BY <1>t, AnswerFields DEF Results
  <2>2. /\ r \in RequestType /\ r.pc = "answered" /\ r.result = "run" /\ r.run = run
        /\ r.asked = request[c].asked
    BY <1>s, <2>1 DEF RequestType
  <2> HIDE DEF r
  <2>3. RequestOK(r)
    BY <1>t, <2>2 DEF RequestOK
  <2>4. Answered(c, run) = [request EXCEPT ![c] = r]
    BY <1>1 DEF Answered, r
  <2> QED
    BY <2>2, <2>3, <2>4
<1>2. CASE request[c].index # 0 /\ request[c].index \in DOMAIN run.steps
  <2> DEFINE r == [Answer(c, "step") EXCEPT !.line = run.steps[request[c].index]]
  <2>1. Answer(c, "step") \in RequestType /\ Answer(c, "step").pc = "answered"
        /\ Answer(c, "step").result = "step" /\ Answer(c, "step").asked = request[c].asked
        /\ Answer(c, "step").index = request[c].index
    BY <1>t, AnswerFields DEF Results
  <2>0. run.steps[request[c].index] \in LineType
    BY <1>2, <1>s
  <2>2. /\ r \in RequestType /\ r.pc = "answered" /\ r.result = "step"
        /\ r.line = run.steps[request[c].index]
        /\ r.asked = request[c].asked /\ r.index = request[c].index
    BY <2>0, <2>1 DEF RequestType
  <2> HIDE DEF r
  <2>5. r.index \in DOMAIN lines /\ r.line = lines[r.index]
    BY <1>2, <1>s, <2>2 DEF FromTrace, FilesInv
  <2>3. RequestOK(r)
    BY <1>t, <2>2, <2>5 DEF RequestOK
  <2>4. Answered(c, run) = [request EXCEPT ![c] = r]
    BY <1>2 DEF Answered, ServeStep, r
  <2> QED
    BY <2>2, <2>3, <2>4
<1>3. CASE request[c].index # 0 /\ request[c].index \notin DOMAIN run.steps
  <2> DEFINE r == Answer(c, "not found")
  <2>2. /\ r \in RequestType /\ r.pc = "answered" /\ r.result = "not found"
        /\ r.asked = request[c].asked
    BY <1>t, AnswerFields DEF Results
  <2> HIDE DEF r
  <2>3. RequestOK(r)
    BY <1>t, <2>2 DEF RequestOK
  <2>4. Answered(c, run) = [request EXCEPT ![c] = r]
    BY <1>3 DEF Answered, ServeStep, r
  <2> QED
    BY <2>2, <2>3, <2>4
<1> QED
  BY <1>1, <1>2, <1>3

LEMMA RefusedOK ==
  ASSUME FilesInv, NEW c, RequestOK(request[c]), NEW result \in {"not found", "error", "left out"}
  PROVE  Answer(c, result).pc = "answered" /\ RequestOK(Answer(c, result))
<1> DEFINE r == Answer(c, result)
<1>1. request[c] \in RequestType /\ request[c].asked <= Len(lines) /\ result \in Results
  BY DEF RequestOK, Results
<1>2. r \in RequestType /\ r.pc = "answered" /\ r.result = result /\ r.asked = request[c].asked
  BY <1>1, AnswerFields
<1> HIDE DEF r
<1>3. RequestOK(r)
  BY <1>1, <1>2 DEF RequestOK
<1> QED
  BY <1>2, <1>3 DEF r

LEMMA MarkersAreSteps ==
  ASSUME NEW ls \in Seq(LineType), Len(ls) <= MaxLines
  PROVE  MarkViolations(ls) \subseteq 1 .. MaxLines
<1>1. \A i \in DOMAIN ls : \A name \in DOMAIN ls[i].blames : BlamedStep(ls, i, name) \in DOMAIN ls
  BY DEF BlamedStep
<1>2. DOMAIN ls \subseteq 1 .. MaxLines
  BY MaxLinesAssumption
<1> QED
  BY <1>1, <1>2 DEF MarkViolations

\* A request is answered out of a run, by the one who parsed it or by one who did not.
LEMMA ServeKeeps ==
  ASSUME FilesInv, CacheInv, NEW c \in Clients, Serve(c), UNCHANGED filesVars
  PROVE  CacheInv'
<1>t. /\ DOMAIN request = Clients /\ RequestOK(request[c]) /\ request[c] \in RequestType
      /\ request[c].asked <= Len(lines) /\ request[c].asked \in Nat
      /\ cached = Absent \/ RunOK(cached)
  BY DEF CacheInv, RequestOK, RequestType
<1>f. /\ lines \in Seq(LineType) /\ Len(lines) \in Nat /\ mtime \in 0..MaxTick /\ clock \in 0..MaxTick
      /\ mtime <= clock /\ StatTrace \in SUBSET (0..MaxTick) /\ \A t \in StatTrace : t = mtime
  BY MaxTickAssumption DEF FilesInv, StatTrace
<1>p. Places \cap Parsing = Parsing /\ Parsing = {"meta", "scan", "read", "store"}
      /\ {"open", "tally", "answered"} \subseteq Places
  BY DEF Places, Parsing
<1>1. CASE StatFirst(c)
  <2> DEFINE asked == IF request[c].index = 0 THEN Len(lines) ELSE 0
             r == [request[c] EXCEPT !.pc = "open", !.stat = StatTrace, !.asked = asked]
  <2>1. asked \in Nat /\ asked <= Len(lines)
    BY <1>f
  <2>2. r \in RequestType
    BY <1>t, <1>f, <1>p, <2>1, RequestFields
  <2>3. r.pc = "open" /\ r.stat = StatTrace /\ r.asked = asked
    BY <1>t DEF RequestType
  <2>4. request' = [request EXCEPT ![c] = r]
    BY <1>1 DEF StatFirst
  <2> HIDE DEF r, asked
  <2>5. \A t \in r.stat, i \in 1 .. r.asked : lines[i].at <= t
    <3>1. \A i \in 1 .. asked : lines[i].at <= mtime
      BY <1>f, <2>1 DEF FilesInv
    <3> QED
      BY <1>f, <2>3, <3>1
  <2>6. RequestOK(r)
    BY <2>1, <2>2, <2>3, <2>5 DEF RequestOK
  <2> QED
    BY <1>1, <1>p, <2>3, <2>4, <2>6, OneRequestChanges DEF StatFirst
<1>2. CASE Hit(c)
  <2>1. /\ cached # Absent /\ RunOK(cached) /\ cached.mtime = request[c].stat
        /\ request[c].stat # {} /\ request[c].pc = "open" /\ cached \in RunType
    BY <1>2, <1>t DEF Hit, Fresh, RunOK
  <2>2. PICK t \in request[c].stat : TRUE
    BY <2>1
  <2>3. /\ t <= cached.readAt /\ t \in Nat /\ cached.readAt \in Nat
        /\ \A i \in 1 .. request[c].asked : lines[i].at <= t
    BY <1>t, <2>1, <2>2, MaxTickAssumption DEF RunOK, RunType, RequestOK
  <2>4. \A i \in 1 .. request[c].asked : lines[i].at \in Nat
    <3>1. \A i \in 1 .. request[c].asked : lines[i] \in LineType
      BY <1>t, <1>f
    <3> QED
      BY <3>1, MaxTickAssumption DEF LineType
  <2>5. cached.steps \in Seq(LineType)
    BY <2>1 DEF RunType
  <2>6. \A i \in Len(cached.steps) + 1 .. request[c].asked : lines[i].at <= cached.readAt
    BY <2>3, <2>4, <2>5
  <2>7. PICK r : /\ Answered(c, cached) = [request EXCEPT ![c] = r]
                 /\ r.pc = "answered" /\ RequestOK(r)
    BY <1>t, <2>1, <2>6, AnsweredOK
  <2> QED
    BY <1>2, <1>p, <2>1, <2>7, OneRequestChanges DEF Hit
<1>3. CASE Miss(c)
  <2> DEFINE r == [request[c] EXCEPT !.pc = "meta"]
  <2>1. r \in RequestType /\ r.pc = "meta" /\ r.asked = request[c].asked
    BY <1>t, <1>p, RequestFields DEF RequestType
  <2>2. request' = [request EXCEPT ![c] = r] /\ mutex = {} /\ mutex' = {c} /\ cached' = cached
    BY <1>3 DEF Miss, HeldBy
  <2> HIDE DEF r
  <2>3. RequestOK(r)
    BY <1>t, <2>1 DEF RequestOK
  <2> QED
    BY <1>p, <2>1, <2>2, <2>3, OneRequestChanges
<1>4. CASE ReadMeta(c)
  <2>1. CASE meta \in {"absent", "torn"}
    <3> DEFINE result == IF meta = "absent" THEN "not found" ELSE "error"
    <3>1. /\ request' = [request EXCEPT ![c] = Answer(c, result)] /\ mutex' = {}
          /\ cached' = cached /\ request[c].pc = "meta" /\ result \in {"not found", "error"}
      BY <1>4, <2>1 DEF ReadMeta, Refused
    <3>2. Answer(c, result).pc = "answered" /\ RequestOK(Answer(c, result))
      BY <1>t, <3>1, RefusedOK
    <3> QED
      BY <1>p, <3>1, <3>2, OneRequestChanges
  <2>2. CASE meta \in {"started", "ended"}
    <3> DEFINE r == [request[c] EXCEPT !.pc = "scan", !.meta = meta]
    <3>1. r \in RequestType
      BY <1>t, <1>p, <2>2, RequestFields DEF Metas
    <3>2. r.pc = "scan" /\ r.meta = meta /\ r.asked = request[c].asked
      BY <1>t DEF RequestType
    <3>3. request' = [request EXCEPT ![c] = r] /\ mutex' = mutex /\ cached' = cached
          /\ request[c].pc = "meta"
      BY <1>4, <2>2 DEF ReadMeta
    <3> HIDE DEF r
    <3>4. RequestOK(r)
      BY <1>t, <2>2, <3>1, <3>2 DEF RequestOK, FilesInv
    <3> QED
      BY <1>p, <3>2, <3>3, <3>4, OneRequestChanges
  <2> QED
    BY <2>1, <2>2 DEF FilesInv
<1>5. CASE StatOpened(c)
  <2> DEFINE r == [request[c] EXCEPT !.pc = "read", !.mtime = StatTrace]
  <2>1. r \in RequestType
    BY <1>t, <1>f, <1>p, RequestFields
  <2>2. r.pc = "read" /\ r.meta = request[c].meta /\ r.asked = request[c].asked
        /\ r.mtime = StatTrace
    BY <1>t DEF RequestType
  <2>3. request' = [request EXCEPT ![c] = r] /\ mutex' = mutex /\ cached' = cached
        /\ request[c].pc = "scan"
    BY <1>5 DEF StatOpened
  <2> HIDE DEF r
  <2>4. RequestOK(r)
    BY <1>t, <1>f, <2>1, <2>2, <2>3 DEF RequestOK
  <2> QED
    BY <1>p, <2>2, <2>3, <2>4, OneRequestChanges
<1>6. CASE ReadLines(c)
  <2>1. CASE tail.state = "torn"
    <3>1. /\ request' = [request EXCEPT ![c] = Answer(c, "error")] /\ mutex' = {}
          /\ cached' = cached /\ request[c].pc = "read"
      BY <1>6, <2>1 DEF ReadLines, Refused
    <3>2. Answer(c, "error").pc = "answered" /\ RequestOK(Answer(c, "error"))
      BY <1>t, RefusedOK
    <3> QED
      BY <1>p, <3>1, <3>2, OneRequestChanges
  <2>2. CASE tail.state # "torn"
    <3> DEFINE r == [request[c] EXCEPT !.pc = "store", !.steps = lines, !.readAt = clock]
    <3>1. r \in RequestType
      BY <1>t, <1>f, <1>p, RequestFields
    <3>2. /\ r.pc = "store" /\ r.meta = request[c].meta /\ r.asked = request[c].asked
          /\ r.mtime = request[c].mtime /\ r.steps = lines /\ r.readAt = clock
      BY <1>t DEF RequestType
    <3>3. request' = [request EXCEPT ![c] = r] /\ mutex' = mutex /\ cached' = cached
          /\ request[c].pc = "read"
      BY <1>6, <2>2 DEF ReadLines
    <3> HIDE DEF r
    <3>4. FromTrace(r.steps) /\ (cached # Absent => Len(cached.steps) <= Len(r.steps))
      BY <1>t, <1>f, <3>2 DEF FromTrace, RunOK
    <3>5. RequestOK(r)
      BY <1>t, <1>f, <3>1, <3>2, <3>3, <3>4 DEF RequestOK
    <3> QED
      BY <1>p, <3>2, <3>3, <3>5, OneRequestChanges
  <2> QED
    BY <2>1, <2>2
<1>8. CASE SummarizeMeta(c)
  <2>1. CASE meta \in {"absent", "torn"}
    <3>1. /\ request' = [request EXCEPT ![c] = Answer(c, "left out")] /\ mutex' = mutex
          /\ cached' = cached /\ request[c].pc = "list"
      BY <1>8, <2>1 DEF SummarizeMeta, LeftOut, Refused
    <3>2. Answer(c, "left out").pc = "answered" /\ RequestOK(Answer(c, "left out"))
      BY <1>t, RefusedOK
    <3> QED
      BY <1>p, <3>1, <3>2, OneRequestChanges
  <2>2. CASE meta \in {"started", "ended"}
    <3> DEFINE r == [request[c] EXCEPT !.pc = "tally", !.meta = meta]
    <3>1. r \in RequestType
      BY <1>t, <1>p, <2>2, RequestFields DEF Metas
    <3>2. r.pc = "tally" /\ r.meta = meta /\ r.asked = request[c].asked
      BY <1>t DEF RequestType
    <3>3. request' = [request EXCEPT ![c] = r] /\ mutex' = mutex /\ cached' = cached
          /\ request[c].pc = "list"
      BY <1>8, <2>2 DEF SummarizeMeta
    <3> HIDE DEF r
    <3>4. RequestOK(r)
      BY <1>t, <2>2, <3>1, <3>2 DEF RequestOK, FilesInv
    <3> QED
      BY <1>p, <3>2, <3>3, <3>4, OneRequestChanges
  <2> QED
    BY <2>1, <2>2 DEF FilesInv
<1>9. CASE TallyTrace(c)
  <2>1. CASE tail.state = "torn"
    <3>1. /\ request' = [request EXCEPT ![c] = Answer(c, "left out")] /\ mutex' = mutex
          /\ cached' = cached /\ request[c].pc = "tally"
      BY <1>9, <2>1 DEF TallyTrace, LeftOut, Refused
    <3>2. Answer(c, "left out").pc = "answered" /\ RequestOK(Answer(c, "left out"))
      BY <1>t, RefusedOK
    <3> QED
      BY <1>p, <3>1, <3>2, OneRequestChanges
  <2>2. CASE tail.state # "torn"
    <3> DEFINE r == [Answer(c, "summary") EXCEPT !.meta = request[c].meta, !.stepCount = Len(lines)]
    <3>0. Answer(c, "summary") \in RequestType /\ Answer(c, "summary").pc = "answered"
          /\ Answer(c, "summary").result = "summary"
          /\ Answer(c, "summary").asked = request[c].asked /\ request[c].meta \in Metas
      BY <1>t, AnswerFields DEF Results, RequestType
    <3>1. r \in RequestType
      BY <1>f, <3>0, RequestFields
    <3>2. /\ r.pc = "answered" /\ r.result = "summary" /\ r.meta = request[c].meta
          /\ r.asked = request[c].asked /\ r.stepCount = Len(lines)
      BY <3>0 DEF RequestType
    <3>3. request' = [request EXCEPT ![c] = r] /\ mutex' = mutex /\ cached' = cached
          /\ request[c].pc = "tally"
      BY <1>9, <2>2 DEF TallyTrace
    <3> HIDE DEF r
    <3>4. RequestOK(r)
      BY <1>t, <3>1, <3>2, <3>3 DEF RequestOK
    <3> QED
      BY <1>p, <3>2, <3>3, <3>4, OneRequestChanges
  <2> QED
    BY <2>1, <2>2
<1>7. CASE Store(c)
  <2> DEFINE run == Parsed(request[c], request[c].meta, request[c].mtime,
                           MarkViolations(request[c].steps))
  <2>1. /\ request[c].pc = "store" /\ cached' = run /\ request' = Answered(c, run) /\ mutex' = {}
    BY <1>7 DEF Store, MetaOfScan, TimeOfScan
  <2>2. /\ FromTrace(request[c].steps) /\ request[c].asked <= Len(request[c].steps)
        /\ \A t \in request[c].mtime : t <= request[c].readAt
        /\ request[c].meta \in {"started", "ended"}
        /\ request[c].meta = "ended" => stage = "ended" /\ Len(request[c].steps) = Len(lines)
        /\ cached # Absent => Len(cached.steps) <= Len(request[c].steps)
    BY <1>t, <2>1 DEF RequestOK
  <2>3. /\ request[c].steps \in Seq(LineType) /\ request[c].mtime \in SUBSET (0..MaxTick)
        /\ request[c].readAt \in 0..MaxTick
    BY <1>t DEF RequestType
  <2>4. MarkViolations(request[c].steps) \in SUBSET (1..MaxLines)
    BY <1>f, <2>2, <2>3, MarkersAreSteps, MaxLinesAssumption DEF FromTrace, FilesInv
  <2>5. /\ run \in RunType /\ run.steps = request[c].steps /\ run.readAt = request[c].readAt
        /\ run.meta = request[c].meta /\ run.mtime = request[c].mtime
        /\ run.marked = MarkViolations(request[c].steps)
    BY <2>2, <2>3, <2>4 DEF Parsed, RunType
  <2> HIDE DEF run
  <2>6. RunOK(run)
    BY <2>2, <2>5 DEF RunOK
  <2>7. Len(run.steps) + 1 > request[c].asked
    BY <1>t, <2>2, <2>3, <2>5
  <2>8. PICK r : /\ Answered(c, run) = [request EXCEPT ![c] = r]
                 /\ r.pc = "answered" /\ RequestOK(r)
    <3>1. \A i \in Len(run.steps) + 1 .. request[c].asked : lines[i].at <= run.readAt
      BY <1>t, <2>3, <2>5, <2>7
    <3> QED
      BY <1>t, <2>6, <3>1, AnsweredOK
  <2>9. /\ DOMAIN request' = Clients /\ request'[c] = r
        /\ \A d \in Clients : d # c => request'[d] = request[d]
    BY <1>t, <2>1, <2>8
  <2>10. \A d \in Clients : request'[d].pc \notin Parsing
    BY <1>p, <2>1, <2>8, <2>9 DEF CacheInv, Alone
  <2>11. \A x : RequestOK(x) /\ x.pc # "store" => RequestOK(x)'
    BY DEF RequestOK, RunOK, FromTrace, filesVars
  <2>12. \A d \in Clients : RequestOK(request[d])'
    <3> SUFFICES ASSUME NEW d \in Clients PROVE RequestOK(request[d])'
      OBVIOUS
    <3>1. RequestOK(request'[d])
      BY <2>8, <2>9 DEF CacheInv
    <3> QED
      BY <1>p, <2>10, <2>11, <3>1
  <2>13. RunOK(cached)'
    BY <2>1, <2>6 DEF RunOK, FromTrace, filesVars
  <2>14. Alone'
    BY <2>1, <2>10 DEF Alone
  <2> QED
    BY <2>9, <2>12, <2>13, <2>14 DEF CacheInv
<1> QED
  BY <1>1, <1>2, <1>3, <1>4, <1>5, <1>6, <1>7, <1>8, <1>9 DEF Serve

\* A request stays the one it is: of the others none changes, and a step that was asked for
\* stays that step.
LEMMA ServeStays ==
  ASSUME DOMAIN request = Clients, NEW c \in Clients, request[c] \in RequestType, Serve(c)
  PROVE  /\ \A d \in Clients : d # c => request'[d] = request[d]
         /\ request[c].pc # "idle"
         /\ request[c].pc \notin {"list", "tally"} =>
              /\ request'[c].pc \notin {"idle", "list", "tally"}
              /\ request'[c].index = request[c].index
<1>1. \A result : /\ Answer(c, result).pc = "answered"
                  /\ Answer(c, result).index = request[c].index
  BY DEF Answer, NoRequest
<1>2. CASE Hit(c) \/ Store(c)
  <2>1. PICK run : request' = Answered(c, run)
    BY <1>2 DEF Hit, Store
  <2>2. [Answer(c, "run") EXCEPT !.run = run].pc = "answered"
        /\ [Answer(c, "run") EXCEPT !.run = run].index = request[c].index
    BY DEF Answer, NoRequest
  <2>3. \A line : /\ [Answer(c, "step") EXCEPT !.line = line].pc = "answered"
                  /\ [Answer(c, "step") EXCEPT !.line = line].index = request[c].index
    BY DEF Answer, NoRequest
  <2>4. request[c].pc # "idle"
    BY <1>2 DEF Hit, Store
  <2>5. /\ \A d \in Clients : d # c => request'[d] = request[d]
        /\ request'[c].pc = "answered" /\ request'[c].index = request[c].index
    BY <1>1, <2>1, <2>2, <2>3 DEF Answered, ServeStep
  <2> QED
    BY <2>4, <2>5
<1>3. CASE StatFirst(c) \/ Miss(c)
  <2>1. CASE StatFirst(c)
    BY <2>1 DEF StatFirst, RequestType
  <2>2. CASE Miss(c)
    BY <2>2 DEF Miss, RequestType
  <2> QED BY <1>3, <2>1, <2>2
<1>4. CASE ReadMeta(c)
  <2>1. CASE meta \in {"absent", "torn"}
    BY <1>1, <1>4, <2>1 DEF ReadMeta, Refused
  <2>2. CASE meta \notin {"absent", "torn"}
    <3> DEFINE r == [request[c] EXCEPT !.pc = "scan", !.meta = meta]
    <3>1. request[c].pc = "meta" /\ request' = [request EXCEPT ![c] = r]
      BY <1>4, <2>2 DEF ReadMeta
    <3>2. r.pc = "scan" /\ r.index = request[c].index
      BY DEF RequestType
    <3> HIDE DEF r
    <3> QED BY <3>1, <3>2
  <2> QED BY <2>1, <2>2
<1>5. CASE StatOpened(c)
  BY <1>5 DEF StatOpened, RequestType
<1>6. CASE ReadLines(c)
  <2>1. CASE tail.state = "torn"
    BY <1>1, <1>6, <2>1 DEF ReadLines, Refused
  <2>2. CASE tail.state # "torn"
    <3> DEFINE r == [request[c] EXCEPT !.pc = "store", !.steps = lines, !.readAt = clock]
    <3>1. request[c].pc = "read" /\ request' = [request EXCEPT ![c] = r]
      BY <1>6, <2>2 DEF ReadLines
    <3>2. r.pc = "store" /\ r.index = request[c].index
      BY DEF RequestType
    <3> HIDE DEF r
    <3> QED BY <3>1, <3>2
  <2> QED BY <2>1, <2>2
<1>7. CASE SummarizeMeta(c) \/ TallyTrace(c)
  BY <1>7 DEF SummarizeMeta, TallyTrace, LeftOut, Refused
<1> QED
  BY <1>2, <1>3, <1>4, <1>5, <1>6, <1>7 DEF Serve

\* A request that starts over, from a place at which it held nothing.
LEMMA AsksOK ==
  ASSUME FilesInv, NEW index \in Nat
  PROVE  /\ RequestOK(Asks(index)) /\ Asks(index).pc = "stat" /\ Asks(index).index = index
<1>1. Asks(index) \in RequestType
  BY NoRequestTyped, RequestFields DEF Asks, Places
<1>2. Asks(index).pc = "stat" /\ Asks(index).asked = 0 /\ Asks(index).index = index
  BY DEF Asks, NoRequest
<1> QED
  BY <1>1, <1>2 DEF RequestOK, FilesInv

----------------------------------------------------------------------------
(* The page.                                                               *)

\* The page shows a run as the server parsed it, and of its steps those that were answered,
\* each the line of the trace that the run has there.
PageInv ==
  /\ page.shown \in {"loading", "failed", "run", "history"}
  /\ page = Blank => \A i \in StepClients : request[i].pc = "idle"
  /\ page.shown = "run" =>
       /\ RunOK(page.run)
       /\ \A i \in DOMAIN page.run.steps :
            request[i].index = i /\ request[i].pc \notin {"idle", "list", "tally"}
  /\ page.shown = "history" =>
       /\ RunOK(page.run) /\ DOMAIN page.steps = DOMAIN page.run.steps
       /\ page.steps = [i \in DOMAIN page.steps |-> page.steps[i]]
       /\ \A i \in DOMAIN page.steps : page.steps[i] \in {NoStep, page.run.steps[i]}
       /\ page.violations = ShownOn(page.steps)

ReplayInv == FilesInv /\ CacheInv /\ PageInv

LEMMA StepsHaveClients ==
  ASSUME FilesInv, NEW run, RunOK(run)
  PROVE  DOMAIN run.steps \subseteq StepClients /\ StepClients \subseteq Clients
<1>1. run.steps \in Seq(LineType) /\ Len(run.steps) <= MaxLines
  BY MaxLinesAssumption DEF RunOK, RunType, FromTrace, FilesInv
<1> QED
  BY <1>1, MaxLinesAssumption, ClientsAssumption DEF StepClients

LEMMA ReplayInitial == Init => ReplayInv
<1> SUFFICES ASSUME Init PROVE ReplayInv
  OBVIOUS
<1>1. FilesInv /\ CacheInv
  BY FilesInitial, CacheInitial DEF Init
<1>2. \A i \in StepClients : request[i].pc = "idle"
  BY ClientsAssumption, MaxLinesAssumption DEF Init, CacheInit, NoRequest, StepClients
<1>3. page.shown = "loading"
  BY DEF Init, Blank
<1> QED
  BY <1>1, <1>2, <1>3 DEF ReplayInv, PageInv

LEMMA ReplayStep == ReplayInv /\ [Next]_vars => ReplayInv'
<1> SUFFICES ASSUME ReplayInv, [Next]_vars PROVE ReplayInv'
  OBVIOUS
<1>i. FilesInv /\ CacheInv /\ PageInv
  BY DEF ReplayInv
<1>1. CASE UNCHANGED <<filesVars, cacheVars, page>>
  BY <1>1 DEF ReplayInv, FilesInv, CacheInv, PageInv, Alone, RequestOK, RunOK, FromTrace,
     filesVars, cacheVars
<1>2. CASE (MakeDirectory \/ Write \/ Tick) /\ UNCHANGED <<cacheVars, page>>
  <2>1. FilesInv' /\ FilesGrow
    BY <1>i, <1>2, FilesStep
  <2>2. \A run : RunOK(run) => RunOK(run)'
    BY <1>i, <2>1, RunStable
  <2>3. \A r : RequestOK(r) => RequestOK(r)'
    BY <1>i, <1>2, <2>1, RequestStable DEF cacheVars
  <2>4. CacheInv'
    BY <1>i, <1>2, <2>2, <2>3 DEF CacheInv, Alone, cacheVars
  <2>5. PageInv'
    BY <1>i, <1>2, <2>2 DEF PageInv, cacheVars
  <2> QED
    BY <2>1, <2>4, <2>5 DEF ReplayInv
<1>3. ASSUME NEW c \in Clients, Serve(c), UNCHANGED <<filesVars, page>>
      PROVE  ReplayInv'
  <2>1. CacheInv'
    BY <1>i, <1>3, ServeKeeps
  <2>2. FilesInv'
    BY <1>i, <1>3 DEF FilesInv, filesVars
  <2>3. \A run : RunOK(run) => RunOK(run)'
    BY <1>3 DEF RunOK, FromTrace, filesVars
  <2>4. DOMAIN request = Clients /\ request[c] \in RequestType
    BY <1>i DEF CacheInv, RequestOK
  <2>5. /\ \A d \in Clients : d # c => request'[d] = request[d]
        /\ request[c].pc # "idle"
        /\ request[c].pc \notin {"list", "tally"} =>
             /\ request'[c].pc \notin {"idle", "list", "tally"}
             /\ request'[c].index = request[c].index
    BY <1>3, <2>4, ServeStays
  <2>6. StepClients \subseteq Clients
    BY ClientsAssumption, MaxLinesAssumption DEF StepClients
  <2>7. page.shown = "run" => DOMAIN page.run.steps \subseteq Clients
    BY <1>i, StepsHaveClients DEF PageInv
  <2>8. PageInv'
    BY <1>i, <1>3, <2>3, <2>5, <2>6, <2>7 DEF PageInv
  <2> QED
    BY <2>1, <2>2, <2>8 DEF ReplayInv
<1>4. ASSUME NEW c \in {RunClient, OtherTab}, NEW r, request[c].pc = "idle",
             request' = [request EXCEPT ![c] = r], RequestOK(r), r.pc \notin Parsing,
             UNCHANGED <<filesVars, page, cached, mutex>>
      PROVE  ReplayInv'
  <2>1. c \in Clients /\ c \notin StepClients
    BY ClientsAssumption, MaxLinesAssumption DEF RunClient, OtherTab, StepClients
  <2>2. CacheInv'
    BY <1>i, <1>4, <2>1, OneRequestChanges DEF Parsing
  <2>3. FilesInv'
    BY <1>i, <1>4 DEF FilesInv, filesVars
  <2>4. \A run : RunOK(run) => RunOK(run)'
    BY <1>4 DEF RunOK, FromTrace, filesVars
  <2>5. \A i \in StepClients : request'[i] = request[i]
    BY <1>i, <1>4, <2>1 DEF CacheInv
  <2>6. page.shown = "run" => DOMAIN page.run.steps \subseteq StepClients
    BY <1>i, StepsHaveClients DEF PageInv
  <2>7. PageInv'
    BY <1>i, <1>4, <2>4, <2>5, <2>6 DEF PageInv
  <2> QED
    BY <2>2, <2>3, <2>7 DEF ReplayInv
<1>5. CASE Mount
  BY <1>4, <1>5, <1>i, AsksOK DEF Mount, Ask, Parsing
<1>6. CASE OtherTabAsks
  <2> DEFINE r == [NoRequest EXCEPT !.pc = "list"]
  <2>1. r \in RequestType
    BY NoRequestTyped, RequestFields DEF Places
  <2>2. r.pc = "list" /\ r.asked = 0
    BY DEF NoRequest
  <2>3. AskList(OtherTab) => request' = [request EXCEPT ![OtherTab] = r]
    BY DEF AskList
  <2> HIDE DEF r
  <2>4. RequestOK(r)
    BY <1>i, <2>1, <2>2 DEF RequestOK, FilesInv
  <2>5. CASE Ask(OtherTab, 0)
    BY <1>4, <1>6, <1>i, <2>5, AsksOK DEF OtherTabAsks, Ask, Parsing
  <2>6. CASE AskList(OtherTab)
    BY <1>4, <1>6, <2>2, <2>3, <2>4, <2>6 DEF OtherTabAsks, AskList, Parsing
  <2> QED
    BY <1>6, <2>5, <2>6 DEF OtherTabAsks
<1>7. CASE RunLoaded
  <2> DEFINE answer == request[RunClient]
  <2>0. RunClient \in Clients
    BY ClientsAssumption, MaxLinesAssumption DEF RunClient
  <2>1. CASE answer.result # "run"
    <3>1. page' = [shown |-> "failed"] /\ UNCHANGED <<request, filesVars, cached, mutex>>
      BY <1>7, <2>1 DEF RunLoaded
    <3>2. page'.shown = "failed" /\ page' # Blank
      BY <3>1 DEF Blank
    <3> QED
      BY <1>i, <3>1, <3>2 DEF ReplayInv, FilesInv, CacheInv, PageInv, Alone, RequestOK, RunOK,
         FromTrace, filesVars
  <2>2. CASE answer.result = "run"
    <3>1. /\ page' = [shown |-> "run", run |-> answer.run] /\ page = Blank
          /\ request' = [c \in Clients |-> IF c \in DOMAIN answer.run.steps THEN Asks(c)
                                           ELSE request[c]]
          /\ UNCHANGED <<filesVars, cached, mutex>>
      BY <1>7, <2>2 DEF RunLoaded
    <3>2. RunOK(answer.run)
      BY <1>i, <1>7, <2>0, <2>2 DEF RunLoaded, CacheInv, RequestOK
    <3>3. DOMAIN answer.run.steps \subseteq StepClients /\ StepClients \subseteq Clients
      BY <1>i, <3>2, StepsHaveClients
    <3>4. /\ FilesInv'
          /\ \A x : RunOK(x) => RunOK(x)'
          /\ \A x : RequestOK(x) => RequestOK(x)'
      <4>1. FilesInv'
        BY <1>i, <3>1 DEF FilesInv, filesVars
      <4>2. \A x : RunOK(x) => RunOK(x)'
        BY <3>1 DEF RunOK, FromTrace, filesVars
      <4>3. \A x : RequestOK(x) => RequestOK(x)'
        BY <3>1, <4>2 DEF RequestOK, FromTrace, filesVars
      <4> QED
        BY <4>1, <4>2, <4>3
    <3>5. \A i \in DOMAIN answer.run.steps :
            /\ i \in Clients /\ request'[i] = Asks(i) /\ RequestOK(Asks(i))
            /\ Asks(i).pc = "stat" /\ Asks(i).index = i /\ request[i].pc = "idle"
      BY <1>i, <3>1, <3>3, AsksOK DEF PageInv, StepClients
    <3>6. \A d \in Clients : /\ RequestOK(request[d])'
                             /\ request'[d].pc \in Parsing <=> request[d].pc \in Parsing
      <4> SUFFICES ASSUME NEW d \in Clients
                   PROVE  /\ RequestOK(request[d])'
                          /\ request'[d].pc \in Parsing <=> request[d].pc \in Parsing
        OBVIOUS
      <4>1. CASE d \in DOMAIN answer.run.steps
        BY <3>4, <3>5, <4>1 DEF Parsing
      <4>2. CASE d \notin DOMAIN answer.run.steps
        <5>1. request'[d] = request[d]
          BY <3>1, <4>2
        <5>2. RequestOK(request'[d])
          BY <1>i, <5>1 DEF CacheInv
        <5> QED
          BY <3>4, <5>1, <5>2
      <4> QED
        BY <4>1, <4>2
    <3>7. CacheInv'
      BY <1>i, <3>1, <3>4, <3>6 DEF CacheInv, Alone
    <3>8. PageInv'
      <4>1. page'.shown = "run" /\ page'.run = answer.run /\ page' # Blank
        BY <3>1 DEF Blank
      <4>2. RunOK(page.run)'
        BY <3>2, <3>4, <4>1
      <4>3. \A i \in DOMAIN page'.run.steps :
              request'[i].index = i /\ request'[i].pc \notin {"idle", "list", "tally"}
        BY <3>5, <4>1
      <4> QED
        BY <4>1, <4>2, <4>3 DEF PageInv
    <3> QED
      BY <3>4, <3>7, <3>8 DEF ReplayInv
  <2> QED
    BY <2>1, <2>2
<1>8. CASE HistoryLoaded
  <2> DEFINE steps == [ i \in DOMAIN page.run.steps |->
                          IF request[i].result = "step" THEN request[i].line ELSE NoStep ]
  <2>1. /\ page' = [ shown |-> "history", run |-> page.run, steps |-> steps,
                     violations |-> ShownOn(steps) ]
        /\ page.shown = "run" /\ UNCHANGED <<filesVars, cacheVars>>
        /\ \A i \in DOMAIN page.run.steps : request[i].pc = "answered"
    BY <1>8 DEF HistoryLoaded
  <2>2. RunOK(page.run) /\ DOMAIN page.run.steps \subseteq Clients
    BY <1>i, <2>1, StepsHaveClients DEF PageInv
  <2>3. \A i \in DOMAIN steps : steps[i] \in {NoStep, page.run.steps[i]}
    <3> SUFFICES ASSUME NEW i \in DOMAIN page.run.steps, request[i].result = "step"
                 PROVE  request[i].line = page.run.steps[i]
      OBVIOUS
    <3>1. RequestOK(request[i]) /\ request[i].pc = "answered" /\ request[i].index = i
      BY <1>i, <2>1, <2>2 DEF CacheInv, PageInv
    <3> QED
      BY <2>2, <3>1 DEF RequestOK, RunOK, FromTrace
  <2> HIDE DEF steps
  <2>4. FilesInv' /\ CacheInv'
    BY <1>i, <2>1 DEF FilesInv, CacheInv, Alone, RequestOK, RunOK, FromTrace, filesVars, cacheVars
  <2>5. /\ page'.shown = "history" /\ page'.run = page.run /\ page'.steps = steps
        /\ page'.violations = ShownOn(steps) /\ page' # Blank
    BY <2>1 DEF Blank
  <2>6. RunOK(page.run)'
    BY <2>1, <2>2, <2>5 DEF RunOK, FromTrace, filesVars
  <2>7. DOMAIN steps = DOMAIN page.run.steps /\ steps = [i \in DOMAIN steps |-> steps[i]]
    BY DEF steps
  <2>8. ShownOn(page.steps)' = ShownOn(steps)
    BY <2>5 DEF ShownOn, MovesToCause
  <2>9. PageInv'
    BY <2>3, <2>5, <2>6, <2>7, <2>8 DEF PageInv
  <2> QED
    BY <2>4, <2>9 DEF ReplayInv
<1> QED
  BY <1>1, <1>2, <1>3, <1>5, <1>6, <1>7, <1>8 DEF Next, Detail, List, vars

----------------------------------------------------------------------------
(* The watcher.                                                            *)

\* A channel is closed when the watcher is done, and it sends nothing from then on.
WatcherInv ==
  /\ channel \in [Viewers -> [held : 0..Capacity, closed : BOOLEAN]]
  /\ targets \subseteq Viewers /\ subscribed \subseteq Viewers
  /\ \A v \in Viewers : channel[v].closed => watching = "done"
  /\ NoPanic

LEMMA WatcherInitial == WatcherInit => WatcherInv
  BY CapacityAssumption DEF WatcherInit, WatcherInv, NoPanic

LEMMA WatcherStep == WatcherInv /\ [WatcherNext]_watcherVars => WatcherInv'
<1> SUFFICES ASSUME WatcherInv, [WatcherNext]_watcherVars PROVE WatcherInv'
  OBVIOUS
<1> USE CapacityAssumption DEF WatcherInv, NoPanic
<1>1. CASE DirectoryChanges \/ Cancel \/ UNCHANGED watcherVars
  BY <1>1 DEF DirectoryChanges, Cancel, watcherVars
<1>2. CASE WatchStarts \/ StopWaiting \/ ReadEvent \/ TimerFires \/ BroadcastEnds
  BY <1>2 DEF WatchStarts, StopWaiting, ReadEvent, TimerFires, BroadcastEnds
<1>3. ASSUME NEW v \in Viewers, Send(v) PROVE WatcherInv'
  <2>1. /\ watching = "sending" /\ ~channel[v].closed /\ watching' = watching
        /\ targets' = targets \ {v} /\ subscribed' = subscribed
    BY <1>3 DEF Send
  <2>3. ~panicked'
    BY <1>3, <2>1 DEF Send
  <2>2. /\ channel' \in [Viewers -> [held : 0..Capacity, closed : BOOLEAN]]
        /\ \A any \in Viewers : channel'[any].closed = channel[any].closed
    BY <1>3 DEF Send
  <2> QED
    BY <2>1, <2>2, <2>3
<1>4. CASE Shutdown
  <2>1. \A v \in Viewers : channel'[v] \in {channel[v], [channel[v] EXCEPT !.closed = TRUE]}
    BY <1>4 DEF Shutdown
  <2>2. DOMAIN channel' = Viewers /\ channel' = [v \in Viewers |-> channel'[v]]
    BY <1>4 DEF Shutdown
  <2>3. channel' \in [Viewers -> [held : 0..Capacity, closed : BOOLEAN]]
    <3>1. \A v \in Viewers : [channel[v] EXCEPT !.closed = TRUE] \in
                                [held : 0..Capacity, closed : BOOLEAN]
      OBVIOUS
    <3>2. \A v \in Viewers : channel'[v] \in [held : 0..Capacity, closed : BOOLEAN]
      BY <2>1, <3>1
    <3> QED
      BY <2>2, <3>2
  <2> QED
    BY <1>4, <2>3 DEF Shutdown
<1>5. ASSUME NEW v \in Viewers, Subscribe(v) PROVE WatcherInv'
  BY <1>5 DEF Subscribe, ClosedAfterShutdown
<1>6. ASSUME NEW v \in Viewers, Deliver(v) PROVE WatcherInv'
  BY <1>6 DEF Deliver
<1>7. ASSUME NEW v \in Viewers, ChannelClosed(v) \/ Leave(v) PROVE WatcherInv'
  <2>1. EndStream(v)
    BY <1>7 DEF ChannelClosed, Leave
  <2>2. /\ channel' \in [Viewers -> [held : 0..Capacity, closed : BOOLEAN]]
        /\ \A any \in Viewers : channel'[any].closed = channel[any].closed
    BY <2>1 DEF EndStream, LeavesOpen
  <2> QED
    BY <2>1, <2>2 DEF EndStream
<1>8. ASSUME NEW v \in Viewers, OpenStream(v) \/ ListRuns(v) PROVE WatcherInv'
  BY <1>8 DEF OpenStream, ListRuns
<1> QED
  BY <1>1, <1>2, <1>3, <1>4, <1>5, <1>6, <1>7, <1>8 DEF WatcherNext, Watch, View

----------------------------------------------------------------------------
(* The theorems.                                                           *)

THEOREM ReplayInvariant == Spec => [](ReplayInv /\ WatcherInv)
<1>1. Init => ReplayInv /\ WatcherInv
  BY ReplayInitial, WatcherInitial DEF Init
<1>2. [Next]_vars => [WatcherNext]_watcherVars
  BY DEF Next, Detail, List, vars
<1>3. ReplayInv /\ WatcherInv /\ [Next]_vars => ReplayInv' /\ WatcherInv'
  BY <1>2, ReplayStep, WatcherStep
<1> QED
  BY <1>1, <1>3, PTL DEF Spec

\* Every variable of the server and the page holds a value the code can give it, and the
\* one request that parses is the one that holds the mutex (runs_cache.go:31-53).
THEOREM ReplayTypes == Spec => []TypeOK
<1>1. ReplayInv /\ WatcherInv => TypeOK
  <2> SUFFICES ASSUME ReplayInv, WatcherInv PROVE TypeOK
    OBVIOUS
  <2>1. \A c \in Clients : request[c].pc \in Places
    BY DEF ReplayInv, CacheInv, RequestOK, RequestType
  <2>2. tail.state \in TailType
    BY DEF ReplayInv, FilesInv, TailType
  <2>3. cached = Absent \/ cached \in RunType
    BY DEF ReplayInv, CacheInv, RunOK
  <2>4. targets \subseteq Viewers /\ \A v \in Viewers : channel[v].held \in 0..Capacity
    BY DEF WatcherInv
  <2> QED
    BY <2>1, <2>2, <2>3, <2>4 DEF ReplayInv, FilesInv, CacheInv, Alone, PageInv, Places, TypeOK
<1> QED
  BY <1>1, ReplayInvariant, PTL

\* A run that is handed out lacks, of the lines that were complete when it was asked for,
\* only such as were stamped no later than it was read; one that ended lacks none
\* (runs_cache.go:42-51, 55-76, 87-118, runs.go:103-113).
THEOREM NothingElseIsMissing == Spec => []MissesOnlyUnfinishedLines
<1>1. ReplayInv => MissesOnlyUnfinishedLines
  BY DEF ReplayInv, CacheInv, RequestOK, RunOK, MissesOnlyUnfinishedLines, EndedMeansComplete
<1> QED
  BY <1>1, ReplayInvariant, PTL

\* No step of anybody replaces the cached run by one with fewer steps: a client that was
\* told of a step finds it (runs_cache.go:44-53).
THEOREM CacheGrows == Spec => CacheOnlyGrows
<1>1. ReplayInv /\ [Next]_vars =>
        [cached # Absent => Len(cached'.steps) >= Len(cached.steps)]_<<filesVars, cacheVars>>
  <2> SUFFICES ASSUME ReplayInv, [Next]_vars, cached # Absent
               PROVE  Len(cached'.steps) >= Len(cached.steps)
    OBVIOUS
  <2>1. Len(cached.steps) \in Nat
    BY DEF ReplayInv, CacheInv, RunOK, RunType
  <2>2. CASE cached' = cached
    BY <2>1, <2>2
  <2>3. CASE \E c \in Clients : Store(c)
    <3>1. PICK c \in Clients : Store(c)
      BY <2>3
    <3>2. RequestOK(request[c]) /\ request[c].pc = "store"
      BY <3>1 DEF ReplayInv, CacheInv, Store
    <3>3. Len(cached.steps) <= Len(request[c].steps) /\ request[c].steps \in Seq(LineType)
      BY <3>2 DEF RequestOK, RequestType
    <3>4. cached'.steps = request[c].steps
      BY <3>1 DEF Store, Parsed
    <3> QED
      BY <2>1, <3>3, <3>4
  <2> QED
    BY <2>2, <2>3 DEF Next, Detail, List, vars, cacheVars, Serve, StatFirst, Hit, Miss, ReadMeta,
       StatOpened, ReadLines, SummarizeMeta, TallyTrace, Mount, Ask, RunLoaded, HistoryLoaded,
       OtherTabAsks, AskList
<1> QED
  BY <1>1, ReplayInvariant, PTL DEF Spec, CacheOnlyGrows

\* The page shows violations on the steps the server marked, once all steps have arrived
\* (run-history.ts:17-64, runs_decode.go:141-165).
THEOREM MarkersOnTheSameSteps == Spec => []MarkersAgree
<1>1. ReplayInv => MarkersAgree
  <2> SUFFICES ASSUME ReplayInv, page.shown = "history",
                      \A i \in DOMAIN page.steps : page.steps[i] # NoStep
               PROVE  { i \in DOMAIN page.steps : page.violations[i] # {} } = page.run.marked
    BY DEF MarkersAgree
  <2> DEFINE ls == page.run.steps
  <2>1. /\ RunOK(page.run) /\ ls \in Seq(LineType) /\ page.run.marked = MarkViolations(ls)
        /\ page.violations = ShownOn(page.steps)
    BY DEF ReplayInv, PageInv, RunOK, RunType
  <2>2. page.steps = ls
    <3>1. /\ DOMAIN page.steps = DOMAIN ls
          /\ page.steps = [i \in DOMAIN ls |-> page.steps[i]]
          /\ \A i \in DOMAIN ls : page.steps[i] = ls[i]
      BY DEF ReplayInv, PageInv
    <3>2. ls = [i \in DOMAIN ls |-> ls[i]]
      BY <2>1
    <3> HIDE DEF ls
    <3> QED
      BY <3>1, <3>2
  <2>3. \A i \in DOMAIN ls : DOMAIN ls[i].blames \subseteq Names
    <3>1. \A line \in LineType : DOMAIN line.blames \subseteq Names
      BY DEF LineType
    <3> HIDE DEF ls
    <3> QED
      BY <2>1, <3>1
  <2>4. \A i \in DOMAIN ls : \A name \in DOMAIN ls[i].blames :
          MovesToCause(ls, i, name) = BlamedStep(ls, i, name)
    BY <2>2 DEF MovesToCause, BlamedStep
  <2> HIDE DEF ls
  <2>5. \A j \in DOMAIN ls : j \in MarkViolations(ls) <=> page.violations[j] # {}
    BY <2>1, <2>2, <2>3, <2>4 DEF ShownOn, MarkViolations
  <2>6. MarkViolations(ls) \subseteq DOMAIN ls
    BY DEF MarkViolations, BlamedStep
  <2> QED
    BY <2>1, <2>2, <2>5, <2>6
<1> QED
  BY <1>1, ReplayInvariant, PTL

\* No interleaving of a broadcast, tabs that come and leave and the shutdown sends on a
\* closed channel or closes one twice (watcher.go:43-60, 110-130).
THEOREM WatcherDoesNotPanic == Spec => []NoPanic
<1>1. WatcherInv => NoPanic
  BY DEF WatcherInv
<1> QED
  BY <1>1, ReplayInvariant, PTL
=============================================================================
