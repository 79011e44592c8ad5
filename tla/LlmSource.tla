------------------------------ MODULE LlmSource ------------------------------
(***************************************************************************)
(* A run whose actions a vision model picks (--generator llm): llmSource   *)
(* of internal/runner/llm_source.go, between the snapshots the step loop   *)
(* gives the verifier and the line it writes.                              *)
(*                                                                         *)
(* Each asked step leaves one record in llm-calls.jsonl beside its line in *)
(* trace.jsonl, and the model is told which actions came before and the    *)
(* screen each led to.  The model answers as it likes: late, not at all,   *)
(* with a number off the list or an echo of another line.  Prompts, labels *)
(* and images are left out but for the step an image was taken at.         *)
(***************************************************************************)
EXTENDS Candidates

CONSTANTS
  Trees,        \* the action trees a spec may declare
  Displays,     \* the sets of controls a step may find on the screen
  Routes,       \* what a web page's root may carry as its screen
  MemorySize,   \* llmHistorySize
  MaxAsks       \* bound: steps of the run

NoLabel == ""   \* a screen the driver put no name on
None == 0       \* no step, no screenshot, no choice

ASSUME TreesAssumption == Trees \subseteq Nodes
ASSUME MemoryAssumption == MemorySize \in Nat \ {0} /\ MaxAsks \in Nat
ASSUME RoutesAssumption == NoLabel \notin Routes

VARIABLES
  declared,  \* what the run was started with: the spec's tree, and the platform
  snapshot,  \* the verifier's last*: the step, its screenshot's step, label and controls
  source,    \* llmSource's last*: the producer and the number
  memory,    \* actionHistory
  llmCall,   \* the record this step has appended
  turn,      \* the step loop: its place, the step and the action in hand
  line,      \* the line this step has written
  labels     \* history: the label each step's snapshot carried, for judged steps

selectVars == <<declared, snapshot, source, memory, llmCall, turn, line, labels>>

NoSource == [by |-> "", choice |-> None]
NoCall == [step |-> None, outcome |-> "", screenshot |-> None, image |-> None,
           candidates |-> <<>>, choice |-> None]
NoLine == [step |-> None, by |-> "", action |-> Wait, choice |-> None, dispatched |-> FALSE]

SelectInit ==
  /\ declared \in [tree : Trees, native : BOOLEAN]
  /\ snapshot = [step |-> None, image |-> None, label |-> NoLabel, screen |-> {}]
  /\ source = NoSource
  /\ memory = <<>>
  /\ llmCall = NoCall
  /\ turn = [pc |-> "observe", step |-> 0, by |-> "", action |-> Wait]
  /\ line = NoLine
  /\ labels = <<>>

----------------------------------------------------------------------------
(* The step loop around the source.                                        *)

\* A step whose tree cannot be vouched for: no snapshot, no question.
HoldsStep ==
  /\ turn.pc = "observe" /\ turn.step < MaxAsks
  /\ turn' = [turn EXCEPT !.step = @ + 1]
  /\ line' = [NoLine EXCEPT !.step = turn.step + 1]
  /\ llmCall' = NoCall
  /\ labels' = Append(labels, NoLabel)
  /\ UNCHANGED <<declared, snapshot, source, memory>>

\* PushSnapshot: what the step read replaces what the last one left, an image
\* that was not taken included.  Only the web driver names the screen.
PushesSnapshot ==
  /\ turn.pc = "observe" /\ turn.step < MaxAsks
  /\ turn' = [turn EXCEPT !.pc = "ask", !.step = @ + 1]
  /\ \E image \in {None, turn.step + 1}, screen \in Displays,
        label \in IF declared.native THEN {NoLabel} ELSE Routes :
       /\ snapshot' = [step |-> turn.step + 1, image |-> image, label |-> label,
                       screen |-> screen]
       /\ labels' = Append(labels, label)
  /\ llmCall' = NoCall /\ line' = NoLine
  /\ UNCHANGED <<declared, source, memory>>

\* stampActionSource: a model's pick is named by the source, any other action
\* by what its generator wrote.
Stamped ==
  [ step |-> turn.step, action |-> turn.action, choice |-> source.choice,
    by |-> IF source.by # "" THEN source.by ELSE turn.by, dispatched |-> FALSE ]

\* The action is dispatched, or the app has left, or it reaches nothing.
AppliesAction ==
  /\ turn.pc = "apply"
  /\ \E dispatched \in BOOLEAN : line' = [Stamped EXCEPT !.dispatched = dispatched]
  /\ turn' = [turn EXCEPT !.pc = "observe"]
  /\ UNCHANGED <<declared, snapshot, source, memory, llmCall, labels>>

----------------------------------------------------------------------------
(* NextAction.                                                             *)

\* Mutant of CompleteLast: a screen already filled in is overwritten.
CompleteAlways(entries) ==
  IF entries # <<>> THEN [entries EXCEPT ![Len(entries)].label = snapshot.label] ELSE entries

\* completeLast: the screen an action led to is the first one seen after it.
CompleteLast(entries) ==
  IF entries # <<>> /\ entries[Len(entries)].label = NoLabel
  THEN [entries EXCEPT ![Len(entries)].label = snapshot.label]
  ELSE entries

\* add: append, then keep the last MemorySize.
Remembered(entries) ==
  LET longer == Append(entries, [at |-> turn.step, label |-> NoLabel])
  IN SubSeq(longer, Len(longer) - Min({MemorySize, Len(longer)}) + 1, Len(longer))

\* Mutant of Asked: the last pick's name stays on the source.
AskedAgain ==
  /\ turn.pc = "ask"
  /\ source' = source

\* What NextAction does first, whatever follows.
Asked ==
  /\ turn.pc = "ask"
  /\ source' = NoSource

Recorded(outcome) == [NoCall EXCEPT !.step = turn.step, !.outcome = outcome]

InHand(by, action) == [turn EXCEPT !.pc = "apply", !.by = by, !.action = action]

\* The step ends without an action, and its line says so.
Declines ==
  /\ turn' = [turn EXCEPT !.pc = "observe"]
  /\ line' = [NoLine EXCEPT !.step = turn.step]

\* setup yields: the model is not consulted.
SetupActs ==
  /\ Asked
  /\ llmCall' = Recorded("setup_action")
  /\ memory' = Remembered(CompleteLast(memory))
  /\ turn' = InHand("setup", Wait)
  /\ UNCHANGED <<declared, snapshot, line, labels>>

\* setup throws, or the tree cannot be enumerated: the run ends.
RunAborts ==
  /\ Asked
  /\ \/ llmCall' = Recorded("setup_failed")
     \/ /\ Refuses(declared.tree, snapshot.screen)
        /\ llmCall' = Recorded("candidates_failed")
  /\ memory' = CompleteLast(memory)
  /\ turn' = [turn EXCEPT !.pc = "aborted"]
  /\ UNCHANGED <<declared, snapshot, line, labels>>

NothingToOffer ==
  /\ Asked
  /\ ~Refuses(declared.tree, snapshot.screen)
  /\ Offered(declared.tree, snapshot.screen) = <<>>
  /\ llmCall' = Recorded("no_candidates")
  /\ memory' = CompleteLast(memory)
  /\ Declines
  /\ UNCHANGED <<declared, snapshot, labels>>

\* buildRequest: the list, and the last snapshot's image under its step.
AsksModel ==
  /\ Asked
  /\ ~Refuses(declared.tree, snapshot.screen)
  /\ LET candidates == Offered(declared.tree, snapshot.screen)
     IN /\ candidates # <<>>
        /\ llmCall' = [Recorded("") EXCEPT
                      !.candidates = candidates, !.image = snapshot.image,
                      !.screenshot = IF snapshot.image = None THEN None ELSE snapshot.step]
  /\ memory' = CompleteLast(memory)
  /\ turn' = [turn EXCEPT !.pc = "answer"]
  /\ UNCHANGED <<declared, snapshot, line, labels>>

----------------------------------------------------------------------------
(* selectViaLLM, from the answer on.                                       *)

\* The request fails, holds no choice, or is not what was asked for.
NoUsableAnswer ==
  /\ turn.pc = "answer"
  /\ \E outcome \in {"request_failed", "no_choices", "unparsable_response"} :
       llmCall' = [llmCall EXCEPT !.outcome = outcome]
  /\ Declines
  /\ UNCHANGED <<declared, snapshot, source, memory, labels>>

\* actionForCandidate: the text of builtin typing is the model's or, when it
\* wrote none, a sample; an authored action runs as it stands.
ActionFor(candidate, text) ==
  IF candidate.llmText THEN [candidate.action EXCEPT !.detail = text] ELSE candidate.action

NoSampler(candidate) == candidate.llmText

Outcome(candidates, choice, echo) ==
  CASE choice < 1 \/ choice > Len(candidates) -> "choice_out_of_range"
    [] choice \in 1..Len(candidates) /\ echo # candidates[choice].description -> "echo_mismatch"
    [] OTHER -> "selected"

\* A number that leads to no action: the record keeps it.
PickDiscarded ==
  /\ turn.pc = "answer"
  /\ \E choice \in 0..Len(llmCall.candidates) + 1, i \in DOMAIN llmCall.candidates :
       LET outcome == Outcome(llmCall.candidates, choice, llmCall.candidates[i].description)
       IN \/ /\ outcome # "selected"
             /\ llmCall' = [llmCall EXCEPT !.choice = choice, !.outcome = outcome]
          \/ /\ outcome = "selected" /\ NoSampler(llmCall.candidates[choice])
             /\ llmCall' = [llmCall EXCEPT !.choice = choice, !.outcome = "action_build_failed"]
  /\ Declines
  /\ UNCHANGED <<declared, snapshot, source, memory, labels>>

PickSelected ==
  /\ turn.pc = "answer"
  /\ \E choice \in 1..Len(llmCall.candidates), i \in DOMAIN llmCall.candidates :
       /\ Outcome(llmCall.candidates, choice, llmCall.candidates[i].description) = "selected"
       /\ llmCall' = [llmCall EXCEPT !.choice = choice, !.outcome = "selected"]
       /\ source' = [by |-> "llm", choice |-> choice]
       /\ turn' = InHand("", ActionFor(llmCall.candidates[choice], "typed"))
  /\ memory' = Remembered(memory)
  /\ UNCHANGED <<declared, snapshot, line, labels>>

SelectNext ==
  \/ HoldsStep \/ PushesSnapshot \/ AppliesAction
  \/ SetupActs \/ RunAborts \/ NothingToOffer \/ AsksModel
  \/ NoUsableAnswer \/ PickDiscarded \/ PickSelected

SelectSpec == SelectInit /\ [][SelectNext]_selectVars

----------------------------------------------------------------------------
(* Properties.                                                             *)

SelectTypeOK ==
  /\ declared \in [tree : Trees, native : BOOLEAN]
  /\ turn.pc \in {"observe", "ask", "answer", "apply", "aborted"}
  /\ turn.step \in 0..MaxAsks /\ Len(labels) = turn.step
  /\ source.by \in {"", "llm"} /\ (source.by = "llm" <=> source.choice # None)
  /\ Len(memory) <= MemorySize

\* A step's record tells what its line shows: exactly the steps the source was
\* asked on have a record of their own, a line names the model where, and only
\* where, the record of that step says a candidate was selected, and then its
\* action is the numbered one; and an image the record names is the one the
\* call carried, taken at that very step.
RecordTellsTheStep ==
  turn.pc = "observe" /\ line.step # None =>
    LET own == llmCall.step = line.step
    IN /\ line.by = "llm" <=> own /\ llmCall.outcome = "selected"
       /\ line.by = "setup" <=> own /\ llmCall.outcome = "setup_action"
       /\ line.by = "llm" =>
            /\ line.choice = llmCall.choice
            /\ line.action = ActionFor(llmCall.candidates[llmCall.choice], "typed")
       /\ own <=> snapshot.step = line.step
       /\ llmCall.screenshot # None =>
            llmCall.screenshot = llmCall.step /\ llmCall.image = llmCall.step

\* The first label a step after this one carried.
LedTo(at) ==
  LET after == {s \in at + 1..Len(labels) : labels[s] # NoLabel}
  IN IF after = {} THEN NoLabel ELSE labels[Min(after)]

\* The model is told the truth about its past: on the web every remembered
\* action but the last carries the screen that was judged first after it, the
\* last one too once a later step was asked, and what is remembered is the
\* latest of what was chosen, in order.
MemoryTellsTheScreens ==
  /\ \A i \in DOMAIN memory :
       /\ memory[i].label # NoLabel => memory[i].label = LedTo(memory[i].at)
       /\ i < Len(memory) => /\ memory[i].at < memory[i + 1].at
                             /\ ~declared.native => memory[i].label # NoLabel
  /\ turn.pc = "answer" /\ ~declared.native => \A i \in DOMAIN memory : memory[i].label # NoLabel
  /\ line.by # "" => memory # <<>> /\ memory[Len(memory)].at >= line.step

\* Both policies explore one space: on every screen the model can pick each
\* action the seeded picker could draw there, by a number of its own, and
\* nothing but what the spec's leaves yield there (a branch of weight zero is
\* offered too, and drawn never).
PoliciesShareOneSpace ==
  turn.pc = "answer" =>
    LET offered == {Identity(llmCall.candidates[i]) : i \in DOMAIN llmCall.candidates}
    IN /\ Drawable(declared.tree, snapshot.screen) \subseteq offered
       /\ offered \subseteq UNION {Drawable(leaf, snapshot.screen) : leaf \in Leaves(declared.tree)}
       /\ Len(llmCall.candidates) = Cardinality(offered)
=============================================================================
