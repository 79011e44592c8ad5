----------------------------- MODULE ScreenProofs -----------------------------
(***************************************************************************)
(* Proofs about what a step does to a screen and reads of it.  The text it *)
(* types: on Android (AndroidInput) where it lands, what it replaces and   *)
(* what BACK is pressed at; on the iOS simulator (SimulatorInput) that a   *)
(* success leaves that text and nothing else.  The tree it gives the       *)
(* verifier (Settle): it is of a screen at rest, or one of the three       *)
(* excuses is on record, for any number of cross-fades and of changes of   *)
(* the layout, whenever they start.                                        *)
(***************************************************************************)
EXTENDS AndroidInput, SimulatorInput, Settle, TLAPS

(***************************************************************************)
(* AndroidInput.                                                           *)
(***************************************************************************)

\* The places of a step up to the first piece, those where the tree it acts on has been
\* read, and those after the focus tap.
TreeReads == {"tree", "dismiss", "reread"}
Tapping == {"confirm", "focused", "erase", "readback", "owner"}
Preparing == TreeReads \cup Tapping \cup {"choose", "act"}
CallPlaces == Preparing \cup {"top", "type", "check", "probe", "back", "settle"}
ReadingFor(back) == call.pc \in TreeReads /\ call.back = back

InputCalls ==
  [ pc : CallPlaces, back : {"choose", "act", "focused"}, reads : 0..3, held : 0..MaxText,
    seen : Places, target : Places, count : 0..MaxText, fast : BOOLEAN,
    owner : {"app", "other"}, sent : 0..Chunks ]
CallTyped ==
  /\ call \in InputCalls
  /\ call.pc \in {"type", "check"} => call.sent < Chunks
ToldTyped ==
  told \in [ hid : BOOLEAN, moved : BOOLEAN, wrote : BOOLEAN, thefts : Nat, sprayed : Nat,
             misplaced : BOOLEAN, read : {"down", "up", "leaving"}, raised : BOOLEAN ]
DeviceTyped ==
  /\ front \in {"app", "other"} /\ keyboard \in {"down", "up", "leaving"} /\ focus \in Places
  /\ field \in [old : 0..MaxText, new : 0..Chunks]

\* Every piece another app received was sent after a reading that showed the app under
\* test in front, so a theft of its own lies between the two.
PiecesGuarded ==
  /\ call.pc # "top" /\ front = "other" => told.thefts > 0
  /\ call.pc \in Preparing => told.sprayed = 0 /\ ~told.misplaced
  /\ call.fast /\ call.owner = "app" =>
       /\ told.sprayed <= told.thefts
       /\ call.pc = "type" /\ front = "other" => told.sprayed < told.thefts

\* While nothing takes the foreground or moves the focus, the tree the step acts on shows
\* where the focus is, and past the focus check the field has it or nothing does, where the
\* selector names the field; so no piece lands in another field.
FocusFollowed ==
  /\ told.thefts = 0 /\ ~told.moved =>
       /\ call.pc \in {"choose", "act", "focused"} \/ ReadingFor("act") => call.seen = focus
       /\ call.pc = "confirm" => focus \in {"field", call.seen}
       /\ call.target = "field" /\ call.pc \in {"erase", "readback", "owner", "type", "check"}
            => focus # "other"
  /\ told.misplaced /\ told.thefts = 0 => told.moved \/ call.target # "field"

\* The erase has been sized.
Sized == call.pc \in Tapping \cup {"type", "check", "probe"} \/ ReadingFor("focused")

\* While nothing takes the foreground and the app leaves the field alone, it holds what the
\* tree showed until the erase, which leaves no more of it than its length fell short by if
\* the field has the focus; and then the field holds what was sent besides.
FieldFollowed ==
  /\ call.pc \in Preparing => field.new = 0
  /\ call.pc # "top" => field.new <= call.sent
  /\ call.target = "field" /\ Sized => call.count = call.held
  /\ told.thefts = 0 /\ ~told.wrote =>
       /\ \/ call.pc \in {"choose", "act", "confirm", "focused", "erase"}
          \/ ReadingFor("act") \/ ReadingFor("focused")
          => field.old = call.held
       /\ call.pc = "readback" => field.old \in {0, call.held}
       /\ focus = "field" /\ ~told.moved =>
            /\ call.pc \in {"owner", "type", "check", "probe"} => field.old <= Shortfall
            /\ call.pc \in {"type", "check", "probe"} => field.new = call.sent

\* A keyboard that was read or raised and is not up was put away by the app, or by the BACK
\* pressed at it.
KeyboardFollowed ==
  /\ call.pc = "dismiss" =>
       told.read = "leaving" \/ (told.read = "up" /\ (keyboard = "up" \/ told.hid))
  /\ call.pc \notin {"top", "settle"} /\ told.raised => keyboard = "up" \/ told.hid

InputInv ==
  /\ CallTyped /\ ToldTyped /\ DeviceTyped
  /\ PiecesGuarded /\ FocusFollowed /\ FieldFollowed /\ KeyboardFollowed

\* What the device shows the step is of its type.
LEMMA AnswerTyped ==
  ASSUME CallTyped, DeviceTyped
  PROVE  Answered(call) \in InputCalls /\ Answered(call).sent = call.sent
<1>1. TextInTree \in 0..MaxText /\ FocusInTree \in Places
  BY InputBounds DEF DeviceTyped, TextInTree, FocusInTree, Places
<1> QED BY <1>1 DEF CallTyped, InputCalls, Answered

\* The locals between two steps, and a history with nothing in it, are of theirs.
LEMMA NothingTyped == NoInput \in InputCalls /\ (StepEnds => CallTyped' /\ ToldTyped')
<1>1. 0 \in 0..MaxText /\ 0 \in 0..Chunks /\ 0 \in 0..3
  BY InputBounds
<1>2. NoInput \in InputCalls
  BY <1>1 DEF NoInput, InputCalls, CallPlaces, Places
<1>3. NoInput.pc = "top"
  BY DEF NoInput
<1>4. StepEnds => CallTyped'
  BY <1>2, <1>3 DEF StepEnds, CallTyped
<1>5. StepEnds => ToldTyped'
  BY DEF StepEnds, Undisturbed, ToldTyped
<1> QED BY <1>2, <1>4, <1>5

\* Every place there is.
LEMMA KnownPlaces ==
  \A pc \in {"top", "tree", "dismiss", "reread", "choose", "act", "confirm", "focused", "erase",
            "readback", "owner", "type", "check", "probe", "back", "settle"} : pc \in CallPlaces
  BY DEF CallPlaces, Preparing, TreeReads, Tapping

\* What a step counts and remembers stays in its bounds.
LEMMA InputTypesStep ==
  ASSUME CallTyped, ToldTyped, DeviceTyped, FieldFollowed, InputNext
  PROVE  CallTyped' /\ ToldTyped' /\ DeviceTyped'
<1> USE InputBounds, KnownPlaces DEF CallTyped, InputCalls, ToldTyped, DeviceTyped, Goes, PressesBack,
              Undisturbed, KeyboardDismissReads, ReadAgain
<1>1. CASE Stolen
  BY <1>1 DEF Stolen
<1>2. CASE GivenBack
  BY <1>2 DEF GivenBack
<1>3. CASE AppHidesKeyboard
  <2>1. /\ UNCHANGED <<front, focus, field, call>> /\ keyboard' = "leaving"
        /\ told' = [told EXCEPT !.hid = TRUE]
    BY <1>3 DEF AppHidesKeyboard
  <2>2. ToldTyped'
    BY <2>1
  <2> QED BY <2>1, <2>2
<1>4. CASE AppRaisesKeyboard
  <2>1. /\ UNCHANGED <<front, focus, field, call>> /\ keyboard' = "up"
        /\ told' = [told EXCEPT !.hid = FALSE]
    BY <1>4 DEF AppRaisesKeyboard
  <2>2. ToldTyped'
    BY <2>1
  <2> QED BY <2>1, <2>2
<1>5. CASE KeyboardGone
  BY <1>5 DEF KeyboardGone
<1>6. CASE FlagCatchesUp
  BY <1>6 DEF FlagCatchesUp
<1>7. CASE AppMovesFocus
  <2>1. ToldTyped'
    BY <1>7 DEF AppMovesFocus
  <2> QED BY <1>7, <2>1 DEF AppMovesFocus
<1>8. CASE AppWrites
  <2>1. field.old + 1 \in 0..MaxText
    BY <1>8 DEF AppWrites
  <2>2. field' = [old |-> field.old + 1, new |-> field.new]
    BY <1>8 DEF AppWrites
  <2>3. UNCHANGED <<front, keyboard, focus, call>> /\ told' = [told EXCEPT !.wrote = TRUE]
    BY <1>8 DEF AppWrites
  <2>4. field' \in [old : 0..MaxText, new : 0..Chunks]
    BY <2>1, <2>2
  <2>5. ToldTyped'
    BY <2>3
  <2> QED BY <2>3, <2>4, <2>5
<1>9. CASE StartInputStep
  <2> DEFINE total == field.old + field.new
             kept == IF total < MaxText THEN total ELSE MaxText
  <2>1. total \in Nat
    OBVIOUS
  <2> HIDE DEF total
  <2>2. kept \in 0..MaxText /\ 0 \in 0..Chunks /\ 0 \in 0..MaxText
    BY <2>1
  <2>3. field' = [old |-> kept, new |-> 0]
    BY <1>9 DEF StartInputStep, total
  <2> HIDE DEF kept
  <2>4. DeviceTyped'
    BY <1>9, <2>2, <2>3 DEF StartInputStep
  <2>5. CallTyped'
    <3>1. call' = [NoInput EXCEPT !.pc = "tree"] /\ call'.pc = "tree"
      BY <1>9 DEF StartInputStep, NoInput
    <3> QED BY <3>1, NothingTyped
  <2>6. ToldTyped'
    BY <1>9 DEF StartInputStep
  <2> QED BY <2>4, <2>5, <2>6
<1>10. CASE ReadTree
  <2>1. CASE keyboard = "down"
    <3>1. call' = [Answered(call) EXCEPT !.pc = call.back]
      BY <1>10, <2>1 DEF ReadTree
    <3>2. CallTyped'
      BY <3>1, AnswerTyped
    <3>3. ToldTyped'
      BY <1>10, <2>1 DEF ReadTree, Forgiven
    <3> QED BY <1>10, <3>2, <3>3 DEF ReadTree
  <2>2. CASE keyboard # "down"
    BY <1>10, <2>2 DEF ReadTree
  <2> QED BY <2>1, <2>2
<1>11. CASE Dismiss
  BY <1>11 DEF Dismiss
<1>12. CASE Reread
  <2> DEFINE done == keyboard = "down" \/ call.reads + 1 = 4
  <2>1. CASE done
    <3>1. call' = [Answered(call) EXCEPT !.reads = 0, !.pc = call.back]
      BY <1>12, <2>1 DEF Reread
    <3>2. call.back \in {"choose", "act", "focused"} /\ 0 \in 0..3
      OBVIOUS
    <3> HIDE DEF done
    <3>3. call' \in InputCalls
      BY <3>1, <3>2, AnswerTyped
    <3>4. call'.pc \notin {"type", "check"}
      BY <3>1, <3>2, AnswerTyped DEF InputCalls
    <3>5. ToldTyped'
      BY <1>12, <2>1 DEF Reread, Forgiven, done
    <3> QED BY <1>12, <3>3, <3>4, <3>5 DEF Reread
  <2>2. CASE ~done
    <3>1. call' = [call EXCEPT !.reads = call.reads + 1, !.pc = "reread"] /\ UNCHANGED told
      BY <1>12, <2>2 DEF Reread
    <3>2. call.reads + 1 \in 0..3
      BY <2>2
    <3>3. CallTyped'
      BY <3>1, <3>2
    <3> QED BY <1>12, <3>1, <3>3 DEF Reread
  <2> QED BY <2>1, <2>2
<1>13. CASE ReadOnceMore
  <2>1. PICK back \in {"choose", "act"} : call' = [call EXCEPT !.pc = "tree", !.back = back]
    BY <1>13 DEF ReadOnceMore
  <2>2. call' \in InputCalls
    BY <2>1
  <2>3. call'.pc = "tree"
    BY <2>1 DEF InputCalls
  <2> QED BY <1>13, <2>2, <2>3 DEF ReadOnceMore
<1>14. CASE ChoosesOther
  BY <1>14 DEF ChoosesOther
<1>15. CASE FocusTap
  <2>1. PICK target \in Places : \E count \in SizesOf(target) :
          call' = [call EXCEPT !.pc = "confirm", !.target = target, !.count = count]
    BY <1>15, Zenon DEF FocusTap
  <2>2. PICK count \in SizesOf(target) :
          call' = [call EXCEPT !.pc = "confirm", !.target = target, !.count = count]
    BY <2>1, Zenon
  <2>3. count \in 0..MaxText
    BY <2>2 DEF SizesOf, Places
  <2>4. CallTyped'
    BY <2>2, <2>3
  <2>5. ToldTyped'
    <3>1. \/ UNCHANGED told
          \/ told' = [told EXCEPT !.hid = FALSE, !.raised = TRUE]
      BY <1>15, Zenon DEF FocusTap
    <3> QED BY <3>1
  <2>6. DeviceTyped'
    BY <1>15 DEF FocusTap, Places
  <2> QED BY <2>4, <2>5, <2>6
<1>16. CASE ConfirmFocus
  <2>1. \/ call' = [call EXCEPT !.pc = "erase", !.seen = "nothing"]
        \/ call' = [call EXCEPT !.pc = "tree", !.back = "focused"]
    BY <1>16 DEF ConfirmFocus
  <2>2. CASE call' = [call EXCEPT !.pc = "erase", !.seen = "nothing"]
    <3>1. "nothing" \in Places
      BY DEF Places
    <3>2. call' \in InputCalls /\ call'.pc = "erase"
      BY <2>2, <3>1 DEF InputCalls
    <3> QED BY <1>16, <3>2 DEF ConfirmFocus
  <2>3. CASE call' = [call EXCEPT !.pc = "tree", !.back = "focused"]
    <3>1. call' \in InputCalls /\ call'.pc = "tree"
      BY <2>3 DEF InputCalls
    <3> QED BY <1>16, <3>1 DEF ConfirmFocus
  <2> QED BY <2>1, <2>2, <2>3
<1>17. CASE FocusRead
  <2>1. PICK target \in {call.target, "nothing"} :
          \/ StepEnds
          \/ call' = [call EXCEPT !.pc = "erase", !.target = target, !.seen = "nothing"]
             /\ UNCHANGED told
    BY <1>17 DEF FocusRead
  <2>2. CASE StepEnds
    BY <1>17, <2>2, NothingTyped DEF FocusRead
  <2>3. CASE /\ call' = [call EXCEPT !.pc = "erase", !.target = target, !.seen = "nothing"]
             /\ UNCHANGED told
    <3>1. target \in Places
      BY DEF Places, InputCalls
    <3>2. call' \in InputCalls
      BY <2>3, <3>1 DEF Places
    <3>3. call'.pc = "erase"
      BY <2>3 DEF InputCalls
    <3> QED BY <1>17, <2>3, <3>2, <3>3 DEF FocusRead
  <2> QED BY <2>1, <2>2, <2>3
<1>18. CASE ApplyFails
  BY <1>18, NothingTyped DEF ApplyFails
<1>19. CASE SelectAndDelete
  BY <1>19 DEF SelectAndDelete
<1>20. CASE ReadBack
  BY <1>20 DEF ReadBack
<1>21. CASE TypingOwner
  <2>1. PICK owner \in {"app", "other"}, fast \in BOOLEAN :
          call' = [call EXCEPT !.pc = "type", !.owner = owner, !.fast = fast, !.sent = 0]
    BY <1>21 DEF TypingOwner
  <2>2. 0 \in 0..Chunks /\ 0 < Chunks
    OBVIOUS
  <2>3. CallTyped'
    BY <2>1, <2>2
  <2> QED BY <1>21, <2>3 DEF TypingOwner
<1>22. CASE SendChunk
  <2> DEFINE more == call.sent + 1
             place == IF more = Chunks THEN "probe" ELSE IF call.fast THEN "check" ELSE "type"
  <2>1. call.sent \in Nat /\ call.sent < Chunks /\ field.new \in Nat /\ field.new <= call.sent
    BY <1>22 DEF SendChunk, FieldFollowed
  <2>2. more \in 0..Chunks /\ field.new + 1 \in 0..Chunks /\ (more = Chunks \/ more < Chunks)
    BY <2>1
  <2>3. call' = [call EXCEPT !.sent = more, !.pc = place]
    BY <1>22 DEF SendChunk
  <2> HIDE DEF more
  <2>4. CallTyped'
    BY <2>2, <2>3
  <2>5. DeviceTyped'
    <3>1. field' \in {field, [old |-> field.old, new |-> field.new + 1]}
      BY <1>22 DEF SendChunk
    <3> QED BY <1>22, <2>2, <3>1 DEF SendChunk
  <2>6. ToldTyped'
    <3> DEFINE n == IF front = "app" THEN told.sprayed ELSE told.sprayed + 1
               m == told.misplaced \/ KeysReach("other")
    <3>1. told' = [told EXCEPT !.sprayed = n, !.misplaced = m]
      BY <1>22 DEF SendChunk
    <3>2. n \in Nat /\ m \in BOOLEAN
      OBVIOUS
    <3> HIDE DEF n, m
    <3> QED BY <3>1, <3>2
  <2> QED BY <2>4, <2>5, <2>6
<1>23. CASE CheckForeground
  BY <1>23 DEF CheckForeground
<1>24. CASE ProbeKeyboard
  BY <1>24 DEF ProbeKeyboard
<1>25. CASE DismissTyped
  BY <1>25 DEF DismissTyped
<1>26. CASE SettleAfterInput
  BY <1>26, NothingTyped DEF SettleAfterInput
<1> QED BY <1>1, <1>2, <1>3, <1>4, <1>5, <1>6, <1>7, <1>8, <1>9, <1>10, <1>11, <1>12, <1>13,
           <1>14, <1>15, <1>16, <1>17, <1>18, <1>19, <1>20, <1>21, <1>22, <1>23, <1>24,
           <1>25, <1>26 DEF InputNext

\* What the actions do to the parts the invariant speaks of.  Those of the device, first.
LEMMA DeviceDoes ==
  ASSUME ToldTyped, DeviceTyped,
         \/ Stolen \/ GivenBack \/ AppHidesKeyboard \/ AppRaisesKeyboard
         \/ KeyboardGone \/ FlagCatchesUp \/ AppMovesFocus \/ AppWrites
  PROVE  /\ UNCHANGED <<call, field.new>>
         /\ UNCHANGED <<told.sprayed, told.misplaced, told.read, told.raised>>
         /\ \/ told'.thefts = told.thefts /\ (front' = "app" \/ front' = front)
            \/ told'.thefts = told.thefts + 1
         /\ told.thefts \in Nat /\ told.sprayed \in Nat
         /\ (focus' = focus /\ UNCHANGED told.moved) \/ told'.moved
         /\ (field' = field /\ UNCHANGED told.wrote) \/ told'.wrote
         /\ \/ keyboard' = keyboard /\ told'.hid = told.hid
            \/ keyboard' = "up"
            \/ told'.hid
            \/ keyboard # "up" /\ told'.hid = told.hid
<1> USE DEF ToldTyped, DeviceTyped
<1>1. CASE Stolen
  BY <1>1 DEF Stolen
<1>2. CASE GivenBack
  BY <1>2 DEF GivenBack
<1>3. CASE AppHidesKeyboard
  BY <1>3 DEF AppHidesKeyboard
<1>4. CASE AppRaisesKeyboard
  BY <1>4 DEF AppRaisesKeyboard
<1>5. CASE KeyboardGone
  BY <1>5 DEF KeyboardGone
<1>6. CASE FlagCatchesUp
  BY <1>6 DEF FlagCatchesUp
<1>7. CASE AppMovesFocus
  BY <1>7 DEF AppMovesFocus
<1>8. CASE AppWrites
  BY <1>8 DEF AppWrites
<1> QED BY <1>1, <1>2, <1>3, <1>4, <1>5, <1>6, <1>7, <1>8

\* A step starts, and one ends, with nothing on record.
LEMMA StartDoes ==
  ASSUME StartInputStep
  PROVE  /\ call'.pc = "tree" /\ call'.back = "choose" /\ field'.new = 0 /\ call'.sent = 0
         /\ front' = "app" /\ ~told'.moved /\ ~told'.misplaced /\ ~told'.raised
         /\ told'.thefts = 0 /\ told'.sprayed = 0
  BY DEF StartInputStep, NoInput, Undisturbed

LEMMA EndDoes ==
  ASSUME StepEnds
  PROVE  /\ call'.pc = "top" /\ call'.target = "field" /\ ~told'.misplaced
         /\ told'.thefts = 0 /\ told'.sprayed = 0
  BY DEF StepEnds, NoInput, Undisturbed

\* A read of the tree goes on to put a keyboard away, or answers.
LEMMA ReadsDo ==
  ASSUME CallTyped, ToldTyped, DeviceTyped, ReadTree \/ Reread
  PROVE  /\ call.pc \in {"tree", "reread"} /\ UNCHANGED <<front, keyboard, focus, field>>
         /\ UNCHANGED <<call.back, call.target, call.count, call.fast, call.owner, call.sent>>
         /\ UNCHANGED <<told.hid, told.wrote, told.thefts, told.sprayed, told.misplaced,
                        told.raised>>
         /\ call.back \in {"choose", "act", "focused"} /\ front \in {"app", "other"}
         /\ \/ /\ call'.pc \in {"dismiss", "reread"}
               /\ UNCHANGED <<call.held, call.seen, told.moved>>
               /\ call'.pc = "dismiss" => keyboard \in {"up", "leaving"} /\ told'.read = keyboard
            \/ /\ call'.pc = call.back /\ (told'.moved <=> told.moved /\ call.back = "act")
               /\ call'.held = IF call.back = "choose" THEN TextInTree ELSE call.held
               /\ call'.seen = IF call.back = "act" THEN call.seen ELSE FocusInTree
<1>1. call.back \in {"choose", "act", "focused"} /\ keyboard \in {"down", "up", "leaving"}
      /\ front \in {"app", "other"}
  BY DEF CallTyped, InputCalls, DeviceTyped
<1>2. ASSUME NEW reads, NEW pc, call' = [Answered(call) EXCEPT !.reads = reads, !.pc = pc]
      PROVE  /\ UNCHANGED <<call.back, call.target, call.count, call.fast, call.owner, call.sent>>
             /\ call'.pc = pc
             /\ call'.held = IF call.back = "choose" THEN TextInTree ELSE call.held
             /\ call'.seen = IF call.back = "act" THEN call.seen ELSE FocusInTree
  <2>1. call = [x \in {"pc", "back", "reads", "held", "seen", "target", "count", "fast",
                       "owner", "sent"} |-> call[x]]
    BY DEF CallTyped, InputCalls
  <2> QED BY <2>1, <1>2 DEF Answered
<1>3. CASE ReadTree
  <2>1. CASE keyboard = "down"
    <3>1. call' = [Answered(call) EXCEPT !.pc = call.back]
      BY <1>3, <2>1 DEF ReadTree
    <3> QED BY <1>1, <1>3, <2>1, <3>1 DEF ReadTree, CallTyped, InputCalls, ToldTyped, Forgiven, Answered
  <2>2. CASE keyboard # "down"
    BY <1>1, <1>3, <2>2 DEF ReadTree, CallTyped, InputCalls, ToldTyped
  <2> QED BY <2>1, <2>2
<1>4. CASE Reread
  <2>1. CASE UNCHANGED told /\ call' = [call EXCEPT !.reads = call.reads + 1, !.pc = ReadAgain]
    BY <1>1, <1>4, <2>1 DEF Reread, CallTyped, InputCalls, ReadAgain
  <2>2. CASE /\ call' = [Answered(call) EXCEPT !.reads = 0, !.pc = call.back]
             /\ told' = [told EXCEPT !.moved = Forgiven]
    <3>1. /\ UNCHANGED <<call.back, call.target, call.count, call.fast, call.owner, call.sent>>
          /\ call'.pc = call.back
          /\ call'.held = IF call.back = "choose" THEN TextInTree ELSE call.held
          /\ call'.seen = IF call.back = "act" THEN call.seen ELSE FocusInTree
      BY <1>2, <2>2
    <3>2. /\ UNCHANGED <<told.hid, told.wrote, told.thefts, told.sprayed, told.misplaced,
                         told.raised>>
          /\ (told'.moved <=> told.moved /\ call.back = "act")
      BY <2>2 DEF ToldTyped, Forgiven
    <3> QED BY <1>1, <1>4, <3>1, <3>2 DEF Reread
  <2> QED BY <1>4, <2>1, <2>2 DEF Reread
<1> QED BY <1>3, <1>4

\* The driver's own steps up to the first piece, and after the last one.
LEMMA DriverDoes ==
  ASSUME CallTyped, ToldTyped, DeviceTyped,
         ReadOnceMore \/ ChoosesOther \/ TypingOwner \/ CheckForeground \/ ProbeKeyboard
  PROVE  /\ UNCHANGED <<front, keyboard, focus, field, told>>
         /\ UNCHANGED <<call.held, call.seen, call.target, call.count>>
         /\ told.thefts \in Nat /\ front \in {"app", "other"}
         /\ \/ /\ call.pc = "choose" /\ call'.pc = "tree" /\ call'.back \in {"choose", "act"}
               /\ UNCHANGED <<call.fast, call.owner, call.sent>>
            \/ /\ call.pc \in {"choose", "act", "probe"} /\ call'.pc \in {"settle", "back"}
               /\ call.pc # "probe" => call'.pc = "settle"
               /\ UNCHANGED <<call.fast, call.owner, call.sent>>
            \/ /\ call.pc = "owner" /\ call'.pc = "type" /\ call'.sent = 0
               /\ call'.owner \in {front, "app"}
            \/ /\ call.pc = "check" /\ call'.pc \in {"type", "probe"}
               /\ call'.pc = "type" => front = call.owner
               /\ UNCHANGED <<call.fast, call.owner, call.sent>>
<1> USE DEF CallTyped, InputCalls, ToldTyped, DeviceTyped
<1>1. CASE ReadOnceMore
  BY <1>1 DEF ReadOnceMore
<1>2. CASE ChoosesOther
  BY <1>2 DEF ChoosesOther, Goes
<1>3. CASE TypingOwner
  BY <1>3 DEF TypingOwner
<1>4. CASE CheckForeground
  BY <1>4 DEF CheckForeground
<1>5. CASE ProbeKeyboard
  BY <1>5 DEF ProbeKeyboard
<1> QED BY <1>1, <1>2, <1>3, <1>4, <1>5

\* BACK, at a keyboard a tree showed or the flag does.
LEMMA BackDoes ==
  ASSUME CallTyped, ToldTyped, Dismiss \/ DismissTyped
  PROVE  /\ UNCHANGED <<front, focus, field>> /\ keyboard' # "up" /\ call'.pc # "dismiss"
         /\ UNCHANGED <<call.back, call.held, call.seen, call.target, call.count, call.fast,
                        call.owner, call.sent>>
         /\ UNCHANGED <<told.hid, told.moved, told.wrote, told.thefts, told.sprayed,
                        told.misplaced>>
         /\ \/ call.pc = "dismiss" /\ call'.pc = "reread" /\ ~told'.raised
            \/ call.pc = "back" /\ call'.pc = "settle"
<1> USE DEF CallTyped, InputCalls, ToldTyped, PressesBack, Goes
<1>1. CASE Dismiss
  BY <1>1 DEF Dismiss
<1>2. CASE DismissTyped
  BY <1>2 DEF DismissTyped
<1> QED BY <1>1, <1>2

\* The tap, and the focus check after it.
LEMMA TapDoes ==
  ASSUME CallTyped, ToldTyped, FocusTap
  PROVE  /\ call.pc \in {"choose", "act"} /\ call'.pc = "confirm" /\ UNCHANGED <<front, field>>
         /\ UNCHANGED <<call.held, call.seen, call.fast, call.owner, call.sent>>
         /\ call'.target = "field" => call'.count = call.held
         /\ UNCHANGED <<told.moved, told.wrote, told.thefts, told.sprayed, told.misplaced>>
         /\ focus' \in {"field", focus}
         /\ \/ UNCHANGED <<keyboard, told>>
            \/ keyboard' = "up"
<1>1. PICK target \in Places : \E count \in SizesOf(target) :
        call' = [call EXCEPT !.pc = "confirm", !.target = target, !.count = count]
  BY DEF FocusTap
<1>2. PICK count \in SizesOf(target) :
        call' = [call EXCEPT !.pc = "confirm", !.target = target, !.count = count]
  BY <1>1
<1>3. target = "field" => count = call.held
  BY <1>2 DEF SizesOf
<1>4. /\ UNCHANGED <<call.held, call.seen, call.fast, call.owner, call.sent>>
      /\ call'.pc = "confirm" /\ call'.target = target /\ call'.count = count
  BY <1>2 DEF CallTyped, InputCalls
<1> QED BY <1>3, <1>4 DEF FocusTap, ToldTyped

LEMMA ConfirmDoes ==
  ASSUME CallTyped, ToldTyped, ConfirmFocus \/ FocusRead
  PROVE  /\ UNCHANGED <<front, keyboard, focus, field>>
         /\ \/ /\ call.pc = "confirm" /\ call'.pc = "tree" /\ call'.back = "focused"
               /\ UNCHANGED <<told, call.held, call.target, call.count, call.fast, call.owner,
                              call.sent>>
            \/ /\ call.pc \in {"confirm", "focused"} /\ call'.pc = "erase"
               /\ UNCHANGED <<told, call.held, call.count, call.fast, call.owner, call.sent>>
               /\ call'.target = "field" => call.target = "field" /\
                    call.seen \in {"nothing", "field"}
            \/ StepEnds
<1> USE DEF CallTyped, InputCalls, OtherElementHoldsFocus
<1>1. CASE ConfirmFocus
  BY <1>1 DEF ConfirmFocus
<1>2. CASE FocusRead
  BY <1>2 DEF FocusRead
<1> QED BY <1>1, <1>2

\* The erase.
LEMMA EraseDoes ==
  ASSUME CallTyped, DeviceTyped, SelectAndDelete \/ ReadBack
  PROVE  /\ UNCHANGED <<front, keyboard, focus, told, field.new>>
         /\ field.old \in Nat /\ call.held \in Nat /\ call.count \in Nat
         /\ front \in {"app", "other"}
         /\ UNCHANGED <<call.back, call.held, call.seen, call.target, call.count, call.fast,
                        call.owner, call.sent>>
         /\ \/ /\ call.pc = "erase" /\ call'.pc = "owner" /\ call.count = 0 /\ UNCHANGED field
            \/ /\ call.pc = "erase" /\ call'.pc = "readback" /\ field'.old \in {0, field.old}
            \/ /\ call.pc = "readback" /\ call'.pc = "owner"
               /\ KeysReach("field") =>
                    field'.old = IF field.old > call.count THEN field.old - call.count ELSE 0
<1> USE DEF CallTyped, InputCalls, DeviceTyped
<1>1. CASE SelectAndDelete
  BY <1>1 DEF SelectAndDelete
<1>2. CASE ReadBack
  <2>1. PICK reading \in IF KeysReach("field") THEN {field.old, Null} ELSE 0..Null :
          IF ReadsEmpty(reading) \/ ~KeysReach("field") THEN UNCHANGED field
          ELSE field' = [field EXCEPT !.old = IF field.old > call.count
                                              THEN field.old - call.count ELSE 0]
    BY <1>2 DEF ReadBack
  <2>2. KeysReach("field") =>
          field'.old = IF field.old > call.count THEN field.old - call.count ELSE 0
    BY <2>1, InputBounds DEF ReadsEmpty, Null
  <2>3. UNCHANGED field.new
    BY <2>1
  <2> QED BY <1>2, <2>2, <2>3 DEF ReadBack
<1> QED BY <1>1, <1>2

\* A piece.
LEMMA SendDoes ==
  ASSUME CallTyped, ToldTyped, DeviceTyped, SendChunk
  PROVE  /\ UNCHANGED <<front, keyboard, focus, field.old>> /\ call.pc = "type"
         /\ UNCHANGED <<call.back, call.held, call.seen, call.target, call.count, call.fast,
                        call.owner>>
         /\ UNCHANGED <<told.hid, told.moved, told.wrote, told.thefts, told.raised>>
         /\ call.sent \in Nat /\ call'.sent = call.sent + 1 /\ field.new \in Nat
         /\ field'.new = IF KeysReach("field") THEN field.new + 1 ELSE field.new
         /\ told'.sprayed = IF front = "app" THEN told.sprayed ELSE told.sprayed + 1
         /\ told'.misplaced = (told.misplaced \/ KeysReach("other"))
         /\ told.sprayed \in Nat /\ told.thefts \in Nat /\ front \in {"app", "other"}
         /\ call'.pc \in {"probe", "check", "type"} /\ (call'.pc = "type" => ~call.fast)
<1>1. /\ call'.sent = call.sent + 1 /\ call.sent \in Nat
      /\ UNCHANGED <<call.back, call.held, call.seen, call.target, call.count, call.fast,
                     call.owner>>
      /\ call'.pc \in {"probe", "check", "type"} /\ (call'.pc = "type" => ~call.fast)
  BY DEF SendChunk, CallTyped, InputCalls
<1>2. /\ UNCHANGED <<told.hid, told.moved, told.wrote, told.thefts, told.raised>>
      /\ told'.sprayed = IF front = "app" THEN told.sprayed ELSE told.sprayed + 1
      /\ told'.misplaced = (told.misplaced \/ KeysReach("other"))
      /\ told.sprayed \in Nat /\ told.thefts \in Nat
  BY DEF SendChunk, ToldTyped
<1> QED BY <1>1, <1>2 DEF SendChunk, DeviceTyped

LEMMA SettleDoes ==
  ASSUME ApplyFails \/ SettleAfterInput
  PROVE  StepEnds /\ UNCHANGED <<front, focus, field>>
  BY DEF ApplyFails, SettleAfterInput

\* Every piece another app gets follows a theft of its own.
LEMMA PiecesStep ==
  ASSUME CallTyped, ToldTyped, DeviceTyped, PiecesGuarded, InputNext
  PROVE  PiecesGuarded'
<1> USE DEF PiecesGuarded, Preparing, TreeReads, Tapping
<1>1. CASE Stolen \/ GivenBack \/ AppHidesKeyboard \/ AppRaisesKeyboard \/ KeyboardGone \/
           FlagCatchesUp \/ AppMovesFocus \/ AppWrites
  BY <1>1, DeviceDoes
<1>2. CASE StartInputStep
  BY <1>2, StartDoes
<1>3. CASE ReadTree \/ Reread
  BY <1>3, ReadsDo
<1>4. CASE ReadOnceMore \/ ChoosesOther \/ TypingOwner \/ CheckForeground \/ ProbeKeyboard
  <2>1. CASE call.pc = "owner"
    BY <1>4, <2>1, DriverDoes
  <2>2. CASE call.pc = "check"
    BY <1>4, <2>2, DriverDoes
  <2>3. CASE call.pc \notin {"owner", "check"}
    BY <1>4, <2>3, DriverDoes
  <2> QED BY <1>4, <2>1, <2>2, <2>3, DriverDoes
<1>5. CASE Dismiss \/ DismissTyped
  BY <1>5, BackDoes
<1>6. CASE FocusTap
  BY <1>6, TapDoes
<1>7. CASE ConfirmFocus \/ FocusRead
  BY <1>7, ConfirmDoes, EndDoes
<1>8. CASE SelectAndDelete \/ ReadBack
  BY <1>8, EraseDoes
<1>9. CASE SendChunk
  <2>1. CASE front = "app"
    BY <1>9, <2>1, SendDoes
  <2>2. CASE front # "app"
    BY <1>9, <2>2, SendDoes
  <2> QED BY <1>9, <2>1, <2>2, SendDoes
<1>10. CASE ApplyFails \/ SettleAfterInput
  BY <1>10, SettleDoes, EndDoes
<1> QED BY <1>1, <1>2, <1>3, <1>4, <1>5, <1>6, <1>7, <1>8, <1>9, <1>10 DEF InputNext

\* Where the step last looked for the focus, it stays until the app moves it.
LEMMA FocusStep ==
  ASSUME CallTyped, ToldTyped, DeviceTyped, PiecesGuarded, FocusFollowed, InputNext
  PROVE  FocusFollowed'
<1> USE DEF FocusFollowed, PiecesGuarded, ReadingFor, Preparing, TreeReads, Tapping,
              FocusInTree, KeysReach
<1>1. CASE Stolen \/ GivenBack \/ AppHidesKeyboard \/ AppRaisesKeyboard \/ KeyboardGone \/
           FlagCatchesUp \/ AppMovesFocus \/ AppWrites
  BY <1>1, DeviceDoes
<1>2. CASE StartInputStep
  BY <1>2, StartDoes
<1>3. CASE ReadTree \/ Reread
  <2>1. CASE call'.pc \in {"dismiss", "reread"}
    BY <1>3, <2>1, ReadsDo
  <2>2. CASE call'.pc \notin {"dismiss", "reread"}
    BY <1>3, <2>2, ReadsDo
  <2> QED BY <1>3, <2>1, <2>2, ReadsDo
<1>4. CASE ReadOnceMore \/ ChoosesOther \/ TypingOwner \/ CheckForeground \/ ProbeKeyboard
  BY <1>4, DriverDoes
<1>5. CASE Dismiss \/ DismissTyped
  BY <1>5, BackDoes
<1>6. CASE FocusTap
  BY <1>6, TapDoes
<1>7. CASE ConfirmFocus \/ FocusRead
  BY <1>7, ConfirmDoes, EndDoes
<1>8. CASE SelectAndDelete \/ ReadBack
  BY <1>8, EraseDoes
<1>9. CASE SendChunk
  BY <1>9, SendDoes
<1>10. CASE ApplyFails \/ SettleAfterInput
  BY <1>10, SettleDoes, EndDoes
<1> QED BY <1>1, <1>2, <1>3, <1>4, <1>5, <1>6, <1>7, <1>8, <1>9, <1>10 DEF InputNext

\* What the field holds is what the tree showed, less the erase, and what was sent.
LEMMA FieldStep ==
  ASSUME CallTyped, ToldTyped, DeviceTyped, PiecesGuarded, FieldFollowed, InputNext
  PROVE  FieldFollowed'
<1> USE DEF FieldFollowed, PiecesGuarded, Sized, ReadingFor, Preparing, TreeReads, Tapping,
              Shortfall, TextInTree, KeysReach
<1>1. CASE Stolen \/ GivenBack \/ AppHidesKeyboard \/ AppRaisesKeyboard \/ KeyboardGone \/
           FlagCatchesUp \/ AppMovesFocus \/ AppWrites
  BY <1>1, DeviceDoes
<1>2. CASE StartInputStep
  BY <1>2, StartDoes
<1>3. CASE ReadTree \/ Reread
  <2>1. CASE call'.pc \in {"dismiss", "reread"}
    BY <1>3, <2>1, ReadsDo
  <2>2. CASE call'.pc \notin {"dismiss", "reread"}
    BY <1>3, <2>2, ReadsDo
  <2> QED BY <1>3, <2>1, <2>2, ReadsDo
<1>4. CASE ReadOnceMore \/ ChoosesOther \/ TypingOwner \/ CheckForeground \/ ProbeKeyboard
  BY <1>4, DriverDoes
<1>5. CASE Dismiss \/ DismissTyped
  BY <1>5, BackDoes
<1>6. CASE FocusTap
  BY <1>6, TapDoes
<1>7. CASE ConfirmFocus \/ FocusRead
  BY <1>7, ConfirmDoes, EndDoes
<1>8. CASE SelectAndDelete \/ ReadBack
  <2>1. CASE call.pc = "erase" /\ call'.pc = "owner"
    BY <1>8, <2>1, EraseDoes
  <2>2. CASE call.pc = "erase" /\ call'.pc = "readback"
    BY <1>8, <2>2, EraseDoes
  <2>3. CASE call.pc = "readback"
    BY <1>8, <2>3, EraseDoes
  <2> QED BY <1>8, <2>1, <2>2, <2>3, EraseDoes
<1>9. CASE SendChunk
  <2>1. CASE KeysReach("field")
    BY <1>9, <2>1, SendDoes
  <2>2. CASE ~KeysReach("field")
    BY <1>9, <2>2, SendDoes
  <2> QED BY <1>9, <2>1, <2>2, SendDoes
<1>10. CASE ApplyFails \/ SettleAfterInput
  BY <1>10, SettleDoes, EndDoes
<1> QED BY <1>1, <1>2, <1>3, <1>4, <1>5, <1>6, <1>7, <1>8, <1>9, <1>10 DEF InputNext

\* The keyboard a step presses BACK at is the one it read or raised.
LEMMA KeyboardStep ==
  ASSUME CallTyped, ToldTyped, DeviceTyped, KeyboardFollowed, InputNext
  PROVE  KeyboardFollowed'
<1> USE DEF KeyboardFollowed
<1>1. CASE Stolen \/ GivenBack \/ AppHidesKeyboard \/ AppRaisesKeyboard \/ KeyboardGone \/
           FlagCatchesUp \/ AppMovesFocus \/ AppWrites
  <2>1. CASE UNCHANGED <<keyboard, told.hid>>
    BY <1>1, <2>1, DeviceDoes
  <2>2. CASE ~UNCHANGED <<keyboard, told.hid>>
    BY <1>1, <2>2, DeviceDoes
  <2> QED BY <1>1, <2>1, <2>2, DeviceDoes
<1>2. CASE StartInputStep
  BY <1>2, StartDoes
<1>3. CASE ReadTree \/ Reread
  BY <1>3, ReadsDo
<1>4. CASE ReadOnceMore \/ ChoosesOther \/ TypingOwner \/ CheckForeground \/ ProbeKeyboard
  BY <1>4, DriverDoes
<1>5. CASE Dismiss \/ DismissTyped
  BY <1>5, BackDoes
<1>6. CASE FocusTap
  BY <1>6, TapDoes
<1>7. CASE ConfirmFocus \/ FocusRead
  BY <1>7, ConfirmDoes, EndDoes
<1>8. CASE SelectAndDelete \/ ReadBack
  BY <1>8, EraseDoes
<1>9. CASE SendChunk
  BY <1>9, SendDoes
<1>10. CASE ApplyFails \/ SettleAfterInput
  BY <1>10, SettleDoes, EndDoes
<1> QED BY <1>1, <1>2, <1>3, <1>4, <1>5, <1>6, <1>7, <1>8, <1>9, <1>10 DEF InputNext

LEMMA InputStart == InputInit => InputInv
<1> SUFFICES ASSUME InputInit PROVE InputInv
  OBVIOUS
<1>1. PICK n \in 0..MaxText :
      /\ field = [old |-> n, new |-> 0]
      /\ front = "app" /\ focus = "nothing"
      /\ keyboard \in {"down", "up"} /\ told = Undisturbed /\ call = NoInput
  BY DEF InputInit
<1>2. 0 \in 0..MaxText /\ 0 \in 0..Chunks /\ 0 \in 0..3
  BY InputBounds
<1>3. CallTyped /\ ToldTyped /\ DeviceTyped
  <2>1. CallTyped
    BY <1>1, NothingTyped DEF CallTyped, NoInput
  <2>2. ToldTyped
    BY <1>1 DEF ToldTyped, Undisturbed
  <2>3. DeviceTyped
    BY <1>1, <1>2 DEF DeviceTyped, Places
  <2> QED BY <2>1, <2>2, <2>3
<1>4. PiecesGuarded
  BY <1>1 DEF PiecesGuarded, Undisturbed, NoInput, Preparing, TreeReads, Tapping
<1>5. FocusFollowed
  BY <1>1 DEF FocusFollowed, ReadingFor, Undisturbed, NoInput, TreeReads
<1>6. FieldFollowed
  BY <1>1 DEF FieldFollowed, Sized, ReadingFor, Undisturbed, NoInput, Preparing, TreeReads, Tapping
<1>7. KeyboardFollowed
  BY <1>1 DEF KeyboardFollowed, Undisturbed, NoInput
<1> QED BY <1>3, <1>4, <1>5, <1>6, <1>7 DEF InputInv

LEMMA InputKept == InputInv /\ [InputNext]_inputVars => InputInv'
<1> SUFFICES ASSUME InputInv, [InputNext]_inputVars PROVE InputInv'
  OBVIOUS
<1>1. CASE InputNext
  BY <1>1, InputTypesStep, PiecesStep, FocusStep, FieldStep, KeyboardStep DEF InputInv
<1>2. CASE UNCHANGED inputVars
  BY <1>2 DEF inputVars, InputInv, CallTyped, InputCalls, ToldTyped, DeviceTyped, PiecesGuarded,
              FocusFollowed, FieldFollowed, Sized, ReadingFor, Shortfall, KeyboardFollowed
<1> QED BY <1>1, <1>2

\* The invariant of a step that may type, for any length of text, any content of the
\* field before it and any interference of the app, the keyboard and other apps.
THEOREM InputInvariant == InputSpec => []InputInv
  BY InputStart, InputKept, PTL DEF InputSpec

\* Guarded text puts at most one piece into another app for each time one takes the
\* foreground, and none into another field of the app that was looked past; undisturbed, a
\* field with the focus ends up with the text and what the erase length fell short by.
THEOREM TextPlaced == InputSpec => []TextGoesWhereMeant
<1>1. InputInv => TextGoesWhereMeant
  <2> SUFFICES ASSUME InputInv PROVE TextGoesWhereMeant
    OBVIOUS
  <2>1. call.fast /\ call.owner = "app" => told.sprayed <= told.thefts
    BY DEF InputInv, PiecesGuarded
  <2>2. told.misplaced /\ told.thefts = 0 => told.moved \/ call.target # "field"
    BY DEF InputInv, FocusFollowed
  <2>3. ASSUME call.pc = "probe", call.sent = Chunks, focus = "field", told.thefts = 0,
               ~told.wrote, ~told.moved
        PROVE  /\ field.new = Chunks /\ field.old <= Shortfall
               /\ call.target = "field" => field.old = 0
    <3>1. /\ field.old <= Shortfall /\ field.new = Chunks
          /\ call.target = "field" => call.count = call.held
      BY <2>3 DEF InputInv, FieldFollowed, Sized
    <3>2. field.old \in 0..MaxText /\ call.held \in 0..MaxText
      BY DEF InputInv, DeviceTyped, CallTyped, InputCalls
    <3> QED BY <3>1, <3>2, InputBounds DEF Shortfall
  <2> QED BY <2>1, <2>2, <2>3 DEF TextGoesWhereMeant
<1> QED BY <1>1, InputInvariant, PTL

\* BACK is pressed at a keyboard that stands open, unless the app itself took it away, the
\* tree showed one that was leaving, or the flag trails a tap that raised none.
THEOREM BackAtKeyboard == InputSpec => BackOnlyClosesKeyboard
<1>1. InputInv /\ [InputNext]_inputVars
        => [/\ Dismiss => \/ keyboard = "up" \/ told.read = "leaving"
                          \/ told.read = "up" /\ told.hid
            /\ DismissTyped => keyboard = "up" \/ told.hid \/ ~told.raised]_inputVars
  BY DEF InputInv, KeyboardFollowed, Dismiss, DismissTyped, Goes
<1> QED BY <1>1, InputInvariant, PTL DEF InputSpec, BackOnlyClosesKeyboard

(***************************************************************************)
(* SimulatorInput.                                                         *)
(***************************************************************************)

\* What the app is sent, for a field alone and with the paste's dialog; and what the
\* companion is given, with the waits in between.
FieldKeys == {"selectAll", "backspace", "type"}
AppKeys == FieldKeys \cup {"paste", "allow", "refocus"}
Pauses == {"pause", "delay"}
FieldEvents == FieldKeys \cup Pauses
Events == AppKeys \cup Pauses
EntryPlaces == {"idle", "send", "sending", "wait", "type", "typing", "paste", "pasting", "poll",
                "spent", "restart", "ok", "failed"}

EntryTyped ==
  entry \in [ way : {"keys", "native", "paste"}, hybrid : BOOLEAN, aimed : BOOLEAN,
              soleButton : BOOLEAN, pc : EntryPlaces, back : {"send", "wait"},
              restarting : BOOLEAN, reads : 0..MaxReads, verifiable : BOOLEAN ]
WidgetTyped ==
  widget \in [ text : Seq({"old", "new"}), keys : Seq(AppKeys),
               selection : {"none", "applying", "all"}, focused : BOOLEAN,
               dialog : {"none", "up", "blackout"}, granted : BOOLEAN ]
ChannelsTyped ==
  /\ stream \in Seq(Events) /\ typing \in 0..Pieces
  /\ fate \in [drops : Nat, trusted : BOOLEAN, mistaken : BOOLEAN]

\* Only a driver with both processes restarts, only the runner types, and only a paste
\* raises the dialog.
WayKept ==
  /\ entry.way = "native" => entry.hybrid
  /\ entry.way = "paste" => ~entry.hybrid
  /\ entry.pc = "restart" => entry.hybrid
  /\ entry.pc = "restart" /\ entry.back = "wait" => entry.way = "native"
  /\ entry.pc \in {"wait", "type", "typing"} => entry.way = "native"
  /\ entry.pc \in {"paste", "pasting", "poll", "spent"} => entry.way = "paste"
  /\ entry.way # "native" => typing = 0
  /\ entry.way = "paste" => widget.focused
  /\ entry.way # "paste" => /\ widget.dialog = "none"
                            /\ stream \in Seq(FieldEvents) /\ widget.keys \in Seq(FieldKeys)

\* A bounded loop is left before its bound.
ReadsLeft ==
  \/ entry.pc \in {"sending", "wait", "paste", "pasting", "poll"}
  \/ entry.pc = "restart" /\ entry.back = "wait"
  => entry.reads < MaxReads

Repeated(x, n) == [i \in 1..n |-> x]
Before(event, events) == <<event>> \o events

\* What is still to be sent of the clear and, by the keys, of the text after it.
More == IF entry.way = "keys" THEN Pieces ELSE 0
DelayLeft == Before("delay", Repeated("type", More))
DeleteLeft == Before("backspace", DelayLeft)
PauseLeft == Before("pause", DeleteLeft)
AllLeft == Before("selectAll", PauseLeft)

\* The text the field held is there: seen by a wait that is to see it go, and not taken
\* for a paste.
Untouched ==
  /\ entry.way = "native" => widget.text # <<>>
  /\ entry.way = "paste" => \A i \in 1..Len(widget.text) : widget.text[i] # "new"

\* The chord is on its way, and the pause lets it apply: the next key replaces all.
Selecting ==
  /\ Untouched
  /\ \/ stream = AllLeft /\ widget.keys = <<>> /\ widget.selection # "applying"
     \/ stream = PauseLeft /\ widget.keys = <<"selectAll">>
     \/ /\ stream = PauseLeft /\ widget.keys = <<>>
        /\ widget.selection # "applying" => Kept = <<>>
     \/ stream = DeleteLeft /\ widget.keys = <<>> /\ widget.selection # "applying" /\ Kept = <<>>

\* The backspace has still to apply, with n pieces after it; or it has, and some of the n
\* pieces stand in the field and the others are still to apply.
Pending(n) ==
  /\ widget.keys = Before("backspace", Repeated("type", n))
  /\ widget.selection # "applying" /\ Kept = <<>> /\ Untouched
Erased(n) ==
  /\ widget.selection = "none"
  /\ \E m \in 0..n : /\ widget.text = Repeated("new", m)
                     /\ widget.keys = Repeated("type", n - m)
Deleting(n) == Pending(n) \/ Erased(n)

Clearing ==
  \/ Selecting
  \/ stream = DelayLeft /\ Deleting(0)
  \/ \E n \in 0..More : stream = Repeated("type", More - n) /\ Deleting(n)

\* One paste reaches the field: it is on its way behind the clear, the dialog swallowed
\* it, the retry is on its way to a dialog that is up or past one that was, or it landed.
Resend == Before("allow", Before("pause", Before("refocus", Before("pause", <<"paste">>))))
Empty == widget.text = <<>> /\ widget.selection = "none"
Chord ==
  /\ widget.dialog = "none"
  /\ \/ stream = <<"paste">> /\ Deleting(0)
     \/ /\ stream = <<>> /\ widget.keys = <<"backspace", "paste">>
        /\ widget.selection # "applying" /\ Kept = <<>> /\ Untouched
     \/ stream = <<>> /\ widget.keys = <<"paste">> /\ Empty
Prompts ==
  /\ widget.dialog = "up" /\ Empty
  /\ \/ widget.keys = <<>> /\ stream \in {<<>>, Resend}
     \/ widget.keys = <<"allow">> /\ stream = Tail(Resend)
Again ==
  /\ widget.dialog # "up" /\ widget.granted /\ Empty
  /\ \/ /\ widget.keys = <<>>
        /\ stream \in {Tail(Resend), Tail(Tail(Resend)), Tail(Tail(Tail(Resend))), <<"paste">>}
     \/ widget.keys = <<"refocus">> /\ stream = Tail(Tail(Tail(Resend)))
     \/ widget.keys = <<"paste">> /\ stream = <<>>
Landed ==
  /\ widget.dialog # "up" /\ widget.selection = "none"
  /\ widget.text = Wanted /\ widget.keys = <<>> /\ stream = <<>>
PasteFollowed == Chord \/ Prompts \/ Again \/ Landed

\* Before the first call and after a restart nothing is on its way.
Ready ==
  entry.pc \in {"idle", "send"} =>
    /\ stream = <<>> /\ widget.keys = <<>> /\ widget.selection # "applying" /\ typing = 0
    /\ entry.way = "paste" => widget.dialog = "none" /\ Untouched

\* Where the text is at each place of the driver, unless it took something on trust or
\* the field lost the focus for good.
Sound == widget.focused /\ ~fate.trusted /\ ~fate.mistaken
WhileClearing ==
  /\ entry.pc = "sending" \/ (entry.pc = "ok" /\ entry.way = "keys") =>
       Clearing /\ widget.dialog = "none" /\ typing = 0
  /\ entry.pc = "ok" /\ entry.way = "keys" => stream = <<>>
WhileWaiting ==
  entry.pc \in {"wait", "paste"} \/ (entry.pc = "restart" /\ entry.back = "wait") =>
    stream = <<>> /\ Deleting(0) /\ widget.dialog = "none" /\ typing = 0
WhileTyping ==
  /\ entry.pc \in {"type", "typing"} \/ (entry.pc = "ok" /\ entry.way = "native") =>
       stream = <<>> /\ widget.keys = <<>> /\ widget.selection = "none"
  /\ entry.pc = "type" => typing = 0 /\ widget.text = <<>>
  /\ entry.pc = "typing" \/ (entry.pc = "ok" /\ entry.way = "native") =>
       widget.text = Repeated("new", Pieces - typing)
  /\ entry.pc = "ok" /\ entry.way = "native" => typing = 0
WhilePasting ==
  /\ entry.pc \in {"pasting", "poll", "spent"} => PasteFollowed
  /\ entry.pc = "poll" => stream = <<>>
  /\ entry.pc = "ok" /\ entry.way = "paste" => Landed
TextFollowed == Sound => WhileClearing /\ WhileWaiting /\ WhileTyping /\ WhilePasting

EntryInv ==
  EntryTyped /\ WidgetTyped /\ ChannelsTyped /\ WayKept /\ ReadsLeft /\ Ready /\ TextFollowed

\* A sequence of one element repeated.
LEMMA RepeatedSequence ==
  ASSUME NEW x, NEW n \in Nat
  PROVE  /\ Repeated(x, n) \in Seq({x}) /\ Len(Repeated(x, n)) = n
         /\ n = 0 <=> Repeated(x, n) = <<>>
         /\ Repeated(x, n) \o <<x>> = Repeated(x, n + 1)
         /\ Append(Repeated(x, n), x) = Repeated(x, n + 1)
         /\ n > 0 => Head(Repeated(x, n)) = x /\ Tail(Repeated(x, n)) = Repeated(x, n - 1)
<1>2. Len(Repeated(x, n)) = n /\ Repeated(x, n) \in Seq({x})
  BY DEF Repeated
<1>3. n = 0 <=> Repeated(x, n) = <<>>
  BY <1>2
<1>4. Repeated(x, n) \o <<x>> = Repeated(x, n + 1)
  BY <1>2 DEF Repeated
<1>5. Append(Repeated(x, n), x) = Repeated(x, n + 1)
  BY <1>2 DEF Repeated
<1>6. ASSUME n > 0 PROVE Head(Repeated(x, n)) = x /\ Tail(Repeated(x, n)) = Repeated(x, n - 1)
  <2>1. Repeated(x, n - 1) \in Seq({x}) /\ Len(Repeated(x, n - 1)) = n - 1
    BY <1>6 DEF Repeated
  <2>2. Tail(Repeated(x, n)) \in Seq({x}) /\ Len(Tail(Repeated(x, n))) = n - 1
    BY <1>2, <1>3, <1>6
  <2>3. \A i \in 1..n - 1 : Tail(Repeated(x, n))[i] = Repeated(x, n - 1)[i]
    BY <1>2, <1>6, <2>2 DEF Repeated
  <2> QED BY <1>2, <1>6, <2>1, <2>2, <2>3 DEF Repeated
<1> QED BY <1>2, <1>3, <1>4, <1>5, <1>6

\* A sequence led by an event.
LEMMA BeforeSequence ==
  ASSUME NEW e \in Events, NEW s \in Seq(Events)
  PROVE  /\ Before(e, s) \in Seq(Events) /\ Before(e, s) # <<>>
         /\ Head(Before(e, s)) = e /\ Tail(Before(e, s)) = s
         /\ \A f \in Events : Append(Before(e, s), f) = Before(e, Append(s, f))
         /\ Before(e, <<>>) = <<e>>
<1>1. Before(e, s) \in Seq(Events) /\ Len(Before(e, s)) = 1 + Len(s)
  BY DEF Before
<1>2. Before(e, s) # <<>> /\ Head(Before(e, s)) = e
  BY <1>1 DEF Before
<1>3. Tail(Before(e, s)) = s
  BY <1>1 DEF Before
<1>4. \A f \in Events : Append(Before(e, s), f) = Before(e, Append(s, f))
  BY <1>1 DEF Before
<1>5. Before(e, <<>>) = <<e>>
  <2>1. <<e>> \o <<>> \in Seq(Events) /\ Len(<<e>> \o <<>>) = 1 /\ (<<e>> \o <<>>)[1] = e
    OBVIOUS
  <2> QED BY <2>1 DEF Before
<1> QED BY <1>1, <1>2, <1>3, <1>4, <1>5

\* The keys of a text in flight, and the text that stands, piece by piece.
LEMMA PieceKeys ==
  ASSUME NEW n \in Nat
  PROVE  /\ Repeated("type", n) \in Seq(AppKeys) /\ Repeated("type", n) \in Seq(Events)
         /\ Repeated("new", n) \in Seq({"old", "new"})
         /\ Head(Before("backspace", Repeated("type", n))) = "backspace"
         /\ Tail(Before("backspace", Repeated("type", n))) = Repeated("type", n)
         /\ Before("backspace", Repeated("type", n)) # <<>>
         /\ Append(Before("backspace", Repeated("type", n)), "type")
              = Before("backspace", Repeated("type", n + 1))
<1>1. Repeated("type", n) \in Seq(AppKeys) /\ Repeated("type", n) \in Seq(Events)
  BY DEF Repeated, AppKeys, FieldKeys, Events
<1>2. Repeated("new", n) \in Seq({"old", "new"})
  BY DEF Repeated
<1>3. Append(Repeated("type", n), "type") = Repeated("type", n + 1)
  BY RepeatedSequence
<1>4. "backspace" \in Events /\ "type" \in Events
  BY DEF Events, AppKeys, FieldKeys
<1>5. PICK s \in Seq(Events) : s = Repeated("type", n)
  BY <1>1
<1>6. /\ Head(Before("backspace", s)) = "backspace" /\ Tail(Before("backspace", s)) = s
      /\ Before("backspace", s) # <<>>
      /\ Append(Before("backspace", s), "type") = Before("backspace", Append(s, "type"))
  BY <1>4, BeforeSequence
<1> QED BY <1>1, <1>2, <1>3, <1>5, <1>6

\* A clear with no piece after it.
LEMMA NoPieces ==
  /\ Repeated("type", 0) = <<>> /\ Repeated("new", 0) = <<>>
  /\ Before("backspace", Repeated("type", 0)) = <<"backspace">>
<1>1. Repeated("type", 0) = <<>> /\ Repeated("new", 0) = <<>>
  BY DEF Repeated
<1>2. "backspace" \in Events /\ <<>> \in Seq(Events)
  BY DEF Events, AppKeys, FieldKeys
<1> QED BY <1>1, <1>2, BeforeSequence

Live == widget.focused /\ widget.dialog # "up"

\* What the app makes of the next key it applies.
LEMMA KeyApplied ==
  ASSUME WidgetTyped, AppApplies, NEW key, key = Head(widget.keys)
  PROVE  /\ WidgetTyped' /\ widget.keys # <<>> /\ key \in AppKeys
         /\ widget'.keys = Tail(widget.keys) /\ UNCHANGED <<entry, stream, typing, fate>>
         /\ key = "allow" /\ widget.dialog = "up" =>
              /\ widget'.dialog = "blackout" /\ widget'.granted
              /\ UNCHANGED <<widget.text, widget.selection, widget.focused>>
         /\ key = "refocus" => UNCHANGED <<widget.text, widget.selection, widget.dialog,
                                           widget.granted>>
         /\ widget.focused => widget'.focused
         /\ key # "refocus" => widget'.focused = widget.focused
         /\ key \notin {"allow", "paste"} => widget'.dialog = widget.dialog
         /\ Live /\ key = "selectAll" =>
              UNCHANGED <<widget.text, widget.granted>> /\ widget'.selection = "applying"
         /\ Live /\ key = "backspace" /\ Kept = <<>> =>
              /\ UNCHANGED widget.granted /\ widget'.text = <<>>
              /\ widget'.selection = IF widget.selection = "all" THEN "none" ELSE widget.selection
         /\ Live /\ key = "type" /\ widget.selection = "none" =>
              /\ UNCHANGED <<widget.granted, widget.selection>>
              /\ widget'.text = widget.text \o <<"new">>
         /\ Live /\ key = "paste" /\ widget.granted /\ Empty =>
              /\ UNCHANGED <<widget.granted, widget.selection, widget.dialog>>
              /\ widget'.text = Wanted
         /\ Live /\ key = "paste" /\ ~widget.granted =>
              UNCHANGED <<widget.text, widget.selection>> /\ widget'.dialog = "up"
<1> DEFINE w == [widget EXCEPT !.keys = Tail(@)]
<1>1. /\ w \in [ text : Seq({"old", "new"}), keys : Seq(AppKeys),
                 selection : {"none", "applying", "all"}, focused : BOOLEAN,
                 dialog : {"none", "up", "blackout"}, granted : BOOLEAN ]
      /\ w.text = widget.text /\ w.selection = widget.selection /\ w.focused = widget.focused
      /\ w.dialog = widget.dialog /\ w.granted = widget.granted /\ w.keys = Tail(widget.keys)
      /\ widget.keys # <<>> /\ key \in AppKeys
  <2>1. widget.keys # <<>> /\ widget.keys \in Seq(AppKeys)
    BY DEF WidgetTyped, AppApplies
  <2>2. Tail(widget.keys) \in Seq(AppKeys) /\ Head(widget.keys) \in AppKeys
    BY <2>1
  <2> QED BY <2>1, <2>2 DEF WidgetTyped
<1>2. widget' = Effect(w, key) /\ UNCHANGED <<entry, stream, typing, fate>>
  BY DEF AppApplies
<1>3. Kept \in Seq({"old", "new"}) /\ Wanted \in Seq({"old", "new"})
  BY SimulatorBounds DEF Kept, Wanted, WidgetTyped
<1>4. Empty => Kept = <<>> /\ Kept \o Wanted = Wanted
  BY <1>3 DEF Empty, Kept
<1> HIDE DEF w
<1>5. CASE key \in {"allow", "refocus"}
  <2>1. widget' = Touched(w, key)
    BY <1>2, <1>5 DEF Effect
  <2>2. CASE key = "allow" /\ w.dialog = "up"
    BY <1>1, <1>2, <2>1, <2>2 DEF Touched, WidgetTyped, Live
  <2>3. CASE key = "refocus" /\ w.dialog # "up"
    BY <1>1, <1>2, <2>1, <2>3 DEF Touched, WidgetTyped, Live
  <2>4. CASE ~(key = "allow" /\ w.dialog = "up") /\ ~(key = "refocus" /\ w.dialog # "up")
    BY <1>1, <1>2, <1>5, <2>1, <2>4 DEF Touched, WidgetTyped
  <2> QED BY <2>2, <2>3, <2>4
<1>6. CASE key \notin {"allow", "refocus"} /\ ~Live
  <2>1. widget' = w
    BY <1>1, <1>2, <1>6 DEF Effect, Live
  <2> QED BY <1>1, <1>2, <1>6, <2>1 DEF WidgetTyped, Live
<1>7. key \notin {"allow", "refocus"} /\ Live => widget' = Struck(w, key)
  BY <1>1, <1>2 DEF Effect, Live
<1>8. CASE key = "selectAll" /\ Live
  BY <1>1, <1>2, <1>7, <1>8 DEF Struck, WidgetTyped, Live
<1>9. CASE key = "backspace" /\ Live
  <2> DEFINE rest == IF Kept = <<>> THEN <<>> ELSE SubSeq(Kept, 1, Len(Kept) - 1)
  <2>1. rest \in Seq({"old", "new"})
    BY <1>3
  <2>2. widget' = [w EXCEPT !.text = rest, !.selection = IF @ = "all" THEN "none" ELSE @]
    BY <1>1, <1>7, <1>9 DEF Struck, Live, Backspaced
  <2>3. Kept = <<>> => rest = <<>>
    OBVIOUS
  <2> HIDE DEF rest
  <2>4. /\ WidgetTyped' /\ widget'.text = rest
        /\ widget'.selection = IF widget.selection = "all" THEN "none" ELSE widget.selection
        /\ widget'.focused = widget.focused /\ widget'.dialog = widget.dialog
        /\ widget'.granted = widget.granted /\ widget'.keys = Tail(widget.keys)
    BY <1>1, <2>1, <2>2 DEF WidgetTyped
  <2> QED BY <1>1, <1>2, <1>9, <2>3, <2>4
<1>10. CASE key = "type" /\ Live
  <2>1. Kept \o <<"new">> \in Seq({"old", "new"})
    BY <1>3
  <2>2. widget' = [w EXCEPT !.text = Kept \o <<"new">>,
                            !.selection = IF @ = "all" THEN "none" ELSE @]
    BY <1>1, <1>7, <1>10 DEF Struck, Live, Written
  <2>3. widget.selection = "none" => Kept = widget.text
    BY DEF Kept
  <2>4. /\ WidgetTyped' /\ widget'.text = Kept \o <<"new">>
        /\ widget'.selection = IF widget.selection = "all" THEN "none" ELSE widget.selection
        /\ widget'.focused = widget.focused /\ widget'.dialog = widget.dialog
        /\ widget'.granted = widget.granted /\ widget'.keys = Tail(widget.keys)
    BY <1>1, <2>1, <2>2 DEF WidgetTyped
  <2> QED BY <1>1, <1>2, <1>10, <2>3, <2>4
<1>11. CASE key = "paste" /\ Live
  <2>1. CASE widget.granted
    <3>1. Kept \o Wanted \in Seq({"old", "new"})
      BY <1>3
    <3>2. widget' = [w EXCEPT !.text = Kept \o Wanted,
                              !.selection = IF @ = "all" THEN "none" ELSE @]
      BY <1>1, <1>7, <1>11, <2>1 DEF Struck, Live, Written
    <3> QED BY <1>1, <1>2, <1>4, <1>11, <2>1, <3>1, <3>2 DEF WidgetTyped, Empty
  <2>2. CASE ~widget.granted
    <3>1. widget' = [w EXCEPT !.dialog = "up"]
      BY <1>1, <1>7, <1>11, <2>2 DEF Struck, Live
    <3> QED BY <1>1, <1>2, <1>11, <2>2, <3>1 DEF WidgetTyped
  <2> QED BY <2>1, <2>2
<1> QED BY <1>1, <1>5, <1>6, <1>8, <1>9, <1>10, <1>11 DEF AppKeys, FieldKeys

\* The backspace applies on everything selected; the pieces apply behind it.
LEMMA DeletingApplied ==
  ASSUME WidgetTyped, Live, NEW n \in Nat, Deleting(n), AppApplies
  PROVE  Erased(n)' /\ UNCHANGED <<entry, stream, typing, fate>>
         /\ widget'.focused /\ widget'.dialog = widget.dialog
<1> DEFINE types == Repeated("type", n)
<1>2. CASE Pending(n)
  <2>1. Head(widget.keys) = "backspace" /\ Tail(widget.keys) = types /\ Kept = <<>>
        /\ widget.selection \in {"none", "all"}
    BY <1>2, PieceKeys DEF Pending, WidgetTyped
  <2> HIDE DEF types
  <2>2. /\ widget'.text = <<>> /\ widget'.keys = types /\ widget'.selection = "none"
        /\ UNCHANGED <<entry, stream, typing, fate>>
        /\ widget'.focused /\ widget'.dialog = widget.dialog
    BY <2>1, KeyApplied DEF Live
  <2>3. <<>> = Repeated("new", 0) /\ n - 0 = n /\ 0 \in 0..n
    BY NoPieces
  <2> QED BY <2>2, <2>3 DEF Erased, types
<1>3. CASE Erased(n)
  <2>1. PICK m \in 0..n : widget.text = Repeated("new", m) /\ widget.keys = Repeated("type", n - m)
    BY <1>3 DEF Erased
  <2>2. n - m \in Nat /\ n - m # 0
    <3>1. n - m \in Nat
      OBVIOUS
    <3>2. widget.keys # <<>>
      BY DEF AppApplies
    <3> QED BY <2>1, <3>1, <3>2, RepeatedSequence
  <2>3. Head(widget.keys) = "type" /\ Tail(widget.keys) = Repeated("type", (n - m) - 1)
    <3>1. PICK k \in Nat : k = n - m /\ k > 0
      BY <2>2
    <3> QED BY <2>1, <3>1, RepeatedSequence
  <2>4. /\ widget'.text = widget.text \o <<"new">> /\ widget'.keys = Repeated("type", (n - m) - 1)
        /\ widget'.selection = "none" /\ UNCHANGED <<entry, stream, typing, fate>>
        /\ widget'.focused /\ widget'.dialog = widget.dialog
    BY <1>3, <2>3, KeyApplied DEF Live, Erased
  <2>5. widget'.text = Repeated("new", m + 1)
    <3>1. m \in Nat
      OBVIOUS
    <3>2. Repeated("new", m) \o <<"new">> = Repeated("new", m + 1)
      BY <3>1, RepeatedSequence
    <3> QED BY <2>1, <2>4, <3>2
  <2>6. m + 1 \in 0..n /\ n - (m + 1) = (n - m) - 1
    BY <2>2
  <2> QED BY <2>4, <2>5, <2>6 DEF Erased
<1> QED BY <1>2, <1>3 DEF Deleting

\* One more piece is sent behind the backspace or the pieces before it.
LEMMA DeletingSent ==
  ASSUME WidgetTyped, NEW n \in Nat, Deleting(n), UNCHANGED entry,
         widget' = [widget EXCEPT !.keys = Append(@, "type")]
  PROVE  Deleting(n + 1)'
<1>1. /\ UNCHANGED <<widget.text, widget.selection>>
      /\ widget'.keys = Append(widget.keys, "type")
  BY DEF WidgetTyped
<1>2. CASE Pending(n)
  <2>3. widget'.keys = Before("backspace", Repeated("type", n + 1))
    BY <1>1, <1>2, PieceKeys DEF Pending
  <2>4. Kept' = Kept /\ Untouched' = Untouched
    BY <1>1 DEF Kept, Untouched
  <2> QED BY <1>1, <1>2, <2>3, <2>4 DEF Deleting, Pending
<1>3. CASE Erased(n)
  <2>1. PICK m \in 0..n : widget.text = Repeated("new", m) /\ widget.keys = Repeated("type", n - m)
    BY <1>3 DEF Erased
  <2>2. n - m \in Nat /\ m \in 0..n + 1 /\ (n + 1) - m = (n - m) + 1
    OBVIOUS
  <2>3. widget'.keys = Repeated("type", (n + 1) - m)
    BY <1>1, <2>1, <2>2, RepeatedSequence
  <2> QED BY <1>1, <1>3, <2>1, <2>2, <2>3 DEF Deleting, Erased
<1> QED BY <1>2, <1>3 DEF Deleting

\* What the app does by itself keeps the clear going.
LEMMA DeletingKept ==
  ASSUME WidgetTyped, Live, NEW n \in Nat, Deleting(n),
         AppApplies \/ SelectionApplies \/ BridgeRecovers
  PROVE  Deleting(n)' /\ UNCHANGED <<entry, stream, typing, fate>>
         /\ widget'.focused /\ (widget.dialog = "none" => widget'.dialog = "none")
<1>1. CASE AppApplies
  BY <1>1, DeletingApplied DEF Deleting
<1>2. CASE SelectionApplies
  BY <1>2 DEF SelectionApplies, Deleting, Pending, Erased
<1>3. CASE BridgeRecovers
  <2>1. /\ UNCHANGED <<entry, stream, typing, fate>>
        /\ UNCHANGED <<widget.text, widget.selection, widget.keys, widget.focused>>
    BY <1>3 DEF BridgeRecovers, WidgetTyped
  <2>2. widget.dialog # "none"
    BY <1>3 DEF BridgeRecovers
  <2>3. Kept' = Kept /\ Untouched' = Untouched
    BY <2>1 DEF Kept, Untouched
  <2> QED BY <2>1, <2>2, <2>3 DEF Deleting, Pending, Erased, Live
<1> QED BY <1>1, <1>2, <1>3

\* As many pieces follow the clear as the way sends.
LEMMA MoreNatural == More \in Nat
  BY SimulatorBounds DEF More

\* What is left of the clear and the text is taken from its head.
LEMMA LeftEvents ==
  /\ \A n \in Nat : Repeated("type", n) \in Seq(Events)
  /\ DelayLeft \in Seq(Events) /\ DelayLeft # <<>>
  /\ Head(DelayLeft) = "delay" /\ Tail(DelayLeft) = Repeated("type", More)
  /\ DeleteLeft \in Seq(Events) /\ DeleteLeft # <<>>
  /\ Head(DeleteLeft) = "backspace" /\ Tail(DeleteLeft) = DelayLeft
  /\ PauseLeft \in Seq(Events) /\ PauseLeft # <<>>
  /\ Head(PauseLeft) = "pause" /\ Tail(PauseLeft) = DeleteLeft
  /\ AllLeft \in Seq(Events) /\ AllLeft # <<>>
  /\ Head(AllLeft) = "selectAll" /\ Tail(AllLeft) = PauseLeft
<1>1. {"selectAll", "pause", "backspace", "delay", "type"} \subseteq Events
  BY DEF Events, AppKeys, FieldKeys, Pauses
<1>2. \A n \in Nat : Repeated("type", n) \in Seq(Events)
  BY PieceKeys
<1>3. Repeated("type", More) \in Seq(Events)
  BY <1>2, MoreNatural
<1>4. DelayLeft \in Seq(Events) /\ DelayLeft # <<>>
      /\ Head(DelayLeft) = "delay" /\ Tail(DelayLeft) = Repeated("type", More)
  BY <1>1, <1>3, BeforeSequence DEF DelayLeft
<1>5. DeleteLeft \in Seq(Events) /\ DeleteLeft # <<>>
      /\ Head(DeleteLeft) = "backspace" /\ Tail(DeleteLeft) = DelayLeft
  BY <1>1, <1>4, BeforeSequence DEF DeleteLeft
<1>6. PauseLeft \in Seq(Events) /\ PauseLeft # <<>>
      /\ Head(PauseLeft) = "pause" /\ Tail(PauseLeft) = DeleteLeft
  BY <1>1, <1>5, BeforeSequence DEF PauseLeft
<1>7. AllLeft \in Seq(Events) /\ AllLeft # <<>>
      /\ Head(AllLeft) = "selectAll" /\ Tail(AllLeft) = PauseLeft
  BY <1>1, <1>6, BeforeSequence DEF AllLeft
<1> QED BY <1>2, <1>4, <1>5, <1>6, <1>7

\* The companion synthesizes the clear and what follows it.
LEMMA ClearingSynthesized ==
  ASSUME WidgetTyped, Clearing, Synthesizes
  PROVE  Clearing'
<1>1. UNCHANGED entry /\ stream # <<>> /\ stream' = Tail(stream)
  BY DEF Synthesizes
<1>2. /\ UNCHANGED <<More, DelayLeft, DeleteLeft, PauseLeft, AllLeft>>
      /\ UNCHANGED <<widget.text, widget.selection, Kept, Untouched>>
  BY <1>1 DEF More, DelayLeft, DeleteLeft, PauseLeft, AllLeft, Synthesizes, WidgetTyped, Kept,
              Untouched
<1>3. /\ Head(stream) = "pause" =>
           /\ widget.keys = <<>> /\ widget.selection # "applying" /\ widget' = widget
      /\ Head(stream) = "delay" => widget' = widget
      /\ Head(stream) \notin {"pause", "delay"} =>
           /\ widget' = [widget EXCEPT !.keys = Append(@, Head(stream))]
           /\ widget'.keys = Append(widget.keys, Head(stream))
  BY DEF Synthesizes, WidgetTyped
<1>4. CASE Selecting /\ stream = AllLeft
  <2>1. widget.keys = <<>>
    BY <1>4, LeftEvents DEF Selecting
  <2>2. stream' = PauseLeft /\ widget'.keys = <<"selectAll">>
    BY <1>1, <1>3, <1>4, <2>1, LeftEvents
  <2> QED BY <1>2, <1>4, <2>2 DEF Clearing, Selecting
<1>5. CASE Selecting /\ stream = PauseLeft
  <2>1. /\ stream' = DeleteLeft /\ widget' = widget /\ widget.keys = <<>>
        /\ widget.selection # "applying"
    BY <1>1, <1>3, <1>5, LeftEvents
  <2>2. PauseLeft # AllLeft /\ PauseLeft # DeleteLeft
    BY LeftEvents
  <2>3. Kept = <<>> /\ Untouched
    BY <1>5, <2>1, <2>2 DEF Selecting
  <2> QED BY <1>2, <2>1, <2>3 DEF Clearing, Selecting
<1>6. CASE Selecting /\ stream = DeleteLeft
  <2>0. widget.keys = <<>>
    BY <1>6, LeftEvents DEF Selecting
  <2>1. stream' = DelayLeft /\ widget'.keys = Append(<<>>, "backspace")
    BY <1>1, <1>3, <1>6, <2>0, LeftEvents
  <2>2. Before("backspace", Repeated("type", 0)) = <<"backspace">>
    BY NoPieces
  <2>3. Append(<<>>, "backspace") = <<"backspace">>
    OBVIOUS
  <2>4. DeleteLeft # AllLeft /\ DeleteLeft # PauseLeft
    BY LeftEvents
  <2>5. Kept = <<>> /\ Untouched /\ widget.selection # "applying"
    BY <1>6, <2>4 DEF Selecting
  <2>6. Pending(0)'
    BY <1>2, <2>1, <2>2, <2>3, <2>5 DEF Pending
  <2> QED BY <1>2, <2>1, <2>6 DEF Clearing, Deleting
<1>7. CASE stream = DelayLeft /\ Deleting(0)
  <2>1. stream' = Repeated("type", More - 0) /\ widget' = widget
    BY <1>1, <1>3, <1>7, LeftEvents, MoreNatural
  <2>2. Deleting(0)'
    BY <1>2, <1>7, <2>1 DEF Deleting, Pending, Erased
  <2> QED BY <1>2, <2>1, <2>2, MoreNatural DEF Clearing
<1>8. ASSUME NEW n \in 0..More, stream = Repeated("type", More - n), Deleting(n)
      PROVE  Clearing'
  <2>1. More \in Nat /\ n \in Nat /\ More - n \in Nat
    BY MoreNatural
  <2>2. More - n # 0
    BY <1>1, <1>8, <2>1, RepeatedSequence
  <2>3. n + 1 \in 0..More /\ More - (n + 1) = (More - n) - 1 /\ More - n > 0
    BY <2>1, <2>2
  <2>4. Head(stream) = "type" /\ Tail(stream) = Repeated("type", More - (n + 1))
    BY <1>8, <2>1, <2>3, RepeatedSequence
  <2>5. Deleting(n + 1)'
    BY <1>1, <1>3, <1>8, <2>1, <2>4, DeletingSent
  <2> QED BY <1>1, <1>2, <2>3, <2>4, <2>5 DEF Clearing
<1> QED BY <1>4, <1>5, <1>6, <1>7, <1>8 DEF Clearing, Selecting

\* The app applies the chord and the keys after it.
LEMMA ClearingApplied ==
  ASSUME WidgetTyped, Live, Clearing, AppApplies \/ SelectionApplies \/ BridgeRecovers
  PROVE  Clearing' /\ UNCHANGED <<entry, stream, typing, fate>> /\ widget'.focused
         /\ (widget.dialog = "none" => widget'.dialog = "none")
<1>1. UNCHANGED <<entry, stream, typing, fate>>
  BY DEF AppApplies, SelectionApplies, BridgeRecovers
<1>2. UNCHANGED <<More, DelayLeft, DeleteLeft, PauseLeft, AllLeft>>
  BY <1>1 DEF More, DelayLeft, DeleteLeft, PauseLeft, AllLeft
<1>3. CASE Selecting /\ AppApplies
  <2>1. widget.keys # <<>>
    BY <1>3 DEF AppApplies
  <2>2. stream = PauseLeft /\ widget.keys = <<"selectAll">> /\ Untouched
    BY <1>3, <2>1 DEF Selecting
  <2>3. /\ widget'.keys = <<>> /\ widget'.selection = "applying"
        /\ UNCHANGED <<widget.text, widget.focused, widget.dialog>>
    BY <1>3, <2>2, KeyApplied
  <2>4. Untouched'
    BY <1>1, <2>2, <2>3 DEF Untouched
  <2> QED BY <1>1, <1>2, <2>2, <2>3, <2>4 DEF Clearing, Selecting, Live
<1>4. CASE Selecting /\ SelectionApplies
  <2>1. /\ widget.selection = "applying"
        /\ widget' = [widget EXCEPT !.selection = IF widget.text = <<>> THEN "none" ELSE "all"]
    BY <1>4 DEF SelectionApplies
  <2>2. /\ UNCHANGED <<widget.text, widget.keys, widget.focused, widget.dialog>>
        /\ widget'.selection = IF widget.text = <<>> THEN "none" ELSE "all"
    BY <2>1 DEF WidgetTyped
  <2>3. Kept' = <<>> /\ Untouched' = Untouched
    BY <1>1, <2>2 DEF Kept, Untouched
  <2>4. stream = PauseLeft
    BY <1>4, <2>1 DEF Selecting
  <2> QED BY <1>1, <1>2, <1>4, <2>1, <2>2, <2>3, <2>4 DEF Clearing, Selecting, Live
<1>5. CASE Selecting /\ BridgeRecovers
  <2>1. /\ UNCHANGED <<widget.text, widget.keys, widget.focused, widget.selection>>
        /\ widget.dialog = "blackout"
    BY <1>5 DEF BridgeRecovers, WidgetTyped
  <2>2. Kept' = Kept /\ Untouched' = Untouched
    BY <1>1, <2>1 DEF Kept, Untouched
  <2> QED BY <1>1, <1>2, <1>5, <2>1, <2>2 DEF Clearing, Selecting, Live
<1>6. CASE stream = DelayLeft /\ Deleting(0)
  BY <1>1, <1>2, <1>6, DeletingKept DEF Clearing
<1>7. ASSUME NEW n \in 0..More, stream = Repeated("type", More - n), Deleting(n)
      PROVE  Clearing' /\ widget'.focused /\ (widget.dialog = "none" => widget'.dialog = "none")
  <2>1. n \in Nat
    BY MoreNatural
  <2> QED BY <1>1, <1>2, <1>7, <2>1, DeletingKept DEF Clearing
<1> QED BY <1>1, <1>3, <1>4, <1>5, <1>6, <1>7 DEF Clearing

\* Two sequences that agree everywhere are one.
LEMMA SameSequence ==
  ASSUME NEW S, NEW s \in Seq(S), NEW t \in Seq(S), Len(s) = Len(t),
         \A i \in 1..Len(s) : s[i] = t[i]
  PROVE  s = t
OBVIOUS

\* Sequences written out, and the same made key by key.
LEMMA TwoKeys == Append(<<"backspace">>, "paste") = <<"backspace", "paste">>
<1> DEFINE s == Append(<<"backspace">>, "paste")
           t == <<"backspace", "paste">>
<1>1. s \in Seq({"backspace", "paste"})
  OBVIOUS
<1>2. Len(s) = 2 
  OBVIOUS
<1>3. s[1] = "backspace" 
  OBVIOUS
<1>4. s[2] = "paste" 
  OBVIOUS
<1>5. t \in Seq({"backspace", "paste"}) 
  OBVIOUS
<1>6. Len(t) = 2
  OBVIOUS
<1>7. t[1] = "backspace" /\ t[2] = "paste"
  OBVIOUS
<1> HIDE DEF s, t
<1>8. \A i \in 1..2 : s[i] = t[i]
  BY <1>3, <1>4, <1>7
<1>9. s = t
  BY <1>1, <1>2, <1>5, <1>6, <1>8, SameSequence
<1> QED BY <1>9 DEF s, t

\* The retry, written out.
LEMMA FiveEvents ==
  ASSUME NEW a \in Seq(Events), a = <<"paste">>
  PROVE  Before("allow", Before("pause", Before("refocus", Before("pause", a))))
           = <<"allow", "pause", "refocus", "pause", "paste">>
<1> DEFINE l == <<"allow", "pause", "refocus", "pause", "paste">>
           b == <<"allow", "pause", "refocus", "pause">> \o a
<1>1. Before("allow", Before("pause", Before("refocus", Before("pause", a)))) = b
  BY DEF Before, Events, AppKeys, Pauses
<1>2. b \in Seq(Events) /\ Len(b) = 5 
  BY DEF Events, AppKeys, Pauses
<1>3. b[1] = "allow" /\ b[2] = "pause" /\ b[3] = "refocus" /\ b[4] = "pause" 
  OBVIOUS
<1>4. b[5] = "paste"
  BY DEF Events, AppKeys, Pauses
<1>5. l \in Seq(Events) 
  BY DEF Events, AppKeys, Pauses
<1>6. Len(l) = 5 
  OBVIOUS
<1>7. l[1] = "allow" /\ l[2] = "pause" /\ l[3] = "refocus" /\ l[4] = "pause" /\ l[5] = "paste" 
  OBVIOUS
<1> HIDE DEF b, l
<1>8. \A i \in 1..5 : b[i] = l[i]
  BY <1>3, <1>4, <1>7
<1>9. b = l
  BY <1>2, <1>5, <1>6, <1>8, SameSequence
<1> QED BY <1>1, <1>9 DEF b, l

\* The retry is sent from its head, too.
LEMMA RetryEvents ==
  /\ Resend # <<>> /\ Head(Resend) = "allow"
  /\ Tail(Resend) # <<>> /\ Head(Tail(Resend)) = "pause"
  /\ Tail(Tail(Resend)) # <<>> /\ Head(Tail(Tail(Resend))) = "refocus"
  /\ Tail(Tail(Tail(Resend))) # <<>> /\ Head(Tail(Tail(Tail(Resend)))) = "pause"
  /\ Tail(Tail(Tail(Tail(Resend)))) = <<"paste">>
  /\ Resend = <<"allow", "pause", "refocus", "pause", "paste">> /\ Resend \in Seq(Events)
<1>1. {"allow", "pause", "refocus", "paste"} \subseteq Events /\ <<"paste">> \in Seq(Events)
  BY DEF Events, AppKeys, Pauses
<1> DEFINE a == Before("pause", <<"paste">>)
           b == Before("refocus", a)
           c == Before("pause", b)
<1>2. a \in Seq(Events) /\ a # <<>> /\ Head(a) = "pause" /\ Tail(a) = <<"paste">>
  BY <1>1, BeforeSequence
<1> HIDE DEF a
<1>3. b \in Seq(Events) /\ b # <<>> /\ Head(b) = "refocus" /\ Tail(b) = a
  BY <1>1, <1>2, BeforeSequence
<1> HIDE DEF b
<1>4. c \in Seq(Events) /\ c # <<>> /\ Head(c) = "pause" /\ Tail(c) = b
  BY <1>1, <1>3, BeforeSequence
<1> HIDE DEF c
<1>5. Resend = Before("allow", c)
  BY DEF Resend, a, b, c
<1>6. Resend \in Seq(Events) /\ Resend # <<>> /\ Head(Resend) = "allow" /\ Tail(Resend) = c
  BY <1>1, <1>4, <1>5, BeforeSequence
<1>7. Resend = <<"allow", "pause", "refocus", "pause", "paste">>
  BY <1>1, FiveEvents DEF Resend
<1> QED BY <1>2, <1>3, <1>4, <1>6, <1>7

\* SendClear sends the whole of it.
LEMMA ClearAll ==
  ClearFieldEvents \o (IF entry.way = "keys" THEN TypeEvents ELSE <<>>) = AllLeft
<1>1. (IF entry.way = "keys" THEN TypeEvents ELSE <<>>) = Repeated("type", More)
  BY NoPieces DEF TypeEvents, Repeated, More
<1>2. PICK s \in Seq(Events) : s = Repeated("type", More)
  BY MoreNatural, PieceKeys
<1>3. ClearFieldEvents \o s
        = Before("selectAll", Before("pause", Before("backspace", Before("delay", s))))
  BY DEF ClearFieldEvents, Before, Events, AppKeys, FieldKeys, Pauses
<1> QED BY <1>1, <1>2, <1>3 DEF AllLeft, PauseLeft, DeleteLeft, DelayLeft

\* With nothing in flight nothing is left of the field's text.
LEMMA NothingPending ==
  /\ Erased(0) <=> Empty /\ widget.keys = <<>>
  /\ widget.keys = <<>> => ~Pending(0)
<1>1. 0 - 0 = 0 /\ \A m : m \in 0..0 <=> m = 0
  OBVIOUS
<1>2. Erased(0) <=> Empty /\ widget.keys = <<>>
  BY <1>1, NoPieces DEF Erased, Empty
<1>3. widget.keys = <<>> => ~Pending(0)
  BY NoPieces DEF Pending
<1> QED BY <1>2, <1>3

\* One paste stays one paste, whatever the dialog makes of it.
LEMMA PasteChannel ==
  ASSUME WidgetTyped, widget.focused, PasteFollowed,
         AppApplies \/ SelectionApplies \/ BridgeRecovers \/ Synthesizes
  PROVE  PasteFollowed' /\ (stream = <<>> => stream' = <<>>)
<1> USE DEF PasteFollowed
<1>1. UNCHANGED entry
  BY DEF AppApplies, SelectionApplies, BridgeRecovers, Synthesizes
<1>2. Resend' = Resend
  BY RetryEvents
<1>3. CASE AppApplies
  <2>1. widget.keys # <<>> /\ UNCHANGED stream /\ widget'.keys = Tail(widget.keys)
    BY <1>3, KeyApplied DEF AppApplies
  <2>2. CASE Chord /\ stream = <<"paste">>
    <3>1. Deleting(0) /\ widget.dialog = "none"
      BY <2>2 DEF Chord
    <3>2. Erased(0)' /\ widget'.dialog = "none"
      BY <1>3, <3>1, DeletingApplied DEF Live
    <3> QED BY <2>1, <2>2, <3>2 DEF Chord, Deleting
  <2>3. CASE Chord /\ widget.keys = <<"backspace", "paste">>
    <3>1. Head(widget.keys) = "backspace" /\ Tail(widget.keys) = <<"paste">>
          /\ Kept = <<>> /\ widget.selection \in {"none", "all"} /\ widget.dialog = "none"
          /\ stream = <<>>
      BY <2>3, NoPieces DEF Chord, WidgetTyped, Deleting, Pending, Erased
    <3>2. Empty' /\ widget'.dialog = "none"
      BY <1>3, <3>1, KeyApplied DEF Empty, Live
    <3> QED BY <2>1, <3>1, <3>2 DEF Chord
  <2>4. CASE Chord /\ widget.keys = <<"paste">> /\ stream = <<>>
    <3>1. Head(widget.keys) = "paste" /\ Tail(widget.keys) = <<>> /\ Empty
          /\ widget.dialog = "none"
      BY <2>4 DEF Chord
    <3>2. CASE widget.granted
      <4>1. widget'.text = Wanted /\ UNCHANGED <<widget.selection, widget.dialog>>
        BY <1>3, <3>1, <3>2, KeyApplied DEF Live
      <4> QED BY <2>1, <2>4, <3>1, <4>1 DEF Landed, Empty
    <3>3. CASE ~widget.granted
      <4>1. UNCHANGED <<widget.text, widget.selection>> /\ widget'.dialog = "up"
        BY <1>3, <3>1, <3>3, KeyApplied DEF Live
      <4> QED BY <2>1, <2>4, <3>1, <4>1 DEF Prompts, Empty
    <3> QED BY <3>2, <3>3
  <2>5. CASE Prompts
    <3>1. widget.keys = <<"allow">> /\ stream = Tail(Resend) /\ Empty /\ widget.dialog = "up"
      BY <2>1, <2>5 DEF Prompts
    <3>2. Head(widget.keys) = "allow" /\ Tail(widget.keys) = <<>>
      BY <3>1
    <3>3. /\ widget'.dialog = "blackout" /\ widget'.granted
          /\ UNCHANGED <<widget.text, widget.selection>>
      BY <1>3, <3>1, <3>2, KeyApplied
    <3> QED BY <1>2, <2>1, <3>1, <3>2, <3>3 DEF Again, Empty
  <2>6. CASE Again /\ widget.keys = <<"refocus">>
    <3>0. widget.keys # <<>> /\ widget.keys # <<"paste">> /\ Head(widget.keys) = "refocus"
          /\ Tail(widget.keys) = <<>>
      BY <2>1, <2>6
    <3>1. stream = Tail(Tail(Tail(Resend))) /\ Empty /\ widget.dialog # "up" /\ widget.granted
          /\ Head(widget.keys) = "refocus" /\ Tail(widget.keys) = <<>>
      BY <2>6, <3>0 DEF Again
    <3>2. UNCHANGED <<widget.text, widget.selection, widget.dialog, widget.granted>>
      BY <1>3, <3>1, KeyApplied
    <3> QED BY <1>2, <2>1, <3>1, <3>2 DEF Again, Empty
  <2>7. CASE Again /\ widget.keys = <<"paste">>
    <3>1. stream = <<>> /\ Empty /\ widget.dialog # "up" /\ widget.granted
          /\ Head(widget.keys) = "paste" /\ Tail(widget.keys) = <<>>
      BY <2>7 DEF Again
    <3>2. widget'.text = Wanted /\ UNCHANGED <<widget.selection, widget.dialog>>
      BY <1>3, <3>1, KeyApplied DEF Live
    <3> QED BY <2>1, <3>1, <3>2 DEF Landed, Empty
  <2> QED BY <2>1, <2>2, <2>3, <2>4, <2>5, <2>6, <2>7 DEF Chord, Again, Landed
<1>4. CASE SelectionApplies
  BY <1>4 DEF SelectionApplies, Chord, Prompts, Again, Landed, Deleting, Pending, Erased, Empty
<1>5. CASE BridgeRecovers
  <2>1. /\ widget.dialog = "blackout" /\ widget'.dialog = "none" /\ UNCHANGED stream
        /\ UNCHANGED <<widget.text, widget.keys, widget.selection, widget.granted>>
    BY <1>5 DEF BridgeRecovers, WidgetTyped
  <2>2. Again \/ Landed
    BY <2>1 DEF Chord, Prompts
  <2> QED BY <1>2, <2>1, <2>2 DEF Again, Landed, Empty
<1>6. CASE Synthesizes
  <2>1. stream # <<>> /\ stream' = Tail(stream)
    BY <1>6 DEF Synthesizes
  <2>2. /\ UNCHANGED <<widget.text, widget.selection, widget.dialog, widget.granted>>
        /\ Head(stream) = "pause" => widget.keys = <<>> /\ UNCHANGED widget.keys
        /\ Head(stream) \notin {"pause", "delay"} =>
             widget'.keys = Append(widget.keys, Head(stream))
    BY <1>6 DEF Synthesizes, WidgetTyped
  <2>3. Kept' = Kept /\ Untouched' = Untouched /\ Empty' = Empty
    BY <1>1, <2>2 DEF Kept, Untouched, Empty
  <2>4. CASE Chord
    <3>1. stream = <<"paste">> /\ Deleting(0) /\ widget.dialog = "none"
      BY <2>1, <2>4 DEF Chord
    <3>2. stream' = <<>> /\ widget'.keys = Append(widget.keys, "paste")
      BY <2>1, <2>2, <3>1
    <3>3. CASE Pending(0)
      <4>1. widget'.keys = <<"backspace", "paste">>
        <5>1. widget.keys = <<"backspace">>
          BY <3>3, NoPieces DEF Pending
        <5> QED BY <3>2, <5>1, TwoKeys
      <4> QED BY <2>2, <2>3, <3>1, <3>2, <3>3, <4>1 DEF Chord, Pending
    <3>4. CASE Erased(0)
      <4>1. Empty /\ widget'.keys = <<"paste">>
        <5>1. Empty /\ widget.keys = <<>>
          BY <3>4, NothingPending
        <5> QED BY <3>2, <5>1
      <4> QED BY <2>2, <2>3, <3>1, <3>2, <4>1 DEF Chord
    <3> QED BY <3>1, <3>3, <3>4 DEF Deleting
  <2>5. CASE Prompts
    <3>1. stream = Resend /\ widget.keys = <<>>
      BY <2>1, <2>2, <2>5, RetryEvents DEF Prompts
    <3>2. widget'.keys = <<"allow">>
      BY <2>2, <3>1, RetryEvents
    <3> QED BY <1>2, <2>1, <2>2, <2>3, <2>5, <3>1, <3>2 DEF Prompts
  <2>6. CASE Again
    <3>1. CASE stream = Tail(Tail(Resend)) /\ widget.keys = <<>>
      <4>1. widget'.keys = <<"refocus">>
        BY <2>2, <3>1, RetryEvents
      <4> QED BY <1>2, <2>1, <2>2, <2>3, <2>6, <3>1, <4>1 DEF Again
    <3>2. CASE stream = <<"paste">> /\ widget.keys = <<>>
      <4>1. widget'.keys = <<"paste">> /\ stream' = <<>>
        BY <2>1, <2>2, <3>2
      <4> QED BY <1>2, <2>2, <2>3, <2>6, <4>1 DEF Again
    <3>3. CASE stream = Tail(Resend)
      <4>1. widget'.keys = <<>> /\ stream' = Tail(Tail(Resend))
        BY <2>1, <2>2, <3>3, RetryEvents
      <4>2. Empty' /\ widget'.dialog # "up" /\ widget'.granted
        BY <2>2, <2>3, <2>6 DEF Again
      <4>3. Again'
        BY <1>2, <4>1, <4>2 DEF Again
      <4> QED BY <2>1, <4>3
    <3>4. CASE stream = Tail(Tail(Tail(Resend)))
      <4>1. widget'.keys = <<>> /\ stream' = <<"paste">>
        BY <2>1, <2>2, <3>4, RetryEvents
      <4>2. Empty' /\ widget'.dialog # "up" /\ widget'.granted
        BY <2>2, <2>3, <2>6 DEF Again
      <4>3. Again'
        BY <1>2, <4>1, <4>2 DEF Again
      <4> QED BY <2>1, <4>3
    <3>5. \/ stream = Tail(Tail(Resend)) /\ widget.keys = <<>>
          \/ stream = <<"paste">> /\ widget.keys = <<>>
          \/ stream = Tail(Resend)
          \/ stream = Tail(Tail(Tail(Resend)))
      BY <2>1, <2>6 DEF Again
    <3> QED BY <3>1, <3>2, <3>3, <3>4, <3>5
  <2> QED BY <2>1, <2>4, <2>5, <2>6 DEF Landed
<1>7. stream = <<>> => stream' = <<>>
  BY DEF AppApplies, SelectionApplies, BridgeRecovers, Synthesizes
<1> QED BY <1>3, <1>4, <1>5, <1>6, <1>7

\* A field that shows the text shows it from the one paste.
LEMMA LandedWhenSeen ==
  ASSUME WidgetTyped, PasteFollowed, stream = <<>>, entry.way = "paste", PasteLanded
  PROVE  Landed
<1>1. PICK at \in 0..Len(widget.text) - Pieces :
        SubSeq(widget.text, at + 1, at + Pieces) = Wanted
  BY DEF PasteLanded
<1>2. /\ widget.text \in Seq({"old", "new"}) /\ Len(widget.text) \in Nat
      /\ at \in Nat /\ at + 1 \in 1..Len(widget.text) /\ Pieces >= 1
      /\ at + Pieces <= Len(widget.text)
  BY SimulatorBounds DEF WidgetTyped
<1>3. widget.text[at + 1] = "new"
  <2>1. Wanted[1] = "new"
    BY <1>2, SimulatorBounds DEF Wanted
  <2>2. SubSeq(widget.text, at + 1, at + Pieces)[1] = widget.text[at + 1]
    BY <1>2, SimulatorBounds
  <2> QED BY <1>1, <2>1, <2>2
<1>4. widget.text # <<>> /\ ~Untouched
  BY <1>2, <1>3 DEF Untouched
<1> QED BY <1>4 DEF PasteFollowed, Chord, Prompts, Again, Empty, PasteLanded

\* What the companion and the runner do to the app is of the kinds it knows.
LEMMA ChannelTypes ==
  ASSUME EntryTyped, WidgetTyped, ChannelsTyped, WayKept, ReadsLeft,
         AppApplies \/ SelectionApplies \/ BridgeRecovers \/ Synthesizes \/ RunnerTypes
  PROVE  EntryTyped' /\ WidgetTyped' /\ ChannelsTyped' /\ WayKept' /\ ReadsLeft'
<1>1. CASE AppApplies
  <2>1. /\ WidgetTyped' /\ UNCHANGED <<entry, stream, typing, fate>>
        /\ widget.keys # <<>> /\ widget'.keys = Tail(widget.keys)
        /\ widget.focused => widget'.focused
        /\ Head(widget.keys) \notin {"allow", "paste"} => widget'.dialog = widget.dialog
    BY <1>1, KeyApplied
  <2>2. EntryTyped' /\ ChannelsTyped' /\ ReadsLeft'
    BY <2>1 DEF EntryTyped, ChannelsTyped, ReadsLeft
  <2>3. ASSUME entry.way # "paste"
        PROVE  widget'.dialog = "none" /\ widget'.keys \in Seq(FieldKeys)
    <3>1. widget.keys \in Seq(FieldKeys) /\ widget.dialog = "none"
      BY <2>3 DEF WayKept
    <3>2. Head(widget.keys) \in FieldKeys /\ Tail(widget.keys) \in Seq(FieldKeys)
      BY <2>1, <3>1
    <3> QED BY <2>1, <3>1, <3>2 DEF FieldKeys
  <2>4. WayKept'
    BY <2>1, <2>3 DEF WayKept
  <2> QED BY <2>1, <2>2, <2>4
<1>2. CASE SelectionApplies
  <2>1. /\ WidgetTyped' /\ UNCHANGED <<entry, stream, typing, fate>>
        /\ UNCHANGED <<widget.focused, widget.dialog, widget.keys>>
    BY <1>2 DEF SelectionApplies, WidgetTyped
  <2> QED BY <2>1 DEF EntryTyped, ChannelsTyped, ReadsLeft, WayKept
<1>3. CASE BridgeRecovers
  <2>1. /\ WidgetTyped' /\ UNCHANGED <<entry, stream, typing, fate>>
        /\ UNCHANGED <<widget.focused, widget.keys>> /\ widget'.dialog = "none"
    BY <1>3 DEF BridgeRecovers, WidgetTyped
  <2> QED BY <2>1 DEF EntryTyped, ChannelsTyped, ReadsLeft, WayKept
<1>4. CASE Synthesizes
  <2>1. stream # <<>> /\ stream' = Tail(stream) /\ UNCHANGED <<entry, typing, fate>>
    BY <1>4 DEF Synthesizes
  <2>2. Tail(stream) \in Seq(Events) /\ Head(stream) \in Events
    BY <2>1 DEF ChannelsTyped
  <2>3. PICK keys \in Seq(AppKeys) :
          /\ widget' = [widget EXCEPT !.keys = keys]
          /\ keys = IF Head(stream) \in Pauses THEN widget.keys
                    ELSE Append(widget.keys, Head(stream))
    <3>1. Head(stream) \notin Pauses => Head(stream) \in AppKeys
      BY <2>2 DEF Events
    <3>2. widget.keys \in Seq(AppKeys)
      BY DEF WidgetTyped
    <3>3. CASE Head(stream) \in Pauses
      <4>1. widget' = widget
        BY <1>4, <3>3 DEF Synthesizes, Pauses
      <4> QED BY <3>2, <3>3, <4>1 DEF WidgetTyped
    <3>4. CASE Head(stream) \notin Pauses
      <4>1. widget' = [widget EXCEPT !.keys = Append(@, Head(stream))]
        BY <1>4, <3>4 DEF Synthesizes, Pauses
      <4>2. Append(widget.keys, Head(stream)) \in Seq(AppKeys)
        BY <3>1, <3>2, <3>4
      <4> QED BY <3>4, <4>1, <4>2
    <3> QED BY <3>3, <3>4
  <2>4. /\ WidgetTyped' /\ widget'.keys = keys
        /\ UNCHANGED <<widget.focused, widget.dialog>>
    BY <2>3 DEF WidgetTyped
  <2>5. EntryTyped' /\ ChannelsTyped' /\ ReadsLeft'
    BY <2>1, <2>2 DEF EntryTyped, ChannelsTyped, ReadsLeft
  <2>6. ASSUME entry.way # "paste"
        PROVE  stream' \in Seq(FieldEvents) /\ keys \in Seq(FieldKeys)
    <3>1. stream \in Seq(FieldEvents) /\ widget.keys \in Seq(FieldKeys)
      BY <2>6 DEF WayKept
    <3>2. Tail(stream) \in Seq(FieldEvents) /\ Head(stream) \in FieldEvents
      BY <2>1, <3>1
    <3>3. Head(stream) \notin Pauses => Head(stream) \in FieldKeys
      BY <3>2 DEF FieldEvents
    <3> QED BY <2>1, <2>3, <3>1, <3>2, <3>3
  <2>7. WayKept'
    BY <2>1, <2>4, <2>6 DEF WayKept
  <2> QED BY <2>4, <2>5, <2>7
<1>5. CASE RunnerTypes
  <2>1. typing > 0 /\ UNCHANGED <<stream, fate>> /\ entry.way = "native"
    BY <1>5 DEF RunnerTypes, WayKept
  <2>2. CASE widget.focused /\ widget.dialog # "up"
    <3>1. typing' = typing - 1 /\ widget' = Written(widget, <<"new">>) /\ UNCHANGED entry
      BY <1>5, <2>2 DEF RunnerTypes
    <3>2. Kept \o <<"new">> \in Seq({"old", "new"})
      BY DEF Kept, WidgetTyped
    <3>3. WidgetTyped' /\ UNCHANGED <<widget.focused, widget.dialog, widget.keys>>
      BY <3>1, <3>2 DEF Written, WidgetTyped
    <3>4. typing' \in 0..Pieces
      BY <2>1, <3>1, SimulatorBounds DEF ChannelsTyped
    <3> QED BY <2>1, <3>1, <3>3, <3>4 DEF EntryTyped, ChannelsTyped, ReadsLeft, WayKept
  <2>3. CASE ~(widget.focused /\ widget.dialog # "up")
    <3>1. /\ typing' = 0 /\ UNCHANGED widget
          /\ entry' = IF entry.pc = "typing" THEN [entry EXCEPT !.pc = "failed"] ELSE entry
      BY <1>5, <2>3 DEF RunnerTypes
    <3>2. /\ EntryTyped' /\ entry'.pc \in {entry.pc, "failed"}
          /\ UNCHANGED <<entry.way, entry.hybrid, entry.back, entry.reads>>
      BY <3>1 DEF EntryTyped, EntryPlaces
    <3>3. WidgetTyped' /\ ChannelsTyped'
      BY <2>1, <3>1, SimulatorBounds DEF WidgetTyped, ChannelsTyped
    <3>4. ReadsLeft' /\ WayKept'
      BY <2>1, <3>1, <3>2 DEF ReadsLeft, WayKept
    <3> QED BY <3>2, <3>3, <3>4
  <2> QED BY <2>2, <2>3
<1> QED BY <1>1, <1>2, <1>3, <1>4, <1>5

\* The clear is of the events every way may send.
LEMMA ClearTyped == AllLeft \in Seq(Events) /\ AllLeft \in Seq(FieldEvents)
<1>1. PICK s \in Seq(FieldEvents) : s = Repeated("type", More)
  <2>1. PICK n \in Nat : n = More
    BY MoreNatural
  <2>2. Repeated("type", n) \in Seq(FieldEvents)
    BY DEF Repeated, FieldEvents, FieldKeys
  <2> QED BY <2>1, <2>2
<1>2. Before("selectAll", Before("pause", Before("backspace", Before("delay", s))))
        \in Seq(FieldEvents)
  BY DEF Before, FieldEvents, FieldKeys, Pauses
<1>3. AllLeft \in Seq(FieldEvents)
  BY <1>1, <1>2 DEF AllLeft, PauseLeft, DeleteLeft, DelayLeft
<1> QED BY <1>3, LeftEvents

\* The driver's own steps.
LEMMA DriverTypes ==
  ASSUME EntryTyped, WidgetTyped, ChannelsTyped, WayKept, ReadsLeft,
         \/ StartInput \/ SendClear \/ Cleared \/ WaitFieldCleared \/ TypeText \/ Typed
         \/ PasteChord \/ Pasted \/ PollPaste \/ PasteTimedOut \/ ConnectionLost
  PROVE  EntryTyped' /\ WidgetTyped' /\ ChannelsTyped' /\ WayKept' /\ ReadsLeft'
<1> USE SimulatorBounds
<1>1. UNCHANGED widget
  BY DEF StartInput, SendClear, Cleared, WaitFieldCleared, TypeText, Typed, PasteChord, Pasted,
         PollPaste, PasteTimedOut, ConnectionLost
<1>2. WidgetTyped'
  BY <1>1 DEF WidgetTyped
<1>3. CASE StartInput
  <2>1. PICK verifiable \in BOOLEAN :
          entry' = [entry EXCEPT !.pc = "send", !.verifiable = verifiable]
    BY <1>3 DEF StartInput, EntryTyped
  <2>2. /\ EntryTyped' /\ entry'.pc = "send"
        /\ UNCHANGED <<entry.way, entry.hybrid, entry.back, entry.reads>>
    BY <2>1 DEF EntryTyped, EntryPlaces
  <2>3. UNCHANGED <<stream, typing, fate>>
    BY <1>3 DEF StartInput
  <2> QED BY <1>1, <1>2, <2>2, <2>3 DEF ChannelsTyped, WayKept, ReadsLeft
<1>4. CASE SendClear
  <2>1. stream' = AllLeft /\ UNCHANGED typing
    BY <1>4, ClearAll DEF SendClear
  <2>2. /\ EntryTyped' /\ entry'.pc = "sending" /\ entry'.reads = 0
        /\ UNCHANGED <<entry.way, entry.hybrid, entry.back>>
    <3>1. entry' = [entry EXCEPT !.pc = "sending", !.reads = 0]
      BY <1>4 DEF SendClear
    <3>2. 0 \in 0..MaxReads
      OBVIOUS
    <3> QED BY <3>1, <3>2 DEF EntryTyped, EntryPlaces
  <2>3. fate' \in [drops : Nat, trusted : BOOLEAN, mistaken : BOOLEAN]
    BY <1>4 DEF SendClear, ChannelsTyped
  <2> QED BY <1>1, <1>2, <2>1, <2>2, <2>3, ClearTyped DEF ChannelsTyped, WayKept, ReadsLeft
<1>5. CASE Cleared
  <2>1. /\ EntryTyped' /\ entry.pc = "sending"
        /\ entry'.pc = CASE entry.way = "keys" -> "ok" [] entry.way = "native" -> "wait"
                         [] entry.way = "paste" -> "paste"
        /\ UNCHANGED <<entry.way, entry.hybrid, entry.back, entry.reads>>
    BY <1>5 DEF Cleared, AfterClear, EntryTyped, EntryPlaces
  <2>2. UNCHANGED <<stream, typing, fate>> /\ entry.way \in {"keys", "native", "paste"}
    BY <1>5 DEF Cleared, EntryTyped
  <2> QED BY <1>1, <1>2, <2>1, <2>2 DEF ChannelsTyped, WayKept, ReadsLeft
<1>6. CASE WaitFieldCleared
  <2>1. /\ entry.pc = "wait" /\ entry.reads < MaxReads /\ entry.way = "native"
        /\ UNCHANGED <<stream, typing>>
    BY <1>6 DEF WaitFieldCleared, ReadsLeft, WayKept
  <2>2. /\ EntryTyped' /\ UNCHANGED <<entry.way, entry.hybrid, entry.back>>
        /\ entry'.pc = "type" \/ (entry'.pc = "wait" /\ entry'.reads < MaxReads)
    BY <1>6, <2>1 DEF WaitFieldCleared, EntryTyped, EntryPlaces
  <2>3. fate' \in [drops : Nat, trusted : BOOLEAN, mistaken : BOOLEAN]
    BY <1>6 DEF WaitFieldCleared, ChannelsTyped, EntryTyped
  <2> QED BY <1>1, <1>2, <2>1, <2>2, <2>3 DEF ChannelsTyped, WayKept, ReadsLeft
<1>7. CASE TypeText \/ Typed \/ Pasted \/ PasteTimedOut
  <2>1. /\ EntryTyped' /\ UNCHANGED <<entry.way, entry.hybrid, entry.back, entry.reads>>
        /\ \/ entry.pc = "type" /\ entry'.pc = "typing"
           \/ entry'.pc \in {"ok", "failed"}
           \/ entry.pc = "pasting" /\ entry'.pc = "poll"
    BY <1>7 DEF TypeText, Typed, Pasted, PasteTimedOut, EntryTyped, EntryPlaces
  <2>2. /\ UNCHANGED <<stream, fate>>
        /\ typing' = typing \/ (entry.pc = "type" /\ typing' = Pieces)
    BY <1>7 DEF TypeText, Typed, Pasted, PasteTimedOut
  <2> QED BY <1>1, <1>2, <2>1, <2>2 DEF ChannelsTyped, WayKept, ReadsLeft
<1>8. CASE PasteChord
  <2>1. /\ EntryTyped' /\ UNCHANGED <<entry.way, entry.hybrid, entry.back, entry.reads>>
        /\ entry.pc = "paste" /\ entry'.pc = "pasting"
    BY <1>8 DEF PasteChord, EntryTyped, EntryPlaces
  <2>2. stream' \in Seq(Events) /\ UNCHANGED <<typing, fate>>
    BY <1>8 DEF PasteChord, Events, AppKeys
  <2> QED BY <1>1, <1>2, <2>1, <2>2 DEF ChannelsTyped, WayKept, ReadsLeft
<1>9. CASE PollPaste
  <2>1. /\ EntryTyped' /\ UNCHANGED <<entry.way, entry.hybrid, entry.back>>
        /\ entry.pc = "poll" /\ entry.way = "paste" /\ entry.reads < MaxReads
        /\ \/ entry'.pc \in {"ok", "failed", "spent"}
           \/ entry'.pc \in {"pasting", "poll"} /\ entry'.reads < MaxReads
    <3>1. entry.pc = "poll" /\ entry.way = "paste" /\ entry.reads < MaxReads
      BY <1>9 DEF PollPaste, WayKept, ReadsLeft
    <3>2. PICK pc \in {"ok", "failed", "spent", "pasting", "poll"} :
            /\ entry' = [entry EXCEPT !.pc = pc, !.reads = @ + 1]
            /\ pc \in {"pasting", "poll"} => entry.reads + 1 # MaxReads
      <4>1. \/ PasteLanded
            \/ ~PasteLanded /\ AllowButton
            \/ ~PasteLanded /\ ~AllowButton /\ ~entry.verifiable
            \/ ~PasteLanded /\ ~AllowButton /\ entry.verifiable
        OBVIOUS
      <4> HIDE DEF PasteLanded, AllowButton
      <4> QED BY <1>9, <4>1 DEF PollPaste
    <3>3. entry.reads + 1 \in 0..MaxReads
      BY <3>1 DEF EntryTyped
    <3>4. /\ EntryTyped' /\ UNCHANGED <<entry.way, entry.hybrid, entry.back>>
          /\ entry'.pc = pc /\ entry'.reads = entry.reads + 1
      BY <3>2, <3>3 DEF EntryTyped, EntryPlaces
    <3> QED BY <3>1, <3>2, <3>3, <3>4
  <2>2. stream' \in {stream, Resend} /\ UNCHANGED typing
    BY <1>9, RetryEvents DEF PollPaste
  <2>3. fate' \in [drops : Nat, trusted : BOOLEAN, mistaken : BOOLEAN]
    BY <1>9 DEF PollPaste, ChannelsTyped
  <2>4. stream' \in Seq(Events)
    BY <2>2, RetryEvents DEF ChannelsTyped
  <2> QED BY <1>1, <1>2, <2>1, <2>2, <2>3, <2>4 DEF ChannelsTyped, WayKept, ReadsLeft
<1>10. CASE ConnectionLost
  <2>1. /\ EntryTyped' /\ UNCHANGED <<entry.way, entry.hybrid, entry.reads>>
        /\ \/ entry'.pc = "failed"
           \/ /\ entry.hybrid /\ entry'.pc = "restart"
              /\ entry'.back = IF entry.pc = "wait" THEN "wait" ELSE "send"
           \/ entry.pc = "wait" /\ entry'.pc = "type"
    BY <1>10 DEF ConnectionLost, EntryTyped, EntryPlaces
  <2>2. UNCHANGED <<stream, typing>>
    BY <1>10 DEF ConnectionLost
  <2>3. fate' \in [drops : Nat, trusted : BOOLEAN, mistaken : BOOLEAN]
    <3>1. PICK trusted \in BOOLEAN :
            fate' = [fate EXCEPT !.drops = @ + 1, !.trusted = trusted]
      BY <1>10 DEF ConnectionLost, ChannelsTyped, EntryTyped
    <3>2. fate.drops + 1 \in Nat /\ fate \in [drops : Nat, trusted : BOOLEAN, mistaken : BOOLEAN]
      BY DEF ChannelsTyped
    <3>3. PICK drops \in Nat : fate' = [fate EXCEPT !.drops = drops, !.trusted = trusted]
      BY <3>1, <3>2
    <3> QED BY <3>2, <3>3
  <2> QED BY <1>1, <1>2, <2>1, <2>2, <2>3 DEF ChannelsTyped, WayKept, ReadsLeft
<1> QED BY <1>3, <1>4, <1>5, <1>6, <1>7, <1>8, <1>9, <1>10

\* A restart leaves both channels empty.
LEMMA RestartTypes ==
  ASSUME EntryTyped, WidgetTyped, ChannelsTyped, WayKept, ReadsLeft, Restarted
  PROVE  EntryTyped' /\ WidgetTyped' /\ ChannelsTyped' /\ WayKept' /\ ReadsLeft'
<1>1. /\ entry.pc = "restart" /\ entry.way # "paste"
      /\ stream' = <<>> /\ typing' = 0 /\ UNCHANGED fate
  BY DEF Restarted, WayKept
<1>2. WidgetTyped' /\ UNCHANGED <<widget.dialog, widget.keys>>
  BY DEF Restarted, WidgetTyped
<1>3. /\ EntryTyped' /\ UNCHANGED <<entry.way, entry.hybrid, entry.reads>>
      /\ \/ entry'.pc = entry.back /\ UNCHANGED entry.back
         \/ entry'.pc = "failed"
         \/ entry'.pc = "restart" /\ entry'.back = "send"
  BY DEF Restarted, EntryTyped, EntryPlaces
<1>4. entry.back \in {"send", "wait"} /\ <<>> \in Seq(Events) /\ <<>> \in Seq(FieldEvents)
  BY DEF EntryTyped
<1>5. ChannelsTyped' /\ ReadsLeft'
  BY <1>1, <1>3, <1>4, SimulatorBounds DEF ChannelsTyped, ReadsLeft
<1>6. WayKept'
  BY <1>1, <1>2, <1>3, <1>4 DEF WayKept
<1> QED BY <1>2, <1>3, <1>5, <1>6

\* Before a call nothing moves.
LEMMA ReadyStep ==
  ASSUME EntryTyped, WidgetTyped, WayKept, Ready, EntryNext
  PROVE  Ready'
<1>1. CASE AppApplies \/ SelectionApplies \/ BridgeRecovers \/ Synthesizes \/ RunnerTypes
  <2>1. CASE entry.pc \in {"idle", "send"}
    <3>1. widget.dialog # "blackout"
      BY <2>1 DEF Ready, WayKept
    <3> QED BY <1>1, <2>1, <3>1 DEF Ready, AppApplies, SelectionApplies, BridgeRecovers,
                                    Synthesizes, RunnerTypes
  <2>2. CASE entry.pc \notin {"idle", "send"}
    <3>1. entry'.pc \notin {"idle", "send"}
      BY <1>1, <2>2 DEF AppApplies, SelectionApplies, BridgeRecovers, Synthesizes, RunnerTypes,
                        EntryTyped
    <3> QED BY <3>1 DEF Ready
  <2> QED BY <2>1, <2>2
<1>2. CASE StartInput
  <2>1. /\ entry.pc = "idle" /\ UNCHANGED <<stream, typing, widget, fate>>
        /\ UNCHANGED <<entry.way>>
    BY <1>2 DEF StartInput, EntryTyped
  <2> QED BY <2>1 DEF Ready, Untouched
<1>3. CASE SendClear
  <2>1. entry'.pc = "sending"
    BY <1>3 DEF SendClear, EntryTyped
  <2> QED BY <2>1 DEF Ready
<1>4. CASE Cleared
  <2>1. entry'.pc \notin {"idle", "send"}
    BY <1>4 DEF Cleared, AfterClear, EntryTyped
  <2> QED BY <2>1 DEF Ready
<1>5. CASE WaitFieldCleared \/ TypeText \/ Typed \/ PasteChord \/ Pasted \/ PasteTimedOut
  <2>1. entry'.pc \notin {"idle", "send"}
    BY <1>5 DEF WaitFieldCleared, TypeText, Typed, PasteChord, Pasted, PasteTimedOut, EntryTyped
  <2> QED BY <2>1 DEF Ready
<1>6. CASE PollPaste
  <2>1. PICK pc \in {"ok", "failed", "spent", "pasting", "poll"} :
          entry' = [entry EXCEPT !.pc = pc, !.reads = @ + 1]
    <3>1. \/ PasteLanded
          \/ ~PasteLanded /\ AllowButton
          \/ ~PasteLanded /\ ~AllowButton /\ ~entry.verifiable
          \/ ~PasteLanded /\ ~AllowButton /\ entry.verifiable
      OBVIOUS
    <3> HIDE DEF PasteLanded, AllowButton
    <3> QED BY <1>6, <3>1 DEF PollPaste
  <2>2. entry'.pc \notin {"idle", "send"}
    BY <2>1 DEF EntryTyped
  <2> QED BY <2>2 DEF Ready
<1>7. CASE ConnectionLost
  <2>1. entry'.pc \notin {"idle", "send"}
    BY <1>7 DEF ConnectionLost, EntryTyped
  <2> QED BY <2>1 DEF Ready
<1>8. CASE Restarted
  <2>1. /\ entry.pc = "restart" /\ entry.way # "paste" /\ UNCHANGED entry.way
        /\ widget.keys = <<>> /\ widget.selection # "applying" /\ stream' = <<>> /\ typing' = 0
        /\ UNCHANGED <<widget.keys, widget.selection>>
    BY <1>8 DEF Restarted, WayKept, EntryTyped, WidgetTyped
  <2> QED BY <2>1 DEF Ready
<1> QED BY <1>1, <1>2, <1>3, <1>4, <1>5, <1>6, <1>7, <1>8 DEF EntryNext

\* The clear is over when its events are gone.
LEMMA ClearingOver ==
  ASSUME Clearing, stream = <<>>
  PROVE  Deleting(More)
<1>1. PICK n \in 0..More : stream = Repeated("type", More - n) /\ Deleting(n)
  BY LeftEvents DEF Clearing, Selecting
<1>2. PICK k \in Nat : k = More - n
  BY MoreNatural
<1>3. k = 0
  BY <1>1, <1>2, RepeatedSequence
<1>4. n = More
  BY <1>2, <1>3, MoreNatural
<1> QED BY <1>1, <1>4

\* The app applies, the companion synthesizes.
LEMMA ChannelFollowed ==
  ASSUME EntryTyped, WidgetTyped, WayKept, TextFollowed,
         AppApplies \/ SelectionApplies \/ BridgeRecovers \/ Synthesizes
  PROVE  TextFollowed'
<1> SUFFICES ASSUME Sound'
             PROVE  WhileClearing' /\ WhileWaiting' /\ WhileTyping' /\ WhilePasting'
  BY DEF TextFollowed
<1>1. UNCHANGED <<entry, typing, fate>>
  BY DEF AppApplies, SelectionApplies, BridgeRecovers, Synthesizes
<1>2. widget.focused
  <2>1. CASE AppApplies
    <3>1. entry.way = "paste" => widget.focused
      BY DEF WayKept
    <3>2. ASSUME entry.way # "paste" PROVE Head(widget.keys) # "refocus"
      <4>1. widget.keys \in Seq(FieldKeys) /\ widget.keys # <<>>
        BY <2>1, <3>2 DEF WayKept, AppApplies
      <4> QED BY <4>1 DEF FieldKeys
    <3> QED BY <2>1, <3>1, <3>2, KeyApplied DEF Sound
  <2>2. CASE SelectionApplies \/ BridgeRecovers \/ Synthesizes
    BY <2>2 DEF SelectionApplies, BridgeRecovers, Synthesizes, Sound, WidgetTyped
  <2> QED BY <2>1, <2>2
<1>3. Sound /\ WhileClearing /\ WhileWaiting /\ WhileTyping /\ WhilePasting
  BY <1>1, <1>2 DEF Sound, TextFollowed
<1>4. Synthesizes => stream # <<>> /\ UNCHANGED widget.dialog
  BY DEF Synthesizes, WidgetTyped
<1>5. ~Synthesizes => UNCHANGED stream
  BY DEF AppApplies, SelectionApplies, BridgeRecovers
<1>6. WhileClearing'
  <2>1. CASE entry.pc = "sending" \/ (entry.pc = "ok" /\ entry.way = "keys")
    <3>1. Clearing /\ widget.dialog = "none" /\ typing = 0
          /\ (entry.pc = "ok" => stream = <<>>)
      BY <1>3, <2>1 DEF WhileClearing
    <3>2. Clearing' /\ widget'.dialog = "none"
      <4>1. CASE Synthesizes
        BY <1>4, <3>1, <4>1, ClearingSynthesized
      <4>2. CASE ~Synthesizes
        BY <1>2, <3>1, <4>2, ClearingApplied DEF Live
      <4> QED BY <4>1, <4>2
    <3> QED BY <1>1, <1>4, <1>5, <2>1, <3>1, <3>2 DEF WhileClearing
  <2>2. CASE ~(entry.pc = "sending" \/ (entry.pc = "ok" /\ entry.way = "keys"))
    BY <1>1, <2>2 DEF WhileClearing
  <2> QED BY <2>1, <2>2
<1>7. WhileWaiting'
  <2>1. CASE entry.pc \in {"wait", "paste"} \/ (entry.pc = "restart" /\ entry.back = "wait")
    <3>1. stream = <<>> /\ Deleting(0) /\ widget.dialog = "none" /\ typing = 0
      BY <1>3, <2>1 DEF WhileWaiting
    <3>2. Deleting(0)' /\ widget'.dialog = "none"
      BY <1>2, <1>4, <3>1, DeletingKept DEF Live
    <3> QED BY <1>1, <1>4, <1>5, <3>1, <3>2 DEF WhileWaiting
  <2>2. CASE ~(entry.pc \in {"wait", "paste"} \/ (entry.pc = "restart" /\ entry.back = "wait"))
    BY <1>1, <2>2 DEF WhileWaiting
  <2> QED BY <2>1, <2>2
<1>8. WhileTyping'
  <2>1. CASE entry.pc \in {"type", "typing"} \/ (entry.pc = "ok" /\ entry.way = "native")
    <3>1. /\ stream = <<>> /\ widget.keys = <<>> /\ widget.selection = "none"
          /\ entry.way = "native"
      BY <1>3, <2>1 DEF WhileTyping, WayKept
    <3>2. FALSE
      <4>1. widget.dialog = "none"
        BY <3>1 DEF WayKept
      <4> QED BY <1>4, <3>1, <4>1 DEF AppApplies, SelectionApplies, BridgeRecovers
    <3> QED BY <3>2
  <2>2. CASE ~(entry.pc \in {"type", "typing"} \/ (entry.pc = "ok" /\ entry.way = "native"))
    BY <1>1, <2>2 DEF WhileTyping
  <2> QED BY <2>1, <2>2
<1>9. WhilePasting'
  <2>1. CASE entry.pc \in {"pasting", "poll", "spent"}
    <3>1. PasteFollowed' /\ (stream = <<>> => stream' = <<>>)
      BY <1>2, <1>3, <2>1, PasteChannel DEF WhilePasting
    <3> QED BY <1>1, <1>3, <2>1, <3>1 DEF WhilePasting
  <2>2. CASE entry.pc = "ok" /\ entry.way = "paste"
    <3>1. Landed
      BY <1>3, <2>2 DEF WhilePasting
    <3>2. BridgeRecovers
      BY <1>4, <3>1 DEF Landed, AppApplies, SelectionApplies
    <3>3. /\ widget'.dialog = "none" /\ UNCHANGED stream
          /\ UNCHANGED <<widget.text, widget.keys, widget.selection>>
      BY <3>2 DEF BridgeRecovers, WidgetTyped
    <3>4. Landed'
      BY <3>1, <3>3 DEF Landed
    <3> QED BY <1>1, <2>2, <3>4 DEF WhilePasting
  <2>3. CASE /\ entry.pc \notin {"pasting", "poll", "spent"}
             /\ ~(entry.pc = "ok" /\ entry.way = "paste")
    BY <1>1, <2>3 DEF WhilePasting
  <2> QED BY <2>1, <2>2, <2>3
<1> QED BY <1>6, <1>7, <1>8, <1>9

\* The runner types one piece more.
LEMMA RunnerFollowed ==
  ASSUME EntryTyped, WidgetTyped, ChannelsTyped, WayKept, Ready, TextFollowed, RunnerTypes
  PROVE  TextFollowed'
<1>1. typing > 0 /\ typing \in Nat /\ Pieces \in Nat /\ typing <= Pieces /\ entry.way = "native"
      /\ UNCHANGED <<stream, fate>>
  BY SimulatorBounds DEF RunnerTypes, ChannelsTyped, WayKept
<1>2. widget.dialog = "none"
  BY <1>1 DEF WayKept
<1>3. CASE ~widget.focused
  BY <1>2, <1>3 DEF RunnerTypes, TextFollowed, Sound
<1>4. CASE widget.focused
  <2>1. typing' = typing - 1 /\ widget' = Written(widget, <<"new">>) /\ UNCHANGED entry
    BY <1>2, <1>4 DEF RunnerTypes
  <2>2. /\ UNCHANGED <<widget.focused, widget.dialog, widget.keys>>
        /\ widget'.text = Kept \o <<"new">>
        /\ widget.selection = "none" => widget'.selection = "none"
    BY <2>1 DEF Written, WidgetTyped
  <2>3. CASE ~Sound
    BY <1>1, <2>2, <2>3 DEF Sound, TextFollowed
  <2>4. CASE Sound /\ entry.pc = "typing"
    <3>1. /\ stream = <<>> /\ widget.keys = <<>> /\ widget.selection = "none"
          /\ widget.text = Repeated("new", Pieces - typing)
      BY <2>4 DEF TextFollowed, WhileTyping
    <3>2. Kept = widget.text
      BY <3>1 DEF Kept
    <3>3. PICK n \in Nat : n = Pieces - typing
      BY <1>1
    <3>4. widget'.text = Repeated("new", n + 1)
      BY <2>2, <3>1, <3>2, <3>3, RepeatedSequence
    <3>5. n + 1 = Pieces - typing'
      BY <1>1, <2>1, <3>3
    <3> QED BY <1>1, <2>1, <2>2, <2>4, <3>1, <3>4, <3>5
            DEF TextFollowed, WhileClearing, WhileWaiting, WhileTyping, WhilePasting
  <2>5. CASE Sound /\ entry.pc # "typing"
    <3>1. entry.pc \in {"failed", "restart"} /\ ~(entry.pc = "restart" /\ entry.back = "wait")
      BY <1>1, <2>5 DEF EntryTyped, EntryPlaces, Ready, TextFollowed, WhileClearing, WhileWaiting,
                        WhileTyping, WayKept
    <3> QED BY <2>1, <3>1 DEF TextFollowed, WhileClearing, WhileWaiting, WhileTyping, WhilePasting
  <2> QED BY <2>3, <2>4, <2>5
<1> QED BY <1>3, <1>4

\* The clear is sent to a field at rest.
LEMMA ClearFollowed ==
  ASSUME EntryTyped, WidgetTyped, ChannelsTyped, WayKept, Ready, SendClear
  PROVE  TextFollowed'
<1> SUFFICES ASSUME Sound'
             PROVE  WhileClearing' /\ WhileWaiting' /\ WhileTyping' /\ WhilePasting'
  BY DEF TextFollowed
<1>1. /\ entry.pc = "send" /\ stream' = AllLeft /\ UNCHANGED <<typing, widget>>
      /\ fate' = [fate EXCEPT !.trusted = entry.way = "native" /\ widget.text = <<>>]
  BY ClearAll DEF SendClear
<1>2. entry'.pc = "sending" /\ UNCHANGED entry.way
  BY DEF SendClear, EntryTyped
<1>3. AllLeft' = AllLeft
  BY <1>2 DEF AllLeft, PauseLeft, DeleteLeft, DelayLeft, More
<1>4. /\ widget.keys = <<>> /\ widget.selection # "applying" /\ typing = 0
      /\ widget.dialog = "none"
      /\ entry.way = "paste" => Untouched
  BY <1>1 DEF Ready, WayKept
<1>5. ~(entry.way = "native" /\ widget.text = <<>>)
  <2>1. fate'.trusted = (entry.way = "native" /\ widget.text = <<>>)
    BY <1>1 DEF ChannelsTyped
  <2> QED BY <2>1 DEF Sound
<1>6. Untouched'
  BY <1>1, <1>2, <1>4, <1>5 DEF Untouched
<1>7. Clearing'
  BY <1>1, <1>3, <1>4, <1>6 DEF Clearing, Selecting
<1> QED BY <1>1, <1>2, <1>4, <1>7 DEF WhileClearing, WhileWaiting, WhileTyping, WhilePasting

\* The clear is over, and is seen to have taken the text.
LEMMA ClearedFollowed ==
  ASSUME EntryTyped, WidgetTyped, ChannelsTyped, WayKept, TextFollowed,
         Cleared \/ WaitFieldCleared
  PROVE  TextFollowed'
<1> SUFFICES ASSUME Sound'
             PROVE  WhileClearing' /\ WhileWaiting' /\ WhileTyping' /\ WhilePasting'
  BY DEF TextFollowed
<1>1. CASE Cleared
  <2>1. /\ entry.pc = "sending" /\ stream = <<>> /\ UNCHANGED <<stream, typing, widget, fate>>
        /\ entry' = [entry EXCEPT !.pc = AfterClear[entry.way]]
    BY <1>1 DEF Cleared
  <2>2. /\ UNCHANGED <<entry.way, entry.back>>
        /\ entry.way = "keys" => entry'.pc = "ok"
        /\ entry.way = "native" => entry'.pc = "wait"
        /\ entry.way = "paste" => entry'.pc = "paste"
        /\ entry.way \in {"keys", "native", "paste"}
    BY <2>1 DEF AfterClear, EntryTyped
  <2>3. Clearing /\ widget.dialog = "none" /\ typing = 0
    BY <2>1 DEF TextFollowed, Sound, WhileClearing
  <2>4. Deleting(More)
    BY <2>1, <2>3, ClearingOver
  <2>5. CASE entry.way = "keys"
    <3>1. Clearing'
      BY <2>1, <2>2, <2>3 DEF Clearing, Selecting, Deleting, Pending, Erased, Untouched, Kept, More,
                              AllLeft, PauseLeft, DeleteLeft, DelayLeft
    <3> QED BY <2>1, <2>2, <2>3, <2>5, <3>1
            DEF WhileClearing, WhileWaiting, WhileTyping, WhilePasting
  <2>6. CASE entry.way # "keys"
    <3>1. Deleting(0)
      BY <2>4, <2>6 DEF More
    <3>2. Deleting(0)'
      BY <2>1, <2>2, <3>1 DEF Deleting, Pending, Erased, Untouched, Kept
    <3> QED BY <2>1, <2>2, <2>3, <2>6, <3>2
            DEF WhileClearing, WhileWaiting, WhileTyping, WhilePasting
  <2> QED BY <2>5, <2>6
<1>2. CASE WaitFieldCleared
  <2>1. /\ entry.pc = "wait" /\ entry.way = "native" /\ UNCHANGED <<stream, typing, widget>>
        /\ ~fate.trusted /\ entry.aimed
        /\ \/ widget.text = <<>> /\ entry' = [entry EXCEPT !.pc = "type"]
           \/ widget.text # <<>> /\ entry' = [entry EXCEPT !.reads = @ + 1]
    <3>1. entry.pc = "wait" /\ entry.way = "native" /\ UNCHANGED <<stream, typing, widget>>
      BY <1>2 DEF WaitFieldCleared, WayKept
    <3>2. fate'.trusted = \/ fate.trusted \/ ~entry.aimed
                          \/ entry.reads + 1 = MaxReads /\ ~(~entry.aimed \/ widget.text = <<>>)
      BY <1>2 DEF WaitFieldCleared, ChannelsTyped
    <3>3. ~fate.trusted /\ entry.aimed /\ ~(entry.reads + 1 = MaxReads /\ widget.text # <<>>)
      BY <3>2 DEF Sound
    <3> QED BY <1>2, <3>1, <3>3 DEF WaitFieldCleared
  <2>2. UNCHANGED <<entry.way, entry.back>>
        /\ entry'.pc = IF widget.text = <<>> THEN "type" ELSE "wait"
    BY <2>1 DEF EntryTyped
  <2>3. Sound
    BY <1>2, <2>1 DEF Sound, WaitFieldCleared, ChannelsTyped
  <2>4. stream = <<>> /\ Deleting(0) /\ widget.dialog = "none" /\ typing = 0
    BY <2>1, <2>3 DEF TextFollowed, WhileWaiting
  <2>5. CASE widget.text # <<>>
    <3>1. Deleting(0)'
      BY <2>1, <2>2, <2>4 DEF Deleting, Pending, Erased, Untouched, Kept
    <3> QED BY <2>1, <2>2, <2>4, <2>5, <3>1
            DEF WhileClearing, WhileWaiting, WhileTyping, WhilePasting
  <2>6. CASE widget.text = <<>>
    <3>1. Erased(0)
      BY <2>1, <2>4, <2>6 DEF Deleting, Pending, Untouched
    <3>2. Empty /\ widget.keys = <<>>
      BY <3>1, NothingPending
    <3> QED BY <2>1, <2>2, <2>4, <2>6, <3>2
            DEF WhileClearing, WhileWaiting, WhileTyping, WhilePasting, Empty
  <2> QED BY <2>5, <2>6
<1> QED BY <1>1, <1>2

\* The runner is handed the text, and has typed it.
LEMMA TypingFollowed ==
  ASSUME EntryTyped, WidgetTyped, WayKept, TextFollowed, StartInput \/ TypeText \/ Typed
  PROVE  TextFollowed'
<1>1. CASE StartInput
  <2>1. entry'.pc = "send"
    BY <1>1 DEF StartInput, EntryTyped
  <2> QED BY <2>1 DEF TextFollowed, WhileClearing, WhileWaiting, WhileTyping, WhilePasting
<1>2. CASE TypeText \/ Typed
  <2>1. /\ UNCHANGED <<stream, widget, fate>> /\ UNCHANGED entry.way /\ entry.way = "native"
        /\ \/ entry.pc = "type" /\ entry'.pc = "typing" /\ typing' = Pieces
           \/ entry.pc = "typing" /\ entry'.pc = "ok" /\ typing = 0 /\ typing' = 0
    BY <1>2 DEF TypeText, Typed, EntryTyped, WayKept
  <2>2. Pieces - Pieces = 0 /\ Repeated("new", 0) = <<>>
    BY SimulatorBounds, NoPieces
  <2>3. WhileClearing' /\ WhileWaiting' /\ WhilePasting'
    BY <2>1 DEF WhileClearing, WhileWaiting, WhilePasting
  <2>4. Sound => WhileTyping'
    BY <2>1, <2>2 DEF TextFollowed, WhileTyping
  <2> QED BY <2>1, <2>3, <2>4 DEF TextFollowed, Sound
<1> QED BY <1>1, <1>2

\* The chord of the paste is sent; the pasted text is looked for, and the chord resent
\* past the dialog.
LEMMA PastingFollowed ==
  ASSUME EntryTyped, WidgetTyped, ChannelsTyped, WayKept, TextFollowed,
         PasteChord \/ Pasted \/ PollPaste \/ PasteTimedOut
  PROVE  TextFollowed'
<1> SUFFICES ASSUME Sound'
             PROVE  WhileClearing' /\ WhileWaiting' /\ WhileTyping' /\ WhilePasting'
  BY DEF TextFollowed
<1>1. UNCHANGED <<widget, typing>> /\ entry.way = "paste"
  BY DEF PasteChord, Pasted, PollPaste, PasteTimedOut, WayKept
<1>2. CASE PasteChord
  <2>1. /\ entry.pc = "paste" /\ stream' = <<"paste">> /\ UNCHANGED fate
        /\ entry'.pc = "pasting" /\ UNCHANGED entry.way
    BY <1>2 DEF PasteChord, EntryTyped
  <2>2. Deleting(0) /\ widget.dialog = "none"
    BY <1>1, <2>1 DEF Sound, TextFollowed, WhileWaiting
  <2>3. Deleting(0)'
    BY <1>1, <2>1, <2>2 DEF Deleting, Pending, Erased, Untouched, Kept
  <2>4. PasteFollowed'
    BY <1>1, <2>1, <2>2, <2>3 DEF PasteFollowed, Chord
  <2> QED BY <1>1, <2>1, <2>4 DEF WhileClearing, WhileWaiting, WhileTyping, WhilePasting
<1>3. CASE PasteTimedOut
  <2>1. entry'.pc = "failed"
    BY <1>3 DEF PasteTimedOut, EntryTyped
  <2> QED BY <2>1 DEF WhileClearing, WhileWaiting, WhileTyping, WhilePasting
<1>4. ASSUME UNCHANGED stream, UNCHANGED entry.way, PasteFollowed PROVE PasteFollowed'
  <2>1. Untouched' = Untouched /\ Kept' = Kept /\ Resend' = Resend
    BY <1>1, <1>4, RetryEvents DEF Untouched, Kept
  <2>2. Deleting(0)' = Deleting(0)
    BY <1>1, <2>1 DEF Deleting, Pending, Erased
  <2> QED BY <1>1, <1>4, <2>1, <2>2 DEF PasteFollowed, Chord, Prompts, Again, Landed, Empty
<1>5. CASE Pasted
  <2>1. /\ entry.pc = "pasting" /\ stream = <<>> /\ UNCHANGED <<stream, fate>>
        /\ entry'.pc = "poll" /\ UNCHANGED entry.way
    BY <1>5 DEF Pasted, EntryTyped
  <2>2. PasteFollowed
    BY <1>1, <2>1 DEF Sound, TextFollowed, WhilePasting
  <2>3. PasteFollowed'
    BY <1>4, <2>1, <2>2
  <2> QED BY <2>1, <2>3 DEF WhileClearing, WhileWaiting, WhileTyping, WhilePasting
<1>6. CASE PollPaste
  <2>1. entry.pc = "poll"
    BY <1>6 DEF PollPaste
  <2>2. fate' = fate \/ \E b \in BOOLEAN : fate' = [fate EXCEPT !.mistaken = @ \/ b]
        \/ fate' = [fate EXCEPT !.trusted = TRUE]
    <3>1. \/ PasteLanded
          \/ ~PasteLanded /\ AllowButton
          \/ ~PasteLanded /\ ~AllowButton /\ ~entry.verifiable
          \/ ~PasteLanded /\ ~AllowButton /\ entry.verifiable
      OBVIOUS
    <3> HIDE DEF PasteLanded, AllowButton
    <3> QED BY <1>6, <3>1 DEF PollPaste
  <2>3. Sound
    BY <1>1, <2>2 DEF Sound, ChannelsTyped
  <2>4. PasteFollowed /\ stream = <<>>
    BY <2>1, <2>3 DEF TextFollowed, WhilePasting
  <2>5. CASE PasteLanded
    <3>1. entry' = [entry EXCEPT !.pc = "ok", !.reads = @ + 1] /\ UNCHANGED <<stream, fate>>
      <4> HIDE DEF PasteLanded, AllowButton
      <4> QED BY <1>6, <2>5 DEF PollPaste
    <3>2. entry'.pc = "ok" /\ UNCHANGED entry.way
      BY <3>1 DEF EntryTyped
    <3>3. Landed
      BY <1>1, <2>4, <2>5, LandedWhenSeen
    <3>4. Landed'
      BY <1>1, <3>1, <3>3 DEF Landed
    <3> QED BY <1>1, <3>2, <3>4 DEF WhileClearing, WhileWaiting, WhileTyping, WhilePasting
  <2>6. CASE ~PasteLanded /\ AllowButton
    <3>1. /\ stream' = <<"allow", "pause", "refocus", "pause", "paste">>
          /\ fate' = [fate EXCEPT !.mistaken = @ \/ widget.dialog # "up"]
          /\ \E pc \in {"spent", "pasting"} : entry' = [entry EXCEPT !.pc = pc, !.reads = @ + 1]
      <4> HIDE DEF PasteLanded, AllowButton
      <4> QED BY <1>6, <2>6 DEF PollPaste
    <3>2. entry'.pc \in {"spent", "pasting"} /\ UNCHANGED entry.way
      BY <3>1 DEF EntryTyped
    <3>3. widget.dialog = "up"
      BY <3>1 DEF Sound, ChannelsTyped
    <3>4. Prompts /\ widget.keys = <<>>
      BY <2>4, <3>3, RetryEvents DEF PasteFollowed, Chord, Prompts, Again, Landed
    <3>5. stream' = Resend' /\ Empty'
      BY <1>1, <3>1, <3>4, RetryEvents DEF Prompts, Empty
    <3>6. Prompts'
      BY <1>1, <3>3, <3>4, <3>5 DEF Prompts
    <3> QED BY <3>2, <3>6
            DEF WhileClearing, WhileWaiting, WhileTyping, WhilePasting, PasteFollowed
  <2>7. CASE ~PasteLanded /\ ~AllowButton /\ ~entry.verifiable
    <3>1. fate' = [fate EXCEPT !.trusted = TRUE]
      <4> HIDE DEF PasteLanded, AllowButton
      <4> QED BY <1>6, <2>7 DEF PollPaste
    <3> QED BY <3>1 DEF Sound, ChannelsTyped
  <2>8. CASE ~PasteLanded /\ ~AllowButton /\ entry.verifiable
    <3>1. /\ UNCHANGED <<stream, fate>>
          /\ \E pc \in {"failed", "poll"} : entry' = [entry EXCEPT !.pc = pc, !.reads = @ + 1]
      <4> HIDE DEF PasteLanded, AllowButton
      <4> QED BY <1>6, <2>8 DEF PollPaste
    <3>2. entry'.pc \in {"failed", "poll"} /\ UNCHANGED entry.way
      BY <3>1 DEF EntryTyped
    <3>3. PasteFollowed'
      BY <1>4, <2>4, <3>1, <3>2
    <3> QED BY <2>4, <3>1, <3>2, <3>3 DEF WhileClearing, WhileWaiting, WhileTyping, WhilePasting
  <2> QED BY <2>5, <2>6, <2>7, <2>8
<1> QED BY <1>2, <1>3, <1>5, <1>6

\* A wait that lost its connection goes on from where it was; a call starts over.
LEMMA RecoveryFollowed ==
  ASSUME EntryTyped, WidgetTyped, ChannelsTyped, WayKept, TextFollowed, ConnectionLost \/ Restarted
  PROVE  TextFollowed'
<1> SUFFICES ASSUME Sound'
             PROVE  WhileClearing' /\ WhileWaiting' /\ WhileTyping' /\ WhilePasting'
  BY DEF TextFollowed
<1>1. ASSUME UNCHANGED <<stream, typing>>, UNCHANGED <<entry.way, widget.text, widget.keys>>,
             UNCHANGED <<widget.selection, widget.dialog>>, Sound,
             \/ entry.pc = "wait"
             \/ entry.pc = "restart" /\ entry.back = "wait"
      PROVE  stream' = <<>> /\ Deleting(0)' /\ widget'.dialog = "none" /\ typing' = 0
  <2>1. stream = <<>> /\ Deleting(0) /\ widget.dialog = "none" /\ typing = 0
    BY <1>1 DEF TextFollowed, WhileWaiting
  <2>2. Deleting(0)'
    BY <1>1, <2>1 DEF Deleting, Pending, Erased, Untouched, Kept
  <2> QED BY <1>1, <2>1, <2>2
<1>2. CASE ConnectionLost
  <2>1. UNCHANGED <<stream, typing, widget>> /\ UNCHANGED entry.way
    BY <1>2 DEF ConnectionLost, EntryTyped
  <2>2. PICK b \in BOOLEAN :
          /\ fate' = [fate EXCEPT !.drops = @ + 1, !.trusted = b]
          /\ b = (fate.trusted \/ (entry.pc = "wait" /\ entry.restarting))
    BY <1>2 DEF ConnectionLost, EntryTyped, ChannelsTyped
  <2>3. fate'.trusted = b /\ UNCHANGED fate.mistaken
    BY <2>2 DEF ChannelsTyped
  <2>4. Sound /\ ~(entry.pc = "wait" /\ entry.restarting)
    BY <2>1, <2>2, <2>3 DEF Sound
  <2>5. \/ entry'.pc = "failed"
        \/ entry'.pc = "restart" /\ entry'.back = "send"
        \/ entry'.pc = "restart" /\ entry'.back = "wait" /\ entry.pc = "wait"
    BY <1>2, <2>4 DEF ConnectionLost, EntryTyped
  <2> QED BY <1>1, <2>1, <2>4, <2>5 DEF WhileClearing, WhileWaiting, WhileTyping, WhilePasting
<1>3. CASE Restarted
  <2>1. /\ entry.pc = "restart" /\ stream' = <<>> /\ typing' = 0 /\ UNCHANGED fate
        /\ UNCHANGED <<widget.text, widget.keys, widget.selection, widget.dialog>>
        /\ widget'.focused => widget.focused
    BY <1>3 DEF Restarted, WidgetTyped
  <2>2. /\ UNCHANGED entry.way
        /\ \/ entry'.pc = entry.back
           \/ entry'.pc = "failed"
           \/ entry'.pc = "restart" /\ entry'.back = "send"
    BY <1>3 DEF Restarted, EntryTyped
  <2>3. Sound /\ entry.back \in {"send", "wait"}
    BY <2>1 DEF Sound, EntryTyped
  <2>4. CASE entry'.pc = "wait"
    <3>1. entry.back = "wait"
      BY <2>2, <2>4
    <3>2. stream = <<>> /\ typing = 0
      BY <2>1, <2>3, <3>1 DEF TextFollowed, WhileWaiting
    <3>3. stream' = <<>> /\ Deleting(0)' /\ widget'.dialog = "none" /\ typing' = 0
      BY <1>1, <2>1, <2>2, <2>3, <3>1, <3>2
    <3> QED BY <2>4, <3>3 DEF WhileClearing, WhileWaiting, WhileTyping, WhilePasting
  <2>5. CASE entry'.pc # "wait"
    BY <2>2, <2>3, <2>5 DEF WhileClearing, WhileWaiting, WhileTyping, WhilePasting
  <2> QED BY <2>4, <2>5
<1> QED BY <1>2, <1>3

\* Before the call nothing is on its way.
LEMMA EntryStart == EntryInit => EntryInv
<1> SUFFICES ASSUME EntryInit PROVE EntryInv
  OBVIOUS
<1>1. PICK way \in {"keys", "native", "paste"}, hybrid \in BOOLEAN, aimed \in BOOLEAN,
           soleButton \in BOOLEAN, granted \in BOOLEAN, text \in {<<>>, <<"old", "old">>} :
        /\ way = "native" => hybrid
        /\ way = "paste" => ~hybrid
        /\ entry = [ way |-> way, hybrid |-> hybrid, aimed |-> aimed, soleButton |-> soleButton,
                     pc |-> "idle", back |-> "send", restarting |-> FALSE, reads |-> 0,
                     verifiable |-> FALSE ]
        /\ stream = <<>> /\ typing = 0
        /\ widget = [ text |-> text, keys |-> <<>>, selection |-> "none", focused |-> TRUE,
                      dialog |-> "none", granted |-> granted ]
        /\ fate = [drops |-> 0, trusted |-> FALSE, mistaken |-> FALSE]
  BY DEF EntryInit
<1>2. text \in Seq({"old", "new"}) /\ \A i \in 1..Len(text) : text[i] # "new"
  <2>1. CASE text = <<>>
    BY <2>1
  <2>2. CASE text = <<"old", "old">>
    <3>1. text \in Seq({"old", "new"})
      BY <2>2
    <3>2. Len(text) = 2 /\ text[1] = "old" /\ text[2] = "old"
      BY <2>2
    <3> QED BY <3>1, <3>2
  <2> QED BY <2>1, <2>2
<1>3. EntryTyped /\ WidgetTyped /\ ChannelsTyped
  BY <1>1, <1>2, SimulatorBounds DEF EntryTyped, EntryPlaces, WidgetTyped, ChannelsTyped
<1>4. WayKept /\ ReadsLeft
  BY <1>1 DEF WayKept, ReadsLeft
<1>5. Ready
  BY <1>1, <1>2 DEF Ready, Untouched
<1>6. TextFollowed
  BY <1>1 DEF TextFollowed, WhileClearing, WhileWaiting, WhileTyping, WhilePasting
<1> QED BY <1>3, <1>4, <1>5, <1>6 DEF EntryInv

\* Each step keeps the types, the ways and the place of the text.
LEMMA EntryKept == EntryInv /\ [EntryNext]_entryVars => EntryInv'
<1> SUFFICES ASSUME EntryInv, [EntryNext]_entryVars PROVE EntryInv'
  OBVIOUS
<1>1. CASE EntryNext
  <2>1. EntryTyped' /\ WidgetTyped' /\ ChannelsTyped' /\ WayKept' /\ ReadsLeft'
    BY <1>1, ChannelTypes, DriverTypes, RestartTypes DEF EntryInv, EntryNext
  <2>2. Ready'
    BY <1>1, ReadyStep DEF EntryInv
  <2>3. TextFollowed'
    BY <1>1, ChannelFollowed, RunnerFollowed, ClearFollowed, ClearedFollowed, TypingFollowed,
       PastingFollowed, RecoveryFollowed DEF EntryInv, EntryNext
  <2> QED BY <2>1, <2>2, <2>3 DEF EntryInv
<1>2. CASE UNCHANGED entryVars
  <2>1. EntryTyped' /\ WidgetTyped' /\ ChannelsTyped' /\ WayKept' /\ ReadsLeft'
    BY <1>2 DEF EntryInv, entryVars, EntryTyped, WidgetTyped, ChannelsTyped, WayKept, ReadsLeft
  <2>2. Ready'
    BY <1>2 DEF EntryInv, entryVars, Ready, Untouched
  <2>3. /\ Untouched' = Untouched /\ Kept' = Kept /\ Empty' = Empty /\ More' = More
        /\ Resend' = Resend
    BY <1>2, RetryEvents DEF entryVars, Untouched, Kept, Empty, More
  <2>4. /\ DelayLeft' = DelayLeft /\ DeleteLeft' = DeleteLeft /\ PauseLeft' = PauseLeft
        /\ AllLeft' = AllLeft
    BY <2>3 DEF DelayLeft, DeleteLeft, PauseLeft, AllLeft
  <2>5. \A n \in Nat : Deleting(n)' = Deleting(n)
    BY <1>2, <2>3 DEF entryVars, Deleting, Pending, Erased
  <2>6. PasteFollowed' = PasteFollowed /\ Landed' = Landed
    BY <1>2, <2>3, <2>5 DEF entryVars, PasteFollowed, Chord, Prompts, Again, Landed
  <2>7. Clearing' = Clearing
    BY <1>2, <2>3, <2>4, <2>5, MoreNatural DEF entryVars, Clearing, Selecting
  <2>8. TextFollowed'
    BY <1>2, <2>5, <2>6, <2>7 DEF EntryInv, entryVars, TextFollowed, Sound, WhileClearing,
                                  WhileWaiting, WhileTyping, WhilePasting
  <2> QED BY <2>1, <2>2, <2>8 DEF EntryInv
<1> QED BY <1>1, <1>2

\* The inductive invariant of an InputText on a simulator.
THEOREM EntryInvariant == EntrySpec => []EntryInv
BY EntryStart, EntryKept, PTL DEF EntrySpec

\* The erased field with every piece applied holds the text.
LEMMA ErasedThenTyped ==
  ASSUME Erased(Pieces), widget.keys = <<>>
  PROVE  widget.text = Wanted
<1>1. PICK m \in 0..Pieces : /\ widget.text = Repeated("new", m)
                             /\ widget.keys = Repeated("type", Pieces - m)
  BY DEF Erased
<1>2. PICK k \in Nat : k = Pieces - m
  BY SimulatorBounds
<1>3. k = 0
  BY <1>1, <1>2, RepeatedSequence
<1>4. m = Pieces
  BY <1>2, <1>3, SimulatorBounds
<1> QED BY <1>1, <1>4 DEF Repeated, Wanted

\* An InputText that reports success leaves the text in the field once and nothing else
\* (InputReplaces; driver.go:880-970, input.go:114-224).
THEOREM TextReplaced == EntrySpec => []InputReplaces
<1>1. EntryInv => InputReplaces
  <2> SUFFICES ASSUME EntryInv, entry.pc = "ok", AtRest, Sound PROVE widget.text = Wanted
    BY DEF InputReplaces, Sound
  <2>1. WhileClearing /\ WhileTyping /\ WhilePasting /\ entry.way \in {"keys", "native", "paste"}
        /\ stream = <<>> /\ widget.keys = <<>>
    BY DEF EntryInv, TextFollowed, EntryTyped, AtRest
  <2>2. CASE entry.way = "keys"
    <3>1. Deleting(Pieces)
      BY <2>1, <2>2, ClearingOver DEF WhileClearing, More
    <3>2. PICK s \in Seq(Events) : s = Repeated("type", Pieces)
      BY PieceKeys, SimulatorBounds
    <3>3. Before("backspace", s) # <<>>
      BY BeforeSequence DEF Events, AppKeys, FieldKeys
    <3>4. Erased(Pieces)
      BY <2>1, <3>1, <3>2, <3>3 DEF Deleting, Pending
    <3> QED BY <2>1, <3>4, ErasedThenTyped
  <2>3. CASE entry.way = "native"
    <3>1. widget.text = Repeated("new", Pieces - 0)
      BY <2>1, <2>3 DEF WhileTyping
    <3>2. Pieces - 0 = Pieces
      BY SimulatorBounds
    <3> QED BY <3>1, <3>2 DEF Repeated, Wanted
  <2>4. CASE entry.way = "paste"
    BY <2>1, <2>4 DEF WhilePasting, Landed
  <2> QED BY <2>1, <2>2, <2>3, <2>4
<1> QED BY <1>1, EntryInvariant, PTL

(***************************************************************************)
(* Settle.                                                                 *)
(***************************************************************************)

SettlePlaces == {"idle", "read", "prior", "poll", "judge", "sleep", "verified", "held"}
AppType == [left : 0..Fade, live : BOOLEAN, resting : BOOLEAN, fades : Nat, churns : Nat]
IdleType == [timer : 0..Quiet, opened : BOOLEAN, window : 0..Window, budget : 0..Budget]
TreeType == [two : BOOLEAN, live : BOOLEAN, diff : SUBSET Kinds]
FetchType ==
  [ pc : SettlePlaces, wait : Nat, attempt : 1..Attempts, again : BOOLEAN, cap : 0..Cap,
    streak : 0..NoStreak, prior : BOOLEAN, tree : TreeType ]

SettleTyped ==
  /\ platform \in {"web", "android"}
  /\ app \in AppType /\ idle \in IdleType /\ fetch \in FetchType
  /\ since \in [tree : SUBSET Kinds, read : SUBSET Kinds, fetch : SUBSET Kinds]
  /\ unseen \in [late : BOOLEAN, timedOut : BOOLEAN, failed : BOOLEAN]
  /\ ~app.live => app.left = 0
  /\ fetch.pc = "idle" => fetch.attempt = 1 /\ ~fetch.again
  /\ fetch.pc = "sleep" => fetch.attempt < Attempts
  /\ platform = "web" => fetch.pc \notin {"prior", "poll"} /\ ~fetch.again

\* On the web a cross-fade the script can still wait for ends before the window and the
\* budget do, so none runs when a read begins.
ScriptWaits ==
  platform = "web" /\ ~unseen.late =>
    /\ fetch.pc = "idle" /\ app.live => app.left < idle.window /\ app.left < idle.budget
    /\ fetch.pc # "idle" => ~app.live
    /\ ~fetch.tree.live

\* What the tree in hand shows is what the app shows, but for what changed since it was
\* read, and so is what it is compared with.
InHandTree == fetch.pc \in {"prior", "poll", "judge"}
TreeFollowed ==
  InHandTree =>
    /\ since.tree = fetch.tree.diff \cup since.read
    /\ "shape" \notin since.read => fetch.tree.live = app.live /\ fetch.tree.two = TwoRoutes

\* A cross-fade that has run through the poll with no change of the tree is over before
\* the poll is.
PollOutlasts ==
  fetch.pc \in {"prior", "poll"} /\ app.live /\ "shape" \notin since.tree =>
    app.left + (Cap - fetch.cap) <= Fade

\* On Android a tree that is accepted, or was, is of an app at rest unless its shape has
\* changed since the tree before it; and the second read sees such a change.
AcceptedRests ==
  platform = "android" /\ ~app.resting =>
    /\ fetch.pc = "judge" \/ fetch.again => "shape" \in since.tree \/ ~app.live
    /\ InHandTree /\ fetch.again /\ fetch.tree.live => "shape" \in fetch.tree.diff

\* From the second attempt on, and in the second read, what a tree is compared for changed
\* under the reads.
ChangesSeen ==
  /\ InHandTree => since.read \subseteq since.fetch
  /\ fetch.attempt > 1 \/ fetch.again \/ fetch.pc = "sleep" => since.tree \subseteq since.fetch

SettleInv ==
  /\ SettleTyped /\ ScriptWaits /\ TreeFollowed /\ PollOutlasts /\ AcceptedRests
  /\ ChangesSeen /\ VerifiedTreeIsSettled

\* Writing one field of a record keeps its type, and reading one gives the field's.
LEMMA AppFields ==
  /\ \A a \in AppType, x \in 0..Fade : [a EXCEPT !.left = x] \in AppType
  /\ \A a \in AppType, x \in BOOLEAN : [a EXCEPT !.live = x] \in AppType
  /\ \A a \in AppType, x \in BOOLEAN : [a EXCEPT !.resting = x] \in AppType
  /\ \A a \in AppType, x \in Nat : [a EXCEPT !.fades = x] \in AppType
  /\ \A a \in AppType, x \in Nat : [a EXCEPT !.churns = x] \in AppType
  /\ \A a \in AppType : a.left \in 0..Fade
  /\ \A a \in AppType : a.live \in BOOLEAN
  /\ \A a \in AppType : a.resting \in BOOLEAN
  /\ \A a \in AppType : a.fades \in Nat
  /\ \A a \in AppType : a.churns \in Nat
  BY DEF AppType

LEMMA IdleFields ==
  /\ \A s \in IdleType, x \in 0..Quiet : [s EXCEPT !.timer = x] \in IdleType
  /\ \A s \in IdleType, x \in BOOLEAN : [s EXCEPT !.opened = x] \in IdleType
  /\ \A s \in IdleType, x \in 0..Window : [s EXCEPT !.window = x] \in IdleType
  /\ \A s \in IdleType, x \in 0..Budget : [s EXCEPT !.budget = x] \in IdleType
  /\ \A s \in IdleType : s.timer \in 0..Quiet
  /\ \A s \in IdleType : s.opened \in BOOLEAN
  /\ \A s \in IdleType : s.window \in 0..Window
  /\ \A s \in IdleType : s.budget \in 0..Budget
  BY DEF IdleType

LEMMA FetchFields ==
  /\ \A f \in FetchType, x \in SettlePlaces : [f EXCEPT !.pc = x] \in FetchType
  /\ \A f \in FetchType, x \in Nat : [f EXCEPT !.wait = x] \in FetchType
  /\ \A f \in FetchType, x \in 1..Attempts : [f EXCEPT !.attempt = x] \in FetchType
  /\ \A f \in FetchType, x \in BOOLEAN : [f EXCEPT !.again = x] \in FetchType
  /\ \A f \in FetchType, x \in 0..Cap : [f EXCEPT !.cap = x] \in FetchType
  /\ \A f \in FetchType, x \in 0..NoStreak : [f EXCEPT !.streak = x] \in FetchType
  /\ \A f \in FetchType, x \in BOOLEAN : [f EXCEPT !.prior = x] \in FetchType
  /\ \A f \in FetchType, x \in TreeType : [f EXCEPT !.tree = x] \in FetchType
  /\ \A f \in FetchType : f.pc \in SettlePlaces
  /\ \A f \in FetchType : f.wait \in Nat
  /\ \A f \in FetchType : f.attempt \in 1..Attempts
  /\ \A f \in FetchType : f.again \in BOOLEAN
  /\ \A f \in FetchType : f.cap \in 0..Cap
  /\ \A f \in FetchType : f.streak \in 0..NoStreak
  /\ \A f \in FetchType : f.prior \in BOOLEAN
  /\ \A f \in FetchType : f.tree \in TreeType
  BY DEF FetchType

LEMMA SettleStart == SettleInit => SettleInv
<1> SUFFICES ASSUME SettleInit PROVE SettleInv
  OBVIOUS
<1>1. PICK left \in 0..Fade, resting \in BOOLEAN :
        app = [left |-> left, live |-> left > 0, resting |-> resting, fades |-> 0, churns |-> 0]
  BY DEF SettleInit
<1>2. /\ app \in AppType /\ (~app.live => app.left = 0)
      /\ app.live => app.left < Window /\ app.left < Budget
  <2>1. app.left = left /\ app.live = (left > 0)
    BY <1>1
  <2>2. (left > 0) \in BOOLEAN /\ 0 \in Nat
    OBVIOUS
  <2>3. app \in AppType
    BY <1>1, <2>2 DEF AppType
  <2>4. left \in Nat /\ left < Window /\ left < Budget /\ (~(left > 0) => left = 0)
    BY DEF Fade, Window, Budget
  <2> QED BY <2>1, <2>3, <2>4
<1>3. idle = [timer |-> Quiet, opened |-> FALSE, window |-> Window, budget |-> Budget]
  BY DEF SettleInit, Unsettled, Reopened
<1>4. idle \in IdleType /\ idle.window = Window /\ idle.budget = Budget
  BY <1>3 DEF IdleType, Quiet, Window, Budget
<1>5. fetch = [ pc |-> "idle", wait |-> 0, attempt |-> 1, again |-> FALSE, cap |-> 0,
               streak |-> NoStreak, prior |-> FALSE,
               tree |-> [two |-> FALSE, live |-> FALSE, diff |-> {}] ]
  BY DEF SettleInit
<1>6. /\ fetch \in FetchType /\ fetch.pc = "idle" /\ fetch.attempt = 1 /\ ~fetch.again
      /\ ~fetch.tree.live
  BY <1>5 DEF FetchType, TreeType, SettlePlaces, Attempts, Cap, NoStreak, Streak
<1>7. /\ platform \in {"web", "android"}
      /\ since = [tree |-> {}, read |-> {}, fetch |-> {}]
      /\ unseen = [late |-> FALSE, timedOut |-> FALSE, failed |-> FALSE]
  BY DEF SettleInit
<1>8. SettleTyped
  BY <1>2, <1>4, <1>6, <1>7 DEF SettleTyped
<1>9. /\ ScriptWaits /\ TreeFollowed /\ PollOutlasts /\ AcceptedRests /\ ChangesSeen
      /\ VerifiedTreeIsSettled
  BY <1>2, <1>4, <1>6, <1>7 DEF ScriptWaits, TreeFollowed, PollOutlasts, AcceptedRests,
     ChangesSeen, VerifiedTreeIsSettled, InHandTree
<1> QED BY <1>8, <1>9 DEF SettleInv

LEMMA SettleTypes ==
  ASSUME SettleTyped, SettleNext
  PROVE  SettleTyped'
<1>t. /\ platform \in {"web", "android"}
      /\ app \in AppType /\ idle \in IdleType /\ fetch \in FetchType
      /\ since \in [tree : SUBSET Kinds, read : SUBSET Kinds, fetch : SUBSET Kinds]
      /\ unseen \in [late : BOOLEAN, timedOut : BOOLEAN, failed : BOOLEAN]
      /\ ~app.live => app.left = 0
      /\ fetch.pc = "idle" => fetch.attempt = 1 /\ ~fetch.again
      /\ fetch.pc = "sleep" => fetch.attempt < Attempts
      /\ platform = "web" => fetch.pc \notin {"prior", "poll"} /\ ~fetch.again
  BY DEF SettleTyped
<1>p. SettlePlaces = {"idle", "read", "prior", "poll", "judge", "sleep", "verified", "held"}
  BY DEF SettlePlaces
<1>n. /\ Fade \in 0..Fade /\ Quiet \in 0..Quiet /\ Window \in 0..Window /\ 1 \in 0..Quiet
      /\ Budget \in 0..Budget /\ 0 \in 0..Cap /\ Cap \in 0..Cap /\ NoStreak \in 0..NoStreak
      /\ Streak \in 0..NoStreak /\ 1 \in 1..Attempts /\ RetrySleep \in Nat
      /\ \A duration \in ReadTime : duration \in Nat /\ Interval + duration \in Nat
  BY DEF Fade, Quiet, Window, Budget, Cap, NoStreak, Streak, Attempts, RetrySleep, ReadTime,
         Interval
<1>c. /\ \A b \in Nat : \A n \in 0..b : Countdown(n) \in 0..b /\ (n = 0 => Countdown(n) = 0)
      /\ \A n \in Nat : Countdown(n) \in Nat
  BY DEF Countdown
<1>b. Fade \in Nat /\ Quiet \in Nat /\ Window \in Nat /\ Budget \in Nat /\ Cap \in Nat /\ NoStreak \in Nat
  BY DEF Fade, Quiet, Window, Budget, Cap, NoStreak, Streak
<1>1. ASSUME NEW kind \in Kinds, Changes(kind)
      PROVE  /\ since' \in [tree : SUBSET Kinds, read : SUBSET Kinds, fetch : SUBSET Kinds]
             /\ idle' \in IdleType
  <2>1. since' \in [tree : SUBSET Kinds, read : SUBSET Kinds, fetch : SUBSET Kinds]
    BY <1>1, <1>t DEF Changes
  <2>2. CASE idle' = idle
    BY <1>t, <2>1, <2>2
  <2>3. CASE idle' = [idle EXCEPT !.timer = Quiet, !.opened = FALSE, !.window = Window]
    BY <1>t, <1>n, <2>1, <2>3, IdleFields
  <2> QED BY <1>1, <2>1, <2>2, <2>3 DEF Changes, Reopened
<1>2. {"shape"} \subseteq Kinds
  BY DEF Kinds
<1>3. CASE Opens
  <2>1. app' = [app EXCEPT !.live = TRUE, !.left = Fade, !.fades = @ + 1] /\ app.fades + 1 \in Nat
    BY <1>3, <1>t, AppFields DEF Opens
  <2>2. app' \in AppType /\ app'.live
    BY <2>1, <1>t, <1>n, AppFields DEF AppType
  <2>3. PICK late \in BOOLEAN : unseen' = [unseen EXCEPT !.late = late]
    BY <1>3, <1>t DEF Opens
  <2> QED BY <1>1, <1>2, <1>3, <1>t, <2>2, <2>3 DEF Opens, SettleTyped
<1>4. CASE Closes
  <2>a. app' = [app EXCEPT !.live = FALSE] /\ app.left = 0
    BY <1>4 DEF Closes
  <2>b. app' \in AppType
    BY <2>a, <1>t, AppFields
  <2>1. app' \in AppType /\ app'.left = 0
    BY <2>a, <2>b, <1>t DEF AppType
  <2> QED BY <1>1, <1>2, <1>4, <1>t, <2>1 DEF Closes, SettleTyped
<1>5. CASE Churns
  <2>1. app.churns + 1 \in Nat /\ app' = [app EXCEPT !.churns = app.churns + 1]
    BY <1>5, <1>t, AppFields DEF Churns
  <2>2. app' \in AppType /\ app'.left = app.left /\ app'.live = app.live
    BY <2>1, <1>t, AppFields DEF AppType
  <2> QED BY <1>1, <1>5, <1>t, <2>2 DEF Churns, SettleTyped
<1>6. CASE Tick
  <2>1. PICK left \in 0..Fade : app' = [app EXCEPT !.left = left] /\ (app.left = 0 => left = 0)
    <3>1. app.left \in 0..Fade
      BY <1>t, AppFields
    <3>2. Countdown(app.left) \in 0..Fade /\ (app.left = 0 => Countdown(app.left) = 0)
      BY <3>1, <1>b, <1>c
    <3> QED BY <1>6, <3>1, <3>2 DEF Tick
  <2>2. app' \in AppType /\ app'.left = left /\ app'.live = app.live
    BY <2>1, <1>t, AppFields DEF AppType
  <2>3. idle' \in IdleType
    <3>1. /\ idle.timer \in 0..Quiet /\ idle.budget \in 0..Budget /\ idle.window \in 0..Window
      BY <1>t, IdleFields
    <3>2. /\ Countdown(idle.timer) \in 0..Quiet /\ Countdown(idle.budget) \in 0..Budget
          /\ Countdown(idle.window) \in 0..Window
      BY <3>1, <1>b, <1>c
    <3>3. CASE idle' = idle
      BY <1>t, <3>3
    <3>4. ASSUME NEW window \in 0..Window,
                 idle' = [idle EXCEPT !.timer = Countdown(@), !.budget = Countdown(@),
                                      !.window = window]
          PROVE  idle' \in IdleType
      BY <1>t, <3>2, <3>4, IdleFields
    <3> QED BY <1>6, <3>1, <3>2, <3>3, <3>4 DEF Tick
  <2>4. fetch' \in FetchType /\ UNCHANGED <<fetch.pc, fetch.attempt, fetch.again>>
    <3>1. fetch.wait \in Nat /\ fetch.cap \in 0..Cap /\ fetch.streak \in 0..NoStreak
      BY <1>t, FetchFields
    <3>2. Countdown(fetch.wait) \in Nat /\ Countdown(fetch.cap) \in 0..Cap
      BY <3>1, <1>b, <1>c
    <3>3. PICK streak \in 0..NoStreak :
            fetch' = [fetch EXCEPT !.wait = Countdown(@), !.cap = Countdown(@), !.streak = streak]
      <4>1. Countdown(fetch.streak) \in 0..NoStreak
        BY <3>1, <1>b, <1>c
      <4> QED BY <1>6, <3>1, <4>1 DEF Tick
    <3>4. fetch' \in FetchType
      BY <1>t, <3>2, <3>3, FetchFields
    <3> QED BY <1>t, <3>3, <3>4 DEF FetchType
  <2> QED BY <1>6, <1>t, <2>1, <2>2, <2>3, <2>4 DEF Tick, SettleTyped
<1>7. ASSUME NEW pc \in SettlePlaces, NEW attempt \in 1..Attempts, NEW after \in Nat,
             Reads(pc, attempt, after), \A duration \in ReadTime : after + duration \in Nat
      PROVE  fetch' \in FetchType /\ fetch'.pc = pc /\ fetch'.again = fetch.again
  <2>1. PICK wait \in Nat : fetch' = [fetch EXCEPT !.pc = pc, !.attempt = attempt, !.wait = wait]
    BY <1>7 DEF Reads
  <2>2. PICK placed \in FetchType : placed = [fetch EXCEPT !.pc = pc]
    BY <1>t, FetchFields
  <2>3. PICK tried \in FetchType : tried = [placed EXCEPT !.attempt = attempt]
    BY FetchFields
  <2>4. fetch' = [tried EXCEPT !.wait = wait]
    BY <2>1, <2>2, <2>3
  <2>5. fetch' \in FetchType
    BY <2>4, FetchFields
  <2>6. fetch'.pc = pc /\ fetch'.again = fetch.again
    BY <1>t, <2>1 DEF FetchType
  <2> QED BY <2>5, <2>6
<1>8. ASSUME Settled PROVE SettleTyped'
  <2>1. idle' \in IdleType
    BY <1>8, <1>n DEF Settled, Unsettled, Reopened, IdleType
  <2>2. /\ fetch' \in FetchType /\ fetch'.pc = "read" /\ fetch'.again = fetch.again
    BY <1>7, <1>8, <1>n, <1>p DEF Settled
  <2> QED BY <1>8, <1>t, <2>1, <2>2 DEF Settled, SettleTyped
<1>9. CASE QuietEnds
  <2>1. CASE UNCHANGED <<platform, app, fetch, since, unseen>>
             /\ idle' = [idle EXCEPT !.opened = TRUE, !.timer = 1]
    <3>1. idle' \in IdleType
      BY <1>t, <1>n, <2>1, IdleFields
    <3> QED BY <1>t, <2>1, <3>1 DEF SettleTyped
  <2> QED BY <1>8, <1>9, <2>1 DEF QuietEnds
<1>10. CASE BudgetEnds \/ WaitForAppToSettle
  BY <1>8, <1>10 DEF BudgetEnds, WaitForAppToSettle
<1>11. Tree \in TreeType
  <2>1. app.live \in BOOLEAN /\ app.resting \in BOOLEAN /\ since.tree \subseteq Kinds
    BY <1>t, AppFields
  <2> QED BY <2>1 DEF Tree, TwoRoutes, TreeType
<1>12. [since EXCEPT !.read = {}] \in [tree : SUBSET Kinds, read : SUBSET Kinds, fetch : SUBSET Kinds]
  BY <1>t
<1>13. ASSUME NEW state \in FetchType, state.again = fetch.again, PollsOn(state)
       PROVE  fetch' \in FetchType /\ fetch'.pc \in {"judge", "poll"} /\ fetch'.again = fetch.again
  <2>1. CASE Answers(state)
    <3>1. fetch' = [state EXCEPT !.pc = "judge", !.cap = 0, !.streak = NoStreak, !.prior = FALSE]
      BY <2>1 DEF Answers
    <3>2. fetch' \in FetchType
      BY <1>13, <1>n, <1>p, <3>1, FetchFields
    <3> QED BY <1>13, <3>1, <3>2 DEF FetchType
  <2>2. ASSUME NEW wait \in Nat, fetch' = [state EXCEPT !.pc = "poll", !.wait = wait]
        PROVE  fetch' \in FetchType /\ fetch'.pc = "poll" /\ fetch'.again = fetch.again
    <3>1. fetch' \in FetchType
      BY <1>13, <1>p, <2>2, FetchFields
    <3> QED BY <1>13, <2>2, <3>1 DEF FetchType
  <2> QED BY <1>13, <1>n, <2>1, <2>2 DEF PollsOn
<1>14. CASE Read
  <2>1. CASE fetch' = [fetch EXCEPT !.pc = "judge", !.tree = Tree]
    <3>1. fetch' \in FetchType
      BY <1>t, <1>p, <1>11, <2>1, FetchFields
    <3>2. fetch'.pc = "judge" /\ fetch'.again = fetch.again
      BY <1>t, <2>1 DEF FetchType
    <3> QED BY <1>t, <1>12, <1>14, <3>1, <3>2 DEF Read, SettleTyped
  <2>2. ASSUME platform = "android", NEW wait \in Nat,
               fetch' = [fetch EXCEPT !.pc = "prior", !.wait = wait, !.cap = Cap,
                                      !.streak = NoStreak, !.tree = Tree]
        PROVE  SettleTyped'
    <3>1. fetch' \in FetchType
      BY <1>t, <1>n, <1>p, <1>11, <2>2, FetchFields
    <3>2. fetch'.pc = "prior" /\ fetch'.again = fetch.again
      BY <1>t, <2>2 DEF FetchType
    <3> QED BY <1>t, <1>12, <1>14, <2>2, <3>1, <3>2 DEF Read, SettleTyped
  <2> QED BY <1>14, <1>n, <2>1, <2>2 DEF Read
<1>15. CASE Prior
  <2>1. TwoRoutes \in BOOLEAN
    BY DEF TwoRoutes
  <2>2. /\ [fetch EXCEPT !.tree = Tree, !.prior = ~TwoRoutes] \in FetchType
        /\ [fetch EXCEPT !.prior = FALSE] \in FetchType
    BY <1>t, <1>11, <2>1, FetchFields
  <2>a. /\ [fetch EXCEPT !.tree = Tree, !.prior = ~TwoRoutes].again = fetch.again
        /\ [fetch EXCEPT !.prior = FALSE].again = fetch.again
    BY <1>t DEF FetchType
  <2>3. fetch' \in FetchType /\ fetch'.pc \in {"judge", "poll"} /\ fetch'.again = fetch.again
    BY <1>13, <1>15, <2>2, <2>a DEF Prior
  <2>4. platform = "android" /\ fetch.pc = "prior"
    BY <1>15, <1>t DEF Prior, At
  <2> QED BY <1>t, <1>12, <1>15, <2>3, <2>4 DEF Prior, SettleTyped
<1>16. CASE Poll
  <2> DEFINE read == [fetch EXCEPT !.tree = Tree, !.prior = ~TwoRoutes]
  <2>1. read \in FetchType /\ read.again = fetch.again
    <3>1. TwoRoutes \in BOOLEAN
      BY DEF TwoRoutes
    <3>2. read \in FetchType
      BY <1>t, <1>11, <3>1, FetchFields
    <3> QED BY <1>t, <3>2 DEF FetchType
  <2>2. platform = "android" /\ fetch.pc = "poll"
    BY <1>16, <1>t DEF Poll, At
  <2> HIDE DEF read
  <2>3. /\ [fetch EXCEPT !.prior = FALSE, !.streak = NoStreak] \in FetchType
        /\ [fetch EXCEPT !.prior = FALSE, !.streak = NoStreak].again = fetch.again
    <3> DEFINE off == [fetch EXCEPT !.prior = FALSE]
               failed == [fetch EXCEPT !.prior = FALSE, !.streak = NoStreak]
    <3>1. off \in FetchType
      BY <1>t, FetchFields
    <3>2. [off EXCEPT !.streak = NoStreak] \in FetchType
      <4> HIDE DEF off
      <4> QED BY <1>n, <3>1, FetchFields
    <3>3. failed = [off EXCEPT !.streak = NoStreak] /\ failed.again = fetch.again
      BY <1>t DEF FetchType
    <3> HIDE DEF off, failed
    <3>4. failed \in FetchType /\ failed.again = fetch.again
      BY <3>2, <3>3
    <3> QED BY <3>4 DEF failed
  <2>4. \A streak \in 0..NoStreak :
           /\ [read EXCEPT !.streak = streak] \in FetchType
           /\ [read EXCEPT !.streak = streak].again = fetch.again
    <3>1. \A streak \in 0..NoStreak : [read EXCEPT !.streak = streak] \in FetchType
      BY <2>1, FetchFields
    <3>2. \A streak \in 0..NoStreak : [read EXCEPT !.streak = streak].again = fetch.again
      BY <2>1 DEF FetchType
    <3> QED BY <3>1, <3>2
  <2>5. read.streak \in 0..NoStreak
    BY <2>1, FetchFields
  <2>6. Answers(read) => /\ fetch' \in FetchType /\ fetch'.pc \in {"judge", "poll"}
                         /\ fetch'.again = fetch.again
    <3>1. ASSUME fetch' = [read EXCEPT !.pc = "judge", !.cap = 0, !.streak = NoStreak,
                                       !.prior = FALSE]
          PROVE  fetch' \in FetchType
      BY <1>n, <1>p, <2>1, <3>1, FetchFields
    <3> QED BY <2>1, <3>1 DEF Answers, FetchType
  <2>7. \/ Answers(read)
        \/ \E streak \in 0..NoStreak : PollsOn([read EXCEPT !.streak = streak])
        \/ PollsOn([fetch EXCEPT !.prior = FALSE, !.streak = NoStreak])
    BY <1>16, <1>n, <2>5 DEF Poll, read
  <2>8. fetch' \in FetchType /\ fetch'.pc \in {"judge", "poll"} /\ fetch'.again = fetch.again
    BY <1>13, <2>3, <2>4, <2>6, <2>7
  <2>9. since' \in {since, [since EXCEPT !.read = {}]} /\ UNCHANGED <<platform, app, idle, unseen>>
    BY <1>16 DEF Poll
  <2> QED BY <1>t, <1>12, <2>2, <2>8, <2>9 DEF SettleTyped
<1>17. CASE ReadFails
  <2>1. PICK pc \in {"verified", "held"} : fetch' = [fetch EXCEPT !.pc = pc]
    BY <1>17 DEF ReadFails
  <2>2. fetch' \in FetchType
    BY <1>t, <1>p, <2>1, FetchFields
  <2>3. fetch'.pc = pc /\ fetch'.again = fetch.again
    BY <1>t, <2>1 DEF FetchType
  <2> QED BY <1>t, <1>17, <2>2, <2>3 DEF ReadFails, SettleTyped
<1>18. [since EXCEPT !.tree = since.read] \in [tree : SUBSET Kinds, read : SUBSET Kinds, fetch : SUBSET Kinds]
  BY <1>t
<1>19. CASE Accept
  <2>1. CASE platform = "web" /\ fetch' = [fetch EXCEPT !.pc = "verified"]
    <3>1. fetch' \in FetchType
      BY <1>t, <1>p, <2>1, FetchFields
    <3>2. fetch'.pc = "verified" /\ fetch'.again = fetch.again
      BY <1>t, <2>1 DEF FetchType
    <3> QED BY <1>t, <1>18, <1>19, <3>1, <3>2 DEF Accept, SettleTyped
  <2>2. ASSUME platform = "android", NEW wait \in Nat,
               fetch' = [fetch EXCEPT !.pc = "read", !.wait = wait, !.again = TRUE]
        PROVE  SettleTyped'
    <3>1. fetch' \in FetchType
      BY <1>t, <1>p, <2>2, FetchFields
    <3>2. fetch'.pc = "read"
      BY <1>t, <2>2 DEF FetchType
    <3> QED BY <1>t, <1>18, <1>19, <2>2, <3>1, <3>2 DEF Accept, SettleTyped
  <2> QED BY <1>19, <1>n, <1>t, <2>1, <2>2 DEF Accept
<1>20. CASE Retry
  <2>1. /\ fetch' \in FetchType /\ fetch'.pc \in {"held", "sleep"}
        /\ fetch'.again = fetch.again /\ fetch'.attempt = fetch.attempt
        /\ fetch'.pc = "sleep" => fetch.attempt # Attempts
    <3>1. CASE fetch.attempt = Attempts /\ fetch' = [fetch EXCEPT !.pc = "held"]
      <4>1. fetch' \in FetchType
        BY <1>t, <1>p, <3>1, FetchFields
      <4> QED BY <1>t, <3>1, <4>1 DEF FetchType
    <3>2. CASE /\ fetch.attempt # Attempts
               /\ fetch' = [fetch EXCEPT !.pc = "sleep", !.wait = RetrySleep]
      <4>1. fetch' \in FetchType
        BY <1>t, <1>n, <1>p, <3>2, FetchFields
      <4> QED BY <1>t, <3>2, <4>1 DEF FetchType
    <3> QED BY <1>20, <3>1, <3>2 DEF Retry
  <2>2. since' \in {since, [since EXCEPT !.tree = since.read]} /\ UNCHANGED <<platform, app, idle, unseen>>
    BY <1>20 DEF Retry
  <2>3. fetch.attempt # Attempts => fetch.attempt < Attempts
    BY <1>t, FetchFields DEF Attempts
  <2> QED BY <1>t, <1>18, <2>1, <2>2, <2>3 DEF SettleTyped
<1>21. CASE FetchAgain
  <2>1. fetch.attempt + 1 \in 1..Attempts
    <3>1. fetch.attempt \in 1..Attempts /\ fetch.attempt < Attempts
      BY <1>t, <1>21, FetchFields DEF FetchAgain, At
    <3> QED BY <3>1 DEF Attempts
  <2>2. fetch' \in FetchType /\ fetch'.pc = "read" /\ fetch'.again = fetch.again
    BY <1>7, <1>n, <1>p, <1>21, <2>1 DEF FetchAgain
  <2> QED BY <1>t, <1>21, <2>2 DEF FetchAgain, SettleTyped
<1>22. CASE TimesOut
  <2>1. fetch' = [fetch EXCEPT !.pc = "verified"]
    BY <1>22 DEF TimesOut
  <2>2. fetch' \in FetchType
    BY <1>t, <1>p, <2>1, FetchFields
  <2>3. fetch'.pc = "verified" /\ fetch'.again = fetch.again
    BY <1>t, <2>1 DEF FetchType
  <2> QED BY <1>t, <1>22, <2>2, <2>3 DEF TimesOut, SettleTyped
<1>23. CASE ChangedOnReread
  <2>1. PICK pc \in {"verified", "held"} : fetch' = [fetch EXCEPT !.pc = pc]
    BY <1>23 DEF ChangedOnReread
  <2>2. fetch' \in FetchType
    BY <1>t, <1>p, <2>1, FetchFields
  <2>3. fetch'.pc = pc /\ fetch'.again = fetch.again
    BY <1>t, <2>1 DEF FetchType
  <2> QED BY <1>t, <1>23, <2>2, <2>3 DEF ChangedOnReread, SettleTyped
<1> QED BY <1>3, <1>4, <1>5, <1>6, <1>9, <1>10, <1>14, <1>15, <1>16, <1>17, <1>19, <1>20,
           <1>21, <1>22, <1>23 DEF SettleNext

\* The fields the invariants speak of, one by one.
SettleFlat ==
  /\ platform \in {"web", "android"} /\ app.left \in Nat /\ app.left <= Fade
  /\ app.live \in BOOLEAN /\ app.resting \in BOOLEAN
  /\ idle.window \in Nat /\ idle.budget \in Nat
  /\ fetch.pc \in SettlePlaces /\ fetch.cap \in Nat /\ fetch.cap <= Cap
  /\ fetch.attempt \in Nat /\ fetch.again \in BOOLEAN
  /\ since.tree \subseteq Kinds /\ since.read \subseteq Kinds
  /\ unseen.late \in BOOLEAN /\ unseen.timedOut \in BOOLEAN /\ unseen.failed \in BOOLEAN

LEMMA FlatFields == SettleTyped => SettleFlat
<1> SUFFICES ASSUME SettleTyped PROVE SettleFlat
  OBVIOUS
<1>1. /\ app \in AppType /\ idle \in IdleType /\ fetch \in FetchType
      /\ since \in [tree : SUBSET Kinds, read : SUBSET Kinds, fetch : SUBSET Kinds]
      /\ unseen \in [late : BOOLEAN, timedOut : BOOLEAN, failed : BOOLEAN]
      /\ platform \in {"web", "android"}
  BY DEF SettleTyped
<1>2. /\ app.left \in 0..Fade /\ app.live \in BOOLEAN /\ app.resting \in BOOLEAN
      /\ idle.window \in 0..Window /\ idle.budget \in 0..Budget
      /\ fetch.pc \in SettlePlaces /\ fetch.cap \in 0..Cap /\ fetch.attempt \in 1..Attempts
      /\ fetch.again \in BOOLEAN
  BY <1>1, AppFields, IdleFields, FetchFields
<1>3. /\ since.tree \subseteq Kinds /\ since.read \subseteq Kinds
      /\ unseen.late \in BOOLEAN /\ unseen.timedOut \in BOOLEAN /\ unseen.failed \in BOOLEAN
  BY <1>1
<1>4. /\ app.left \in Nat /\ app.left <= Fade /\ idle.window \in Nat /\ idle.budget \in Nat
      /\ fetch.cap \in Nat /\ fetch.cap <= Cap /\ fetch.attempt \in Nat
  BY <1>2 DEF Fade, Window, Budget, Cap, Attempts
<1> QED BY <1>1, <1>2, <1>3, <1>4 DEF SettleFlat

\* What a change of the tree leaves.
LEMMA ChangeFields ==
  ASSUME SettleTyped, NEW kind \in Kinds, Changes(kind)
  PROVE  /\ since'.tree = since.tree \cup {kind} /\ since'.read = since.read \cup {kind}
         /\ since.fetch \subseteq since'.fetch
         /\ fetch.pc # "idle" => since'.fetch = since.fetch \cup {kind}
         /\ idle'.budget = idle.budget
         /\ idle'.window = idle.window \/ idle'.window = Window
         /\ kind = "shape" /\ platform = "web" /\ fetch.pc = "idle" => idle'.window = Window
<1>1. idle \in IdleType /\ since \in [tree : SUBSET Kinds, read : SUBSET Kinds, fetch : SUBSET Kinds]
  BY DEF SettleTyped
<1>2. since' = [ tree |-> since.tree \cup {kind}, read |-> since.read \cup {kind},
                 fetch |-> since.fetch \cup IF fetch.pc = "idle" THEN {} ELSE {kind} ]
  BY DEF Changes
<1>3. CASE idle' = idle /\ (kind = "layout" \/ fetch.pc # "idle" \/ platform = "android")
  BY <1>2, <1>3
<1>4. CASE idle' = [idle EXCEPT !.timer = Quiet, !.opened = FALSE, !.window = Window]
  <2>1. idle'.budget = idle.budget /\ idle'.window = Window
    BY <1>1, <1>4 DEF IdleType
  <2> QED BY <1>2, <2>1
<1> QED BY <1>3, <1>4 DEF Changes, Reopened

\* The app moves.
LEMMA AppMoves ==
  ASSUME SettleInv, Opens \/ Closes \/ Churns
  PROVE  SettleInv'
<1>1. SettleTyped /\ SettleTyped' /\ SettleFlat
  BY SettleTypes, FlatFields DEF SettleInv, SettleNext
<1>2. PICK kind \in Kinds : Changes(kind) /\ (Opens \/ Closes => kind = "shape")
  BY DEF Opens, Closes, Churns, Kinds
<1>3. /\ fetch' = fetch /\ platform' = platform /\ fetch.pc \notin {"verified", "held"}
      /\ unseen'.timedOut = unseen.timedOut /\ unseen'.failed = unseen.failed
      /\ unseen.late => unseen'.late
      /\ app'.resting = app.resting
      /\ Closes => ~app'.live
      /\ Opens => /\ app'.live /\ app'.left = Fade
                  /\ unseen'.late \/ (fetch.pc = "idle" /\ ~(idle.budget <= Fade))
      /\ Churns => app'.live = app.live /\ app'.left = app.left
  BY <1>1 DEF Opens, Closes, Churns, Ended, SettleTyped, AppType
<1>4. /\ since'.tree = since.tree \cup {kind} /\ since'.read = since.read \cup {kind}
      /\ since.fetch \subseteq since'.fetch
      /\ fetch.pc # "idle" => since'.fetch = since.fetch \cup {kind}
      /\ idle'.budget = idle.budget
      /\ idle'.window = idle.window \/ idle'.window = Window
      /\ kind = "shape" /\ platform = "web" /\ fetch.pc = "idle" => idle'.window = Window
  BY <1>1, <1>2, ChangeFields
<1>5. kind # "shape" => Churns
  BY <1>2
<1>6. ScriptWaits'
  <2>1. Fade < Window
    BY DEF Fade, Window
  <2>2. ScriptWaits
    BY DEF SettleInv
  <2>3. app.left < Window
    BY <1>1, <2>1 DEF SettleFlat, Fade, Window
  <2>4. CASE Opens
    <3>1. ~(idle.budget <= Fade) => Fade < idle.budget
      BY <1>1 DEF SettleFlat, Fade
    <3> QED BY <1>2, <1>3, <1>4, <2>1, <2>2, <2>4, <3>1 DEF ScriptWaits
  <2>5. CASE Closes
    BY <1>3, <2>2, <2>5 DEF ScriptWaits
  <2>6. CASE Churns
    BY <1>3, <1>4, <2>2, <2>3, <2>6 DEF ScriptWaits
  <2> QED BY <2>4, <2>5, <2>6
<1>7. TreeFollowed'
  BY <1>2, <1>3, <1>4, <1>5 DEF SettleInv, TreeFollowed, InHandTree, TwoRoutes
<1>8. PollOutlasts'
  BY <1>2, <1>3, <1>4, <1>5 DEF SettleInv, PollOutlasts
<1>9. AcceptedRests'
  BY <1>2, <1>3, <1>4, <1>5 DEF SettleInv, AcceptedRests, InHandTree
<1>10. ChangesSeen'
  <2>1. fetch.attempt > 1 \/ fetch.again \/ fetch.pc = "sleep" => fetch.pc # "idle"
    BY <1>1 DEF SettleTyped
  <2> QED BY <1>3, <1>4, <2>1 DEF SettleInv, ChangesSeen, InHandTree
<1>11. VerifiedTreeIsSettled'
  BY <1>3 DEF VerifiedTreeIsSettled
<1> QED BY <1>1, <1>6, <1>7, <1>8, <1>9, <1>10, <1>11 DEF SettleInv

\* Time passes.
LEMMA TimePasses ==
  ASSUME SettleInv, Tick
  PROVE  SettleInv'
<1>1. SettleTyped /\ SettleTyped' /\ SettleFlat
  BY SettleTypes, FlatFields DEF SettleInv, SettleNext
<1>2. /\ UNCHANGED <<platform, since, unseen>>
      /\ app'.left = Countdown(app.left) /\ app'.live = app.live /\ app'.resting = app.resting
      /\ ~(app.live /\ app.left = 0)
  BY <1>1 DEF Tick, SettleTyped, AppType
<1>3. /\ fetch'.pc = fetch.pc /\ fetch'.attempt = fetch.attempt /\ fetch'.again = fetch.again
      /\ fetch'.cap = Countdown(fetch.cap) /\ fetch'.tree = fetch.tree
  BY <1>1 DEF Tick, SettleTyped, FetchType
<1>4. /\ idle'.window \in {idle.window, Countdown(idle.window)}
      /\ idle'.budget \in {idle.budget, Countdown(idle.budget)}
  <2>1. CASE idle' = idle
    BY <2>1
  <2>2. CASE idle' = [idle EXCEPT !.timer = Countdown(@), !.budget = Countdown(@),
                                  !.window = IF idle.opened THEN Countdown(@) ELSE @]
    BY <1>1, <2>2 DEF SettleTyped, IdleType
  <2> QED BY <2>1, <2>2 DEF Tick
<1>5. /\ app.left \in Nat /\ idle.window \in Nat /\ idle.budget \in Nat /\ fetch.cap \in Nat
      /\ app.left <= Fade
  BY <1>1 DEF SettleFlat
<1>6. ScriptWaits'
  <2>1. ASSUME NEW n \in Nat, app.left < n, app.live
        PROVE  Countdown(app.left) < n /\ Countdown(app.left) < Countdown(n)
    BY <1>2, <1>5, <2>1 DEF Countdown
  <2> QED BY <1>2, <1>3, <1>4, <1>5, <2>1 DEF SettleInv, ScriptWaits
<1>7. TreeFollowed'
  BY <1>2, <1>3 DEF SettleInv, TreeFollowed, InHandTree, TwoRoutes
<1>8. PollOutlasts'
  <2>1. app.live /\ app.left + (Cap - fetch.cap) <= Fade
          => Countdown(app.left) + (Cap - Countdown(fetch.cap)) <= Fade
    BY <1>2, <1>5 DEF Countdown, Cap, Fade
  <2> QED BY <1>2, <1>3, <2>1 DEF SettleInv, PollOutlasts
<1>9. AcceptedRests'
  BY <1>2, <1>3 DEF SettleInv, AcceptedRests, InHandTree
<1>10. ChangesSeen'
  BY <1>2, <1>3 DEF SettleInv, ChangesSeen, InHandTree
<1>11. VerifiedTreeIsSettled'
  BY <1>2, <1>3 DEF SettleInv, VerifiedTreeIsSettled
<1> QED BY <1>1, <1>6, <1>7, <1>8, <1>9, <1>10, <1>11 DEF SettleInv

\* The settle ends, or its script polls once more.
LEMMA SettleLeaves ==
  ASSUME SettleInv, QuietEnds \/ BudgetEnds \/ WaitForAppToSettle
  PROVE  SettleInv'
<1>1. SettleTyped /\ SettleTyped' /\ SettleFlat
  BY SettleTypes, FlatFields DEF SettleInv, SettleNext
<1>2. UNCHANGED <<platform, app, since, unseen>> /\ fetch.pc = "idle"
  BY DEF QuietEnds, BudgetEnds, WaitForAppToSettle, Settled
<1>3. CASE fetch' = fetch /\ idle' = [idle EXCEPT !.opened = TRUE, !.timer = 1]
  <2>1. idle'.window = idle.window /\ idle'.budget = idle.budget
    BY <1>1, <1>3 DEF SettleTyped, IdleType
  <2> QED BY <1>1, <1>2, <1>3, <2>1 DEF SettleInv, ScriptWaits, TreeFollowed, PollOutlasts,
             AcceptedRests, ChangesSeen, VerifiedTreeIsSettled, InHandTree, TwoRoutes
<1>4. CASE /\ Settled
           /\ platform = "web" => idle.budget = 0 \/ ~(TwoRoutes /\ idle.window > 0)
  <2>1. PICK wait : fetch' = [fetch EXCEPT !.pc = "read", !.attempt = 1, !.wait = wait]
    BY <1>4 DEF Settled, Reads
  <2>2. fetch'.pc = "read" /\ fetch'.attempt = 1 /\ fetch'.again = fetch.again /\ ~fetch.again
        /\ fetch'.tree = fetch.tree
    BY <1>1, <1>2, <2>1 DEF SettleTyped, FetchType
  <2>3. ScriptWaits'
    <3> SUFFICES ASSUME platform = "web", ~unseen.late PROVE ~app.live
      BY <1>2, <2>2 DEF SettleInv, ScriptWaits
    <3>1. app.live => app.left < idle.window /\ app.left < idle.budget
      BY <1>2 DEF SettleInv, ScriptWaits
    <3>2. app.left \in Nat /\ idle.window \in Nat /\ idle.budget \in Nat
      BY <1>1 DEF SettleFlat
    <3>3. app.live => TwoRoutes
      BY DEF TwoRoutes
    <3> QED BY <1>4, <3>1, <3>2, <3>3
  <2> QED BY <1>1, <1>2, <2>2, <2>3 DEF SettleInv, TreeFollowed, PollOutlasts,
             AcceptedRests, ChangesSeen, VerifiedTreeIsSettled, InHandTree
<1> QED BY <1>3, <1>4 DEF QuietEnds, BudgetEnds, WaitForAppToSettle

\* A read of the poll leaves the tree it found, or the one in hand; the poll ends on a tree
\* of one route or when its cap is spent.
LEMMA PollReads ==
  ASSUME SettleInv, SettleTyped', platform = "android", fetch.pc \in {"prior", "poll"},
         UNCHANGED <<platform, app, idle, unseen>>,
         fetch'.pc \in {"judge", "poll"}, fetch'.attempt = fetch.attempt,
         fetch'.again = fetch.again,
         fetch'.pc = "poll" => fetch'.cap = fetch.cap,
         fetch'.pc = "judge" => fetch.cap = 0 \/ ~TwoRoutes,
         since'.tree = since.tree, since'.fetch = since.fetch,
         \/ fetch'.tree = Tree /\ since'.read = {}
         \/ fetch'.tree = fetch.tree /\ since'.read = since.read
  PROVE  SettleInv'
<1>1. SettleTyped /\ SettleFlat
  BY FlatFields DEF SettleInv
<1>2. ScriptWaits' /\ VerifiedTreeIsSettled'
  BY DEF ScriptWaits, VerifiedTreeIsSettled
<1>3. TreeFollowed'
  BY DEF SettleInv, TreeFollowed, InHandTree, Tree, TwoRoutes
<1>4. PollOutlasts'
  BY DEF SettleInv, PollOutlasts
<1>5. AcceptedRests'
  <2>1. fetch.cap = 0 /\ app.live => "shape" \in since.tree
    BY <1>1 DEF SettleInv, PollOutlasts, SettleFlat, Cap, Fade
  <2>2. app.live => TwoRoutes
    BY DEF TwoRoutes
  <2>3. AcceptedRests /\ InHandTree
    BY DEF SettleInv, InHandTree
  <2> QED BY <2>1, <2>2, <2>3 DEF AcceptedRests, Tree
<1>6. ChangesSeen'
  BY DEF SettleInv, ChangesSeen, InHandTree
<1> QED BY <1>2, <1>3, <1>4, <1>5, <1>6 DEF SettleInv

\* What PollsOn leaves of the state it is given.
LEMMA PollFields ==
  ASSUME NEW state \in FetchType, PollsOn(state) \/ Answers(state)
  PROVE  /\ fetch'.pc \in {"judge", "poll"} /\ fetch'.attempt = state.attempt
         /\ fetch'.again = state.again /\ fetch'.tree = state.tree
         /\ fetch'.pc = "poll" => fetch'.cap = state.cap
         /\ fetch'.pc = "judge" => state.cap = 0 \/ Answers(state)
<1>1. CASE Answers(state)
  BY <1>1 DEF Answers, FetchType
<1>2. ASSUME NEW wait, fetch' = [state EXCEPT !.pc = "poll", !.wait = wait], state.cap # 0
      PROVE  /\ fetch'.pc = "poll" /\ fetch'.attempt = state.attempt /\ fetch'.cap = state.cap
             /\ fetch'.again = state.again /\ fetch'.tree = state.tree
  BY <1>2 DEF FetchType
<1> QED BY <1>1, <1>2 DEF PollsOn

LEMMA SnapshotReads ==
  ASSUME SettleInv, Read \/ Prior \/ Poll
  PROVE  SettleInv'
<1>1. SettleTyped /\ SettleTyped' /\ SettleFlat
  BY SettleTypes, FlatFields DEF SettleInv, SettleNext
<1>2. UNCHANGED <<platform, app, idle, unseen>> /\ fetch \in FetchType
  BY <1>1 DEF Read, Prior, Poll, SettleTyped
<1>3. since' \in {since, [since EXCEPT !.read = {}]}
  BY DEF Read, Prior, Poll
<1>4. since'.tree = since.tree /\ since'.fetch = since.fetch
  BY <1>1, <1>3 DEF SettleTyped
<1>5. CASE Read
  <2>1. since'.read = {}
    BY <1>1, <1>5 DEF Read, SettleTyped
  <2>2. fetch.pc = "read"
    BY <1>5 DEF Read, At
  <2>3. /\ fetch'.pc \in {"judge", "prior"} /\ fetch'.attempt = fetch.attempt
        /\ fetch'.again = fetch.again /\ fetch'.tree = Tree
        /\ fetch'.pc = "prior" => fetch'.cap = Cap
        /\ fetch'.pc = "judge" => platform = "web" \/ ~TwoRoutes
    <3>1. CASE /\ fetch' = [fetch EXCEPT !.pc = "judge", !.tree = Tree]
               /\ platform = "web" \/ ~TwoRoutes
      BY <1>2, <3>1 DEF FetchType
    <3>2. ASSUME NEW wait, fetch' = [fetch EXCEPT !.pc = "prior", !.wait = wait, !.cap = Cap,
                                                  !.streak = NoStreak, !.tree = Tree]
          PROVE  /\ fetch'.pc = "prior" /\ fetch'.attempt = fetch.attempt
                 /\ fetch'.again = fetch.again /\ fetch'.tree = Tree /\ fetch'.cap = Cap
      BY <1>2, <3>2 DEF FetchType
    <3>3. platform \in {"web", "android"}
      BY <1>1 DEF SettleTyped
    <3> QED BY <1>5, <3>1, <3>2, <3>3 DEF Read
  <2>4. ScriptWaits' /\ VerifiedTreeIsSettled'
    BY <1>2, <2>2, <2>3 DEF SettleInv, ScriptWaits, VerifiedTreeIsSettled, Tree
  <2>5. TreeFollowed'
    BY <1>2, <1>4, <2>1, <2>3 DEF TreeFollowed, InHandTree, Tree, TwoRoutes
  <2>6. PollOutlasts'
    BY <1>1, <1>2, <2>3 DEF SettleFlat, PollOutlasts, Cap, Fade
  <2>7. AcceptedRests'
    BY <1>2, <1>4, <2>3 DEF SettleInv, AcceptedRests, InHandTree, Tree, TwoRoutes
  <2>8. ChangesSeen'
    BY <1>4, <2>1, <2>3 DEF SettleInv, ChangesSeen, InHandTree
  <2> QED BY <1>1, <2>4, <2>5, <2>6, <2>7, <2>8 DEF SettleInv
<1>6. [fetch EXCEPT !.tree = Tree, !.prior = ~TwoRoutes] \in FetchType
  <2>1. app.live \in BOOLEAN /\ app.resting \in BOOLEAN /\ since.tree \subseteq Kinds
    BY <1>1 DEF SettleFlat
  <2>2. Tree \in TreeType /\ (~TwoRoutes) \in BOOLEAN
    BY <2>1 DEF Tree, TwoRoutes, TreeType
  <2> QED BY <1>2, <2>2, FetchFields
<1>7. PICK read \in FetchType : read = [fetch EXCEPT !.tree = Tree, !.prior = ~TwoRoutes]
  BY <1>6
<1>8. /\ read.tree = Tree /\ read.attempt = fetch.attempt /\ read.again = fetch.again
      /\ read.cap = fetch.cap /\ read.streak = fetch.streak
  BY <1>2, <1>7 DEF FetchType
<1>n. NoStreak \in 0..NoStreak /\ Streak \in 0..NoStreak
  BY DEF NoStreak, Streak
<1>9. ASSUME NEW streak \in 0..NoStreak
      PROVE  /\ [read EXCEPT !.streak = streak] \in FetchType
             /\ [read EXCEPT !.streak = streak].tree = Tree
             /\ [read EXCEPT !.streak = streak].attempt = fetch.attempt
             /\ [read EXCEPT !.streak = streak].again = fetch.again
             /\ [read EXCEPT !.streak = streak].cap = fetch.cap
  <2>1. [read EXCEPT !.streak = streak] \in FetchType
    BY <1>7, FetchFields
  <2> QED BY <1>8, <2>1 DEF FetchType
<1>10. ASSUME NEW streak \in 0..NoStreak
       PROVE  /\ [fetch EXCEPT !.prior = FALSE, !.streak = streak] \in FetchType
              /\ [fetch EXCEPT !.prior = FALSE, !.streak = streak].tree = fetch.tree
              /\ [fetch EXCEPT !.prior = FALSE, !.streak = streak].attempt = fetch.attempt
              /\ [fetch EXCEPT !.prior = FALSE, !.streak = streak].again = fetch.again
              /\ [fetch EXCEPT !.prior = FALSE, !.streak = streak].cap = fetch.cap
  <2>1. [fetch EXCEPT !.prior = FALSE, !.streak = streak] \in FetchType
    BY <1>2, FetchFields
  <2> QED BY <1>2, <2>1 DEF FetchType
<1>11. ASSUME Prior \/ Poll
       PROVE  \E state \in FetchType :
                /\ state.attempt = fetch.attempt /\ state.again = fetch.again
                /\ state.cap = fetch.cap
                /\ \/ state.tree = Tree /\ since'.read = {}
                   \/ state.tree = fetch.tree /\ since'.read = since.read
                /\ PollsOn(state) \/ (Answers(state) /\ ~TwoRoutes)
  <2>0. [since EXCEPT !.read = {}].read = {}
    BY <1>1 DEF SettleTyped
  <2>1. CASE PollsOn(read) /\ since' = [since EXCEPT !.read = {}]
    BY <1>8, <2>0, <2>1
  <2>2. CASE Answers(read) /\ ~TwoRoutes /\ since' = [since EXCEPT !.read = {}]
    BY <1>8, <2>0, <2>2
  <2>3. ASSUME NEW streak \in 0..NoStreak, PollsOn([read EXCEPT !.streak = streak]),
               since' = [since EXCEPT !.read = {}]
        PROVE  \E state \in FetchType :
                 /\ state.attempt = fetch.attempt /\ state.again = fetch.again
                 /\ state.cap = fetch.cap /\ state.tree = Tree /\ since'.read = {}
                 /\ PollsOn(state)
    BY <1>9, <2>0, <2>3
  <2>4. ASSUME NEW streak \in 0..NoStreak, since' = since,
               PollsOn([fetch EXCEPT !.prior = FALSE, !.streak = streak])
        PROVE  \E state \in FetchType :
                 /\ state.attempt = fetch.attempt /\ state.again = fetch.again
                 /\ state.cap = fetch.cap /\ state.tree = fetch.tree /\ since'.read = since.read
                 /\ PollsOn(state)
    BY <1>10, <2>4
  <2>5. CASE Prior
    <3>1. [fetch EXCEPT !.prior = FALSE] \in FetchType
      BY <1>2, FetchFields
    <3>2. /\ [fetch EXCEPT !.prior = FALSE].tree = fetch.tree
          /\ [fetch EXCEPT !.prior = FALSE].attempt = fetch.attempt
          /\ [fetch EXCEPT !.prior = FALSE].again = fetch.again
          /\ [fetch EXCEPT !.prior = FALSE].cap = fetch.cap
      BY <1>2 DEF FetchType
    <3>3. CASE PollsOn([fetch EXCEPT !.prior = FALSE]) /\ since' = since
      BY <3>1, <3>2, <3>3
    <3> QED BY <1>7, <2>1, <2>5, <3>3 DEF Prior
  <2>6. CASE Poll
    <3>1. fetch.streak \in 0..NoStreak
      BY <1>2, FetchFields
    <3>2. \/ Answers(read) /\ ~TwoRoutes /\ since' = [since EXCEPT !.read = {}]
          \/ \E streak \in 0..NoStreak :
               PollsOn([read EXCEPT !.streak = streak]) /\ since' = [since EXCEPT !.read = {}]
          \/ PollsOn([fetch EXCEPT !.prior = FALSE, !.streak = NoStreak]) /\ since' = since
      BY <1>7, <1>8, <1>n, <2>6, <3>1 DEF Poll
    <3> QED BY <1>n, <2>2, <2>3, <2>4, <3>2
  <2> QED BY <1>11, <2>5, <2>6
<1>12. CASE Prior \/ Poll
  <2>1. PICK state \in FetchType :
           /\ state.attempt = fetch.attempt /\ state.again = fetch.again
           /\ state.cap = fetch.cap
           /\ \/ state.tree = Tree /\ since'.read = {}
              \/ state.tree = fetch.tree /\ since'.read = since.read
           /\ PollsOn(state) \/ (Answers(state) /\ ~TwoRoutes)
    BY <1>11, <1>12
  <2>2. fetch.pc \in {"prior", "poll"} /\ platform = "android"
    BY <1>1, <1>12 DEF Prior, Poll, At, SettleTyped
  <2>3. /\ fetch'.pc \in {"judge", "poll"} /\ fetch'.attempt = fetch.attempt
        /\ fetch'.again = fetch.again /\ fetch'.tree = state.tree
        /\ fetch'.pc = "poll" => fetch'.cap = fetch.cap
    BY <2>1, PollFields
  <2>4. fetch'.pc = "judge" => fetch.cap = 0 \/ ~TwoRoutes
    <3>1. CASE Answers(state) /\ ~TwoRoutes
      BY <3>1
    <3>2. ASSUME PollsOn(state), fetch'.pc = "judge" PROVE state.cap = 0
      <4>1. ASSUME NEW wait, fetch' = [state EXCEPT !.pc = "poll", !.wait = wait]
            PROVE  fetch'.pc = "poll"
        BY <4>1 DEF FetchType
      <4> QED BY <3>2, <4>1 DEF PollsOn
    <3> QED BY <2>1, <3>1, <3>2
  <2> QED BY <1>1, <1>2, <1>4, <2>1, <2>2, <2>3, <2>4, PollReads
<1> QED BY <1>5, <1>12

\* fetchSyncedState decides.
LEMMA FetchDecides ==
  ASSUME SettleInv, ReadFails \/ Accept \/ Retry \/ FetchAgain \/ TimesOut \/ ChangedOnReread
  PROVE  SettleInv'
<1>1. SettleTyped /\ SettleTyped' /\ SettleFlat
  BY SettleTypes, FlatFields DEF SettleInv, SettleNext
<1>2. UNCHANGED <<platform, app, idle>> /\ fetch \in FetchType
  BY <1>1 DEF ReadFails, Accept, Retry, FetchAgain, TimesOut, ChangedOnReread, SettleTyped
<1>3. since' \in {since, [since EXCEPT !.tree = since.read]}
  BY DEF ReadFails, Accept, Retry, FetchAgain, TimesOut, ChangedOnReread
<1>4. since'.read = since.read /\ since'.fetch = since.fetch
  BY <1>1, <1>3 DEF SettleTyped
<1>5. ASSUME NEW pc, fetch' = [fetch EXCEPT !.pc = pc]
      PROVE  /\ fetch'.pc = pc /\ fetch'.tree = fetch.tree /\ fetch'.again = fetch.again
             /\ fetch'.attempt = fetch.attempt
  BY <1>2, <1>5 DEF FetchType
<1>6. SettleInv
  OBVIOUS
<1>7. ASSUME fetch'.pc \in {"verified", "held"}, fetch'.tree = fetch.tree,
             fetch'.again = fetch.again, fetch'.attempt = fetch.attempt,
             fetch.pc # "idle", unseen'.late = unseen.late,
             \/ since'.tree = since.tree
             \/ /\ since'.tree = since.read
                /\ ~fetch.again /\ fetch.pc = "judge" /\ platform = "web",
             VerifiedTreeIsSettled'
      PROVE  SettleInv'
  <2>1. ScriptWaits' /\ TreeFollowed' /\ PollOutlasts'
    BY <1>2, <1>6, <1>7 DEF SettleInv, ScriptWaits, TreeFollowed, PollOutlasts, InHandTree
  <2>2. AcceptedRests'
    BY <1>1, <1>2, <1>6, <1>7 DEF SettleInv, AcceptedRests, InHandTree, SettleTyped
  <2>3. ChangesSeen'
    BY <1>2, <1>4, <1>6, <1>7 DEF SettleInv, ChangesSeen, InHandTree
  <2> QED BY <1>1, <1>7, <2>1, <2>2, <2>3 DEF SettleInv
<1>8. CASE ReadFails
  <2>1. /\ unseen'.failed /\ unseen'.late = unseen.late /\ unseen'.timedOut = unseen.timedOut
        /\ since' = since /\ fetch.pc = "read"
    BY <1>1, <1>8 DEF ReadFails, At, SettleTyped
  <2>2. fetch' = [fetch EXCEPT !.pc = "verified"] \/ fetch' = [fetch EXCEPT !.pc = "held"]
    BY <1>8 DEF ReadFails
  <2>3. fetch'.tree = fetch.tree /\ fetch'.again = fetch.again /\ fetch'.attempt = fetch.attempt
        /\ fetch'.pc \in {"verified", "held"}
    BY <1>5, <2>2
  <2>4. VerifiedTreeIsSettled'
    <3>1. platform = "web" /\ fetch.tree.live => unseen.late
      BY <1>6 DEF SettleInv, ScriptWaits
    <3> QED BY <1>1, <1>2, <2>1, <2>3, <3>1 DEF VerifiedTreeIsSettled, SettleTyped
  <2>5. fetch.pc # "idle" /\ since'.tree = since.tree
    BY <2>1
  <2> QED BY <1>7, <2>1, <2>3, <2>4, <2>5
<1>9. CASE Accept
  <2>1. /\ fetch.pc = "judge" /\ ~fetch.again /\ unseen' = unseen
        /\ ~fetch.tree.two \/ (fetch.attempt > 1 /\ fetch.tree.diff = {})
        /\ since'.tree = since.read
    BY <1>1, <1>9 DEF Accept, At, LooksRestful, RestsUnchanged, SettleTyped
  <2>2. CASE platform = "web" /\ fetch' = [fetch EXCEPT !.pc = "verified"]
    <3>1. /\ fetch'.tree = fetch.tree /\ fetch'.again = fetch.again
          /\ fetch'.attempt = fetch.attempt /\ fetch'.pc = "verified"
      BY <1>5, <2>2
    <3>2. fetch.tree.live => unseen.late
      BY <1>6, <2>2 DEF SettleInv, ScriptWaits
    <3>3. VerifiedTreeIsSettled'
      BY <1>2, <2>1, <2>2, <3>1, <3>2 DEF VerifiedTreeIsSettled
    <3> QED BY <1>7, <2>1, <2>2, <3>1, <3>3
  <2>3. ASSUME platform = "android", NEW wait,
               fetch' = [fetch EXCEPT !.pc = "read", !.wait = wait, !.again = TRUE]
        PROVE  SettleInv'
    <3>1. /\ fetch'.pc = "read" /\ fetch'.again /\ fetch'.attempt = fetch.attempt
      BY <1>2, <2>3 DEF FetchType
    <3>2. /\ since.tree = fetch.tree.diff \cup since.read
          /\ "shape" \notin since.read => fetch.tree.two = TwoRoutes
          /\ ~app.resting => "shape" \in since.tree \/ ~app.live
          /\ since.read \subseteq since.fetch
      BY <1>6, <2>1, <2>3 DEF SettleInv, TreeFollowed, AcceptedRests, ChangesSeen, InHandTree
    <3>3. ~app.resting => "shape" \in since.read \/ ~app.live
      BY <2>1, <3>2 DEF TwoRoutes
    <3>4. /\ ScriptWaits' /\ TreeFollowed' /\ PollOutlasts' /\ VerifiedTreeIsSettled'
      BY <1>2, <2>3, <3>1 DEF ScriptWaits, TreeFollowed, PollOutlasts, VerifiedTreeIsSettled,
         InHandTree
    <3>5. AcceptedRests' /\ ChangesSeen'
      BY <1>2, <1>4, <2>1, <3>1, <3>2, <3>3 DEF AcceptedRests, ChangesSeen, InHandTree
    <3> QED BY <1>1, <3>4, <3>5 DEF SettleInv
  <2>4. platform \in {"web", "android"}
    BY <1>1 DEF SettleTyped
  <2> QED BY <1>9, <2>2, <2>3, <2>4 DEF Accept
<1>10. CASE Retry
  <2>1. /\ fetch.pc = "judge" /\ ~fetch.again /\ unseen' = unseen
        /\ ~(fetch.attempt > 1 /\ fetch.tree.diff = {})
    BY <1>10 DEF Retry, At, RestsUnchanged
  <2>2. CASE fetch.attempt = Attempts /\ fetch' = [fetch EXCEPT !.pc = "held"] /\ since' = since
    <3>1. /\ fetch'.tree = fetch.tree /\ fetch'.again = fetch.again
          /\ fetch'.attempt = fetch.attempt /\ fetch'.pc = "held"
      BY <1>5, <2>2
    <3>2. fetch.attempt > 1
      BY <2>2 DEF Attempts
    <3>3. since.tree = fetch.tree.diff \cup since.read /\ since.tree \subseteq since.fetch
      BY <1>6, <2>1, <3>2 DEF SettleInv, TreeFollowed, ChangesSeen, InHandTree
    <3>4. since.fetch # {}
      BY <2>1, <3>2, <3>3
    <3>5. VerifiedTreeIsSettled'
      BY <2>2, <3>1, <3>4 DEF VerifiedTreeIsSettled
    <3>6. fetch.pc # "idle" /\ since'.tree = since.tree /\ unseen'.late = unseen.late
      BY <2>1, <2>2
    <3> QED BY <1>7, <3>1, <3>5, <3>6
  <2>3. CASE /\ fetch' = [fetch EXCEPT !.pc = "sleep", !.wait = RetrySleep]
             /\ since' = [since EXCEPT !.tree = since.read]
    <3>1. fetch'.pc = "sleep" /\ fetch'.again = fetch.again /\ fetch'.tree = fetch.tree
      BY <1>2, <2>3 DEF FetchType
    <3>2. since'.tree = since.read
      BY <1>1, <2>3 DEF SettleTyped
    <3>3. ScriptWaits' /\ TreeFollowed' /\ PollOutlasts' /\ VerifiedTreeIsSettled'
      BY <1>2, <1>6, <2>1, <3>1 DEF SettleInv, ScriptWaits, TreeFollowed, PollOutlasts,
         VerifiedTreeIsSettled, InHandTree
    <3>4. AcceptedRests'
      BY <1>2, <2>1, <3>1 DEF AcceptedRests, InHandTree
    <3>5. ChangesSeen'
      BY <1>4, <1>6, <2>1, <3>1, <3>2 DEF SettleInv, ChangesSeen, InHandTree
    <3> QED BY <1>1, <3>3, <3>4, <3>5 DEF SettleInv
  <2> QED BY <1>10, <2>2, <2>3 DEF Retry
<1>11. CASE FetchAgain
  <2>1. fetch.pc = "sleep" /\ UNCHANGED <<since, unseen>>
    BY <1>11 DEF FetchAgain, At
  <2>2. PICK wait : fetch' = [fetch EXCEPT !.pc = "read", !.attempt = fetch.attempt + 1, !.wait = wait]
    BY <1>11 DEF FetchAgain, Reads
  <2>3. fetch'.pc = "read" /\ fetch'.again = fetch.again /\ fetch'.tree = fetch.tree
    BY <1>2, <2>2 DEF FetchType
  <2>4. ScriptWaits' /\ TreeFollowed' /\ PollOutlasts' /\ VerifiedTreeIsSettled'
    BY <1>2, <1>6, <2>1, <2>3 DEF SettleInv, ScriptWaits, TreeFollowed, PollOutlasts,
       VerifiedTreeIsSettled, InHandTree
  <2>5. AcceptedRests' /\ ChangesSeen'
    BY <1>2, <1>6, <2>1, <2>3 DEF SettleInv, AcceptedRests, ChangesSeen, InHandTree
  <2> QED BY <1>1, <2>4, <2>5 DEF SettleInv
<1>12. CASE TimesOut
  <2>1. /\ fetch.pc = "sleep" /\ since' = since /\ fetch' = [fetch EXCEPT !.pc = "verified"]
        /\ unseen'.timedOut /\ unseen'.late = unseen.late
    BY <1>1, <1>12 DEF TimesOut, SettleTyped
  <2>2. VerifiedTreeIsSettled'
    BY <1>5, <2>1 DEF VerifiedTreeIsSettled
  <2>3. /\ fetch'.pc = "verified" /\ fetch'.tree = fetch.tree /\ fetch'.again = fetch.again
        /\ fetch'.attempt = fetch.attempt
    BY <1>5, <2>1
  <2>4. fetch.pc # "idle" /\ since'.tree = since.tree
    BY <2>1
  <2> QED BY <1>7, <2>1, <2>2, <2>3, <2>4
<1>13. CASE ChangedOnReread
  <2>1. fetch.pc = "judge" /\ fetch.again /\ UNCHANGED <<since, unseen>>
    BY <1>13 DEF ChangedOnReread, At
  <2>2. \/ fetch' = [fetch EXCEPT !.pc = "held"] /\ "shape" \in fetch.tree.diff
        \/ fetch' = [fetch EXCEPT !.pc = "verified"] /\ "shape" \notin fetch.tree.diff
    BY <1>13 DEF ChangedOnReread
  <2>3. /\ fetch'.tree = fetch.tree /\ fetch'.again = fetch.again
        /\ fetch'.attempt = fetch.attempt /\ fetch'.pc \in {"verified", "held"}
        /\ fetch'.pc = "held" <=> "shape" \in fetch.tree.diff
    BY <1>5, <2>2
  <2>4. platform = "android" /\ fetch.tree.diff \subseteq since.fetch
    BY <1>1, <1>6, <2>1 DEF SettleInv, SettleTyped, TreeFollowed, ChangesSeen, InHandTree
  <2>5. fetch.tree.live /\ ~app.resting => "shape" \in fetch.tree.diff
    BY <1>6, <2>1, <2>4 DEF SettleInv, AcceptedRests, InHandTree
  <2>6. VerifiedTreeIsSettled'
    BY <1>2, <2>1, <2>3, <2>4, <2>5 DEF VerifiedTreeIsSettled
  <2>7. fetch.pc # "idle" /\ since'.tree = since.tree /\ unseen'.late = unseen.late
    BY <2>1
  <2> QED BY <1>7, <2>3, <2>6, <2>7
<1> QED BY <1>8, <1>9, <1>10, <1>11, <1>12, <1>13

LEMMA SettleKept == SettleInv /\ [SettleNext]_settleVars => SettleInv'
<1> SUFFICES ASSUME SettleInv, [SettleNext]_settleVars PROVE SettleInv'
  OBVIOUS
<1>1. CASE UNCHANGED settleVars
  BY <1>1 DEF settleVars, SettleInv, SettleTyped, ScriptWaits, TreeFollowed, PollOutlasts,
     AcceptedRests, ChangesSeen, VerifiedTreeIsSettled, InHandTree, TwoRoutes
<1> QED BY <1>1, AppMoves, TimePasses, SettleLeaves, SnapshotReads, FetchDecides DEF SettleNext

\* The invariant of the waits and reads of a step, on both platforms.
THEOREM SettleInvariant == SettleSpec => []SettleInv
  BY SettleStart, SettleKept, PTL DEF SettleSpec

\* A tree read inside a cross-fade is not judged, and a step is held only for a failed read
\* or a screen that changed under the reads (driver.go:830-962, runner.go:1409-1563,
\* DriverBackend.kt:111-188).
THEOREM TreesAreSettled == SettleSpec => []VerifiedTreeIsSettled
<1>1. SettleInv => VerifiedTreeIsSettled
  BY DEF SettleInv
<1> QED BY <1>1, SettleInvariant, PTL
=============================================================================
