---------------------------- MODULE AndroidInput ----------------------------
(***************************************************************************)
(* A step on Android that may type: the tree read that puts a keyboard     *)
(* away, and the InputText action, from the runner's applyAction through   *)
(* the sidecar's MaestroDriverBackend to the device.                       *)
(*                                                                         *)
(* The device is nobody's: another app can take the foreground, the app    *)
(* can put the keyboard away, move the focus or write into its own field   *)
(* between any two commands.  BACK closes the keyboard that stands open    *)
(* and navigates when none does; the flag dumpsys reports trails the       *)
(* keyboard.                                                               *)
(***************************************************************************)
EXTENDS Naturals

CONSTANTS
  Chunks,          \* the pieces a text is typed in
  MaxText,         \* a bound on what the field holds, in pieces
  MaxDisturbances  \* a bound on how often in a step another app takes the foreground, or
                   \* the app moves the focus or writes

ASSUME InputBounds ==
  Chunks \in Nat \ {0} /\ MaxText \in Nat /\ MaxDisturbances \in Nat

VARIABLES
  front,     \* who has the foreground
  keyboard,  \* down, up, or leaving: still in the tree, no longer taking BACK
  shown,     \* mInputShown
  focus,     \* what of the app holds the focus: the field, another field, nothing
  field,     \* what the field holds: text from before, and pieces of this text
  call,      \* where the step is, and its locals
  told       \* history of this step: who disturbed it

inputVars == <<front, keyboard, shown, focus, field, call, told>>

\* What an element of the app is to the action: its field, another field, or no field.
Places == {"field", "other", "nothing"}

\* The locals between two steps.
NoInput == [ pc |-> "top", back |-> "choose", reads |-> 0, held |-> 0, seen |-> "nothing",
            target |-> "field", count |-> 0, fast |-> TRUE, owner |-> "app", sent |-> 0 ]

\* What the disturbance history holds: the app hid a keyboard, or moved the focus, or wrote
\* into the field; how often it lost the foreground, the pieces another app got and whether
\* another of its own fields got one; what the last tree read showed of the keyboard, and
\* whether the focus tap raised one that the step has not dismissed since.
Undisturbed == [ hid |-> FALSE, moved |-> FALSE, wrote |-> FALSE, thefts |-> 0, sprayed |-> 0,
                 misplaced |-> FALSE, read |-> "down", raised |-> FALSE ]

InputInit ==
  /\ front = "app"
  /\ keyboard \in {"down", "up"}
  /\ shown = (keyboard = "up")
  /\ focus = "nothing"
  /\ field \in [old : 0..MaxText, new : {0}]
  /\ call = NoInput
  /\ told = Undisturbed

----------------------------------------------------------------------------
(* The device.                                                             *)

\* In a step, and within the bound on what disturbs one.
Disturbed ==
  /\ call.pc # "top"
  /\ told.thefts + (IF told.moved THEN 1 ELSE 0) + (IF told.wrote THEN 1 ELSE 0)
       < MaxDisturbances

Stolen ==
  /\ front = "app" /\ Disturbed
  /\ front' = "other"
  /\ told' = [told EXCEPT !.thefts = @ + 1]
  /\ UNCHANGED <<keyboard, shown, focus, field, call>>

GivenBack ==
  /\ front = "other"
  /\ front' = "app"
  /\ UNCHANGED <<keyboard, shown, focus, field, call, told>>

AppHidesKeyboard ==
  /\ keyboard = "up"
  /\ keyboard' = "leaving"
  /\ told' = [told EXCEPT !.hid = TRUE]
  /\ UNCHANGED <<front, shown, focus, field, call>>

\* The app raises it, or puts one straight back that was dismissed.
AppRaisesKeyboard ==
  /\ keyboard # "up" /\ call.pc \notin {"top", "settle"}
  /\ keyboard' = "up"
  /\ told' = [told EXCEPT !.hid = FALSE]
  /\ UNCHANGED <<front, shown, focus, field, call>>

KeyboardGone ==
  /\ keyboard = "leaving"
  /\ keyboard' = "down"
  /\ UNCHANGED <<front, shown, focus, field, call, told>>

FlagCatchesUp ==
  /\ shown' = (keyboard = "up")
  /\ UNCHANGED <<front, keyboard, focus, field, call, told>>

\* The app moves the focus, or its layout under a tap that is on its way.
AppMovesFocus ==
  /\ Disturbed
  /\ focus' \in Places \ {focus}
  /\ told' = [told EXCEPT !.moved = TRUE]
  /\ UNCHANGED <<front, keyboard, shown, field, call>>

AppWrites ==
  /\ Disturbed /\ field.old < MaxText
  /\ field' = [field EXCEPT !.old = @ + 1]
  /\ told' = [told EXCEPT !.wrote = TRUE]
  /\ UNCHANGED <<front, keyboard, shown, focus, call>>

PressesBack == keyboard' = IF keyboard = "up" THEN "leaving" ELSE keyboard

\* Keys go to the foreground app, and there to what holds the focus.
KeysReach(place) == front = "app" /\ focus = place

StepEnds == call' = NoInput /\ told' = Undisturbed
Goes(from, to) == call.pc = from /\ call' = [call EXCEPT !.pc = to]

----------------------------------------------------------------------------
(* snapshotTree, for the reads of a step and for the focus check.          *)

\* The guard has put the app in front (Runner), wherever it left the focus since the last
\* step, and the step reads the tree.
StartInputStep ==
  /\ call.pc = "top"
  /\ front' = "app"
  /\ focus' \in Places
  /\ field' = [old |-> IF field.old + field.new < MaxText THEN field.old + field.new
                       ELSE MaxText, new |-> 0]
  /\ call' = [NoInput EXCEPT !.pc = "tree"]
  /\ told' = Undisturbed
  /\ UNCHANGED <<keyboard, shown>>

\* What a tree shows of the field's text and of the focus; that of another app shows
\* nothing of this one.
TextInTree == IF front = "app" THEN field.old ELSE 0
FocusInTree == IF front = "app" THEN focus ELSE "nothing"

\* What the caller takes from the tree it acts on, and not from one it only compares with
\* it: the focus, and in the step's own tree the field's text.
Answered(c) == [c EXCEPT !.held = IF c.back = "choose" THEN TextInTree ELSE @,
                         !.seen = IF c.back = "act" THEN @ ELSE FocusInTree]
Forgiven == told.moved /\ call.back = "act"

\* treeShowsIme: the keyboard's own nodes are in the tree until it has left.
ReadTree ==
  /\ call.pc = "tree"
  /\ IF keyboard = "down"
     THEN /\ call' = [Answered(call) EXCEPT !.pc = call.back]
          /\ told' = [told EXCEPT !.read = keyboard, !.moved = Forgiven]
     ELSE /\ call' = [call EXCEPT !.pc = "dismiss"]
          /\ told' = [told EXCEPT !.read = keyboard]
  /\ UNCHANGED <<front, keyboard, shown, focus, field>>

Dismiss ==
  /\ Goes("dismiss", "reread")
  /\ PressesBack
  /\ told' = [told EXCEPT !.read = "down", !.raised = FALSE]
  /\ UNCHANGED <<front, shown, focus, field>>

\* The re-reads confirm that it went, and outlast a keyboard's leaving; one that the app
\* puts straight back costs reads and no second BACK.
KeyboardDismissReads == 4
PressAgain == "dismiss"
ReadAgain == "reread"

Reread ==
  /\ call.pc = "reread"
  /\ LET reads == call.reads + 1
         done == keyboard = "down" \/ reads = KeyboardDismissReads
     IN /\ reads = KeyboardDismissReads => keyboard # "leaving"
        /\ IF done
           THEN /\ call' = [Answered(call) EXCEPT !.reads = 0, !.pc = call.back]
                /\ told' = [told EXCEPT !.moved = Forgiven]
           ELSE /\ call' = [call EXCEPT !.reads = reads, !.pc = ReadAgain]
                /\ UNCHANGED told
  /\ UNCHANGED <<front, keyboard, shown, focus, field>>

\* fetchSyncedState: a tree in transition is read again and replaced, and the one it
\* settles on is read once more to compare the two; each read puts a keyboard away again.
ReadOnceMore ==
  /\ call.pc = "choose"
  /\ \E back \in {"choose", "act"} : call' = [call EXCEPT !.pc = "tree", !.back = back]
  /\ UNCHANGED <<front, keyboard, shown, focus, field, told>>

----------------------------------------------------------------------------
(* InputText.                                                              *)

\* The picker chooses to type, or something else; the runner then waits for idle, which
\* outlasts the keyboard's leaving and the flag's lag.
ChoosesOther ==
  /\ \E pc \in {"choose", "act"} : Goes(pc, "settle")
  /\ UNCHANGED <<front, keyboard, shown, focus, field, told>>

\* resolveCoordinates and existingTextLength: the tap goes to the field, by the action's
\* coordinates where its selector is ambiguous; the erase is sized by the first element the
\* selector resolves to in the tree, the field or another one, and by nothing when there is
\* no selector or it resolves to none.  The tap takes the focus and raises the keyboard,
\* or the field does not receive it.
SizesOf(target) ==
  CASE target = "field"   -> {call.held}
    [] target = "other"   -> 0..MaxText
    [] target = "nothing" -> {0}

FocusTap ==
  /\ call.pc \in {"choose", "act"}
  /\ \E target \in Places : \E count \in SizesOf(target) :
       call' = [call EXCEPT !.pc = "confirm", !.target = target, !.count = count]
  /\ \/ UNCHANGED <<keyboard, shown, focus, told>>
     \/ /\ keyboard' = "up" /\ shown' = TRUE
        /\ focus' = IF front = "app" THEN "field" ELSE focus
        /\ told' = [told EXCEPT !.hid = FALSE, !.raised = TRUE]
  /\ UNCHANGED <<front, field>>

\* otherElementHoldsFocus, on the tree the caller has: a target the tree does not resolve,
\* and a focus it does not show, answer false.
OtherElementHoldsFocus(target) ==
  target # "nothing" /\ call.seen \notin {"nothing", target}

\* confirmFocus reads the hierarchy only when the tree of the step showed the focus on
\* another element, and passes when the second one no longer does, or the target is gone
\* from it.  Otherwise the action is an apply error: the step ends and is not settled.
ConfirmFocus ==
  /\ call.pc = "confirm"
  /\ call' = IF OtherElementHoldsFocus(call.target)
             THEN [call EXCEPT !.pc = "tree", !.back = "focused"]
             ELSE [call EXCEPT !.pc = "erase", !.seen = "nothing"]
  /\ UNCHANGED <<front, keyboard, shown, focus, field, told>>

FocusRead ==
  /\ call.pc = "focused"
  /\ \E target \in {call.target, "nothing"} :
       IF OtherElementHoldsFocus(target) THEN StepEnds
       ELSE /\ call' = [call EXCEPT !.pc = "erase", !.target = target, !.seen = "nothing"]
            /\ UNCHANGED told
  /\ UNCHANGED <<front, keyboard, shown, focus, field>>

\* Any call of the action that answers with an error is an apply error as well.
ApplyFails ==
  /\ call.pc \in {"confirm", "focused", "erase", "readback", "owner", "type", "check"}
  /\ StepEnds
  /\ UNCHANGED <<front, keyboard, shown, focus, field>>

\* eraseFocusedField: select all and delete, which may not take.
SelectAndDelete ==
  /\ call.pc = "erase"
  /\ IF call.count = 0
     THEN call' = [call EXCEPT !.pc = "owner"] /\ UNCHANGED field
     ELSE /\ call' = [call EXCEPT !.pc = "readback"]
          /\ \/ KeysReach("field") /\ field' = [field EXCEPT !.old = 0]
             \/ UNCHANGED field
  /\ UNCHANGED <<front, keyboard, shown, focus, told>>

\* focusedEditableTextLength: the length, or null when the tree names no focused field.
Null == MaxText + 1
EmptyOrUnknown(reading) == reading \in {0, Null}
ReadsEmpty(reading) == reading = 0

\* The focused field is read, whichever it is, and the deletes go to what has the focus.
ReadBack ==
  /\ call.pc = "readback"
  /\ call' = [call EXCEPT !.pc = "owner"]
  /\ \E reading \in IF KeysReach("field") THEN {field.old, Null} ELSE 0..Null :
       IF ReadsEmpty(reading) \/ ~KeysReach("field") THEN UNCHANGED field
       ELSE field' = [field EXCEPT !.old = IF @ > call.count THEN @ - call.count ELSE 0]
  /\ UNCHANGED <<front, keyboard, shown, focus, told>>

\* typingOwner: the resumed package, or the launched bundle when it cannot be read.  Text
\* that is not shell-safe goes through the driver, which has no guard.
TypingOwner ==
  /\ call.pc = "owner"
  /\ \E owner \in {front, "app"}, fast \in BOOLEAN :
       call' = [call EXCEPT !.pc = "type", !.owner = owner, !.fast = fast, !.sent = 0]
  /\ UNCHANGED <<front, keyboard, shown, focus, field, told>>

\* The pieces land in whatever has the foreground, and there in what holds the focus.
SendChunk ==
  /\ call.pc = "type"
  /\ field' = IF KeysReach("field") THEN [field EXCEPT !.new = @ + 1] ELSE field
  /\ told' = [told EXCEPT !.sprayed = IF front = "app" THEN @ ELSE @ + 1,
                          !.misplaced = @ \/ KeysReach("other")]
  /\ call' = [call EXCEPT !.sent = @ + 1,
                          !.pc = IF call.sent + 1 = Chunks THEN "probe"
                                 ELSE IF call.fast THEN "check" ELSE "type"]
  /\ UNCHANGED <<front, keyboard, shown, focus>>

\* Before each later piece; a foreground that cannot be read is not the owner.
CheckForeground ==
  /\ call.pc = "check"
  /\ \E reading \in {front, "unreadable"} :
       call' = [call EXCEPT !.pc = IF reading = call.owner THEN "type" ELSE "probe"]
  /\ UNCHANGED <<front, keyboard, shown, focus, field, told>>

\* dismissSoftKeyboard: a probe that fails reads as no keyboard.
ProbeKeyboard ==
  /\ call.pc = "probe"
  /\ \/ shown /\ call' = [call EXCEPT !.pc = "back"]
     \/ call' = [call EXCEPT !.pc = "settle"]
  /\ UNCHANGED <<front, keyboard, shown, focus, field, told>>

DismissTyped ==
  /\ Goes("back", "settle")
  /\ PressesBack
  /\ UNCHANGED <<front, shown, focus, field, told>>

SettleAfterInput ==
  /\ call.pc = "settle" /\ StepEnds
  /\ keyboard' = IF keyboard = "leaving" THEN "down" ELSE keyboard
  /\ shown' = (keyboard' = "up")
  /\ UNCHANGED <<front, focus, field>>

InputNext ==
  \/ Stolen \/ GivenBack \/ AppHidesKeyboard \/ AppRaisesKeyboard
  \/ KeyboardGone \/ FlagCatchesUp \/ AppMovesFocus \/ AppWrites
  \/ StartInputStep \/ ReadTree \/ Dismiss \/ Reread \/ ReadOnceMore
  \/ ChoosesOther \/ FocusTap \/ ConfirmFocus \/ FocusRead \/ ApplyFails
  \/ SelectAndDelete \/ ReadBack \/ TypingOwner \/ SendChunk \/ CheckForeground
  \/ ProbeKeyboard \/ DismissTyped \/ SettleAfterInput

InputSpec == InputInit /\ [][InputNext]_inputVars

----------------------------------------------------------------------------
(* Properties.                                                             *)

InputTypeOK ==
  /\ front \in {"app", "other"} /\ keyboard \in {"down", "up", "leaving"} /\ focus \in Places
  /\ field \in [old : 0..MaxText, new : 0..Chunks]
  /\ call.sent \in 0..Chunks /\ call.reads < KeyboardDismissReads

\* What the length an erase was sized by falls short of the text the tree showed.
Shortfall == IF call.held > call.count THEN call.held - call.count ELSE 0

\* The text goes into the field it is for and nowhere else.  Shell-safe text guarded
\* against the app under test puts at most one piece into another app for every time one
\* takes the foreground.  A piece lands in another field of the app only when the app moved
\* the focus after the last look at it, or the selector does not name the field in the tree
\* that look was taken at.  And when nothing took the foreground, moved the focus or wrote,
\* a field that has the focus ends up with that text behind no more of the old one than the
\* erase length fell short by: none when the selector names the field
\* (runner.go:985-1024, 1170-1242, 1257-1269, DriverBackend.kt:845-862, 1105-1132).
TextGoesWhereMeant ==
  /\ call.fast /\ call.owner = "app" => told.sprayed <= told.thefts
  /\ told.misplaced /\ told.thefts = 0 => told.moved \/ call.target # "field"
  /\ /\ call.pc = "probe" /\ call.sent = Chunks /\ focus = "field"
     /\ told.thefts = 0 /\ ~told.wrote /\ ~told.moved
     => field.new = Chunks /\ field.old <= Shortfall /\ (call.target = "field" => field.old = 0)

\* The sidecar presses BACK to put a keyboard away and never out of the screen.  Before the
\* step's action the tree is the guard: the key finds the keyboard the tree showed, unless
\* the app took it away after the reading, or was already taking it away, and the tree,
\* against what the code says of it, still showed one (DriverBackend.kt:926-931).  After
\* typing the flag is the guard: the key finds the keyboard the focus tap raised, unless the
\* app took that away, or the tap raised none or the focus check dismissed it and the flag
\* trails (DriverBackend.kt:864-890).
BackOnlyClosesKeyboard ==
  [][/\ Dismiss => \/ keyboard = "up" \/ told.read = "leaving"
                   \/ told.read = "up" /\ told.hid
     /\ DismissTyped => keyboard = "up" \/ told.hid \/ ~told.raised]_inputVars
=============================================================================
