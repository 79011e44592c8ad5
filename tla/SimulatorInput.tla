--------------------------- MODULE SimulatorInput ---------------------------
(***************************************************************************)
(* InputText on an iOS simulator: the field's content is replaced, over    *)
(* whichever of three ways the driver has.  Keys the hardware keyboard can *)
(* express go as one HID stream of the legacy companion.  Other text is    *)
(* typed by the in-simulator runner after a clear chord that travels on    *)
(* the other channel (hybrid), or is pasted (legacy).                      *)
(*                                                                         *)
(* The app applies what it is sent later, in the order of one channel; a   *)
(* selection applies later still.  Connections drop, and a restart may     *)
(* cost the field its focus.                                               *)
(***************************************************************************)
EXTENDS Naturals, Sequences

CONSTANTS
  Pieces,     \* the pieces a text is typed in
  MaxReads,   \* bound: reads of the wait for an empty field, and of the paste's poll
  MaxDrops    \* bound: connections lost during one InputText

ASSUME SimulatorBounds == Pieces \in Nat \ {0} /\ MaxReads \in Nat \ {0} /\ MaxDrops \in Nat

VARIABLES
  entry,    \* the InputText in progress: its way, its place and its locals
  stream,   \* events the companion has still to synthesize
  typing,   \* pieces the runner has still to type
  widget,   \* the app: the field's text, keys not applied, selection, focus, dialog
  fate      \* history: connections lost, and what the driver took on trust

entryVars == <<entry, stream, typing, widget, fate>>

Wanted == [i \in 1..Pieces |-> "new"]

EntryInit ==
  \E way \in {"keys", "native", "paste"}, hybrid, aimed, soleButton, granted \in BOOLEAN,
     text \in {<<>>, <<"old", "old">>} :
    /\ way = "native" => hybrid
    /\ way = "paste" => ~hybrid
    /\ entry = [ way |-> way, hybrid |-> hybrid, aimed |-> aimed, soleButton |-> soleButton,
                 pc |-> "idle", back |-> "send", restarting |-> FALSE, reads |-> 0,
                 verifiable |-> FALSE ]
    /\ stream = <<>> /\ typing = 0
    /\ widget = [ text |-> text, keys |-> <<>>, selection |-> "none", focused |-> TRUE,
                  dialog |-> "none", granted |-> granted ]
    /\ fate = [drops |-> 0, trusted |-> FALSE, mistaken |-> FALSE]

----------------------------------------------------------------------------
(* The app.                                                                *)

\* What a key that replaces the selection leaves before it writes.
Kept == IF widget.selection = "all" THEN <<>> ELSE widget.text

Written(w, pieces) ==
  [w EXCEPT !.text = Kept \o pieces,
            !.selection = IF @ = "all" THEN "none" ELSE @]

Backspaced(w) ==
  [w EXCEPT !.text = IF Kept = <<>> THEN <<>> ELSE SubSeq(Kept, 1, Len(Kept) - 1),
            !.selection = IF @ = "all" THEN "none" ELSE @]

Struck(w, key) ==
  CASE key = "selectAll" -> [w EXCEPT !.selection = "applying"]
    [] key = "backspace" -> Backspaced(w)
    [] key = "type" -> Written(w, <<"new">>)
    [] key = "paste" -> IF w.granted THEN Written(w, Wanted) ELSE [w EXCEPT !.dialog = "up"]

Touched(w, touch) ==
  CASE touch = "allow" /\ w.dialog = "up" -> [w EXCEPT !.dialog = "blackout", !.granted = TRUE]
    [] touch = "refocus" /\ w.dialog # "up" -> [w EXCEPT !.focused = TRUE]
    [] OTHER -> w

\* A modal dialog, and a field without the focus, swallow everything but touches.
Effect(w, key) ==
  IF key \in {"allow", "refocus"} THEN Touched(w, key)
  ELSE IF w.dialog = "up" \/ ~w.focused THEN w ELSE Struck(w, key)

AppApplies ==
  /\ widget.keys # <<>>
  /\ widget' = Effect([widget EXCEPT !.keys = Tail(@)], Head(widget.keys))
  /\ UNCHANGED <<entry, stream, typing, fate>>

SelectionApplies ==
  /\ widget.selection = "applying"
  /\ widget' = [widget EXCEPT !.selection = IF widget.text = <<>> THEN "none" ELSE "all"]
  /\ UNCHANGED <<entry, stream, typing, fate>>

BridgeRecovers ==
  /\ widget.dialog = "blackout"
  /\ widget' = [widget EXCEPT !.dialog = "none"]
  /\ UNCHANGED <<entry, stream, typing, fate>>

\* The companion synthesizes the next event.  A pause is long enough for what
\* was sent before it to apply (selectionApplyDelayMilliseconds, dialogSettle);
\* the shorter delay after a clear (deleteApplyDelayMilliseconds) promises nothing.
Synthesizes ==
  /\ stream # <<>>
  /\ stream' = Tail(stream)
  /\ Head(stream) = "pause" => widget.keys = <<>> /\ widget.selection # "applying"
  /\ widget' = IF Head(stream) \in {"pause", "delay"} THEN widget
               ELSE [widget EXCEPT !.keys = Append(@, Head(stream))]
  /\ UNCHANGED <<entry, typing, fate>>

\* typeText of the runner; without a focus it raises.
RunnerTypes ==
  /\ typing > 0
  /\ IF widget.focused /\ widget.dialog # "up"
     THEN /\ typing' = typing - 1
          /\ widget' = Written(widget, <<"new">>)
          /\ UNCHANGED entry
     ELSE /\ typing' = 0
          /\ entry' = IF entry.pc = "typing" THEN [entry EXCEPT !.pc = "failed"] ELSE entry
          /\ UNCHANGED widget
  /\ UNCHANGED <<stream, fate>>

----------------------------------------------------------------------------
(* InputText.                                                              *)

\* Mutant of ClearFieldEvents: the deleting backspace follows the chord at once.
ClearAtOnce == <<"selectAll", "backspace", "delay">>

ClearFieldEvents == <<"selectAll", "pause", "backspace", "delay">>

TypeEvents == [i \in 1..Pieces |-> "type"]

\* A paste resolves its field first, to recognise the text in it later; a read
\* that fails leaves it unnamed.
StartInput ==
  /\ entry.pc = "idle"
  /\ \E verifiable \in IF entry.way = "paste" THEN {entry.aimed, FALSE} ELSE {FALSE} :
       entry' = [entry EXCEPT !.pc = "send", !.verifiable = verifiable]
  /\ UNCHANGED <<stream, typing, widget, fate>>

\* SendHID.  That the chord has landed shows on a field that held something.
SendClear ==
  /\ entry.pc = "send"
  /\ stream' = ClearFieldEvents \o (IF entry.way = "keys" THEN TypeEvents ELSE <<>>)
  /\ entry' = [entry EXCEPT !.pc = "sending", !.reads = 0]
  /\ fate' = [fate EXCEPT !.trusted = entry.way = "native" /\ widget.text = <<>>]
  /\ UNCHANGED <<typing, widget>>

AfterClear == [keys |-> "ok", native |-> "wait", paste |-> "paste"]

Cleared ==
  /\ entry.pc = "sending" /\ stream = <<>>
  /\ entry' = [entry EXCEPT !.pc = AfterClear[entry.way]]
  /\ UNCHANGED <<stream, typing, widget, fate>>

\* waitFieldCleared: one read of the field under the last tap.  It is best
\* effort: a field that cannot be resolved or a wait that is over types anyway.
WaitFieldCleared ==
  /\ entry.pc = "wait"
  /\ LET cleared == ~entry.aimed \/ widget.text = <<>>
         over == entry.reads + 1 = MaxReads
     IN /\ entry' = IF cleared \/ over THEN [entry EXCEPT !.pc = "type"]
                    ELSE [entry EXCEPT !.reads = @ + 1]
        /\ fate' = [fate EXCEPT !.trusted = @ \/ ~entry.aimed \/ (over /\ ~cleared)]
  /\ UNCHANGED <<stream, typing, widget>>

TypeText ==
  /\ entry.pc = "type"
  /\ entry' = [entry EXCEPT !.pc = "typing"]
  /\ typing' = Pieces
  /\ UNCHANGED <<stream, widget, fate>>

Typed ==
  /\ entry.pc = "typing" /\ typing = 0
  /\ entry' = [entry EXCEPT !.pc = "ok"]
  /\ UNCHANGED <<stream, typing, widget, fate>>

----------------------------------------------------------------------------
(* pasteText.                                                              *)

PasteChord ==
  /\ entry.pc = "paste"
  /\ stream' = <<"paste">>
  /\ entry' = [entry EXCEPT !.pc = "pasting"]
  /\ UNCHANGED <<typing, widget, fate>>

Pasted ==
  /\ entry.pc = "pasting" /\ stream = <<>>
  /\ entry' = [entry EXCEPT !.pc = "poll"]
  /\ UNCHANGED <<stream, typing, widget, fate>>

\* pasteLanded: the named field shows the text somewhere in its value (a field that
\* masks what it holds is left out).
PasteLanded ==
  /\ entry.verifiable /\ widget.dialog = "none"
  /\ \E at \in 0..Len(widget.text) - Pieces :
       SubSeq(widget.text, at + 1, at + Pieces) = Wanted

\* findAllowPasteButton: the dialog's, or the only enabled button of the dump.
AllowButton == widget.dialog = "up" \/ (widget.dialog = "none" /\ entry.soleButton)

\* One read of the loop; a resent chord counts as one.
PollPaste ==
  /\ entry.pc = "poll"
  /\ LET over == entry.reads + 1 = MaxReads
         Goes(pc) == [entry EXCEPT !.pc = pc, !.reads = @ + 1]
     IN CASE PasteLanded ->
               entry' = Goes("ok") /\ UNCHANGED <<stream, fate>>
          [] ~PasteLanded /\ AllowButton ->
               /\ stream' = <<"allow", "pause", "refocus", "pause", "paste">>
               /\ entry' = Goes(IF over THEN "spent" ELSE "pasting")
               /\ fate' = [fate EXCEPT !.mistaken = @ \/ widget.dialog # "up"]
          [] ~PasteLanded /\ ~AllowButton /\ ~entry.verifiable ->
               /\ entry' = Goes("ok")
               /\ fate' = [fate EXCEPT !.trusted = TRUE]
               /\ UNCHANGED stream
          [] OTHER -> entry' = Goes(IF over THEN "failed" ELSE "poll") /\ UNCHANGED <<stream, fate>>
  /\ UNCHANGED <<typing, widget>>

\* The last read resent the chord, and nothing reads what became of it.
PasteTimedOut ==
  /\ entry.pc = "spent" /\ stream = <<>>
  /\ entry' = [entry EXCEPT !.pc = "failed"]
  /\ UNCHANGED <<stream, typing, widget, fate>>

----------------------------------------------------------------------------
(* withRecovery.                                                           *)

\* The connection of the call in flight is lost, whatever the call has done.
\* The pasting and the keys of a legacy companion alone recover from nothing.
\* A read of the wait recovers by itself, and within a retry types unread.
ConnectionLost ==
  /\ fate.drops < MaxDrops
  /\ entry.pc \in {"sending", "wait", "typing", "pasting", "poll", "spent"}
  /\ entry' =
       IF ~entry.hybrid THEN [entry EXCEPT !.pc = "failed"]
       ELSE IF ~entry.restarting
       THEN [entry EXCEPT !.pc = "restart",
                          !.back = IF entry.pc = "wait" THEN "wait" ELSE "send"]
       ELSE [entry EXCEPT !.pc = IF @ = "wait" THEN "type" ELSE "failed"]
  /\ fate' = [fate EXCEPT !.drops = @ + 1,
                          !.trusted = @ \/ (entry.pc = "wait" /\ entry.restarting)]
  /\ UNCHANGED <<stream, typing, widget>>

\* respawnAndRedial stops both processes: what they had still to do is lost, and
\* what the app was sent has long applied when the new ones are up.  A wait whose
\* restart fails types all the same, on a closed client, and the call recovers
\* from that.
Restarted ==
  /\ entry.pc = "restart"
  /\ widget.keys = <<>> /\ widget.selection # "applying"
  /\ stream' = <<>> /\ typing' = 0
  /\ \E focused \in {widget.focused, FALSE} : widget' = [widget EXCEPT !.focused = focused]
  /\ \/ entry' = [entry EXCEPT !.pc = entry.back, !.restarting = entry.back = "send"]
     \/ entry.back = "send" /\ entry' = [entry EXCEPT !.pc = "failed"]
     \/ entry.back = "wait" /\ entry' = [entry EXCEPT !.back = "send"]
  /\ UNCHANGED fate

EntryNext ==
  \/ AppApplies \/ SelectionApplies \/ BridgeRecovers \/ Synthesizes \/ RunnerTypes
  \/ StartInput \/ SendClear \/ Cleared \/ WaitFieldCleared \/ TypeText \/ Typed
  \/ PasteChord \/ Pasted \/ PollPaste \/ PasteTimedOut
  \/ ConnectionLost \/ Restarted

EntrySpec == EntryInit /\ [][EntryNext]_entryVars

----------------------------------------------------------------------------
(* Properties.                                                             *)

EntryTypeOK ==
  /\ entry.pc \in {"idle", "send", "sending", "wait", "type", "typing", "paste", "pasting",
                   "poll", "spent", "restart", "ok", "failed"}
  /\ entry.reads \in 0..MaxReads /\ typing \in 0..Pieces
  /\ widget.selection \in {"none", "applying", "all"}
  /\ widget.dialog \in {"none", "up", "blackout"}

AtRest == stream = <<>> /\ typing = 0 /\ widget.keys = <<>> /\ widget.selection # "applying"

\* An InputText that reports success leaves the text in the field once and
\* nothing else, whichever of the two channels carried it and whatever
\* connection was lost on the way.  Exempt is what the driver takes on trust: a
\* clear that could not be seen to land (no field under the last tap, a wait
\* that ran out, a field that was empty already), a paste that cannot be
\* verified, and a lone button it took for the dialog's (driver.go:880-970,
\* input.go:114-224).
InputReplaces ==
  entry.pc = "ok" /\ AtRest /\ widget.focused /\ ~fate.trusted /\ ~fate.mistaken =>
    widget.text = Wanted
=============================================================================
