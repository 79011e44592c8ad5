----------------------------- MODULE RunsWatcher -----------------------------
(***************************************************************************)
(* How a viewer of the run list hears of a change: replay.Watcher, the     *)
(* handler of /api/events, and the EventSource and list request of the     *)
(* browser (RunList.tsx, useSse.ts).                                       *)
(*                                                                         *)
(* One goroutine watches the runs directory, one handler serves each open  *)
(* stream.  A run directory appearing or disappearing is a change; changes *)
(* are gathered for a debounce window and broadcast to the channels that   *)
(* were subscribed when it ended, outside the mutex.                       *)
(***************************************************************************)
EXTENDS Naturals

CONSTANTS
  Viewers,      \* browser tabs on the run list
  Capacity,     \* the buffer of a subscriber's channel (4)
  MaxChanges    \* a bound on the changes of the runs directory

ASSUME CapacityAssumption == Capacity \in Nat

VARIABLES
  watching,    \* the watch goroutine: waiting, watching, sending, done, failed
  events,      \* events of the directory not yet read
  pending,     \* a broadcast is due when the debounce timer fires
  armed,       \* the debounce timer is running
  targets,     \* the subscribers the broadcast under way has still to send to
  cancelled,   \* the context of Run is done
  subscribed,  \* Watcher.subscribers
  channel,     \* each channel: how many signals it holds, and whether it is closed
  stream,      \* each handler: none, flushed (headers sent), serving, ended
  refresh,     \* the tab has a list request to make
  panicked,    \* a send on a closed channel, or a second close
  changes,
  owed         \* history: a change happened on the tab's watch that no list
               \* request of the tab has been made after

watcherVars == <<watching, events, pending, armed, targets, cancelled, subscribed, channel,
                 stream, refresh, panicked, changes, owed>>

WatcherInit ==
  /\ watching = "waiting"
  /\ events = 0
  /\ pending = FALSE
  /\ armed = FALSE
  /\ targets = {}
  /\ cancelled = FALSE
  /\ subscribed = {}
  /\ channel = [v \in Viewers |-> [held |-> 0, closed |-> FALSE]]
  /\ stream = [v \in Viewers |-> "none"]
  /\ refresh = [v \in Viewers |-> TRUE]
  /\ panicked = FALSE
  /\ changes = 0
  /\ owed = [v \in Viewers |-> FALSE]

\* A run directory appears or disappears.  Only a directory that is being watched
\* produces an event.
DirectoryChanges ==
  /\ changes < MaxChanges
  /\ changes' = changes + 1
  /\ IF watching \in {"watching", "sending"} /\ ~cancelled
     THEN /\ events' = events + 1
          /\ owed' = [v \in Viewers |-> owed[v] \/ v \in subscribed]
     ELSE UNCHANGED <<events, owed>>
  /\ UNCHANGED <<watching, pending, armed, targets, cancelled, subscribed, channel, stream,
                 refresh, panicked>>

----------------------------------------------------------------------------
(* The watch goroutine.                                                    *)

\* watchOrWaitForDirectory: the directory can be watched, cannot for another reason
\* than not being there, or the context ends the polling.
WatchStarts ==
  /\ watching = "waiting"
  /\ watching' \in {"watching", "failed"}
  /\ UNCHANGED <<events, pending, armed, targets, cancelled, subscribed, channel, stream,
                 refresh, panicked, changes, owed>>

StopWaiting ==
  /\ watching = "waiting" /\ cancelled
  /\ watching' = "watching"
  /\ UNCHANGED <<events, pending, armed, targets, cancelled, subscribed, channel, stream,
                 refresh, panicked, changes, owed>>

\* The first event of a window starts the timer; the others are covered by it.
ReadEvent ==
  /\ watching = "watching" /\ events > 0
  /\ events' = events - 1
  /\ pending' = TRUE
  /\ armed' = (armed \/ ~pending)
  /\ UNCHANGED <<watching, targets, cancelled, subscribed, channel, stream, refresh,
                 panicked, changes, owed>>

\* The timer fires: the channels to send to are copied under the mutex.  Whether the
\* next event starts the timer again depends on pending having been reset.
StaysPending == pending
NoLongerPending == FALSE

TimerFires ==
  /\ watching = "watching" /\ armed
  /\ armed' = FALSE
  /\ pending' = NoLongerPending
  /\ targets' = subscribed
  /\ watching' = "sending"
  /\ UNCHANGED <<events, cancelled, subscribed, channel, stream, refresh, panicked,
                 changes, owed>>

\* A send that does not block: a full channel drops the signal.
Send(v) ==
  /\ watching = "sending" /\ v \in targets
  /\ targets' = targets \ {v}
  /\ panicked' = (panicked \/ channel[v].closed)
  /\ channel' = IF channel[v].held < Capacity /\ ~channel[v].closed
                THEN [channel EXCEPT ![v].held = @ + 1] ELSE channel
  /\ UNCHANGED <<watching, events, pending, armed, cancelled, subscribed, stream, refresh,
                 changes, owed>>

BroadcastEnds ==
  /\ watching = "sending" /\ targets = {}
  /\ watching' = "watching"
  /\ UNCHANGED <<events, pending, armed, targets, cancelled, subscribed, channel, stream,
                 refresh, panicked, changes, owed>>

\* shutdown closes every subscribed channel; it runs on the goroutine that sends.
Shutdown ==
  /\ watching = "watching" /\ cancelled
  /\ watching' = "done"
  /\ panicked' = (panicked \/ \E v \in subscribed : channel[v].closed)
  /\ channel' = [v \in Viewers |->
                   IF v \in subscribed THEN [channel[v] EXCEPT !.closed = TRUE]
                   ELSE channel[v]]
  /\ subscribed' = {}
  /\ UNCHANGED <<events, pending, armed, targets, cancelled, stream, refresh, changes, owed>>

Cancel ==
  /\ ~cancelled
  /\ cancelled' = TRUE
  /\ UNCHANGED <<watching, events, pending, armed, targets, subscribed, channel, stream,
                 refresh, panicked, changes, owed>>

----------------------------------------------------------------------------
(* A tab and the handler of its stream.                                    *)

\* The headers are flushed before the handler subscribes.
OpenStream(v) ==
  /\ stream[v] = "none"
  /\ stream' = [stream EXCEPT ![v] = "flushed"]
  /\ UNCHANGED <<watching, events, pending, armed, targets, cancelled, subscribed, channel,
                 refresh, panicked, changes, owed>>

\* A subscription after the watcher has shut down gets a closed channel.
OpenAfterShutdown == FALSE
ClosedAfterShutdown == watching = "done"

Subscribe(v) ==
  /\ stream[v] = "flushed"
  /\ stream' = [stream EXCEPT ![v] = "serving"]
  /\ channel' = [channel EXCEPT ![v] = [held |-> 0, closed |-> ClosedAfterShutdown]]
  /\ subscribed' = IF ClosedAfterShutdown THEN subscribed ELSE subscribed \cup {v}
  /\ UNCHANGED <<watching, events, pending, armed, targets, cancelled, refresh, panicked,
                 changes, owed>>

\* One signal is written to the stream; the tab's listener asks for the list.
Deliver(v) ==
  /\ stream[v] = "serving" /\ channel[v].held > 0
  /\ channel' = [channel EXCEPT ![v].held = @ - 1]
  /\ refresh' = [refresh EXCEPT ![v] = TRUE]
  /\ UNCHANGED <<watching, events, pending, armed, targets, cancelled, subscribed, stream,
                 panicked, changes, owed>>

\* The handler returns: its channel was closed, or the tab is gone.  Unsubscribe
\* leaves the channel open, since a broadcast may hold it.
ClosesOnUnsubscribe(v) == v \in subscribed
LeavesOpen(v) == FALSE

EndStream(v) ==
  /\ stream' = [stream EXCEPT ![v] = "ended"]
  /\ subscribed' = subscribed \ {v}
  /\ channel' = [channel EXCEPT ![v].closed = @ \/ LeavesOpen(v)]
  /\ owed' = [owed EXCEPT ![v] = FALSE]
  /\ UNCHANGED <<watching, events, pending, armed, targets, cancelled, refresh, panicked, changes>>

ChannelClosed(v) ==
  stream[v] = "serving" /\ channel[v].closed /\ channel[v].held = 0 /\ EndStream(v)
Leave(v) == stream[v] = "serving" /\ EndStream(v)

\* Scan: the answer has every run directory that was there when it started.
ListRuns(v) ==
  /\ refresh[v]
  /\ refresh' = [refresh EXCEPT ![v] = FALSE]
  /\ owed' = [owed EXCEPT ![v] = FALSE]
  /\ UNCHANGED <<watching, events, pending, armed, targets, cancelled, subscribed, channel,
                 stream, panicked, changes>>

Watch ==
  \/ WatchStarts \/ StopWaiting \/ ReadEvent \/ TimerFires \/ BroadcastEnds \/ Shutdown
  \/ \E v \in Viewers : Send(v)
View(v) ==
  OpenStream(v) \/ Subscribe(v) \/ Deliver(v) \/ ChannelClosed(v) \/ ListRuns(v)

WatcherNext ==
  \/ DirectoryChanges \/ Watch \/ Cancel
  \/ \E v \in Viewers : View(v) \/ Leave(v)

----------------------------------------------------------------------------
(* Properties.                                                             *)

\* No signal is sent on a closed channel and none is closed twice, whatever the order
\* of a broadcast, a tab that leaves and the shutdown (watcher.go:43-60, 110-130).
NoPanic == ~panicked

\* A tab whose stream was serving when a run directory appeared or went asks for the
\* list after it, unless it leaves or the server is stopped: changes gathered in one
\* window and signals dropped by a full channel lose none (watcher.go:87-119).
ChangeReachesViewer ==
  \A v \in Viewers : owed[v] ~> (~owed[v] \/ cancelled)

\* Once the server is stopped every open stream ends, the ones that subscribe during
\* the shutdown or after it included (watcher.go:31-41, 122-130).  A watcher that could
\* not start is not shut down.
StreamsEnd ==
  \A v \in Viewers :
    cancelled /\ stream[v] = "serving" ~> stream[v] = "ended" \/ watching = "failed"
=============================================================================
