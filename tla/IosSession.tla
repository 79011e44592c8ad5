----------------------------- MODULE IosSession -----------------------------
(***************************************************************************)
(* A session with a physical iPhone: the driver's operations, their        *)
(* recovery, the transport they share and the server at its other end      *)
(* (internal/driver/ioscompanion in device mode, companion/Sources).       *)
(*                                                                         *)
(* The driver thread runs one operation at a time.  An observation starts  *)
(* a second thread, the screenshot, on the client captured at its start.   *)
(* Both go through runnerCompanion.call, whose mutex lets one request be   *)
(* in flight.  A session is one server process on the device with its      *)
(* tunnel and its client.  A restart stops the host's end of it and makes  *)
(* the next; the old server may live on with the requests it has.  What    *)
(* interleaves with the two threads: the end of an operation's context,    *)
(* the goroutines AfterFunc starts when it ends, the server's work queue,  *)
(* and losses of the tunnel or the process at any point.                   *)
(***************************************************************************)
EXTENDS Naturals, Sequences, FiniteSets

CONSTANTS
  Asked,             \* for each operation asked of the driver, the kinds it may be of
  MaxSessions,       \* sessions that can be brought up
  CollapsedRetries   \* collapsedDumpRetries

ASSUME SessionsAssumption == MaxSessions \in Nat \ {0}
ASSUME RetriesAssumption == CollapsedRetries \in Nat

Threads == {"driver", "shot"}
Ops == DOMAIN Asked
Sessions == 1..MaxSessions

\* act: a gesture, text, a key or a terminate.  Only launch and act change the app.
Kinds == {"act", "launch", "observe"}
ASSUME AskedAssumption == Asked \in Seq(SUBSET Kinds)
Outcomes == {"none", "ok", "refused", "interrupted", "lost"}
CallPlaces == {"lock", "arm", "write", "read", "leave"}
Places == CallPlaces \cup {"idle", "done", "close", "kill", "bringUp"}

VARIABLES
  op, kind,        \* the current operation, 0 before the first
  due, ended,      \* its context: the deadline has passed, the context is Done
  callerEnded,     \* for a launch: the context its own bound was derived from ended
  recovering,      \* withRecovery has spent its restart
  relaunched,      \* launchWithSessionRecovery has spent its restart
  collapsedLeft,   \* reads describeAll may still repeat
  session,         \* the session of d.companion
  pc, outcome, cli,\* per thread: the place, how its call ended, the client's session
  registered,      \* per thread: its AfterFunc waits for the context
  fired,           \* per session: AfterFunc goroutines started and not yet run
  client,          \* per session: the runnerCompanion
  link, alive,     \* per session: the tunnel carries, the server on the device lives
  pending,         \* per session: requests written and not served
  inbox,           \* per session: answers unread on the client's connection
  effects          \* per operation and session: how often the server performed it

opVars == <<op, kind, due, ended, callerEnded, recovering, relaunched, collapsedLeft, session>>
callVars == <<pc, outcome, cli, registered, fired, client, inbox>>
serverVars == <<link, alive, pending, effects>>
vars == <<opVars, callVars, serverVars>>

\* conn counts the connections of a client; deadline is the one set on the current.
FreshClient == [ holder |-> "free", open |-> TRUE, dirty |-> FALSE,
                 nextID |-> 0, conn |-> 1, deadline |-> "none" ]

Init ==
  /\ op = 0 /\ kind = "act" /\ due = FALSE /\ ended = FALSE /\ callerEnded = FALSE
  /\ recovering = FALSE /\ relaunched = FALSE /\ collapsedLeft = 0 /\ session = 1
  /\ pc = [t \in Threads |-> "idle"]
  /\ outcome = [t \in Threads |-> "none"]
  /\ cli = [t \in Threads |-> 1]
  /\ registered = [t \in Threads |-> FALSE]
  /\ fired = [g \in Sessions |-> 0]
  /\ client = [g \in Sessions |-> FreshClient]
  /\ link = [g \in Sessions |-> g = 1]
  /\ alive = [g \in Sessions |-> g = 1]
  /\ pending = [g \in Sessions |-> {}]
  /\ inbox = [g \in Sessions |-> <<>>]
  /\ effects = [o \in Ops |-> [g \in Sessions |-> 0]]

Go(t, place) == pc' = [pc EXCEPT ![t] = place]
Ends(t, how, place) == Go(t, place) /\ outcome' = [outcome EXCEPT ![t] = how]
Reachable(g) == link[g] /\ alive[g]
Expired(g) == \/ client[g].deadline = "past"
              \/ client[g].deadline = "own" /\ due

(***************************************************************************)
(* runnerCompanion.call                                                    *)
(***************************************************************************)

\* context.AfterFunc: on a context already ended the goroutine starts at once.
AfterFunc(t) ==
  IF ended
  THEN fired' = [fired EXCEPT ![cli[t]] = @ + 1] /\ UNCHANGED registered
  ELSE registered' = [registered EXCEPT ![t] = TRUE] /\ UNCHANGED fired

\* The mutex is taken; a connection left clean is used again.
Lock(t) == LET g == cli[t] IN
  /\ pc[t] = "lock" /\ client[g].holder = "free" /\ ~client[g].dirty
  /\ client' = [client EXCEPT ![g].holder = t, ![g].nextID = @ + 1]
  /\ AfterFunc(t) /\ Go(t, "arm")
  /\ UNCHANGED <<opVars, outcome, cli, inbox, serverVars>>

\* A dirty one is replaced first: unread answers go with the old connection.
Reconnect(t) == LET g == cli[t] IN
  /\ pc[t] = "lock" /\ client[g].holder = "free" /\ client[g].dirty /\ Reachable(g)
  /\ client' = [client EXCEPT ![g] = [ holder |-> t, open |-> TRUE, dirty |-> FALSE,
                  nextID |-> @.nextID + 1, conn |-> @.conn + 1, deadline |-> "none" ]]
  /\ inbox' = [inbox EXCEPT ![g] = <<>>]
  /\ AfterFunc(t) /\ Go(t, "arm")
  /\ UNCHANGED <<opVars, outcome, cli, serverVars>>

\* The dial fails: the call ends before a request exists, still dirty.
ReconnectFails(t) == LET g == cli[t] IN
  /\ pc[t] = "lock" /\ client[g].holder = "free" /\ client[g].dirty /\ ~Reachable(g)
  /\ client' = [client EXCEPT ![g].open = FALSE]
  /\ inbox' = [inbox EXCEPT ![g] = <<>>]
  /\ Ends(t, "lost", "done")
  /\ UNCHANGED <<opVars, cli, registered, fired, serverVars>>

\* The context's own deadline, over whatever the goroutine may have set by now.
Arm(t) ==
  /\ pc[t] = "arm"
  /\ client' = [client EXCEPT ![cli[t]].deadline = "own"]
  /\ Go(t, "write")
  /\ UNCHANGED <<opVars, outcome, cli, registered, fired, inbox, serverVars>>

Write(t) == LET g == cli[t] IN
  /\ pc[t] = "write" /\ client[g].open /\ Reachable(g) /\ ~Expired(g)
  /\ pending' = [pending EXCEPT ![g] = @ \cup
       {[ id |-> client[g].nextID, conn |-> client[g].conn, op |-> op,
          changes |-> t = "driver" /\ kind # "observe" ]}]
  /\ Go(t, "read")
  /\ UNCHANGED <<opVars, outcome, cli, registered, fired, client, inbox, link, alive, effects>>

\* Changed: an interrupted connection is used again.
UsedAgain(c) == c
\* What wrapTransport leaves of the connection.
Desynced(c) == [c EXCEPT !.dirty = TRUE]

\* The connection's deadline interrupts a write or a read.
TimedOut(t) == LET g == cli[t] IN
  /\ pc[t] \in {"write", "read"} /\ client[g].open /\ Expired(g)
  /\ client' = [client EXCEPT ![g] = Desynced(@)]
  /\ Ends(t, "interrupted", "leave")
  /\ UNCHANGED <<opVars, cli, registered, fired, inbox, serverVars>>

\* The connection fails under a write or a read; the caller's end excuses it.
Dropped(t) == LET g == cli[t] IN
  /\ pc[t] \in {"write", "read"} /\ ~(client[g].open /\ Reachable(g))
  /\ client' = [client EXCEPT ![g] = Desynced(@)]
  /\ Ends(t, IF ended THEN "interrupted" ELSE "lost", "leave")
  /\ UNCHANGED <<opVars, cli, registered, fired, inbox, serverVars>>

\* An answer is read; one to another request ends the call as a lost connection.
Read(t) == LET g == cli[t] answer == Head(inbox[g]) IN
  /\ pc[t] = "read" /\ client[g].open /\ ~Expired(g) /\ inbox[g] # <<>>
  /\ inbox' = [inbox EXCEPT ![g] = Tail(@)]
  /\ Ends(t, IF answer.id # client[g].nextID THEN "lost"
             ELSE IF answer.ok THEN "ok" ELSE "refused", "leave")
  /\ UNCHANGED <<opVars, cli, registered, fired, client, serverVars>>

\* The defers: stop(), which does not wait for a goroutine already started, then the
\* deadline is cleared and the mutex given up.
ReleasedDeadlineOnly(c) == [c EXCEPT !.deadline = "none"]  \* changed: no Unlock
Released(c) == [c EXCEPT !.deadline = "none", !.holder = "free"]
Leave(t) ==
  /\ pc[t] = "leave"
  /\ registered' = [registered EXCEPT ![t] = FALSE]
  /\ client' = [client EXCEPT ![cli[t]] = Released(@)]
  /\ Go(t, "done")
  /\ UNCHANGED <<opVars, outcome, cli, fired, inbox, serverVars>>

\* The AfterFunc goroutine: on the connection the client has when it runs.
FireDeadline == \E g \in Sessions :
  /\ fired[g] > 0
  /\ fired' = [fired EXCEPT ![g] = @ - 1]
  /\ client' = [client EXCEPT ![g].deadline = "past"]
  /\ UNCHANGED <<opVars, pc, outcome, cli, registered, inbox, serverVars>>

(***************************************************************************)
(* The context of the operation                                            *)
(***************************************************************************)

DeadlinePasses ==
  /\ pc["driver"] # "idle" /\ ~due
  /\ due' = TRUE
  /\ UNCHANGED <<op, kind, ended, callerEnded, recovering, relaunched, collapsedLeft, session,
                 callVars, serverVars>>

\* Done, by the deadline or by a cancel; of a launch, its bound alone or both.
ContextEnds ==
  /\ pc["driver"] # "idle" /\ ~ended
  /\ ended' = TRUE
  /\ callerEnded' \in IF kind = "launch" /\ due THEN BOOLEAN ELSE {TRUE}
  /\ fired' = [g \in Sessions |-> fired[g] + Cardinality({t \in Threads : registered[t] /\ cli[t] = g})]
  /\ registered' = [t \in Threads |-> FALSE]
  /\ UNCHANGED <<op, kind, due, recovering, relaunched, collapsedLeft, session,
                 pc, outcome, cli, client, inbox, serverVars>>

(***************************************************************************)
(* The operations of the driver                                            *)
(***************************************************************************)

\* Snapshot captures d.companion for its screenshot thread.
Begin(k) ==
  /\ pc["driver"] = "idle" /\ op < Len(Asked) /\ k \in Asked[op + 1]
  /\ op' = op + 1 /\ kind' = k
  /\ collapsedLeft' = IF k = "observe" THEN CollapsedRetries ELSE 0
  /\ pc' = [driver |-> "lock", shot |-> IF k = "observe" THEN "lock" ELSE "idle"]
  /\ UNCHANGED <<due, ended, callerEnded, recovering, relaunched, session, outcome, cli, registered, fired, client, inbox, serverVars>>

\* withRecovery: a lost connection earns one restart, whatever became of the call.
RestartAlways == TRUE  \* changed: no limit to the restarts of one incident
RestartAllowed == ~recovering
Recovers ==
  /\ pc["driver"] = "done" /\ outcome["driver"] = "lost" /\ RestartAllowed
Recover ==
  /\ Recovers
  /\ recovering' = TRUE
  /\ Go("driver", "close")
  /\ UNCHANGED <<op, kind, due, ended, callerEnded, relaunched, collapsedLeft, session, outcome, cli,
                 registered, fired, client, inbox, serverVars>>

\* launchWithSessionRecovery: a launch that outlived its own bound, once, and the
\* second attempt has a fresh bound and a fresh withRecovery.
SameSession == "lock"  \* changed: calls again instead of restarting
AfterBound == "close"
OutlivesBound ==
  /\ pc["driver"] = "done" /\ kind = "launch" /\ ~relaunched
  /\ outcome["driver"] = "interrupted" /\ ~callerEnded
RecoverSession ==
  /\ OutlivesBound
  /\ relaunched' = TRUE /\ recovering' = FALSE /\ due' = FALSE /\ ended' = FALSE
  /\ Go("driver", AfterBound)
  /\ UNCHANGED <<op, kind, callerEnded, collapsedLeft, session, outcome, cli,
                 registered, fired, client, inbox, serverVars>>

\* respawnDevice: the connection is closed without the mutex, what it held unread gone ...
CloseClient ==
  /\ pc["driver"] = "close"
  /\ client' = [client EXCEPT ![session].open = FALSE]
  /\ inbox' = [inbox EXCEPT ![session] = <<>>]
  /\ Go("driver", "kill")
  /\ UNCHANGED <<opVars, outcome, cli, registered, fired, serverVars>>

\* ... the session's child on this host and the tunnel are stopped; that tears the server
\* on the device down, or orphans it with the requests it has (without, it does nothing) ...
Killed(g) ==
  /\ alive' = [alive EXCEPT ![g] = FALSE]
  /\ pending' = [pending EXCEPT ![g] = {}]
StopChild ==
  /\ pc["driver"] = "kill"
  /\ Killed(session) \/ (pending[session] # {} /\ UNCHANGED <<alive, pending>>)
  /\ link' = [link EXCEPT ![session] = FALSE]
  /\ Go("driver", "bringUp")
  /\ UNCHANGED <<opVars, outcome, cli, registered, fired, client, inbox, effects>>

\* ... and a fresh set is brought up, on which the call is made again.  MaxSessions
\* bounds it; past the bound only BringUpFails is left.
BringUp ==
  /\ pc["driver"] = "bringUp" /\ session < MaxSessions
  /\ session' = session + 1
  /\ cli' = [cli EXCEPT !["driver"] = session + 1]
  /\ link' = [link EXCEPT ![session + 1] = TRUE]
  /\ alive' = [alive EXCEPT ![session + 1] = TRUE]
  /\ Ends("driver", "none", "lock")
  /\ UNCHANGED <<op, kind, due, ended, callerEnded, recovering, relaunched, collapsedLeft,
                 registered, fired, client, inbox, pending, effects>>

\* The restart's error is the operation's.  One that ran out of the startup bound is
\* a budget expiry too, which launchWithSessionRecovery takes for the launch's.
BringUpFails ==
  /\ pc["driver"] = "bringUp"
  /\ recovering' = TRUE
  /\ \E how \in {"lost", "interrupted"} : Ends("driver", how, "done")
  /\ UNCHANGED <<op, kind, due, ended, callerEnded, relaunched, collapsedLeft, session, cli,
                 registered, fired, client, inbox, serverVars>>

\* describeAll reads again past a collapsed dump, each read with its own recovery.
ReadAgain ==
  /\ pc["driver"] = "done" /\ kind = "observe" /\ outcome["driver"] = "ok"
  /\ collapsedLeft > 0 /\ ~ended
  /\ collapsedLeft' = collapsedLeft - 1 /\ recovering' = FALSE
  /\ Ends("driver", "none", "lock")
  /\ UNCHANGED <<op, kind, due, ended, callerEnded, relaunched, session, cli,
                 registered, fired, client, inbox, serverVars>>

\* The operation returns, an observation once its screenshot has; its locals go.
Settle ==
  /\ pc["driver"] = "done" /\ pc["shot"] \in {"idle", "done"}
  /\ ~Recovers /\ ~OutlivesBound
  /\ pc' = [t \in Threads |-> "idle"]
  /\ outcome' = [t \in Threads |-> "none"]
  /\ cli' = [t \in Threads |-> session]
  /\ due' = FALSE /\ ended' = FALSE /\ callerEnded' = FALSE
  /\ recovering' = FALSE /\ relaunched' = FALSE /\ collapsedLeft' = 0
  /\ UNCHANGED <<op, kind, session, registered, fired, client, inbox, serverVars>>

(***************************************************************************)
(* The server, and what befalls it                                         *)
(***************************************************************************)

\* One work queue serves a connection's requests in the order it carried them;
\* between two connections no order is known.  An answer to a connection that has
\* been replaced reaches nobody.
NextServed(g) == {r \in pending[g] :
  \A s \in pending[g] : s.conn = r.conn => r.id <= s.id}
Answers(g, r, ok) == inbox' =
  IF link[g] /\ client[g].open /\ client[g].conn = r.conn
  THEN [inbox EXCEPT ![g] = Append(@, [id |-> r.id, ok |-> ok])] ELSE inbox

\* A request that throws is answered with the error, and may have changed the app.
Serve(g) == \E r \in NextServed(g), ok \in BOOLEAN, landed \in BOOLEAN :
  /\ alive[g] /\ (ok => landed)
  /\ pending' = [pending EXCEPT ![g] = @ \ {r}]
  /\ effects' = IF r.changes /\ landed THEN [effects EXCEPT ![r.op][g] = @ + 1] ELSE effects
  /\ Answers(g, r, ok)
  /\ UNCHANGED <<opVars, pc, outcome, cli, registered, fired, client, link, alive>>

TunnelDrops(g) ==
  /\ link[g]
  /\ link' = [link EXCEPT ![g] = FALSE]
  /\ UNCHANGED <<opVars, callVars, alive, pending, effects>>

ProcessDies(g) ==
  /\ alive[g] /\ Killed(g)
  /\ UNCHANGED <<opVars, callVars, link, effects>>

(***************************************************************************)

Call(t) ==
  \/ Lock(t) \/ Reconnect(t) \/ ReconnectFails(t) \/ Arm(t) \/ Write(t)
  \/ TimedOut(t) \/ Dropped(t) \/ Read(t) \/ Leave(t)
Restart == CloseClient \/ StopChild \/ BringUp \/ BringUpFails
Return == Recover \/ RecoverSession \/ ReadAgain \/ Settle
Server(g) == Serve(g) \/ TunnelDrops(g) \/ ProcessDies(g)

Next ==
  \/ \E t \in Threads : Call(t)
  \/ \E k \in Kinds : Begin(k)
  \/ Restart \/ Return \/ FireDeadline \/ DeadlinePasses \/ ContextEnds
  \/ \E g \in Sessions : Server(g)

\* Threads and goroutines run and time passes; the server owes nothing.
Fairness ==
  /\ \A t \in Threads : WF_vars(Call(t))
  /\ WF_vars(Restart) /\ WF_vars(Return)
  /\ WF_vars(FireDeadline) /\ WF_vars(DeadlinePasses)

Spec == Init /\ [][Next]_vars /\ Fairness

(***************************************************************************)
(* Properties                                                              *)
(***************************************************************************)

ClientType == [ holder : Threads \cup {"free"}, open : BOOLEAN, dirty : BOOLEAN,
                nextID : Nat, conn : Nat, deadline : {"none", "own", "past"} ]
Request == [ id : Nat, conn : Nat, op : Ops, changes : BOOLEAN ]
Answer == [ id : Nat, ok : BOOLEAN ]

\* Every variable keeps its type, ids and connections included, and the mutex is held
\* by exactly the thread inside call.
TypeOK ==
  /\ op \in 0..Len(Asked) /\ kind \in Kinds
  /\ {due, ended, callerEnded, recovering, relaunched} \subseteq BOOLEAN
  /\ collapsedLeft \in 0..CollapsedRetries /\ session \in Sessions
  /\ pc \in [Threads -> Places] /\ outcome \in [Threads -> Outcomes]
  /\ cli \in [Threads -> Sessions] /\ registered \in [Threads -> BOOLEAN]
  /\ fired \in [Sessions -> Nat]
  /\ client \in [Sessions -> ClientType]
  /\ link \in [Sessions -> BOOLEAN] /\ alive \in [Sessions -> BOOLEAN]
  /\ pending \in [Sessions -> SUBSET Request]
  /\ inbox \in [Sessions -> Seq(Answer)]
  /\ effects \in [Ops -> [Sessions -> Nat]]
  /\ \A g \in Sessions, t \in Threads :
       client[g].holder = t <=> cli[t] = g /\ pc[t] \in CallPlaces \ {"lock"}

\* A call never finds the answer to another request on its connection: an interrupted
\* call's answer dies with the connection it was left on (dirty, reconnect), so the id
\* comparison of call never fails.
AnswersInStep ==
  \A t \in Threads : LET g == cli[t] IN
    pc[t] = "read" /\ inbox[g] # <<>> => Head(inbox[g]).id = client[g].nextID

\* An operation reported as done was performed by the server that answered, and one
\* process never performs it twice, whatever was retried: a second attempt is only
\* made against a process that never saw the first (withRecovery,
\* launchWithSessionRecovery).
DoneOncePerProcess ==
  /\ \A o \in Ops, g \in Sessions : effects[o][g] <= 1
  /\ pc["driver"] = "done" /\ outcome["driver"] = "ok" /\ kind # "observe"
       => effects[op][session] = 1

\* A gesture is asked of two sessions at most, and a launch of four, however many can be
\* brought up: a restarted session that fails again earns no other, but each attempt of a
\* launch has a restart of its own.  A call counts as long as the session it was written
\* to may perform it, after its replacement too, and the session being made for it counts
\* already (withRecovery, launchWithSessionRecovery).
Reached(o) == {g \in Sessions : effects[o][g] > 0 \/ \E r \in pending[g] : r.op = o /\ r.changes}
BeingMade == IF pc["driver"] \in {"close", "kill", "bringUp"} THEN {session + 1} ELSE {}
RetriedOnce ==
  pc["driver"] # "idle" /\ kind # "observe" =>
    Cardinality(Reached(op) \cup BeingMade) <= IF kind = "launch" THEN 4 ELSE 2

\* Every operation returns, whatever the server does: its context ends, and that ends
\* the call, also when the goroutine's deadline was overwritten, the mutex is held by
\* the other thread, or the restart fails.
OperationsReturn == (pc["driver"] # "idle") ~> (pc["driver"] = "idle")

\* What the comments of call and wrapTransport say: a deadline interrupts a call only
\* when the context of that call ran out.
InterruptedByOwnContext ==
  \A t \in Threads :
    pc[t] = "leave" /\ outcome[t] = "interrupted" => due \/ ended
=============================================================================
