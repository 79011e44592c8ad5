-------------------------- MODULE IosSessionProofs --------------------------
(***************************************************************************)
(* What holds of a device session for every script of operations and any   *)
(* number of restarts.                                                     *)
(***************************************************************************)
EXTENDS IosSession, Integers, FiniteSetTheorems, TLAPS

----------------------------------------------------------------------------
(* Types, the mutex of a client and the places of the two threads.         *)

OpTyped ==
  /\ op \in 0..Len(Asked) /\ kind \in Kinds
  /\ {due, ended, callerEnded, recovering, relaunched} \subseteq BOOLEAN
  /\ collapsedLeft \in 0..CollapsedRetries /\ session \in Sessions
ThreadsTyped ==
  /\ pc \in [Threads -> Places] /\ outcome \in [Threads -> Outcomes]
  /\ cli \in [Threads -> Sessions] /\ registered \in [Threads -> BOOLEAN]
ClientsTyped ==
  /\ fired \in [Sessions -> Nat] /\ client \in [Sessions -> ClientType]
  /\ inbox \in [Sessions -> Seq(Answer)]
ServersTyped ==
  /\ link \in [Sessions -> BOOLEAN] /\ alive \in [Sessions -> BOOLEAN]
  /\ pending \in [Sessions -> SUBSET Request]
  /\ effects \in [Ops -> [Sessions -> Nat]]

\* The places inside call, where a thread holds the mutex of its client.
Inside == {"arm", "write", "read", "leave"}
MutexHeld ==
  \A g \in Sessions, t \in Threads :
    client[g].holder = t <=> cli[t] = g /\ pc[t] \in Inside

\* The driver calls the current session, no operation is running while it is idle, and
\* only the driver restarts a session.
PlacesKept ==
  /\ cli["driver"] = session
  /\ pc["driver"] = "idle" => pc["shot"] = "idle"
  /\ pc["driver"] # "idle" => op \in Ops
  /\ pc["shot"] \notin {"close", "kill", "bringUp"}

Kept ==
  OpTyped /\ ThreadsTyped /\ ClientsTyped /\ ServersTyped /\ MutexHeld /\ PlacesKept

\* The parts are the type invariant.
LEMMA TypeParts == Kept => TypeOK
<1>1. CallPlaces \ {"lock"} = Inside
  BY DEF CallPlaces, Inside
<1> QED BY <1>1 DEF Kept, TypeOK, OpTyped, ThreadsTyped, ClientsTyped, ServersTyped, MutexHeld

\* What a call leaves alone, whichever of its steps it is at: everything of the other
\* sessions, the other thread's place, and the operation.
CallFrame(t) ==
  /\ UNCHANGED <<opVars, cli, effects, link, alive>>
  /\ \A u \in Threads \ {t} : pc'[u] = pc[u] /\ outcome'[u] = outcome[u]
  /\ \A h \in Sessions \ {cli[t]} :
       client'[h] = client[h] /\ inbox'[h] = inbox[h] /\ pending'[h] = pending[h]

\* A call never gives or takes a place outside call but for its end.
CallMoves(t) ==
  \/ pc[t] = "lock" /\ pc'[t] \in {"arm", "done"}
  \/ pc[t] = "arm" /\ pc'[t] = "write"
  \/ pc[t] = "write" /\ pc'[t] \in {"read", "leave"}
  \/ pc[t] = "read" /\ pc'[t] = "leave"
  \/ pc[t] = "leave" /\ pc'[t] = "done"

LEMMA CallFrames ==
  ASSUME Kept, NEW t \in Threads, Call(t)
  PROVE  CallFrame(t) /\ CallMoves(t)
<1>1. ThreadsTyped /\ ClientsTyped /\ ServersTyped
  BY DEF Kept
<1> USE <1>1 DEF ThreadsTyped, ClientsTyped, ServersTyped, Go, Ends, opVars, serverVars
<1>2. CASE Lock(t)
  BY <1>2 DEF Lock, CallFrame, CallMoves
<1>3. CASE Reconnect(t)
  BY <1>3 DEF Reconnect, CallFrame, CallMoves
<1>4. CASE ReconnectFails(t)
  BY <1>4 DEF ReconnectFails, CallFrame, CallMoves
<1>5. CASE Arm(t)
  BY <1>5 DEF Arm, CallFrame, CallMoves
<1>6. CASE Write(t)
  BY <1>6 DEF Write, CallFrame, CallMoves
<1>7. CASE TimedOut(t)
  BY <1>7 DEF TimedOut, CallFrame, CallMoves
<1>8. CASE Dropped(t)
  BY <1>8 DEF Dropped, CallFrame, CallMoves
<1>9. CASE Read(t)
  BY <1>9 DEF Read, CallFrame, CallMoves
<1>10. CASE Leave(t)
  BY <1>10 DEF Leave, CallFrame, CallMoves
<1> QED BY <1>2, <1>3, <1>4, <1>5, <1>6, <1>7, <1>8, <1>9, <1>10 DEF Call

\* What a step of a call makes of its own client; the server's answer, the written
\* request and the connection are the business of the section after this one.
Fresh(c, t) == [ holder |-> t, open |-> TRUE, dirty |-> FALSE, nextID |-> c.nextID + 1,
                 conn |-> c.conn + 1, deadline |-> "none" ]

LEMMA CallClients ==
  ASSUME Kept, NEW t \in Threads, Call(t)
  PROVE  /\ client' \in [Sessions -> ClientType]
         /\ CASE pc[t] = "lock" /\ pc'[t] = "arm" -> client'[cli[t]].holder = t
              [] pc[t] = "leave"                  -> client'[cli[t]].holder = "free"
              [] OTHER -> client'[cli[t]].holder = client[cli[t]].holder
<1> DEFINE g == cli[t]
           c == client[g]
<1>1. g \in Sessions /\ c \in ClientType /\ client \in [Sessions -> ClientType]
  BY DEF Kept, ThreadsTyped, ClientsTyped
<1>2. c.nextID + 1 \in Nat /\ c.conn + 1 \in Nat
  BY <1>1 DEF ClientType
<1> DEFINE d == client'[g]
<1>3. ASSUME NEW e \in ClientType, client' = [client EXCEPT ![g] = e]
      PROVE  client' \in [Sessions -> ClientType] /\ client'[g] = e
  BY <1>1, <1>3
<1>4. pc \in [Threads -> Places] /\ CallMoves(t)
  BY CallFrames DEF Kept, ThreadsTyped
<1> HIDE DEF g, c
<1> USE <1>1 DEF Go, Ends
<1>5. CASE Lock(t)
  <2>1. [c EXCEPT !.holder = t, !.nextID = c.nextID + 1] \in ClientType
    BY <1>2 DEF ClientType
  <2>2. client' = [client EXCEPT ![g] = [c EXCEPT !.holder = t, !.nextID = c.nextID + 1]]
    BY <1>5 DEF Lock, g, c, ClientType
  <2>3. [c EXCEPT !.holder = t, !.nextID = c.nextID + 1].holder = t
    BY DEF ClientType
  <2> QED BY <1>3, <1>4, <1>5, <2>1, <2>2, <2>3 DEF Lock, g
<1>6. CASE Reconnect(t)
  <2>1. Fresh(c, t) \in ClientType /\ Fresh(c, t).holder = t
    BY <1>2 DEF Fresh, ClientType
  <2>2. client' = [client EXCEPT ![g] = Fresh(c, t)]
    BY <1>6 DEF Reconnect, Fresh, g, c
  <2> QED BY <1>3, <1>4, <1>6, <2>1, <2>2 DEF Reconnect, g
<1>7. CASE ReconnectFails(t)
  <2>1. [c EXCEPT !.open = FALSE] \in ClientType /\ [c EXCEPT !.open = FALSE].holder = c.holder
    BY DEF ClientType
  <2>2. client' = [client EXCEPT ![g] = [c EXCEPT !.open = FALSE]]
    BY <1>7 DEF ReconnectFails, g, c
  <2> QED BY <1>3, <1>4, <1>7, <2>1, <2>2 DEF ReconnectFails, g, c
<1>8. CASE Arm(t)
  <2>1. /\ [c EXCEPT !.deadline = "own"] \in ClientType
        /\ [c EXCEPT !.deadline = "own"].holder = c.holder
    BY DEF ClientType
  <2>2. client' = [client EXCEPT ![g] = [c EXCEPT !.deadline = "own"]]
    BY <1>8 DEF Arm, g, c
  <2> QED BY <1>3, <1>4, <1>8, <2>1, <2>2 DEF Arm, g, c
<1>9. CASE Write(t) \/ Read(t)
  BY <1>4, <1>9 DEF Write, Read, g
<1>10. CASE TimedOut(t) \/ Dropped(t)
  <2>1. Desynced(c) \in ClientType /\ Desynced(c).holder = c.holder
    BY DEF Desynced, ClientType
  <2>2. client' = [client EXCEPT ![g] = Desynced(c)]
    BY <1>10 DEF TimedOut, Dropped, g, c
  <2> QED BY <1>3, <1>4, <1>10, <2>1, <2>2 DEF TimedOut, Dropped, g, c
<1>11. CASE Leave(t)
  <2>1. Released(c) \in ClientType /\ Released(c).holder = "free"
    BY DEF Released, ClientType
  <2>2. client' = [client EXCEPT ![g] = Released(c)]
    BY <1>11 DEF Leave, g, c
  <2> QED BY <1>3, <1>4, <1>11, <2>1, <2>2 DEF Leave, g
<1> QED BY <1>5, <1>6, <1>7, <1>8, <1>9, <1>10, <1>11 DEF Call

\* A thread starts or stops holding the mutex with the place of its own call.
LEMMA CallKept == ASSUME Kept, NEW t \in Threads, Call(t) PROVE Kept'
<1>1. CallFrame(t) /\ CallMoves(t)
  BY CallFrames
<1>2. OpTyped /\ ThreadsTyped /\ ClientsTyped /\ ServersTyped /\ MutexHeld
  BY DEF Kept
<1>3. OpTyped'
  BY <1>1, <1>2 DEF CallFrame, OpTyped, opVars
<1>4. ThreadsTyped'
  <2>1. cli' = cli
    BY <1>1 DEF CallFrame
  <2>2. pc' \in [Threads -> Places]
    BY <1>2 DEF Call, Lock, Reconnect, ReconnectFails, Arm, Write, TimedOut, Dropped, Read,
                Leave, Ends, Go, ThreadsTyped, Places, CallPlaces
  <2>3. outcome' \in [Threads -> Outcomes]
    BY <1>2 DEF Call, Lock, Reconnect, ReconnectFails, Arm, Write, TimedOut, Dropped, Read,
                Leave, Ends, ThreadsTyped, Outcomes
  <2>4. registered' \in [Threads -> BOOLEAN]
    BY <1>2 DEF Call, Lock, Reconnect, ReconnectFails, Arm, Write, TimedOut, Dropped, Read,
                Leave, AfterFunc, ThreadsTyped
  <2> QED BY <1>2, <2>1, <2>2, <2>3, <2>4 DEF ThreadsTyped
<1>5. ClientsTyped'
  <2>1. client' \in [Sessions -> ClientType]
    BY CallClients
  <2>2. inbox' \in [Sessions -> Seq(Answer)]
    <3>1. \/ UNCHANGED inbox
          \/ inbox' = [inbox EXCEPT ![cli[t]] = <<>>]
          \/ /\ inbox[cli[t]] # <<>>
             /\ inbox' = [inbox EXCEPT ![cli[t]] = Tail(inbox[cli[t]])]
      BY DEF Call, Lock, Reconnect, ReconnectFails, Arm, Write, TimedOut, Dropped, Read, Leave
    <3>2. inbox[cli[t]] \in Seq(Answer) /\ <<>> \in Seq(Answer)
      BY <1>2 DEF ClientsTyped, ThreadsTyped
    <3>3. inbox[cli[t]] # <<>> => Tail(inbox[cli[t]]) \in Seq(Answer)
      BY <3>2
    <3> QED BY <1>2, <3>1, <3>2, <3>3 DEF ClientsTyped
  <2>3. fired' \in [Sessions -> Nat]
    BY <1>2 DEF Call, Lock, Reconnect, ReconnectFails, Arm, Write, TimedOut, Dropped, Read,
                Leave, AfterFunc, ClientsTyped, ThreadsTyped
  <2> QED BY <2>1, <2>2, <2>3 DEF ClientsTyped
<1>6. ServersTyped'
  <2>1. UNCHANGED <<link, alive, effects>>
    BY <1>1 DEF CallFrame
  <2>2. pending' \in [Sessions -> SUBSET Request]
    <3>1. CASE Write(t)
      <4> DEFINE r == [ id |-> client[cli[t]].nextID, conn |-> client[cli[t]].conn, op |-> op,
                        changes |-> t = "driver" /\ kind # "observe" ]
      <4>1. pc["driver"] # "idle"
        BY <3>1 DEF Write, Kept, PlacesKept, Threads
      <4>2. op \in Ops /\ client[cli[t]] \in ClientType /\ cli[t] \in Sessions
        BY <1>2, <4>1 DEF Kept, PlacesKept, ClientsTyped, ThreadsTyped
      <4>3. r \in Request
        BY <4>2 DEF Request, ClientType
      <4> HIDE DEF r
      <4>4. pending' = [pending EXCEPT ![cli[t]] = pending[cli[t]] \cup {r}]
        BY <3>1 DEF Write, r
      <4> QED BY <1>2, <4>2, <4>3, <4>4 DEF ServersTyped
    <3>2. CASE ~Write(t)
      <4>1. pending' = pending
        BY <3>2 DEF Call, Lock, Reconnect, ReconnectFails, Arm, TimedOut, Dropped, Read, Leave,
                    serverVars
      <4> QED BY <1>2, <4>1 DEF ServersTyped
    <3> QED BY <3>1, <3>2
  <2> QED BY <1>2, <2>1, <2>2 DEF ServersTyped
<1>7. MutexHeld'
  <2> DEFINE g == cli[t]
  <2>1. /\ CASE pc[t] = "lock" /\ pc'[t] = "arm" -> client'[g].holder = t
              [] pc[t] = "leave"                  -> client'[g].holder = "free"
              [] OTHER -> client'[g].holder = client[g].holder
    BY CallClients
  <2>2. pc[t] = "lock" /\ pc'[t] = "arm" => client[g].holder = "free"
    BY <1>2 DEF Call, Lock, Reconnect, ReconnectFails, Arm, Write, TimedOut, Dropped, Read,
                Leave, Ends, Go, ThreadsTyped
  <2>3. g \in Sessions /\ \A u \in Threads : u # "free"
    BY <1>2 DEF ThreadsTyped, Threads
  <2>4. /\ cli' = cli /\ \A h \in Sessions \ {g} : client'[h] = client[h]
        /\ \A u \in Threads \ {t} : pc'[u] = pc[u]
    BY <1>1 DEF CallFrame
  <2> HIDE DEF g
  <2>5. \A h \in Sessions, u \in Threads : h # g =>
          (client'[h].holder = u <=> cli'[u] = h /\ pc'[u] \in Inside)
    BY <1>2, <2>4 DEF MutexHeld, g
  <2>6. \A u \in Threads : client'[g].holder = u <=> cli'[u] = g /\ pc'[u] \in Inside
    BY <1>1, <1>2, <2>1, <2>2, <2>3, <2>4 DEF MutexHeld, CallMoves, Inside, g
  <2> QED BY <2>5, <2>6 DEF MutexHeld
<1>8. PlacesKept'
  BY <1>1 DEF CallFrame, CallMoves, Kept, PlacesKept, Threads, opVars
<1> QED BY <1>3, <1>4, <1>5, <1>6, <1>7, <1>8 DEF Kept

\* Outside call the driver moves among places that hold no mutex.
LEMMA MutexApart ==
  ASSUME MutexHeld,
         \A g \in Sessions : client'[g].holder = client[g].holder,
         \A t \in Threads :
           (cli'[t] = cli[t] /\ pc'[t] = pc[t]) \/ (pc[t] \notin Inside /\ pc'[t] \notin Inside)
  PROVE  MutexHeld'
BY DEF MutexHeld

LEMMA RestartKept == ASSUME Kept, Restart PROVE Kept'
<1> USE DEF Kept, opVars, callVars, serverVars
<1>1. /\ "driver" \in Threads /\ "shot" \in Threads
      /\ {"close", "kill", "bringUp", "lock", "done"} \subseteq Places
      /\ {"none", "lost", "interrupted"} \subseteq Outcomes
      /\ \A t \in Threads : t = "driver" \/ t = "shot"
  BY DEF Threads, Places, CallPlaces, Inside, Outcomes
<1>2. CASE CloseClient
  <2>1. \A c \in ClientType : [c EXCEPT !.open = FALSE] \in ClientType
    BY DEF ClientType
  <2>2. client' = [client EXCEPT ![session] = [client[session] EXCEPT !.open = FALSE]]
    BY <1>2 DEF CloseClient
  <2>3. OpTyped' /\ ThreadsTyped' /\ ServersTyped'
    BY <1>1, <1>2 DEF CloseClient, Go, OpTyped, ThreadsTyped, ServersTyped
  <2>4. ClientsTyped'
    <3>1. <<>> \in Seq(Answer)
      OBVIOUS
    <3> QED BY <1>2, <2>1, <2>2, <3>1 DEF CloseClient, ClientsTyped, OpTyped
  <2>5. MutexHeld'
    <3>1. \A g \in Sessions : client'[g].holder = client[g].holder
      BY <2>2 DEF ClientsTyped, ClientType
    <3>2. pc["driver"] \notin Inside /\ pc'["driver"] \notin Inside
      BY <1>2 DEF CloseClient, Go, ThreadsTyped, Inside, Threads
    <3>3. cli' = cli /\ pc'["shot"] = pc["shot"]
      BY <1>2 DEF CloseClient, Go, ThreadsTyped
    <3> QED BY <1>1, <3>1, <3>2, <3>3, MutexApart
  <2>6. PlacesKept'
    BY <1>2 DEF CloseClient, Go, ThreadsTyped, PlacesKept, Threads
  <2> QED BY <2>3, <2>4, <2>5, <2>6
<1>3. CASE StopChild
  <2>1. OpTyped' /\ ThreadsTyped' /\ ClientsTyped'
    BY <1>1, <1>3 DEF StopChild, Go, OpTyped, ThreadsTyped, ClientsTyped
  <2>2. ServersTyped'
    BY <1>3 DEF StopChild, Killed, OpTyped, ServersTyped
  <2>3. MutexHeld'
    <3>1. pc["driver"] \notin Inside /\ pc'["driver"] \notin Inside
      BY <1>3 DEF StopChild, Go, ThreadsTyped, Inside, Threads
    <3>2. UNCHANGED <<cli, client>> /\ pc'["shot"] = pc["shot"]
      BY <1>3 DEF StopChild, Go, ThreadsTyped
    <3> QED BY <1>1, <3>1, <3>2, MutexApart
  <2>4. PlacesKept'
    BY <1>3 DEF StopChild, Go, ThreadsTyped, PlacesKept, Threads
  <2> QED BY <2>1, <2>2, <2>3, <2>4
<1>4. CASE BringUp
  <2>1. session' \in Sessions /\ session + 1 \in Sessions
    BY <1>4, SessionsAssumption DEF BringUp, OpTyped, Sessions
  <2>2. OpTyped'
    BY <1>4, <2>1 DEF BringUp, OpTyped
  <2>3. ThreadsTyped'
    BY <1>1, <1>4, <2>1 DEF BringUp, Ends, Go, ThreadsTyped
  <2>4. ClientsTyped' /\ ServersTyped'
    BY <1>4, <2>1 DEF BringUp, ClientsTyped, ServersTyped
  <2>5. MutexHeld'
    <3>1. pc["driver"] \notin Inside /\ pc'["driver"] \notin Inside
      BY <1>4 DEF BringUp, Ends, Go, ThreadsTyped, Inside, Threads
    <3>2. client' = client /\ pc'["shot"] = pc["shot"] /\ cli'["shot"] = cli["shot"]
      BY <1>4 DEF BringUp, Ends, Go, ThreadsTyped
    <3> QED BY <1>1, <3>1, <3>2, MutexApart
  <2>6. PlacesKept'
    BY <1>4 DEF BringUp, Ends, Go, ThreadsTyped, PlacesKept, Threads
  <2> QED BY <2>2, <2>3, <2>4, <2>5, <2>6
<1>5. CASE BringUpFails
  <2>1. OpTyped'
    BY <1>5 DEF BringUpFails, OpTyped
  <2>2. ThreadsTyped'
    BY <1>1, <1>5 DEF BringUpFails, Ends, Go, ThreadsTyped
  <2>3. ClientsTyped' /\ ServersTyped'
    BY <1>5 DEF BringUpFails, ClientsTyped, ServersTyped
  <2>4. MutexHeld'
    <3>1. pc["driver"] \notin Inside /\ pc'["driver"] \notin Inside
      BY <1>5 DEF BringUpFails, Ends, Go, ThreadsTyped, Inside, Threads
    <3>2. UNCHANGED <<cli, client>> /\ pc'["shot"] = pc["shot"]
      BY <1>5 DEF BringUpFails, Ends, Go, ThreadsTyped
    <3> QED BY <1>1, <3>1, <3>2, MutexApart
  <2>5. PlacesKept'
    BY <1>5 DEF BringUpFails, Ends, Go, ThreadsTyped, PlacesKept, Threads
  <2> QED BY <2>1, <2>2, <2>3, <2>4, <2>5
<1> QED BY <1>2, <1>3, <1>4, <1>5 DEF Restart

LEMMA ReturnKept == ASSUME Kept, Return \/ \E k \in Kinds : Begin(k) PROVE Kept'
<1> USE DEF Kept, opVars, callVars, serverVars
<1>1. /\ "driver" \in Threads /\ "shot" \in Threads
      /\ {"close", "lock", "idle"} \subseteq Places /\ "none" \in Outcomes
      /\ {"close", "lock", "idle", "done"} \cap Inside = {}
      /\ \A t \in Threads : t = "driver" \/ t = "shot"
  BY DEF Threads, Places, CallPlaces, Inside, Outcomes
<1>2. UNCHANGED <<client, inbox, fired, registered, serverVars>>
  BY DEF Return, Recover, RecoverSession, ReadAgain, Settle, Begin
<1>3. ClientsTyped' /\ ServersTyped'
  BY <1>2 DEF ClientsTyped, ServersTyped
<1>4. CASE Recover \/ RecoverSession \/ ReadAgain
  <2>1. /\ cli' = cli /\ op' = op /\ session' = session /\ kind' = kind
        /\ pc["driver"] = "done"
        /\ \E place \in {"close", "lock"} : pc' = [pc EXCEPT !["driver"] = place]
        /\ outcome' = outcome \/ outcome' = [outcome EXCEPT !["driver"] = "none"]
    BY <1>4 DEF Recover, Recovers, RecoverSession, OutlivesBound, ReadAgain, AfterBound, Ends,
                Go
  <2>2. /\ {due', ended', callerEnded', recovering', relaunched'} \subseteq BOOLEAN
        /\ collapsedLeft' \in 0..CollapsedRetries
    <3>1. CASE Recover \/ RecoverSession
      BY <3>1 DEF Recover, RecoverSession, OpTyped
    <3>2. CASE ReadAgain
      <4>1. collapsedLeft - 1 \in 0..CollapsedRetries
        BY <3>2, RetriesAssumption DEF ReadAgain, OpTyped
      <4> QED BY <3>2, <4>1 DEF ReadAgain, OpTyped
    <3> QED BY <1>4, <3>1, <3>2
  <2>3. OpTyped' /\ ThreadsTyped'
    BY <1>1, <1>2, <2>1, <2>2 DEF OpTyped, ThreadsTyped
  <2>4. /\ pc'["driver"] \in {"close", "lock"} /\ pc'["shot"] = pc["shot"]
    BY <1>1, <2>1 DEF ThreadsTyped
  <2>5. MutexHeld'
    BY <1>1, <1>2, <2>1, <2>4, MutexApart
  <2>6. PlacesKept'
    BY <2>1, <2>4 DEF PlacesKept
  <2> QED BY <1>3, <2>3, <2>5, <2>6
<1>5. CASE Settle
  <2>1. /\ pc["driver"] = "done" /\ pc["shot"] \in {"idle", "done"}
        /\ pc' = [t \in Threads |-> "idle"] /\ outcome' = [t \in Threads |-> "none"]
        /\ cli' = [t \in Threads |-> session] /\ UNCHANGED <<op, kind, session>>
    BY <1>5 DEF Settle
  <2>2. OpTyped'
    <3>1. 0 \in 0..CollapsedRetries
      BY RetriesAssumption
    <3>2. UNCHANGED <<op, kind, session>> /\ collapsedLeft' = 0
      BY <1>5 DEF Settle
    <3>3. {due', ended', callerEnded', recovering', relaunched'} \subseteq BOOLEAN
      BY <1>5 DEF Settle
    <3> QED BY <3>1, <3>2, <3>3 DEF OpTyped
  <2>3. ThreadsTyped'
    BY <1>1, <1>2, <2>1 DEF OpTyped, ThreadsTyped
  <2>4. MutexHeld'
    BY <1>1, <1>2, <2>1, MutexApart
  <2>5. PlacesKept'
    BY <1>1, <2>1 DEF PlacesKept
  <2> QED BY <1>3, <2>2, <2>3, <2>4, <2>5
<1>6. ASSUME NEW k \in Kinds, Begin(k) PROVE Kept'
  <2>1. /\ pc["driver"] = "idle" /\ pc["shot"] = "idle"
        /\ pc' = [driver |-> "lock", shot |-> IF k = "observe" THEN "lock" ELSE "idle"]
        /\ UNCHANGED <<outcome, cli, session>>
    BY <1>6 DEF Begin, PlacesKept
  <2>2. op' \in Ops /\ op' \in 0..Len(Asked)
    BY <1>6, AskedAssumption DEF Begin, Ops, OpTyped
  <2>3. OpTyped'
    BY <1>6, <2>1, <2>2, RetriesAssumption DEF Begin, OpTyped
  <2>4. ThreadsTyped'
    <3>1. pc' \in [Threads -> Places]
      BY <1>1, <2>1 DEF Threads
    <3> QED BY <1>2, <2>1, <3>1 DEF ThreadsTyped
  <2>5. \A t \in Threads : pc[t] \notin Inside /\ pc'[t] \notin Inside
    BY <1>1, <2>1
  <2>6. MutexHeld'
    BY <1>2, <2>5, MutexApart
  <2>7. PlacesKept'
    BY <2>1, <2>2 DEF PlacesKept
  <2> QED BY <1>3, <2>3, <2>4, <2>6, <2>7
<1> QED BY <1>4, <1>5, <1>6 DEF Return

\* The clock, the context and its goroutines move no thread.
LEMMA ContextKept == ASSUME Kept, FireDeadline \/ DeadlinePasses \/ ContextEnds PROVE Kept'
<1> USE DEF Kept, opVars, callVars, serverVars
<1>1. UNCHANGED <<op, kind, session, pc, outcome, cli, inbox, serverVars>>
  BY DEF FireDeadline, DeadlinePasses, ContextEnds
<1>2. OpTyped'
  BY DEF FireDeadline, DeadlinePasses, ContextEnds, OpTyped
<1>3. ThreadsTyped' /\ ServersTyped' /\ PlacesKept'
  BY <1>1 DEF FireDeadline, DeadlinePasses, ContextEnds, ThreadsTyped, ServersTyped, PlacesKept
<1>4. /\ client' \in [Sessions -> ClientType]
      /\ \A g \in Sessions : client'[g].holder = client[g].holder
  <2>1. CASE FireDeadline
    <3>1. PICK g \in Sessions : client' = [client EXCEPT ![g].deadline = "past"]
      BY <2>1 DEF FireDeadline
    <3>2. /\ [client[g] EXCEPT !.deadline = "past"] \in ClientType
          /\ [client[g] EXCEPT !.deadline = "past"].holder = client[g].holder
      BY DEF ClientsTyped, ClientType
    <3>3. client' = [client EXCEPT ![g] = [client[g] EXCEPT !.deadline = "past"]]
      BY <3>1
    <3> QED BY <3>2, <3>3 DEF ClientsTyped
  <2>2. CASE client' = client
    BY <2>2 DEF ClientsTyped
  <2> QED BY <2>1, <2>2 DEF DeadlinePasses, ContextEnds
<1>5. fired' \in [Sessions -> Nat]
  <2>1. CASE FireDeadline \/ DeadlinePasses
    BY <2>1 DEF FireDeadline, DeadlinePasses, ClientsTyped
  <2>2. CASE ContextEnds
    <3> DEFINE waiting(g) == {t \in Threads : registered[t] /\ cli[t] = g}
               n(g) == Cardinality(waiting(g))
    <3>1. IsFiniteSet(Threads)
      <4>1. Threads = {"driver"} \cup {"shot"}
        BY DEF Threads
      <4> QED BY <4>1, FS_Singleton, FS_AddElement
    <3>2. ASSUME NEW g \in Sessions PROVE n(g) \in Nat
      <4>1. waiting(g) \in SUBSET Threads
        OBVIOUS
      <4>2. IsFiniteSet(waiting(g))
        BY <3>1, <4>1, FS_Subset
      <4> QED BY <4>2, FS_CardinalityType
    <3>3. fired' = [g \in Sessions |-> fired[g] + n(g)]
      BY <2>2 DEF ContextEnds
    <3> HIDE DEF n
    <3>4. \A g \in Sessions : fired[g] + n(g) \in Nat
      BY <3>2 DEF ClientsTyped
    <3> QED BY <3>3, <3>4
  <2> QED BY <2>1, <2>2
<1>6. ClientsTyped'
  BY <1>1, <1>4, <1>5 DEF ClientsTyped
<1>7. MutexHeld'
  BY <1>1, <1>4, MutexApart
<1> QED BY <1>2, <1>3, <1>6, <1>7

\* What one performed request adds to the counts.
Performed(o, g) ==
  \A p \in Ops, h \in Sessions :
    effects'[p][h] = IF p = o /\ h = g THEN effects[p][h] + 1 ELSE effects[p][h]

LEMMA PerformedOnce ==
  ASSUME ServersTyped, NEW o \in Ops, NEW g \in Sessions,
         effects' = [effects EXCEPT ![o][g] = @ + 1]
  PROVE  effects' \in [Ops -> [Sessions -> Nat]] /\ Performed(o, g)
<1>1. effects[o] \in [Sessions -> Nat] /\ effects[o][g] + 1 \in Nat
  BY DEF ServersTyped
<1>2. [effects[o] EXCEPT ![g] = @ + 1] \in [Sessions -> Nat]
  BY <1>1
<1>3. effects' = [effects EXCEPT ![o] = [effects[o] EXCEPT ![g] = @ + 1]]
  BY DEF ServersTyped
<1>4. \A h \in Sessions : [effects[o] EXCEPT ![g] = @ + 1][h]
                            = IF h = g THEN effects[o][h] + 1 ELSE effects[o][h]
  BY <1>1
<1> QED BY <1>2, <1>3, <1>4 DEF ServersTyped, Performed

LEMMA ServerKept == ASSUME Kept, NEW g \in Sessions, Server(g) PROVE Kept'
<1> USE DEF Kept, opVars, callVars, serverVars
<1>1. UNCHANGED <<opVars, pc, outcome, cli, registered, fired, client>>
  BY DEF Server, Serve, TunnelDrops, ProcessDies
<1>2. OpTyped' /\ ThreadsTyped' /\ PlacesKept'
  BY <1>1 DEF OpTyped, ThreadsTyped, PlacesKept
<1>3. MutexHeld'
  BY <1>1, MutexApart
<1>4. CASE Serve(g)
  <2>1. PICK r \in NextServed(g), ok \in BOOLEAN, landed \in BOOLEAN :
          /\ pending' = [pending EXCEPT ![g] = @ \ {r}]
          /\ effects' = IF r.changes /\ landed THEN [effects EXCEPT ![r.op][g] = @ + 1]
                        ELSE effects
          /\ Answers(g, r, ok)
          /\ UNCHANGED <<link, alive>>
    BY <1>4 DEF Serve
  <2>2. r \in Request /\ r.op \in Ops /\ [id |-> r.id, ok |-> ok] \in Answer
    BY <2>1 DEF NextServed, ServersTyped, Request, Answer
  <2>3. effects' \in [Ops -> [Sessions -> Nat]]
    BY <2>1, <2>2, PerformedOnce DEF ServersTyped
  <2>4. inbox' \in [Sessions -> Seq(Answer)]
    <3>1. Append(inbox[g], [id |-> r.id, ok |-> ok]) \in Seq(Answer)
      BY <2>2 DEF ClientsTyped
    <3> QED BY <2>1, <3>1 DEF Answers, ClientsTyped
  <2>5. pending' \in [Sessions -> SUBSET Request]
    BY <2>1 DEF ServersTyped
  <2> QED BY <1>1, <1>2, <1>3, <2>1, <2>3, <2>4, <2>5 DEF ClientsTyped, ServersTyped
<1>5. CASE TunnelDrops(g) \/ ProcessDies(g)
  <2>1. inbox' = inbox
    BY <1>5 DEF TunnelDrops, ProcessDies
  <2>2. ServersTyped'
    BY <1>5 DEF TunnelDrops, ProcessDies, Killed, ServersTyped
  <2> QED BY <1>1, <1>2, <1>3, <2>1, <2>2 DEF ClientsTyped
<1> QED BY <1>4, <1>5 DEF Server

LEMMA KeptInit == Init => Kept
<1> SUFFICES ASSUME Init PROVE Kept
  OBVIOUS
<1>1. 1 \in Sessions /\ 0 \in 0..CollapsedRetries /\ 0 \in 0..Len(Asked)
  BY SessionsAssumption, RetriesAssumption, AskedAssumption DEF Sessions
<1>2. FreshClient \in ClientType /\ FreshClient.holder = "free"
  BY DEF FreshClient, ClientType
<1>3. OpTyped
  BY <1>1 DEF Init, OpTyped, Kinds
<1>4. ThreadsTyped
  BY <1>1 DEF Init, ThreadsTyped, Places, Outcomes
<1>5. ClientsTyped /\ ServersTyped
  <2>1. <<>> \in Seq(Answer) /\ {} \in SUBSET Request
    OBVIOUS
  <2> QED BY <1>2, <2>1 DEF Init, ClientsTyped, ServersTyped
<1>6. MutexHeld
  BY <1>2 DEF Init, MutexHeld, Threads, Inside
<1>7. PlacesKept
  BY DEF Init, PlacesKept, Threads
<1> QED BY <1>3, <1>4, <1>5, <1>6, <1>7 DEF Kept

LEMMA KeptStep == Kept /\ [Next]_vars => Kept'
<1> SUFFICES ASSUME Kept, [Next]_vars PROVE Kept'
  OBVIOUS
<1>1. CASE UNCHANGED vars
  BY <1>1 DEF vars, opVars, callVars, serverVars, Kept, OpTyped, ThreadsTyped, ClientsTyped,
              ServersTyped, MutexHeld, PlacesKept
<1>2. CASE \E t \in Threads : Call(t)
  BY <1>2, CallKept
<1>3. CASE Restart
  BY <1>3, RestartKept
<1>4. CASE Return \/ \E k \in Kinds : Begin(k)
  BY <1>4, ReturnKept
<1>5. CASE FireDeadline \/ DeadlinePasses \/ ContextEnds
  BY <1>5, ContextKept
<1>6. CASE \E g \in Sessions : Server(g)
  BY <1>6, ServerKept
<1> QED BY <1>1, <1>2, <1>3, <1>4, <1>5, <1>6 DEF Next

\* Every variable keeps its type for every script of operations, and exactly the thread
\* inside call holds the mutex of its client.
THEOREM TypesKept == Spec => []TypeOK
  BY KeptInit, KeptStep, TypeParts, PTL DEF Spec

----------------------------------------------------------------------------
(* The requests and the answers of one session.                            *)

\* The requests written to the connection a client has now and not served, and whether
\* a thread's request changes the app.
Outstanding(g) == { r \in pending[g] : r.conn = client[g].conn }
Quiet(g) == Outstanding(g) = {} /\ inbox[g] = <<>>
ChangesApp(t) == t = "driver" /\ kind # "observe"
Carries(r, t, g) == r.id = client[g].nextID /\ r.op = op /\ r.changes = ChangesApp(t)

\* What a thread that reads finds: its own request not served yet, its own answer, or
\* nothing because the answer was lost.
Awaits(t, g) ==
  \/ Quiet(g)
  \/ /\ inbox[g] = <<>>
     /\ \E r \in pending[g] : Outstanding(g) = {r} /\ Carries(r, t, g)
  \/ /\ Outstanding(g) = {}
     /\ \E ok \in BOOLEAN :
          /\ inbox[g] = <<[id |-> client[g].nextID, ok |-> ok]>>
          /\ ok /\ ChangesApp(t) => effects[op][g] = 1

\* A connection that is not dirty carries nothing but the request of the thread that
\* reads on it: an answer nobody waited for went with the connection it was left on.
ConnectionClean(g) ==
  /\ \A r \in pending[g] : r.conn <= client[g].conn
  /\ \A t \in Threads : cli[t] = g /\ pc[t] \in {"arm", "write", "read"} => ~client[g].dirty
  /\ ~client[g].dirty =>
       /\ \A t \in Threads : cli[t] = g /\ pc[t] = "read" => Awaits(t, g)
       /\ (\A t \in Threads : cli[t] = g => pc[t] # "read") => Quiet(g)

\* The driver is about to send a request that changes the app.
Sends(o, g) ==
  /\ op = o /\ session = g /\ kind # "observe"
  /\ pc["driver"] \in {"lock", "arm", "write"}

\* An operation is about to be sent to a session, or is waiting there, or was performed
\* there, and only one of the three.
SentOnce(g) ==
  /\ \A o \in Ops : effects[o][g] <= 1
  /\ \A o \in Ops : op < o \/ session < g \/ Sends(o, g) => effects[o][g] = 0
  /\ \A r \in pending[g] : r.op <= op
  /\ \A r \in pending[g] : r.changes =>
       /\ g <= session
       /\ effects[r.op][g] = 0 /\ ~Sends(r.op, g)
       /\ \A s \in pending[g] : s.changes /\ s.op = r.op => s = r

\* A success is the driver's to return only once the server performed the operation.
SuccessEarned ==
  pc["driver"] \in {"leave", "done"} /\ outcome["driver"] = "ok" /\ kind # "observe"
    => effects[op][session] = 1

SessionInv ==
  /\ \A g \in Sessions : ConnectionClean(g) /\ SentOnce(g)
  /\ SuccessEarned

\* A session none of whose requests, answers and readers moved stays as it was.
LEMMA ConnectionUntouched ==
  ASSUME NEW g \in Sessions, ConnectionClean(g), UNCHANGED <<op, kind, effects[op][g]>>,
         UNCHANGED <<pending[g], inbox[g]>>,
         UNCHANGED <<client[g].conn, client[g].nextID, client[g].dirty>>,
         \A t \in Threads :
           cli'[t] = g /\ pc'[t] \in {"arm", "write", "read"} =>
             cli[t] = g /\ pc[t] \in {"arm", "write", "read"},
         \A t \in Threads : cli'[t] = g /\ pc'[t] = "read" <=> cli[t] = g /\ pc[t] = "read"
  PROVE  ConnectionClean(g)'
<1>1. Outstanding(g)' = Outstanding(g) /\ (Quiet(g) <=> Quiet(g)')
  BY DEF Outstanding, Quiet
<1>2. ASSUME NEW t \in Threads, Awaits(t, g) PROVE Awaits(t, g)'
  BY <1>1, <1>2 DEF Awaits, Carries, ChangesApp
<1> QED BY <1>1, <1>2 DEF ConnectionClean

\* The typed facts the accounts are compared with.
LEMMA OpsNatural ==
  ASSUME Kept
  PROVE  /\ op \in Nat /\ session \in Nat /\ Ops \subseteq Nat
         /\ \A g \in Sessions : \A r \in pending[g] : r \in Request /\ r.op \in Ops
<1>1. op \in Nat /\ session \in Nat
  BY AskedAssumption, SessionsAssumption DEF Kept, OpTyped, Sessions
<1>2. Ops \subseteq Nat
  BY AskedAssumption DEF Ops
<1>3. \A g \in Sessions : \A r \in pending[g] : r \in Request
  BY DEF Kept, ServersTyped
<1>4. \A r \in Request : r.op \in Ops
  BY DEF Request
<1> QED BY <1>1, <1>2, <1>3, <1>4

\* A session to which nothing is sent, written or performed keeps its account.
LEMMA SentUntouched ==
  ASSUME NEW g \in Sessions, SentOnce(g), op' \in Nat, op \in Nat, session \in Nat,
         session' \in Nat, Ops \subseteq Nat,
         op <= op', session <= session',
         \A o \in Ops : effects'[o][g] = effects[o][g],
         pending'[g] \subseteq pending[g],
         \A r \in pending[g] : r.op \in Ops,
         \A o \in Ops : Sends(o, g)' => Sends(o, g) \/ op < o \/ session < g
  PROVE  SentOnce(g)'
<1>0. g \in Nat
  BY SessionsAssumption DEF Sessions
<1>1. g \in Nat /\ \A o \in Ops : o \in Nat
  BY <1>0
<1>2. \A o \in Ops : effects'[o][g] <= 1
  BY DEF SentOnce
<1>3. ASSUME NEW o \in Ops, op' < o \/ session' < g \/ Sends(o, g)'
      PROVE  effects'[o][g] = 0
  <2>1. op < o \/ session < g \/ Sends(o, g)
    <3>n. o \in Nat /\ g \in Nat /\ op <= op' /\ session <= session'
      BY <1>1
    <3>1. op' < o => op < o
      BY <3>n
    <3>2. session' < g => session < g
      BY <3>n
    <3> QED BY <1>3, <3>1, <3>2
  <2>2. effects[o][g] = 0
    BY <2>1 DEF SentOnce
  <2> QED BY <2>2
<1>4. ASSUME NEW r \in pending'[g]
      PROVE  /\ r.op <= op'
             /\ r.changes => g <= session'
             /\ r.changes => effects'[r.op][g] = 0 /\ ~Sends(r.op, g)'
             /\ r.changes => \A s \in pending'[g] : s.changes /\ s.op = r.op => s = r
  <2> DEFINE n == r.op
  <2>1. r \in pending[g] /\ n \in Ops /\ n <= op /\ (r.changes => g <= session)
    BY DEF SentOnce
  <2>2. n <= op' /\ (r.changes => g <= session' /\ ~(session < g)) /\ ~(op < n)
    <3>1. n \in Nat
      BY <1>1, <2>1
    <3> HIDE DEF n
    <3> QED BY <1>1, <2>1, <3>1
  <2>3. r.changes => effects[r.op][g] = 0 /\ ~Sends(r.op, g)
    BY <2>1 DEF SentOnce
  <2>4. r.changes => \A s \in pending[g] : s.changes /\ s.op = r.op => s = r
    BY <2>1 DEF SentOnce
  <2> QED BY <2>1, <2>2, <2>3, <2>4
<1> QED BY <1>2, <1>3, <1>4 DEF SentOnce

\* Two threads are never inside call on one client.
LEMMA AloneInside ==
  ASSUME Kept, NEW g \in Sessions
  PROVE  /\ client[g].holder = "free" => \A t \in Threads : ~(cli[t] = g /\ pc[t] \in Inside)
         /\ \A t, u \in Threads :
              cli[t] = g /\ pc[t] \in Inside /\ cli[u] = g /\ pc[u] \in Inside => t = u
<1>1. MutexHeld /\ \A t \in Threads : t # "free"
  BY DEF Kept, Threads
<1> QED BY <1>1 DEF MutexHeld

\* A step of a call leaves the other sessions' connections and accounts alone.
LEMMA CallElsewhere ==
  ASSUME Kept, NEW t \in Threads, Call(t), NEW g \in Sessions \ {cli[t]},
         ConnectionClean(g), SentOnce(g)
  PROVE  ConnectionClean(g)' /\ SentOnce(g)'
<1>1. CallFrame(t)
  BY CallFrames
<1>2. /\ UNCHANGED <<op, kind, session, cli, effects>>
      /\ \A u \in Threads \ {t} : pc'[u] = pc[u]
      /\ client'[g] = client[g] /\ inbox'[g] = inbox[g] /\ pending'[g] = pending[g]
  BY <1>1 DEF CallFrame, opVars
<1>3. ConnectionClean(g)'
  BY <1>2, ConnectionUntouched
<1>4. \A o \in Ops : Sends(o, g)' => Sends(o, g)
  BY <1>2 DEF Sends, Kept, PlacesKept, Threads
<1>5. SentOnce(g)'
  BY <1>2, <1>4, OpsNatural, SentUntouched
<1> QED BY <1>3, <1>5

\* A step of a call that writes no request keeps the account of its own session.
LEMMA CallSends ==
  ASSUME Kept, NEW g \in Sessions, NEW t \in Threads, cli[t] = g, Call(t), ~Write(t),
         SentOnce(g)
  PROVE  SentOnce(g)'
<1>1. CallFrame(t) /\ CallMoves(t)
  BY CallFrames
<1>2. /\ UNCHANGED <<op, kind, session, cli, effects>>
      /\ \A u \in Threads \ {t} : pc'[u] = pc[u]
  BY <1>1 DEF CallFrame, opVars
<1>3. pending'[g] = pending[g]
  BY DEF Call, Lock, Reconnect, ReconnectFails, Arm, TimedOut, Dropped, Read, Leave, serverVars
<1>4. \A o \in Ops : Sends(o, g)' => Sends(o, g)
  <2>1. pc'["driver"] \in {"lock", "arm", "write"} => pc["driver"] \in {"lock", "arm", "write"}
    BY <1>1, <1>2 DEF CallMoves, Threads
  <2> QED BY <1>2, <2>1 DEF Sends
<1> QED BY <1>2, <1>3, <1>4, OpsNatural, SentUntouched

\* The driver writes what it was about to send, once; the screenshot changes nothing.
LEMMA WriteSends ==
  ASSUME Kept, NEW g \in Sessions, NEW t \in Threads, cli[t] = g, Write(t), SentOnce(g)
  PROVE  SentOnce(g)'
<1> DEFINE r == [ id |-> client[g].nextID, conn |-> client[g].conn, op |-> op,
                  changes |-> ChangesApp(t) ]
<1>1. CallFrame(t) /\ CallMoves(t)
  BY CallFrames DEF Call
<1>2. UNCHANGED <<op, kind, session, effects>> /\ \A u \in Threads \ {t} : pc'[u] = pc[u]
  BY <1>1 DEF CallFrame, opVars
<1>3. pc[t] = "write" /\ pc'[t] = "read"
  BY DEF Write, Go, Kept, ThreadsTyped
<1>4. pending'[g] = pending[g] \cup {r} /\ r.op = op /\ r.changes = ChangesApp(t)
  BY DEF Write, ChangesApp, Kept, ServersTyped
<1> HIDE DEF r
<1>5. \A o \in Ops : Sends(o, g)' => Sends(o, g)
  BY <1>2, <1>3 DEF Sends, Threads
<1>6. \A o \in Ops : op' < o \/ session' < g \/ Sends(o, g)' => effects'[o][g] = 0
  BY <1>2, <1>5 DEF SentOnce
<1>7. r.changes => Sends(op, g) /\ ~Sends(op, g)' /\ g = session /\ op \in Ops
  BY <1>2, <1>3, <1>4 DEF ChangesApp, Sends, Kept, PlacesKept
<1>8. \A s \in pending'[g] : s.op <= op'
  BY <1>2, <1>4, OpsNatural DEF SentOnce
<1>9. ASSUME NEW s \in pending'[g], s.changes
      PROVE  /\ g <= session' /\ effects'[s.op][g] = 0 /\ ~Sends(s.op, g)'
             /\ \A q \in pending'[g] : q.changes /\ q.op = s.op => q = s
  <2>1. CASE s \in pending[g]
    <3>1. /\ g <= session /\ effects[s.op][g] = 0 /\ ~Sends(s.op, g)
          /\ \A q \in pending[g] : q.changes /\ q.op = s.op => q = s
      BY <1>9, <2>1 DEF SentOnce
    <3>2. ~(r.changes /\ r.op = s.op)
      BY <1>4, <1>7, <3>1
    <3>3. s.op \in Ops
      BY <2>1, OpsNatural
    <3> QED BY <1>2, <1>4, <1>5, <3>1, <3>2, <3>3
  <2>2. CASE s = r
    <3>1. /\ g = session /\ session \in Nat /\ effects[op][g] = 0 /\ ~Sends(op, g)'
          /\ Sends(op, g)
      BY <1>7, <1>9, <2>2, OpsNatural DEF SentOnce
    <3>2. \A q \in pending[g] : ~(q.changes /\ q.op = op)
      BY <3>1 DEF SentOnce
    <3> QED BY <1>2, <1>4, <2>2, <3>1, <3>2
  <2> QED BY <1>4, <2>1, <2>2
<1>10. \A o \in Ops : effects'[o][g] <= 1
  BY <1>2 DEF SentOnce
<1> QED BY <1>6, <1>8, <1>9, <1>10 DEF SentOnce

\* A connection is left clean, or dirty for the next call to replace.
LEMMA CallConnection ==
  ASSUME Kept, NEW g \in Sessions, NEW t \in Threads, cli[t] = g, Call(t), ConnectionClean(g)
  PROVE  ConnectionClean(g)'
<1> DEFINE c == client[g]
           d == client'[g]
<1>1. CallFrame(t) /\ CallMoves(t)
  BY CallFrames
<1>2. /\ UNCHANGED <<op, kind, cli, effects>>
      /\ \A u \in Threads \ {t} : pc'[u] = pc[u]
  BY <1>1 DEF CallFrame, opVars
<1>3. c \in ClientType /\ client \in [Sessions -> ClientType] /\ pc \in [Threads -> Places]
  BY DEF Kept, ClientsTyped, ThreadsTyped
<1>4. c.conn \in Nat /\ \A r \in pending[g] : r.conn \in Nat /\ r.conn <= c.conn
  <2>1. \A r \in pending[g] : r \in Request
    BY OpsNatural
  <2>2. \A r \in Request : r.conn \in Nat
    BY DEF Request
  <2> QED BY <1>3, <2>1, <2>2 DEF ConnectionClean, ClientType
<1>5. pc[t] \in Inside => \A u \in Threads \ {t} : ~(cli[u] = g /\ pc[u] \in Inside)
  BY AloneInside
<1>6. c.holder = "free" => \A u \in Threads : ~(cli[u] = g /\ pc[u] \in Inside)
  BY AloneInside
<1> USE DEF Go, Ends
<1>7. CASE Lock(t)
  <2>1. /\ pc[t] = "lock" /\ pc'[t] = "arm" /\ c.holder = "free" /\ ~c.dirty
        /\ UNCHANGED <<pending, inbox>>
    BY <1>3, <1>7 DEF Lock, serverVars
  <2>2. d.conn = c.conn /\ d.dirty = c.dirty
    BY <1>3, <1>7 DEF Lock, ClientType
  <2>3. Quiet(g)
    BY <1>6, <2>1 DEF ConnectionClean, Inside
  <2>4. Quiet(g)'
    BY <2>1, <2>2, <2>3 DEF Quiet, Outstanding
  <2>5. \A u \in Threads : cli'[u] = g => pc'[u] # "read"
    BY <1>2, <1>6, <2>1 DEF Inside
  <2> QED BY <1>2, <1>4, <2>1, <2>2, <2>4, <2>5 DEF ConnectionClean
<1>8. CASE Reconnect(t)
  <2>1. /\ pc'[t] = "arm" /\ c.holder = "free" /\ pending' = pending
        /\ inbox'[g] = <<>>
    BY <1>3, <1>8 DEF Reconnect, serverVars, Kept, ClientsTyped
  <2>2. d.conn = c.conn + 1 /\ ~d.dirty
    BY <1>3, <1>8 DEF Reconnect
  <2>3. \A r \in pending'[g] : r.conn <= d.conn /\ r.conn # d.conn
    BY <1>4, <2>1, <2>2
  <2>4. Quiet(g)'
    BY <2>1, <2>3 DEF Quiet, Outstanding
  <2>5. \A u \in Threads : cli'[u] = g => pc'[u] # "read"
    BY <1>2, <1>6, <2>1 DEF Inside
  <2> QED BY <2>2, <2>3, <2>4, <2>5 DEF ConnectionClean
<1>9. CASE ReconnectFails(t)
  <2>1. pc'[t] = "done" /\ c.holder = "free" /\ pending' = pending /\ c.dirty
    BY <1>3, <1>9 DEF ReconnectFails, serverVars
  <2>2. d.conn = c.conn /\ d.dirty
    BY <1>3, <1>9, <2>1 DEF ReconnectFails, ClientType
  <2>3. \A u \in Threads : ~(cli'[u] = g /\ pc'[u] \in {"arm", "write", "read"})
    BY <1>2, <1>6, <2>1 DEF Inside
  <2> QED BY <1>4, <2>1, <2>2, <2>3 DEF ConnectionClean
<1>10. CASE Arm(t) \/ Leave(t)
  <2>1. UNCHANGED <<pending, inbox>>
    BY <1>10 DEF Arm, Leave, serverVars
  <2>2. UNCHANGED <<client[g].conn, client[g].nextID, client[g].dirty>>
    <3>1. CASE Arm(t)
      BY <1>3, <3>1 DEF Arm, ClientType
    <3>2. CASE Leave(t)
      BY <1>3, <3>2 DEF Leave, Released, ClientType
    <3> QED BY <1>10, <3>1, <3>2
  <2>3. \/ pc[t] = "arm" /\ pc'[t] = "write"
        \/ pc[t] = "leave" /\ pc'[t] = "done"
    BY <1>3, <1>10 DEF Arm, Leave
  <2> QED BY <1>2, <2>1, <2>2, <2>3, ConnectionUntouched
<1>11. CASE Write(t)
  <2>0. PICK r : r = [ id |-> c.nextID, conn |-> c.conn, op |-> op,
                       changes |-> ChangesApp(t) ]
    OBVIOUS
  <2>1. /\ pc[t] = "write" /\ pc'[t] = "read" /\ UNCHANGED <<client, inbox>>
        /\ pending'[g] = pending[g] \cup {r}
    BY <1>3, <1>11, <2>0 DEF Write, ChangesApp, Kept, ServersTyped
  <2>2. r.id = c.nextID /\ r.conn = c.conn /\ r.op = op /\ r.changes = ChangesApp(t)
    BY <2>0
  <2>3. ~c.dirty /\ Quiet(g)
    BY <1>5, <2>1 DEF ConnectionClean, Inside
  <2>4. Outstanding(g)' = {r} /\ inbox'[g] = <<>>
    BY <2>1, <2>2, <2>3 DEF Quiet, Outstanding
  <2>5. Carries(r, t, g)'
    BY <1>2, <2>1, <2>2 DEF Carries, ChangesApp
  <2>6. Awaits(t, g)'
    BY <2>1, <2>4, <2>5 DEF Awaits
  <2>7. \A u \in Threads : cli'[u] = g /\ pc'[u] \in {"arm", "write", "read"} => u = t
    BY <1>2, <1>5, <2>1 DEF Inside
  <2>8. \A s \in pending'[g] : s.conn <= client'[g].conn
    BY <1>4, <2>1, <2>2
  <2> QED BY <1>2, <2>1, <2>3, <2>6, <2>7, <2>8 DEF ConnectionClean
<1>12. CASE TimedOut(t) \/ Dropped(t)
  <2>1. pc[t] \in Inside /\ pc'[t] = "leave" /\ pending' = pending
    BY <1>3, <1>12 DEF TimedOut, Dropped, serverVars, Inside
  <2>2. d.conn = c.conn /\ d.dirty
    BY <1>3, <1>12 DEF TimedOut, Dropped, Desynced, ClientType
  <2>3. \A u \in Threads : ~(cli'[u] = g /\ pc'[u] \in {"arm", "write", "read"})
    BY <1>2, <1>5, <2>1 DEF Inside
  <2> QED BY <1>4, <2>1, <2>2, <2>3 DEF ConnectionClean
<1>13. CASE Read(t)
  <2>1. /\ pc[t] = "read" /\ pc'[t] = "leave" /\ inbox[g] # <<>>
        /\ inbox'[g] = Tail(inbox[g]) /\ UNCHANGED <<client, pending>>
    BY <1>3, <1>13 DEF Read, serverVars, Kept, ClientsTyped
  <2>2. ~c.dirty /\ Awaits(t, g)
    BY <2>1 DEF ConnectionClean
  <2>3. Outstanding(g) = {} /\ \E a : inbox[g] = <<a>>
    BY <2>1, <2>2 DEF Awaits, Quiet
  <2>4. Quiet(g)'
    BY <2>1, <2>3 DEF Quiet, Outstanding
  <2>5. \A u \in Threads : ~(cli'[u] = g /\ pc'[u] \in {"arm", "write", "read"})
    BY <1>2, <1>5, <2>1 DEF Inside
  <2> QED BY <1>4, <2>1, <2>4, <2>5 DEF ConnectionClean
<1> QED BY <1>7, <1>8, <1>9, <1>10, <1>11, <1>12, <1>13 DEF Call

\* The driver takes for a success only the answer to what it sent, and the server gives
\* that answer after it performed the operation.
LEMMA CallSuccess ==
  ASSUME Kept, SessionInv, NEW t \in Threads, Call(t)
  PROVE  SuccessEarned'
<1>1. CallFrame(t) /\ CallMoves(t)
  BY CallFrames
<1>2. UNCHANGED <<op, kind, session, cli, effects>>
  BY <1>1 DEF CallFrame, opVars
<1>3. CASE t = "shot"
  <2>1. UNCHANGED <<pc["driver"], outcome["driver"]>>
    BY <1>1, <1>3 DEF CallFrame, Threads
  <2> QED BY <1>2, <2>1 DEF SessionInv, SuccessEarned
<1>4. CASE t = "driver" /\ Read(t)
  <2>1. cli[t] = session /\ session \in Sessions
    BY <1>4 DEF Kept, PlacesKept, OpTyped
  <2>2. /\ pc[t] = "read" /\ inbox[session] # <<>>
        /\ outcome'[t] = "ok" => /\ Head(inbox[session]).id = client[session].nextID
                                 /\ Head(inbox[session]).ok
    BY <1>4, <2>1 DEF Read, Ends, Kept, ThreadsTyped
  <2>3. Awaits(t, session)
    BY <2>1, <2>2 DEF SessionInv, ConnectionClean
  <2>4. \E ok \in BOOLEAN : /\ inbox[session] = <<[id |-> client[session].nextID, ok |-> ok]>>
                            /\ ok /\ ChangesApp(t) => effects[op][session] = 1
    BY <2>2, <2>3 DEF Awaits, Quiet
  <2> QED BY <1>2, <1>4, <2>2, <2>4 DEF SuccessEarned, ChangesApp
<1>5. CASE t = "driver" /\ Leave(t)
  <2>1. pc[t] = "leave" /\ outcome' = outcome
    BY <1>5 DEF Leave
  <2> QED BY <1>2, <1>5, <2>1 DEF SessionInv, SuccessEarned
<1>6. CASE t = "driver" /\ ~Read(t) /\ ~Leave(t)
  <2>1. \/ pc'[t] \in {"arm", "write", "read"}
        \/ outcome'[t] \in {"lost", "interrupted"}
    BY <1>6 DEF Call, Lock, Reconnect, ReconnectFails, Arm, Write, TimedOut, Dropped, Go, Ends,
                Kept, ThreadsTyped
  <2> QED BY <1>6, <2>1 DEF SuccessEarned
<1> QED BY <1>3, <1>4, <1>5, <1>6 DEF Threads

LEMMA CallSession ==
  ASSUME Kept, SessionInv, NEW t \in Threads, Call(t)
  PROVE  SessionInv'
<1>1. ASSUME NEW g \in Sessions PROVE ConnectionClean(g)' /\ SentOnce(g)'
  <2>1. ConnectionClean(g) /\ SentOnce(g)
    BY DEF SessionInv
  <2>2. CASE cli[t] # g
    BY <2>1, <2>2, CallElsewhere
  <2>3. CASE cli[t] = g
    BY <2>1, <2>3, CallConnection, CallSends, WriteSends
  <2> QED BY <2>2, <2>3
<1> QED BY <1>1, CallSuccess DEF SessionInv

\* A session whose requests went with its process waits for nothing more.
LEMMA ConnectionEmptied ==
  ASSUME NEW g \in Sessions, ConnectionClean(g), UNCHANGED <<op, kind, effects>>,
         pending'[g] = {}, UNCHANGED <<inbox[g], client[g].conn, client[g].nextID, client[g].dirty>>,
         \A t \in Threads :
           cli'[t] = g /\ pc'[t] \in {"arm", "write", "read"} =>
             cli[t] = g /\ pc[t] \in {"arm", "write", "read"},
         \A t \in Threads : cli'[t] = g /\ pc'[t] = "read" <=> cli[t] = g /\ pc[t] = "read"
  PROVE  ConnectionClean(g)'
<1>1. Outstanding(g)' = {} /\ (Quiet(g) => Quiet(g)')
  BY DEF Outstanding, Quiet
<1>2. ASSUME NEW t \in Threads, Awaits(t, g) PROVE Awaits(t, g)'
  BY <1>1, <1>2 DEF Awaits, Quiet, Carries, ChangesApp
<1> QED BY <1>1, <1>2 DEF ConnectionClean

\* A connection that is closed loses what it held unread, and nothing else.
LEMMA ConnectionCleared ==
  ASSUME NEW g \in Sessions, ConnectionClean(g), UNCHANGED <<op, kind, effects>>,
         inbox'[g] = <<>>,
         UNCHANGED <<pending[g], client[g].conn, client[g].nextID, client[g].dirty>>,
         \A t \in Threads :
           cli'[t] = g /\ pc'[t] \in {"arm", "write", "read"} =>
             cli[t] = g /\ pc[t] \in {"arm", "write", "read"},
         \A t \in Threads : cli'[t] = g /\ pc'[t] = "read" <=> cli[t] = g /\ pc[t] = "read"
  PROVE  ConnectionClean(g)'
<1>1. Outstanding(g)' = Outstanding(g) /\ (Quiet(g) => Quiet(g)')
  BY DEF Outstanding, Quiet
<1>2. ASSUME NEW t \in Threads, Awaits(t, g) PROVE Awaits(t, g)'
  BY <1>1, <1>2 DEF Awaits, Quiet, Carries, ChangesApp
<1> QED BY <1>1, <1>2 DEF ConnectionClean

\* A session no thread is inside keeps its connection over a change of operation.
LEMMA ConnectionIdle ==
  ASSUME NEW g \in Sessions, ConnectionClean(g), UNCHANGED <<pending, inbox, client>>,
         \A t \in Threads : pc[t] \notin {"arm", "write", "read"},
         \A t \in Threads : pc'[t] \notin {"arm", "write", "read"}
  PROVE  ConnectionClean(g)'
<1>1. ~client[g].dirty => Quiet(g)
  BY DEF ConnectionClean
<1>2. Quiet(g) => Quiet(g)'
  BY DEF Quiet, Outstanding
<1> QED BY <1>1, <1>2 DEF ConnectionClean

\* A restart sends nothing to the session it leaves and starts a session that was sent
\* nothing.
LEMMA RestartSession == ASSUME Kept, SessionInv, Restart PROVE SessionInv'
<1> USE DEF opVars, callVars, serverVars
<1>1. /\ UNCHANGED <<op, kind, effects>> /\ pc'["shot"] = pc["shot"]
      /\ cli'["shot"] = cli["shot"] /\ session \in Sessions /\ session' \in Nat
      /\ session' = session \/ session' = session + 1
      /\ pc["driver"] \in {"close", "kill", "bringUp"}
      /\ pc'["driver"] \in {"kill", "bringUp", "lock", "done"}
      /\ pc'["driver"] = "lock" => session' = session + 1
      /\ pc'["driver"] = "done" => outcome'["driver"] # "ok"
  <2>1. session \in Sessions /\ session \in Nat /\ pc \in [Threads -> Places]
        /\ outcome \in [Threads -> Outcomes] /\ cli \in [Threads -> Sessions]
    BY OpsNatural DEF Kept, OpTyped, ThreadsTyped
  <2>2. CASE CloseClient
    BY <2>1, <2>2 DEF CloseClient, Go, Threads
  <2>3. CASE StopChild
    BY <2>1, <2>3 DEF StopChild, Go, Threads
  <2>4. CASE BringUp
    BY <2>1, <2>4 DEF BringUp, Ends, Go, Threads
  <2>5. CASE BringUpFails
    BY <2>1, <2>5 DEF BringUpFails, Ends, Go, Threads
  <2> QED BY <2>2, <2>3, <2>4, <2>5 DEF Restart
<1>2. \A g \in Sessions :
        UNCHANGED <<client[g].conn, client[g].nextID, client[g].dirty>>
  <2>1. client \in [Sessions -> ClientType]
    BY DEF Kept, ClientsTyped
  <2>2. CASE CloseClient
    BY <2>1, <2>2 DEF CloseClient, ClientType
  <2>3. CASE StopChild \/ BringUp \/ BringUpFails
    BY <2>3 DEF StopChild, BringUp, BringUpFails
  <2> QED BY <2>2, <2>3 DEF Restart
<1>3. \A g \in Sessions :
        \/ inbox'[g] = inbox[g] /\ (pending'[g] = pending[g] \/ pending'[g] = {})
        \/ inbox'[g] = <<>> /\ pending'[g] = pending[g]
  <2>1. CASE CloseClient
    BY <2>1 DEF CloseClient, Kept, ClientsTyped
  <2>2. CASE StopChild
    BY <2>2 DEF StopChild, Killed, Kept, ServersTyped
  <2>3. CASE BringUp \/ BringUpFails
    BY <2>3 DEF BringUp, BringUpFails
  <2> QED BY <2>1, <2>2, <2>3 DEF Restart
<1>4. ASSUME NEW g \in Sessions PROVE ConnectionClean(g)' /\ SentOnce(g)'
  <2>1. ConnectionClean(g) /\ SentOnce(g)
    BY DEF SessionInv
  <2>2. \A t \in Threads : t = "driver" \/ t = "shot"
    BY DEF Threads
  <2>3. /\ \A t \in Threads :
             cli'[t] = g /\ pc'[t] \in {"arm", "write", "read"} =>
               cli[t] = g /\ pc[t] \in {"arm", "write", "read"}
        /\ \A t \in Threads : cli'[t] = g /\ pc'[t] = "read" <=> cli[t] = g /\ pc[t] = "read"
    BY <1>1, <2>2
  <2>4. ConnectionClean(g)'
    <3>1. CASE inbox'[g] = inbox[g] /\ pending'[g] = pending[g]
      BY <1>1, <1>2, <2>1, <2>3, <3>1, ConnectionUntouched
    <3>2. CASE inbox'[g] = inbox[g] /\ pending'[g] = {}
      BY <1>1, <1>2, <2>1, <2>3, <3>2, ConnectionEmptied
    <3>3. CASE inbox'[g] = <<>> /\ pending'[g] = pending[g]
      BY <1>1, <1>2, <2>1, <2>3, <3>3, ConnectionCleared
    <3> QED BY <1>3, <3>1, <3>2, <3>3
  <2>5. g \in Nat /\ session \in Nat
    BY <1>1 DEF Sessions
  <2>6. \A o \in Ops : Sends(o, g)' => session < g
    BY <1>1, <2>5 DEF Sends
  <2>7. op \in Nat /\ op <= op' /\ session <= session' /\ pending'[g] \subseteq pending[g]
    BY <1>1, <1>3, <2>5, OpsNatural
  <2>8. SentOnce(g)'
    BY <1>1, <2>1, <2>5, <2>6, <2>7, OpsNatural, SentUntouched
  <2> QED BY <2>4, <2>8
<1>5. SuccessEarned'
  BY <1>1 DEF SuccessEarned
<1> QED BY <1>4, <1>5 DEF SessionInv

\* The driver between two calls sends nothing, but for a read and a new operation.
LEMMA ReturnSession ==
  ASSUME Kept, SessionInv, Return \/ \E k \in Kinds : Begin(k)
  PROVE  SessionInv'
<1>1. /\ UNCHANGED <<client, inbox, serverVars, session>>
      /\ session \in Nat /\ op \in Nat /\ op' \in Nat
  BY OpsNatural DEF Return, Recover, RecoverSession, ReadAgain, Settle, Begin, serverVars
<1>2. UNCHANGED <<pending, effects>>
  BY <1>1 DEF serverVars
<1>3. pc \in [Threads -> Places] /\ outcome \in [Threads -> Outcomes]
      /\ \A t \in Threads : t = "driver" \/ t = "shot"
  BY DEF Kept, ThreadsTyped, Threads
<1>4. CASE Recover \/ RecoverSession \/ ReadAgain
  <2>1. /\ UNCHANGED <<op, kind, cli>> /\ pc'["shot"] = pc["shot"] /\ pc["driver"] = "done"
        /\ pc'["driver"] = "close" \/ (pc'["driver"] = "lock" /\ kind = "observe")
    BY <1>3, <1>4 DEF Recover, Recovers, RecoverSession, OutlivesBound, ReadAgain, AfterBound,
                      Ends, Go, Threads
  <2>2. ASSUME NEW g \in Sessions PROVE ConnectionClean(g)' /\ SentOnce(g)'
    <3>1. ConnectionClean(g) /\ SentOnce(g)
      BY DEF SessionInv
    <3>2. ConnectionClean(g)'
      BY <1>1, <1>2, <1>3, <2>1, <3>1, ConnectionUntouched
    <3>3. \A o \in Ops : ~Sends(o, g)'
      BY <2>1 DEF Sends
    <3>4. SentOnce(g)'
      BY <1>1, <1>2, <2>1, <3>1, <3>3, OpsNatural, SentUntouched
    <3> QED BY <3>2, <3>4
  <2>3. SuccessEarned'
    BY <2>1 DEF SuccessEarned
  <2> QED BY <2>2, <2>3 DEF SessionInv
<1>5. CASE Settle \/ \E k \in Kinds : Begin(k)
  <2>1. /\ pc["driver"] \in {"idle", "done"} /\ pc["shot"] \in {"idle", "done"}
        /\ \A t \in Threads : pc'[t] \in {"idle", "lock"}
        /\ (op' = op /\ pc'["driver"] = "idle") \/ op' = op + 1
    <3>1. CASE Settle
      BY <1>3, <3>1 DEF Settle, Threads
    <3>2. ASSUME NEW k \in Kinds, Begin(k)
          PROVE  /\ pc["driver"] = "idle" /\ pc["shot"] = "idle" /\ op' = op + 1
                 /\ \A t \in Threads : pc'[t] \in {"idle", "lock"}
      BY <1>3, <3>2 DEF Begin, Kept, PlacesKept
    <3> QED BY <1>5, <3>1, <3>2
  <2>2. ASSUME NEW g \in Sessions PROVE ConnectionClean(g)' /\ SentOnce(g)'
    <3>1. ConnectionClean(g) /\ SentOnce(g)
      BY DEF SessionInv
    <3>2. ConnectionClean(g)'
      BY <1>1, <1>2, <1>3, <2>1, <3>1, ConnectionIdle
    <3>3. \A o \in Ops : Sends(o, g)' => op < o
      BY <1>1, <2>1 DEF Sends
    <3>4. op <= op'
      BY <1>1, <2>1
    <3>5. SentOnce(g)'
      BY <1>1, <1>2, <3>1, <3>3, <3>4, OpsNatural, SentUntouched
    <3> QED BY <3>2, <3>5
  <2>3. SuccessEarned'
    BY <2>1 DEF SuccessEarned, Threads
  <2> QED BY <2>2, <2>3 DEF SessionInv
<1> QED BY <1>4, <1>5 DEF Return

\* Where no thread, request, answer or performed operation moves, the account stays.
LEMMA SessionUntouched ==
  ASSUME Kept, NEW g \in Sessions, ConnectionClean(g), SentOnce(g),
         UNCHANGED <<op, kind, session, pc, cli, pending[g], inbox[g]>>,
         UNCHANGED <<client[g].conn, client[g].nextID, client[g].dirty>>,
         \A o \in Ops : effects'[o][g] = effects[o][g], op \in Ops \/ UNCHANGED effects
  PROVE  ConnectionClean(g)' /\ SentOnce(g)'
<1>1. ConnectionClean(g)'
  BY ConnectionUntouched
<1>2. \A o \in Ops : Sends(o, g)' => Sends(o, g)
  BY DEF Sends
<1>3. SentOnce(g)'
  BY <1>2, OpsNatural, SentUntouched
<1> QED BY <1>1, <1>3

LEMMA ContextSession ==
  ASSUME Kept, SessionInv, FireDeadline \/ DeadlinePasses \/ ContextEnds
  PROVE  SessionInv'
<1>1. UNCHANGED <<op, kind, session, pc, outcome, cli, inbox, pending, effects>>
  BY DEF FireDeadline, DeadlinePasses, ContextEnds, opVars, callVars, serverVars
<1>2. \A g \in Sessions :
        UNCHANGED <<client[g].conn, client[g].nextID, client[g].dirty>>
  <2>1. CASE FireDeadline
    <3>1. PICK h \in Sessions : client' = [client EXCEPT ![h].deadline = "past"]
      BY <2>1 DEF FireDeadline
    <3>2. client \in [Sessions -> ClientType]
      BY DEF Kept, ClientsTyped
    <3> QED BY <3>1, <3>2 DEF ClientType
  <2>2. CASE DeadlinePasses \/ ContextEnds
    BY <2>2 DEF DeadlinePasses, ContextEnds, callVars
  <2> QED BY <2>1, <2>2
<1>3. \A g \in Sessions : ConnectionClean(g)' /\ SentOnce(g)'
  BY <1>1, <1>2, SessionUntouched DEF SessionInv
<1> QED BY <1>1, <1>3 DEF SessionInv, SuccessEarned

\* An answer is read by the thread that asked for it, or by nobody.
LEMMA ServeSession ==
  ASSUME Kept, SessionInv, NEW g \in Sessions, Serve(g)
  PROVE  SessionInv'
<1>1. PICK r \in NextServed(g), ok \in BOOLEAN, landed \in BOOLEAN :
        /\ ok => landed
        /\ pending' = [pending EXCEPT ![g] = @ \ {r}]
        /\ effects' = IF r.changes /\ landed THEN [effects EXCEPT ![r.op][g] = @ + 1]
                      ELSE effects
        /\ Answers(g, r, ok)
  BY DEF Serve
<1>2. UNCHANGED <<op, kind, session, pc, outcome, cli, client>>
  BY DEF Serve, opVars
<1>3. /\ r \in pending[g] /\ r \in Request /\ r.op \in Ops /\ op \in Nat /\ session \in Nat
      /\ g \in Nat /\ \A o \in Ops : o \in Nat
      /\ pending'[g] = pending[g] \ {r}
      /\ \A h \in Sessions \ {g} : pending'[h] = pending[h]
  <2>1. r \in pending[g]
    BY DEF NextServed
  <2>2. op \in Nat /\ session \in Nat /\ r \in Request /\ r.op \in Ops /\ \A o \in Ops : o \in Nat
    BY <2>1, OpsNatural
  <2>3. g \in Nat
    BY DEF Sessions
  <2>4. pending \in [Sessions -> SUBSET Request]
    BY DEF Kept, ServersTyped
  <2> QED BY <1>1, <2>1, <2>2, <2>3, <2>4
<1>4. \/ /\ r.changes /\ landed
         /\ Performed(r.op, g)
      \/ ~(r.changes /\ landed) /\ effects' = effects
  BY <1>1, <1>3, PerformedOnce DEF Kept
<1>5. ConnectionClean(g) /\ SentOnce(g) /\ SuccessEarned
  BY DEF SessionInv
<1>6. r.changes => /\ r.op <= op /\ g <= session
                   /\ effects[r.op][g] = 0 /\ ~Sends(r.op, g)
                   /\ \A s \in pending[g] : s.changes /\ s.op = r.op => s = r
  BY <1>3, <1>5 DEF SentOnce
\* What the request changed had not been performed, and nothing else is performed.
<1>7. \A o \in Ops : ~(r.changes /\ landed /\ o = r.op) => effects'[o][g] = effects[o][g]
  BY <1>4 DEF Performed
<1>8. r.changes /\ landed => effects'[r.op][g] = 1
  BY <1>3, <1>4, <1>6 DEF Performed
<1>9. \A o \in Ops : effects[o][g] = 1 => effects'[o][g] = 1
  BY <1>6, <1>7
<1>10. \A h \in Sessions \ {g} : \A o \in Ops : effects'[o][h] = effects[o][h]
  BY <1>4 DEF Performed
<1>11. /\ inbox'[g] = IF link[g] /\ client[g].open /\ client[g].conn = r.conn
                      THEN Append(inbox[g], [id |-> r.id, ok |-> ok]) ELSE inbox[g]
       /\ \A h \in Sessions \ {g} : inbox'[h] = inbox[h]
  BY <1>1 DEF Answers, Kept, ClientsTyped
<1>12. SentOnce(g)'
  <2>1. \A o \in Ops : effects'[o][g] <= 1
    BY <1>5, <1>7, <1>8 DEF SentOnce
  <2>2. ASSUME NEW o \in Ops, op < o \/ session < g \/ Sends(o, g)
        PROVE  effects'[o][g] = 0
    <3>1. effects[o][g] = 0
      BY <1>5, <2>2 DEF SentOnce
    <3>2. ~(r.changes /\ o = r.op)
      BY <1>3, <1>6, <2>2
    <3> QED BY <1>7, <3>1, <3>2
  <2>3. \A o \in Ops : Sends(o, g)' <=> Sends(o, g)
    BY <1>2 DEF Sends
  <2>4. ASSUME NEW s \in pending'[g]
        PROVE  /\ s.op <= op
               /\ s.changes => g <= session
               /\ s.changes => effects'[s.op][g] = 0 /\ ~Sends(s.op, g)'
               /\ s.changes => \A q \in pending'[g] : q.changes /\ q.op = s.op => q = s
    <3>1. s \in pending[g] /\ s # r /\ s.op \in Ops
      BY <1>3, OpsNatural
    <3>2. /\ s.op <= op
          /\ s.changes => /\ g <= session /\ effects[s.op][g] = 0 /\ ~Sends(s.op, g)
                          /\ \A q \in pending[g] : q.changes /\ q.op = s.op => q = s
      BY <1>5, <3>1 DEF SentOnce
    <3>3. s.changes => ~(r.changes /\ s.op = r.op)
      BY <1>6, <3>1
    <3>4. s.changes => effects'[s.op][g] = 0
      BY <1>7, <3>1, <3>2, <3>3
    <3> QED BY <1>3, <2>3, <3>1, <3>2, <3>4
  <2> QED BY <1>2, <2>1, <2>2, <2>3, <2>4 DEF SentOnce
<1>13. ConnectionClean(g)'
  <2>1. \A s \in pending'[g] : s.conn <= client'[g].conn
    BY <1>2, <1>3, <1>5 DEF ConnectionClean
  <2>2. \A t \in Threads : cli'[t] = g /\ pc'[t] \in {"arm", "write", "read"}
                             => ~client'[g].dirty
    BY <1>2, <1>5 DEF ConnectionClean
  <2>3. ASSUME ~client[g].dirty, NEW t \in Threads, cli[t] = g, pc[t] = "read"
        PROVE  Awaits(t, g)'
    <3>1. Awaits(t, g) /\ op \in Ops
      BY <1>5, <2>3 DEF ConnectionClean, Kept, PlacesKept, Threads
    <3>2. CASE r.conn = client[g].conn
      <4>1. r \in Outstanding(g)
        BY <1>3, <3>2 DEF Outstanding
      <4>2. inbox[g] = <<>> /\ Outstanding(g) = {r} /\ Carries(r, t, g)
        BY <3>1, <4>1 DEF Awaits, Quiet
      <4>3. Outstanding(g)' = {}
        BY <1>2, <1>3, <4>2 DEF Outstanding
      <4>4. CASE inbox'[g] = <<>>
        BY <4>3, <4>4 DEF Awaits, Quiet
      <4>5. CASE inbox'[g] = Append(inbox[g], [id |-> r.id, ok |-> ok])
        <5>1. inbox'[g] = <<[id |-> client[g].nextID, ok |-> ok]>>
          BY <4>2, <4>5 DEF Carries
        <5>2. ok /\ ChangesApp(t) => effects'[op][g] = 1
          BY <1>1, <1>8, <4>2 DEF Carries
        <5> QED BY <1>2, <4>3, <5>1, <5>2 DEF Awaits, ChangesApp
      <4> QED BY <1>11, <4>2, <4>4, <4>5
    <3>3. CASE r.conn # client[g].conn
      <4>1. Outstanding(g)' = Outstanding(g) /\ inbox'[g] = inbox[g] /\ r \notin Outstanding(g)
        BY <1>2, <1>3, <1>11, <3>3 DEF Outstanding
      <4>2. CASE Quiet(g)
        BY <4>1, <4>2 DEF Awaits, Quiet
      <4>3. ASSUME NEW s \in pending[g], inbox[g] = <<>>, Outstanding(g) = {s}, Carries(s, t, g)
            PROVE  Awaits(t, g)'
        <5>1. s \in pending'[g]
          BY <1>3, <4>1, <4>3
        <5>2. Carries(s, t, g)'
          BY <1>2, <4>3 DEF Carries, ChangesApp
        <5> QED BY <4>1, <4>3, <5>1, <5>2 DEF Awaits
      <4>4. ASSUME Outstanding(g) = {}, NEW yes \in BOOLEAN,
                   inbox[g] = <<[id |-> client[g].nextID, ok |-> yes]>>,
                   yes /\ ChangesApp(t) => effects[op][g] = 1
            PROVE  Awaits(t, g)'
        <5>1. yes /\ ChangesApp(t) => effects'[op][g] = 1
          BY <1>9, <3>1, <4>4
        <5> QED BY <1>2, <4>1, <4>4, <5>1 DEF Awaits, ChangesApp
      <4> QED BY <3>1, <4>2, <4>3, <4>4 DEF Awaits
    <3> QED BY <3>2, <3>3
  <2>4. ASSUME ~client[g].dirty, \A t \in Threads : cli[t] = g => pc[t] # "read"
        PROVE  Quiet(g)'
    <3>1. Quiet(g)
      BY <1>5, <2>4 DEF ConnectionClean
    <3>2. r.conn # client[g].conn
      BY <1>3, <3>1 DEF Quiet, Outstanding
    <3>3. Outstanding(g)' = {} /\ inbox'[g] = <<>>
      BY <1>2, <1>3, <1>11, <3>1, <3>2 DEF Quiet, Outstanding
    <3> QED BY <3>3 DEF Quiet
  <2> QED BY <1>2, <2>1, <2>2, <2>3, <2>4 DEF ConnectionClean
<1>14. ASSUME NEW h \in Sessions \ {g} PROVE ConnectionClean(h)' /\ SentOnce(h)'
  <2>1. op \in Ops \/ effects' = effects
    <3>1. r.op <= op
      BY <1>3, <1>5 DEF SentOnce
    <3>2. Ops = 1..Len(Asked) /\ op \in 0..Len(Asked) /\ Len(Asked) \in Nat
      BY AskedAssumption DEF Ops, Kept, OpTyped
    <3> QED BY <1>3, <3>1, <3>2
  <2>2. ConnectionClean(h) /\ SentOnce(h)
    BY DEF SessionInv
  <2> QED BY <1>2, <1>3, <1>10, <1>11, <2>1, <2>2, SessionUntouched
<1>15. SuccessEarned'
  BY <1>2, <1>5, <1>9, <1>10 DEF SuccessEarned, Kept, PlacesKept, OpTyped
<1> QED BY <1>12, <1>13, <1>14, <1>15 DEF SessionInv

LEMMA LossSession ==
  ASSUME Kept, SessionInv, NEW g \in Sessions, TunnelDrops(g) \/ ProcessDies(g)
  PROVE  SessionInv'
<1>1. UNCHANGED <<opVars, callVars, effects>>
  BY DEF TunnelDrops, ProcessDies
<1>2. \A h \in Sessions : pending'[h] = pending[h] \/ pending'[h] = {}
  BY DEF TunnelDrops, ProcessDies, Killed, Kept, ServersTyped
<1>3. ASSUME NEW h \in Sessions PROVE ConnectionClean(h)' /\ SentOnce(h)'
  <2>1. ConnectionClean(h) /\ SentOnce(h)
    BY DEF SessionInv
  <2>2. UNCHANGED <<op, kind, session, pc, cli, client, inbox>>
    BY <1>1 DEF opVars, callVars
  <2>3. CASE pending'[h] = pending[h]
    BY <1>1, <2>1, <2>2, <2>3, SessionUntouched
  <2>4. CASE pending'[h] = {}
    <3>1. ConnectionClean(h)'
      BY <1>1, <2>1, <2>2, <2>4, ConnectionEmptied
    <3>2. \A o \in Ops : Sends(o, h)' => Sends(o, h)
      BY <2>2 DEF Sends
    <3>3. SentOnce(h)'
      BY <1>1, <2>1, <2>2, <2>4, <3>2, OpsNatural, SentUntouched
    <3> QED BY <3>1, <3>3
  <2> QED BY <1>2, <2>3, <2>4
<1> QED BY <1>1, <1>3 DEF SessionInv, SuccessEarned, opVars, callVars

LEMMA SessionInit == Init => SessionInv
<1> SUFFICES ASSUME Init PROVE SessionInv
  OBVIOUS
<1>1. \A g \in Sessions : ConnectionClean(g)
  BY DEF Init, ConnectionClean, Quiet, Outstanding, FreshClient
<1>2. \A g \in Sessions : SentOnce(g)
  BY DEF Init, SentOnce
<1>3. SuccessEarned
  BY DEF Init, SuccessEarned, Threads
<1> QED BY <1>1, <1>2, <1>3 DEF SessionInv

LEMMA SessionStep == Kept /\ SessionInv /\ [Next]_vars => SessionInv'
<1> SUFFICES ASSUME Kept, SessionInv, [Next]_vars PROVE SessionInv'
  OBVIOUS
<1>1. CASE UNCHANGED vars
  BY <1>1, SessionUntouched DEF vars, opVars, callVars, serverVars, SessionInv, SuccessEarned
<1>2. CASE \E t \in Threads : Call(t)
  BY <1>2, CallSession
<1>3. CASE Restart
  BY <1>3, RestartSession
<1>4. CASE Return \/ \E k \in Kinds : Begin(k)
  BY <1>4, ReturnSession
<1>5. CASE FireDeadline \/ DeadlinePasses \/ ContextEnds
  BY <1>5, ContextSession
<1>6. CASE \E g \in Sessions : Server(g)
  BY <1>6, ServeSession, LossSession DEF Server
<1> QED BY <1>1, <1>2, <1>3, <1>4, <1>5, <1>6 DEF Next

\* A connection carries nothing but the request of the thread that reads on it, and an
\* operation is about to be sent to a session, waits there or was performed there.
THEOREM SessionInvariant == Spec => [](Kept /\ SessionInv)
  BY KeptInit, KeptStep, SessionInit, SessionStep, PTL DEF Spec

\* call never meets the answer to another request, whatever was interrupted before it.
THEOREM AnswersKeepStep == Spec => []AnswersInStep
<1>1. Kept /\ SessionInv => AnswersInStep
  <2> SUFFICES ASSUME Kept, SessionInv, NEW t \in Threads, pc[t] = "read", inbox[cli[t]] # <<>>
               PROVE  Head(inbox[cli[t]]).id = client[cli[t]].nextID
    BY DEF AnswersInStep
  <2>1. PICK g \in Sessions : g = cli[t]
    BY DEF Kept, ThreadsTyped
  <2>2. Awaits(t, g)
    BY <2>1 DEF SessionInv, ConnectionClean
  <2>3. \E ok \in BOOLEAN : inbox[g] = <<[id |-> client[g].nextID, ok |-> ok]>>
    BY <2>1, <2>2 DEF Awaits, Quiet
  <2> QED BY <2>1, <2>3
<1> QED BY <1>1, SessionInvariant, PTL

\* One process never performs an operation twice, and what is reported as done was
\* performed by the process that answered.
THEOREM DoneOnce == Spec => []DoneOncePerProcess
<1>1. Kept /\ SessionInv => DoneOncePerProcess
  BY DEF SessionInv, SentOnce, SuccessEarned, DoneOncePerProcess
<1> QED BY <1>1, SessionInvariant, PTL

----------------------------------------------------------------------------
(* How many sessions one operation is asked of.                            *)

\* The session the driver has, or is making, for the operation; and how many more the
\* restarts spent on it have left behind.
Latest == IF pc["driver"] \in {"close", "kill", "bringUp"} THEN session + 1 ELSE session
Budget == (IF recovering THEN 1 ELSE 0) + (IF relaunched THEN 2 ELSE 0)

\* RetriedOnce counts sessions.  What keeps the count is where they are: none was reached
\* further back than the restarts of this operation go.
RetriesInv ==
  /\ pc["driver"] = "idle" => ~recovering /\ ~relaunched
  /\ pc["driver"] # "idle" /\ kind = "act" => ~relaunched
  /\ pc["driver"] # "idle" /\ kind # "observe" =>
       \A g \in Reached(op) : Latest <= g + Budget

LEMMA RetriesTyped ==
  ASSUME Kept
  PROVE  /\ session \in Nat /\ Latest \in Nat /\ Budget \in 0..3
         /\ recovering \in BOOLEAN /\ relaunched \in BOOLEAN
         /\ \A g \in Sessions : g \in Nat
<1>1. session \in Nat /\ recovering \in BOOLEAN /\ relaunched \in BOOLEAN
  BY OpsNatural DEF Kept, OpTyped
<1> QED BY <1>1 DEF Latest, Budget, Sessions

\* The sums the accounts are compared by.
LEMMA Sums ==
  /\ \A a, b, c, d \in Nat : a <= b /\ c <= d => a + c <= b + d
  /\ \A a, b, c, d, g \in Nat : a + c <= b + d /\ (b <= g + c \/ a <= g) => a <= g + d
OBVIOUS

LEMMA RetriesTypedNext ==
  ASSUME Kept'
  PROVE  /\ session' \in Nat /\ Latest' \in Nat /\ Budget' \in 0..3
         /\ recovering' \in BOOLEAN /\ relaunched' \in BOOLEAN
<1>1. session' \in Nat /\ recovering' \in BOOLEAN /\ relaunched' \in BOOLEAN
  BY DEF Kept, OpTyped, Sessions
<1>2. Latest' \in Nat
  <2>1. Latest' = session' \/ Latest' = session' + 1
    BY DEF Latest
  <2> QED BY <1>1, <2>1
<1>3. Budget' \in 0..3
  BY <1>1 DEF Budget
<1> QED BY <1>1, <1>2, <1>3

\* Restarts are paid for as they are made, and what is reached anew is the latest.
LEMMA RetriesFollow ==
  ASSUME Kept, Kept', RetriesInv, UNCHANGED <<op, kind>>,
         pc["driver"] # "idle", pc'["driver"] # "idle",
         kind = "act" => ~relaunched',
         kind # "observe" => Latest' + Budget <= Latest + Budget',
         kind # "observe" => \A g \in Reached(op)' : g \in Reached(op) \/ Latest' <= g
  PROVE  RetriesInv'
<1>1. ASSUME kind # "observe", NEW g \in Reached(op)' PROVE Latest' <= g + Budget'
  <2>1. /\ g \in Nat /\ Latest \in Nat /\ Latest' \in Nat /\ Budget \in Nat /\ Budget' \in Nat
    BY <1>1, RetriesTyped, RetriesTypedNext DEF Reached
  <2>2. Latest' + Budget <= Latest + Budget' /\ (Latest <= g + Budget \/ Latest' <= g)
    BY <1>1 DEF RetriesInv
  <2> QED BY <2>1, <2>2, Sums
<1> QED BY <1>1 DEF RetriesInv

\* A call is made of the latest session; and an idle driver makes none.
LEMMA CallRetries ==
  ASSUME Kept, Kept', RetriesInv, NEW t \in Threads, Call(t)
  PROVE  RetriesInv'
<1>1. CallFrame(t) /\ CallMoves(t)
  BY CallFrames
<1>2. /\ UNCHANGED <<opVars, cli, effects>>
      /\ \A u \in Threads \ {t} : pc'[u] = pc[u]
      /\ \A h \in Sessions \ {cli[t]} : pending'[h] = pending[h]
  BY <1>1 DEF CallFrame
<1>3. UNCHANGED <<op, kind, session, recovering, relaunched>>
  BY <1>2 DEF opVars
<1>4. /\ pc["driver"] = "idle" <=> pc'["driver"] = "idle"
      /\ pc["driver"] \in {"close", "kill", "bringUp"} <=>
           pc'["driver"] \in {"close", "kill", "bringUp"}
      /\ t = "driver" => pc'["driver"] \notin {"close", "kill", "bringUp"}
  BY <1>1, <1>2 DEF CallMoves, Threads
<1>5. Latest' = Latest /\ Budget' = Budget
  BY <1>3, <1>4 DEF Latest, Budget
<1>6. ASSUME NEW g \in Sessions, NEW r \in pending'[g], r \notin pending[g], r.changes
      PROVE  t = "driver" /\ g = session
  <2>1. g = cli[t]
    BY <1>2, <1>6
  <2>2. Write(t)
    BY <1>6 DEF Call, Lock, Reconnect, ReconnectFails, Arm, TimedOut, Dropped, Read, Leave,
                serverVars
  <2>3. r = [ id |-> client[g].nextID, conn |-> client[g].conn, op |-> op,
              changes |-> t = "driver" /\ kind # "observe" ]
    BY <1>6, <2>1, <2>2 DEF Write, Kept, ServersTyped
  <2>4. r.changes <=> t = "driver" /\ kind # "observe"
    BY <2>3
  <2> QED BY <1>6, <2>1, <2>4 DEF Kept, PlacesKept
<1>7. ASSUME NEW g \in Reached(op)' PROVE g \in Reached(op) \/ Latest' <= g
  <2>1. g \in Sessions /\ (effects'[op][g] > 0 \/ \E r \in pending'[g] : r.op = op /\ r.changes)
    BY <1>3, <1>7 DEF Reached
  <2>2. CASE \E r \in pending'[g] : r \notin pending[g] /\ r.changes
    <3>1. t = "driver" /\ g = session /\ session \in Nat
      BY <1>6, <2>1, <2>2, RetriesTyped
    <3> QED BY <1>3, <1>4, <3>1 DEF Latest
  <2>3. CASE ~\E r \in pending'[g] : r \notin pending[g] /\ r.changes
    BY <1>2, <2>1, <2>3 DEF Reached
  <2> QED BY <2>2, <2>3
<1>8. CASE pc["driver"] # "idle"
  <2>1. kind = "act" => ~relaunched'
    BY <1>3, <1>8 DEF RetriesInv
  <2>2. Latest' + Budget <= Latest + Budget'
    BY <1>5, RetriesTyped
  <2> QED BY <1>3, <1>4, <1>7, <1>8, <2>1, <2>2, RetriesFollow
<1>9. CASE pc["driver"] = "idle"
  BY <1>3, <1>4, <1>9 DEF RetriesInv
<1> QED BY <1>8, <1>9

\* A restart is for a session more, which one of the two budgets has paid for.
LEMMA RestartRetries ==
  ASSUME Kept, Kept', RetriesInv, Restart
  PROVE  RetriesInv'
<1>1. /\ UNCHANGED <<op, kind, relaunched, effects>>
      /\ pc["driver"] \in {"close", "kill", "bringUp"}
      /\ pc'["driver"] \in {"kill", "bringUp", "lock", "done"}
      /\ recovering => recovering'
      /\ session' = session \/ (session' = session + 1 /\ pc'["driver"] = "lock")
  <2>1. pc \in [Threads -> Places] /\ "driver" \in Threads
    BY DEF Kept, ThreadsTyped, Threads
  <2>2. CASE CloseClient
    BY <2>1, <2>2 DEF CloseClient, Go, opVars, serverVars
  <2>3. CASE StopChild
    BY <2>1, <2>3 DEF StopChild, Go, opVars
  <2>4. CASE BringUp
    BY <2>1, <2>4 DEF BringUp, Ends, Go
  <2>5. CASE BringUpFails
    BY <2>1, <2>5 DEF BringUpFails, Ends, Go, serverVars
  <2> QED BY <2>2, <2>3, <2>4, <2>5 DEF Restart
<1>2. \A g \in Sessions : pending'[g] \subseteq pending[g]
  BY DEF Restart, CloseClient, StopChild, Killed, BringUp, BringUpFails, Kept, ServersTyped,
         serverVars
<1>3. \A g \in Reached(op)' : g \in Reached(op)
  BY <1>1, <1>2 DEF Reached
<1>4. Latest' <= Latest /\ Latest \in Nat /\ Latest' \in Nat /\ Budget \in Nat
      /\ Budget' \in Nat /\ Budget <= Budget'
  <2>1. Latest' <= Latest
    BY <1>1, RetriesTyped DEF Latest
  <2>2. Budget <= Budget'
    BY <1>1, RetriesTyped, RetriesTypedNext DEF Budget
  <2> QED BY <2>1, <2>2, RetriesTyped, RetriesTypedNext
<1>5. kind = "act" => ~relaunched'
  BY <1>1 DEF RetriesInv
<1>6. Latest' + Budget <= Latest + Budget'
  BY <1>4, Sums
<1> QED BY <1>1, <1>3, <1>5, <1>6, RetriesFollow

\* A restart begins with its budget; an operation ends with none spent.
LEMMA ReturnRetries ==
  ASSUME Kept, Kept', RetriesInv, Return
  PROVE  RetriesInv'
<1>1. UNCHANGED <<op, kind, session, effects, pending>> /\ pc["driver"] = "done"
  BY DEF Return, Recover, Recovers, RecoverSession, OutlivesBound, ReadAgain, Settle, serverVars
<1>2. pc \in [Threads -> Places] /\ "driver" \in Threads
  BY DEF Kept, ThreadsTyped, Threads
<1>3. Reached(op)' = Reached(op)
  BY <1>1 DEF Reached
<1>4. CASE Recover
  <2>1. ~recovering /\ recovering' /\ relaunched' = relaunched /\ pc'["driver"] = "close"
    BY <1>2, <1>4 DEF Recover, Recovers, RestartAllowed, Go
  <2>2. Latest' = Latest + 1 /\ Budget' = Budget + 1
    BY <1>1, <2>1, RetriesTyped DEF Latest, Budget
  <2>3. Latest' + Budget <= Latest + Budget'
    BY <2>2, RetriesTyped
  <2> QED BY <1>1, <1>3, <2>1, <2>3, RetriesFollow DEF RetriesInv
<1>5. CASE RecoverSession
  <2>1. /\ ~relaunched /\ relaunched' /\ ~recovering' /\ pc'["driver"] = "close"
        /\ kind = "launch"
    BY <1>2, <1>5 DEF RecoverSession, OutlivesBound, AfterBound, Go
  <2>2. Latest' = Latest + 1 /\ Budget' = 2 /\ Budget <= 1
    BY <1>1, <2>1, RetriesTyped DEF Latest, Budget
  <2>3. Latest' + Budget <= Latest + Budget'
    BY <2>2, RetriesTyped
  <2> QED BY <1>1, <1>3, <2>1, <2>3, RetriesFollow
<1>6. CASE ReadAgain
  <2>1. kind = "observe" /\ pc'["driver"] = "lock"
    BY <1>2, <1>6 DEF ReadAgain, Ends, Go
  <2> QED BY <1>1, <2>1 DEF RetriesInv
<1>7. CASE Settle
  <2>1. pc'["driver"] = "idle" /\ ~recovering' /\ ~relaunched'
    BY <1>2, <1>7 DEF Settle
  <2> QED BY <2>1 DEF RetriesInv
<1> QED BY <1>4, <1>5, <1>6, <1>7 DEF Return

\* A new operation has reached nothing yet.
LEMMA BeginRetries ==
  ASSUME Kept, SessionInv, RetriesInv, NEW k \in Kinds, Begin(k)
  PROVE  RetriesInv'
<1>1. /\ op' = op + 1 /\ op' \in Ops /\ UNCHANGED <<recovering, relaunched, effects, pending>>
      /\ pc["driver"] = "idle"
  <2>1. op' = op + 1 /\ op < Len(Asked) /\ pc["driver"] = "idle"
        /\ UNCHANGED <<recovering, relaunched, effects, pending>>
    BY DEF Begin, serverVars
  <2>2. op' \in Ops
    BY <2>1, OpsNatural, AskedAssumption DEF Ops
  <2> QED BY <2>1, <2>2
<1>2. op < op' /\ op \in Nat
  BY <1>1, OpsNatural
<1>3. ASSUME NEW g \in Sessions
      PROVE  effects[op'][g] = 0 /\ \A r \in pending[g] : r.op # op'
  <2>1. SentOnce(g)
    BY DEF SessionInv
  <2>2. effects[op'][g] = 0
    BY <1>1, <1>2, <2>1 DEF SentOnce
  <2>3. \A r \in pending[g] : r.op <= op
    BY <2>1 DEF SentOnce
  <2>4. \A r \in pending[g] : r.op \in Nat
    BY OpsNatural
  <2> QED BY <1>1, <1>2, <2>2, <2>3, <2>4
<1>4. Reached(op)' = {}
  BY <1>1, <1>3 DEF Reached
<1> QED BY <1>1, <1>4 DEF RetriesInv

\* What a server performs, late or not, was asked of it before.
LEMMA ServeRetries ==
  ASSUME Kept, Kept', RetriesInv, NEW g \in Sessions, Serve(g)
  PROVE  RetriesInv'
<1>1. PICK r \in pending[g], landed \in BOOLEAN :
        /\ pending' = [pending EXCEPT ![g] = @ \ {r}]
        /\ effects' = IF r.changes /\ landed THEN [effects EXCEPT ![r.op][g] = @ + 1]
                      ELSE effects
  BY DEF Serve, NextServed
<1>2. UNCHANGED <<op, kind, session, recovering, relaunched, pc>>
  BY DEF Serve, opVars
<1>3. r.op \in Ops /\ \A h \in Sessions : pending'[h] \subseteq pending[h]
  BY <1>1, OpsNatural DEF Kept, ServersTyped
<1>4. \/ r.changes /\ landed /\ Performed(r.op, g)
      \/ effects' = effects
  BY <1>1, <1>3, PerformedOnce DEF Kept
<1>5. ASSUME pc["driver"] # "idle", NEW h \in Reached(op)' PROVE h \in Reached(op)
  <2>1. h \in Sessions /\ (effects'[op][h] > 0 \/ \E s \in pending'[h] : s.op = op /\ s.changes)
    BY <1>2, <1>5 DEF Reached
  <2>2. CASE \E s \in pending'[h] : s.op = op /\ s.changes
    BY <1>3, <2>1, <2>2 DEF Reached
  <2>3. CASE effects'[op][h] > 0 /\ effects'[op][h] = effects[op][h]
    BY <2>1, <2>3 DEF Reached
  <2>4. CASE r.changes /\ r.op = op /\ h = g
    BY <1>1, <2>1, <2>4 DEF Reached
  <2>5. op \in Ops
    BY <1>5 DEF Kept, PlacesKept
  <2> QED BY <1>4, <2>1, <2>2, <2>3, <2>4, <2>5 DEF Performed
<1>6. CASE pc["driver"] # "idle"
  <2>1. Latest' = Latest /\ Budget' = Budget
    BY <1>2 DEF Latest, Budget
  <2>2. Latest' + Budget <= Latest + Budget'
    BY <2>1, RetriesTyped
  <2> QED BY <1>2, <1>5, <1>6, <2>2, RetriesFollow DEF RetriesInv
<1>7. CASE pc["driver"] = "idle"
  BY <1>2, <1>7 DEF RetriesInv
<1> QED BY <1>6, <1>7

\* Time, a loss or nothing at all: no session is reached by it.
LEMMA QuietRetries ==
  ASSUME Kept, RetriesInv, NEW g \in Sessions,
         \/ FireDeadline \/ DeadlinePasses \/ ContextEnds \/ UNCHANGED vars
         \/ TunnelDrops(g) \/ ProcessDies(g)
  PROVE  RetriesInv'
<1>1. /\ UNCHANGED <<op, kind, session, recovering, relaunched, pc, effects>>
      /\ \A h \in Sessions : pending'[h] \subseteq pending[h]
  BY DEF FireDeadline, DeadlinePasses, ContextEnds, TunnelDrops, ProcessDies, Killed, vars, opVars,
         callVars, serverVars, Kept, ServersTyped
<1>2. \A h \in Reached(op)' : h \in Reached(op)
  BY <1>1 DEF Reached
<1>3. Latest' = Latest /\ Budget' = Budget
  BY <1>1 DEF Latest, Budget
<1> QED BY <1>1, <1>2, <1>3 DEF RetriesInv

LEMMA RetriesStep ==
  Kept /\ Kept' /\ SessionInv /\ RetriesInv /\ [Next]_vars => RetriesInv'
<1> SUFFICES ASSUME Kept, Kept', SessionInv, RetriesInv, [Next]_vars PROVE RetriesInv'
  OBVIOUS
<1>1. 1 \in Sessions
  BY SessionsAssumption DEF Sessions
<1> QED
  BY <1>1, CallRetries, RestartRetries, ReturnRetries, BeginRetries, ServeRetries, QuietRetries
  DEF Next, Server

\* No session is reached before it is the driver's.
LEMMA ReachedBehind ==
  ASSUME Kept, SessionInv, op \in Ops, NEW g \in Reached(op)
  PROVE  g \in Nat /\ g <= session
<1>1. g \in Sessions /\ g \in Nat /\ session \in Nat
  BY RetriesTyped DEF Reached
<1>2. SentOnce(g)
  BY <1>1 DEF SessionInv
<1>3. CASE effects[op][g] > 0
  <2>1. ~(session < g)
    BY <1>2, <1>3 DEF SentOnce
  <2> QED BY <1>1, <2>1
<1>4. CASE \E r \in pending[g] : r.changes
  BY <1>1, <1>2, <1>4 DEF SentOnce
<1> QED BY <1>3, <1>4 DEF Reached

\* However many sessions can be brought up and however long their servers outlive them, a
\* gesture is asked of two of them at most and a launch of four.
THEOREM RetriesBounded == Spec => []RetriedOnce
<1>1. Init => RetriesInv
  BY DEF Init, RetriesInv, Threads
<1>2. Kept /\ SessionInv /\ RetriesInv => RetriedOnce
  <2> SUFFICES ASSUME Kept, SessionInv, RetriesInv, pc["driver"] # "idle", kind # "observe"
               PROVE  Cardinality(Reached(op) \cup BeingMade)
                        <= IF kind = "launch" THEN 4 ELSE 2
    BY DEF RetriedOnce
  <2> DEFINE lo == Latest - Budget
             asked == Reached(op) \cup BeingMade
  <2>1. /\ Latest \in Nat /\ Budget \in 0..3 /\ session \in Nat /\ lo \in Int
    BY RetriesTyped
  <2>2. Budget <= IF kind = "launch" THEN 3 ELSE 1
    <3>1. kind # "launch" => ~relaunched
      BY DEF RetriesInv, Kept, OpTyped, Kinds
    <3> QED BY <3>1 DEF Budget
  <2>3. ASSUME NEW g \in Reached(op) PROVE g \in lo..Latest
    <3>1. g \in Nat /\ g <= session
      BY <2>3, ReachedBehind DEF Kept, PlacesKept
    <3>2. Latest <= g + Budget
      BY <2>3 DEF RetriesInv
    <3>3. session <= Latest
      BY <2>1 DEF Latest
    <3> QED BY <2>1, <3>1, <3>2, <3>3
  <2>4. \A g \in BeingMade : g = Latest
    BY DEF BeingMade, Latest
  <2>5. asked \subseteq lo..Latest
    BY <2>1, <2>3, <2>4
  <2>6. IsFiniteSet(lo..Latest) /\ Cardinality(lo..Latest) = Latest - lo + 1
    BY <2>1, FS_Interval
  <2>7. Cardinality(asked) <= Cardinality(lo..Latest) /\ Cardinality(asked) \in Nat
    BY <2>5, <2>6, FS_Subset, FS_CardinalityType
  <2>8. lo = Latest - Budget
    OBVIOUS
  <2> HIDE DEF asked, lo
  <2>9. Cardinality(asked) <= Budget + 1
    BY <2>1, <2>6, <2>7, <2>8
  <2>10. CASE kind = "launch"
    BY <2>1, <2>2, <2>7, <2>9, <2>10 DEF asked
  <2>11. CASE kind # "launch"
    BY <2>1, <2>2, <2>7, <2>9, <2>11 DEF asked
  <2> QED BY <2>10, <2>11
<1> QED BY <1>1, <1>2, RetriesStep, SessionInvariant, PTL DEF Spec
=============================================================================
