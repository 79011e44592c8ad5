---------------------------- MODULE SimulatorLife ----------------------------
(***************************************************************************)
(* Two runs on one iOS simulator: New, the restart in place and Close of   *)
(* the companion driver, with the two children each run has, the legacy    *)
(* companion and the test session that hosts the in-simulator runner.      *)
(* Hybrid is the default; the legacy driver leaves the session out.        *)
(*                                                                         *)
(* A child may die by itself at any time and a run may be killed, which    *)
(* stops none of its children.  The runner a session launches belongs to   *)
(* the simulator: it comes up when it likes, or never, whatever became of  *)
(* the session and of its run, and outlives both while it answers.         *)
(***************************************************************************)
EXTENDS Naturals

CONSTANTS
  Ports,      \* loopback ports a session may be given
  MaxSpawns   \* bound: companions, and sessions, that one run starts

ASSUME SpawnBounds == Ports \subseteq Nat /\ MaxSpawns \in Nat

Nobody == 0     \* no run, no child, no client, no port
Runs == {1, 2}

VARIABLES
  runs,       \* the two drivers
  deviceLock, \* the run that holds the lock on the target
  children,   \* the living children: what each is, whose, and its number
  coming,     \* the runners launched in the simulator that listen to nothing yet
  answering   \* and those that answer: port, run, session

simulatorVars == <<runs, deviceLock, children, coming, answering>>

Companion(run, number) == [what |-> "companion", run |-> run, number |-> number]
Session(run, number) == [what |-> "session", run |-> run, number |-> number]
RunnerOf(run, number, port) == [run |-> run, session |-> number, port |-> port]
NoRunner == RunnerOf(Nobody, Nobody, Nobody)

\* child and runnerChild are the children the driver would stop, runnerClient the runner
\* its client is connected to.  slow is history: the runners that had still to come up on
\* the port of the session when it was given it.
Fresh ==
  [ pc |-> "new", child |-> Nobody, runnerChild |-> Nobody, runnerClient |-> NoRunner,
    port |-> Nobody, slow |-> {}, spawns |-> 0, restarting |-> FALSE ]

SimulatorInit ==
  /\ runs = [run \in Runs |-> Fresh]
  /\ deviceLock = Nobody
  /\ children = {} /\ coming = {} /\ answering = {}

Stands(run, pc) == runs[run].pc = pc
Becomes(run, changed) == runs' = [runs EXCEPT ![run] = changed]
MovesTo(run, pc) == Becomes(run, [runs[run] EXCEPT !.pc = pc])

\* An error ends New, which closes, and is the restart's to return.
AfterError(run) == IF runs[run].restarting THEN "serving" ELSE "close"

----------------------------------------------------------------------------
(* New.                                                                    *)

\* acquireDeviceLock does not wait: a target that is taken fails the run.
AcquireDeviceLock(run) ==
  /\ Stands(run, "new")
  /\ IF deviceLock = Nobody
     THEN deviceLock' = run /\ MovesTo(run, "clear")
     ELSE MovesTo(run, "refused") /\ UNCHANGED deviceLock
  /\ UNCHANGED <<children, coming, answering>>

\* clearAppState: before any session of the run exists, when it was asked for.
ClearAppState(run) ==
  /\ Stands(run, "clear")
  /\ \E pc \in {"companion", "close"} : MovesTo(run, pc)
  /\ UNCHANGED <<deviceLock, children, coming, answering>>

\* Also when the run was canceled: its context starts no child.
SpawnFails(run, pc) ==
  /\ Stands(run, pc)
  /\ Becomes(run, [runs[run] EXCEPT !.pc = AfterError(run), !.restarting = FALSE])
  /\ UNCHANGED <<deviceLock, children, coming, answering>>

\* bringUp: the same address every time.
SpawnChild(run) ==
  /\ Stands(run, "companion") /\ runs[run].spawns < MaxSpawns
  /\ LET number == runs[run].spawns + 1
     IN /\ Becomes(run, [runs[run] EXCEPT !.pc = "listen", !.child = number, !.spawns = number])
        /\ children' = children \cup {Companion(run, number)}
  /\ UNCHANGED <<deviceLock, coming, answering>>

CompanionUp(run) ==
  /\ Stands(run, "listen")
  /\ Companion(run, runs[run].child) \in children
  /\ MovesTo(run, "session")
  /\ UNCHANGED <<deviceLock, children, coming, answering>>

\* No listener, no connection or no health in time.
CompanionDown(run) ==
  /\ Stands(run, "listen")
  /\ Becomes(run, [runs[run] EXCEPT !.pc = AfterError(run), !.restarting = FALSE,
                                    !.child = Nobody])
  /\ children' = children \ {Companion(run, runs[run].child)}
  /\ UNCHANGED <<deviceLock, coming, answering>>

\* Mutant of FreePorts: the session is given the same port every time.
SamePort == {1}

\* pickLoopbackAddress: a port that nothing is bound to at the moment.
Bound == {runner.port : runner \in answering}
FreePorts == Ports \ Bound

\* bringUpRunner: a fresh port every time.
SpawnRunner(run) ==
  /\ Stands(run, "session")
  /\ \E port \in FreePorts :
       /\ Becomes(run, [runs[run] EXCEPT !.pc = "dial", !.port = port,
                                         !.runnerChild = runs[run].spawns,
                                         !.slow = {runner \in coming : runner.port = port}])
       /\ coming' = coming \cup {RunnerOf(run, runs[run].spawns, port)}
  /\ children' = children \cup {Session(run, runs[run].spawns)}
  /\ UNCHANGED <<deviceLock, answering>>

\* Whoever answers on the port is taken for the session's runner.
RunnerUp(run) ==
  /\ Stands(run, "dial")
  /\ \E runner \in answering :
       /\ runner.port = runs[run].port
       /\ Becomes(run, [runs[run] EXCEPT !.pc = "serving", !.runnerClient = runner,
                                         !.restarting = FALSE])
  /\ UNCHANGED <<deviceLock, children, coming, answering>>

RunnerDown(run) ==
  /\ Stands(run, "dial")
  /\ Becomes(run, [runs[run] EXCEPT !.pc = AfterError(run), !.restarting = FALSE,
                                    !.runnerChild = Nobody])
  /\ children' = children \ {Session(run, runs[run].runnerChild)}
  /\ UNCHANGED <<deviceLock, coming, answering>>

----------------------------------------------------------------------------
(* respawnAndRedial, Close.                                                *)

\* A connection was lost, on whichever channel: both halves restart.
RestartStopsChild(run) ==
  /\ Stands(run, "serving") /\ runs[run].spawns < MaxSpawns
  /\ Becomes(run, [runs[run] EXCEPT !.pc = "stopSession", !.child = Nobody,
                                    !.restarting = TRUE])
  /\ children' = children \ {Companion(run, runs[run].child)}
  /\ UNCHANGED <<deviceLock, coming, answering>>

RestartStopsSession(run) ==
  /\ Stands(run, "stopSession")
  /\ Becomes(run, [runs[run] EXCEPT !.pc = "companion", !.runnerChild = Nobody])
  /\ children' = children \ {Session(run, runs[run].runnerChild)}
  /\ UNCHANGED <<deviceLock, coming, answering>>

\* The run is over, or New did not get the screen's dimensions.
EndsRun(run) ==
  /\ Stands(run, "serving")
  /\ MovesTo(run, "close")
  /\ UNCHANGED <<deviceLock, children, coming, answering>>

\* Mutant of CloseStopsChild: the lock goes with the first child.
CloseUnlocksFirst(run) ==
  /\ Stands(run, "close")
  /\ Becomes(run, [runs[run] EXCEPT !.pc = "closeSession", !.child = Nobody])
  /\ children' = children \ {Companion(run, runs[run].child)}
  /\ deviceLock' = Nobody
  /\ UNCHANGED <<coming, answering>>

\* stopProcess returns when the child has exited.
CloseStopsChild(run) ==
  /\ Stands(run, "close")
  /\ Becomes(run, [runs[run] EXCEPT !.pc = "closeSession", !.child = Nobody])
  /\ children' = children \ {Companion(run, runs[run].child)}
  /\ UNCHANGED <<deviceLock, coming, answering>>

CloseStopsSession(run) ==
  /\ Stands(run, "closeSession")
  /\ Becomes(run, [runs[run] EXCEPT !.pc = "unlock", !.runnerChild = Nobody,
                                    !.runnerClient = NoRunner])
  /\ children' = children \ {Session(run, runs[run].runnerChild)}
  /\ UNCHANGED <<deviceLock, coming, answering>>

Unlock(run) ==
  /\ Stands(run, "unlock")
  /\ deviceLock' = Nobody
  /\ MovesTo(run, "closed")
  /\ UNCHANGED <<children, coming, answering>>

----------------------------------------------------------------------------
(* The run's context, its processes and the simulator.                     *)

Over == {"refused", "closed", "killed"}

\* What the process held is gone with it, and the kernel gives the lock back.
RunKilled(run) ==
  /\ runs[run].pc \notin Over
  /\ Becomes(run, [Fresh EXCEPT !.pc = "killed", !.spawns = runs[run].spawns])
  /\ deviceLock' = IF deviceLock = run THEN Nobody ELSE deviceLock
  /\ UNCHANGED <<children, coming, answering>>

\* By itself, or on the SIGTERM that the context of a canceled run sends it.
ChildExits ==
  /\ \E child \in children : children' = children \ {child}
  /\ UNCHANGED <<runs, deviceLock, coming, answering>>

\* A launched runner listens on its port, early or late, unless the port is taken.
RunnerAnswers ==
  /\ \E runner \in coming :
       /\ runner.port \notin Bound
       /\ coming' = coming \ {runner}
       /\ answering' = answering \cup {runner}
  /\ UNCHANGED <<runs, deviceLock, children>>

\* A session that still lives launches its runner again.
RunnerGone ==
  /\ \E runner \in answering :
       /\ answering' = answering \ {runner}
       /\ coming' = IF Session(runner.run, runner.session) \in children
                    THEN coming \cup {runner} ELSE coming
  /\ UNCHANGED <<runs, deviceLock, children>>

SimulatorNext ==
  \/ \E run \in Runs :
       \/ AcquireDeviceLock(run) \/ ClearAppState(run)
       \/ SpawnChild(run) \/ CompanionUp(run) \/ CompanionDown(run)
       \/ SpawnRunner(run) \/ RunnerUp(run) \/ RunnerDown(run)
       \/ \E pc \in {"companion", "session"} : SpawnFails(run, pc)
       \/ RestartStopsChild(run) \/ RestartStopsSession(run) \/ EndsRun(run)
       \/ CloseStopsChild(run) \/ CloseStopsSession(run) \/ Unlock(run)
       \/ RunKilled(run)
  \/ ChildExits \/ RunnerAnswers \/ RunnerGone

SimulatorSpec == SimulatorInit /\ [][SimulatorNext]_simulatorVars

----------------------------------------------------------------------------
(* Properties.                                                             *)

SimulatorTypeOK ==
  /\ deviceLock \in {Nobody} \cup Runs
  /\ \A run \in Runs : runs[run].spawns \in 0..MaxSpawns /\ runs[run].port \in {Nobody} \cup Ports
  /\ \A child \in children : child.number <= runs[child.run].spawns

\* One run drives the simulator: a child that lives is one its run will stop and has the
\* device, so that no other run clears the app or attaches beside it, unless the run was
\* killed.  And a run at work talks to the runner of the session it would stop, never to
\* one that a stopped or killed session left listening: only a runner that had still to
\* come up on that very port when the session was given it can take its place
\* (driver.go:192-218, 386-402, 414-431, 1220-1240).
OneRunDrives ==
  /\ \A child \in children :
       Stands(child.run, "killed") \/
         /\ deviceLock = child.run
         /\ child.number = IF child.what = "companion" THEN runs[child.run].child
                           ELSE runs[child.run].runnerChild
  /\ \A run \in Runs : Stands(run, "serving") /\ runs[run].runnerChild # Nobody =>
       runs[run].runnerClient \in
         {RunnerOf(run, runs[run].runnerChild, runs[run].port)} \cup runs[run].slow
=============================================================================
