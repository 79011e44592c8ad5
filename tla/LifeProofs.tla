------------------------------ MODULE LifeProofs ------------------------------
(***************************************************************************)
(* Proofs about the processes a run starts and has to put away: the        *)
(* sidecar of an Android run (SidecarLife), for any number of relaunches,  *)
(* a cancellation, a crash or a shutdown hook at any point; and the        *)
(* children of the runs on one iOS simulator (SimulatorLife), for any      *)
(* ports, any number of restarts and a child or a run that dies at any     *)
(* point.                                                                  *)
(***************************************************************************)
EXTENDS SidecarLife, SimulatorLife, TLAPS

(***************************************************************************)
(* SidecarLife.                                                            *)
(***************************************************************************)

\* The places of Execute up to the first launch of the app.
BeforeLaunch == {"prepare", "force", "build", "health", "launch"}
ExecPlaces == BeforeLaunch \cup {"launching", "load", "run", "terminate", "terminating", "stop",
                                 "grace", "drain", "restore", "returned"}

ExecType == [pc : ExecPlaces, restores : BOOLEAN, relaunches : Nat]
SidecarType ==
  [ process : {"none", "booting", "serving", "hook", "dead"}, signalled : BOOLEAN,
    launched : BOOLEAN, launch : {"none", "called", "started", "done", "failed"},
    stop : {"none", "called", "stopped", "done"}, hook : {"none", "took", "closing"} ]
ExitedType == [at : {"waiting", "sending", "closing", "closed", "done"}, status : BOOLEAN]

LifeTyped ==
  /\ exec \in ExecType /\ sidecar \in SidecarType /\ exited \in ExitedType
  /\ cancelled \in BOOLEAN /\ appRuns \in BOOLEAN /\ forced \in BOOLEAN
  /\ LifeTypeOK

Excused == mishaps \cap {"crashed", "killed", "unrecorded", "inFlight", "unstoppable"} # {}

\* A status is published, and the channel closed, for a process that is dead; and Execute
\* gets past the drain on such a status only.
ProcessReaped ==
  /\ Reaped => sidecar.process = "dead"
  /\ exited.status => Reaped
  /\ exec.pc \in {"prepare", "force", "build"} => sidecar.process = "none"
  /\ exec.pc \in {"restore", "returned"} =>
       sidecar.process = "none" \/ (sidecar.process = "dead" /\ Reaped)

\* The device is in 3-button navigation because Execute will put it back or because the
\* command that forced it reported an error.
NavigationOwed ==
  /\ exec.pc \in {"prepare", "force"} => ~forced
  /\ forced =>
       IF exec.pc = "returned" THEN mishaps \cap {"forcedInError", "unrestored"} # {}
       ELSE exec.restores \/ "forcedInError" \in mishaps

\* An app that runs has somebody alive to stop it: the launch still in flight that will
\* record it, the record, or the hook that took the record over.  Whoever takes the record
\* away has stopped the app before, and no launch is in flight then that went unnoticed.
AppOwed ==
  /\ appRuns => Excused \/ (Alive /\ (sidecar.launch = "started" \/ sidecar.launched
                                      \/ sidecar.hook = "took"))
  /\ exec.pc \in BeforeLaunch => sidecar.launch = "none"
  /\ sidecar.process \in {"none", "booting"} => sidecar.launch = "none" /\ ~appRuns
  /\ sidecar.stop # "none" =>
       /\ exec.pc \in {"terminating", "stop", "grace", "drain", "restore", "returned"}
       /\ InFlight => Excused
  /\ sidecar.stop = "stopped" /\ appRuns => Excused \/ sidecar.hook = "took"
  /\ sidecar.hook # "none" =>
       /\ sidecar.process \in {"hook", "dead"}
       /\ InFlight => Excused
  /\ sidecar.hook = "closing" /\ appRuns => Excused

SidecarInv == LifeTyped /\ ProcessReaped /\ NavigationOwed /\ AppOwed

LEMMA SidecarInit == LifeInit => SidecarInv
<1> SUFFICES ASSUME LifeInit PROVE SidecarInv
  OBVIOUS
<1>1. exec \in ExecType /\ exited \in ExitedType
  BY DEF LifeInit, ExecType, ExecPlaces, BeforeLaunch, ExitedType
<1>2. sidecar \in SidecarType
  BY DEF LifeInit, SidecarType
<1> QED
  BY <1>1, <1>2 DEF LifeInit, SidecarInv, LifeTyped, LifeTypeOK, ProcessReaped, NavigationOwed,
     AppOwed, Reaped

\* Writing one field of a record keeps its type.
LEMMA SidecarFields ==
  /\ \A s \in SidecarType, x \in {"none", "booting", "serving", "hook", "dead"} :
       [s EXCEPT !.process = x] \in SidecarType
  /\ \A s \in SidecarType : [s EXCEPT !.signalled = TRUE] \in SidecarType
  /\ \A s \in SidecarType, x \in BOOLEAN : [s EXCEPT !.launched = x] \in SidecarType
  /\ \A s \in SidecarType, x \in {"none", "called", "started", "done", "failed"} :
       [s EXCEPT !.launch = x] \in SidecarType
  /\ \A s \in SidecarType, x \in {"none", "called", "stopped", "done"} :
       [s EXCEPT !.stop = x] \in SidecarType
  /\ \A s \in SidecarType, x \in {"none", "took", "closing"} :
       [s EXCEPT !.hook = x] \in SidecarType
  /\ \A s \in SidecarType : OnSigterm(s.process) \in {"none", "booting", "serving", "hook", "dead"}
  BY DEF SidecarType, OnSigterm

LEMMA ExecFields ==
  /\ \A e \in ExecType, x \in ExecPlaces : [e EXCEPT !.pc = x] \in ExecType
  /\ \A e \in ExecType : [e EXCEPT !.restores = TRUE] \in ExecType
  /\ \A e \in ExecType, x \in Nat : [e EXCEPT !.relaunches = x] \in ExecType
  /\ \A e \in ExecType : e.relaunches \in Nat
  BY DEF ExecType

LEMMA LifeTypedStep == LifeTyped /\ [LifeNext]_lifeVars => LifeTyped'
<1> SUFFICES ASSUME LifeTyped, [LifeNext]_lifeVars PROVE LifeTyped'
  OBVIOUS
<1>t. /\ exec \in ExecType /\ sidecar \in SidecarType /\ exited \in ExitedType
      /\ cancelled \in BOOLEAN /\ appRuns \in BOOLEAN /\ forced \in BOOLEAN
      /\ mishaps \subseteq {"crashed", "killed", "unrecorded", "inFlight", "unstoppable",
                            "forcedInError", "unrestored"}
  BY DEF LifeTyped, LifeTypeOK
<1>1. exec' \in ExecType
  <2>1. ExecPlaces = BeforeLaunch \cup {"launching", "load", "run", "terminate", "terminating",
                                        "stop", "grace", "drain", "restore", "returned"}
        /\ BeforeLaunch = {"prepare", "force", "build", "health", "launch"}
    BY DEF ExecPlaces, BeforeLaunch
  <2>2. \/ exec' = exec \/ Relaunch \/ exec' = [exec EXCEPT !.pc = "build", !.restores = TRUE]
        \/ \E place \in ExecPlaces : exec' = [exec EXCEPT !.pc = place]
    BY <2>1 DEF LifeNext, lifeVars, Watcher, Execute, EntersFrom, Enters, Boots, Crashes, AppStarts,
       LaunchRecorded, LaunchThrows, StopsApp, ClearsBundle, HookTakes, HookStops, HookEnds, Cancel,
       CommandCancelled, WaitDelayExpires, Waits, Publishes, ClosesChannel, Prepare,
       ForceThreeButtonNav, SpawnSidecar, Healthy, ExitedFirst, HealthFails, LaunchApp,
       LaunchReturns, Load, RunEnds, Terminate, TerminateReturns, StopSidecar, GraceExpires, Drain,
       RestoreNav
  <2>3. CASE Relaunch
    <3>1. exec.relaunches + 1 \in Nat
      BY <1>t, ExecFields
    <3> QED
      BY <1>t, <2>3, <3>1, ExecFields DEF Relaunch
  <2>4. [exec EXCEPT !.pc = "build", !.restores = TRUE] \in ExecType
    BY <1>t, <2>1 DEF ExecType
  <2>5. \A place \in ExecPlaces : [exec EXCEPT !.pc = place] \in ExecType
    BY <1>t, ExecFields
  <2> QED
    BY <1>t, <2>2, <2>3, <2>4, <2>5
<1>2. sidecar' \in SidecarType
  <2>1. CASE Boots \/ Crashes \/ HookEnds \/ WaitDelayExpires \/ GraceExpires \/ SpawnSidecar
    <3>1. CASE Boots
      BY <1>t, SidecarFields, <3>1 DEF Boots
    <3>2. CASE Crashes \/ HookEnds
      BY <1>t, SidecarFields, <3>2 DEF Crashes, HookEnds, Dies
    <3>3. CASE WaitDelayExpires \/ GraceExpires
      BY <1>t, SidecarFields, <3>3 DEF WaitDelayExpires, GraceExpires, Kills, Dies
    <3>4. CASE SpawnSidecar
      BY <1>t, SidecarFields, <3>4 DEF SpawnSidecar
    <3> QED BY <2>1, <3>1, <3>2, <3>3, <3>4
  <2>2. CASE AppStarts \/ LaunchThrows \/ LaunchApp \/ Relaunch \/ Terminate
    <3>1. CASE AppStarts
      BY <1>t, SidecarFields, <3>1 DEF AppStarts
    <3>2. CASE LaunchThrows
      BY <1>t, SidecarFields, <3>2 DEF LaunchThrows
    <3>3. CASE LaunchApp
      BY <1>t, SidecarFields, <3>3 DEF LaunchApp, Calls
    <3>4. CASE Relaunch
      BY <1>t, SidecarFields, <3>4 DEF Relaunch, Calls
    <3>5. CASE Terminate
      BY <1>t, SidecarFields, <3>5 DEF Terminate, Calls
    <3> QED BY <2>2, <3>1, <3>2, <3>3, <3>4, <3>5
  <2>3. CASE LaunchRecorded \/ StopsApp \/ ClearsBundle \/ HookStops
    <3>1. CASE LaunchRecorded
      BY <1>t, SidecarFields, <3>1 DEF LaunchRecorded
    <3>2. CASE StopsApp
      BY <1>t, SidecarFields, <3>2 DEF StopsApp
    <3>3. CASE ClearsBundle
      BY <1>t, SidecarFields, <3>3 DEF ClearsBundle
    <3>4. CASE HookStops
      BY <1>t, SidecarFields, <3>4 DEF HookStops
    <3> QED BY <2>3, <3>1, <3>2, <3>3, <3>4
  <2>4. CASE HookTakes
    BY <1>t, <2>4, SidecarFields DEF HookTakes
  <2>5. CASE CommandCancelled \/ StopSidecar
    <3>1. /\ [sidecar EXCEPT !.process = OnSigterm(sidecar.process)] \in SidecarType
          /\ [sidecar EXCEPT !.process = OnSigterm(sidecar.process), !.signalled = TRUE]
               \in SidecarType
      BY <1>t, SidecarFields
    <3> QED
      BY <1>t, <2>5, <3>1 DEF CommandCancelled, StopSidecar
  <2>6. CASE UNCHANGED sidecar
    BY <1>t, <2>6
  <2> QED
    BY <2>1, <2>2, <2>3, <2>4, <2>5, <2>6 DEF LifeNext, lifeVars, Watcher, Execute, Cancel, Waits,
       Publishes, ClosesChannel, Prepare, ForceThreeButtonNav, Healthy, ExitedFirst, HealthFails,
       LaunchReturns, Load, RunEnds, TerminateReturns, Drain, RestoreNav
<1>3. exited' \in ExitedType
  <2>1. CASE Waits \/ ClosesChannel
    BY <1>t, <2>1 DEF ExitedType, Waits, ClosesChannel, AfterSend
  <2>4. CASE Publishes
    BY <2>4 DEF ExitedType, Publishes
  <2>2. CASE ExitedFirst \/ Drain
    BY <1>t, <2>2 DEF ExitedType, ExitedFirst, Drain, Receives
  <2>3. CASE UNCHANGED exited
    BY <1>t, <2>3
  <2> QED
    BY <2>1, <2>2, <2>3, <2>4 DEF LifeNext, lifeVars, Watcher, Execute, Boots, Crashes, AppStarts,
       LaunchRecorded, LaunchThrows, StopsApp, ClearsBundle, HookTakes, HookStops, HookEnds, Cancel,
       CommandCancelled, WaitDelayExpires, Relaunch, Prepare, ForceThreeButtonNav, SpawnSidecar,
       Healthy, HealthFails, LaunchApp, LaunchReturns, Load, RunEnds, Terminate, TerminateReturns,
       StopSidecar, GraceExpires, RestoreNav
<1>4. /\ cancelled' \in BOOLEAN /\ appRuns' \in BOOLEAN /\ forced' \in BOOLEAN
      /\ mishaps' \subseteq {"crashed", "killed", "unrecorded", "inFlight", "unstoppable",
                             "forcedInError", "unrestored"}
  BY <1>t DEF LifeNext, lifeVars, Watcher, Execute, Kills, Boots, Crashes, AppStarts,
     LaunchRecorded, LaunchThrows, StopsApp, ClearsBundle, HookTakes, HookStops, HookEnds, Cancel,
     CommandCancelled, WaitDelayExpires, Relaunch, Waits, Publishes, ClosesChannel, Prepare,
     ForceThreeButtonNav, SpawnSidecar, Healthy, ExitedFirst, HealthFails, LaunchApp,
     LaunchReturns, Load, RunEnds, Terminate, TerminateReturns, StopSidecar, GraceExpires, Drain,
     RestoreNav
<1>5. LifeTypeOK'
  BY <1>2, <1>4 DEF LifeTypeOK, SidecarType
<1> QED
  BY <1>1, <1>2, <1>3, <1>4, <1>5 DEF LifeTyped

LEMMA ReapedStep == LifeTyped /\ ProcessReaped /\ [LifeNext]_lifeVars => ProcessReaped'
<1> SUFFICES ASSUME LifeTyped, ProcessReaped, [LifeNext]_lifeVars PROVE ProcessReaped'
  OBVIOUS
<1> USE DEF LifeTyped, ExecType, SidecarType, ExitedType, ExecPlaces, BeforeLaunch, ProcessReaped,
        Reaped
<1>1. CASE Boots \/ Crashes \/ HookEnds \/ CommandCancelled \/ WaitDelayExpires
  BY <1>1 DEF Boots, Crashes, HookEnds, CommandCancelled, WaitDelayExpires, Kills, Dies, Alive,
     OnSigterm
<1>2. CASE \/ AppStarts \/ LaunchRecorded \/ LaunchThrows \/ StopsApp \/ ClearsBundle \/ HookTakes
           \/ HookStops
  <2>1. CASE AppStarts
    BY <2>1 DEF AppStarts
  <2>2. CASE LaunchRecorded
    BY <2>2 DEF LaunchRecorded
  <2>3. CASE LaunchThrows
    BY <2>3 DEF LaunchThrows
  <2>4. CASE StopsApp
    BY <2>4 DEF StopsApp
  <2>5. CASE ClearsBundle
    BY <2>5 DEF ClearsBundle
  <2>6. CASE HookTakes
    BY <2>6 DEF HookTakes
  <2>7. CASE HookStops
    BY <2>7 DEF HookStops
  <2> QED BY <1>2, <2>1, <2>2, <2>3, <2>4, <2>5, <2>6, <2>7
<1>3. CASE Waits \/ Publishes \/ ClosesChannel
  BY <1>3 DEF Waits, Publishes, ClosesChannel, AfterSend
<1>4. CASE SpawnSidecar
  BY <1>4 DEF SpawnSidecar, Enters
<1>5. CASE LaunchApp \/ Terminate \/ Relaunch
  BY <1>5 DEF LaunchApp, Terminate, Relaunch, Calls, Enters
<1>6. CASE StopSidecar \/ GraceExpires
  BY <1>6 DEF StopSidecar, GraceExpires, EntersFrom, Enters, OnSigterm, Kills, Dies
<1>7. CASE ExitedFirst \/ Drain
  BY <1>7 DEF ExitedFirst, Drain, EntersFrom, Enters, Receives, Receivable
<1>8. CASE \/ Prepare \/ ForceThreeButtonNav \/ Healthy \/ HealthFails \/ LaunchReturns \/ Load
           \/ RunEnds \/ TerminateReturns \/ RestoreNav
  BY <1>8 DEF Prepare, ForceThreeButtonNav, Healthy, HealthFails, LaunchReturns, Load, RunEnds,
     TerminateReturns, RestoreNav, EntersFrom, Enters
<1>9. CASE Cancel \/ UNCHANGED lifeVars
  BY <1>9 DEF Cancel, lifeVars
<1> QED
  BY <1>1, <1>2, <1>3, <1>4, <1>5, <1>6, <1>7, <1>8, <1>9 DEF LifeNext, Watcher, Execute

LEMMA ForcedStep == LifeTyped /\ NavigationOwed /\ [LifeNext]_lifeVars => NavigationOwed'
<1> SUFFICES ASSUME LifeTyped, NavigationOwed, [LifeNext]_lifeVars PROVE NavigationOwed'
  OBVIOUS
<1> USE DEF LifeTyped, ExecType, ExecPlaces, BeforeLaunch, NavigationOwed
<1>1. CASE Prepare
  BY <1>1 DEF Prepare, EntersFrom, Enters
<1>2. CASE ForceThreeButtonNav
  <2>1. CASE forced' = TRUE /\ exec' = [exec EXCEPT !.pc = "build", !.restores = TRUE]
    BY <2>1
  <2>2. CASE Enters("build") /\ UNCHANGED <<forced, mishaps>>
    BY <1>2, <2>2 DEF ForceThreeButtonNav, Enters
  <2>3. CASE Enters("build") /\ mishaps' = mishaps \cup {"forcedInError"}
    BY <2>3 DEF Enters
  <2> QED
    BY <1>2, <2>1, <2>2, <2>3 DEF ForceThreeButtonNav
<1>3. CASE RestoreNav
  BY <1>3 DEF RestoreNav, EntersFrom, Enters
<1>4. CASE \/ SpawnSidecar \/ Healthy \/ ExitedFirst \/ HealthFails \/ LaunchApp \/ LaunchReturns
           \/ Load \/ RunEnds \/ Terminate \/ TerminateReturns \/ StopSidecar \/ GraceExpires
           \/ Drain \/ Relaunch
  <2>1. /\ exec.pc \notin {"prepare", "returned"} /\ exec'.pc \notin {"prepare", "force", "returned"}
        /\ exec'.restores = exec.restores /\ forced' = forced /\ mishaps \subseteq mishaps'
    BY <1>4 DEF SpawnSidecar, Healthy, ExitedFirst, HealthFails, LaunchApp, LaunchReturns, Load,
       RunEnds, Terminate, TerminateReturns, StopSidecar, GraceExpires, Drain, Relaunch,
       EntersFrom, Enters, Kills
  <2> QED
    BY <2>1
<1>5. CASE \/ Boots \/ Crashes \/ AppStarts \/ LaunchRecorded \/ LaunchThrows \/ StopsApp
           \/ ClearsBundle \/ HookTakes \/ HookStops \/ HookEnds \/ Cancel \/ CommandCancelled
           \/ WaitDelayExpires \/ Watcher \/ UNCHANGED lifeVars
  <2>1. exec' = exec /\ forced' = forced /\ mishaps \subseteq mishaps'
    BY <1>5 DEF lifeVars, Watcher, Kills, Boots, Crashes, AppStarts, LaunchRecorded, LaunchThrows,
       StopsApp, ClearsBundle, HookTakes, HookStops, HookEnds, Cancel, CommandCancelled,
       WaitDelayExpires, Waits, Publishes, ClosesChannel
  <2> QED
    BY <2>1
<1> QED
  BY <1>1, <1>2, <1>3, <1>4, <1>5 DEF LifeNext, Execute

LEMMA AppStep == LifeTyped /\ ProcessReaped /\ AppOwed /\ [LifeNext]_lifeVars => AppOwed'
<1> SUFFICES ASSUME LifeTyped, ProcessReaped, AppOwed, [LifeNext]_lifeVars PROVE AppOwed'
  OBVIOUS
<1> USE DEF LifeTyped, ExecType, SidecarType, ExecPlaces, BeforeLaunch, AppOwed, Excused, Alive,
        InFlight
<1>1. CASE Boots \/ Crashes \/ HookEnds
  BY <1>1 DEF Boots, Crashes, HookEnds, Dies
<1>2. CASE CommandCancelled \/ WaitDelayExpires
  <2>1. CASE CommandCancelled
    <3>1. /\ sidecar'.process = OnSigterm(sidecar.process) /\ sidecar'.launch = sidecar.launch
          /\ sidecar'.stop = sidecar.stop /\ sidecar'.hook = sidecar.hook
          /\ sidecar'.launched = sidecar.launched /\ UNCHANGED <<exec, appRuns, mishaps>>
      BY <2>1 DEF CommandCancelled
    <3> QED
      BY <3>1 DEF OnSigterm
  <2>2. CASE WaitDelayExpires
    BY <2>2 DEF WaitDelayExpires, Kills, Dies
  <2> QED
    BY <1>2, <2>1, <2>2
<1>3. CASE AppStarts
  BY <1>3 DEF AppStarts
<1>4. CASE LaunchRecorded
  BY <1>4 DEF LaunchRecorded
<1>5. CASE LaunchThrows
  BY <1>5 DEF LaunchThrows
<1>6. CASE StopsApp
  <2>1. /\ sidecar.stop = "called" /\ sidecar'.stop \in {"stopped", "done"}
        /\ sidecar'.process = sidecar.process /\ sidecar'.launch = sidecar.launch
        /\ sidecar'.hook = sidecar.hook /\ sidecar'.launched = sidecar.launched
        /\ appRuns' => appRuns
        /\ sidecar'.stop = "stopped" => (appRuns' = (appRuns /\ ~sidecar.launched))
        /\ mishaps' = mishaps /\ exec' = exec
    BY <1>6 DEF StopsApp
  <2> QED
    BY <2>1
<1>7. CASE ClearsBundle
  BY <1>7 DEF ClearsBundle
<1>8. CASE HookTakes
  BY <1>8 DEF HookTakes
<1>9. CASE HookStops
  BY <1>9 DEF HookStops
<1>10. CASE SpawnSidecar
  <2>1. /\ exec.pc = "build" /\ exec'.pc \in {"health", "restore"}
        /\ appRuns' = appRuns /\ mishaps' = mishaps
        /\ sidecar'.launch = sidecar.launch /\ sidecar'.stop = sidecar.stop
        /\ sidecar'.hook = sidecar.hook /\ sidecar'.launched = sidecar.launched
        /\ sidecar'.process \in {"booting", "none"} /\ sidecar.process = "none"
    BY <1>10 DEF SpawnSidecar, Enters, ProcessReaped
  <2> QED
    BY <2>1
<1>11. CASE LaunchApp
  BY <1>11 DEF LaunchApp, Calls, Enters
<1>12. CASE Relaunch
  BY <1>12 DEF Relaunch, Calls
<1>13. CASE Terminate
  BY <1>13 DEF Terminate, Calls, Enters
<1>14. CASE StopSidecar
  BY <1>14 DEF StopSidecar, Enters, OnSigterm
<1>15. CASE GraceExpires
  BY <1>15 DEF GraceExpires, EntersFrom, Enters, Kills, Dies
<1>16. CASE \/ Prepare \/ ForceThreeButtonNav \/ Healthy \/ ExitedFirst \/ HealthFails
            \/ LaunchReturns \/ Load \/ RunEnds \/ TerminateReturns \/ Drain \/ RestoreNav
  <2>1. /\ UNCHANGED <<sidecar, appRuns>> /\ mishaps \subseteq mishaps'
        /\ exec.pc \notin BeforeLaunch => exec'.pc \notin BeforeLaunch
        /\ exec.pc \in {"terminating", "grace", "stop", "drain", "restore", "returned"} =>
             exec'.pc \in {"stop", "drain", "restore", "returned"}
    BY <1>16 DEF Prepare, ForceThreeButtonNav, Healthy, ExitedFirst, HealthFails, LaunchReturns,
       Load, RunEnds, TerminateReturns, Drain, RestoreNav, EntersFrom, Enters
  <2> QED
    BY <2>1
<1>17. CASE Cancel \/ Watcher \/ UNCHANGED lifeVars
  BY <1>17 DEF Cancel, Watcher, Waits, Publishes, ClosesChannel, lifeVars
<1> QED
  BY <1>1, <1>2, <1>3, <1>4, <1>5, <1>6, <1>7, <1>8, <1>9, <1>10, <1>11, <1>12, <1>13, <1>14,
     <1>15, <1>16, <1>17 DEF LifeNext, Execute

THEOREM SidecarInvariant == LifeSpec => []SidecarInv
<1>1. SidecarInv /\ [LifeNext]_lifeVars => SidecarInv'
  BY LifeTypedStep, ReapedStep, ForcedStep, AppStep DEF SidecarInv
<1> QED
  BY <1>1, SidecarInit, PTL DEF LifeSpec

\* Whenever Execute returns, its sidecar is dead and reaped, a running app has one of the
\* named excuses, and a device still in 3-button navigation has one too
\* (testrun.go:131-270, driver.go:162-308, DriverService.kt:35-55, 254-264).
THEOREM PutAway == LifeSpec => []NothingLeftBehind
<1>1. SidecarInv => NothingLeftBehind
  BY DEF SidecarInv, ProcessReaped, NavigationOwed, AppOwed, Alive, Excused, NothingLeftBehind
<1> QED
  BY <1>1, SidecarInvariant, PTL

(***************************************************************************)
(* SimulatorLife.                                                          *)
(***************************************************************************)

\* The places at which a run holds the lock on the target.
Holding == {"clear", "companion", "listen", "session", "dial", "serving", "stopSession",
            "close", "closeSession", "unlock"}

RunnerType == [run : Runs, session : Nat, port : Ports]
RunType ==
  [ pc : Holding \cup {"new"} \cup Over, child : Nat, runnerChild : Nat,
    runnerClient : RunnerType \cup {NoRunner}, port : Ports \cup {Nobody},
    slow : SUBSET RunnerType, spawns : Nat, restarting : BOOLEAN ]

ChildType == [what : {"companion", "session"}, run : Runs, number : Nat \ {0}]

LifeType ==
  /\ runs \in [Runs -> RunType]
  /\ deviceLock \in {Nobody} \cup Runs
  /\ children \subseteq ChildType

\* What a run's record says of itself: where it would stop no companion, and no
\* session; and the number the next session gets.
Orderly(r) ==
  /\ r.pc \in {"new", "clear", "companion", "stopSession", "closeSession", "unlock", "closed",
               "refused"} => r.child = Nobody
  /\ r.pc \in {"new", "clear", "companion", "listen", "session", "unlock", "closed", "refused"}
       => r.runnerChild = Nobody
  /\ r.pc \in {"listen", "session", "dial"} => r.child = r.spawns /\ r.spawns # 0

\* The child of that kind that the run would stop.
WouldStop(r, what) == IF what = "companion" THEN r.child ELSE r.runnerChild

\* OneRunDrives speaks of children that live.  The steps there need what holds on the
\* way: who has the lock at every place, and that a child is started only where none of
\* its kind lives.
LifeInv ==
  /\ LifeType
  /\ \A run \in Runs : runs[run].pc \in Holding => deviceLock = run
  /\ \A run \in Runs : Orderly(runs[run])
  /\ \A child \in children :
       runs[child.run].pc = "killed" \/
         /\ runs[child.run].pc \in Holding
         /\ child.number = WouldStop(runs[child.run], child.what)

\* And it speaks of a run that serves.  While a run dials, a runner on its port, whether it
\* answers or is still to come up, is its session's, or was to come up there before it: no
\* other run is given a port meanwhile, and none that answered had this one.
Mine(run, r) == {RunnerOf(run, r.runnerChild, r.port)} \cup r.slow
Met(run, r, runners) ==
  /\ r.pc = "dial" => \A runner \in runners : runner.port = r.port => runner \in Mine(run, r)
  /\ r.pc = "serving" /\ r.runnerChild # Nobody => r.runnerClient \in Mine(run, r)
RunnersInv ==
  /\ coming \subseteq RunnerType /\ answering \subseteq RunnerType
  /\ \A run \in Runs : Met(run, runs[run], coming \cup answering)

\* The invariant is strong enough: a living child's run holds the lock, a run that serves is
\* connected to its session's runner or to one slower than that (driver.go:192-218,
\* 414-431, 1220-1240).
LEMMA InvImplies == LifeInv /\ RunnersInv => OneRunDrives
<1> SUFFICES ASSUME LifeInv, RunnersInv PROVE OneRunDrives
  OBVIOUS
<1>1. ASSUME NEW child \in children
      PROVE  /\ child.run \in Runs /\ child.what \in {"companion", "session"}
             /\ \/ Stands(child.run, "killed")
                \/ /\ deviceLock = child.run
                   /\ child.number = IF child.what = "companion" THEN runs[child.run].child
                                     ELSE runs[child.run].runnerChild
  BY DEF LifeInv, LifeType, ChildType, WouldStop, Stands
<1>2. ASSUME NEW run \in Runs, Stands(run, "serving"), runs[run].runnerChild # Nobody
      PROVE  runs[run].runnerClient \in
               {RunnerOf(run, runs[run].runnerChild, runs[run].port)} \cup runs[run].slow
  BY <1>2 DEF RunnersInv, Met, Mine, Stands
<1> QED
  BY <1>1, <1>2 DEF OneRunDrives

\* A step of one run that keeps the lock, among children that are its own or not.
LEMMA OwnStep ==
  ASSUME LifeInv, NEW run \in Runs, NEW changed \in RunType,
         runs[run].pc \in Holding, changed.pc \in Holding,
         Becomes(run, changed), UNCHANGED deviceLock,
         Orderly(changed),
         children' \subseteq ChildType,
         \A child \in children' :
           IF child.run = run THEN child.number = WouldStop(changed, child.what)
           ELSE child \in children
  PROVE  LifeInv'
<1>1. /\ runs' \in [Runs -> RunType]
      /\ runs'[run] = changed
      /\ \A other \in Runs : other # run => runs'[other] = runs[other]
  BY DEF LifeInv, LifeType, Becomes
<1>2. LifeType'
  BY <1>1 DEF LifeInv, LifeType
<1>3. \A any \in Runs : runs'[any].pc \in Holding => deviceLock' = any
  BY <1>1 DEF LifeInv
<1>4. \A any \in Runs : Orderly(runs[any])'
  BY <1>1 DEF LifeInv, Orderly
<1>5. ASSUME NEW child \in children'
      PROVE  runs'[child.run].pc = "killed" \/
               /\ runs'[child.run].pc \in Holding
               /\ child.number = WouldStop(runs'[child.run], child.what)
  <2>1. child.run \in Runs
    BY DEF ChildType
  <2>2. CASE child.run = run
    BY <1>1, <2>2
  <2>3. CASE child.run # run
    BY <1>1, <2>1, <2>3 DEF LifeInv
  <2> QED
    BY <2>2, <2>3
<1> QED
  BY <1>2, <1>3, <1>4, <1>5 DEF LifeInv, WouldStop

\* A step of one run that starts no child and stops none but those in gone.
LEMMA QuietStep ==
  ASSUME LifeInv, NEW run \in Runs, NEW changed \in RunType,
         runs[run].pc \in Holding, changed.pc \in Holding,
         Becomes(run, changed), UNCHANGED deviceLock,
         Orderly(changed),
         children' \subseteq children,
         \A child \in children' :
           child.run = run => WouldStop(changed, child.what) = WouldStop(runs[run], child.what)
  PROVE  LifeInv'
<1>1. children' \subseteq ChildType
  BY DEF LifeInv, LifeType
<1>2. ASSUME NEW child \in children', child.run = run
      PROVE  child.number = WouldStop(changed, child.what)
  <2>1. child.number = WouldStop(runs[run], child.what)
    BY <1>2 DEF LifeInv, Holding
  <2> QED
    BY <1>2, <2>1
<1> QED
  BY <1>1, <1>2, OwnStep

\* New, up to the companion: the lock is taken from nobody.
LEMMA LockStep ==
  ASSUME LifeInv, NEW run \in Runs, AcquireDeviceLock(run)
  PROVE  LifeInv'
<1>r. runs \in [Runs -> RunType] /\ runs[run].pc = "new" /\ "new" \notin Holding
  BY DEF LifeInv, LifeType, AcquireDeviceLock, Stands, Holding
<1>1. PICK pc \in {"clear", "refused"} :
        /\ runs' = [runs EXCEPT ![run] = [runs[run] EXCEPT !.pc = pc]]
        /\ pc = "clear" => deviceLock = Nobody /\ deviceLock' = run
        /\ pc = "refused" => UNCHANGED deviceLock
        /\ UNCHANGED children
  BY DEF AcquireDeviceLock, MovesTo, Becomes
<1>2. pc \in Holding \cup Over /\ (pc \in Holding => pc = "clear") /\ pc # "dial"
  BY DEF Holding, Over
<1>3. /\ runs' \in [Runs -> RunType]
      /\ runs'[run].pc = pc /\ runs'[run].child = runs[run].child
      /\ runs'[run].runnerChild = runs[run].runnerChild
      /\ \A other \in Runs : other # run => runs'[other] = runs[other]
  BY <1>r, <1>1, <1>2 DEF RunType
<1>4. LifeType'
  BY <1>1, <1>2, <1>3 DEF LifeInv, LifeType, Holding
<1>5. \A any \in Runs : runs'[any].pc \in Holding => deviceLock' = any
  BY <1>1, <1>2, <1>3 DEF LifeInv, Runs, Nobody
<1>6. \A any \in Runs : Orderly(runs[any])'
  BY <1>r, <1>1, <1>2, <1>3 DEF LifeInv, Orderly
<1>7. ASSUME NEW child \in children' PROVE child.run \in Runs /\ child.run # run
  BY <1>r, <1>1, <1>7 DEF LifeInv, LifeType, ChildType
<1> QED
  BY <1>1, <1>3, <1>4, <1>5, <1>6, <1>7 DEF LifeInv, WouldStop

\* The steps that stop no child and start none.
LEMMA MovingStep ==
  ASSUME LifeInv, NEW run \in Runs, NEW changed \in RunType,
         runs[run].pc \in Holding, changed.pc \in Holding,
         Becomes(run, changed), UNCHANGED <<deviceLock, children>>,
         changed.child = runs[run].child, changed.runnerChild = runs[run].runnerChild,
         Orderly(changed)
  PROVE  LifeInv'
BY QuietStep DEF WouldStop

LEMMA ClearStep ==
  ASSUME LifeInv, NEW run \in Runs, ClearAppState(run)
  PROVE  LifeInv'
<1>r. runs[run] \in RunType /\ runs[run].pc = "clear" /\ Orderly(runs[run])
  BY DEF LifeInv, LifeType, ClearAppState, Stands
<1>1. PICK pc \in {"companion", "close"} : Becomes(run, [runs[run] EXCEPT !.pc = pc])
  BY DEF ClearAppState, MovesTo
<1> DEFINE changed == [runs[run] EXCEPT !.pc = pc]
<1>2. changed \in RunType /\ changed.pc \in Holding /\ runs[run].pc \in Holding
  BY <1>r DEF RunType, Holding
<1>3. Orderly(changed)
  BY <1>r DEF Orderly, RunType
<1>4. changed.child = runs[run].child /\ changed.runnerChild = runs[run].runnerChild
  BY <1>r DEF RunType
<1>5. UNCHANGED <<deviceLock, children>>
  BY DEF ClearAppState
<1> QED
  BY <1>1, <1>2, <1>3, <1>4, <1>5, MovingStep

LEMMA SpawnFailsStep ==
  ASSUME LifeInv, NEW run \in Runs, NEW pc \in {"companion", "session"}, SpawnFails(run, pc)
  PROVE  LifeInv'
<1>r. runs[run] \in RunType /\ runs[run].pc = pc /\ Orderly(runs[run])
  BY DEF LifeInv, LifeType, SpawnFails, Stands
<1> DEFINE changed == [runs[run] EXCEPT !.pc = AfterError(run), !.restarting = FALSE]
<1>1. Becomes(run, changed) /\ UNCHANGED <<deviceLock, children>>
  BY DEF SpawnFails
<1>2. AfterError(run) \in {"serving", "close"}
  BY DEF AfterError
<1>3. changed \in RunType /\ changed.pc \in Holding /\ runs[run].pc \in Holding
  BY <1>r, <1>2 DEF RunType, Holding
<1>4. /\ changed.pc = AfterError(run) /\ changed.child = runs[run].child
      /\ changed.runnerChild = runs[run].runnerChild
  BY <1>r DEF RunType
<1>5. Orderly(changed)
  BY <1>r, <1>2, <1>4 DEF Orderly
<1> QED
  BY <1>1, <1>3, <1>4, <1>5, MovingStep

\* No companion of the run lives when it starts one.
LEMMA SpawnChildStep ==
  ASSUME LifeInv, NEW run \in Runs, SpawnChild(run)
  PROVE  LifeInv'
<1>r. /\ runs[run] \in RunType /\ runs[run].pc = "companion" /\ Orderly(runs[run])
      /\ runs[run].child = Nobody /\ runs[run].runnerChild = Nobody
  BY DEF LifeInv, LifeType, SpawnChild, Stands, Orderly
<1> DEFINE number == runs[run].spawns + 1
           changed == [runs[run] EXCEPT !.pc = "listen", !.child = number, !.spawns = number]
<1>1. /\ Becomes(run, changed) /\ UNCHANGED deviceLock
      /\ children' = children \cup {Companion(run, number)}
  BY DEF SpawnChild
<1>2. number \in Nat \ {0}
  BY <1>r DEF RunType
<1>3. changed \in RunType /\ changed.pc \in Holding /\ runs[run].pc \in Holding
  BY <1>r, <1>2 DEF RunType, Holding
<1>4. /\ changed.pc = "listen" /\ changed.child = number /\ changed.spawns = number
      /\ changed.runnerChild = Nobody
  BY <1>r DEF RunType
<1>5. Orderly(changed)
  BY <1>2, <1>4 DEF Orderly
<1>6. children' \subseteq ChildType
  BY <1>1, <1>2 DEF LifeInv, LifeType, ChildType, Companion
<1>7. ASSUME NEW child \in children', child.run = run
      PROVE  child.number = WouldStop(changed, child.what)
  <2>1. child \notin children
    BY <1>r, <1>7 DEF LifeInv, LifeType, ChildType, WouldStop, Holding, Nobody
  <2>2. child = Companion(run, number)
    BY <1>1, <2>1
  <2> QED
    BY <2>2, <1>4 DEF Companion, WouldStop
<1>8. \A child \in children' : child.run # run => child \in children
  BY <1>1 DEF Companion
<1> HIDE DEF changed
<1> QED
  BY <1>1, <1>3, <1>5, <1>6, <1>7, <1>8, OwnStep

LEMMA CompanionUpStep ==
  ASSUME LifeInv, NEW run \in Runs, CompanionUp(run)
  PROVE  LifeInv'
<1>r. runs[run] \in RunType /\ runs[run].pc = "listen" /\ Orderly(runs[run])
  BY DEF LifeInv, LifeType, CompanionUp, Stands
<1> DEFINE changed == [runs[run] EXCEPT !.pc = "session"]
<1>1. Becomes(run, changed) /\ UNCHANGED <<deviceLock, children>>
  BY DEF CompanionUp, MovesTo
<1>2. changed \in RunType /\ changed.pc \in Holding /\ runs[run].pc \in Holding
  BY <1>r DEF RunType, Holding
<1>3. /\ changed.pc = "session" /\ changed.child = runs[run].child
      /\ changed.spawns = runs[run].spawns
      /\ changed.runnerChild = runs[run].runnerChild
  BY <1>r DEF RunType
<1>4. Orderly(changed)
  BY <1>r, <1>3 DEF Orderly
<1> HIDE DEF changed
<1> QED
  BY <1>1, <1>2, <1>3, <1>4, MovingStep

\* The steps that stop the run's child of one kind, if it lives.
LEMMA StoppingStep ==
  ASSUME LifeInv, NEW run \in Runs, NEW changed \in RunType,
         NEW what \in {"companion", "session"},
         runs[run].pc \in Holding, changed.pc \in Holding,
         Becomes(run, changed), UNCHANGED deviceLock,
         children' = children \
           {[what |-> what, run |-> run, number |-> WouldStop(runs[run], what)]},
         what = "companion" => changed.runnerChild = runs[run].runnerChild,
         what = "session" => changed.child = runs[run].child,
         Orderly(changed)
  PROVE  LifeInv'
<1>1. ASSUME NEW child \in children', child.run = run
      PROVE  WouldStop(changed, child.what) = WouldStop(runs[run], child.what)
  <2>1. child \in ChildType /\ child.number = WouldStop(runs[run], child.what)
    BY <1>1 DEF LifeInv, LifeType, Holding
  <2>2. child = [what |-> child.what, run |-> run, number |-> WouldStop(runs[run], child.what)]
    BY <1>1, <2>1 DEF ChildType
  <2>3. child.what # what
    BY <1>1, <2>2
  <2> QED
    BY <2>1, <2>3 DEF ChildType, WouldStop
<1> QED
  BY <1>1, QuietStep

LEMMA CompanionDownStep ==
  ASSUME LifeInv, NEW run \in Runs, CompanionDown(run)
  PROVE  LifeInv'
<1>r. /\ runs[run] \in RunType /\ runs[run].pc = "listen" /\ Orderly(runs[run])
      /\ runs[run].runnerChild = Nobody
  BY DEF LifeInv, LifeType, CompanionDown, Stands, Orderly
<1> DEFINE changed == [runs[run] EXCEPT !.pc = AfterError(run), !.restarting = FALSE,
                                        !.child = Nobody]
<1>1. Becomes(run, changed)
  BY DEF CompanionDown
<1>2. AfterError(run) \in {"serving", "close"}
  BY DEF AfterError
<1>3. changed \in RunType /\ changed.pc \in Holding /\ runs[run].pc \in Holding
  BY <1>r, <1>2 DEF RunType, Holding, Nobody
<1>4. changed.pc = AfterError(run) /\ changed.child = Nobody /\ changed.runnerChild = Nobody
  BY <1>r DEF RunType
<1>5. Orderly(changed)
  BY <1>2, <1>4 DEF Orderly
<1>6. /\ UNCHANGED deviceLock
      /\ children' = children \
           {[what |-> "companion", run |-> run, number |-> WouldStop(runs[run], "companion")]}
  BY DEF CompanionDown, Companion, WouldStop
<1> HIDE DEF changed
<1> QED
  BY <1>r, <1>1, <1>3, <1>4, <1>5, <1>6, StoppingStep

\* No session of the run lives.
LEMMA SpawnRunnerStep ==
  ASSUME LifeInv, coming \subseteq RunnerType, NEW run \in Runs, SpawnRunner(run)
  PROVE  LifeInv'
<1>r. /\ runs[run] \in RunType /\ runs[run].pc = "session" /\ Orderly(runs[run])
      /\ runs[run].runnerChild = Nobody /\ runs[run].spawns \in Nat \ {0}
  BY DEF LifeInv, LifeType, SpawnRunner, Stands, Orderly, RunType
<1>1. PICK port \in FreePorts :
        Becomes(run, [runs[run] EXCEPT !.pc = "dial", !.port = port,
                                       !.runnerChild = runs[run].spawns,
                                       !.slow = {runner \in coming : runner.port = port}])
  BY DEF SpawnRunner
<1> DEFINE slow == {runner \in coming : runner.port = port}
           changed == [runs[run] EXCEPT !.pc = "dial", !.port = port,
                                        !.runnerChild = runs[run].spawns, !.slow = slow]
<1>b. Becomes(run, changed)
  BY <1>1
<1>s. slow \in SUBSET RunnerType
  OBVIOUS
<1> HIDE DEF slow
<1>2. changed \in RunType /\ changed.pc \in Holding /\ runs[run].pc \in Holding
  BY <1>r, <1>s DEF RunType, Holding, FreePorts
<1>3. /\ changed.pc = "dial" /\ changed.child = runs[run].child /\ changed.port = port
      /\ changed.spawns = runs[run].spawns
      /\ changed.runnerChild = runs[run].spawns
  BY <1>r DEF RunType
<1>4. Orderly(changed)
  BY <1>r, <1>3 DEF Orderly
<1>6. /\ UNCHANGED deviceLock
      /\ children' = children \cup {Session(run, runs[run].spawns)}
  BY DEF SpawnRunner
<1>7. children' \subseteq ChildType
  BY <1>r, <1>6 DEF LifeInv, LifeType, ChildType, Session
<1>8. ASSUME NEW child \in children', child.run = run
      PROVE  child.number = WouldStop(changed, child.what)
  <2>1. CASE child \in children
    <3>1. child \in ChildType /\ child.number = WouldStop(runs[run], child.what)
      BY <1>r, <1>8, <2>1 DEF LifeInv, LifeType, Holding
    <3>2. child.what = "companion"
      BY <1>r, <3>1 DEF ChildType, WouldStop, Nobody
    <3> QED
      BY <1>3, <3>1, <3>2 DEF WouldStop
  <2>2. CASE child = Session(run, runs[run].spawns)
    BY <1>3, <2>2 DEF Session, WouldStop
  <2> QED
    BY <1>6, <2>1, <2>2
<1>9. \A child \in children' : child.run # run => child \in children
  BY <1>6 DEF Session
<1> HIDE DEF changed
<1> QED
  BY <1>b, <1>2, <1>4, <1>6, <1>7, <1>8, <1>9, OwnStep

LEMMA RunnerUpStep ==
  ASSUME LifeInv, answering \subseteq RunnerType, NEW run \in Runs, RunnerUp(run)
  PROVE  LifeInv'
<1>r. runs[run] \in RunType /\ runs[run].pc = "dial" /\ Orderly(runs[run])
  BY DEF LifeInv, LifeType, RunnerUp, Stands
<1>1. PICK runner \in answering :
        Becomes(run, [runs[run] EXCEPT !.pc = "serving", !.runnerClient = runner,
                                       !.restarting = FALSE])
  BY DEF RunnerUp
<1> DEFINE changed == [runs[run] EXCEPT !.pc = "serving", !.runnerClient = runner,
                                        !.restarting = FALSE]
<1>2. runner \in RunnerType
  BY <1>1
<1>3. changed \in RunType /\ changed.pc \in Holding /\ runs[run].pc \in Holding
  BY <1>r, <1>2 DEF RunType, Holding
<1>4. /\ changed.pc = "serving" /\ changed.child = runs[run].child
      /\ changed.runnerChild = runs[run].runnerChild
  BY <1>r DEF RunType
<1>5. Orderly(changed)
  BY <1>r, <1>4 DEF Orderly
<1>6. UNCHANGED <<deviceLock, children>>
  BY DEF RunnerUp
<1> HIDE DEF changed
<1> QED
  BY <1>1, <1>3, <1>4, <1>5, <1>6, MovingStep DEF changed

LEMMA RunnerDownStep ==
  ASSUME LifeInv, NEW run \in Runs, RunnerDown(run)
  PROVE  LifeInv'
<1>r. runs[run] \in RunType /\ runs[run].pc = "dial" /\ Orderly(runs[run])
  BY DEF LifeInv, LifeType, RunnerDown, Stands
<1> DEFINE changed == [runs[run] EXCEPT !.pc = AfterError(run), !.restarting = FALSE,
                                        !.runnerChild = Nobody]
<1>1. /\ Becomes(run, changed) /\ UNCHANGED deviceLock
      /\ children' = children \
           {[what |-> "session", run |-> run, number |-> WouldStop(runs[run], "session")]}
  BY DEF RunnerDown, Session, WouldStop
<1>2. AfterError(run) \in {"serving", "close"}
  BY DEF AfterError
<1>3. changed \in RunType /\ changed.pc \in Holding /\ runs[run].pc \in Holding
  BY <1>r, <1>2 DEF RunType, Holding, Nobody
<1>4. /\ changed.pc = AfterError(run) /\ changed.child = runs[run].child
      /\ changed.runnerChild = Nobody
  BY <1>r DEF RunType
<1>5. Orderly(changed)
  BY <1>r, <1>2, <1>4 DEF Orderly
<1> HIDE DEF changed
<1> QED
  BY <1>1, <1>3, <1>4, <1>5, StoppingStep

\* The two halves of a restart, and of Close.
LEMMA StopChildStep ==
  ASSUME LifeInv, NEW run \in Runs, RestartStopsChild(run) \/ CloseStopsChild(run)
  PROVE  LifeInv'
<1>r. runs[run] \in RunType /\ runs[run].pc \in {"serving", "close"}
  BY DEF LifeInv, LifeType, RestartStopsChild, CloseStopsChild, Stands
<1>1. PICK changed \in RunType :
        /\ Becomes(run, changed) /\ changed.pc \in {"stopSession", "closeSession"}
        /\ changed.child = Nobody /\ changed.runnerChild = runs[run].runnerChild
  <2>1. CASE RestartStopsChild(run)
    <3> DEFINE changed == [runs[run] EXCEPT !.pc = "stopSession", !.child = Nobody,
                                            !.restarting = TRUE]
    <3>1. changed \in RunType /\ changed.pc = "stopSession"
      BY <1>r DEF RunType, Holding, Nobody
    <3>2. changed.child = Nobody /\ changed.runnerChild = runs[run].runnerChild
      BY <1>r DEF RunType
    <3>3. Becomes(run, changed)
      BY <2>1 DEF RestartStopsChild
    <3> HIDE DEF changed
    <3> QED
      BY <3>1, <3>2, <3>3
  <2>2. CASE CloseStopsChild(run)
    <3> DEFINE changed == [runs[run] EXCEPT !.pc = "closeSession", !.child = Nobody]
    <3>1. changed \in RunType /\ changed.pc = "closeSession"
      BY <1>r DEF RunType, Holding, Nobody
    <3>2. changed.child = Nobody /\ changed.runnerChild = runs[run].runnerChild
      BY <1>r DEF RunType
    <3>3. Becomes(run, changed)
      BY <2>2 DEF CloseStopsChild
    <3> HIDE DEF changed
    <3> QED
      BY <3>1, <3>2, <3>3
  <2> QED
    BY <2>1, <2>2
<1>2. /\ UNCHANGED deviceLock
      /\ children' = children \
           {[what |-> "companion", run |-> run, number |-> WouldStop(runs[run], "companion")]}
  BY DEF RestartStopsChild, CloseStopsChild, Companion, WouldStop
<1>3. changed.pc \in Holding /\ runs[run].pc \in Holding
  BY <1>r, <1>1 DEF Holding
<1>4. Orderly(changed)
  BY <1>1 DEF Orderly
<1> QED
  BY <1>1, <1>2, <1>3, <1>4, StoppingStep

LEMMA StopSessionStep ==
  ASSUME LifeInv, NEW run \in Runs, RestartStopsSession(run) \/ CloseStopsSession(run)
  PROVE  LifeInv'
<1>r. /\ runs[run] \in RunType /\ runs[run].pc \in {"stopSession", "closeSession"}
      /\ runs[run].child = Nobody
  BY DEF LifeInv, LifeType, Orderly, RestartStopsSession, CloseStopsSession, Stands
<1>1. PICK changed \in RunType :
        /\ Becomes(run, changed) /\ changed.pc \in {"companion", "unlock"}
        /\ changed.child = Nobody /\ changed.runnerChild = Nobody
  <2>1. CASE RestartStopsSession(run)
    <3> DEFINE changed == [runs[run] EXCEPT !.pc = "companion", !.runnerChild = Nobody]
    <3>1. changed \in RunType /\ changed.pc = "companion"
      BY <1>r DEF RunType, Holding, Nobody
    <3>2. changed.child = Nobody /\ changed.runnerChild = Nobody
      BY <1>r DEF RunType
    <3>3. Becomes(run, changed)
      BY <2>1 DEF RestartStopsSession
    <3> HIDE DEF changed
    <3> QED
      BY <3>1, <3>2, <3>3
  <2>2. CASE CloseStopsSession(run)
    <3> DEFINE changed == [runs[run] EXCEPT !.pc = "unlock", !.runnerChild = Nobody,
                                            !.runnerClient = NoRunner]
    <3>1. changed \in RunType /\ changed.pc = "unlock"
      BY <1>r DEF RunType, Holding, Nobody
    <3>2. changed.child = Nobody /\ changed.runnerChild = Nobody
      BY <1>r DEF RunType
    <3>3. Becomes(run, changed)
      BY <2>2 DEF CloseStopsSession
    <3> HIDE DEF changed
    <3> QED
      BY <3>1, <3>2, <3>3
  <2> QED
    BY <2>1, <2>2
<1>2. /\ UNCHANGED deviceLock
      /\ children' = children \
           {[what |-> "session", run |-> run, number |-> WouldStop(runs[run], "session")]}
  BY DEF RestartStopsSession, CloseStopsSession, Session, WouldStop
<1>3. changed.pc \in Holding /\ runs[run].pc \in Holding
  BY <1>r, <1>1 DEF Holding
<1>4. Orderly(changed)
  BY <1>1 DEF Orderly
<1> QED
  BY <1>1, <1>2, <1>3, <1>4, <1>r, StoppingStep

LEMMA EndsRunStep ==
  ASSUME LifeInv, NEW run \in Runs, EndsRun(run)
  PROVE  LifeInv'
<1>r. runs[run] \in RunType /\ runs[run].pc = "serving"
  BY DEF LifeInv, LifeType, EndsRun, Stands
<1> DEFINE changed == [runs[run] EXCEPT !.pc = "close"]
<1>1. Becomes(run, changed) /\ UNCHANGED <<deviceLock, children>>
  BY DEF EndsRun, MovesTo
<1>2. changed \in RunType /\ changed.pc \in Holding /\ runs[run].pc \in Holding
  BY <1>r DEF RunType, Holding
<1>3. /\ changed.pc = "close" /\ changed.child = runs[run].child
      /\ changed.runnerChild = runs[run].runnerChild
  BY <1>r DEF RunType
<1>4. Orderly(changed)
  BY <1>3 DEF Orderly
<1> HIDE DEF changed
<1> QED
  BY <1>1, <1>2, <1>3, <1>4, MovingStep

\* The lock is given back by a run that has no child left.
LEMMA UnlockStep ==
  ASSUME LifeInv, NEW run \in Runs, Unlock(run)
  PROVE  LifeInv'
<1>r. /\ runs \in [Runs -> RunType] /\ runs[run].pc = "unlock" /\ deviceLock = run
      /\ runs[run].child = Nobody /\ runs[run].runnerChild = Nobody
  BY DEF LifeInv, LifeType, Orderly, Unlock, Stands, Holding
<1>1. /\ runs' = [runs EXCEPT ![run] = [runs[run] EXCEPT !.pc = "closed"]]
      /\ deviceLock' = Nobody /\ UNCHANGED children
  BY DEF Unlock, MovesTo, Becomes
<1>2. /\ runs' \in [Runs -> RunType]
      /\ runs'[run].pc = "closed" /\ runs'[run].child = Nobody
      /\ runs'[run].runnerChild = Nobody
      /\ \A other \in Runs : other # run => runs'[other] = runs[other]
  BY <1>r, <1>1 DEF RunType, Over
<1>3. LifeType'
  BY <1>1, <1>2 DEF LifeInv, LifeType
<1>4. \A any \in Runs : runs'[any].pc \in Holding => deviceLock' = any
  BY <1>r, <1>1, <1>2 DEF LifeInv, Holding
<1>5. \A any \in Runs : Orderly(runs[any])'
  BY <1>1, <1>2 DEF LifeInv, Orderly
<1>6. ASSUME NEW child \in children' PROVE child.run \in Runs /\ child.run # run
  <2>1. child \in ChildType
    BY <1>1 DEF LifeInv, LifeType
  <2>2. child.run = run => child.number = WouldStop(runs[run], child.what)
    BY <1>r, <1>1 DEF LifeInv
  <2> QED
    BY <1>r, <2>1, <2>2 DEF ChildType, WouldStop, Nobody
<1> QED
  BY <1>1, <1>2, <1>3, <1>4, <1>5, <1>6 DEF LifeInv, WouldStop

LEMMA KilledStep ==
  ASSUME LifeInv, NEW run \in Runs, RunKilled(run)
  PROVE  LifeInv'
<1>r. runs \in [Runs -> RunType]
  BY DEF LifeInv, LifeType
<1> DEFINE changed == [Fresh EXCEPT !.pc = "killed", !.spawns = runs[run].spawns]
<1>1. /\ runs' = [runs EXCEPT ![run] = changed]
      /\ deviceLock' = IF deviceLock = run THEN Nobody ELSE deviceLock
      /\ UNCHANGED children
  BY DEF RunKilled, Becomes
<1>2. changed \in RunType /\ changed.pc = "killed"
  BY <1>r DEF RunType, Fresh, Over, Nobody
<1> HIDE DEF changed
<1>3. /\ runs' \in [Runs -> RunType] /\ runs'[run].pc = "killed"
      /\ \A other \in Runs : other # run => runs'[other] = runs[other]
  BY <1>r, <1>1, <1>2
<1>4. LifeType'
  BY <1>1, <1>3 DEF LifeInv, LifeType
<1>5. \A any \in Runs : runs'[any].pc \in Holding => deviceLock' = any
  BY <1>1, <1>3 DEF LifeInv, Holding
<1>6. \A any \in Runs : Orderly(runs[any])'
  BY <1>1, <1>3 DEF LifeInv, Orderly
<1>7. \A child \in children' : child.run \in Runs
  BY <1>1 DEF LifeInv, LifeType, ChildType
<1> QED
  BY <1>1, <1>3, <1>4, <1>5, <1>6, <1>7 DEF LifeInv, WouldStop

\* The processes and the simulator.
LEMMA SimulatorsStep ==
  ASSUME LifeInv, ChildExits \/ RunnerGone \/ RunnerAnswers
  PROVE  LifeInv'
<1>1. UNCHANGED <<runs, deviceLock>> /\ children' \subseteq children
  BY DEF ChildExits, RunnerGone, RunnerAnswers
<1>2. LifeType'
  BY <1>1 DEF LifeInv, LifeType
<1>3. \A any \in Runs : Orderly(runs[any])'
  BY <1>1 DEF LifeInv, Orderly
<1> QED
  BY <1>1, <1>2, <1>3 DEF LifeInv, WouldStop

LEMMA SimulatorInvStep == LifeInv /\ RunnersInv /\ [SimulatorNext]_simulatorVars => LifeInv'
<1> SUFFICES ASSUME LifeInv, RunnersInv, [SimulatorNext]_simulatorVars PROVE LifeInv'
  OBVIOUS
<1>t. coming \subseteq RunnerType /\ answering \subseteq RunnerType
  BY DEF RunnersInv
<1>1. CASE UNCHANGED simulatorVars
  BY <1>1 DEF simulatorVars, LifeInv, LifeType, Orderly, WouldStop
<1>2. ASSUME NEW run \in Runs,
             \/ AcquireDeviceLock(run) \/ ClearAppState(run)
             \/ SpawnChild(run) \/ CompanionUp(run) \/ CompanionDown(run)
             \/ SpawnRunner(run) \/ RunnerUp(run) \/ RunnerDown(run)
      PROVE  LifeInv'
  BY <1>t, <1>2, LockStep, ClearStep, SpawnChildStep, CompanionUpStep, CompanionDownStep,
     SpawnRunnerStep, RunnerUpStep, RunnerDownStep
<1>3. ASSUME NEW run \in Runs,
             \/ RestartStopsChild(run) \/ RestartStopsSession(run) \/ EndsRun(run)
             \/ CloseStopsChild(run) \/ CloseStopsSession(run)
             \/ Unlock(run) \/ RunKilled(run)
      PROVE  LifeInv'
  BY <1>3, StopChildStep, StopSessionStep, EndsRunStep, UnlockStep, KilledStep
<1>4. ASSUME NEW run \in Runs, NEW pc \in {"companion", "session"}, SpawnFails(run, pc)
      PROVE  LifeInv'
  BY <1>4, SpawnFailsStep
<1> QED
  BY <1>1, <1>2, <1>3, <1>4, SimulatorsStep DEF SimulatorNext

\* A step of a run that comes to dial no port and to serve with no session it had not
\* served with, among the same runners.
LEMMA QuietRunners ==
  ASSUME LifeInv, RunnersInv, NEW run \in Runs, NEW changed, Becomes(run, changed),
         UNCHANGED <<coming, answering>>,
         changed.pc # "dial", changed.pc = "serving" => changed.runnerChild = Nobody
  PROVE  RunnersInv'
<1>1. /\ runs'[run] = changed
      /\ \A other \in Runs : other # run => runs'[other] = runs[other]
  BY DEF LifeInv, LifeType, Becomes
<1>2. ASSUME NEW any \in Runs
      PROVE  Met(any, runs'[any], coming \cup answering)
  <2>1. CASE any = run
    BY <1>1, <2>1 DEF Met
  <2>2. CASE any # run
    BY <1>1, <2>2 DEF RunnersInv
  <2> QED
    BY <2>1, <2>2
<1> QED
  BY <1>2 DEF RunnersInv

\* A runner that answers on the port is one that was to come up there, or the session's:
\* the port was free when the session was given it.  And no other run dials meanwhile.
LEMMA SpawnRunnerMet ==
  ASSUME LifeInv, RunnersInv, NEW run \in Runs, SpawnRunner(run)
  PROVE  RunnersInv'
<1>r. /\ runs[run] \in RunType /\ runs[run].pc = "session" /\ runs[run].spawns \in Nat
      /\ runs \in [Runs -> RunType]
  BY DEF LifeInv, LifeType, SpawnRunner, Stands, RunType
<1>1. PICK port \in FreePorts :
        /\ Becomes(run, [runs[run] EXCEPT !.pc = "dial", !.port = port,
                                       !.runnerChild = runs[run].spawns,
                                       !.slow = {runner \in coming : runner.port = port}])
        /\ coming' = coming \cup {RunnerOf(run, runs[run].spawns, port)}
        /\ answering' = answering
  BY DEF SpawnRunner
<1> DEFINE slow == {runner \in coming : runner.port = port}
           changed == [runs[run] EXCEPT !.pc = "dial", !.port = port,
                                        !.runnerChild = runs[run].spawns, !.slow = slow]
<1>2. /\ runs'[run] = changed
      /\ \A other \in Runs : other # run => runs'[other] = runs[other]
  BY <1>r, <1>1 DEF Becomes
<1>3. /\ changed.pc = "dial" /\ changed.port = port /\ changed.slow = slow
      /\ changed.runnerChild = runs[run].spawns
  BY <1>r DEF RunType
<1> HIDE DEF changed
<1>4. RunnerOf(run, runs[run].spawns, port) \in RunnerType
  BY <1>r DEF RunnerOf, RunnerType, FreePorts
<1>5. coming' \subseteq RunnerType /\ answering' \subseteq RunnerType
  BY <1>1, <1>4 DEF RunnersInv
<1>6. ASSUME NEW runner \in coming' \cup answering', runner.port = port
      PROVE  runner \in Mine(run, changed)
  <2>1. runner \notin answering
    BY <1>6 DEF FreePorts, Bound
  <2> QED
    BY <1>1, <1>3, <1>6, <2>1 DEF Mine
<1>7. Met(run, changed, coming' \cup answering')
  BY <1>3, <1>6 DEF Met
<1>8. ASSUME NEW other \in Runs, other # run
      PROVE  Met(other, runs'[other], coming' \cup answering')
  <2>1. runs[other].pc # "dial"
    BY <1>r, <1>8 DEF LifeInv, Holding
  <2> QED
    BY <1>2, <1>8, <2>1 DEF RunnersInv, Met
<1>9. \A any \in Runs : Met(any, runs'[any], coming' \cup answering')
  BY <1>2, <1>7, <1>8
<1> QED
  BY <1>5, <1>9 DEF RunnersInv

LEMMA RunnerUpMet ==
  ASSUME LifeInv, RunnersInv, NEW run \in Runs, RunnerUp(run)
  PROVE  RunnersInv'
<1>r. /\ runs[run] \in RunType /\ runs[run].pc = "dial" /\ runs \in [Runs -> RunType]
  BY DEF LifeInv, LifeType, RunnerUp, Stands
<1>1. PICK runner \in answering :
        /\ runner.port = runs[run].port
        /\ Becomes(run, [runs[run] EXCEPT !.pc = "serving", !.runnerClient = runner,
                                          !.restarting = FALSE])
  BY DEF RunnerUp
<1> DEFINE changed == [runs[run] EXCEPT !.pc = "serving", !.runnerClient = runner,
                                        !.restarting = FALSE]
<1>2. /\ runs'[run] = changed
      /\ \A other \in Runs : other # run => runs'[other] = runs[other]
  BY <1>r, <1>1 DEF Becomes
<1>3. /\ changed.pc = "serving" /\ changed.runnerClient = runner
      /\ changed.port = runs[run].port /\ changed.slow = runs[run].slow
      /\ changed.runnerChild = runs[run].runnerChild
  BY <1>r DEF RunType
<1> HIDE DEF changed
<1>4. runner \in Mine(run, changed)
  BY <1>r, <1>1, <1>3 DEF RunnersInv, Met, Mine
<1>5. Met(run, changed, coming \cup answering)
  BY <1>3, <1>4 DEF Met
<1>6. UNCHANGED <<coming, answering>>
  BY DEF RunnerUp
<1>7. \A any \in Runs : Met(any, runs'[any], coming' \cup answering')
  BY <1>2, <1>5, <1>6 DEF RunnersInv
<1> QED
  BY <1>6, <1>7 DEF RunnersInv

\* What comes up, goes or comes back was among the runners before.
LEMMA SimulatorsMet ==
  ASSUME RunnersInv, ChildExits \/ RunnerGone \/ RunnerAnswers \/ UNCHANGED simulatorVars
  PROVE  RunnersInv'
<1>1. /\ runs' = runs
      /\ coming' \subseteq coming \cup answering /\ answering' \subseteq coming \cup answering
  <2>1. CASE ChildExits \/ UNCHANGED simulatorVars
    BY <2>1 DEF ChildExits, simulatorVars
  <2>2. CASE RunnerGone
    BY <2>2 DEF RunnerGone
  <2>3. CASE RunnerAnswers
    BY <2>3 DEF RunnerAnswers
  <2> QED
    BY <2>1, <2>2, <2>3
<1> QED
  BY <1>1 DEF RunnersInv, Met

LEMMA RunnersStep == LifeInv /\ RunnersInv /\ [SimulatorNext]_simulatorVars => RunnersInv'
<1> SUFFICES ASSUME LifeInv, RunnersInv, [SimulatorNext]_simulatorVars PROVE RunnersInv'
  OBVIOUS
<1>t. \A run \in Runs : runs[run] \in RunType /\ Orderly(runs[run])
  BY DEF LifeInv, LifeType
<1>1. ASSUME NEW run \in Runs,
             \/ AcquireDeviceLock(run) \/ ClearAppState(run) \/ CompanionUp(run)
             \/ EndsRun(run) \/ Unlock(run)
      PROVE  RunnersInv'
  <2>1. PICK pc \in {"clear", "refused", "companion", "close", "session", "closed"} :
          Becomes(run, [runs[run] EXCEPT !.pc = pc])
    BY <1>1 DEF AcquireDeviceLock, ClearAppState, CompanionUp, EndsRun, Unlock, MovesTo
  <2>2. [runs[run] EXCEPT !.pc = pc].pc = pc
    BY <1>t DEF RunType
  <2>3. UNCHANGED <<coming, answering>>
    BY <1>1 DEF AcquireDeviceLock, ClearAppState, CompanionUp, EndsRun, Unlock
  <2> QED
    BY <2>1, <2>2, <2>3, QuietRunners
<1>2. ASSUME NEW run \in Runs, SpawnChild(run)
      PROVE  RunnersInv'
  <2> DEFINE number == runs[run].spawns + 1
             changed == [runs[run] EXCEPT !.pc = "listen", !.child = number, !.spawns = number]
  <2>1. Becomes(run, changed) /\ UNCHANGED <<coming, answering>>
    BY <1>2 DEF SpawnChild
  <2>2. changed.pc = "listen"
    BY <1>t DEF RunType
  <2> HIDE DEF changed
  <2> QED
    BY <2>1, <2>2, QuietRunners
<1>3. ASSUME NEW run \in Runs, CompanionDown(run)
      PROVE  RunnersInv'
  <2> DEFINE changed == [runs[run] EXCEPT !.pc = AfterError(run), !.restarting = FALSE,
                                          !.child = Nobody]
  <2>1. /\ Becomes(run, changed) /\ UNCHANGED <<coming, answering>>
        /\ runs[run].runnerChild = Nobody
    BY <1>t, <1>3 DEF CompanionDown, Stands, Orderly
  <2>2. changed.pc # "dial" /\ changed.runnerChild = Nobody
    BY <1>t, <2>1 DEF RunType, AfterError
  <2> HIDE DEF changed
  <2> QED
    BY <2>1, <2>2, QuietRunners
<1>4. ASSUME NEW run \in Runs, RunnerDown(run)
      PROVE  RunnersInv'
  <2> DEFINE changed == [runs[run] EXCEPT !.pc = AfterError(run), !.restarting = FALSE,
                                          !.runnerChild = Nobody]
  <2>1. Becomes(run, changed) /\ UNCHANGED <<coming, answering>>
    BY <1>4 DEF RunnerDown
  <2>2. changed.pc # "dial" /\ changed.runnerChild = Nobody
    BY <1>t DEF RunType, AfterError
  <2> HIDE DEF changed
  <2> QED
    BY <2>1, <2>2, QuietRunners
<1>5. ASSUME NEW run \in Runs, NEW pc \in {"companion", "session"}, SpawnFails(run, pc)
      PROVE  RunnersInv'
  <2> DEFINE changed == [runs[run] EXCEPT !.pc = AfterError(run), !.restarting = FALSE]
  <2>1. /\ Becomes(run, changed) /\ UNCHANGED <<coming, answering>>
        /\ runs[run].runnerChild = Nobody
    BY <1>t, <1>5 DEF SpawnFails, Stands, Orderly
  <2>2. changed.pc # "dial" /\ changed.runnerChild = Nobody
    BY <1>t, <2>1 DEF RunType, AfterError
  <2> HIDE DEF changed
  <2> QED
    BY <2>1, <2>2, QuietRunners
<1>6. ASSUME NEW run \in Runs, RestartStopsChild(run) \/ CloseStopsChild(run)
      PROVE  RunnersInv'
  <2>1. PICK changed : /\ Becomes(run, changed)
                       /\ changed.pc \in {"stopSession", "closeSession"}
    <3>1. /\ [runs[run] EXCEPT !.pc = "stopSession", !.child = Nobody, !.restarting = TRUE].pc
                = "stopSession"
          /\ [runs[run] EXCEPT !.pc = "closeSession", !.child = Nobody].pc = "closeSession"
      BY <1>t DEF RunType
    <3> QED
      BY <1>6, <3>1 DEF RestartStopsChild, CloseStopsChild
  <2>2. UNCHANGED <<coming, answering>>
    BY <1>6 DEF RestartStopsChild, CloseStopsChild
  <2> QED
    BY <2>1, <2>2, QuietRunners
<1>7. ASSUME NEW run \in Runs, RestartStopsSession(run) \/ CloseStopsSession(run)
      PROVE  RunnersInv'
  <2>1. PICK changed : Becomes(run, changed) /\ changed.pc \in {"companion", "unlock"}
    <3>1. /\ [runs[run] EXCEPT !.pc = "companion", !.runnerChild = Nobody].pc = "companion"
          /\ [runs[run] EXCEPT !.pc = "unlock", !.runnerChild = Nobody,
                               !.runnerClient = NoRunner].pc = "unlock"
      BY <1>t DEF RunType
    <3> QED
      BY <1>7, <3>1 DEF RestartStopsSession, CloseStopsSession
  <2>2. UNCHANGED <<coming, answering>>
    BY <1>7 DEF RestartStopsSession, CloseStopsSession
  <2> QED
    BY <2>1, <2>2, QuietRunners
<1>8. ASSUME NEW run \in Runs, RunKilled(run)
      PROVE  RunnersInv'
  <2> DEFINE changed == [Fresh EXCEPT !.pc = "killed", !.spawns = runs[run].spawns]
  <2>1. Becomes(run, changed) /\ UNCHANGED <<coming, answering>>
    BY <1>8 DEF RunKilled
  <2>2. changed.pc = "killed"
    BY DEF Fresh
  <2> HIDE DEF changed
  <2> QED
    BY <2>1, <2>2, QuietRunners
<1> QED
  BY <1>1, <1>2, <1>3, <1>4, <1>5, <1>6, <1>7, <1>8, SpawnRunnerMet, RunnerUpMet, SimulatorsMet
  DEF SimulatorNext

\* Together the two keep each other: who holds the lock and would stop which child, and who
\* may answer on the port that a run dials.
LEMMA LifeInductive == SimulatorSpec => [](LifeInv /\ RunnersInv)
<1>1. SimulatorInit => LifeInv
  BY DEF SimulatorInit, Fresh, LifeInv, LifeType, RunType, Holding, Orderly, Nobody
<1>2. SimulatorInit => RunnersInv
  BY DEF SimulatorInit, Fresh, RunnersInv, Met
<1> QED
  BY <1>1, <1>2, SimulatorInvStep, RunnersStep, PTL DEF SimulatorSpec

\* A run spawns no more than it may, and numbers its children by what it has spawned.
SpawnsCounted ==
  /\ \A run \in Runs : runs[run].spawns <= MaxSpawns
  /\ \A child \in children : child.number <= runs[child.run].spawns

LEMMA SpawnsKept ==
  ASSUME LifeInv, SpawnsCounted, NEW run \in Runs, NEW changed, Becomes(run, changed),
         changed.spawns \in Nat, runs[run].spawns <= changed.spawns,
         changed.spawns <= MaxSpawns,
         \A child \in children' :
           child \in children \/ (child.run = run /\ child.number <= changed.spawns)
  PROVE  SpawnsCounted'
<1>1. /\ runs'[run] = changed
      /\ \A other \in Runs : other # run => runs'[other] = runs[other]
      /\ \A any \in Runs : runs[any].spawns \in Nat
  BY DEF LifeInv, LifeType, RunType, Becomes
<1>2. \A any \in Runs : runs'[any].spawns <= MaxSpawns
  BY <1>1 DEF SpawnsCounted
<1>3. ASSUME NEW child \in children'
      PROVE  child.number <= runs'[child.run].spawns
  <2>1. CASE child.run = run /\ child.number <= changed.spawns
    BY <1>1, <2>1
  <2>2. CASE child \in children
    <3>1. child.run \in Runs /\ child.number \in Nat /\ child.number <= runs[child.run].spawns
      BY <2>2 DEF LifeInv, LifeType, ChildType, SpawnsCounted
    <3>2. CASE child.run = run
      BY <1>1, <3>1, <3>2
    <3>3. CASE child.run # run
      BY <1>1, <3>1, <3>3
    <3> QED
      BY <3>2, <3>3
  <2> QED
    BY <2>1, <2>2
<1> QED
  BY <1>2, <1>3 DEF SpawnsCounted

\* A step of a run that starts no child.
LEMMA SpawnsQuiet ==
  ASSUME LifeInv, SpawnsCounted, NEW run \in Runs, NEW changed, Becomes(run, changed),
         changed.spawns = runs[run].spawns, children' \subseteq children
  PROVE  SpawnsCounted'
<1>1. runs[run].spawns \in Nat /\ runs[run].spawns <= MaxSpawns
  BY DEF LifeInv, LifeType, RunType, SpawnsCounted
<1>2. runs[run].spawns <= changed.spawns
  BY <1>1
<1> QED
  BY <1>1, <1>2, SpawnsKept

LEMMA SpawnsStep == LifeInv /\ SpawnsCounted /\ [SimulatorNext]_simulatorVars => SpawnsCounted'
<1> SUFFICES ASSUME LifeInv, SpawnsCounted, [SimulatorNext]_simulatorVars
             PROVE  SpawnsCounted'
  OBVIOUS
<1>t. \A run \in Runs : runs[run] \in RunType /\ runs[run].spawns \in Nat
  BY DEF LifeInv, LifeType, RunType
<1>1. CASE UNCHANGED simulatorVars \/ ChildExits \/ RunnerGone \/ RunnerAnswers
  BY <1>1 DEF simulatorVars, ChildExits, RunnerGone, RunnerAnswers, SpawnsCounted
<1>2. ASSUME NEW run \in Runs,
             \/ AcquireDeviceLock(run) \/ ClearAppState(run) \/ CompanionUp(run)
             \/ EndsRun(run) \/ Unlock(run)
      PROVE  SpawnsCounted'
  <2>1. PICK pc : Becomes(run, [runs[run] EXCEPT !.pc = pc])
    BY <1>2 DEF AcquireDeviceLock, ClearAppState, CompanionUp, EndsRun, Unlock, MovesTo
  <2>2. [runs[run] EXCEPT !.pc = pc].spawns = runs[run].spawns /\ children' = children
    BY <1>2, <1>t DEF RunType, AcquireDeviceLock, ClearAppState, CompanionUp, EndsRun, Unlock
  <2> QED
    BY <2>1, <2>2, SpawnsQuiet
<1>3. ASSUME NEW run \in Runs, SpawnChild(run)
      PROVE  SpawnsCounted'
  <2> DEFINE number == runs[run].spawns + 1
             changed == [runs[run] EXCEPT !.pc = "listen", !.child = number, !.spawns = number]
  <2>1. /\ Becomes(run, changed) /\ runs[run].spawns < MaxSpawns
        /\ children' = children \cup {Companion(run, number)}
    BY <1>3 DEF SpawnChild
  <2>2. changed.spawns = number
    BY <1>t DEF RunType
  <2>3. number \in Nat /\ runs[run].spawns <= number /\ number <= MaxSpawns
    BY <1>t, <2>1, SpawnBounds
  <2>4. Companion(run, number).run = run /\ Companion(run, number).number = number
    BY DEF Companion
  <2> HIDE DEF number, changed
  <2>5. number <= number
    BY <2>3
  <2> QED
    BY <2>1, <2>2, <2>3, <2>4, <2>5, SpawnsKept
<1>4. ASSUME NEW run \in Runs, SpawnRunner(run)
      PROVE  SpawnsCounted'
  <2>1. PICK port, slow :
          Becomes(run, [runs[run] EXCEPT !.pc = "dial", !.port = port,
                                         !.runnerChild = runs[run].spawns, !.slow = slow])
    BY <1>4 DEF SpawnRunner
  <2> DEFINE changed == [runs[run] EXCEPT !.pc = "dial", !.port = port,
                                          !.runnerChild = runs[run].spawns, !.slow = slow]
  <2>2. changed.spawns = runs[run].spawns
    BY <1>t DEF RunType
  <2>3. /\ children' = children \cup {Session(run, runs[run].spawns)}
        /\ Session(run, runs[run].spawns).run = run
        /\ Session(run, runs[run].spawns).number = runs[run].spawns
    BY <1>4 DEF SpawnRunner, Session
  <2> HIDE DEF changed
  <2>4. /\ changed.spawns \in Nat /\ runs[run].spawns <= changed.spawns
        /\ changed.spawns <= MaxSpawns
    BY <1>t, <2>2 DEF SpawnsCounted
  <2>5. Becomes(run, changed)
    BY <2>1 DEF changed
  <2> QED
    BY <2>2, <2>3, <2>4, <2>5, SpawnsKept
<1>5. ASSUME NEW run \in Runs, CompanionDown(run)
      PROVE  SpawnsCounted'
  <2>1. Becomes(run, [runs[run] EXCEPT !.pc = AfterError(run), !.restarting = FALSE,
                                     !.child = Nobody])
    BY <1>5 DEF CompanionDown
  <2>2. [runs[run] EXCEPT !.pc = AfterError(run), !.restarting = FALSE,
                                     !.child = Nobody].spawns
          = runs[run].spawns
    BY <1>t DEF RunType
  <2>3. children' \subseteq children
    BY <1>5 DEF CompanionDown
  <2> QED
    BY <2>1, <2>2, <2>3, SpawnsQuiet
<1>6. ASSUME NEW run \in Runs, RunnerUp(run)
      PROVE  SpawnsCounted'
  <2>1. PICK client :
          Becomes(run, [runs[run] EXCEPT !.pc = "serving", !.runnerClient = client,
                                     !.restarting = FALSE])
    BY <1>6 DEF RunnerUp
  <2>2. [runs[run] EXCEPT !.pc = "serving", !.runnerClient = client,
                                     !.restarting = FALSE].spawns
          = runs[run].spawns
    BY <1>t DEF RunType
  <2>3. children' \subseteq children
    BY <1>6 DEF RunnerUp
  <2> QED
    BY <2>1, <2>2, <2>3, SpawnsQuiet
<1>7. ASSUME NEW run \in Runs, RunnerDown(run)
      PROVE  SpawnsCounted'
  <2>1. Becomes(run, [runs[run] EXCEPT !.pc = AfterError(run), !.restarting = FALSE,
                                     !.runnerChild = Nobody])
    BY <1>7 DEF RunnerDown
  <2>2. [runs[run] EXCEPT !.pc = AfterError(run), !.restarting = FALSE,
                                     !.runnerChild = Nobody].spawns
          = runs[run].spawns
    BY <1>t DEF RunType
  <2>3. children' \subseteq children
    BY <1>7 DEF RunnerDown
  <2> QED
    BY <2>1, <2>2, <2>3, SpawnsQuiet
<1>8. ASSUME NEW run \in Runs, RestartStopsChild(run)
      PROVE  SpawnsCounted'
  <2>1. Becomes(run, [runs[run] EXCEPT !.pc = "stopSession", !.child = Nobody,
                                     !.restarting = TRUE])
    BY <1>8 DEF RestartStopsChild
  <2>2. [runs[run] EXCEPT !.pc = "stopSession", !.child = Nobody,
                                     !.restarting = TRUE].spawns
          = runs[run].spawns
    BY <1>t DEF RunType
  <2>3. children' \subseteq children
    BY <1>8 DEF RestartStopsChild
  <2> QED
    BY <2>1, <2>2, <2>3, SpawnsQuiet
<1>9. ASSUME NEW run \in Runs, RestartStopsSession(run)
      PROVE  SpawnsCounted'
  <2>1. Becomes(run, [runs[run] EXCEPT !.pc = "companion", !.runnerChild = Nobody])
    BY <1>9 DEF RestartStopsSession
  <2>2. [runs[run] EXCEPT !.pc = "companion", !.runnerChild = Nobody].spawns
          = runs[run].spawns
    BY <1>t DEF RunType
  <2>3. children' \subseteq children
    BY <1>9 DEF RestartStopsSession
  <2> QED
    BY <2>1, <2>2, <2>3, SpawnsQuiet
<1>10. ASSUME NEW run \in Runs, CloseStopsChild(run)
      PROVE  SpawnsCounted'
  <2>1. Becomes(run, [runs[run] EXCEPT !.pc = "closeSession", !.child = Nobody])
    BY <1>10 DEF CloseStopsChild
  <2>2. [runs[run] EXCEPT !.pc = "closeSession", !.child = Nobody].spawns
          = runs[run].spawns
    BY <1>t DEF RunType
  <2>3. children' \subseteq children
    BY <1>10 DEF CloseStopsChild
  <2> QED
    BY <2>1, <2>2, <2>3, SpawnsQuiet
<1>11. ASSUME NEW run \in Runs, CloseStopsSession(run)
      PROVE  SpawnsCounted'
  <2>1. Becomes(run, [runs[run] EXCEPT !.pc = "unlock", !.runnerChild = Nobody,
                                     !.runnerClient = NoRunner])
    BY <1>11 DEF CloseStopsSession
  <2>2. [runs[run] EXCEPT !.pc = "unlock", !.runnerChild = Nobody,
                                     !.runnerClient = NoRunner].spawns
          = runs[run].spawns
    BY <1>t DEF RunType
  <2>3. children' \subseteq children
    BY <1>11 DEF CloseStopsSession
  <2> QED
    BY <2>1, <2>2, <2>3, SpawnsQuiet
<1>12. ASSUME NEW run \in Runs, RunKilled(run)
      PROVE  SpawnsCounted'
  <2>1. Becomes(run, [Fresh EXCEPT !.pc = "killed", !.spawns = runs[run].spawns])
    BY <1>12 DEF RunKilled
  <2>2. [Fresh EXCEPT !.pc = "killed", !.spawns = runs[run].spawns].spawns
          = runs[run].spawns
    BY <1>t DEF RunType, Fresh
  <2>3. children' \subseteq children
    BY <1>12 DEF RunKilled
  <2> QED
    BY <2>1, <2>2, <2>3, SpawnsQuiet
<1>13. ASSUME NEW run \in Runs, NEW pc \in {"companion", "session"}, SpawnFails(run, pc)
      PROVE  SpawnsCounted'
  <2>1. /\ Becomes(run, [runs[run] EXCEPT !.pc = AfterError(run), !.restarting = FALSE])
        /\ children' \subseteq children
    BY <1>13 DEF SpawnFails
  <2>2. [runs[run] EXCEPT !.pc = AfterError(run), !.restarting = FALSE].spawns
          = runs[run].spawns
    BY <1>t DEF RunType
  <2> QED
    BY <2>1, <2>2, SpawnsQuiet
<1> QED
  BY <1>1, <1>2, <1>3, <1>4, <1>5, <1>6, <1>7, <1>8, <1>9, <1>10, <1>11, <1>12, <1>13
  DEF SimulatorNext

LEMMA SpawnsInductive == SimulatorSpec => []SpawnsCounted
<1>1. SimulatorInit => SpawnsCounted
  BY SpawnBounds DEF SimulatorInit, Fresh, SpawnsCounted
<1> QED
  BY <1>1, LifeInductive, SpawnsStep, PTL DEF SimulatorSpec

\* Of two runs on one simulator, only the one with the lock has children there that
\* it did not leave behind by being killed, and a run at work talks to its own session's
\* runner or to one that had still to come up on that port when the session was given it,
\* whatever died, lived on or answered late in between (driver.go:192-218, 414-431,
\* 1220-1240).
THEOREM OneRunAtATime == SimulatorSpec => []OneRunDrives
BY LifeInductive, InvImplies, PTL
=============================================================================
