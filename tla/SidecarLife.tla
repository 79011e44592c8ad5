----------------------------- MODULE SidecarLife -----------------------------
(***************************************************************************)
(* An Android run from the outside: testrun.Execute, the sidecar process   *)
(* it spawns, the goroutine that reaps it and the calls that start and     *)
(* stop the app.  The step loop is one step here; it is Runner's.          *)
(*                                                                         *)
(* The user can cancel the run at any moment, the sidecar can crash at any *)
(* moment, a call the client has given up on goes on in the sidecar, and   *)
(* the shutdown hook runs beside whatever calls are still in flight.       *)
(***************************************************************************)
EXTENDS Naturals

CONSTANT MaxRelaunches   \* a bound on the relaunches of the scope guard

ASSUME RelaunchBound == MaxRelaunches \in Nat

VARIABLES
  exec,       \* Execute: its place, whether it has a navigation mode to restore
  cancelled,  \* the context of the run is done
  sidecar,    \* the process, and the calls inside it
  exited,     \* watchSidecar's channel and the goroutine that feeds it
  appRuns,    \* the app under test runs
  forced,     \* the device is in 3-button navigation
  mishaps     \* history: what went wrong that the code cannot make good

lifeVars == <<exec, cancelled, sidecar, exited, appRuns, forced, mishaps>>

LifeInit ==
  /\ exec = [pc |-> "prepare", restores |-> FALSE, relaunches |-> 0]
  /\ cancelled = FALSE
  /\ sidecar = [ process |-> "none", signalled |-> FALSE, launched |-> FALSE,
                 launch |-> "none", stop |-> "none", hook |-> "none" ]
  /\ exited = [at |-> "waiting", status |-> FALSE]
  /\ appRuns = FALSE
  /\ forced = FALSE
  /\ mishaps = {}

Enters(pc) == exec' = [exec EXCEPT !.pc = pc]
EntersFrom(from, to) == exec.pc = from /\ Enters(to)

Reaped == exited.at # "waiting"
Alive == sidecar.process \in {"booting", "serving", "hook"}

----------------------------------------------------------------------------
(* The sidecar process.                                                    *)

\* The hook is registered when the server has started.
Boots ==
  /\ sidecar.process = "booting"
  /\ sidecar' = [sidecar EXCEPT !.process = "serving"]
  /\ UNCHANGED <<exec, cancelled, exited, appRuns, forced, mishaps>>

Dies == sidecar' = [sidecar EXCEPT !.process = "dead"]

Crashes ==
  /\ Alive /\ Dies
  /\ mishaps' = mishaps \cup {"crashed"}
  /\ UNCHANGED <<exec, cancelled, exited, appRuns, forced>>

\* What a SIGTERM makes of the process.
SkipsHook(process) == IF process \in {"booting", "serving"} THEN "dead" ELSE process
OnSigterm(process) ==
  IF process = "booting" THEN "dead" ELSE IF process = "serving" THEN "hook" ELSE process

\* A launch is recorded when it is over; one that throws leaves no record.
InFlight == sidecar.launch \in {"called", "started"}

AppStarts ==
  /\ Alive /\ sidecar.launch = "called"
  /\ appRuns' = TRUE
  /\ sidecar' = [sidecar EXCEPT !.launch = "started"]
  /\ UNCHANGED <<exec, cancelled, exited, forced, mishaps>>

LaunchRecorded ==
  /\ Alive /\ sidecar.launch = "started"
  /\ sidecar' = [sidecar EXCEPT !.launch = "done", !.launched = TRUE]
  /\ UNCHANGED <<exec, cancelled, exited, appRuns, forced, mishaps>>

LaunchThrows ==
  /\ Alive /\ InFlight
  /\ sidecar' = [sidecar EXCEPT !.launch = "failed"]
  /\ mishaps' = IF sidecar.launch = "started" THEN mishaps \cup {"unrecorded"} ELSE mishaps
  /\ UNCHANGED <<exec, cancelled, exited, appRuns, forced>>

\* terminate: read the bundle, stop the app, and then clear the bundle.
StopsApp ==
  /\ Alive /\ sidecar.stop = "called"
  /\ \/ /\ sidecar' = [sidecar EXCEPT !.stop = "stopped"]
        /\ appRuns' = (appRuns /\ ~sidecar.launched)
        /\ UNCHANGED mishaps
     \/ /\ sidecar.launched
        /\ sidecar' = [sidecar EXCEPT !.stop = "done"]
        /\ UNCHANGED <<appRuns, mishaps>>
  /\ UNCHANGED <<exec, cancelled, exited, forced>>

ClearsBundle ==
  /\ Alive /\ sidecar.stop = "stopped"
  /\ sidecar' = [sidecar EXCEPT !.stop = "done", !.launched = FALSE]
  /\ UNCHANGED <<exec, cancelled, exited, appRuns, forced, mishaps>>

\* The hook: take the bundle, stop its app, close the backend, and the JVM is gone.
HookTakes ==
  /\ sidecar.process = "hook" /\ sidecar.hook = "none"
  /\ sidecar' = [sidecar EXCEPT !.hook = IF sidecar.launched THEN "took" ELSE "closing",
                                !.launched = FALSE]
  /\ mishaps' = IF InFlight THEN mishaps \cup {"inFlight"} ELSE mishaps
  /\ UNCHANGED <<exec, cancelled, exited, appRuns, forced>>

HookStops ==
  /\ sidecar.process = "hook" /\ sidecar.hook = "took"
  /\ \/ appRuns' = FALSE /\ UNCHANGED mishaps
     \/ mishaps' = mishaps \cup {"unstoppable"} /\ UNCHANGED appRuns
  /\ sidecar' = [sidecar EXCEPT !.hook = "closing"]
  /\ UNCHANGED <<exec, cancelled, exited, forced>>

HookEnds ==
  /\ sidecar.process = "hook" /\ sidecar.hook = "closing"
  /\ Dies
  /\ UNCHANGED <<exec, cancelled, exited, appRuns, forced, mishaps>>

----------------------------------------------------------------------------
(* The context, and exec.CommandContext's answer to it.                    *)

Cancel ==
  /\ ~cancelled /\ exec.pc # "returned"
  /\ cancelled' = TRUE
  /\ UNCHANGED <<exec, sidecar, exited, appRuns, forced, mishaps>>

CommandCancelled ==
  /\ cancelled /\ sidecar.process # "none" /\ ~Reaped /\ ~sidecar.signalled
  /\ sidecar' = [sidecar EXCEPT !.process = OnSigterm(@), !.signalled = TRUE]
  /\ UNCHANGED <<exec, cancelled, exited, appRuns, forced, mishaps>>

Kills == Dies /\ mishaps' = IF Alive THEN mishaps \cup {"killed"} ELSE mishaps

WaitDelayExpires ==
  /\ sidecar.signalled /\ Alive
  /\ Kills
  /\ UNCHANGED <<exec, cancelled, exited, appRuns, forced>>

----------------------------------------------------------------------------
(* watchSidecar.                                                           *)

Waits ==
  /\ exited.at = "waiting" /\ sidecar.process = "dead"
  /\ exited' = [exited EXCEPT !.at = "sending"]
  /\ UNCHANGED <<exec, cancelled, sidecar, appRuns, forced, mishaps>>

Publishes ==
  /\ exited.at = "sending"
  /\ exited' = [at |-> "closing", status |-> TRUE]
  /\ UNCHANGED <<exec, cancelled, sidecar, appRuns, forced, mishaps>>

StaysOpen == "done"
AfterSend == "closed"

ClosesChannel ==
  /\ exited.at = "closing"
  /\ exited' = [exited EXCEPT !.at = AfterSend]
  /\ UNCHANGED <<exec, cancelled, sidecar, appRuns, forced, mishaps>>

Watcher == Waits \/ Publishes \/ ClosesChannel

\* <-exited takes the status, or returns at once when the channel is closed.
Receivable == exited.status \/ exited.at = "closed"
Receives == Receivable /\ exited' = [exited EXCEPT !.status = FALSE]

----------------------------------------------------------------------------
(* Execute.                                                                *)

Prepare ==
  /\ EntersFrom("prepare", "force") \/ EntersFrom("prepare", "returned")
  /\ UNCHANGED <<cancelled, sidecar, exited, appRuns, forced, mishaps>>

\* An error of the command counts as not done, whether or not the device did it.
ForceThreeButtonNav ==
  /\ exec.pc = "force"
  /\ \/ /\ exec' = [exec EXCEPT !.pc = "build", !.restores = TRUE]
        /\ forced' = TRUE /\ UNCHANGED mishaps
     \/ Enters("build") /\ UNCHANGED <<forced, mishaps>>
     \/ Enters("build") /\ forced' = TRUE /\ mishaps' = mishaps \cup {"forcedInError"}
  /\ UNCHANGED <<cancelled, sidecar, exited, appRuns>>

\* A spec that does not bundle and a sidecar that cannot be spawned end the run here.
SpawnSidecar ==
  /\ exec.pc = "build"
  /\ \/ /\ ~cancelled
        /\ Enters("health")
        /\ sidecar' = [sidecar EXCEPT !.process = "booting"]
     \/ Enters("restore") /\ UNCHANGED sidecar
  /\ UNCHANGED <<cancelled, exited, appRuns, forced, mishaps>>

\* awaitSidecar: whichever comes first, and an exit already published before a health
\* check that failed.
Healthy ==
  /\ sidecar.process = "serving" /\ EntersFrom("health", "launch")
  /\ UNCHANGED <<cancelled, sidecar, exited, appRuns, forced, mishaps>>

ExitedFirst ==
  /\ EntersFrom("health", "stop") /\ Receives
  /\ UNCHANGED <<cancelled, sidecar, appRuns, forced, mishaps>>

HealthFails ==
  /\ EntersFrom("health", "stop") /\ ~Receivable
  /\ UNCHANGED <<cancelled, sidecar, exited, appRuns, forced, mishaps>>

Calls(rpc) == sidecar' = [sidecar EXCEPT ![rpc] = "called"]

LaunchApp ==
  /\ exec.pc = "launch"
  /\ \/ sidecar.process = "serving" /\ Calls("launch") /\ Enters("launching")
     \/ sidecar.process # "serving" /\ UNCHANGED sidecar /\ Enters("stop")
  /\ UNCHANGED <<cancelled, exited, appRuns, forced, mishaps>>

\* Given up on at the deadline, the cancellation, the end of the sidecar or an error.
LaunchReturns ==
  /\ \/ sidecar.launch = "done" /\ EntersFrom("launching", "load")
     \/ EntersFrom("launching", "stop")
  /\ UNCHANGED <<cancelled, sidecar, exited, appRuns, forced, mishaps>>

\* The verifier, the spec and the trace writer.
Load ==
  /\ EntersFrom("load", "run") \/ EntersFrom("load", "stop")
  /\ UNCHANGED <<cancelled, sidecar, exited, appRuns, forced, mishaps>>

\* The scope guard launches the app again, under a deadline.
Relaunch ==
  /\ exec.pc = "run" /\ exec.relaunches < MaxRelaunches
  /\ sidecar.process = "serving" /\ ~InFlight
  /\ exec' = [exec EXCEPT !.relaunches = @ + 1]
  /\ Calls("launch")
  /\ UNCHANGED <<cancelled, exited, appRuns, forced, mishaps>>

RunEnds ==
  /\ EntersFrom("run", "terminate")
  /\ UNCHANGED <<cancelled, sidecar, exited, appRuns, forced, mishaps>>

\* Terminate under a context of its own.  A launch the run gave up on can be recorded
\* between the reading and the clearing of the bundle.
Terminate ==
  /\ exec.pc = "terminate"
  /\ \/ /\ sidecar.process = "serving" /\ Calls("stop") /\ Enters("terminating")
        /\ mishaps' = IF InFlight THEN mishaps \cup {"inFlight"} ELSE mishaps
     \/ sidecar.process # "serving" /\ Enters("stop") /\ UNCHANGED <<sidecar, mishaps>>
  /\ UNCHANGED <<cancelled, exited, appRuns, forced>>

TerminateReturns ==
  /\ EntersFrom("terminating", "stop")
  /\ UNCHANGED <<cancelled, sidecar, exited, appRuns, forced, mishaps>>

\* stopSidecar: a process already reaped cannot be signalled.
StopSidecar ==
  /\ exec.pc = "stop"
  /\ IF Reaped THEN Enters("drain") /\ UNCHANGED sidecar
     ELSE Enters("grace") /\ sidecar' = [sidecar EXCEPT !.process = OnSigterm(@)]
  /\ UNCHANGED <<cancelled, exited, appRuns, forced, mishaps>>

GraceExpires ==
  /\ EntersFrom("grace", "drain")
  /\ Kills
  /\ UNCHANGED <<cancelled, exited, appRuns, forced>>

Drain ==
  /\ exec.pc \in {"grace", "drain"} /\ Enters("restore") /\ Receives
  /\ UNCHANGED <<cancelled, sidecar, appRuns, forced, mishaps>>

RestoreNav ==
  /\ EntersFrom("restore", "returned")
  /\ \/ forced' = (forced /\ ~exec.restores) /\ UNCHANGED mishaps
     \/ exec.restores /\ mishaps' = mishaps \cup {"unrestored"} /\ UNCHANGED forced
  /\ UNCHANGED <<cancelled, sidecar, exited, appRuns>>

Execute ==
  \/ Prepare \/ ForceThreeButtonNav \/ SpawnSidecar
  \/ Healthy \/ ExitedFirst \/ HealthFails
  \/ LaunchApp \/ LaunchReturns \/ Load \/ RunEnds
  \/ Terminate \/ TerminateReturns
  \/ StopSidecar \/ GraceExpires \/ Drain \/ RestoreNav

LifeNext ==
  \/ Boots \/ Crashes \/ AppStarts \/ LaunchRecorded \/ LaunchThrows
  \/ StopsApp \/ ClearsBundle \/ HookTakes \/ HookStops \/ HookEnds
  \/ Cancel \/ CommandCancelled \/ WaitDelayExpires
  \/ Watcher \/ Relaunch \/ Execute

LifeSpec == LifeInit /\ [][LifeNext]_lifeVars

----------------------------------------------------------------------------
(* Properties.                                                             *)

LifeTypeOK ==
  /\ sidecar.process \in {"none", "booting", "serving", "hook", "dead"}
  /\ sidecar.launch \in {"none", "called", "started", "done", "failed"}
  /\ mishaps \subseteq {"crashed", "killed", "unrecorded", "inFlight", "unstoppable",
                        "forcedInError", "unrestored"}

\* When Execute has returned its sidecar is gone and reaped; the app does not run on
\* unless the sidecar crashed or had to be killed, a launch was cut off or left
\* unrecorded, or the device refused to stop it; and the device has its navigation back
\* unless a command of the device's failed (testrun.go:131-270, driver.go:162-308,
\* DriverService.kt:35-55, 254-264).
NothingLeftBehind ==
  exec.pc = "returned" =>
    /\ sidecar.process = "none" \/ (sidecar.process = "dead" /\ Reaped)
    /\ appRuns => mishaps \cap {"crashed", "killed", "unrecorded", "inFlight", "unstoppable"} # {}
    /\ forced => mishaps \cap {"forcedInError", "unrestored"} # {}

\* An Execute that has prepared the device returns, whatever the sidecar does and whenever
\* the run is cancelled, as long as the step loop ends (driver.go:162-308).
ExecuteReturns == exec.pc # "prepare" ~> exec.pc = "returned"
=============================================================================
