------------------------------ MODULE Lifecycle -------------------------------
(***************************************************************************)
(* The life of a test session: PlaydateGame.launch() and close(), with the *)
(* simulator process they spawn and kill (Launcher.ts) and the server they *)
(* open and close (listen(), waitForConnection() and close() of            *)
(* tcpServer.ts).                                                          *)
(*                                                                         *)
(* The process is the operating system's: it may crash, hang and exit when *)
(* it likes, and Node hears of its exit later, by the 'exit' event.        *)
(***************************************************************************)
EXTENDS Naturals

VARIABLES
  autoLaunch,     \* LaunchOptions.autoLaunch: spawn the simulator
  phase,          \* where launch() or close() is
  server,         \* this.server listens
  socket,         \* this.socket is set
  readyReceived,  \* READY has been received
  poll,           \* the interval timer of waitForConnection() runs
  gaveUp,         \* history: waitForConnection() has timed out
  process,        \* the simulator: "none", "running", "hung", "exited"
  signals,        \* signals sent to it
  exitCode,       \* proc.exitCode is not null
  exitEmitted,    \* 'exit' has been emitted
  killed,         \* proc.killed
  forceKillTimer, hardDeadline   \* timers of killSimulator()

netVars  == <<server, socket, readyReceived, poll, gaveUp>>
procVars == <<process, signals, exitCode, exitEmitted, killed>>
killVars == <<forceKillTimer, hardDeadline>>
vars == <<autoLaunch, phase, netVars, procVars, killVars>>

Launching == {"listen", "spawn", "connect", "ready"}
Phases == Launching \cup
  {"open",                            \* launch() has resolved
   "fail kill", "fail killing", "fail unlisten", "rejected",
   "close unlisten", "close kill", "close killing", "closed"}
Over == phase \in {"rejected", "closed"}

Init ==
  /\ autoLaunch \in BOOLEAN
  /\ phase = "listen"
  /\ server = FALSE /\ socket = FALSE /\ readyReceived = FALSE
  /\ poll = FALSE /\ gaveUp = FALSE
  /\ process = "none" /\ signals = {}
  /\ exitCode = FALSE /\ exitEmitted = FALSE /\ killed = FALSE
  /\ forceKillTimer = FALSE /\ hardDeadline = FALSE

-----------------------------------------------------------------------------
(* killSimulator().                                                        *)

(* It is called, and later its promise is pending.                         *)
KillCalled  == phase \in {"fail kill", "close kill"}
KillPending == phase \in {"fail killing", "close killing"}

(* The promise is resolved: launch() closes the server and throws, close() *)
(* returns.                                                                *)
AfterKill ==
  IF phase \in {"fail kill", "fail killing"} THEN "fail unlisten" ELSE "closed"
DuringKill == IF phase = "fail kill" THEN "fail killing" ELSE "close killing"

KillNeeded == ~killed /\ ~exitCode

(* proc.kill(signal): it reports success, and sets `killed', as long as    *)
(* Node has not reaped the process.                                        *)
Signal(sig) ==
  /\ killed' = (killed \/ ~exitEmitted)
  /\ signals' = IF exitEmitted THEN signals ELSE signals \cup {sig}

KillReturnsAtOnce ==
  /\ KillCalled /\ ~KillNeeded
  /\ phase' = AfterKill
  /\ UNCHANGED <<autoLaunch, netVars, procVars, killVars>>

(* Slips of killSimulator(): another signal is sent, and no hard deadline. *)
KillInterrupts ==
  /\ KillCalled /\ KillNeeded
  /\ phase' = DuringKill
  /\ hardDeadline' = TRUE /\ forceKillTimer' = TRUE
  /\ Signal("SIGINT")
  /\ UNCHANGED <<autoLaunch, netVars, process, exitCode, exitEmitted>>
KillNoDeadline ==
  /\ KillCalled /\ KillNeeded
  /\ phase' = DuringKill
  /\ forceKillTimer' = TRUE
  /\ Signal("SIGTERM")
  /\ UNCHANGED <<autoLaunch, hardDeadline, netVars, process, exitCode,
                 exitEmitted>>

KillBegins ==
  /\ KillCalled /\ KillNeeded
  /\ phase' = DuringKill
  /\ hardDeadline' = TRUE /\ forceKillTimer' = TRUE
  /\ Signal("SIGTERM")
  /\ UNCHANGED <<autoLaunch, netVars, process, exitCode, exitEmitted>>

(* After timeoutMs.                                                        *)
ForceKillFires ==
  /\ forceKillTimer
  /\ forceKillTimer' = FALSE
  /\ \/ KillNeeded /\ Signal("SIGKILL")
     \/ ~KillNeeded /\ UNCHANGED <<autoLaunch, killed, signals>>
  /\ UNCHANGED <<autoLaunch, phase, hardDeadline, netVars, process, exitCode,
                 exitEmitted>>

(* After timeoutMs + 500, hence after the other timer.                     *)
HardDeadlineFires ==
  /\ hardDeadline /\ ~forceKillTimer
  /\ hardDeadline' = FALSE
  /\ phase' = AfterKill
  /\ UNCHANGED <<autoLaunch, forceKillTimer, netVars, procVars>>

-----------------------------------------------------------------------------
(* The operating system and the simulator.                                 *)

(* For one, it blocks when it has filled its stdout, a pipe nobody reads.  *)
Hang ==
  /\ process = "running"
  /\ process' = "hung"
  /\ UNCHANGED <<autoLaunch, phase, netVars, signals, exitCode, exitEmitted,
                 killed, killVars>>

Exits ==
  /\ process' = "exited"
  /\ UNCHANGED <<autoLaunch, phase, netVars, signals, exitCode, exitEmitted,
                 killed, killVars>>

(* It crashes or quits by itself; it obeys SIGTERM unless it hangs.        *)
Crash == process = "running" /\ Exits
Obey ==
  /\ \/ process = "running" /\ signals # {}
     \/ process = "hung" /\ "SIGKILL" \in signals
  /\ Exits

(* Slips of the 'exit' listener: the timers are not cleared; and only an   *)
(* exit with a code counts, as the other listener asks for one.            *)
ExitLeavesTimers(byCode) ==
  /\ process = "exited" /\ ~exitEmitted
  /\ exitEmitted' = TRUE /\ exitCode' = byCode
  /\ phase' = IF KillPending THEN AfterKill ELSE phase
  /\ UNCHANGED <<autoLaunch, netVars, process, signals, killed, killVars>>

ExitByCodeOnly(byCode) ==
  /\ process = "exited" /\ ~exitEmitted
  /\ exitEmitted' = TRUE /\ exitCode' = byCode
  /\ forceKillTimer' = (forceKillTimer /\ ~byCode)
  /\ hardDeadline' = (hardDeadline /\ ~byCode)
  /\ phase' = IF KillPending /\ byCode THEN AfterKill ELSE phase
  /\ UNCHANGED <<autoLaunch, netVars, process, signals, killed>>

(* Node reaps it: exitCode stays null if a signal ended it.  When          *)
(* killSimulator() listens, its timers are cleared and it resolves.        *)
EmitExit(byCode) ==
  /\ process = "exited" /\ ~exitEmitted
  /\ exitEmitted' = TRUE /\ exitCode' = byCode
  /\ forceKillTimer' = FALSE /\ hardDeadline' = FALSE
  /\ phase' = IF KillPending THEN AfterKill ELSE phase
  /\ UNCHANGED <<autoLaunch, netVars, process, signals, killed>>

(* The game connects, if the simulator (or one started by hand) runs.      *)
GameConnects ==
  /\ server /\ ~socket
  /\ process \in (IF autoLaunch THEN {"running"} ELSE {"none"})
  /\ socket' = TRUE
  /\ UNCHANGED <<autoLaunch, phase, server, readyReceived, poll, gaveUp,
                 procVars, killVars>>

ReadyArrives ==
  /\ socket /\ ~readyReceived
  /\ readyReceived' = TRUE
  /\ UNCHANGED <<autoLaunch, phase, server, socket, poll, gaveUp, procVars,
                 killVars>>

-----------------------------------------------------------------------------
(* launch().                                                               *)

(* The catch block: the simulator is killed, if it was spawned; and a slip *)
(* that only closes the server.                                            *)
FailForgetsSimulator == "fail unlisten"
Fail == IF process = "none" THEN "fail unlisten" ELSE "fail kill"

Listen(ok) ==
  /\ phase = "listen"
  /\ server' = ok
  /\ phase' = IF ~ok THEN Fail ELSE IF autoLaunch THEN "spawn" ELSE "connect"
  /\ UNCHANGED <<autoLaunch, socket, readyReceived, poll, gaveUp, procVars,
                 killVars>>

(* validatePdxPath() and resolveSimulatorPath() may throw.                 *)
SpawnSimulator(ok) ==
  /\ phase = "spawn"
  /\ \/ ok /\ process' = "running" /\ phase' = "connect"
     \/ ~ok /\ phase' = Fail /\ UNCHANGED process
  /\ UNCHANGED <<autoLaunch, netVars, signals, exitCode, exitEmitted, killed,
                 killVars>>

(* spawn() does not throw if the file cannot be executed: the child has an *)
(* exit code and emits no 'exit' but an 'error', which nobody listens to.  *)
(* That is an exception in the test runner, which goes on.                 *)
SpawnFails ==
  /\ phase = "spawn"
  /\ process' = "exited" /\ exitCode' = TRUE /\ exitEmitted' = TRUE
  /\ phase' = "connect"
  /\ UNCHANGED <<autoLaunch, netVars, signals, killed, killVars>>

WaitForConnection ==
  /\ phase = "connect" /\ ~poll
  /\ \/ socket /\ phase' = "ready" /\ UNCHANGED poll
     \/ ~socket /\ poll' = TRUE /\ UNCHANGED phase
  /\ UNCHANGED <<autoLaunch, server, socket, readyReceived, gaveUp, procVars,
                 killVars>>

(* The interval timer finds a socket, be it after the call has timed out:  *)
(* its resolve() is then without effect, as the promise is settled.        *)
PollFires ==
  /\ poll /\ socket
  /\ poll' = FALSE
  /\ phase' = IF phase = "connect" THEN "ready" ELSE phase
  /\ UNCHANGED <<autoLaunch, server, socket, readyReceived, gaveUp, procVars,
                 killVars>>

(* The interval timer is left running.                                     *)
ConnectionTimesOut ==
  /\ phase = "connect" /\ poll
  /\ phase' = Fail /\ gaveUp' = TRUE
  /\ UNCHANGED <<autoLaunch, server, socket, readyReceived, poll, procVars,
                 killVars>>

WaitForReady(arrived) ==
  /\ phase = "ready"
  /\ arrived => readyReceived
  /\ phase' = IF arrived THEN "open" ELSE Fail
  /\ UNCHANGED <<autoLaunch, netVars, procVars, killVars>>

-----------------------------------------------------------------------------
(* close(), of the server and of the session.                              *)

CloseGame ==
  /\ phase = "open"
  /\ phase' = "close unlisten"
  /\ UNCHANGED <<autoLaunch, netVars, procVars, killVars>>

(* server.close() resolves once the socket it destroyed is gone.           *)
Unlisten ==
  /\ phase \in {"fail unlisten", "close unlisten"}
  /\ server' = FALSE /\ socket' = FALSE
  /\ phase' = IF phase = "fail unlisten" THEN "rejected"
              ELSE IF process = "none" THEN "closed" ELSE "close kill"
  /\ UNCHANGED <<autoLaunch, readyReceived, poll, gaveUp, procVars, killVars>>

Next ==
  \/ \E ok \in BOOLEAN : Listen(ok) \/ SpawnSimulator(ok) \/ WaitForReady(ok)
  \/ SpawnFails \/ WaitForConnection \/ PollFires \/ ConnectionTimesOut
  \/ CloseGame \/ Unlisten
  \/ KillReturnsAtOnce \/ KillBegins \/ ForceKillFires \/ HardDeadlineFires
  \/ Hang \/ Crash \/ Obey \/ \E byCode \in BOOLEAN : EmitExit(byCode)
  \/ GameConnects \/ ReadyArrives

Spec == Init /\ [][Next]_vars

(* Node runs its timers and callbacks, and the promises they settle; a     *)
(* process that does not hang obeys SIGTERM, and every process SIGKILL.    *)
(* That a game connects, or that the test ever closes it, is not assumed.  *)
Fairness ==
  /\ WF_vars(SpawnFails \/ \E ok \in BOOLEAN : Listen(ok) \/ SpawnSimulator(ok))
  /\ WF_vars(WaitForConnection) /\ WF_vars(PollFires \/ ConnectionTimesOut)
  /\ WF_vars(\E ok \in BOOLEAN : WaitForReady(ok))
  /\ WF_vars(Unlisten)
  /\ WF_vars(KillReturnsAtOnce \/ KillBegins)
  /\ WF_vars(ForceKillFires) /\ WF_vars(HardDeadlineFires)
  /\ WF_vars(Obey) /\ WF_vars(\E byCode \in BOOLEAN : EmitExit(byCode))

FairSpec == Spec /\ Fairness

-----------------------------------------------------------------------------
(***************************************************************************)
(* Properties.                                                             *)
(***************************************************************************)

(* Types of the fields of PlaydateGame, TcpServer and ChildProcess.        *)
TypeOK ==
  /\ phase \in Phases /\ autoLaunch \in BOOLEAN
  /\ process \in {"none", "running", "hung", "exited"}
  /\ signals \in SUBSET {"SIGTERM", "SIGKILL"}
  /\ server \in BOOLEAN /\ socket \in BOOLEAN
  /\ readyReceived \in BOOLEAN
  /\ poll \in BOOLEAN /\ gaveUp \in BOOLEAN
  /\ exitCode \in BOOLEAN /\ exitEmitted \in BOOLEAN /\ killed \in BOOLEAN
  /\ forceKillTimer \in BOOLEAN /\ hardDeadline \in BOOLEAN

(* No simulator outlives its session unsignalled: whichever step of        *)
(* launch() fails, and however the session ends, the process it spawned    *)
(* has exited or has been sent SIGTERM (the catch block of launch(),       *)
(* close(), killSimulator()).                                              *)
NoOrphan ==
  Over /\ process \in {"running", "hung"} => "SIGTERM" \in signals

(* When the session is over the port is free and nothing of it runs: the   *)
(* server does not listen; no socket is held, be it of a game that came    *)
(* after waitForConnection() had timed out, while the simulator was being  *)
(* killed; no timer of killSimulator() is left to fire at a process id     *)
(* that may be another's by then; and no poll for a connection, but for    *)
(* the one the code leaves running when waitForConnection() times out.     *)
NothingLeftRunning ==
  Over => /\ ~server /\ ~socket
          /\ ~forceKillTimer /\ ~hardDeadline
          /\ poll => gaveUp

(* killSimulator() does not sleep through the exit it waits for: as long   *)
(* as its promise is pending after a SIGTERM that was delivered, Node has  *)
(* not reported the exit of the process, with a code or by a signal.       *)
(* (Where there was none to deliver it to, killed stays FALSE: the process *)
(* had been ended by a signal, exitCode is null, and the deadline ends the *)
(* wait.)                                                                  *)
NoExitMissed == KillPending /\ killed => ~exitEmitted

(* Neither launch() nor close() hangs, even if the simulator does: each    *)
(* step of them that waits has a timer of its own.                         *)
LaunchAndCloseEnd ==
  /\ phase \in Launching ~> phase = "open" \/ Over
  /\ phase = "close unlisten" ~> phase = "closed"

(* Disputed: killSimulator() falls back to SIGKILL: the timer set for it   *)
(* signals a process that has survived SIGTERM.  The code asks whether     *)
(* proc.killed is set, and it is as soon as SIGTERM has been sent.         *)
FallsBackToSIGKILL ==
  [][ForceKillFires /\ process = "hung" => "SIGKILL" \in signals']_vars
=============================================================================
