--------------------------- MODULE Lifecycle_proofs ---------------------------
(***************************************************************************)
(* Theorems about Lifecycle: whatever fails, whenever the simulator dies   *)
(* or hangs, and however late anything comes.                              *)
(***************************************************************************)
EXTENDS Lifecycle, TLAPS

(* Nothing runs before it is spawned; Node has reaped only what has        *)
(* exited, and has sent SIGTERM to what it killed.                         *)
ProcessInv ==
  /\ phase \in {"listen", "spawn"} => process = "none"
  /\ process \in {"running", "hung", "none"} => ~exitEmitted
  /\ exitCode => exitEmitted
  /\ killed => "SIGTERM" \in signals

(* The timers of killSimulator() run while its promise is pending, and by  *)
(* then SIGTERM has been sent to a process that Node has not reaped since, *)
(* or there was nothing to send it to.                                     *)
KillInv ==
  /\ forceKillTimer => hardDeadline
  /\ hardDeadline <=> KillPending
  /\ KillPending => (killed <=> ~exitEmitted)

(* After killSimulator(), and where it is not called, there is no process  *)
(* that was not told to end.                                               *)
Stopped == process \in {"running", "hung"} => "SIGTERM" \in signals
StoppedInv == phase \in {"fail unlisten", "rejected", "closed"} => Stopped

(* What has been closed stays closed, and the poll ends with its call,     *)
(* unless that times out.                                                  *)
Unlistened == {"rejected", "close kill", "close killing", "closed"}
NetInv ==
  /\ phase \in {"listen"} \cup Unlistened => ~server /\ ~socket
  /\ poll /\ phase # "connect" => gaveUp

LifecycleInv == TypeOK /\ ProcessInv /\ KillInv /\ StoppedInv /\ NetInv

(* Before launch() has begun.                                              *)
LEMMA InitHolds == Init => LifecycleInv
  BY DEF Init, LifecycleInv, TypeOK, ProcessInv, KillInv, StoppedInv, Stopped,
         NetInv, Unlistened, KillPending, Phases, Launching

(* killSimulator().                                                        *)
LEMMA KillHolds ==
  ASSUME LifecycleInv,
         KillReturnsAtOnce \/ KillBegins \/ ForceKillFires \/ HardDeadlineFires
  PROVE  LifecycleInv'
  <1> USE DEF LifecycleInv, TypeOK, ProcessInv, KillInv, StoppedInv, Stopped,
              NetInv, Unlistened, KillPending, KillCalled, Phases,
              Launching, AfterKill, DuringKill, KillNeeded, Signal, netVars,
              procVars, killVars
  <1>1. CASE KillReturnsAtOnce
    BY <1>1 DEF KillReturnsAtOnce
  <1>2. CASE KillBegins
    BY <1>2 DEF KillBegins
  <1>3. CASE ForceKillFires
    <2>1. killed \/ exitEmitted
      BY <1>3 DEF ForceKillFires
    <2>2. killed' = killed /\ signals' = signals
      BY <1>3, <2>1 DEF ForceKillFires
    <2>3. TypeOK' /\ KillInv'
      BY <1>3, <2>2 DEF ForceKillFires
    <2>4. ProcessInv' /\ StoppedInv' /\ NetInv'
      BY <1>3, <2>2 DEF ForceKillFires
    <2>5. QED
      BY <2>3, <2>4
  <1>4. CASE HardDeadlineFires
    <2>1. TypeOK' /\ KillInv'
      BY <1>4 DEF HardDeadlineFires
    <2>2. ProcessInv' /\ StoppedInv' /\ NetInv'
      BY <1>4 DEF HardDeadlineFires
    <2>3. QED
      BY <2>1, <2>2
  <1>5. QED
    BY <1>1, <1>2, <1>3, <1>4

(* The simulator and its operating system disturb only ProcessInv; 'exit'  *)
(* resolves killSimulator() and clears its timers.                         *)
LEMMA ProcessHolds ==
  ASSUME LifecycleInv,
         Hang \/ Crash \/ Obey \/ (\E byCode \in BOOLEAN : EmitExit(byCode))
  PROVE  LifecycleInv'
  <1> USE DEF LifecycleInv, TypeOK, ProcessInv, KillInv, StoppedInv, Stopped,
              NetInv, Unlistened, KillPending, Phases, Launching,
              AfterKill, netVars, killVars
  <1>1. CASE Hang
    <2>1. TypeOK'
      BY <1>1 DEF Hang
    <2>2. ProcessInv' /\ StoppedInv'
      BY <1>1 DEF Hang
    <2>3. KillInv' /\ NetInv'
      BY <1>1 DEF Hang
    <2>4. QED
      BY <2>1, <2>2, <2>3
  <1>2. CASE Crash \/ Obey
    <2>1. /\ process \in {"running", "hung"} /\ process' = "exited"
          /\ UNCHANGED <<autoLaunch, phase, netVars, signals, exitCode,
                         exitEmitted, killed, killVars>>
      BY <1>2 DEF Crash, Obey, Exits
    <2>2. TypeOK'
      BY <2>1
    <2>3. ProcessInv' /\ StoppedInv'
      BY <2>1
    <2>4. KillInv' /\ NetInv'
      BY <2>1
    <2>5. QED
      BY <2>2, <2>3, <2>4
  <1>3. ASSUME NEW byCode \in BOOLEAN, EmitExit(byCode)
        PROVE  LifecycleInv'
    BY <1>3 DEF EmitExit
  <1>4. QED
    BY <1>1, <1>2, <1>3

(* launch(), up to READY.                                                  *)
LEMMA LaunchHolds ==
  ASSUME LifecycleInv,
         \/ \E ok \in BOOLEAN :
              Listen(ok) \/ SpawnSimulator(ok) \/ WaitForReady(ok)
         \/ SpawnFails \/ WaitForConnection \/ PollFires \/ ConnectionTimesOut
  PROVE  LifecycleInv'
  <1> USE DEF LifecycleInv, TypeOK, ProcessInv, KillInv, StoppedInv, Stopped,
              NetInv, Unlistened, KillPending, Phases, Launching,
              Fail, netVars, procVars, killVars
  <1>1. ASSUME NEW ok \in BOOLEAN, Listen(ok)  PROVE LifecycleInv'
    BY <1>1 DEF Listen
  <1>2. ASSUME NEW ok \in BOOLEAN, SpawnSimulator(ok)  PROVE LifecycleInv'
    BY <1>2 DEF SpawnSimulator
  <1>3. CASE SpawnFails
    BY <1>3 DEF SpawnFails
  <1>4. CASE WaitForConnection
    <2>1. CASE socket /\ phase' = "ready" /\ UNCHANGED poll
      BY <1>4, <2>1 DEF WaitForConnection
    <2>2. CASE ~socket /\ poll' = TRUE /\ UNCHANGED phase
      BY <1>4, <2>2 DEF WaitForConnection
    <2>3. QED
      BY <1>4, <2>1, <2>2 DEF WaitForConnection
  <1>5. CASE PollFires
    <2>1. TypeOK'
      BY <1>5 DEF PollFires
    <2>2. ProcessInv' /\ StoppedInv'
      BY <1>5 DEF PollFires
    <2>3. KillInv' /\ NetInv'
      BY <1>5 DEF PollFires
    <2>4. QED
      BY <2>1, <2>2, <2>3
  <1>6. CASE ConnectionTimesOut
    BY <1>6 DEF ConnectionTimesOut
  <1>7. ASSUME NEW ok \in BOOLEAN, WaitForReady(ok)  PROVE LifecycleInv'
    BY <1>7 DEF WaitForReady
  <1>8. QED
    BY <1>1, <1>2, <1>3, <1>4, <1>5, <1>6, <1>7

(* The connection, and the two calls of close().                           *)
LEMMA ConnectionHolds ==
  ASSUME LifecycleInv, GameConnects \/ ReadyArrives \/ CloseGame \/ Unlisten
  PROVE  LifecycleInv'
  <1> USE DEF LifecycleInv, TypeOK, ProcessInv, KillInv, StoppedInv, Stopped,
              NetInv, Unlistened, KillPending, Phases, Launching,
              netVars, procVars, killVars
  <1>1. CASE GameConnects
    <2>1. TypeOK'
      BY <1>1 DEF GameConnects
    <2>2. ProcessInv' /\ StoppedInv'
      BY <1>1 DEF GameConnects
    <2>3. KillInv' /\ NetInv'
      BY <1>1 DEF GameConnects
    <2>4. QED
      BY <2>1, <2>2, <2>3
  <1>2. CASE ReadyArrives
    <2>1. TypeOK'
      BY <1>2 DEF ReadyArrives
    <2>2. ProcessInv' /\ StoppedInv'
      BY <1>2 DEF ReadyArrives
    <2>3. KillInv' /\ NetInv'
      BY <1>2 DEF ReadyArrives
    <2>4. QED
      BY <2>1, <2>2, <2>3
  <1>3. CASE CloseGame
    BY <1>3 DEF CloseGame
  <1>4. CASE Unlisten
    <2>1. CASE phase = "fail unlisten"
      BY <1>4, <2>1 DEF Unlisten
    <2>2. CASE phase = "close unlisten" /\ process = "none"
      BY <1>4, <2>2 DEF Unlisten
    <2>3. CASE phase = "close unlisten" /\ process # "none"
      BY <1>4, <2>3 DEF Unlisten
    <2>4. QED
      BY <1>4, <2>1, <2>2, <2>3 DEF Unlisten
  <1>5. QED
    BY <1>1, <1>2, <1>3, <1>4

-----------------------------------------------------------------------------
(* The invariant that the theorems follow from.                            *)
THEOREM Invariant == Spec => []LifecycleInv
  <1>1. ASSUME LifecycleInv, [Next]_vars  PROVE LifecycleInv'
    <2>1. CASE Next
      BY <1>1, <2>1, KillHolds, ProcessHolds, LaunchHolds, ConnectionHolds
         DEF Next
    <2>2. CASE UNCHANGED vars
      <3> USE <1>1, <2>2
          DEF vars, netVars, procVars, killVars, LifecycleInv, KillPending
      <3>1. TypeOK'
        BY DEF TypeOK
      <3>2. ProcessInv' /\ StoppedInv'
        BY DEF ProcessInv, StoppedInv, Stopped
      <3>3. KillInv' /\ NetInv'
        BY DEF KillInv, NetInv, Unlistened
      <3>4. QED
        BY <3>1, <3>2, <3>3
    <2>3. QED
      BY <1>1, <2>1, <2>2
  <1>2. QED
    BY InitHolds, <1>1, PTL DEF Spec

(* Every field keeps its type.                                             *)
THEOREM LifecycleTypes == Spec => []TypeOK
  <1>1. LifecycleInv => TypeOK
    BY DEF LifecycleInv
  <1>2. QED
    BY Invariant, <1>1, PTL

(* No simulator outlives its session without having been told to end,      *)
(* whichever step of launch() fails and whenever the simulator dies.       *)
THEOREM SimulatorTold == Spec => []NoOrphan
  <1>1. LifecycleInv => NoOrphan
    BY DEF LifecycleInv, StoppedInv, Stopped, NoOrphan, Over
  <1>2. QED
    BY Invariant, <1>1, PTL

(* A session that is over has left no port, socket or timer behind, but    *)
(* for the poll of a waitForConnection() that has timed out.               *)
THEOREM AllReleased == Spec => []NothingLeftRunning
  <1>1. LifecycleInv => NothingLeftRunning
    BY DEF LifecycleInv, KillInv, NetInv, NothingLeftRunning, Over,
           Unlistened, KillPending
  <1>2. QED
    BY Invariant, <1>1, PTL

(* No exit is slept through: while killSimulator() waits for the process   *)
(* it sent SIGTERM to, Node has not reaped that process.                   *)
THEOREM ExitNotMissed == Spec => []NoExitMissed
  <1>1. LifecycleInv => NoExitMissed
    BY DEF LifecycleInv, KillInv, NoExitMissed
  <1>2. QED
    BY Invariant, <1>1, PTL
===============================================================================
