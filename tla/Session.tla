------------------------------- MODULE Session -------------------------------
(***************************************************************************)
(* A test session: the PlaydateGame class of PlaydateGame.ts on top of     *)
(* TcpServer, talking to the GameModule of a running game, from the moment *)
(* launch() has resolved.                                                  *)
(*                                                                         *)
(* The test script is one or more asynchronous flows; each makes the calls *)
(* of its script one after the other, waiting as long as it likes between  *)
(* two.  A call sends a command and awaits its reply, step by step; what   *)
(* runs between two awaits is one action here.  A frame of the game is one *)
(* action too, and so is the arrival of a chunk.                           *)
(***************************************************************************)
EXTENDS Integers, Sequences, SequencesExt

CONSTANTS
  Calls,        \* the flows of the test script
  Scripts,      \* what they may call: a set of functions of the flows
  HardwareCranks,  \* the angles at which the crank itself may be
  Buttons, NoInject, MaxCommands  \* as in GameModule

VARIABLES
  \* GameModule
  conn_state, access_pending, open_pending, link, toGame, toRunner, recv_buf,
  injected_buttons, prev_injected_buttons, injected_crank,
  snapshot_current, snapshot_pushed, snapshot_released, real_buttons,
  issued, ignored, snapshotted, owed_push, owed_release,
  \* TcpServer
  socket, parsed, pendingMessages, waiters, settled, handed,
  \* PlaydateGame
  lastCrankAngle,
  queryInFlight,
  todo,       \* the calls each flow has still to make; the first is running
  steps,      \* commands the running call has still to send
  awaited,    \* the command whose reply it awaits
  outcome,    \* of the latest call: "none", "running", "resolved", "rejected"
  frames,     \* history: frames the latest call has lasted that count for it
  abandoned   \* history: commands whose reply a call stopped waiting for

(* A test may inject any angle; an angle is an integer here.               *)
Game == INSTANCE GameModule WITH Cranks <- Int
Server == INSTANCE TcpServer WITH MsgTypes <- Game!ReplyTypes

gameVars   == <<conn_state, access_pending, open_pending, link, toGame,
                recv_buf, injected_buttons, prev_injected_buttons,
                injected_crank, snapshot_current, snapshot_pushed,
                snapshot_released, real_buttons, issued, ignored,
                snapshotted, owed_push, owed_release>>
serverVars == <<socket, parsed, pendingMessages, waiters, settled, handed>>
runnerVars == <<lastCrankAngle, queryInFlight, todo, steps, awaited, outcome,
                frames, abandoned>>
vars == <<gameVars, toRunner, serverVars, runnerVars>>

-----------------------------------------------------------------------------
(* The calls of PlaydateGame and the commands they send.                   *)

APICall(op, n, buttons, crank) ==
  [op |-> op, n |-> n, buttons |-> buttons, crank |-> crank]
WaitFrames(n)   == APICall("waitFrames", n, {}, NoInject)
Tap(button, n)  == APICall("tap", n, {button}, NoInject)
PressButtons(s) == APICall("pressButtons", 0, s, NoInject)
SetCrank(angle) == APICall("setCrank", 0, {}, angle)
RotateCrank(d)  == APICall("rotateCrank", 0, {}, d)
ReleaseInput    == APICall("releaseInput", 0, {}, NoInject)
Screenshot      == APICall("screenshot", 0, {}, NoInject)
QueryState      == APICall("queryState", 0, {}, NoInject)

InputOps == {"tap", "pressButtons", "setCrank", "rotateCrank", "releaseInput"}
APIOps == InputOps \cup {"waitFrames", "screenshot", "queryState"}
APICalls ==
  [op : APIOps, n : Nat, buttons : SUBSET Buttons, crank : Int]

(* The flows that send input to the game.                                  *)
InputFlows(script) ==
  {c \in Calls : \E i \in 1..Len(script[c]) : script[c][i].op \in InputOps}

(***************************************************************************)
(* A script is made of calls.  A wait of no frames sends nothing and       *)
(* returns: it is left out.  The bound on the commands is above the frames *)
(* of any one call.  One flow drives the input, for two that do so at the  *)
(* same time cannot both know the crank.                                   *)
(***************************************************************************)
ASSUME SessionAssumption ==
  /\ NoInject \in Int /\ MaxCommands \in Nat
  /\ \A script \in Scripts :
       /\ script \in [Calls -> Seq(APICalls)]
       /\ \A c \in Calls : \A i \in 1..Len(script[c]) :
            /\ script[c][i].n < MaxCommands
            /\ script[c][i].op = "waitFrames" => script[c][i].n > 0

ASSUME OneDriver ==
  \A script \in Scripts : \A c, d \in InputFlows(script) : c = d

Step(type) == [type |-> type, buttons |-> {}, crank |-> NoInject]
Inject(buttons, crank) ==
  [type |-> "INJECT_INPUT", buttons |-> buttons, crank |-> crank]
Pings(n) == [i \in 1..n |-> Step("PING")]

(* rotateCrank() counts from 0 when no crank is injected.                  *)
CrankBase == IF lastCrankAngle = NoInject THEN 0 ELSE lastCrankAngle

(* A slip of tap(): the button released before the frames are waited for.  *)
TapReleasesFirst(call) ==
  <<Inject(call.buttons, lastCrankAngle), Step("RELEASE_INPUT")>>
    \o Pings(call.n)

TapSteps(call) ==
  <<Inject(call.buttons, lastCrankAngle)>> \o Pings(call.n)
    \o <<Step("RELEASE_INPUT")>>

Steps(call) ==
  CASE call.op = "waitFrames"   -> Pings(call.n)
    [] call.op = "tap"          -> TapSteps(call)
    [] call.op = "pressButtons" -> <<Inject(call.buttons, lastCrankAngle)>>
    [] call.op = "setCrank"     -> <<Inject({}, call.crank)>>
    [] call.op = "rotateCrank"  -> <<Inject({}, CrankBase + call.crank)>>
    [] call.op = "releaseInput" -> <<Step("RELEASE_INPUT")>>
    [] call.op = "screenshot"   -> <<Step("CAPTURE_FRAME")>>
    [] call.op = "queryState"   -> <<Step("QUERY_STATE")>>

(* The reply types a command is sent to receive.                           *)
Awaits(type) ==
  CASE type = "PING"          -> {"PONG"}
    [] type = "CAPTURE_FRAME" -> {"FRAME_DATA"}
    [] type = "QUERY_STATE"   -> {"STATE_VALUE", "STATE_NOT_FOUND"}
    [] type \in {"INJECT_INPUT", "RELEASE_INPUT"} -> {"INPUT_ACK"}

(* The command a step sends; its tag is the place it has among all.        *)
Command(step) ==
  [type |-> step.type, tag |-> issued + 1, buttons |-> step.buttons,
   crank |-> step.crank, wellFormed |-> TRUE]
Nothing == [type |-> "NONE", tag |-> 0, buttons |-> {}, crank |-> NoInject,
            wellFormed |-> FALSE]

-----------------------------------------------------------------------------
(***************************************************************************)
(* launch() has received READY and resolved: the game is connected, has    *)
(* not been sent a command, and may have run frames that changed nothing.  *)
(***************************************************************************)
Init ==
  /\ conn_state = "CONNECTED" /\ link = TRUE
  /\ access_pending = FALSE /\ open_pending = FALSE
  /\ toGame = <<>> /\ recv_buf = <<>> /\ toRunner = <<>>
  /\ injected_buttons = {} /\ prev_injected_buttons = {}
  /\ injected_crank = NoInject
  /\ snapshot_current = {} /\ snapshot_pushed = {} /\ snapshot_released = {}
  /\ real_buttons = {} /\ issued = 0 /\ ignored = {}
  /\ snapshotted = TRUE /\ owed_push = {} /\ owed_release = {}
  /\ socket = TRUE /\ parsed = <<>> /\ pendingMessages = <<>>
  /\ waiters = <<>> /\ settled = <<>> /\ handed = {}
  /\ lastCrankAngle = NoInject /\ queryInFlight = FALSE
  /\ todo \in Scripts
  /\ steps = [c \in Calls |-> <<>>]
  /\ awaited = [c \in Calls |-> Nothing]
  /\ outcome = [c \in Calls |-> "none"]
  /\ frames = [c \in Calls |-> 0]
  /\ abandoned = {}

(* server.send() and then server.receive(), with no await between.  A      *)
(* command written to a connection that the game has lost goes nowhere.    *)
SendAndWait(c, step, queue) ==
  /\ \/ link /\ Game!WriteCommand(Command(step))
     \/ ~link /\ UNCHANGED <<gameVars, toRunner>>
  /\ Server!ReceiveAny(c, Awaits(step.type), queue)
  /\ awaited' = [awaited EXCEPT ![c] = Command(step)]
  /\ UNCHANGED <<socket, parsed>>

(* A call throws before it has sent anything: send() without a socket, a   *)
(* query while another one is in flight, a press of no button.             *)
Refused(call) ==
  \/ ~socket
  \/ call.op = "queryState" /\ queryInFlight
  \/ call.op = "pressButtons" /\ call.buttons = {}

Refuse(c) ==
  /\ Server!Idle
  /\ outcome[c] # "running" /\ todo[c] # <<>>
  /\ Refused(Head(todo[c]))
  /\ outcome' = [outcome EXCEPT ![c] = "rejected"]
  /\ todo' = [todo EXCEPT ![c] = Tail(@)]
  /\ UNCHANGED <<gameVars, toRunner, serverVars, lastCrankAngle,
                 queryInFlight, steps, awaited, frames, abandoned>>

Begin(c) ==
  LET call == Head(todo[c])
  IN /\ Server!Idle
     /\ outcome[c] # "running" /\ todo[c] # <<>>
     /\ ~Refused(call)
     /\ SendAndWait(c, Head(Steps(call)), settled)
     /\ steps' = [steps EXCEPT ![c] = Tail(Steps(call))]
     /\ outcome' = [outcome EXCEPT ![c] = "running"]
     /\ queryInFlight' = (queryInFlight \/ call.op = "queryState")
     /\ frames' = [frames EXCEPT ![c] = 0]
     /\ UNCHANGED <<lastCrankAngle, todo, abandoned>>

-----------------------------------------------------------------------------
(* The i-th settled promise resumes the call that awaits it.               *)
Resuming(i, c) ==
  /\ Server!Idle
  /\ i \in 1..Len(settled)
  /\ c = settled[i].call

Failed(c, result) ==
  \/ result \in {Server!TimedOut}
  \/ result.type = "STATE_NOT_FOUND"
  \/ steps[c] # <<>> /\ ~socket

(* The call goes on: it sends its next command.                            *)
Continue(i, c) ==
  /\ Resuming(i, c)
  /\ ~Failed(c, settled[i].result) /\ steps[c] # <<>>
  /\ SendAndWait(c, Head(steps[c]), RemoveAt(settled, i))
  /\ steps' = [steps EXCEPT ![c] = Tail(@)]
  /\ UNCHANGED <<lastCrankAngle, queryInFlight, todo, outcome, frames,
                 abandoned>>

(* A slip: tap() left out of the calls that reset the crank.               *)
CrankAfterTap(call, sent) ==
  CASE call.op \in {"setCrank", "rotateCrank"} -> sent.crank
    [] call.op = "releaseInput"                -> NoInject
    [] OTHER                                   -> lastCrankAngle

(* What lastCrankAngle is after a call that resolved.                      *)
CrankAfter(call, sent) ==
  CASE call.op \in {"setCrank", "rotateCrank"} -> sent.crank
    [] call.op \in {"tap", "releaseInput"}     -> NoInject
    [] OTHER                                   -> lastCrankAngle

(* A slip of queryState(): the guard reset after the await, not in a       *)
(* `finally'.                                                              *)
EndsGuarded(i, c, how) ==
  LET call == Head(todo[c])
  IN /\ outcome' = [outcome EXCEPT ![c] = how]
     /\ todo' = [todo EXCEPT ![c] = Tail(@)]
     /\ steps' = [steps EXCEPT ![c] = <<>>]
     /\ queryInFlight' =
          (queryInFlight /\ ~(call.op = "queryState" /\ how = "resolved"))
     /\ settled' = RemoveAt(settled, i)
     /\ UNCHANGED <<gameVars, toRunner, socket, parsed, pendingMessages,
                    waiters, handed, awaited, frames, abandoned>>

(* The call ends, and with a query its guard.                              *)
Ends(i, c, how) ==
  LET call == Head(todo[c])
  IN /\ outcome' = [outcome EXCEPT ![c] = how]
     /\ todo' = [todo EXCEPT ![c] = Tail(@)]
     /\ steps' = [steps EXCEPT ![c] = <<>>]
     /\ queryInFlight' = (queryInFlight /\ call.op # "queryState")
     /\ settled' = RemoveAt(settled, i)
     /\ UNCHANGED <<gameVars, toRunner, socket, parsed, pendingMessages,
                    waiters, handed, awaited, frames, abandoned>>

Resolve(i, c) ==
  /\ Resuming(i, c)
  /\ ~Failed(c, settled[i].result) /\ steps[c] = <<>>
  /\ lastCrankAngle' = CrankAfter(Head(todo[c]), awaited[c])
  /\ Ends(i, c, "resolved")

(* queryInt() and its like also reject a value of another type.            *)
Reject(i, c) ==
  /\ Resuming(i, c)
  /\ \/ Failed(c, settled[i].result)
     \/ settled[i].result.type = "STATE_VALUE"
  /\ Ends(i, c, "rejected")
  /\ UNCHANGED lastCrankAngle

-----------------------------------------------------------------------------
(* The rest of the runner's event loop.                                    *)

DataArrives(n) ==
  /\ Server!OnData(n)
  /\ UNCHANGED <<gameVars, runnerVars>>

DeliverNext ==
  /\ Server!DeliverParsed
  /\ UNCHANGED <<gameVars, runnerVars>>

TimerFires(i) ==
  /\ Server!Timeout(i)
  /\ abandoned' = abandoned \cup {awaited[waiters[i].call]}
  /\ UNCHANGED <<gameVars, lastCrankAngle, queryInFlight, todo, steps,
                 awaited, outcome, frames>>

(* close(): a second one returns at once.                                  *)
Close ==
  /\ socket
  /\ Server!Close
  /\ link' = FALSE
  /\ UNCHANGED <<conn_state, access_pending, open_pending, toGame, recv_buf,
                 injected_buttons, prev_injected_buttons, injected_crank,
                 snapshot_current, snapshot_pushed, snapshot_released,
                 real_buttons, issued, ignored, snapshotted, owed_push,
                 owed_release, runnerVars>>

-----------------------------------------------------------------------------
(* The game.  Nobody touches the hardware during a test.                   *)

(* A frame counts for a call, for a tap() only if it shows the button.     *)
Counts(c) ==
  /\ outcome[c] = "running"
  /\ Head(todo[c]).op = "tap" =>
       Head(todo[c]).buttons \subseteq snapshot_current'

(* The frames a call needs.  tap() holds the button on a frame more than   *)
(* it pings: the frame that handles RELEASE_INPUT still shows it.          *)
Needs(call) ==
  CASE call.op = "waitFrames" -> call.n
    [] call.op = "tap"        -> call.n + 1
    [] OTHER                  -> 1

Frame(n) ==
  /\ Game!UpdateConnected({}, n)
  /\ frames' = [c \in Calls |->
                  IF Counts(c) /\ frames[c] <= Needs(Head(todo[c]))
                  THEN frames[c] + 1 ELSE frames[c]]
  /\ UNCHANGED <<serverVars, lastCrankAngle, queryInFlight, todo, steps,
                 awaited, outcome, abandoned>>

FrameLost ==
  /\ Game!UpdateLost({})
  /\ UNCHANGED <<serverVars, runnerVars>>

LoseLink ==
  /\ Game!LoseLink
  /\ UNCHANGED <<serverVars, runnerVars>>

Next ==
  \/ \E c \in Calls : Begin(c) \/ Refuse(c)
  \/ \E i \in 1..Len(settled), c \in Calls :
       Continue(i, c) \/ Resolve(i, c) \/ Reject(i, c)
  \/ \E n \in 1..Len(toRunner) : DataArrives(n)
  \/ DeliverNext
  \/ \E i \in 1..Len(waiters) : TimerFires(i)
  \/ Close
  \/ \E n \in 0..Len(toGame) : Frame(n)
  \/ FrameLost
  \/ LoseLink

Spec == Init /\ [][Next]_vars

(* Node runs the loop in progress and the promises that are settled, and   *)
(* fires the timers in the order they fall due.  Nothing is assumed of the *)
(* game, of the network, or of the script between two calls.               *)
Fairness ==
  /\ WF_vars(DeliverNext)
  /\ WF_vars(\E i \in 1..Len(settled), c \in Calls :
               Continue(i, c) \/ Resolve(i, c) \/ Reject(i, c))
  /\ \A c \in Calls :
       SF_vars(\E i \in 1..Len(waiters) : waiters[i].call = c /\ TimerFires(i))

FairSpec == Spec /\ Fairness

-----------------------------------------------------------------------------
(***************************************************************************)
(* Properties.                                                             *)
(***************************************************************************)

CommandOrNothing == Game!Commands \cup {Nothing}
CallResults == {"none", "running", "resolved", "rejected"}
SentSteps == [type : Game!CommandTypes \ {"UNKNOWN"},
              buttons : SUBSET Buttons, crank : Int]

(* Types: of the game, of the server, and of what PlaydateGame keeps.      *)
TypeOK ==
  /\ Game!TypeOK /\ Server!TypeOK
  /\ lastCrankAngle \in Int
  /\ queryInFlight \in BOOLEAN
  /\ todo \in [Calls -> Seq(APICalls)]
  /\ steps \in [Calls -> Seq(SentSteps)]
  /\ awaited \in [Calls -> CommandOrNothing]
  /\ outcome \in [Calls -> CallResults]
  /\ frames \in [Calls -> Nat]
  /\ abandoned \in SUBSET Game!Commands
  /\ \A c \in Calls : outcome[c] = "running" => todo[c] # <<>>

(* What may disturb a command: an earlier command that awaits replies of   *)
(* the same types and that a call gave up on, whose reply may still come;  *)
(* or an ERROR, which no call receives, to it or to an earlier screenshot: *)
(* the call goes on waiting and takes the reply to a later screenshot.     *)
Undelivered == pendingMessages \o parsed \o toRunner
Disturbed(cmd) ==
  \/ \E a \in abandoned : a.tag < cmd.tag /\ Awaits(a.type) = Awaits(cmd.type)
  \/ /\ cmd.type = "CAPTURE_FRAME"
     /\ \E i \in 1..Len(Undelivered) :
          Undelivered[i].type = "ERROR" /\ Undelivered[i].tag <= cmd.tag

(* A call is handed the reply to its own command, not to another's, though *)
(* replies carry no number and are told apart by their type only: commands *)
(* are answered, received and waited for in one order, however the flows   *)
(* interleave (SendAndWait, onData, pdk_e2e_update).                       *)
OwnReply ==
  \A i \in 1..Len(settled) :
    LET cmd == awaited[settled[i].call]
        result == settled[i].result
    IN result # Server!TimedOut /\ ~Disturbed(cmd) => result.tag = cmd.tag

(* queryInFlight tells the truth: it is set exactly while a query runs,    *)
(* and so at most one runs; a query that times out leaves it reset.        *)
Querying == {c \in Calls : outcome[c] = "running"
                             /\ Head(todo[c]).op = "queryState"}
QueryGuardHolds ==
  /\ queryInFlight <=> Querying # {}
  /\ \A c, d \in Querying : c = d

(* The runner knows the crank of the game: unless an input command was     *)
(* given up on, whenever no call that sends input is running, the angle it *)
(* would send with the next button press is the one the game injects.      *)
(* pressButtons() and tap() must therefore keep a crank set before.        *)
InputRuns == \E c \in Calls : outcome[c] = "running"
                                /\ Head(todo[c]).op \in InputOps
InputAbandoned == \E a \in abandoned : "INPUT_ACK" \in Awaits(a.type)
CrankInSync ==
  ~InputRuns /\ ~InputAbandoned => lastCrankAngle = injected_crank

(* Every call lasts the frames it promises: FrameSync, with the calls      *)
(* excused whose commands may be handed the late reply to an abandoned     *)
(* one.  For tap() these are frames on which the game sees the button.     *)
CallTypes(call) == {Steps(call)[i].type : i \in 1..Len(Steps(call))}
Excused(c) ==
  /\ outcome[c] = "running"
  /\ \E type \in CallTypes(Head(todo[c])) :
       \/ \E a \in abandoned : Awaits(a.type) = Awaits(type)
       \/ type = "CAPTURE_FRAME"
            /\ \E i \in 1..Len(Undelivered) : Undelivered[i].type = "ERROR"

Sync == INSTANCE FrameSync WITH
  MaxFrames <- MaxCommands,
  need <- [c \in Calls |-> IF outcome[c] = "running"
                           THEN Needs(Head(todo[c])) ELSE 0],
  excused <- {c \in Calls : Excused(c)}

CallsLastTheirFrames == Sync!Spec

(* Every call ends, whatever becomes of the game, of the connection and of *)
(* the server: close() destroys the socket under calls that wait.          *)
EveryCallEnds ==
  \A c \in Calls : outcome[c] = "running" ~> outcome[c] # "running"

Resolves(c) == outcome[c] = "running" /\ outcome'[c] = "resolved"

(* Disputed: no waitFrames(n) returns before n frames have gone by since   *)
(* it was called.  After one that timed out, its PONG is still received,   *)
(* kept, and handed to the next.                                           *)
NeverEarly ==
  [][\A c \in Calls : Resolves(c) /\ Head(todo[c]).op = "waitFrames" =>
       frames[c] >= Head(todo[c]).n]_vars

(* Disputed: a crank that rotateCrank() has turned is at the angle that it *)
(* was turned to, whatever the hardware's is.  The sum may be the sentinel *)
(* that gives the crank back to the hardware.                              *)
RotatesTheCrank ==
  [][\A c \in Calls :
       Resolves(c) /\ Head(todo[c]).op = "rotateCrank" /\ ~InputAbandoned =>
         \A real \in HardwareCranks : Game!Crank(real)' = awaited[c].crank]_vars
=============================================================================
