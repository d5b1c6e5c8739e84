------------------------------ MODULE GameModule ------------------------------
(***************************************************************************)
(* The game side of playdate-e2e: pdk_e2e.c, the module a game links with. *)
(*                                                                         *)
(* The game calls pdk_e2e_update() once per frame.  Until the TCP          *)
(* connection is up, a frame only drives the connection state machine; the *)
(* SDK moves it on from two callbacks.  Once connected, a frame snapshots  *)
(* the buttons, reads what the network has delivered, and dispatches at    *)
(* most ONE command, which is answered on the same frame.                  *)
(*                                                                         *)
(* Messages are whole: a command counts as read on the frame that reads    *)
(* its last byte.  `tag' numbers the commands in the order the runner      *)
(* wrote them; it is not on the wire, it tells replies apart.              *)
(***************************************************************************)
EXTENDS Integers, Sequences

CONSTANTS
  Buttons,     \* the bits of the PDButtons bitmask
  Cranks,      \* the crank values an INJECT_INPUT may carry
  NoInject,    \* PDK_E2E_CRANK_NO_INJECT, the "use the hardware" value
  MaxCommands  \* bound on the commands the runner writes

ASSUME GameAssumption == /\ NoInject \in Cranks
                         /\ MaxCommands \in Nat

VARIABLES
  conn_state,             \* pdk_e2e_conn_state
  access_pending,         \* SDK: requestAccess() has not called back yet
  open_pending,           \* SDK: open() has not called back yet
  link,                   \* TCP: the connection has not been lost
  toGame,                 \* TCP: commands written by the runner, not yet read
  toRunner,               \* TCP: replies written by the game
  recv_buf,               \* commands read, not yet dispatched
  injected_buttons, prev_injected_buttons, injected_crank,
  snapshot_current, snapshot_pushed, snapshot_released,
  real_buttons,           \* SDK: the hardware buttons at the last frame
  issued,                 \* history: the commands written so far
  ignored,                \* history: tags logged as "unknown message type"
  snapshotted,            \* history: a frame has taken a snapshot
  owed_push,              \* history: injected presses not yet shown as pushed
  owed_release            \* history: injected releases not yet shown

connVars  == <<conn_state, access_pending, open_pending, link>>
inputVars == <<injected_buttons, injected_crank>>
snapVars  == <<prev_injected_buttons, snapshot_current, snapshot_pushed,
               snapshot_released, snapshotted>>
owedVars  == <<owed_push, owed_release>>
queueVars == <<toGame, recv_buf, issued>>
replyVars == <<toRunner, ignored>>
vars == <<connVars, inputVars, snapVars, owedVars, queueVars, replyVars,
          real_buttons>>

ConnStates == {"IDLE", "REQUESTING_ACCESS", "ACCESS_GRANTED",
               "WAITING_CONNECT", "CONNECTED"}
CommandTypes == {"PING", "CAPTURE_FRAME", "INJECT_INPUT", "QUERY_STATE",
                 "RELEASE_INPUT", "UNKNOWN"}
ReplyTypes == {"READY", "PONG", "FRAME_DATA", "INPUT_ACK", "STATE_VALUE",
               "STATE_NOT_FOUND", "ERROR"}

(* `wellFormed' is what the two handlers that check their payload look at: *)
(* an INJECT_INPUT of 5 bytes, a QUERY_STATE that ends in a null byte.     *)
Commands == [type : CommandTypes, tag : Nat, buttons : SUBSET Buttons,
             crank : Cranks, wellFormed : BOOLEAN]
Replies == [type : ReplyTypes, tag : Nat]

(* What the runner may write: only INJECT_INPUT carries data.              *)
Bare(types, tag, wf) ==
  [type : types, tag : {tag}, buttons : {{}}, crank : {NoInject},
   wellFormed : wf]
NewCommands(tag) ==
  Bare({"PING", "CAPTURE_FRAME", "RELEASE_INPUT", "UNKNOWN"}, tag, {TRUE})
    \cup Bare({"QUERY_STATE"}, tag, BOOLEAN)
    \cup Bare({"INJECT_INPUT"}, tag, {FALSE})
    \cup [type : {"INJECT_INPUT"}, tag : {tag}, buttons : SUBSET Buttons,
          crank : Cranks, wellFormed : {TRUE}]

(***************************************************************************)
(* pdk_e2e_init() up to its call of requestAccess().                       *)
(***************************************************************************)
Init ==
  /\ conn_state = "REQUESTING_ACCESS"
  /\ access_pending = TRUE
  /\ open_pending = FALSE
  /\ link = TRUE
  /\ toGame = <<>> /\ recv_buf = <<>> /\ issued = 0
  /\ toRunner = <<>> /\ ignored = {}
  /\ injected_buttons = {} /\ prev_injected_buttons = {}
  /\ injected_crank = NoInject
  /\ snapshot_current = {} /\ snapshot_pushed = {} /\ snapshot_released = {}
  /\ real_buttons \in SUBSET Buttons
  /\ snapshotted = FALSE
  /\ owed_push = {} /\ owed_release = {}

(***************************************************************************)
(* send_message(): the results of the two writes are not looked at, so on  *)
(* a lost connection the reply is gone and nothing else happens.           *)
(***************************************************************************)
SendMessage(type, tag) ==
  toRunner' = IF link THEN Append(toRunner, [type |-> type, tag |-> tag])
                      ELSE toRunner

-----------------------------------------------------------------------------
(* The command handlers and dispatch_command().                            *)

HandlePing(m) == SendMessage("PONG", m.tag) /\ UNCHANGED inputVars

(* ERROR: getDisplayFrame() returned NULL.                                 *)
HandleCaptureFrame(m) ==
  /\ \E reply \in {"FRAME_DATA", "ERROR"} : SendMessage(reply, m.tag)
  /\ UNCHANGED inputVars

HandleInjectInput(m) ==
  \/ /\ ~m.wellFormed
     /\ SendMessage("ERROR", m.tag)
     /\ UNCHANGED inputVars
  \/ /\ m.wellFormed
     /\ injected_buttons' = m.buttons
     /\ injected_crank' = m.crank
     /\ SendMessage("INPUT_ACK", m.tag)

(* Which answer a name gets is the registry's business: STATE_VALUE, or    *)
(* STATE_NOT_FOUND, or ERROR for a string that is too long.                *)
HandleQueryState(m) ==
  /\ \/ /\ ~m.wellFormed
        /\ SendMessage("ERROR", m.tag)
     \/ /\ m.wellFormed
        /\ \E reply \in {"STATE_VALUE", "STATE_NOT_FOUND", "ERROR"} :
              SendMessage(reply, m.tag)
  /\ UNCHANGED inputVars

(* A slip of handle_release_input(): the crank reset to 0 degrees and not  *)
(* to the sentinel.                                                        *)
ReleaseToZero(m) ==
  /\ injected_buttons' = {}
  /\ injected_crank' = 0
  /\ SendMessage("INPUT_ACK", m.tag)

HandleReleaseInput(m) ==
  /\ injected_buttons' = {}
  /\ injected_crank' = NoInject
  /\ SendMessage("INPUT_ACK", m.tag)

DispatchCommand(m) ==
  \/ m.type = "PING"          /\ HandlePing(m)         /\ UNCHANGED ignored
  \/ m.type = "CAPTURE_FRAME" /\ HandleCaptureFrame(m) /\ UNCHANGED ignored
  \/ m.type = "INJECT_INPUT"  /\ HandleInjectInput(m)  /\ UNCHANGED ignored
  \/ m.type = "QUERY_STATE"   /\ HandleQueryState(m)   /\ UNCHANGED ignored
  \/ m.type = "RELEASE_INPUT" /\ HandleReleaseInput(m) /\ UNCHANGED ignored
  \/ /\ m.type = "UNKNOWN"
     /\ ignored' = ignored \cup {m.tag}
     /\ UNCHANGED <<inputVars, toRunner>>

-----------------------------------------------------------------------------
(* The SDK's callbacks.                                                    *)

OnAccessGranted(granted) ==
  /\ access_pending
  /\ access_pending' = FALSE
  /\ conn_state' = IF granted THEN "ACCESS_GRANTED" ELSE "IDLE"
  /\ UNCHANGED <<open_pending, link, inputVars, snapVars, owedVars,
                 queueVars, replyVars, real_buttons>>

(* A slip of on_connected(): a failure is logged but the state is kept.    *)
OnConnectedKeepsWaiting(success) ==
  /\ open_pending
  /\ open_pending' = FALSE
  /\ \/ success /\ conn_state' = "CONNECTED" /\ SendMessage("READY", 0)
     \/ ~success /\ UNCHANGED <<conn_state, toRunner>>
  /\ UNCHANGED <<access_pending, link, inputVars, snapVars, owedVars,
                 queueVars, ignored, real_buttons>>

OnConnected(success) ==
  /\ open_pending
  /\ open_pending' = FALSE
  /\ \/ success /\ conn_state' = "CONNECTED" /\ SendMessage("READY", 0)
     \/ ~success /\ conn_state' = "IDLE" /\ UNCHANGED toRunner
  /\ UNCHANGED <<access_pending, link, inputVars, snapVars, owedVars,
                 queueVars, ignored, real_buttons>>

-----------------------------------------------------------------------------
(* One frame of the game.  `real' is the hardware state of this frame.     *)

(* A slip of drive_connection(): on_connected() has run inside open(), and *)
(* the assignment after it overwrites what it set.                         *)
DriveConnectionSync ==
  \/ /\ conn_state = "ACCESS_GRANTED"
     /\ conn_state' = "WAITING_CONNECT"
     /\ UNCHANGED <<access_pending, open_pending, link>>
  \/ /\ conn_state # "ACCESS_GRANTED"
     /\ UNCHANGED connVars

(* drive_connection(): newConnection() may return NULL; open() answers     *)
(* later through on_connected(), never inside the call.                    *)
DriveConnection ==
  \/ /\ conn_state = "ACCESS_GRANTED"
     /\ conn_state' = "IDLE"
     /\ UNCHANGED <<access_pending, open_pending, link>>
  \/ /\ conn_state = "ACCESS_GRANTED"
     /\ open_pending' = TRUE
     /\ conn_state' = "WAITING_CONNECT"
     /\ UNCHANGED <<access_pending, link>>
  \/ /\ conn_state # "ACCESS_GRANTED"
     /\ UNCHANGED connVars

UpdateDisconnected(real) ==
  /\ conn_state # "CONNECTED"
  /\ DriveConnection
  /\ real_buttons' = real
  /\ UNCHANGED <<inputVars, snapVars, owedVars, queueVars, replyVars>>

(* Slips of snapshot_buttons(): the previous bitmask overwritten before    *)
(* the edges are computed, and never overwritten at all.                   *)
SnapshotPrevFirst(real) ==
  /\ real_buttons' = real
  /\ snapshot_current'  = real \cup injected_buttons
  /\ snapshot_pushed'   = real \ real_buttons
  /\ snapshot_released' = real_buttons \ real
  /\ prev_injected_buttons' = injected_buttons
  /\ snapshotted' = TRUE
SnapshotPrevStale(real) ==
  /\ real_buttons' = real
  /\ snapshot_current'  = real \cup injected_buttons
  /\ snapshot_pushed'   = (real \ real_buttons)
                            \cup (injected_buttons \ prev_injected_buttons)
  /\ snapshot_released' = (real_buttons \ real)
                            \cup (prev_injected_buttons \ injected_buttons)
  /\ snapshotted' = TRUE
  /\ UNCHANGED prev_injected_buttons

(* snapshot_buttons(), with getButtonState()'s edges between two frames.   *)
SnapshotButtons(real) ==
  LET inj_pushed   == injected_buttons \ prev_injected_buttons
      inj_released == prev_injected_buttons \ injected_buttons
  IN /\ real_buttons' = real
     /\ snapshot_current'  = real \cup injected_buttons
     /\ snapshot_pushed'   = (real \ real_buttons) \cup inj_pushed
     /\ snapshot_released' = (real_buttons \ real) \cup inj_released
     /\ prev_injected_buttons' = injected_buttons
     /\ snapshotted' = TRUE

(* History: an edge is owed from the command that makes it until a frame   *)
(* shows it to the game, be it the frame of the command.                   *)
OweEdges ==
  /\ owed_push' = (owed_push \cup (injected_buttons' \ injected_buttons))
                    \ snapshot_pushed'
  /\ owed_release' = (owed_release \cup (injected_buttons \ injected_buttons'))
                       \ snapshot_released'

(* Slips of the compaction: the commands behind the first are thrown away, *)
(* and an unknown message is never stepped over.                           *)
ProcessDropsRest(buf) ==
  /\ recv_buf' = <<>>
  /\ \/ buf = <<>> /\ UNCHANGED <<inputVars, replyVars>>
     \/ buf # <<>> /\ DispatchCommand(Head(buf))
ProcessSticksOnUnknown(buf) ==
  LET ready == buf # <<>> /\ Head(buf).type # "UNKNOWN"
  IN \/ /\ ~ready
        /\ recv_buf' = buf
        /\ UNCHANGED <<inputVars, replyVars>>
     \/ /\ ready
        /\ DispatchCommand(Head(buf))
        /\ recv_buf' = Tail(buf)

(* The parse, dispatch and compaction that end a connected frame.          *)
ProcessOneCommand(buf) ==
  \/ /\ buf = <<>>
     /\ recv_buf' = buf
     /\ UNCHANGED <<inputVars, replyVars>>
  \/ /\ buf # <<>>
     /\ DispatchCommand(Head(buf))
     /\ recv_buf' = Tail(buf)

(* A frame that reads the first n commands of what the runner wrote.  They *)
(* fit in the buffer: MaxCommands is to be small enough, as Framing models *)
(* the frame that finds its buffer full.                                   *)
UpdateConnected(real, n) ==
  /\ conn_state = "CONNECTED"
  /\ SnapshotButtons(real)
  /\ ProcessOneCommand(recv_buf \o SubSeq(toGame, 1, n))
  /\ toGame' = SubSeq(toGame, n + 1, Len(toGame))
  /\ OweEdges
  /\ UNCHANGED <<connVars, issued>>

(* getBytesAvailable() or read() fails: the frame has already taken its    *)
(* snapshot, and everything read but not dispatched is dropped.            *)
UpdateLost(real) ==
  /\ conn_state = "CONNECTED"
  /\ ~link
  /\ SnapshotButtons(real)
  /\ conn_state' = "IDLE"
  /\ recv_buf' = <<>>
  /\ UNCHANGED <<access_pending, open_pending, link, inputVars, toGame,
                 issued, replyVars>>
  /\ OweEdges

-----------------------------------------------------------------------------
(* The other end of the connection.                                        *)

WriteCommand(m) ==
  /\ conn_state = "CONNECTED" /\ link
  /\ issued < MaxCommands
  /\ toGame' = Append(toGame, m)
  /\ issued' = issued + 1
  /\ UNCHANGED <<connVars, inputVars, snapVars, owedVars, recv_buf,
                 replyVars, real_buttons>>

LoseLink ==
  /\ conn_state = "CONNECTED" /\ link
  /\ link' = FALSE
  /\ UNCHANGED <<conn_state, access_pending, open_pending, inputVars,
                 snapVars, owedVars, queueVars, replyVars, real_buttons>>

Update ==
  \E real \in SUBSET Buttons :
    \/ UpdateDisconnected(real)
    \/ \E n \in 0..Len(toGame) : UpdateConnected(real, n)
    \/ UpdateLost(real)

Callback ==
  \E ok \in BOOLEAN : OnAccessGranted(ok) \/ OnConnected(ok)

Next ==
  \/ Update
  \/ Callback
  \/ \E m \in NewCommands(issued + 1) : WriteCommand(m)
  \/ LoseLink

Spec == Init /\ [][Next]_vars

(* pdk_e2e_crank(): what the game reads the crank by.                      *)
Crank(real) == IF injected_crank # NoInject THEN injected_crank ELSE real

-----------------------------------------------------------------------------
(***************************************************************************)
(* Properties.                                                             *)
(***************************************************************************)

(* Types: every variable holds what its C declaration allows.              *)
TypeOK ==
  /\ conn_state \in ConnStates
  /\ access_pending \in BOOLEAN /\ open_pending \in BOOLEAN
  /\ link \in BOOLEAN
  /\ toGame \in Seq(Commands) /\ recv_buf \in Seq(Commands)
  /\ toRunner \in Seq(Replies)
  /\ issued \in Nat /\ ignored \in SUBSET Nat
  /\ injected_buttons \in SUBSET Buttons
  /\ prev_injected_buttons \in SUBSET Buttons
  /\ injected_crank \in Cranks
  /\ snapshot_current \in SUBSET Buttons
  /\ snapshot_pushed \in SUBSET Buttons
  /\ snapshot_released \in SUBSET Buttons
  /\ real_buttons \in SUBSET Buttons
  /\ snapshotted \in BOOLEAN
  /\ owed_push \in SUBSET Buttons /\ owed_release \in SUBSET Buttons

(* The connection state machine never waits in vain: it sits in a waiting  *)
(* state exactly while the SDK still owes the callback that leaves it      *)
(* (on_access_granted, on_connected).  A callback that could run inside    *)
(* open() would be overwritten and break this.                             *)
NeverWaitsInVain ==
  /\ conn_state = "REQUESTING_ACCESS" <=> access_pending
  /\ conn_state = "WAITING_CONNECT" <=> open_pending

(* No injected press or release is lost: whatever a command pressed        *)
(* (released) and no frame has shown yet is still going to be reported by  *)
(* the next frame, even if the commands that follow undo it.  It needs     *)
(* snapshot_buttons() on every connected frame, before the next command    *)
(* changes what it compares with.                                          *)
NoInjectedEdgeLost ==
  /\ owed_push \subseteq injected_buttons \ prev_injected_buttons
  /\ owed_release \subseteq prev_injected_buttons \ injected_buttons

(* Between two frames of a connected game, a button that appears in        *)
(* `current' is reported pushed, one that goes is reported released, and   *)
(* nothing is pushed that is not held; when only injected buttons are in   *)
(* play the edges are exactly the difference of the two frames.            *)
EdgesMatchFrames ==
  [][\A real \in SUBSET Buttons : \A n \in 0..Len(toGame) :
       snapshotted /\ (UpdateConnected(real, n) \/ UpdateLost(real)) =>
         LET appeared == snapshot_current' \ snapshot_current
             gone     == snapshot_current \ snapshot_current'
         IN /\ appeared \subseteq snapshot_pushed'
            /\ gone \subseteq snapshot_released'
            /\ snapshot_pushed' \subseteq snapshot_current'
            /\ real_buttons = {} /\ real = {} =>
                 /\ snapshot_pushed' = appeared
                 /\ snapshot_released' = gone]_vars

(* The commands written on a live connection are all accounted for: READY  *)
(* comes first and once, each recognised command is answered exactly once  *)
(* and in the order written, and the rest is still queued in order behind  *)
(* what has been answered.  Nothing is dropped, overtaken or answered      *)
(* twice by the receive buffer's read, dispatch and compaction.            *)
Queued == recv_buf \o toGame
Dispatched == issued - Len(Queued)
RepliesComplete(replies, n, skipped) ==
  /\ replies # <<>> /\ replies[1] = [type |-> "READY", tag |-> 0]
  /\ \A i \in 2..Len(replies) : replies[i].type # "READY"
  /\ \A i, j \in 1..Len(replies) : i < j => replies[i].tag < replies[j].tag
  /\ {replies[i].tag : i \in 2..Len(replies)} = (1..n) \ skipped
EveryCommandAccountedFor ==
  conn_state = "CONNECTED" /\ link =>
    /\ \A i \in 1..Len(Queued) : Queued[i].tag = Dispatched + i
    /\ RepliesComplete(toRunner, Dispatched, ignored)

(* Disputed: what the documents say of the buttons a game reads.           *)
(* pdk_e2e_get_buttons() is a drop-in replacement for getButtonState(): on *)
(* every frame a button held on the hardware is in `current'.  The code    *)
(* takes its snapshot only while connected.                                *)
HardwarePassesThrough ==
  [][\A real \in SUBSET Buttons :
       \/ UpdateDisconnected(real)
       \/ \E n \in 0..Len(toGame) : UpdateConnected(real, n)
       => real \subseteq snapshot_current']_vars

(* The SDK calls back, the simulator keeps calling update(), and TCP       *)
(* delivers what was written: pdk_e2e_update() reads it all in one go.     *)
Fairness ==
  /\ WF_vars(Callback)
  /\ WF_vars(\E real \in SUBSET Buttons :
               UpdateDisconnected(real) \/ UpdateConnected(real, Len(toGame)))

FairSpec == Spec /\ Fairness

(* The handshake ends: connected, or given up.                             *)
Settles == <>(conn_state \in {"CONNECTED", "IDLE"})

(* A command that was written is dispatched some frames later, unless the  *)
(* connection is lost first, however many commands are queued before it.   *)
CommandsDispatched ==
  \A t \in 1..MaxCommands :
    issued >= t ~> (Dispatched >= t \/ ~link)
=============================================================================
