-------------------------- MODULE GameModule_proofs --------------------------
(***************************************************************************)
(* Theorems about GameModule, for every set of buttons and crank values    *)
(* and every bound on the commands.                                        *)
(***************************************************************************)
EXTENDS GameModule, SequenceTheorems, TLAPS

(* Cutting a channel in what this frame reads and what it leaves.          *)
LEMMA Cut ==
  ASSUME NEW S, NEW s \in Seq(S), NEW n \in 0..Len(s)
  PROVE  /\ SubSeq(s, 1, n) \in Seq(S)
         /\ Len(SubSeq(s, 1, n)) = n
         /\ \A i \in 1..n : SubSeq(s, 1, n)[i] = s[i]
         /\ SubSeq(s, n + 1, Len(s)) \in Seq(S)
         /\ Len(SubSeq(s, n + 1, Len(s))) = Len(s) - n
         /\ \A i \in 1..(Len(s) - n) :
               SubSeq(s, n + 1, Len(s))[i] = s[n + i]
  <1>1. Len(s) \in Nat
    BY LenProperties
  <1>2. \A i \in 1..Len(s) : s[i] \in S
    BY ElementOfSeq
  <1>3. \A i \in 1..n : s[i] \in S
    BY <1>1, <1>2
  <1>4. \A i \in (n + 1)..Len(s) : s[i] \in S
    BY <1>1, <1>2
  <1>5. /\ SubSeq(s, 1, n) \in Seq(S)
        /\ Len(SubSeq(s, 1, n)) = IF 1 <= n THEN n - 1 + 1 ELSE 0
        /\ \A i \in 1..(n - 1 + 1) : SubSeq(s, 1, n)[i] = s[1 + i - 1]
    BY <1>1, <1>3, SubSeqProperties
  <1>6. /\ SubSeq(s, n + 1, Len(s)) \in Seq(S)
        /\ Len(SubSeq(s, n + 1, Len(s))) =
             IF n + 1 <= Len(s) THEN Len(s) - (n + 1) + 1 ELSE 0
        /\ \A i \in 1..(Len(s) - (n + 1) + 1) :
             SubSeq(s, n + 1, Len(s))[i] = s[n + 1 + i - 1]
    BY <1>1, <1>4, SubSeqProperties
  <1>7. QED
    BY <1>1, <1>5, <1>6

(* A command the runner writes is a command.                               *)
LEMMA NewCommandsAreCommands ==
  ASSUME issued \in Nat, NEW m \in NewCommands(issued + 1)
  PROVE  m \in Commands /\ m.tag = issued + 1
  <1>1. ASSUME NEW types \in SUBSET CommandTypes, NEW wf \in SUBSET BOOLEAN,
               m \in Bare(types, issued + 1, wf)
        PROVE  m \in Commands /\ m.tag = issued + 1
    BY <1>1, GameAssumption DEF Bare, Commands
  <1>2. CASE m \in Bare({"PING", "CAPTURE_FRAME", "RELEASE_INPUT", "UNKNOWN"},
                        issued + 1, {TRUE})
    BY <1>1, <1>2 DEF CommandTypes
  <1>3. CASE m \in Bare({"QUERY_STATE"}, issued + 1, BOOLEAN)
    BY <1>1, <1>3 DEF CommandTypes
  <1>4. CASE m \in Bare({"INJECT_INPUT"}, issued + 1, {FALSE})
    BY <1>1, <1>4 DEF CommandTypes
  <1>5. CASE m \in [type : {"INJECT_INPUT"}, tag : {issued + 1},
                    buttons : SUBSET Buttons, crank : Cranks,
                    wellFormed : {TRUE}]
    <2>1. ASSUME NEW wf \in SUBSET BOOLEAN, NEW types \in SUBSET CommandTypes,
                 m \in [type : types, tag : {issued + 1},
                       buttons : SUBSET Buttons, crank : Cranks,
                       wellFormed : wf]
          PROVE  m \in Commands /\ m.tag = issued + 1
      BY <2>1 DEF Commands
    <2>2. QED
      BY <1>5, <2>1 DEF CommandTypes
  <1>6. QED
    BY <1>2, <1>3, <1>4, <1>5 DEF NewCommands

(* A reply is appended, or lost with the connection.                       *)
LEMMA SendTyped ==
  ASSUME NEW type \in ReplyTypes, NEW tag \in Nat, toRunner \in Seq(Replies),
         SendMessage(type, tag)
  PROVE  toRunner' \in Seq(Replies)
  <1>1. [type |-> type, tag |-> tag] \in Replies
    BY DEF Replies
  <1>2. QED
    BY <1>1, AppendProperties DEF SendMessage

(* Dispatching a command keeps every variable it assigns in its type.      *)
LEMMA DispatchTyped ==
  ASSUME TypeOK, NEW m \in Commands, DispatchCommand(m)
  PROVE  /\ injected_buttons' \in SUBSET Buttons
         /\ injected_crank' \in Cranks
         /\ toRunner' \in Seq(Replies)
         /\ ignored' \in SUBSET Nat
  <1>1. m.tag \in Nat /\ m.buttons \in SUBSET Buttons /\ m.crank \in Cranks
    BY DEF Commands
  <1>2. /\ injected_buttons \in SUBSET Buttons /\ injected_crank \in Cranks
        /\ toRunner \in Seq(Replies) /\ ignored \in SUBSET Nat
    BY DEF TypeOK
  <1>3. CASE m.type = "PING" /\ HandlePing(m) /\ UNCHANGED ignored
    BY <1>1, <1>2, <1>3, SendTyped DEF HandlePing, inputVars, ReplyTypes
  <1>4. CASE m.type = "CAPTURE_FRAME" /\ HandleCaptureFrame(m)
               /\ UNCHANGED ignored
    BY <1>1, <1>2, <1>4, SendTyped
       DEF HandleCaptureFrame, inputVars, ReplyTypes
  <1>5. CASE m.type = "INJECT_INPUT" /\ HandleInjectInput(m)
               /\ UNCHANGED ignored
    BY <1>1, <1>2, <1>5, SendTyped
       DEF HandleInjectInput, inputVars, ReplyTypes
  <1>6. CASE m.type = "QUERY_STATE" /\ HandleQueryState(m)
               /\ UNCHANGED ignored
    BY <1>1, <1>2, <1>6, SendTyped
       DEF HandleQueryState, inputVars, ReplyTypes
  <1>7. CASE m.type = "RELEASE_INPUT" /\ HandleReleaseInput(m)
               /\ UNCHANGED ignored
    BY <1>1, <1>2, <1>7, SendTyped, GameAssumption
       DEF HandleReleaseInput, ReplyTypes
  <1>8. CASE /\ m.type = "UNKNOWN"
             /\ ignored' = ignored \cup {m.tag}
             /\ UNCHANGED <<inputVars, toRunner>>
    BY <1>1, <1>2, <1>8 DEF inputVars
  <1>9. QED
    BY <1>3, <1>4, <1>5, <1>6, <1>7, <1>8 DEF DispatchCommand

(* A frame's snapshot, and the edges it owes, are sets of buttons.         *)
LEMMA SnapshotTyped ==
  ASSUME TypeOK, NEW real \in SUBSET Buttons, SnapshotButtons(real),
         injected_buttons' \in SUBSET Buttons, OweEdges
  PROVE  /\ real_buttons' \in SUBSET Buttons
         /\ snapshot_current' \in SUBSET Buttons
         /\ snapshot_pushed' \in SUBSET Buttons
         /\ snapshot_released' \in SUBSET Buttons
         /\ prev_injected_buttons' \in SUBSET Buttons
         /\ snapshotted' \in BOOLEAN
         /\ owed_push' \in SUBSET Buttons
         /\ owed_release' \in SUBSET Buttons
  BY DEF SnapshotButtons, OweEdges, TypeOK

(* Every variable keeps its type (the declarations of pdk_e2e.c).          *)
THEOREM TypeCorrect == Spec => []TypeOK
  <1>1. Init => TypeOK
    <2>1. <<>> \in Seq(Commands) /\ <<>> \in Seq(Replies)
      BY EmptySeq
    <2> SUFFICES ASSUME Init PROVE TypeOK
      OBVIOUS
    <2>2. /\ conn_state \in ConnStates
          /\ access_pending \in BOOLEAN /\ open_pending \in BOOLEAN
          /\ link \in BOOLEAN /\ snapshotted \in BOOLEAN
      BY DEF Init, ConnStates
    <2>3. /\ toGame \in Seq(Commands) /\ recv_buf \in Seq(Commands)
          /\ toRunner \in Seq(Replies)
          /\ issued \in Nat /\ ignored \in SUBSET Nat
      BY <2>1 DEF Init
    <2>4. QED
      BY <2>2, <2>3, GameAssumption DEF Init, TypeOK
  <1>2. TypeOK /\ [Next]_vars => TypeOK'
    <2> SUFFICES ASSUME TypeOK, [Next]_vars
                 PROVE  TypeOK'
      OBVIOUS
    <2> USE DEF connVars, inputVars, snapVars, owedVars, queueVars, replyVars
    <2>1. ASSUME NEW real \in SUBSET Buttons, UpdateDisconnected(real)
          PROVE  TypeOK'
      BY <2>1 DEF UpdateDisconnected, DriveConnection, TypeOK, ConnStates
    <2>2. ASSUME NEW real \in SUBSET Buttons, NEW n \in 0..Len(toGame),
                 UpdateConnected(real, n)
          PROVE  TypeOK'
      <3> DEFINE buf == recv_buf \o SubSeq(toGame, 1, n)
      <3>1. toGame \in Seq(Commands) /\ recv_buf \in Seq(Commands)
        BY DEF TypeOK
      <3>2. buf \in Seq(Commands) /\ toGame' \in Seq(Commands)
        BY <2>2, <3>1, Cut, ConcatProperties DEF UpdateConnected
      <3> HIDE DEF buf
      <3>3. /\ recv_buf' \in Seq(Commands)
            /\ injected_buttons' \in SUBSET Buttons
            /\ injected_crank' \in Cranks
            /\ toRunner' \in Seq(Replies)
            /\ ignored' \in SUBSET Nat
        <4>1. ProcessOneCommand(buf)
          BY <2>2 DEF UpdateConnected, buf
        <4>2. CASE buf = <<>> /\ recv_buf' = buf
                     /\ UNCHANGED <<inputVars, replyVars>>
          BY <3>2, <4>2 DEF TypeOK
        <4>3. CASE /\ buf # <<>>
                   /\ DispatchCommand(Head(buf))
                   /\ recv_buf' = Tail(buf)
          <5>1. Head(buf) \in Commands /\ Tail(buf) \in Seq(Commands)
            BY <3>2, <4>3, HeadTailProperties
          <5>2. QED
            BY <4>3, <5>1, DispatchTyped
        <4>4. QED
          BY <4>1, <4>2, <4>3 DEF ProcessOneCommand
      <3>4. SnapshotButtons(real) /\ OweEdges /\ UNCHANGED <<connVars, issued>>
        BY <2>2 DEF UpdateConnected
      <3>5. QED
        BY <3>2, <3>3, <3>4, SnapshotTyped DEF TypeOK
    <2>3. ASSUME NEW real \in SUBSET Buttons, UpdateLost(real)
          PROVE  TypeOK'
      <3>1. <<>> \in Seq(Commands)
        BY EmptySeq
      <3>2. SnapshotButtons(real) /\ OweEdges
              /\ injected_buttons' \in SUBSET Buttons
        BY <2>3 DEF UpdateLost, TypeOK
      <3>3. QED
        BY <2>3, <3>1, <3>2, SnapshotTyped DEF UpdateLost, TypeOK, ConnStates
    <2>4. ASSUME NEW granted \in BOOLEAN, OnAccessGranted(granted)
          PROVE  TypeOK'
      BY <2>4 DEF OnAccessGranted, TypeOK, ConnStates
    <2>5. ASSUME NEW success \in BOOLEAN, OnConnected(success)
          PROVE  TypeOK'
      <3>1. toRunner' \in Seq(Replies)
        BY <2>5, SendTyped DEF OnConnected, TypeOK, ReplyTypes
      <3>2. QED
        BY <2>5, <3>1 DEF OnConnected, TypeOK, ConnStates
    <2>6. ASSUME NEW m \in NewCommands(issued + 1), WriteCommand(m)
          PROVE  TypeOK'
      <3>1. Append(toGame, m) \in Seq(Commands)
        BY NewCommandsAreCommands, AppendProperties DEF TypeOK
      <3>2. QED
        BY <2>6, <3>1 DEF WriteCommand, TypeOK
    <2>7. CASE LoseLink
      BY <2>7 DEF LoseLink, TypeOK
    <2>8. CASE UNCHANGED vars
      BY <2>8 DEF vars, TypeOK
    <2>9. QED
      BY <2>1, <2>2, <2>3, <2>4, <2>5, <2>6, <2>7, <2>8
         DEF Next, Update, Callback
  <1>3. QED
    BY <1>1, <1>2, PTL DEF Spec

-----------------------------------------------------------------------------
(* The connection state machine waits only for a callback still to come:   *)
(* each callback comes once, and the state it finds is the waiting one.    *)
THEOREM NoVainWait == Spec => []NeverWaitsInVain
  <1>1. Init => NeverWaitsInVain
    BY DEF Init, NeverWaitsInVain
  <1>2. NeverWaitsInVain /\ [Next]_vars => NeverWaitsInVain'
    <2> SUFFICES ASSUME NeverWaitsInVain, [Next]_vars
                 PROVE  NeverWaitsInVain'
      OBVIOUS
    <2> USE DEF NeverWaitsInVain
    <2>1. ASSUME NEW real \in SUBSET Buttons, UpdateDisconnected(real)
          PROVE  NeverWaitsInVain'
      BY <2>1 DEF UpdateDisconnected, DriveConnection, connVars
    <2>2. ASSUME NEW real \in SUBSET Buttons, NEW n \in 0..Len(toGame),
                 UpdateConnected(real, n)
          PROVE  NeverWaitsInVain'
      BY <2>2 DEF UpdateConnected, connVars
    <2>3. ASSUME NEW real \in SUBSET Buttons, UpdateLost(real)
          PROVE  NeverWaitsInVain'
      BY <2>3 DEF UpdateLost
    <2>4. ASSUME NEW granted \in BOOLEAN, OnAccessGranted(granted)
          PROVE  NeverWaitsInVain'
      BY <2>4 DEF OnAccessGranted
    <2>5. ASSUME NEW success \in BOOLEAN, OnConnected(success)
          PROVE  NeverWaitsInVain'
      BY <2>5 DEF OnConnected
    <2>6. ASSUME NEW m \in NewCommands(issued + 1), WriteCommand(m)
          PROVE  NeverWaitsInVain'
      BY <2>6 DEF WriteCommand, connVars
    <2>7. CASE LoseLink
      BY <2>7 DEF LoseLink
    <2>8. CASE UNCHANGED vars
      BY <2>8 DEF vars, connVars
    <2>9. QED
      BY <2>1, <2>2, <2>3, <2>4, <2>5, <2>6, <2>7, <2>8
         DEF Next, Update, Callback
  <1>3. QED
    BY <1>1, <1>2, PTL DEF Spec

-----------------------------------------------------------------------------
(* The inductive invariant of the input half.  While connected, `current'  *)
(* is the hardware and the injection of the last frame; once a frame has   *)
(* taken a snapshot the connection never comes up again, so no frame in    *)
(* between can have gone unseen.                                           *)
InputInv ==
  /\ NeverWaitsInVain
  /\ NoInjectedEdgeLost
  /\ snapshotted => conn_state \in {"CONNECTED", "IDLE"}
  /\ snapshotted /\ conn_state = "CONNECTED" =>
       snapshot_current = real_buttons \cup prev_injected_buttons

(* A snapshot settles every edge owed, and the commands of the frame make  *)
(* the new ones.                                                           *)
LEMMA SnapshotSettles ==
  ASSUME TypeOK, TypeOK', NoInjectedEdgeLost, NEW real \in SUBSET Buttons,
         SnapshotButtons(real), OweEdges
  PROVE  /\ NoInjectedEdgeLost'
         /\ snapshot_current' = real_buttons' \cup prev_injected_buttons'
  <1>1. owed_push \subseteq snapshot_pushed'
    BY DEF SnapshotButtons, NoInjectedEdgeLost
  <1>2. owed_release \subseteq snapshot_released'
    BY DEF SnapshotButtons, NoInjectedEdgeLost
  <1>3. prev_injected_buttons' = injected_buttons
    BY DEF SnapshotButtons
  <1>4. owed_push' \subseteq injected_buttons' \ prev_injected_buttons'
    BY <1>1, <1>3 DEF OweEdges
  <1>5. owed_release' \subseteq prev_injected_buttons' \ injected_buttons'
    BY <1>2, <1>3 DEF OweEdges
  <1>6. QED
    BY <1>4, <1>5 DEF NoInjectedEdgeLost, SnapshotButtons

(* The invariant of the injected input holds.                              *)
LEMMA InputInvariant == Spec => []InputInv
  <1>1. Init => InputInv
    BY DEF Init, InputInv, NeverWaitsInVain, NoInjectedEdgeLost
  <1>2. TypeOK /\ TypeOK' /\ InputInv /\ NeverWaitsInVain' /\ [Next]_vars
          => InputInv'
    <2> SUFFICES ASSUME TypeOK, TypeOK', InputInv, NeverWaitsInVain',
                        [Next]_vars
                 PROVE  InputInv'
      OBVIOUS
    <2> USE DEF connVars, inputVars, snapVars, owedVars, queueVars, replyVars
    <2>1. ASSUME NEW real \in SUBSET Buttons, UpdateDisconnected(real)
          PROVE  InputInv'
      BY <2>1 DEF UpdateDisconnected, DriveConnection, InputInv,
                  NoInjectedEdgeLost
    <2>2. ASSUME NEW real \in SUBSET Buttons, NEW n \in 0..Len(toGame),
                 UpdateConnected(real, n)
          PROVE  InputInv'
      <3>1. SnapshotButtons(real) /\ OweEdges /\ conn_state' = "CONNECTED"
        BY <2>2 DEF UpdateConnected
      <3>2. QED
        BY <3>1, SnapshotSettles DEF InputInv
    <2>3. ASSUME NEW real \in SUBSET Buttons, UpdateLost(real)
          PROVE  InputInv'
      <3>1. SnapshotButtons(real) /\ OweEdges /\ conn_state' = "IDLE"
        BY <2>3 DEF UpdateLost
      <3>2. QED
        BY <3>1, SnapshotSettles DEF InputInv
    <2>4. ASSUME NEW granted \in BOOLEAN, OnAccessGranted(granted)
          PROVE  InputInv'
      BY <2>4 DEF OnAccessGranted, InputInv, NeverWaitsInVain,
                  NoInjectedEdgeLost
    <2>5. ASSUME NEW success \in BOOLEAN, OnConnected(success)
          PROVE  InputInv'
      BY <2>5 DEF OnConnected, InputInv, NeverWaitsInVain, NoInjectedEdgeLost
    <2>6. ASSUME NEW m \in NewCommands(issued + 1), WriteCommand(m)
          PROVE  InputInv'
      BY <2>6 DEF WriteCommand, InputInv, NoInjectedEdgeLost
    <2>7. CASE LoseLink
      BY <2>7 DEF LoseLink, InputInv, NoInjectedEdgeLost
    <2>8. CASE UNCHANGED vars
      BY <2>8 DEF vars, InputInv, NoInjectedEdgeLost
    <2>9. QED
      BY <2>1, <2>2, <2>3, <2>4, <2>5, <2>6, <2>7, <2>8
         DEF Next, Update, Callback
  <1>3. QED
    BY <1>1, <1>2, TypeCorrect, NoVainWait, PTL DEF Spec

(* Every injected press and release is reported to the game: none is lost, *)
(* however commands, frames and hardware buttons interleave.               *)
THEOREM InjectedEdgesKept == Spec => []NoInjectedEdgeLost
  BY InputInvariant, PTL DEF InputInv

(* The edges a game reads agree with the buttons it reads, frame to frame. *)
THEOREM EdgesAgree == Spec => EdgesMatchFrames
  <1>1. InputInv /\ [Next]_vars =>
          [\A real \in SUBSET Buttons : \A n \in 0..Len(toGame) :
             snapshotted /\ (UpdateConnected(real, n) \/ UpdateLost(real)) =>
               LET appeared == snapshot_current' \ snapshot_current
                   gone     == snapshot_current \ snapshot_current'
               IN /\ appeared \subseteq snapshot_pushed'
                  /\ gone \subseteq snapshot_released'
                  /\ snapshot_pushed' \subseteq snapshot_current'
                  /\ real_buttons = {} /\ real = {} =>
                       /\ snapshot_pushed' = appeared
                       /\ snapshot_released' = gone]_vars
    <2> SUFFICES ASSUME InputInv, NEW real \in SUBSET Buttons, snapshotted,
                        conn_state = "CONNECTED", SnapshotButtons(real)
                 PROVE  /\ snapshot_current' \ snapshot_current
                             \subseteq snapshot_pushed'
                        /\ snapshot_current \ snapshot_current'
                             \subseteq snapshot_released'
                        /\ snapshot_pushed' \subseteq snapshot_current'
                        /\ real_buttons = {} /\ real = {} =>
                             /\ snapshot_pushed' =
                                  snapshot_current' \ snapshot_current
                             /\ snapshot_released' =
                                  snapshot_current \ snapshot_current'
      BY DEF UpdateConnected, UpdateLost
    <2>1. snapshot_current = real_buttons \cup prev_injected_buttons
      BY DEF InputInv
    <2>2. /\ snapshot_current' = real \cup injected_buttons
          /\ snapshot_pushed' = (real \ real_buttons)
               \cup (injected_buttons \ prev_injected_buttons)
          /\ snapshot_released' = (real_buttons \ real)
               \cup (prev_injected_buttons \ injected_buttons)
      BY DEF SnapshotButtons
    <2>3. QED
      BY <2>1, <2>2
  <1>2. QED
    BY <1>1, InputInvariant, PTL DEF Spec, EdgesMatchFrames

-----------------------------------------------------------------------------
(* The inductive invariant of the command half: nothing has been written   *)
(* before the connection is up.                                            *)
CommandInv ==
  /\ EveryCommandAccountedFor
  /\ conn_state = "CONNECTED" /\ link =>
       /\ Dispatched \in Nat
       /\ ignored \subseteq 1..Dispatched
  /\ conn_state \notin {"CONNECTED", "IDLE"} =>
       /\ issued = 0 /\ toGame = <<>> /\ recv_buf = <<>>
       /\ toRunner = <<>> /\ ignored = {}

(* Head and Tail of a concatenation that does not start with nothing.      *)
LEMMA ConcatHeadTail ==
  ASSUME NEW S, NEW s \in Seq(S), NEW t \in Seq(S), s # <<>>
  PROVE  /\ s \o t # <<>>
         /\ Head(s \o t) = Head(s)
         /\ Tail(s \o t) = Tail(s) \o t
  <1> DEFINE st == s \o t
             tl == Tail(s)
  <1>1. /\ Len(s) \in Nat \ {0} /\ Len(t) \in Nat
    BY EmptySeq, LenProperties
  <1>2. /\ st \in Seq(S) /\ Len(st) = Len(s) + Len(t)
        /\ \A i \in 1..(Len(s) + Len(t)) :
             st[i] = IF i <= Len(s) THEN s[i] ELSE t[i - Len(s)]
    BY ConcatProperties
  <1>3. /\ tl \in Seq(S) /\ Len(tl) = Len(s) - 1
        /\ \A i \in 1..Len(tl) : tl[i] = s[i + 1]
    BY HeadTailProperties
  <1>4. /\ tl \o t \in Seq(S) /\ Len(tl \o t) = Len(tl) + Len(t)
        /\ \A i \in 1..(Len(tl) + Len(t)) :
             (tl \o t)[i] = IF i <= Len(tl) THEN tl[i] ELSE t[i - Len(tl)]
    BY <1>3, ConcatProperties
  <1> HIDE DEF st, tl
  <1>5. st # <<>>
    BY <1>1, <1>2, EmptySeq
  <1>6. /\ Tail(st) \in Seq(S) /\ Len(Tail(st)) = Len(st) - 1
        /\ \A i \in 1..Len(Tail(st)) : Tail(st)[i] = st[i + 1]
    BY <1>2, <1>5, HeadTailProperties
  <1>7. ASSUME NEW i \in 1..Len(Tail(st))
        PROVE  Tail(st)[i] = (tl \o t)[i]
    <2>1. i \in 1..(Len(s) - 1 + Len(t)) /\ i + 1 \in 1..(Len(s) + Len(t))
      BY <1>1, <1>2, <1>6
    <2>2. Tail(st)[i] = IF i + 1 <= Len(s) THEN s[i + 1] ELSE t[i + 1 - Len(s)]
      BY <1>2, <1>6, <2>1
    <2>3. (tl \o t)[i] =
            IF i <= Len(s) - 1 THEN tl[i] ELSE t[i - (Len(s) - 1)]
      BY <1>3, <1>4, <2>1
    <2>4. CASE i <= Len(s) - 1
      <3>1. tl[i] = s[i + 1]
        BY <1>1, <1>3, <2>1, <2>4
      <3>2. QED
        BY <1>1, <2>1, <2>2, <2>3, <2>4, <3>1
    <2>5. CASE ~(i <= Len(s) - 1)
      <3>1. i + 1 - Len(s) = i - (Len(s) - 1)
        BY <1>1, <2>1
      <3>2. ~(i + 1 <= Len(s))
        BY <1>1, <2>1, <2>5
      <3>3. QED
        BY <2>2, <2>3, <2>5, <3>1, <3>2
    <2>6. QED
      BY <2>4, <2>5
  <1>8. Tail(st) = tl \o t
    <2>1. Len(Tail(st)) = Len(tl \o t)
      BY <1>1, <1>2, <1>3, <1>4, <1>6
    <2>2. QED
      BY <1>4, <1>6, <1>7, <2>1, SeqEqual
  <1>9. Head(st) = Head(s)
    <2>1. st[1] = s[1]
      BY <1>1, <1>2
    <2>2. QED
      BY <2>1
  <1>10. QED
    BY <1>5, <1>8, <1>9 DEF st, tl

(* Reading moves commands from the channel to the buffer and no further;   *)
(* dispatching takes the first command of the queue and leaves the rest.   *)
LEMMA QueueAdvances ==
  ASSUME NEW S, NEW recv \in Seq(S), NEW chan \in Seq(S), NEW n \in 0..Len(chan)
  PROVE  LET buf  == recv \o SubSeq(chan, 1, n)
             rest == SubSeq(chan, n + 1, Len(chan))
         IN /\ buf \in Seq(S)
            /\ buf \o rest = recv \o chan
            /\ buf # <<>> => /\ recv \o chan # <<>>
                             /\ Head(recv \o chan) = Head(buf)
                             /\ Tail(recv \o chan) = Tail(buf) \o rest
  <1> DEFINE now  == SubSeq(chan, 1, n)
             rest == SubSeq(chan, n + 1, Len(chan))
  <1>1. Len(chan) \in Nat /\ n \in Nat /\ n <= Len(chan)
    BY LenProperties
  <1>2. now \in Seq(S) /\ rest \in Seq(S)
    BY Cut
  <1>3. now \o rest = chan
    <2>1. /\ 1 \in 1..(Len(chan) + 1)
          /\ n \in (1 - 1)..Len(chan)
          /\ Len(chan) \in n..Len(chan)
      BY <1>1
    <2>2. now \o rest = SubSeq(chan, 1, Len(chan))
      BY <2>1, ConcatAdjacentSubSeq
    <2>3. QED
      BY <2>2, SubSeqFull
  <1> HIDE DEF now, rest
  <1>4. recv \o now \in Seq(S) /\ (recv \o now) \o rest = recv \o chan
    <2>1. recv \o now \in Seq(S)
      BY <1>2, ConcatProperties
    <2>2. (recv \o now) \o rest = recv \o (now \o rest)
      BY <1>2, ConcatAssociative
    <2>3. QED
      BY <2>1, <2>2, <1>3
  <1>5. recv \o now # <<>> =>
          /\ (recv \o now) \o rest # <<>>
          /\ Head((recv \o now) \o rest) = Head(recv \o now)
          /\ Tail((recv \o now) \o rest) = Tail(recv \o now) \o rest
    BY <1>2, <1>4, ConcatHeadTail
  <1>6. QED
    BY <1>4, <1>5 DEF now, rest

(* A dispatched command is answered once, or logged as unknown.            *)
LEMMA DispatchAnswers ==
  ASSUME link, NEW m \in Commands, DispatchCommand(m)
  PROVE  \/ /\ \E type \in ReplyTypes \ {"READY"} :
                  toRunner' = Append(toRunner, [type |-> type, tag |-> m.tag])
            /\ ignored' = ignored
         \/ /\ toRunner' = toRunner
            /\ ignored' = ignored \cup {m.tag}
  BY DEF DispatchCommand, HandlePing, HandleCaptureFrame, HandleInjectInput,
         HandleQueryState, HandleReleaseInput, SendMessage, ReplyTypes,
         inputVars

(* Appending a reply with the next tag keeps the replies complete and in   *)
(* order.                                                                  *)
LEMMA AppendReply ==
  ASSUME NEW s \in Seq(Replies), NEW d \in Nat, NEW ign \in SUBSET (1..d),
         RepliesComplete(s, d, ign), NEW type \in ReplyTypes \ {"READY"}
  PROVE  RepliesComplete(Append(s, [type |-> type, tag |-> d + 1]), d + 1, ign)
  <1> USE DEF RepliesComplete
  <1> DEFINE r == [type |-> type, tag |-> d + 1]
             t == Append(s, r)
  <1>1. r \in Replies /\ r.tag = d + 1 /\ r.type # "READY"
    BY DEF Replies
  <1> HIDE DEF r
  <1>2. /\ t \in Seq(Replies) /\ t # <<>> /\ Len(t) = Len(s) + 1
        /\ \A i \in 1..Len(s) : t[i] = s[i]
        /\ t[Len(s) + 1] = r
    BY <1>1, AppendProperties
  <1> HIDE DEF t
  <1>3. Len(s) \in Nat \ {0}
    BY EmptySeq
  <1>4. \A i \in 1..Len(s) : s[i] \in Replies
    BY ElementOfSeq
  <1>5. \A i \in 1..Len(s) : s[i].tag \in Nat /\ s[i].tag <= d
    <2> SUFFICES ASSUME NEW i \in 1..Len(s)
                 PROVE  s[i].tag \in Nat /\ s[i].tag <= d
      OBVIOUS
    <2>1. CASE i = 1
      BY <2>1
    <2>2. CASE i # 1
      <3>1. i \in 2..Len(s)
        BY <1>3, <2>2
      <3>2. s[i].tag \in (1..d) \ ign
        BY <3>1
      <3>3. QED
        BY <3>2
    <2>3. QED
      BY <2>1, <2>2
  <1>6. t[1] = [type |-> "READY", tag |-> 0]
    BY <1>2, <1>3
  <1>7. \A i \in 2..Len(t) : t[i].type # "READY"
    <2> SUFFICES ASSUME NEW i \in 2..Len(t)
                 PROVE  t[i].type # "READY"
      OBVIOUS
    <2>1. CASE i = Len(s) + 1
      BY <1>1, <1>2, <2>1
    <2>2. CASE i # Len(s) + 1
      BY <1>2, <1>3, <2>2
    <2>3. QED
      BY <2>1, <2>2
  <1>8. ASSUME NEW i \in 1..Len(t), NEW j \in 1..Len(t), i < j
        PROVE  t[i].tag < t[j].tag
    <2>1. i \in 1..Len(s) /\ t[i] = s[i]
      BY <1>2, <1>3, <1>8
    <2>2. CASE j = Len(s) + 1
      BY <1>1, <1>2, <1>5, <2>1, <2>2
    <2>3. CASE j # Len(s) + 1
      <3>1. j \in 1..Len(s) /\ t[j] = s[j]
        BY <1>2, <1>3, <2>3
      <3>2. QED
        BY <1>8, <2>1, <3>1
    <2>4. QED
      BY <2>2, <2>3
  <1>9. {t[i].tag : i \in 2..Len(t)} = {s[i].tag : i \in 2..Len(s)} \cup {d + 1}
    <2>1. ASSUME NEW i \in 2..Len(t)
          PROVE  t[i].tag \in {s[k].tag : k \in 2..Len(s)} \cup {d + 1}
      <3>1. CASE i = Len(s) + 1
        BY <1>1, <1>2, <3>1
      <3>2. CASE i # Len(s) + 1
        <4>1. i \in 2..Len(s) /\ t[i] = s[i]
          BY <1>2, <1>3, <3>2
        <4>2. QED
          BY <4>1
      <3>3. QED
        BY <3>1, <3>2
    <2>2. ASSUME NEW k \in 2..Len(s)
          PROVE  s[k].tag \in {t[i].tag : i \in 2..Len(t)}
      <3>1. k \in 2..Len(t) /\ t[k] = s[k]
        BY <1>2, <1>3
      <3>2. QED
        BY <3>1
    <2>3. d + 1 \in {t[i].tag : i \in 2..Len(t)}
      <3>1. Len(s) + 1 \in 2..Len(t)
        BY <1>2, <1>3
      <3>2. t[Len(s) + 1].tag = d + 1
        BY <1>1, <1>2
      <3>3. QED
        BY <3>1, <3>2
    <2>4. QED
      BY <2>1, <2>2, <2>3
  <1>10. (1..(d + 1)) \ ign = ((1..d) \ ign) \cup {d + 1}
    OBVIOUS
  <1>11. QED
    BY <1>2, <1>6, <1>7, <1>8, <1>9, <1>10 DEF t, r

(* A frame on a live connection keeps every command accounted for.         *)
LEMMA FrameKeepsAccount ==
  ASSUME TypeOK, CommandInv, conn_state = "CONNECTED", link,
         NEW real \in SUBSET Buttons, NEW n \in 0..Len(toGame),
         UpdateConnected(real, n)
  PROVE  CommandInv'
  <1> DEFINE buf  == recv_buf \o SubSeq(toGame, 1, n)
             rest == SubSeq(toGame, n + 1, Len(toGame))
  <1>1. /\ ProcessOneCommand(buf) /\ toGame' = rest
        /\ conn_state' = "CONNECTED" /\ link' = link /\ issued' = issued
    BY DEF UpdateConnected, connVars
  <1>2. /\ toGame \in Seq(Commands) /\ recv_buf \in Seq(Commands)
        /\ toRunner \in Seq(Replies) /\ issued \in Nat
    BY DEF TypeOK
  <1>3. /\ buf \in Seq(Commands)
        /\ buf \o rest = Queued
        /\ buf # <<>> => /\ Queued # <<>>
                         /\ Head(Queued) = Head(buf)
                         /\ Tail(Queued) = Tail(buf) \o rest
    BY <1>2, QueueAdvances DEF Queued
  <1>4. Queued \in Seq(Commands) /\ Len(Queued) \in Nat
    BY <1>2, ConcatProperties, LenProperties DEF Queued
  <1> HIDE DEF buf, rest
  <1>5. /\ \A i \in 1..Len(Queued) : Queued[i].tag = Dispatched + i
        /\ RepliesComplete(toRunner, Dispatched, ignored)
        /\ Dispatched \in Nat /\ ignored \subseteq 1..Dispatched
    BY DEF CommandInv, EveryCommandAccountedFor
  <1>6. CASE buf = <<>> /\ recv_buf' = buf /\ UNCHANGED <<inputVars, replyVars>>
    <2>1. Queued' = Queued /\ Dispatched' = Dispatched
      BY <1>1, <1>3, <1>6 DEF Queued, Dispatched
    <2>2. toRunner' = toRunner /\ ignored' = ignored
      BY <1>6 DEF replyVars
    <2>3. QED
      BY <1>1, <1>5, <2>1, <2>2
         DEF CommandInv, EveryCommandAccountedFor
  <1>7. CASE buf # <<>> /\ DispatchCommand(Head(buf)) /\ recv_buf' = Tail(buf)
    <2> DEFINE m == Head(buf)
    <2>1. Queued' = Tail(Queued)
      BY <1>1, <1>3, <1>7 DEF Queued
    <2>2. /\ Len(Queued) \in Nat \ {0}
          /\ Len(Tail(Queued)) = Len(Queued) - 1
          /\ \A i \in 1..Len(Tail(Queued)) : Tail(Queued)[i] = Queued[i + 1]
          /\ m \in Commands
      <3>1. Queued # <<>> /\ m = Head(Queued)
        BY <1>3, <1>7
      <3>2. QED
        BY <1>4, <3>1, HeadTailProperties, EmptySeq
    <2>3. Dispatched = issued - Len(Queued)
      BY DEF Dispatched
    <2>4. Dispatched' = issued - Len(Tail(Queued))
      BY <1>1, <2>1 DEF Dispatched
    <2>5. Dispatched' = Dispatched + 1
      BY <1>2, <1>4, <2>2, <2>3, <2>4
    <2>6. m.tag = Dispatched + 1
      <3>1. m = Queued[1]
        BY <1>3, <1>4, <1>7
      <3>2. QED
        BY <1>5, <2>2, <3>1
    <2>7. \A i \in 1..Len(Queued') : Queued'[i].tag = Dispatched' + i
      <3> SUFFICES ASSUME NEW i \in 1..Len(Tail(Queued))
                   PROVE  Tail(Queued)[i].tag = Dispatched + 1 + i
        BY <2>1, <2>5
      <3>1. i + 1 \in 1..Len(Queued) /\ Tail(Queued)[i] = Queued[i + 1]
        BY <2>2
      <3>2. QED
        BY <1>5, <3>1
    <2> HIDE DEF m
    <2>8. CASE /\ \E type \in ReplyTypes \ {"READY"} :
                     toRunner' = Append(toRunner, [type |-> type, tag |-> m.tag])
               /\ ignored' = ignored
      <3>1. PICK type \in ReplyTypes \ {"READY"} :
              toRunner' = Append(toRunner,
                                 [type |-> type, tag |-> Dispatched + 1])
        BY <2>6, <2>8
      <3>2. RepliesComplete(toRunner', Dispatched + 1, ignored)
        BY <1>2, <1>5, <3>1, AppendReply
      <3>3. ignored' \subseteq 1..Dispatched' /\ Dispatched' \in Nat
        BY <1>5, <2>5, <2>8
      <3>4. QED
        BY <1>1, <2>5, <2>7, <2>8, <3>2, <3>3
           DEF CommandInv, EveryCommandAccountedFor
    <2>9. CASE toRunner' = toRunner /\ ignored' = ignored \cup {m.tag}
      <3>1. (1..Dispatched) \ ignored = (1..Dispatched') \ ignored'
        BY <1>5, <2>5, <2>6, <2>9
      <3>2. ignored' \subseteq 1..Dispatched' /\ Dispatched' \in Nat
        BY <1>5, <2>5, <2>6, <2>9
      <3>3. RepliesComplete(toRunner', Dispatched', ignored')
        BY <1>5, <2>9, <3>1 DEF RepliesComplete
      <3>4. QED
        BY <1>1, <2>7, <3>2, <3>3 DEF CommandInv, EveryCommandAccountedFor
    <2>10. QED
      BY <1>7, <2>2, <2>8, <2>9, DispatchAnswers DEF m
  <1>8. QED
    BY <1>1, <1>6, <1>7 DEF ProcessOneCommand

(* Every command written on a live connection is answered exactly once and *)
(* in order, or still waits in order: reads that split or join the queue,  *)
(* the one dispatch per frame and the compaction lose nothing.             *)
THEOREM CommandsAccounted == Spec => []EveryCommandAccountedFor
  <1>1. Init => CommandInv
    BY DEF Init, CommandInv, EveryCommandAccountedFor
  <1>2. TypeOK /\ NeverWaitsInVain /\ CommandInv /\ [Next]_vars => CommandInv'
    <2> SUFFICES ASSUME TypeOK, NeverWaitsInVain, CommandInv, [Next]_vars
                 PROVE  CommandInv'
      OBVIOUS
    <2> USE DEF connVars, queueVars, replyVars
    <2>1. ASSUME NEW real \in SUBSET Buttons, UpdateDisconnected(real)
          PROVE  CommandInv'
      BY <2>1 DEF UpdateDisconnected, DriveConnection, CommandInv,
                  EveryCommandAccountedFor, Queued, Dispatched
    <2>2. ASSUME NEW real \in SUBSET Buttons, NEW n \in 0..Len(toGame),
                 UpdateConnected(real, n)
          PROVE  CommandInv'
      <3>1. CASE link
        BY <2>2, <3>1, FrameKeepsAccount DEF UpdateConnected
      <3>2. CASE ~link
        BY <2>2, <3>2 DEF UpdateConnected, CommandInv, EveryCommandAccountedFor
      <3>3. QED
        BY <3>1, <3>2
    <2>3. ASSUME NEW real \in SUBSET Buttons, UpdateLost(real)
          PROVE  CommandInv'
      BY <2>3 DEF UpdateLost, CommandInv, EveryCommandAccountedFor
    <2>4. ASSUME NEW granted \in BOOLEAN, OnAccessGranted(granted)
          PROVE  CommandInv'
      BY <2>4 DEF OnAccessGranted, CommandInv, EveryCommandAccountedFor,
                  NeverWaitsInVain
    <2>5. ASSUME NEW success \in BOOLEAN, OnConnected(success)
          PROVE  CommandInv'
      <3>1. /\ issued = 0 /\ toGame = <<>> /\ recv_buf = <<>>
            /\ toRunner = <<>> /\ ignored = {}
        BY <2>5 DEF OnConnected, CommandInv, NeverWaitsInVain
      <3>2. CASE ~success \/ ~link
        BY <2>5, <3>2 DEF OnConnected, CommandInv, EveryCommandAccountedFor
      <3>3. CASE success /\ link
        <4> DEFINE ready == [type |-> "READY", tag |-> 0]
        <4>1. toRunner' = <<ready>>
          BY <2>5, <3>1, <3>3 DEF OnConnected, SendMessage
        <4>2. Queued = <<>> /\ Len(Queued) = 0
          <5>1. <<>> \in Seq(Commands)
            BY EmptySeq
          <5>2. <<>> \o <<>> = <<>>
            BY <5>1, ConcatEmptySeq
          <5>3. QED
            BY <3>1, <5>2, EmptySeq DEF Queued
        <4>3. /\ Dispatched' = 0 /\ ignored' = {} /\ Queued' = <<>>
              /\ conn_state' = "CONNECTED"
          <5>1. /\ UNCHANGED <<toGame, recv_buf, issued, ignored>>
                /\ conn_state' = "CONNECTED"
            BY <2>5, <3>3 DEF OnConnected
          <5>2. Queued' = Queued
            BY <5>1 DEF Queued
          <5>3. Dispatched' = issued - Len(Queued)
            BY <5>1, <5>2 DEF Dispatched
          <5>4. QED
            BY <3>1, <4>2, <5>1, <5>2, <5>3
        <4>4. RepliesComplete(toRunner', 0, {})
          BY <4>1 DEF RepliesComplete
        <4>5. QED
          BY <4>3, <4>4 DEF CommandInv, EveryCommandAccountedFor
      <3>4. QED
        BY <3>2, <3>3
    <2>6. ASSUME NEW m \in NewCommands(issued + 1), WriteCommand(m)
          PROVE  CommandInv'
      <3>1. /\ toGame \in Seq(Commands) /\ recv_buf \in Seq(Commands)
            /\ issued \in Nat /\ m \in Commands /\ m.tag = issued + 1
        BY NewCommandsAreCommands DEF TypeOK
      <3>2. Queued' = Append(Queued, m)
        <4>1. recv_buf \o Append(toGame, m) = Append(recv_buf \o toGame, m)
          <5>1. toGame \o <<m>> = Append(toGame, m)
            BY <3>1, AppendIsConcat
          <5>2. (recv_buf \o toGame) \o <<m>> = Append(recv_buf \o toGame, m)
            BY <3>1, ConcatProperties, AppendIsConcat
          <5>3. <<m>> \in Seq(Commands)
            BY <3>1
          <5>4. (recv_buf \o toGame) \o <<m>> = recv_buf \o (toGame \o <<m>>)
            BY <3>1, <5>3, ConcatAssociative
          <5>5. QED
            BY <5>1, <5>2, <5>4
        <4>2. QED
          BY <2>6, <4>1 DEF WriteCommand, Queued
      <3>3. /\ Queued \in Seq(Commands) /\ Len(Queued) \in Nat
        BY <3>1, ConcatProperties, LenProperties DEF Queued
      <3>4. /\ Len(Append(Queued, m)) = Len(Queued) + 1
            /\ \A i \in 1..Len(Queued) : Append(Queued, m)[i] = Queued[i]
            /\ Append(Queued, m)[Len(Queued) + 1] = m
        BY <3>1, <3>3, AppendProperties
      <3>5. Dispatched' = Dispatched
        BY <2>6, <3>1, <3>2, <3>3, <3>4 DEF WriteCommand, Dispatched
      <3>6. /\ conn_state = "CONNECTED" /\ link
            /\ UNCHANGED <<conn_state, link, toRunner, ignored>>
        BY <2>6 DEF WriteCommand
      <3>7. ASSUME NEW i \in 1..Len(Append(Queued, m))
            PROVE  Append(Queued, m)[i].tag = Dispatched + i
        <4>1. CASE i = Len(Queued) + 1
          BY <3>1, <3>3, <3>4, <4>1 DEF Dispatched
        <4>2. CASE i # Len(Queued) + 1
          <5>1. i \in 1..Len(Queued)
            BY <3>3, <3>4, <4>2
          <5>2. QED
            BY <3>4, <3>6, <5>1 DEF CommandInv, EveryCommandAccountedFor
        <4>3. QED
          BY <4>1, <4>2
      <3>8. QED
        BY <3>2, <3>5, <3>6, <3>7 DEF CommandInv, EveryCommandAccountedFor
    <2>7. CASE LoseLink
      BY <2>7 DEF LoseLink, CommandInv, EveryCommandAccountedFor
    <2>8. CASE UNCHANGED vars
      BY <2>8 DEF vars, CommandInv, EveryCommandAccountedFor, Queued, Dispatched
    <2>9. QED
      BY <2>1, <2>2, <2>3, <2>4, <2>5, <2>6, <2>7, <2>8
         DEF Next, Update, Callback
  <1>3. QED
    BY <1>1, <1>2, TypeCorrect, NoVainWait, PTL DEF Spec, CommandInv
=============================================================================
