------------------------------ MODULE TcpServer -------------------------------
(***************************************************************************)
(* The runner's end of the connection: the TcpServer class of              *)
(* tcpServer.ts, once a game has connected.                                *)
(*                                                                         *)
(* Messages arrive in chunks; onData() hands each to the first waiter that *)
(* accepts its type and keeps the others in pendingMessages.  receiveAny() *)
(* looks there first and otherwise waits, with a timer.  The class runs on *)
(* Node's event loop: a callback runs to completion, then the promises it  *)
(* settled resume their calls, and only then the next callback starts.     *)
(***************************************************************************)
EXTENDS Integers, Sequences, SequencesExt

CONSTANTS
  Calls,     \* the asynchronous flows that call receive()
  MsgTypes   \* the message types

VARIABLES
  socket,           \* this.socket is set
  toRunner,         \* TCP: messages written by the game, not yet received
  parsed,           \* messages of the current chunk, still to be looped over
  pendingMessages,
  waiters,          \* each the call that waits and the types it accepts
  settled,          \* promises settled whose calls have not resumed yet
  handed            \* history: the messages handed to a call

vars == <<socket, toRunner, parsed, pendingMessages, waiters, settled, handed>>

Messages == [type : MsgTypes, tag : Nat]
Waiters == [call : Calls, types : SUBSET MsgTypes]
TimedOut == [type |-> "timed out", tag |-> 0]
Outcomes == [call : Calls, result : Messages \cup {TimedOut}]

Init ==
  /\ socket = TRUE
  /\ toRunner = <<>> /\ parsed = <<>>
  /\ pendingMessages = <<>> /\ waiters = <<>> /\ settled = <<>>
  /\ handed = {}

Settlement(c, m) == [call |-> c, result |-> m]

(* The index of the first message (waiter) that suits, 0 if none does; and *)
(* a slip, the newest waiter served first.                                 *)
FirstPending(types) == SelectInSeq(pendingMessages, LAMBDA m : m.type \in types)
LastWaiter(type) == SelectLastInSeq(waiters, LAMBDA w : type \in w.types)
FirstWaiter(type) == SelectInSeq(waiters, LAMBDA w : type \in w.types)

(* No callback is running; and no promise is left to resume either.        *)
Idle == parsed = <<>>
EventLoopTurn == parsed = <<>> /\ settled = <<>>

-----------------------------------------------------------------------------
(* Slips of receiveAny(): it waits without looking at pendingMessages, and *)
(* it takes the newest pending message that suits.                         *)
ReceiveAnyWaits(c, types, queue) ==
  /\ waiters' = Append(waiters, [call |-> c, types |-> types])
  /\ settled' = queue
  /\ UNCHANGED <<pendingMessages, handed>>
ReceiveAnyNewest(c, types, queue) ==
  LET i == SelectLastInSeq(pendingMessages, LAMBDA m : m.type \in types)
  IN \/ /\ i # 0
        /\ pendingMessages' = RemoveAt(pendingMessages, i)
        /\ settled' = Append(queue, Settlement(c, pendingMessages[i]))
        /\ handed' = handed \cup {pendingMessages[i]}
        /\ UNCHANGED waiters
     \/ i = 0 /\ ReceiveAnyWaits(c, types, queue)

(* receiveAny(): a pending message settles the call at once.  `queue' is   *)
(* what is settled already.                                                *)
ReceiveAny(c, types, queue) ==
  LET i == FirstPending(types)
  IN \/ /\ i # 0
        /\ pendingMessages' = RemoveAt(pendingMessages, i)
        /\ settled' = Append(queue, Settlement(c, pendingMessages[i]))
        /\ handed' = handed \cup {pendingMessages[i]}
        /\ UNCHANGED waiters
     \/ /\ i = 0
        /\ waiters' = Append(waiters, [call |-> c, types |-> types])
        /\ settled' = queue
        /\ UNCHANGED <<pendingMessages, handed>>

(* onData(): the parser returns the complete messages of the chunk, here   *)
(* the first n the game wrote.                                             *)
OnData(n) ==
  /\ EventLoopTurn /\ socket
  /\ n \in 1..Len(toRunner)
  /\ parsed' = SubSeq(toRunner, 1, n)
  /\ toRunner' = SubSeq(toRunner, n + 1, Len(toRunner))
  /\ UNCHANGED <<socket, pendingMessages, waiters, settled, handed>>

(* What onData() does with the message at hand: resolve the promise of the *)
(* i-th waiter, or keep the message when no waiter wants it.               *)
Resolving(i, result) ==
  /\ i # 0
  /\ settled' = Append(settled, Settlement(waiters[i].call, result))
  /\ handed' = handed \cup {Head(parsed)}
Keeping(i) ==
  /\ i = 0
  /\ pendingMessages' = Append(pendingMessages, Head(parsed))
  /\ UNCHANGED <<waiters, settled, handed>>

(* Slips of the loop of onData(): the promise resolved without the       *)
(* message, the waiter left in place, the unclaimed message dropped.       *)
DeliverUndefined ==
  /\ parsed # <<>> /\ parsed' = Tail(parsed)
  /\ LET i == FirstWaiter(Head(parsed).type)
     IN \/ /\ Resolving(i, [type |-> "undefined", tag |-> 0])
           /\ waiters' = RemoveAt(waiters, i)
           /\ UNCHANGED pendingMessages
        \/ Keeping(i)
  /\ UNCHANGED <<socket, toRunner>>
DeliverKeepsWaiter ==
  /\ parsed # <<>> /\ parsed' = Tail(parsed)
  /\ LET i == FirstWaiter(Head(parsed).type)
     IN \/ Resolving(i, Head(parsed)) /\ UNCHANGED <<waiters, pendingMessages>>
        \/ Keeping(i)
  /\ UNCHANGED <<socket, toRunner>>
DeliverDrops ==
  /\ parsed # <<>> /\ parsed' = Tail(parsed)
  /\ LET i == FirstWaiter(Head(parsed).type)
     IN \/ Resolving(i, Head(parsed)) /\ waiters' = RemoveAt(waiters, i)
        \/ i = 0 /\ UNCHANGED <<waiters, settled, handed>>
  /\ UNCHANGED <<socket, toRunner, pendingMessages>>

(* One turn of the loop of onData().                                       *)
DeliverParsed ==
  /\ parsed # <<>> /\ parsed' = Tail(parsed)
  /\ LET i == FirstWaiter(Head(parsed).type)
     IN \/ /\ Resolving(i, Head(parsed))
           /\ waiters' = RemoveAt(waiters, i)
           /\ UNCHANGED pendingMessages
        \/ Keeping(i)
  /\ UNCHANGED <<socket, toRunner>>

(* A slip of the timer: it does not fire on a closed connection.           *)
TimeoutWhileOpen(i) ==
  /\ EventLoopTurn /\ socket
  /\ i \in 1..Len(waiters)
  /\ waiters' = RemoveAt(waiters, i)
  /\ settled' = Append(settled, Settlement(waiters[i].call, TimedOut))
  /\ UNCHANGED <<socket, toRunner, parsed, pendingMessages, handed>>

(* The timer of a waiter that is still waiting.                            *)
Timeout(i) ==
  /\ EventLoopTurn
  /\ i \in 1..Len(waiters)
  /\ waiters' = RemoveAt(waiters, i)
  /\ settled' = Append(settled, Settlement(waiters[i].call, TimedOut))
  /\ UNCHANGED <<socket, toRunner, parsed, pendingMessages, handed>>

(* close() destroys the socket: no further data event.  The waiters keep   *)
(* waiting for their timers, pendingMessages stays.                        *)
Close ==
  /\ Idle
  /\ socket' = FALSE
  /\ UNCHANGED <<toRunner, parsed, pendingMessages, waiters, settled, handed>>

-----------------------------------------------------------------------------
Waiting == {waiters[i].call : i \in 1..Len(waiters)}
Settling == {settled[i].call : i \in 1..Len(settled)}

TypeOK ==
  /\ socket \in BOOLEAN
  /\ toRunner \in Seq(Messages) /\ parsed \in Seq(Messages)
  /\ pendingMessages \in Seq(Messages)
  /\ waiters \in Seq(Waiters)
  /\ settled \in Seq(Outcomes)
  /\ handed \in SUBSET Messages

(* No wake-up is lost: a message never sits in pendingMessages while a     *)
(* call that would take it waits.  receiveAny() and onData() look at each  *)
(* other's list, and no await comes between looking and enlisting.         *)
NoMatchMissed ==
  \A i \in 1..Len(pendingMessages) : \A j \in 1..Len(waiters) :
     pendingMessages[i].type \notin waiters[j].types

(* A call is waiting or settled, never both, and never twice: the timer    *)
(* and the message cannot both settle it.                                  *)
OneOutcomePerCall ==
  /\ Waiting \cap Settling = {}
  /\ \A i, j \in 1..Len(waiters) :
       waiters[i].call = waiters[j].call => i = j
  /\ \A i, j \in 1..Len(settled) :
       settled[i].call = settled[j].call => i = j
=============================================================================
