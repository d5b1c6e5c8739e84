--------------------------- MODULE TcpServerSystem ---------------------------
(***************************************************************************)
(* TcpServer with the most general users: a game that writes messages of   *)
(* any type at any time, and calls that wait for any types, alone or       *)
(* together, and call again once they have resumed.                        *)
(***************************************************************************)
EXTENDS TcpServer

CONSTANT MaxMessages   \* bound on the messages the game writes

ASSUME SystemAssumption == MaxMessages \in Nat

VARIABLE written       \* messages written so far; the next one's tag

sysVars == <<vars, written>>

SysInit == Init /\ written = 0

GameWrites(type) ==
  /\ written < MaxMessages
  /\ toRunner' = Append(toRunner, [type |-> type, tag |-> written + 1])
  /\ written' = written + 1
  /\ UNCHANGED <<socket, parsed, pendingMessages, waiters, settled, handed>>

Receive(c, types) ==
  /\ Idle
  /\ c \notin Waiting \cup Settling
  /\ ReceiveAny(c, types, settled)
  /\ UNCHANGED <<socket, toRunner, parsed, written>>

(* A settled promise resumes its call; the calls await it through stacks   *)
(* of async functions of different depths, so the order is not fixed.      *)
Resume(i) ==
  /\ Idle
  /\ i \in 1..Len(settled)
  /\ settled' = RemoveAt(settled, i)
  /\ UNCHANGED <<socket, toRunner, parsed, pendingMessages, waiters, handed,
                 written>>

OnDataEvent(n)  == OnData(n) /\ UNCHANGED written
DeliverNext     == DeliverParsed /\ UNCHANGED written
TimerFires(i)   == Timeout(i) /\ UNCHANGED written
CloseServer     == Close /\ UNCHANGED written

SysNext ==
  \/ \E type \in MsgTypes : GameWrites(type)
  \/ \E c \in Calls, types \in (SUBSET MsgTypes) \ {{}} : Receive(c, types)
  \/ \E n \in 1..Len(toRunner) : OnDataEvent(n)
  \/ DeliverNext
  \/ \E i \in 1..Len(waiters) : TimerFires(i)
  \/ \E i \in 1..Len(settled) : Resume(i)
  \/ CloseServer

SysSpec == SysInit /\ [][SysNext]_sysVars

(* Node runs what is ready: the loop in progress and the settled promises. *)
(* Timers fire in the order they fall due, so a waiter's own timer is not  *)
(* put off for ever by younger ones, though other callbacks come between.  *)
SysFairness ==
  /\ WF_sysVars(DeliverNext)
  /\ WF_sysVars(\E i \in 1..Len(settled) : Resume(i))
  /\ \A c \in Calls :
       SF_sysVars(\E i \in 1..Len(waiters) :
                    waiters[i].call = c /\ TimerFires(i))

FairSysSpec == SysSpec /\ SysFairness

(* Messages of one type are handed to calls in the order the game wrote    *)
(* them: none is handed while an older one of its type is still here.      *)
(* receiveAny() and onData() each pick a message, from lists that are      *)
(* filled and emptied in between.                                          *)
Here == pendingMessages \o parsed \o toRunner
HandedInOrder ==
  \A m \in handed : \A i \in 1..Len(Here) :
     Here[i].type = m.type => m.tag < Here[i].tag

(* No message is lost or handed twice: each is here once, or was handed    *)
(* once, whatever waiters come and time out meanwhile (onData, receiveAny).*)
NoMessageLost ==
  /\ Cardinality(handed) + Len(Here) = written
  /\ {m.tag : m \in handed \cup ToSet(Here)} = 1..written

(* No receive() waits for ever, whatever the game sends or does not send,  *)
(* and even when close() has destroyed the socket under it.                *)
EveryReceiveSettles ==
  \A c \in Calls : c \in Waiting ~> c \notin Waiting
=============================================================================
