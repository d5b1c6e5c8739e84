--------------------------- MODULE TcpServer_proofs ---------------------------
(***************************************************************************)
(* Theorems about TcpServerSystem: for any number of calls, of message     *)
(* types and of messages.                                                  *)
(***************************************************************************)
EXTENDS TcpServerSystem, SequenceLemmas, FiniteSetTheorems

-----------------------------------------------------------------------------
(* Concatenation of messages is associative.                               *)
LEMMA Assoc ==
  \A s, t, u \in Seq(Messages) : (s \o t) \o u = s \o (t \o u)
  BY ConcatAssociative

(* FirstWaiter finds a waiter that accepts the type, if there is one.      *)
LEMMA FirstWaiterFound ==
  ASSUME waiters \in Seq(Waiters), NEW type
  PROVE  \/ /\ FirstWaiter(type) = 0
            /\ \A j \in 1..Len(waiters) : type \notin waiters[j].types
         \/ /\ FirstWaiter(type) \in 1..Len(waiters)
            /\ type \in waiters[FirstWaiter(type)].types
  <1> DEFINE I == {j \in 1..Len(waiters) : type \in waiters[j].types}
  <1>1. FirstWaiter(type) = IF I # {} THEN Min(I) ELSE 0
    BY DEF FirstWaiter, SelectInSeq
  <1>2. I \in SUBSET Nat
    BY LenProperties
  <1>3. I # {} => Min(I) \in I
    BY <1>2, LeastExists
  <1>4. QED
    BY <1>1, <1>3, LenProperties

(* FirstPending finds the first message kept that suits, if there is one.  *)
LEMMA FirstPendingFound ==
  ASSUME pendingMessages \in Seq(Messages), NEW types
  PROVE  \/ /\ FirstPending(types) = 0
            /\ \A j \in 1..Len(pendingMessages) :
                 pendingMessages[j].type \notin types
         \/ /\ FirstPending(types) \in 1..Len(pendingMessages)
            /\ pendingMessages[FirstPending(types)].type \in types
            /\ \A j \in 1..Len(pendingMessages) :
                 pendingMessages[j].type \in types => FirstPending(types) <= j
  <1> DEFINE I == {j \in 1..Len(pendingMessages) :
                     pendingMessages[j].type \in types}
  <1>1. FirstPending(types) = IF I # {} THEN Min(I) ELSE 0
    BY DEF FirstPending, SelectInSeq
  <1>2. I \in SUBSET Nat
    BY LenProperties
  <1>3. I # {} => Min(I) \in I /\ \A j \in I : Min(I) <= j
    BY <1>2, LeastExists
  <1>4. QED
    BY <1>1, <1>3, LenProperties

-----------------------------------------------------------------------------
(* Types.                                                                  *)
TypeInv == TypeOK /\ written \in Nat

(* Types are inductive.                                                    *)
LEMMA Typed ==
  SysSpec => []TypeInv
  <1>1. SysInit => TypeInv
    BY DEF SysInit, Init, TypeInv, TypeOK
  <1>2. TypeInv /\ [SysNext]_sysVars => TypeInv'
    <2> SUFFICES ASSUME TypeInv, [SysNext]_sysVars
                 PROVE  TypeInv'
      OBVIOUS
    <2> USE DEF TypeInv, TypeOK
    <2>1. ASSUME NEW type \in MsgTypes, GameWrites(type)
          PROVE  TypeInv'
      BY <2>1 DEF GameWrites, Messages
    <2>2. ASSUME NEW c \in Calls, NEW types \in (SUBSET MsgTypes) \ {{}},
                 Receive(c, types)
          PROVE  TypeInv'
      <3>1. CASE /\ FirstPending(types) # 0
                 /\ pendingMessages' =
                      RemoveAt(pendingMessages, FirstPending(types))
                 /\ settled' = Append(settled,
                      Settlement(c, pendingMessages[FirstPending(types)]))
                 /\ handed' =
                      handed \cup {pendingMessages[FirstPending(types)]}
                 /\ UNCHANGED waiters
        <4>1. FirstPending(types) \in 1..Len(pendingMessages)
          BY <3>1, FirstPendingFound
        <4>2. pendingMessages[FirstPending(types)] \in Messages
          BY <4>1, ElementOfSeq
        <4>3. pendingMessages' \in Seq(Messages)
          BY <3>1, <4>1, Removal
        <4>4. Settlement(c, pendingMessages[FirstPending(types)]) \in Outcomes
          BY <4>2 DEF Settlement, Outcomes
        <4>5. QED
          BY <2>2, <3>1, <4>2, <4>3, <4>4 DEF Receive
      <3>2. CASE /\ waiters' = Append(waiters, [call |-> c, types |-> types])
                 /\ settled' = settled
                 /\ UNCHANGED <<pendingMessages, handed>>
        BY <2>2, <3>2 DEF Receive, Waiters
      <3>3. QED
        BY <2>2, <3>1, <3>2 DEF Receive, ReceiveAny
    <2>3. ASSUME NEW n \in 1..Len(toRunner), OnDataEvent(n)
          PROVE  TypeInv'
      BY <2>3, Halves, LenProperties DEF OnDataEvent, OnData
    <2>4. ASSUME DeliverNext
          PROVE  TypeInv'
      <3>1. Head(parsed) \in Messages /\ parsed' \in Seq(Messages)
        BY <2>4, HeadTailProperties DEF DeliverNext, DeliverParsed
      <3> DEFINE i == FirstWaiter(Head(parsed).type)
      <3>2. CASE Resolving(i, Head(parsed)) /\ waiters' = RemoveAt(waiters, i)
                   /\ UNCHANGED pendingMessages
        <4>1. i \in 1..Len(waiters)
          BY <3>2, FirstWaiterFound DEF Resolving
        <4> HIDE DEF i
        <4>2. waiters' \in Seq(Waiters) /\ waiters[i] \in Waiters
          BY <3>2, <4>1, Removal, ElementOfSeq
        <4>3. Settlement(waiters[i].call, Head(parsed)) \in Outcomes
          BY <3>1, <4>2 DEF Settlement, Outcomes, Waiters
        <4>4. QED
          BY <2>4, <3>1, <3>2, <4>2, <4>3
          DEF DeliverNext, DeliverParsed, Resolving
      <3>3. CASE Keeping(i)
        BY <2>4, <3>1, <3>3 DEF DeliverNext, DeliverParsed, Keeping
      <3>4. QED
        BY <2>4, <3>2, <3>3 DEF DeliverNext, DeliverParsed
    <2>5. ASSUME NEW i \in 1..Len(waiters), TimerFires(i)
          PROVE  TypeInv'
      <3>1. waiters' \in Seq(Waiters) /\ waiters[i] \in Waiters
        BY <2>5, Removal, ElementOfSeq DEF TimerFires, Timeout
      <3>2. Settlement(waiters[i].call, TimedOut) \in Outcomes
        BY <3>1 DEF Settlement, Outcomes, Waiters
      <3>3. QED
        BY <2>5, <3>1, <3>2 DEF TimerFires, Timeout
    <2>6. ASSUME NEW i \in 1..Len(settled), Resume(i)
          PROVE  TypeInv'
      BY <2>6, Removal DEF Resume
    <2>7. CASE CloseServer
      BY <2>7 DEF CloseServer, Close
    <2>8. CASE UNCHANGED sysVars
      BY <2>8 DEF sysVars, vars
    <2>9. QED
      BY <2>1, <2>2, <2>3, <2>4, <2>5, <2>6, <2>7, <2>8 DEF SysNext
  <1>3. QED
    BY <1>1, <1>2, PTL DEF SysSpec

(* Every field of TcpServer keeps its type.                                *)
THEOREM ServerTypes == SysSpec => []TypeOK
  BY Typed, PTL DEF TypeInv

-----------------------------------------------------------------------------
(* Waiting and settled calls.                                              *)
(* An action that adds to one of the lists has looked at the other.        *)
LEMMA StillUnmatched ==
  ASSUME TypeInv, NoMatchMissed, [SysNext]_sysVars
  PROVE  NoMatchMissed'
  <1>0. /\ pendingMessages \in Seq(Messages) /\ waiters \in Seq(Waiters)
        /\ parsed \in Seq(Messages)
        /\ Len(pendingMessages) \in Nat /\ Len(waiters) \in Nat
    BY LenProperties DEF TypeInv, TypeOK
  <1>1. ASSUME NEW type \in MsgTypes, GameWrites(type)
        PROVE  NoMatchMissed'
    BY <1>1 DEF GameWrites, NoMatchMissed
  <1>2. ASSUME NEW c \in Calls, NEW types \in (SUBSET MsgTypes) \ {{}},
               Receive(c, types)
        PROVE  NoMatchMissed'
    <2> DEFINE i == FirstPending(types)
    <2>1. CASE i # 0 /\ pendingMessages' = RemoveAt(pendingMessages, i)
                 /\ UNCHANGED waiters
      <3>1. i \in 1..Len(pendingMessages)
        BY <1>0, <2>1, FirstPendingFound
      <3> HIDE DEF i
      <3>2. \A j \in 1..Len(pendingMessages') :
              \E k \in 1..Len(pendingMessages) :
                pendingMessages'[j] = pendingMessages[k]
        BY <1>0, <2>1, <3>1, Survivors
      <3>3. QED
        BY <2>1, <3>2 DEF NoMatchMissed
    <2>2. CASE /\ i = 0
               /\ waiters' = Append(waiters, [call |-> c, types |-> types])
               /\ UNCHANGED pendingMessages
      <3>1. \A j \in 1..Len(pendingMessages) :
              pendingMessages[j].type \notin types
        BY <1>0, <2>2, FirstPendingFound
      <3> DEFINE w == [call |-> c, types |-> types]
      <3>2. \A j \in 1..Len(waiters') :
              \/ waiters'[j] = w
              \/ j \in 1..Len(waiters) /\ waiters'[j] = waiters[j]
        <4>1. w \in Waiters /\ w.types = types
          BY DEF Waiters
        <4> HIDE DEF w
        <4>2. waiters' = Append(waiters, w)
          BY <2>2 DEF w
        <4>3. QED
          BY <1>0, <4>1, <4>2, Appended
      <3>3. QED
        BY <2>2, <3>1, <3>2 DEF NoMatchMissed
    <2>3. QED
      BY <1>2, <2>1, <2>2 DEF Receive, ReceiveAny
  <1>3. ASSUME NEW n \in 1..Len(toRunner), OnDataEvent(n)
        PROVE  NoMatchMissed'
    BY <1>3 DEF OnDataEvent, OnData, NoMatchMissed
  <1>4. ASSUME NEW i \in 1..Len(waiters), waiters' = RemoveAt(waiters, i),
               UNCHANGED pendingMessages
        PROVE  NoMatchMissed'
    <2>1. \A j \in 1..Len(waiters') : \E k \in 1..Len(waiters) :
            waiters'[j] = waiters[k]
      BY <1>0, <1>4, Survivors
    <2>2. QED
      BY <1>4, <2>1 DEF NoMatchMissed
  <1>5. CASE DeliverNext
    <2> DEFINE i == FirstWaiter(Head(parsed).type)
    <2>1. CASE i # 0 /\ waiters' = RemoveAt(waiters, i)
                 /\ UNCHANGED pendingMessages
      BY <1>0, <1>4, <2>1, FirstWaiterFound
    <2>2. CASE Keeping(i)
      <3>1. \A j \in 1..Len(waiters) : Head(parsed).type \notin waiters[j].types
        BY <1>0, <2>2, FirstWaiterFound DEF Keeping
      <3>2. Head(parsed) \in Messages
        BY <1>0, <1>5, HeadTailProperties DEF DeliverNext, DeliverParsed
      <3>3. \A j \in 1..Len(pendingMessages') :
              pendingMessages'[j] = Head(parsed)
              \/ /\ j \in 1..Len(pendingMessages)
                 /\ pendingMessages'[j] = pendingMessages[j]
        BY <1>0, <2>2, <3>2, Appended DEF Keeping
      <3>4. waiters' = waiters
        BY <2>2 DEF Keeping
      <3>5. QED
        BY <3>1, <3>3, <3>4 DEF NoMatchMissed
    <2>3. QED
      BY <1>5, <2>1, <2>2 DEF DeliverNext, DeliverParsed, Resolving
  <1>6. ASSUME NEW i \in 1..Len(waiters), TimerFires(i)
        PROVE  NoMatchMissed'
    BY <1>4, <1>6 DEF TimerFires, Timeout
  <1>7. ASSUME NEW i \in 1..Len(settled), Resume(i)
        PROVE  NoMatchMissed'
    BY <1>7 DEF Resume, NoMatchMissed
  <1>8. CASE CloseServer
    BY <1>8 DEF CloseServer, Close, NoMatchMissed
  <1>9. CASE UNCHANGED sysVars
    BY <1>9 DEF sysVars, vars, NoMatchMissed
  <1>10. QED
    BY <1>1, <1>2, <1>3, <1>5, <1>6, <1>7, <1>8, <1>9 DEF SysNext

(* A call whose waiter leaves the list for settled is still in one place.  *)
LEMMA WaiterSettles ==
  ASSUME TypeInv, OneOutcomePerCall, NEW i \in 1..Len(waiters), NEW result,
         waiters' = RemoveAt(waiters, i),
         settled' = Append(settled, Settlement(waiters[i].call, result)),
         Settlement(waiters[i].call, result) \in Outcomes
  PROVE  OneOutcomePerCall'
  <1>0. /\ waiters \in Seq(Waiters) /\ settled \in Seq(Outcomes)
        /\ Len(waiters) \in Nat /\ Len(settled) \in Nat
    BY LenProperties DEF TypeInv, TypeOK
  <1>1. \A j \in 1..Len(waiters') :
          /\ (IF j < i THEN j ELSE j + 1) \in (1..Len(waiters)) \ {i}
          /\ waiters'[j] = waiters[IF j < i THEN j ELSE j + 1]
    BY <1>0, Survivors
  <1>2. /\ Len(settled') = Len(settled) + 1
        /\ settled'[Len(settled) + 1].call = waiters[i].call
        /\ \A j \in 1..Len(settled) : settled'[j] = settled[j]
        /\ 1..Len(settled') = 1..Len(settled) \cup {Len(settled) + 1}
    <2>1. settled'[Len(settled) + 1] = Settlement(waiters[i].call, result)
      BY <1>0, Appended
    <2>2. QED
      BY <1>0, <2>1, Appended DEF Settlement
  <1>3. /\ Waiting' \subseteq Waiting
        /\ waiters[i].call \notin Waiting'
        /\ Settling' = Settling \cup {waiters[i].call}
        /\ waiters[i].call \notin Settling
    <2>1. Waiting' \subseteq Waiting /\ waiters[i].call \notin Waiting'
      <3>1. \A j \in 1..Len(waiters') : \E k \in 1..Len(waiters) :
              k # i /\ waiters'[j] = waiters[k]
        BY <1>1
      <3>2. Waiting' \subseteq Waiting
        <4>1. SUFFICES ASSUME NEW c \in Waiting'
                       PROVE  c \in Waiting
          OBVIOUS
        <4>2. PICK j \in 1..Len(waiters') : c = waiters'[j].call
          BY DEF Waiting
        <4>3. PICK k \in 1..Len(waiters) : waiters'[j] = waiters[k]
          BY <3>1
        <4>4. QED
          BY <4>2, <4>3 DEF Waiting
      <3>3. \A j \in 1..Len(waiters') : waiters'[j].call # waiters[i].call
        BY <3>1 DEF OneOutcomePerCall
      <3>4. QED
        BY <3>2, <3>3, Zenon DEF Waiting
    <2>2. waiters[i].call \in Waiting
      BY DEF Waiting
    <2>3. Settling' = Settling \cup {waiters[i].call}
      BY <1>2, ZenonT(30) DEF Settling
    <2>4. QED
      BY <2>1, <2>2, <2>3 DEF OneOutcomePerCall
  <1>4. ASSUME NEW j \in 1..Len(waiters'), NEW k \in 1..Len(waiters'),
               waiters'[j].call = waiters'[k].call
        PROVE  j = k
    <2> DEFINE f(n) == IF n < i THEN n ELSE n + 1
    <2>1. /\ f(j) \in 1..Len(waiters) /\ waiters'[j] = waiters[f(j)]
          /\ f(k) \in 1..Len(waiters) /\ waiters'[k] = waiters[f(k)]
      BY <1>1
    <2> HIDE DEF f
    <2>2. f(j) = f(k)
      BY <1>4, <2>1 DEF OneOutcomePerCall
    <2>3. Len(waiters') \in Nat
      <3>1. waiters' \in Seq(Waiters)
        BY <1>0, Removal
      <3>2. QED
        BY <3>1, LenProperties
    <2>4. QED
      BY <1>0, <2>2, <2>3 DEF f
  <1>5. \A j, k \in 1..Len(settled') :
          settled'[j].call = settled'[k].call => j = k
    <2>1. \A j \in 1..Len(settled) : settled[j].call # waiters[i].call
      BY <1>3 DEF Settling
    <2>2. QED
      BY <1>2, <2>1, <1>0 DEF OneOutcomePerCall
  <1>6. QED
    BY <1>3, <1>4, <1>5 DEF OneOutcomePerCall

(* Each action moves a call from one list to the other or touches neither. *)
LEMMA StillOneOutcome ==
  ASSUME TypeInv, OneOutcomePerCall, [SysNext]_sysVars
  PROVE  OneOutcomePerCall'
  <1>0. /\ pendingMessages \in Seq(Messages) /\ waiters \in Seq(Waiters)
        /\ parsed \in Seq(Messages) /\ settled \in Seq(Outcomes)
        /\ Len(waiters) \in Nat /\ Len(settled) \in Nat
    BY LenProperties DEF TypeInv, TypeOK
  <1>1. ASSUME UNCHANGED <<waiters, settled>>
        PROVE  OneOutcomePerCall'
    <2>1. waiters' = waiters /\ settled' = settled
      BY <1>1
    <2>2. Waiting' = Waiting /\ Settling' = Settling
      BY <2>1, SMT DEF Waiting, Settling
    <2>3. QED
      BY <2>1, <2>2 DEF OneOutcomePerCall
  <1>2. ASSUME NEW c \in Calls, NEW types \in (SUBSET MsgTypes) \ {{}},
               Receive(c, types)
        PROVE  OneOutcomePerCall'
    <2> DEFINE i == FirstPending(types)
    <2>1. /\ \A j \in 1..Len(waiters) : waiters[j].call # c
          /\ \A j \in 1..Len(settled) : settled[j].call # c
      BY <1>2 DEF Receive, Waiting, Settling
    <2>2. CASE /\ i # 0
               /\ settled' = Append(settled,
                                   Settlement(c, pendingMessages[i]))
               /\ UNCHANGED waiters
      <3>1. pendingMessages[i] \in Messages
        BY <1>0, <2>2, FirstPendingFound, ElementOfSeq
      <3> HIDE DEF i
      <3>2. /\ Settlement(c, pendingMessages[i]) \in Outcomes
            /\ Settlement(c, pendingMessages[i]).call = c
        BY <3>1 DEF Settlement, Outcomes
      <3>3. /\ settled'[Len(settled) + 1].call = c
            /\ \A j \in 1..Len(settled) : settled'[j] = settled[j]
            /\ 1..Len(settled') = 1..Len(settled) \cup {Len(settled) + 1}
        BY <1>0, <2>2, <3>2, Appended
      <3>4. Settling' = Settling \cup {c} /\ Waiting' = Waiting
        <4>1. Settling' = Settling \cup {c}
          BY <3>3, ZenonT(30) DEF Settling
        <4>2. QED
          BY <2>2, <4>1 DEF Waiting
      <3>5. c \notin Waiting
        BY <1>2 DEF Receive
      <3>6. QED
        BY <2>1, <2>2, <3>3, <3>4, <3>5 DEF OneOutcomePerCall
    <2>3. CASE /\ waiters' = Append(waiters, [call |-> c, types |-> types])
               /\ UNCHANGED settled
      <3> DEFINE w == [call |-> c, types |-> types]
      <3>1. w \in Waiters /\ w.call = c
        BY DEF Waiters
      <3> HIDE DEF w
      <3>2. waiters' = Append(waiters, w)
        BY <2>3 DEF w
      <3>3. /\ waiters'[Len(waiters) + 1].call = c
            /\ \A j \in 1..Len(waiters) : waiters'[j] = waiters[j]
            /\ 1..Len(waiters') = 1..Len(waiters) \cup {Len(waiters) + 1}
        BY <1>0, <3>1, <3>2, Appended
      <3>4. Waiting' = Waiting \cup {c} /\ Settling' = Settling
        <4>1. Waiting' = {waiters'[j].call : j \in 1..Len(waiters)}
                           \cup {waiters'[Len(waiters) + 1].call}
          BY <3>3, ZenonT(30) DEF Waiting
        <4>2. QED
          BY <2>3, <3>3, <4>1 DEF Settling, Waiting
      <3>5. c \notin Settling
        BY <1>2 DEF Receive
      <3>6. QED
        BY <2>1, <2>3, <3>3, <3>4, <3>5 DEF OneOutcomePerCall
    <2>4. QED
      BY <1>2, <2>2, <2>3 DEF Receive, ReceiveAny
  <1>3. CASE DeliverNext
    <2> DEFINE i == FirstWaiter(Head(parsed).type)
    <2>1. CASE Resolving(i, Head(parsed)) /\ waiters' = RemoveAt(waiters, i)
      <3>1. i \in 1..Len(waiters)
        BY <1>0, <2>1, FirstWaiterFound DEF Resolving
      <3> HIDE DEF i
      <3>2. waiters[i] \in Waiters /\ Head(parsed) \in Messages
        BY <1>0, <1>3, <3>1, ElementOfSeq, HeadTailProperties
        DEF DeliverNext, DeliverParsed
      <3>3. Settlement(waiters[i].call, Head(parsed)) \in Outcomes
        BY <3>2 DEF Settlement, Outcomes, Waiters
      <3>4. QED
        BY <2>1, <3>1, <3>3, WaiterSettles DEF Resolving
    <2>2. CASE Keeping(i)
      BY <1>1, <2>2 DEF Keeping
    <2>3. QED
      BY <1>3, <2>1, <2>2 DEF DeliverNext, DeliverParsed
  <1>4. ASSUME NEW i \in 1..Len(waiters), TimerFires(i)
        PROVE  OneOutcomePerCall'
    <2>1. Settlement(waiters[i].call, TimedOut) \in Outcomes
      <3>1. waiters[i] \in Waiters
        BY <1>0, ElementOfSeq
      <3>2. QED
        BY <3>1 DEF Settlement, Outcomes, Waiters
    <2>2. QED
      BY <1>4, <2>1, WaiterSettles DEF TimerFires, Timeout
  <1>5. ASSUME NEW i \in 1..Len(settled), Resume(i)
        PROVE  OneOutcomePerCall'
    <2>1. waiters' = waiters /\ settled' = RemoveAt(settled, i)
      BY <1>5 DEF Resume
    <2> DEFINE f(n) == IF n < i THEN n ELSE n + 1
    <2>2. \A j \in 1..Len(settled') :
            f(j) \in 1..Len(settled) /\ settled'[j] = settled[f(j)]
      BY <1>0, <2>1, Survivors
    <2>3. \A j, k \in 1..Len(settled') : f(j) = f(k) => j = k
      <3>1. Len(settled') \in Nat
        <4>1. settled' \in Seq(Outcomes)
          BY <1>0, <2>1, Removal
        <4>2. QED
          BY <4>1, LenProperties
      <3>2. QED
        BY <3>1
    <2> HIDE DEF f
    <2>4. Settling' \subseteq Settling /\ Waiting' = Waiting
      <3>1. ASSUME NEW c \in Settling'
            PROVE  c \in Settling
        <4>1. PICK j \in 1..Len(settled') : c = settled'[j].call
          BY DEF Settling
        <4>2. f(j) \in 1..Len(settled) /\ settled'[j] = settled[f(j)]
          BY <2>2
        <4>3. QED
          BY <4>1, <4>2 DEF Settling
      <3>2. QED
        BY <2>1, <3>1 DEF Waiting
    <2>5. ASSUME NEW j \in 1..Len(settled'), NEW k \in 1..Len(settled'),
                 settled'[j].call = settled'[k].call
          PROVE  j = k
      <3>1. /\ f(j) \in 1..Len(settled) /\ settled'[j] = settled[f(j)]
            /\ f(k) \in 1..Len(settled) /\ settled'[k] = settled[f(k)]
        BY <2>2
      <3>2. f(j) = f(k)
        BY <2>5, <3>1 DEF OneOutcomePerCall
      <3>3. QED
        BY <2>3, <3>2
    <2>6. QED
      BY <2>1, <2>4, <2>5 DEF OneOutcomePerCall
  <1>6. QED
    BY <1>1, <1>2, <1>3, <1>4, <1>5
    DEF SysNext, GameWrites, OnDataEvent, OnData, CloseServer, Close, sysVars,
        vars

(* The two facts about the lists are inductive once types are known.       *)
LEMMA ListsAgree ==
  SysSpec => [](NoMatchMissed /\ OneOutcomePerCall)
  <1>1. SysInit => NoMatchMissed /\ OneOutcomePerCall
    BY DEF SysInit, Init, NoMatchMissed, OneOutcomePerCall, Waiting, Settling
  <1>2. TypeInv /\ NoMatchMissed /\ OneOutcomePerCall /\ [SysNext]_sysVars
          => (NoMatchMissed /\ OneOutcomePerCall)'
    BY StillUnmatched, StillOneOutcome
  <1>3. QED
    BY <1>1, <1>2, Typed, PTL DEF SysSpec

(* However the calls and the data events interleave, a message is never    *)
(* kept in pendingMessages while a call that accepts it waits: receiveAny()*)
(* and onData() miss nothing of each other's lists.                        *)
THEOREM NoWakeupLost == SysSpec => []NoMatchMissed
  BY ListsAgree, PTL

(* A call that waits is settled once, by its message or by its timer, and  *)
(* is not in waiters any more when it is.                                  *)
THEOREM SettledOnce == SysSpec => []OneOutcomePerCall
  BY ListsAgree, PTL

-----------------------------------------------------------------------------
(* Here, the messages on their way, as one queue.  A step leaves it alone, *)
(* appends what the game writes, or hands out one, the first of its type.  *)
Stays ==
  Here' = Here /\ handed' = handed /\ written' = written
Arrives(m) ==
  /\ Here' = Append(Here, m) /\ m.tag = written + 1
  /\ handed' = handed /\ written' = written + 1
Leaves(a, m, b) ==
  /\ Here = a \o (<<m>> \o b) /\ Here' = a \o b
  /\ \A j \in 1..Len(a) : a[j].type # m.type
  /\ handed' = handed \cup {m} /\ written' = written
OneLeaves ==
  \E a, b \in Seq(Messages) : \E m \in Messages : Leaves(a, m, b)

(* DeliverNext hands out the first of its type by NoMatchMissed: the waiter*)
(* would not be waiting had an older one been kept.                        *)
LEMMA HereChanges ==
  ASSUME TypeInv, NoMatchMissed, [SysNext]_sysVars
  PROVE  Stays \/ (\E m \in Messages : Arrives(m)) \/ OneLeaves
  <1> DEFINE p == pendingMessages
             q == parsed
             r == toRunner
  <1>0. /\ p \in Seq(Messages) /\ q \in Seq(Messages) /\ r \in Seq(Messages)
        /\ waiters \in Seq(Waiters) /\ written \in Nat
        /\ Len(p) \in Nat /\ Len(q) \in Nat /\ Len(r) \in Nat
    BY LenProperties DEF TypeInv, TypeOK
  <1>1. Here = p \o q \o r /\ Here' = p' \o q' \o r'
    BY DEF Here
  <1> HIDE DEF p, q, r
  <1>2. ASSUME p' = p, q' = q, r' = r, handed' = handed, written' = written
        PROVE  Stays
    BY <1>1, <1>2 DEF Stays
  <1>3. ASSUME NEW type \in MsgTypes, GameWrites(type)
        PROVE  \E m \in Messages : Arrives(m)
    <2> DEFINE m == [type |-> type, tag |-> written + 1]
    <2>1. m \in Messages /\ m.tag = written + 1
      BY <1>0 DEF Messages
    <2> HIDE DEF m
    <2>2. r' = Append(r, m) /\ p' = p /\ q' = q
      BY <1>3 DEF GameWrites, p, q, r, m
    <2>3. p \o q \in Seq(Messages) /\ <<m>> \in Seq(Messages)
      BY <1>0, <2>1, ConcatProperties
    <2>4. (p \o q) \o r \in Seq(Messages)
      BY <1>0, <2>3, ConcatProperties
    <2>5. Here' = (p \o q) \o (r \o <<m>>)
      <3>1. r' = r \o <<m>>
        BY <1>0, <2>1, <2>2, AppendIsConcat, SMTT(60)
      <3>2. QED
        BY <1>1, <2>2, <3>1
    <2>6. Here' = ((p \o q) \o r) \o <<m>>
      BY <1>0, <2>3, <2>5, Assoc, SMTT(60)
    <2>7. Here' = Append(Here, m)
      BY <1>1, <2>1, <2>4, <2>6, AppendIsConcat, SMTT(60)
    <2>8. QED
      BY <1>3, <2>1, <2>7 DEF Arrives, GameWrites
  <1>4. ASSUME NEW c \in Calls, NEW types \in (SUBSET MsgTypes) \ {{}},
               Receive(c, types)
        PROVE  Stays \/ OneLeaves
    <2> DEFINE k == FirstPending(types)
    <2>1. q' = q /\ r' = r /\ written' = written
      BY <1>4 DEF Receive, q, r
    <2>2. CASE /\ k # 0
               /\ pendingMessages' = RemoveAt(pendingMessages, k)
               /\ handed' = handed \cup {pendingMessages[k]}
      <3>1. /\ k \in 1..Len(p) /\ p[k].type \in types
            /\ \A j \in 1..Len(p) : p[j].type \in types => k <= j
        BY <1>0, <2>2, FirstPendingFound DEF p
      <3> HIDE DEF k
      <3> DEFINE m == p[k]
                 a == SubSeq(p, 1, k - 1)
                 t == SubSeq(p, k + 1, Len(p))
                 b == t \o q \o r
      <3>2. /\ a \in Seq(Messages) /\ t \in Seq(Messages) /\ m \in Messages
            /\ p = a \o (<<m>> \o t)
        BY <1>0, <3>1, Around
      <3>3. \A j \in 1..Len(a) : a[j].type # m.type
        <4>1. k - 1 \in 0..Len(p)
          BY <1>0, <3>1
        <4>2. Len(a) = k - 1 /\ \A j \in 1..(k - 1) : a[j] = p[j]
          BY <1>0, <4>1, Halves
        <4> HIDE DEF a, m, t
        <4>3. \A j \in 1..(k - 1) : j \in 1..Len(p) /\ ~(k <= j)
          BY <1>0, <3>1
        <4>4. QED
          BY <3>1, <4>2, <4>3 DEF m
      <3>4. p' = a \o t
        BY <2>2 DEF p, RemoveAt
      <3>5. handed' = handed \cup {m}
        BY <2>2 DEF p
      <3> HIDE DEF a, m, t, b
      <3>6. /\ <<m>> \in Seq(Messages) /\ t \o q \in Seq(Messages)
            /\ b \in Seq(Messages) /\ <<m>> \o t \in Seq(Messages)
        BY <1>0, <3>2, ConcatProperties DEF b
      <3>7. Here' = a \o b
        <4>1. Here' = ((a \o t) \o q) \o r
          BY <1>1, <2>1, <3>4
        <4> DEFINE tq == t \o q
        <4>2. /\ a \in Seq(Messages) /\ t \in Seq(Messages)
              /\ q \in Seq(Messages) /\ r \in Seq(Messages)
              /\ tq \in Seq(Messages)
          BY <1>0, <3>2, <3>6
        <4>3. (a \o t) \o q = a \o tq
          BY <4>2, Assoc, SMTT(60)
        <4> HIDE DEF tq
        <4>4. (a \o tq) \o r = a \o (tq \o r)
          BY <4>2, Assoc, SMTT(60)
        <4>5. QED
          BY <4>1, <4>3, <4>4, Zenon DEF b, tq
      <3>8. Here = a \o (<<m>> \o b)
        <4> DEFINE mt == <<m>> \o t
        <4>1. mt \in Seq(Messages) /\ mt \o q \in Seq(Messages)
          <5>1. mt \in Seq(Messages)
            BY <3>6
          <5> HIDE DEF mt
          <5>2. QED
            BY <1>0, <5>1, ConcatProperties
        <4>2. Here = ((a \o mt) \o q) \o r
          BY <1>1, <3>2
        <4> HIDE DEF mt
        <4>3. (a \o mt) \o q = a \o (mt \o q)
          BY <1>0, <3>2, <4>1, Assoc, SMTT(60)
        <4>4. (a \o (mt \o q)) \o r = a \o ((mt \o q) \o r)
          <5> DEFINE mtq == mt \o q
          <5>1. /\ a \in Seq(Messages) /\ mtq \in Seq(Messages)
                /\ r \in Seq(Messages)
            BY <1>0, <3>2, <4>1
          <5> HIDE DEF mtq
          <5>2. (a \o mtq) \o r = a \o (mtq \o r)
            BY <5>1, Assoc, SMTT(60)
          <5>3. QED
            BY <5>2 DEF mtq
        <4>5. mt \o q = <<m>> \o (t \o q)
          BY <1>0, <3>2, <3>6, Assoc, SMTT(60) DEF mt
        <4>6. (<<m>> \o (t \o q)) \o r = <<m>> \o ((t \o q) \o r)
          BY <1>0, <3>6, Assoc, SMTT(60)
        <4>7. QED
          BY <4>2, <4>3, <4>4, <4>5, <4>6, Zenon DEF b
      <3>9. QED
        BY <2>1, <3>2, <3>3, <3>5, <3>6, <3>7, <3>8 DEF Leaves, OneLeaves
    <2>3. CASE UNCHANGED <<pendingMessages, handed>>
      BY <1>2, <2>1, <2>3 DEF p
    <2>4. QED
      BY <1>4, <2>2, <2>3 DEF Receive, ReceiveAny
  <1>5. ASSUME NEW n \in 1..Len(toRunner), OnDataEvent(n)
        PROVE  Stays
    <2>1. /\ q = <<>> /\ p' = p /\ handed' = handed /\ written' = written
          /\ q' = SubSeq(r, 1, n) /\ r' = SubSeq(r, n + 1, Len(r))
          /\ n \in 1..Len(r)
      BY <1>5 DEF OnDataEvent, OnData, EventLoopTurn, p, q, r
    <2>2. /\ n \in 0..Len(r) /\ 1 \in 1..(Len(r) + 1)
          /\ n \in (1 - 1)..Len(r) /\ Len(r) \in n..Len(r)
      BY <1>0, <2>1
    <2>3. q' \in Seq(Messages) /\ r' \in Seq(Messages)
      BY <1>0, <2>1, <2>2, Halves
    <2>4. q' \o r' = r
      BY <1>0, <2>1, <2>2, ConcatAdjacentSubSeq, SubSeqFull
    <2>5. Here' = p \o r
      <3>1. (p \o q') \o r' = p \o (q' \o r')
        <4>1. p \in Seq(Messages)
          BY <1>0
        <4>2. QED
          BY <2>3, <4>1, Assoc, SMTT(60)
      <3>2. QED
        BY <1>1, <2>1, <2>4, <3>1
    <2>6. Here = p \o r
      BY <1>0, <1>1, <2>1, ConcatEmptySeq
    <2>7. QED
      BY <2>1, <2>5, <2>6 DEF Stays
  <1>6. CASE DeliverNext
    <2> DEFINE i == FirstWaiter(Head(parsed).type)
               m == q[1]
               t == SubSeq(q, 2, Len(q))
               b == t \o r
    <2>1. /\ q # <<>> /\ q' = Tail(q) /\ r' = r /\ written' = written
      BY <1>6 DEF DeliverNext, DeliverParsed, q, r
    <2>2. 1 \in 1..Len(q)
      BY <1>0, <2>1, EmptySeq
    <2>3. q' = t /\ Head(q) = m
      BY <1>0, <2>1, TailIsSubSeq
    <2>4. /\ q = <<m>> \o t /\ m \in Messages
          /\ t \in Seq(Messages) /\ <<m>> \in Seq(Messages)
      <3>1. Len(q) \in 1..Len(q) /\ 1 \in 0..Len(q)
        BY <1>0, <2>2
      <3>2. q = <<m>> \o t
        BY <1>0, <2>2, <3>1, SubSeqRecursiveFirst, SubSeqFull
      <3>3. m \in Messages /\ t \in Seq(Messages)
        BY <1>0, <2>2, <3>1, ElementOfSeq, Halves
      <3>4. QED
        BY <3>2, <3>3
    <2> HIDE DEF m, t
    <2>5. CASE Resolving(i, Head(parsed)) /\ UNCHANGED pendingMessages
      <3>1. i \in 1..Len(waiters) /\ Head(q).type \in waiters[i].types
        BY <1>0, <2>5, FirstWaiterFound DEF Resolving, q
      <3>2. \A j \in 1..Len(p) : p[j].type # m.type
        BY <2>3, <3>1 DEF NoMatchMissed, p
      <3>3. p' = p /\ handed' = handed \cup {m}
        BY <2>3, <2>5 DEF Resolving, p, q
      <3> HIDE DEF i
      <3>4. b \in Seq(Messages)
        BY <1>0, <2>4, ConcatProperties
      <3>5. Here' = p \o b
        <4>1. (p \o t) \o r = p \o (t \o r)
          BY <1>0, <2>4, Assoc, SMTT(60)
        <4>2. QED
          BY <1>1, <2>1, <2>3, <3>3, <4>1
      <3>6. Here = p \o (<<m>> \o b)
        <4>1. (p \o q) \o r = p \o (q \o r)
          BY <1>0, Assoc, SMTT(60)
        <4>2. (<<m>> \o t) \o r = <<m>> \o (t \o r)
          BY <1>0, <2>4, Assoc, SMTT(60)
        <4>3. QED
          BY <1>1, <2>4, <4>1, <4>2
      <3>7. QED
        BY <1>0, <2>1, <2>4, <3>2, <3>3, <3>4, <3>5, <3>6
        DEF Leaves, OneLeaves
    <2>6. CASE Keeping(i)
      <3>1. p' = Append(p, m) /\ handed' = handed
        BY <2>3, <2>6 DEF Keeping, p, q
      <3>2. Here' = (p \o <<m>>) \o t \o r
        BY <1>0, <1>1, <2>1, <2>3, <2>4, <3>1, AppendIsConcat, SMTT(60)
      <3>3. (p \o <<m>>) \o t = p \o q
        BY <1>0, <2>4, Assoc, SMTT(60)
      <3>4. QED
        BY <1>1, <2>1, <3>1, <3>2, <3>3 DEF Stays
    <2>7. QED
      BY <1>6, <2>5, <2>6 DEF DeliverNext, DeliverParsed
  <1>7. ASSUME UNCHANGED <<pendingMessages, parsed, toRunner, handed, written>>
        PROVE  Stays
    BY <1>2, <1>7 DEF p, q, r
  <1>8. QED
    BY <1>3, <1>4, <1>5, <1>6, <1>7
    DEF SysNext, TimerFires, Timeout, Resume, CloseServer, Close, sysVars, vars

(* What makes the order inductive: the queue is in the order of writing,   *)
(* so what leaves first of its type is the oldest of its type.             *)
InTagOrder ==
  \A i, j \in 1..Len(Here) : i < j => Here[i].tag < Here[j].tag
QueueInv ==
  IsFiniteSet(handed) /\ InTagOrder /\ HandedInOrder /\ NoMessageLost

(* The three kinds of step keep the order and the count.                   *)
LEMMA StillQueued ==
  ASSUME TypeInv, NoMatchMissed, QueueInv, [SysNext]_sysVars
  PROVE  QueueInv'
  <1>0. /\ Here \in Seq(Messages)
        /\ Len(Here) \in Nat /\ DOMAIN Here = 1..Len(Here)
        /\ \A i \in 1..Len(Here) : Here[i] \in Messages
        /\ \A m \in handed : m \in Messages
        /\ written \in Nat
    <2>1. Here \in Seq(Messages)
      BY ConcatProperties DEF Here, TypeInv, TypeOK
    <2>2. QED
      BY <2>1, LenProperties, ElementOfSeq DEF TypeInv, TypeOK
  <1>1. /\ \A i \in 1..Len(Here) : Here[i].tag \in 1..written
        /\ \A m \in handed : m.tag \in 1..written
    <2>1. {m.tag : m \in handed \cup ToSet(Here)} = 1..written
      BY DEF QueueInv, NoMessageLost
    <2>2. \A m \in handed \cup ToSet(Here) : m.tag \in 1..written
      BY <2>1
    <2>3. \A i \in 1..Len(Here) : Here[i] \in ToSet(Here)
      BY <1>0 DEF ToSet
    <2>4. QED
      BY <2>2, <2>3
  <1>2. CASE Stays
    <2>1. Here' = Here /\ handed' = handed /\ written' = written
      BY <1>2 DEF Stays
    <2>2. QED
      BY <2>1 DEF QueueInv, InTagOrder, HandedInOrder, NoMessageLost
  <1>3. ASSUME NEW m \in Messages, Arrives(m)
        PROVE  QueueInv'
    <2>1. /\ Len(Here') = Len(Here) + 1 /\ Here'[Len(Here) + 1] = m
          /\ \A j \in 1..Len(Here) : Here'[j] = Here[j]
          /\ 1..Len(Here') = 1..Len(Here) \cup {Len(Here) + 1}
          /\ Here' \in Seq(Messages)
      BY <1>0, <1>3, Appended, AppendProperties DEF Arrives
    <2>2. /\ m.tag = written + 1
          /\ handed' = handed /\ written' = written + 1
      BY <1>3 DEF Arrives
    <2>3. InTagOrder'
      <3>1. ASSUME NEW i \in 1..Len(Here'), NEW j \in 1..Len(Here'), i < j
            PROVE  Here'[i].tag < Here'[j].tag
        <4>1. i \in 1..Len(Here)
          BY <1>0, <2>1, <3>1
        <4>2. CASE j \in 1..Len(Here)
          BY <2>1, <3>1, <4>1, <4>2 DEF QueueInv, InTagOrder
        <4>3. CASE j = Len(Here) + 1
          <5>1. Here'[i].tag \in 1..written /\ Here'[j].tag = written + 1
            BY <1>1, <2>1, <2>2, <4>1, <4>3
          <5>2. QED
            BY <1>0, <5>1
        <4>4. QED
          BY <2>1, <4>2, <4>3
      <3>2. QED
        BY <3>1 DEF InTagOrder
    <2>4. HandedInOrder'
      <3>1. ASSUME NEW h \in handed', NEW i \in 1..Len(Here'),
                   Here'[i].type = h.type
            PROVE  h.tag < Here'[i].tag
        <4>1. h \in handed /\ h.tag \in 1..written
          BY <1>1, <2>2
        <4>2. CASE i \in 1..Len(Here)
          BY <2>1, <3>1, <4>1, <4>2 DEF QueueInv, HandedInOrder
        <4>3. CASE i = Len(Here) + 1
          BY <1>0, <2>1, <2>2, <4>1, <4>3
        <4>4. QED
          BY <2>1, <4>2, <4>3
      <3>2. QED
        BY <3>1 DEF HandedInOrder
    <2>5. NoMessageLost'
      <3>1. DOMAIN Here' = 1..Len(Here')
        BY <2>1, LenProperties
      <3>2. ToSet(Here') = ToSet(Here) \cup {m}
        BY <1>0, <2>1, <3>1 DEF ToSet
      <3>3. {n.tag : n \in handed' \cup ToSet(Here')}
              = {n.tag : n \in handed \cup ToSet(Here)} \cup {m.tag}
        BY <2>2, <3>2
      <3>4. 1..(written + 1) = 1..written \cup {written + 1}
        BY <1>0
      <3>5. {n.tag : n \in handed' \cup ToSet(Here')} = 1..written'
        BY <2>2, <3>3, <3>4 DEF QueueInv, NoMessageLost
      <3>6. Cardinality(handed') + Len(Here') = written'
        <4>1. Cardinality(handed) \in Nat
          BY FS_CardinalityType DEF QueueInv
        <4>2. QED
          BY <1>0, <2>1, <2>2, <4>1 DEF QueueInv, NoMessageLost
      <3>7. QED
        BY <3>5, <3>6 DEF NoMessageLost
    <2>6. QED
      BY <2>2, <2>3, <2>4, <2>5 DEF QueueInv
  <1>4. ASSUME NEW a \in Seq(Messages), NEW b \in Seq(Messages),
               NEW m \in Messages, Leaves(a, m, b)
        PROVE  QueueInv'
    <2> DEFINE k == Len(a) + 1
               f(j) == IF j < k THEN j ELSE j + 1
    <2>1. /\ Here = a \o (<<m>> \o b) /\ Here' = a \o b
          /\ handed' = handed \cup {m} /\ written' = written
          /\ \A j \in 1..Len(a) : a[j].type # m.type
      BY <1>4 DEF Leaves
    <2>2. /\ k \in 1..Len(Here) /\ Here[k] = m
          /\ Here' \in Seq(Messages) /\ Len(Here') = Len(Here) - 1
          /\ \A j \in 1..Len(a) : Here[j] = a[j]
          /\ \A j \in 1..(Len(Here) - 1) : Here'[j] = Here[f(j)]
      BY <2>1, TakenOut
    <2>3. Len(a) \in Nat
      BY LenProperties
    <2>4. /\ \A j \in 1..Len(Here') : f(j) \in (1..Len(Here)) \ {k}
          /\ \A i, j \in 1..Len(Here') : i < j => f(i) < f(j)
          /\ \A i \in 1..Len(Here) : i = k \/ \E j \in 1..Len(Here') : f(j) = i
      <3>1. /\ \A j \in 1..Len(Here') : f(j) \in (1..Len(Here)) \ {k}
            /\ \A i, j \in 1..Len(Here') : i < j => f(i) < f(j)
        BY <1>0, <2>2, <2>3
      <3>2. ASSUME NEW i \in 1..Len(Here), i # k
            PROVE  \E j \in 1..Len(Here') : f(j) = i
        <4>1. CASE i < k
          <5>1. i \in 1..Len(Here') /\ f(i) = i
            BY <1>0, <2>2, <2>3, <4>1
          <5>2. QED
            BY <5>1
        <4>2. CASE ~(i < k)
          <5>1. i - 1 \in 1..Len(Here') /\ f(i - 1) = i
            BY <1>0, <2>2, <2>3, <3>2, <4>2
          <5>2. QED
            BY <5>1
        <4>3. QED
          BY <4>1, <4>2
      <3>3. QED
        BY <3>1, <3>2
    <2> HIDE DEF f
    <2>5. InTagOrder'
      <3>1. ASSUME NEW i \in 1..Len(Here'), NEW j \in 1..Len(Here'), i < j
            PROVE  Here'[i].tag < Here'[j].tag
        <4>1. /\ f(i) \in 1..Len(Here) /\ f(j) \in 1..Len(Here) /\ f(i) < f(j)
              /\ Here'[i] = Here[f(i)] /\ Here'[j] = Here[f(j)]
          BY <2>2, <2>4, <3>1
        <4>2. QED
          BY <4>1 DEF QueueInv, InTagOrder
      <3>2. QED
        BY <3>1 DEF InTagOrder
    <2>6. HandedInOrder'
      <3>1. ASSUME NEW h \in handed', NEW j \in 1..Len(Here'),
                   Here'[j].type = h.type
            PROVE  h.tag < Here'[j].tag
        <4>1. f(j) \in (1..Len(Here)) \ {k} /\ Here'[j] = Here[f(j)]
          BY <2>2, <2>4
        <4>2. CASE h \in handed
          BY <3>1, <4>1, <4>2 DEF QueueInv, HandedInOrder
        <4>3. CASE h = m
          <5>1. ~(f(j) < k)
            <6>1. f(j) < k => f(j) \in 1..Len(a)
              BY <1>0, <2>3, <4>1
            <6>2. QED
              BY <2>1, <2>2, <3>1, <4>1, <4>3, <6>1
          <5>2. k < f(j)
            BY <1>0, <2>3, <4>1, <5>1
          <5>3. QED
            BY <2>2, <4>1, <4>3, <5>2 DEF QueueInv, InTagOrder
        <4>4. QED
          BY <2>1, <4>2, <4>3
      <3>2. QED
        BY <3>1 DEF HandedInOrder
    <2>7. m \notin handed
      <3>1. m.tag \in Nat
        BY DEF Messages
      <3>2. ~(m.tag < m.tag)
        BY <3>1
      <3>3. QED
        BY <2>2, <3>2 DEF QueueInv, HandedInOrder
    <2>8. /\ IsFiniteSet(handed') /\ Cardinality(handed) \in Nat
          /\ Cardinality(handed') = Cardinality(handed) + 1
      BY <2>1, <2>7, FS_AddElement, FS_CardinalityType DEF QueueInv
    <2>9. NoMessageLost'
      <3>1. DOMAIN Here' = 1..Len(Here')
        BY <2>2, LenProperties
      <3>2. ASSUME NEW n
            PROVE  n \in ToSet(Here) <=> n \in ToSet(Here') \cup {m}
        <4>1. ASSUME n \in ToSet(Here)
              PROVE  n \in ToSet(Here') \cup {m}
          <5>1. PICK i \in 1..Len(Here) : n = Here[i]
            BY <1>0, <4>1 DEF ToSet
          <5>2. CASE i = k
            BY <2>2, <5>1, <5>2
          <5>3. CASE i # k
            <6>1. PICK j \in 1..Len(Here') : f(j) = i
              BY <2>4, <5>3
            <6>2. n = Here'[j]
              BY <2>2, <5>1, <6>1
            <6>3. QED
              BY <3>1, <6>2 DEF ToSet
          <5>4. QED
            BY <5>2, <5>3
        <4>2. ASSUME n \in ToSet(Here')
              PROVE  n \in ToSet(Here)
          <5>1. PICK j \in 1..Len(Here') : n = Here'[j]
            BY <3>1, <4>2 DEF ToSet
          <5>2. f(j) \in 1..Len(Here) /\ n = Here[f(j)]
            BY <2>2, <2>4, <5>1
          <5>3. QED
            BY <1>0, <5>2 DEF ToSet
        <4>3. m \in ToSet(Here)
          BY <1>0, <2>2 DEF ToSet
        <4>4. QED
          BY <4>1, <4>2, <4>3
      <3>3. handed' \cup ToSet(Here') = handed \cup ToSet(Here)
        BY <2>1, <3>2
      <3>4. {n.tag : n \in handed' \cup ToSet(Here')} = 1..written'
        BY <2>1, <3>3 DEF QueueInv, NoMessageLost
      <3>5. Cardinality(handed') + Len(Here') = written'
        BY <1>0, <2>1, <2>2, <2>8 DEF QueueInv, NoMessageLost
      <3>6. QED
        BY <3>4, <3>5 DEF NoMessageLost
    <2>10. QED
      BY <2>5, <2>6, <2>8, <2>9 DEF QueueInv
  <1>5. QED
    BY <1>2, <1>3, <1>4, HereChanges DEF OneLeaves

(* The order and the count hold of every behaviour.                        *)
LEMMA Queued ==
  SysSpec => []QueueInv
  <1>1. SysInit => QueueInv
    <2> SUFFICES ASSUME SysInit
                 PROVE  QueueInv
      OBVIOUS
    <2>1. handed = {} /\ written = 0 /\ Here = <<>> \o <<>> \o <<>>
      BY DEF SysInit, Init, Here
    <2>2. Here = <<>>
      BY <2>1, EmptySeq, ConcatEmptySeq
    <2>3. Len(Here) = 0 /\ ToSet(Here) = {}
      BY <2>2 DEF ToSet
    <2>4. IsFiniteSet(handed) /\ Cardinality(handed) = 0
      BY <2>1, FS_EmptySet
    <2>5. NoMessageLost
      BY <2>1, <2>3, <2>4 DEF NoMessageLost
    <2>6. QED
      BY <2>1, <2>3, <2>4, <2>5 DEF QueueInv, InTagOrder, HandedInOrder
  <1>2. TypeInv /\ NoMatchMissed /\ QueueInv /\ [SysNext]_sysVars => QueueInv'
    BY StillQueued
  <1>3. QED
    BY <1>1, <1>2, Typed, ListsAgree, PTL DEF SysSpec

(* Messages of one type reach the calls in the order the game wrote them,  *)
(* whichever of receiveAny() and onData() hands them over.                 *)
THEOREM FirstWrittenFirstHanded == SysSpec => []HandedInOrder
  BY Queued, PTL DEF QueueInv

(* Each message written is on its way or was handed over, once: no timeout,*)
(* no closing and no order of calls loses or doubles one.                  *)
THEOREM AllAccountedFor == SysSpec => []NoMessageLost
  BY Queued, PTL DEF QueueInv
=============================================================================
