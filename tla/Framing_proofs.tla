--------------------------- MODULE Framing_proofs ----------------------------
(***************************************************************************)
(* Theorems about Framing: for any base, any messages, any sizes that the  *)
(* runner accepts and any bounds (FramingAssumption).                      *)
(***************************************************************************)
EXTENDS Framing, SequenceLemmas, FiniteSetTheorems

-----------------------------------------------------------------------------
(* The inductive invariant.                                                *)

Stream == buf \o wire

(* The stream is made of the messages after the first k: the i-th ends     *)
(* with its byte at[i].                                                    *)
Holds(k, at) ==
  /\ at[k] = 0 /\ at[Len(sent)] = Len(Stream)
  /\ \A i, j \in k..Len(sent) : i <= j => at[i] <= at[j]
  /\ \A i \in (k + 1)..Len(sent) :
       /\ at[i] = at[i - 1] + Len(Encode(sent[i]))
       /\ \A j \in 1..Len(Encode(sent[i])) :
            Stream[at[i - 1] + j] = Encode(sent[i])[j]

(* What is passed on of the first k messages has been received.            *)
Delivered(k) ==
  /\ Len(received) = Cardinality(PassedOn(k))
  /\ \A i \in PassedOn(k) :
       received[Cardinality({h \in PassedOn(k) : h <= i})] = sent[i]

InStep ==
  \E k \in 0..Len(sent) :
    /\ Delivered(k)
    /\ \E at \in [k..Len(sent) -> 0..Len(Stream)] : Holds(k, at)

(* The buffer of the game is never thrown away.                            *)
Roomy == end = "runner" \/ MaxInFlight <= Capacity

FramingInv ==
  /\ Len(wire) + Len(buf) <= MaxInFlight
  /\ parsing => end = "runner"
  /\ Roomy => InStep

(* Bytes are put together in any order.                                    *)
LEMMA BytesJoined ==
  \A x, y, z \in Seq(Bytes) : (x \o y) \o z = x \o (y \o z)
  BY ConcatAssociative

-----------------------------------------------------------------------------
(* A length in two bytes, and back.                                        *)
LEMMA TwoBytes ==
  ASSUME NEW n \in 0..MaxPayload
  PROVE  /\ n \div Base \in Bytes /\ n % Base \in Bytes
         /\ (n \div Base) * Base + (n % Base) = n
  BY FramingAssumption DEF MaxPayload, Word, Bytes

(* A length as a uint16 is no greater.                                     *)
LEMMA Wraps ==
  ASSUME NEW n \in Nat
  PROVE  n % Word \in Nat /\ n % Word <= n
  <1>1. Word \in Nat \ {0}
    BY FramingAssumption DEF Word
  <1>2. QED
    BY <1>1

(* What encode_message() writes.                                           *)
LEMMA Encoded ==
  ASSUME NEW m \in Messages
  PROVE  /\ m \in [type : Bytes, payload : Seq(Bytes)]
         /\ Encode(m) \in Seq(Bytes)
         /\ Len(Encode(m)) = HeaderSize + Len(m.payload)
         /\ Len(m.payload) \in Nat
         /\ Encode(m)[1] = m.type
         /\ Encode(m)[2] * Base + Encode(m)[3] = Len(m.payload)
         /\ \A j \in 1..Len(m.payload) :
              Encode(m)[HeaderSize + j] = m.payload[j]
  <1> DEFINE n == Len(m.payload)
             header == <<m.type, n \div Base, n % Base>>
  <1>1. m \in [type : Bytes, payload : Seq(Bytes)] /\ n \in 0..MaxPayload
    BY FramingAssumption, LenProperties
  <1>2. n \div Base \in Bytes /\ n % Base \in Bytes
        /\ (n \div Base) * Base + (n % Base) = n
    BY <1>1, TwoBytes
  <1>3. /\ header \in Seq(Bytes) /\ Len(header) = 3
        /\ header[1] = m.type /\ header[2] = n \div Base
        /\ header[3] = n % Base
    BY <1>1, <1>2
  <1>4. Encode(m) = header \o m.payload
    BY DEF Encode
  <1> HIDE DEF header
  <1> HIDE DEF n
  <1>5. /\ Encode(m) \in Seq(Bytes) /\ Len(Encode(m)) = 3 + n
        /\ \A j \in 1..(3 + n) :
             Encode(m)[j] = IF j <= 3 THEN header[j] ELSE m.payload[j - 3]
    <2>1. m.payload \in Seq(Bytes) /\ n \in Nat
      BY <1>1
    <2>2. /\ header \o m.payload \in Seq(Bytes)
          /\ Len(header \o m.payload) = Len(header) + Len(m.payload)
          /\ \A j \in 1..(Len(header) + Len(m.payload)) :
               (header \o m.payload)[j] =
                 IF j <= Len(header) THEN header[j]
                 ELSE m.payload[j - Len(header)]
      BY <1>3, <2>1, ConcatProperties
    <2>3. QED
      BY <1>3, <1>4, <2>1, <2>2 DEF n
  <1>6. \A j \in 1..n : Encode(m)[3 + j] = m.payload[j]
    BY <1>1, <1>5
  <1>7. /\ Encode(m)[1] = m.type
        /\ Encode(m)[2] = n \div Base /\ Encode(m)[3] = n % Base
    BY <1>1, <1>3, <1>5
  <1>8. n \in Nat
    BY <1>1
  <1>9. QED
    BY <1>1, <1>2, <1>5, <1>6, <1>7, <1>8 DEF HeaderSize, n

(* A buffer that starts as a message does: its size is read off it, and    *)
(* once it is complete the message is found.                               *)
LEMMA Found ==
  ASSUME NEW b \in Seq(Bytes), Len(b) >= HeaderSize, NEW m \in Messages,
         \A j \in 1..Len(Encode(m)) : j <= Len(b) => b[j] = Encode(m)[j]
  PROVE  /\ TotalLen(b) = Len(Encode(m))
         /\ Complete(b) => FrontMessage(b) = m
  <1>1. /\ m \in [type : Bytes, payload : Seq(Bytes)]
        /\ Len(Encode(m)) = 3 + Len(m.payload) /\ Len(m.payload) \in Nat
        /\ Encode(m)[1] = m.type
        /\ Encode(m)[2] * Base + Encode(m)[3] = Len(m.payload)
        /\ \A j \in 1..Len(m.payload) : Encode(m)[3 + j] = m.payload[j]
    BY Encoded DEF HeaderSize
  <1>2. Len(b) \in Nat /\ Len(b) >= 3
    BY LenProperties DEF HeaderSize
  <1>3. b[1] = m.type /\ b[2] = Encode(m)[2] /\ b[3] = Encode(m)[3]
    BY <1>1, <1>2
  <1>4. PayloadLen(b) = Len(m.payload)
    BY <1>1, <1>3 DEF PayloadLen
  <1>5. TotalLen(b) = 3 + Len(m.payload)
    BY <1>4 DEF TotalLen, HeaderSize
  <1>6. ASSUME Complete(b) PROVE FrontMessage(b) = m
    <2> DEFINE p == SubSeq(b, 4, 3 + Len(m.payload))
    <2>1. 3 + Len(m.payload) <= Len(b)
      BY <1>5, <1>6 DEF Complete
    <2>2. \A j \in 4..(3 + Len(m.payload)) : b[j] \in Bytes
      BY <1>1, <1>2, <2>1, ElementOfSeq
    <2>3. /\ p \in Seq(Bytes)
          /\ Len(p) = IF 4 <= 3 + Len(m.payload)
                      THEN 3 + Len(m.payload) - 4 + 1 ELSE 0
          /\ \A j \in 1..(3 + Len(m.payload) - 4 + 1) : p[j] = b[4 + j - 1]
      BY <1>1, <1>2, <2>2, SubSeqProperties
    <2>4. Len(p) = Len(m.payload)
      BY <1>1, <2>3
    <2>5. \A j \in 1..Len(m.payload) : p[j] = m.payload[j]
      BY <1>1, <1>2, <2>1, <2>3
    <2>6. p = m.payload
      <3> HIDE DEF p
      <3>1. QED
        BY <1>1, <2>3, <2>4, <2>5, SeqEqual
    <2>7. SubSeq(b, 3 + 1, 3 + Len(m.payload)) = m.payload
      BY <2>6
    <2>8. FrontMessage(b) = [type |-> m.type, payload |-> m.payload]
      BY <1>3, <1>5, <2>7 DEF FrontMessage, HeaderSize
    <2>9. QED
      BY <1>1, <2>8
  <1>7. QED
    BY <1>1, <1>5, <1>6

-----------------------------------------------------------------------------
(* Types.                                                                  *)
Received == [type : Bytes, payload : Seq(Bytes)]

(* A complete message taken off the front, and what is left.               *)
LEMMA TakenOff ==
  ASSUME NEW b \in Seq(Bytes), Complete(b)
  PROVE  /\ FrontMessage(b) \in Received
         /\ Rest(b) \in Seq(Bytes)
         /\ TotalLen(b) \in HeaderSize..Len(b)
         /\ Len(Rest(b)) = Len(b) - TotalLen(b)
         /\ \A j \in 1..(Len(b) - TotalLen(b)) : Rest(b)[j] = b[TotalLen(b) + j]
  <1>1. /\ Len(b) \in Nat /\ Len(b) >= 3 /\ Len(b) >= TotalLen(b)
        /\ \A j \in 1..Len(b) : b[j] \in Bytes
    BY LenProperties, ElementOfSeq DEF Complete, HeaderSize
  <1>2. PayloadLen(b) \in Nat
    <2>1. b[2] \in Nat /\ b[3] \in Nat /\ Base \in Nat
      BY <1>1, FramingAssumption DEF Bytes
    <2>2. b[2] * Base \in Nat
      BY <2>1
    <2>3. QED
      BY <2>1, <2>2 DEF PayloadLen
  <1>3. TotalLen(b) \in 3..Len(b)
    BY <1>1, <1>2 DEF TotalLen, HeaderSize
  <1>4. SubSeq(b, 4, TotalLen(b)) \in Seq(Bytes)
    <2>1. \A j \in 4..TotalLen(b) : b[j] \in Bytes
      BY <1>1, <1>3
    <2>2. QED
      BY <1>3, <2>1, SubSeqProperties
  <1>5. TotalLen(b) \in 0..Len(b)
    BY <1>1, <1>3
  <1>6. QED
    BY <1>1, <1>3, <1>4, <1>5, Halves
       DEF Rest, FrontMessage, HeaderSize, Received

(* try_parse_message() finds none where there is none.                     *)
LEMMA TriesInFull ==
  ASSUME NEW b \in Seq(Bytes), TryParse(b)
  PROVE  Complete(b)
  <1>1. Len(b) \in Nat /\ Len(b) % Word <= Len(b) /\ Len(b) % Word \in Nat
    BY LenProperties, Wraps
  <1>2. Len(b) >= HeaderSize
    BY <1>1 DEF TryParse, HeaderSize
  <1>3. \A j \in 1..Len(b) : b[j] \in Bytes
    BY ElementOfSeq
  <1>4. TotalLen(b) \in Int
    <2>1. b[2] \in Nat /\ b[3] \in Nat /\ Base \in Nat
      BY <1>1, <1>2, <1>3, FramingAssumption DEF Bytes, HeaderSize
    <2>2. b[2] * Base \in Nat
      BY <2>1
    <2>3. QED
      BY <2>1, <2>2 DEF PayloadLen, TotalLen, HeaderSize
  <1>5. QED
    BY <1>1, <1>2, <1>4 DEF TryParse, Complete, HeaderSize

(* Bytes read from the wire into the buffer.                               *)
LEMMA ReadOn ==
  ASSUME NEW b \in Seq(Bytes), NEW w \in Seq(Bytes), NEW n \in 0..Len(w)
  PROVE  /\ b \o SubSeq(w, 1, n) \in Seq(Bytes)
         /\ Len(b \o SubSeq(w, 1, n)) = Len(b) + n
         /\ SubSeq(w, n + 1, Len(w)) \in Seq(Bytes)
         /\ Len(SubSeq(w, n + 1, Len(w))) = Len(w) - n
         /\ (b \o SubSeq(w, 1, n)) \o SubSeq(w, n + 1, Len(w)) = b \o w
  <1> DEFINE x == SubSeq(w, 1, n)
             y == SubSeq(w, n + 1, Len(w))
  <1>1. /\ x \in Seq(Bytes) /\ Len(x) = n /\ \A j \in 1..n : x[j] = w[j]
        /\ y \in Seq(Bytes) /\ Len(y) = Len(w) - n
        /\ \A j \in 1..(Len(w) - n) : y[j] = w[n + j]
    BY Halves
  <1>2. Len(b) \in Nat /\ Len(w) \in Nat /\ n \in Nat
    BY LenProperties
  <1> HIDE DEF x, y
  <1>3. x \o y = w
    <2>1. /\ x \o y \in Seq(Bytes) /\ Len(x \o y) = Len(x) + Len(y)
          /\ \A j \in 1..(Len(x) + Len(y)) :
               (x \o y)[j] = IF j <= Len(x) THEN x[j] ELSE y[j - Len(x)]
      BY <1>1, ConcatProperties
    <2>2. Len(x \o y) = Len(w)
      BY <1>1, <1>2, <2>1
    <2>3. \A j \in 1..Len(x \o y) : (x \o y)[j] = w[j]
      BY <1>1, <1>2, <2>1
    <2>4. QED
      BY <2>1, <2>2, <2>3, SeqEqual
  <1>4. /\ b \o x \in Seq(Bytes) /\ Len(b \o x) = Len(b) + Len(x)
    BY <1>1, ConcatProperties
  <1>5. (b \o x) \o y = b \o (x \o y)
    BY ONLY <1>1, BytesJoined
  <1>6. QED
    BY <1>1, <1>3, <1>4, <1>5 DEF x, y

(* A frame with a message in its buffer, or without.                       *)
LEMMA TakeOneTyped ==
  ASSUME TypeOK, NEW b \in Seq(Bytes), TakeOne(b)
  PROVE  /\ buf' \in Seq(Bytes) /\ Len(buf') <= Len(b)
         /\ received' \in Seq(Received)
  <1>1. CASE TryParse(b)
    <2>1. Complete(b)
      BY <1>1, TriesInFull
    <2>2. /\ FrontMessage(b) \in Received /\ Rest(b) \in Seq(Bytes)
          /\ TotalLen(b) \in 3..Len(b) /\ Len(Rest(b)) = Len(b) - TotalLen(b)
      BY <2>1, TakenOff DEF HeaderSize
    <2>3. received' \in Seq(Received)
      <3>1. received \in Seq(Received)
        BY DEF TypeOK, Received
      <3>2. Append(received, FrontMessage(b)) \in Seq(Received)
        BY <2>2, <3>1, AppendProperties
      <3>3. QED
        BY <1>1, <3>2 DEF TakeOne
    <2>4. QED
      BY <1>1, <2>2, <2>3, LenProperties DEF TakeOne
  <1>2. CASE ~TryParse(b)
    BY <1>2, LenProperties DEF TakeOne, TypeOK, Received
  <1>3. QED
    BY <1>1, <1>2

(* Every step keeps the types.                                             *)
LEMMA TypesKept ==
  ASSUME TypeOK, [Next]_vars
  PROVE  TypeOK'
  <1>1. /\ sent \in Seq(Messages) /\ wire \in Seq(Bytes) /\ buf \in Seq(Bytes)
        /\ Len(wire) \in Nat /\ Len(buf) \in Nat
        /\ received \in Seq(Received) /\ end \in {"game", "runner"}
        /\ parsing \in BOOLEAN /\ (end = "game" => Len(buf) <= Capacity)
    BY LenProperties DEF TypeOK, Received
  <1>2. Capacity \in Nat
    BY FramingAssumption DEF Capacity, HeaderSize, MaxPayload, Word
  <1>3. ASSUME NEW m \in Messages, Send(m)
        PROVE  TypeOK'
    <2>1. Encode(m) \in Seq(Bytes)
      BY Encoded
    <2>2. wire' \in Seq(Bytes)
      BY <1>1, <1>3, <2>1, ConcatProperties DEF Send
    <2>3. sent' \in Seq(Messages)
      BY <1>1, <1>3, AppendProperties DEF Send
    <2>4. QED
      BY <1>1, <1>3, <2>2, <2>3 DEF Send, TypeOK, Received
  <1>4. ASSUME NEW available \in 0..Len(wire), NEW n \in 0..available,
               Frame(available, n)
        PROVE  TypeOK'
    <2>1. UNCHANGED <<end, sent, parsing>> /\ end = "game"
      BY <1>4 DEF Frame
    <2> DEFINE space   == Capacity - Len(buf)
               to_read == IF available < space THEN available ELSE space
    <2>2. CASE available > 0 /\ to_read <= 0
      <3>1. buf' = <<>> /\ UNCHANGED <<wire, received>>
        BY <1>4, <2>2 DEF Frame
      <3>2. QED
        BY <1>1, <1>2, <2>1, <3>1 DEF TypeOK, Received
    <2>3. CASE ~(available > 0 /\ to_read <= 0)
      <3> DEFINE b == buf \o SubSeq(wire, 1, n)
      <3>1. /\ n \in 0..to_read /\ TakeOne(b)
            /\ wire' = SubSeq(wire, n + 1, Len(wire))
        BY <1>4, <2>3 DEF Frame
      <3>2. n \in 0..Len(wire) /\ n <= Capacity - Len(buf)
        BY <1>1, <1>2, <3>1
      <3>3. /\ b \in Seq(Bytes) /\ Len(b) = Len(buf) + n
            /\ SubSeq(wire, n + 1, Len(wire)) \in Seq(Bytes)
        BY <1>1, <3>2, ReadOn
      <3> HIDE DEF b
      <3>4. /\ buf' \in Seq(Bytes) /\ Len(buf') <= Len(b)
            /\ received' \in Seq(Received)
        BY <3>1, <3>3, TakeOneTyped
      <3>5. Len(buf') <= Capacity
        BY <1>1, <1>2, <3>2, <3>3, <3>4, LenProperties
      <3>6. QED
        BY <1>1, <2>1, <3>1, <3>3, <3>4, <3>5 DEF TypeOK, Received
    <2>4. QED
      BY <2>2, <2>3
  <1>5. ASSUME NEW n \in 1..Len(wire), Push(n)
        PROVE  TypeOK'
    <2>1. n \in 0..Len(wire)
      BY <1>1
    <2>2. buf' \in Seq(Bytes) /\ wire' \in Seq(Bytes)
      BY <1>1, <1>5, <2>1, ReadOn DEF Push
    <2>3. QED
      BY <1>1, <1>5, <2>2 DEF Push, TypeOK, Received
  <1>6. ASSUME Parse
        PROVE  TypeOK'
    <2>1. CASE Complete(buf)
      <3>1. /\ FrontMessage(buf) \in Received /\ Rest(buf) \in Seq(Bytes)
            /\ TotalLen(buf) \in 3..Len(buf)
            /\ Len(Rest(buf)) = Len(buf) - TotalLen(buf)
        BY <1>1, <2>1, TakenOff DEF HeaderSize
      <3>2. received' \in Seq(Received)
        <4>1. Append(received, FrontMessage(buf)) \in Seq(Received)
          BY <1>1, <3>1, AppendProperties
        <4>2. \/ received' = Append(received, FrontMessage(buf))
              \/ received' = received
          BY <1>6, <2>1 DEF Parse
        <4>3. QED
          BY <1>1, <4>1, <4>2
      <3>3. buf' = Rest(buf) /\ UNCHANGED <<end, sent, wire, parsing>>
        BY <1>6, <2>1 DEF Parse
      <3>4. end = "game" => Len(buf') <= Capacity
        <4>1. Len(Rest(buf)) <= Len(buf)
          BY <1>1, <3>1
        <4>2. QED
          BY <1>1, <1>2, <3>1, <3>3, <4>1, LenProperties
      <3>5. QED
        BY <1>1, <3>1, <3>2, <3>3, <3>4 DEF TypeOK, Received
    <2>2. CASE ~Complete(buf)
      BY <1>1, <1>6, <2>2 DEF Parse, TypeOK, Received
    <2>3. QED
      BY <2>1, <2>2
  <1>7. CASE UNCHANGED vars
    BY <1>1, <1>7 DEF vars, TypeOK, Received
  <1>8. QED
    BY <1>3, <1>4, <1>5, <1>6, <1>7 DEF Next

(* At first everything is empty.                                           *)
LEMMA TypesAtFirst ==
  ASSUME Init
  PROVE  TypeOK
  <1>1. Capacity \in Nat
    BY FramingAssumption DEF Capacity, HeaderSize, MaxPayload, Word
  <1>2. /\ <<>> \in Seq(Messages) /\ <<>> \in Seq(Bytes)
        /\ <<>> \in Seq([type : Bytes, payload : Seq(Bytes)])
        /\ Len(<<>>) = 0
    BY EmptySeq
  <1>3. 0 <= Capacity
    BY <1>1
  <1>4. QED
    BY <1>2, <1>3 DEF Init, TypeOK

(* Both receive buffers hold bytes, the game's never more than its size,   *)
(* and what is taken from them is a message.                               *)
THEOREM FramingTypes == Spec => []TypeOK
  <1>1. Init => TypeOK
    BY TypesAtFirst
  <1>2. TypeOK /\ [Next]_vars => TypeOK'
    BY TypesKept
  <1>3. QED
    BY <1>1, <1>2, PTL DEF Spec

-----------------------------------------------------------------------------
(* What has been delivered.                                                *)

(* Places passed on are counted.                                           *)
LEMMA Counted ==
  ASSUME NEW k \in Nat
  PROVE  /\ IsFiniteSet(PassedOn(k)) /\ Cardinality(PassedOn(k)) \in Nat
         /\ \A i \in PassedOn(k) :
              /\ Cardinality({h \in PassedOn(k) : h <= i}) \in Nat
              /\ Cardinality({h \in PassedOn(k) : h <= i})
                   <= Cardinality(PassedOn(k))
              /\ Cardinality({h \in PassedOn(k) : h <= i}) # 0
  <1>1. IsFiniteSet(1..k)
    BY FS_Interval
  <1>2. IsFiniteSet(PassedOn(k))
    BY <1>1, FS_Subset DEF PassedOn
  <1>3. ASSUME NEW i \in PassedOn(k)
        PROVE  LET S == {h \in PassedOn(k) : h <= i}
               IN /\ Cardinality(S) \in Nat
                  /\ Cardinality(S) <= Cardinality(PassedOn(k))
                  /\ Cardinality(S) # 0
    <2> DEFINE S == {h \in PassedOn(k) : h <= i}
    <2>1. S \subseteq PassedOn(k) /\ i \in S
      BY <1>3 DEF PassedOn
    <2> HIDE DEF S
    <2>2. IsFiniteSet(S) /\ Cardinality(S) <= Cardinality(PassedOn(k))
      BY <1>2, <2>1, FS_Subset
    <2>3. Cardinality(S) \in Nat /\ Cardinality(S) # 0
      BY <2>1, <2>2, FS_CardinalityType, FS_EmptySet
    <2>4. QED
      BY <2>2, <2>3 DEF S
  <1>4. QED
    BY <1>2, <1>3, FS_CardinalityType

(* One more message is taken, and received if it is to be passed on.       *)
LEMMA DeliveredNext ==
  ASSUME TypeOK, NEW k \in 0..Len(sent), k < Len(sent), Delivered(k),
         UNCHANGED <<sent, end>>,
         received' = IF end = "game" \/ Decodes(sent[k + 1])
                     THEN Append(received, sent[k + 1]) ELSE received
  PROVE  Delivered(k + 1)'
  <1>1. Len(sent) \in Nat /\ k \in Nat /\ received \in Seq(Received)
        /\ sent[k + 1] \in Received
    <2>1. Len(sent) \in Nat /\ sent \in Seq(Messages)
      BY LenProperties DEF TypeOK
    <2>2. sent[k + 1] \in Messages
      BY <2>1, ElementOfSeq
    <2>3. QED
      BY <2>1, <2>2, FramingAssumption DEF TypeOK, Received
  <1>2. \A j \in Nat : PassedOn(j)' = PassedOn(j)
    BY DEF PassedOn
  <1>3. CASE end = "game" \/ Decodes(sent[k + 1])
    <2>1. PassedOn(k + 1) = PassedOn(k) \cup {k + 1} /\ k + 1 \notin PassedOn(k)
      BY <1>1, <1>3 DEF PassedOn
    <2>2. Cardinality(PassedOn(k + 1)) = Cardinality(PassedOn(k)) + 1
      BY <1>1, <2>1, Counted, FS_AddElement
    <2>3. /\ Len(received') = Len(received) + 1 /\ Len(received) \in Nat
          /\ received'[Len(received) + 1] = sent[k + 1]
          /\ \A j \in 1..Len(received) : received'[j] = received[j]
      BY <1>1, <1>3, AppendProperties, LenProperties
    <2>4. ASSUME NEW i \in PassedOn(k + 1)
          PROVE  received'[Cardinality({h \in PassedOn(k + 1) : h <= i})]
                   = sent[i]
      <3>1. CASE i = k + 1
        <4>1. {h \in PassedOn(k + 1) : h <= i} = PassedOn(k + 1)
          BY <1>1, <3>1 DEF PassedOn
        <4>2. QED
          BY <2>2, <2>3, <3>1, <4>1 DEF Delivered
      <3>2. CASE i \in PassedOn(k)
        <4> DEFINE n == Cardinality({h \in PassedOn(k) : h <= i})
        <4>1. {h \in PassedOn(k + 1) : h <= i} = {h \in PassedOn(k) : h <= i}
          BY <1>1, <2>1, <3>2 DEF PassedOn
        <4>2. n \in Nat /\ n # 0 /\ n <= Cardinality(PassedOn(k))
          BY <1>1, <3>2, Counted
        <4>3. received[n] = sent[i] /\ Len(received) = Cardinality(PassedOn(k))
          BY <3>2 DEF Delivered
        <4> HIDE DEF n
        <4>4. received'[n] = sent[i]
          BY <2>3, <4>2, <4>3
        <4>5. QED
          BY <4>1, <4>4 DEF n
      <3>3. QED
        BY <2>1, <2>4, <3>1, <3>2
    <2>5. PassedOn(k + 1)' = PassedOn(k + 1)
      BY <1>1, <1>2
    <2>6. Len(received') = Cardinality(PassedOn(k + 1))
      BY <2>2, <2>3 DEF Delivered
    <2>7. QED
      BY <2>4, <2>5, <2>6 DEF Delivered
  <1>4. CASE ~(end = "game" \/ Decodes(sent[k + 1]))
    <2>1. PassedOn(k + 1) = PassedOn(k)
      BY <1>1, <1>4 DEF PassedOn
    <2>2. received' = received
      BY <1>4
    <2>3. QED
      BY <1>1, <1>2, <2>1, <2>2 DEF Delivered
  <1>5. QED
    BY <1>3, <1>4

(* A message more is sent.                                                 *)
LEMMA DeliveredStays ==
  ASSUME NEW k \in 0..Len(sent), Delivered(k), Len(sent) \in Nat,
         \A i \in 1..Len(sent) : sent'[i] = sent[i],
         UNCHANGED <<end, received>>
  PROVE  Delivered(k)'
  <1>1. PassedOn(k)' = PassedOn(k)
    BY DEF PassedOn
  <1>2. \A i \in PassedOn(k) : sent'[i] = sent[i]
    BY DEF PassedOn
  <1>3. QED
    BY <1>1, <1>2 DEF Delivered

-----------------------------------------------------------------------------
(* What the stream holds.                                                  *)

(* The j-th byte of l bytes that lie behind the a-th of a stream,          *)
LEMMA Within ==
  ASSUME NEW all \in Nat, NEW a \in Nat, NEW l \in Nat, NEW j \in 1..l,
         a + l <= all
  PROVE  a + j \in 1..all
  OBVIOUS

(* and where it is once the first e have been taken off.                   *)
LEMMA Shifted ==
  ASSUME NEW all \in Nat, NEW a \in Nat, NEW e \in Nat, NEW l \in Nat,
         NEW j \in 1..l, e <= a, a + j \in 1..all
  PROVE  /\ (a - e) + j \in 1..(all - e)
         /\ e + ((a - e) + j) = a + j
  OBVIOUS

(* It holds the same, however it is divided between buffer and wire,       *)
LEMMA HoldsSame ==
  ASSUME NEW k, NEW at, Holds(k, at), Stream' = Stream, sent' = sent
  PROVE  Holds(k, at)'
  BY DEF Holds, Encode

(* one message more when one is sent,                                      *)
LEMMA HoldsSent ==
  ASSUME TypeOK, NEW k \in 0..Len(sent),
         NEW at \in [k..Len(sent) -> 0..Len(Stream)], Holds(k, at),
         NEW m \in Messages, sent' = Append(sent, m),
         Stream' = Stream \o Encode(m)
  PROVE  \E new \in [k..Len(sent') -> 0..Len(Stream')] : Holds(k, new)'
  <1> DEFINE n   == Len(sent)
             all == Len(Stream)
  <1>1. /\ n \in Nat /\ k \in Nat /\ k <= n /\ Len(sent') = n + 1
        /\ sent'[n + 1] = m /\ \A i \in 1..n : sent'[i] = sent[i]
        /\ \A i \in 1..n : sent[i] \in Messages
    BY LenProperties, AppendProperties, ElementOfSeq DEF TypeOK
  <1>2. Stream \in Seq(Bytes) /\ all \in Nat
    BY ConcatProperties, LenProperties DEF TypeOK, Stream
  <1>3. Encode(m) \in Seq(Bytes) /\ Len(Encode(m)) \in Nat
    BY Encoded, LenProperties
  <1>4. /\ Stream' \in Seq(Bytes) /\ Len(Stream') = all + Len(Encode(m))
        /\ \A j \in 1..(all + Len(Encode(m))) :
             Stream'[j] = IF j <= all THEN Stream[j] ELSE Encode(m)[j - all]
    BY <1>2, <1>3, ConcatProperties
  <1>5. /\ at[k] = 0 /\ at[n] = all
        /\ \A i \in k..n : at[i] \in 0..all
        /\ \A i, j \in k..n : i <= j => at[i] <= at[j]
        /\ \A i \in (k + 1)..n :
             /\ at[i] = at[i - 1] + Len(Encode(sent[i]))
             /\ \A j \in 1..Len(Encode(sent[i])) :
                  Stream[at[i - 1] + j] = Encode(sent[i])[j]
    BY DEF Holds
  <1> PICK new : new = [i \in k..(n + 1) |->
                         IF i <= n THEN at[i] ELSE all + Len(Encode(m))]
    OBVIOUS
  <1>6. /\ \A i \in k..n : new[i] = at[i]
        /\ new[n + 1] = all + Len(Encode(m))
    BY <1>1
  <1>7. new \in [k..(n + 1) -> 0..(all + Len(Encode(m)))]
    BY <1>1, <1>2, <1>3, <1>5
  <1> HIDE DEF n, all
  <1>8. ASSUME NEW i \in k..(n + 1), NEW j \in k..(n + 1), i <= j
        PROVE  new[i] <= new[j]
    <2>1. CASE j = n + 1
      <3>1. new[i] \in 0..(all + Len(Encode(m)))
        BY <1>7
      <3>2. QED
        BY <1>2, <1>3, <1>6, <2>1, <3>1
    <2>2. CASE j # n + 1
      <3>1. i \in k..n /\ j \in k..n
        BY <1>1, <1>8, <2>2
      <3>2. QED
        BY <1>5, <1>6, <1>8, <3>1
    <2>3. QED
      BY <2>1, <2>2
  <1>9. ASSUME NEW i \in (k + 1)..(n + 1)
        PROVE  /\ new[i] = new[i - 1] + Len(Encode(sent'[i]))
               /\ \A j \in 1..Len(Encode(sent'[i])) :
                    Stream'[new[i - 1] + j] = Encode(sent'[i])[j]
    <2>1. CASE i = n + 1
      <3>1. new[i] = all + Len(Encode(m)) /\ new[i - 1] = all /\ sent'[i] = m
        BY <1>1, <1>5, <1>6, <2>1
      <3>2. ASSUME NEW j \in 1..Len(Encode(m))
            PROVE  Stream'[all + j] = Encode(m)[j]
        <4>1. /\ all + j \in 1..(all + Len(Encode(m)))
              /\ ~(all + j <= all) /\ (all + j) - all = j
          BY ONLY <1>2, <1>3, <3>2
        <4>2. QED
          BY ONLY <1>4, <4>1
      <3>3. new[i] = new[i - 1] + Len(Encode(sent'[i]))
        BY <3>1
      <3>4. \A j \in 1..Len(Encode(sent'[i])) :
              Stream'[new[i - 1] + j] = Encode(sent'[i])[j]
        BY <3>1, <3>2
      <3>5. QED
        BY <3>3, <3>4
    <2>2. CASE i # n + 1
      <3>1. i \in (k + 1)..n /\ i \in 1..n /\ i \in k..n /\ i - 1 \in k..n
        BY <1>1, <2>2
      <3>2. new[i] = at[i] /\ new[i - 1] = at[i - 1] /\ sent'[i] = sent[i]
        BY <1>1, <1>6, <3>1
      <3>3. /\ at[i] \in 0..all /\ at[i - 1] \in 0..all
            /\ at[i] = at[i - 1] + Len(Encode(sent[i]))
            /\ \A j \in 1..Len(Encode(sent[i])) :
                 Stream[at[i - 1] + j] = Encode(sent[i])[j]
        BY <1>5, <3>1
      <3>4. Len(Encode(sent[i])) \in Nat
        BY <1>1, <3>1, Encoded, LenProperties
      <3>5. ASSUME NEW j \in 1..Len(Encode(sent[i]))
            PROVE  Stream'[at[i - 1] + j] = Stream[at[i - 1] + j]
        <4>1. /\ at[i - 1] \in Nat /\ at[i] <= all
              /\ at[i] = at[i - 1] + Len(Encode(sent[i]))
          BY <3>3
        <4>2. at[i - 1] + j \in 1..all
          BY <1>2, <3>4, <4>1, Within
        <4>3. QED
          BY <1>2, <1>3, <1>4, <4>2
      <3>6. new[i] = new[i - 1] + Len(Encode(sent'[i]))
        BY <3>2, <3>3
      <3>7. ASSUME NEW j \in 1..Len(Encode(sent'[i]))
            PROVE  Stream'[new[i - 1] + j] = Encode(sent'[i])[j]
        <4>1. j \in 1..Len(Encode(sent[i]))
          BY <3>2
        <4>2. Stream[at[i - 1] + j] = Encode(sent[i])[j]
          BY <3>3, <4>1
        <4>3. Stream'[at[i - 1] + j] = Encode(sent[i])[j]
          BY <3>5, <4>1, <4>2
        <4>4. QED
          BY <3>2, <4>3
      <3>8. QED
        BY <3>6, <3>7
    <2>3. QED
      BY <2>1, <2>2
  <1>10. new[k] = 0 /\ new[n + 1] = Len(Stream')
    BY <1>1, <1>4, <1>5, <1>6
  <1>11. Holds(k, new)'
    <2>1. Len(sent)' = n + 1
      BY <1>1
    <2>2. \A i, j \in k..(n + 1) : i <= j => new[i] <= new[j]
      BY <1>8
    <2>3. \A i \in (k + 1)..(n + 1) :
            /\ new[i] = new[i - 1] + Len(Encode(sent[i]))'
            /\ \A j \in 1..Len(Encode(sent[i]))' :
                 Stream'[new[i - 1] + j] = Encode(sent[i])'[j]
      BY <1>9 DEF Encode
    <2>4. (new[k] = 0 /\ new[Len(sent)] = Len(Stream))'
      BY <1>10, <2>1
    <2>5. (\A i, j \in k..Len(sent) : i <= j => new[i] <= new[j])'
      BY <2>1, <2>2
    <2>6. (\A i \in (k + 1)..Len(sent) :
            /\ new[i] = new[i - 1] + Len(Encode(sent[i]))
            /\ \A j \in 1..Len(Encode(sent[i])) :
                 Stream[new[i - 1] + j] = Encode(sent[i])[j])'
      BY ONLY <2>1, <2>3
    <2>7. QED
      BY <2>4, <2>5, <2>6 DEF Holds
  <1>12. QED
    BY <1>1, <1>4, <1>7, <1>11

(* and one less when the first is taken out of a buffer that has it whole. *)
LEMMA HoldsTaken ==
  ASSUME TypeOK, NEW k \in 0..Len(sent),
         NEW at \in [k..Len(sent) -> 0..Len(Stream)], Holds(k, at),
         NEW b \in Seq(Bytes), NEW w \in Seq(Bytes), b \o w = Stream,
         Complete(b), buf' = Rest(b), wire' = w, sent' = sent
  PROVE  /\ k < Len(sent) /\ FrontMessage(b) = sent[k + 1]
         /\ \E new \in [(k + 1)..Len(sent) -> 0..Len(Stream')] :
              Holds(k + 1, new)'
  <1> DEFINE n   == Len(sent)
             all == Len(Stream)
             m   == sent[k + 1]
             e   == Len(Encode(m))
  <1>1. /\ n \in Nat /\ k \in Nat /\ k <= n
        /\ Len(b) \in Nat /\ Len(w) \in Nat /\ Len(b) >= 3
        /\ \A i \in 1..n : sent[i] \in Messages
    BY LenProperties, ElementOfSeq DEF TypeOK, Complete, HeaderSize
  <1>2. /\ Stream \in Seq(Bytes) /\ all = Len(b) + Len(w)
        /\ \A j \in 1..(Len(b) + Len(w)) :
             Stream[j] = IF j <= Len(b) THEN b[j] ELSE w[j - Len(b)]
    BY ConcatProperties
  <1>3. /\ at[k] = 0 /\ at[n] = all
        /\ \A i \in k..n : at[i] \in 0..all
        /\ \A i, j \in k..n : i <= j => at[i] <= at[j]
        /\ \A i \in (k + 1)..n :
             /\ at[i] = at[i - 1] + Len(Encode(sent[i]))
             /\ \A j \in 1..Len(Encode(sent[i])) :
                  Stream[at[i - 1] + j] = Encode(sent[i])[j]
    BY DEF Holds
  <1>4. k < n
    <2>1. all # 0
      BY <1>1, <1>2
    <2>2. k # n
      BY <1>3, <2>1
    <2>3. QED
      BY <1>1, <2>2
  <1>5. m \in Messages /\ e \in Nat /\ e >= 3
    BY <1>1, <1>4, Encoded DEF HeaderSize
  <1>6. k + 1 \in (k + 1)..n /\ k + 1 \in k..n /\ (k + 1) - 1 = k
    BY <1>1, <1>4
  <1> HIDE DEF n, all, m
  <1>7. at[k + 1] = e /\ \A j \in 1..e : Stream[j] = Encode(m)[j]
    <2>1. /\ at[k + 1] = at[k] + e
          /\ \A j \in 1..e : Stream[at[k] + j] = Encode(m)[j]
      <3>1. /\ at[k + 1] = at[(k + 1) - 1] + Len(Encode(sent[k + 1]))
            /\ \A j \in 1..Len(Encode(sent[k + 1])) :
                 Stream[at[(k + 1) - 1] + j] = Encode(sent[k + 1])[j]
        BY <1>3, <1>6
      <3>2. QED
        BY ONLY <1>6, <3>1 DEF m
    <2>2. \A j \in 1..e : at[k] + j = j
      BY <1>3, <1>5
    <2>3. QED
      BY <1>3, <1>5, <2>1, <2>2
  <1>8. TotalLen(b) = e /\ FrontMessage(b) = m
    <2>1. ASSUME NEW j \in 1..e, j <= Len(b)
          PROVE  b[j] = Encode(m)[j]
      <3>1. j \in 1..(Len(b) + Len(w))
        BY <1>1, <1>5, <2>1
      <3>2. Stream[j] = b[j]
        BY <1>2, <2>1, <3>1
      <3>3. QED
        BY <1>7, <3>2
    <2>2. QED
      BY <1>1, <1>5, <2>1, Found DEF HeaderSize
  <1> HIDE DEF e
  <1>9. /\ Rest(b) \in Seq(Bytes) /\ e <= Len(b)
        /\ Len(Rest(b)) = Len(b) - e
        /\ \A j \in 1..(Len(b) - e) : Rest(b)[j] = b[e + j]
    BY <1>1, <1>8, TakenOff
  <1>10. all \in Nat /\ all = Len(b) + Len(w) /\ e \in 3..all
    BY <1>1, <1>2, <1>5, <1>9
  <1>11. /\ Len(Stream') = all - e
         /\ \A j \in 1..(all - e) : Stream'[j] = Stream[e + j]
    <2>1. Stream' = Rest(b) \o w
      BY DEF Stream
    <2>2. /\ Len(Rest(b) \o w) = Len(Rest(b)) + Len(w)
          /\ \A j \in 1..(Len(Rest(b)) + Len(w)) :
               (Rest(b) \o w)[j] = IF j <= Len(Rest(b)) THEN Rest(b)[j]
                                   ELSE w[j - Len(Rest(b))]
      BY <1>9, ConcatProperties
    <2>3. Len(Stream') = all - e
      BY <1>1, <1>2, <1>5, <1>9, <2>1, <2>2
    <2>4. ASSUME NEW j \in 1..(all - e)
          PROVE  Stream'[j] = Stream[e + j]
      <3>1. /\ j \in 1..(Len(Rest(b)) + Len(w))
            /\ e + j \in 1..(Len(b) + Len(w))
        BY <1>1, <1>2, <1>5, <1>9
      <3>2. CASE j <= Len(b) - e
        <4>1. j \in 1..(Len(b) - e) /\ j <= Len(Rest(b)) /\ e + j <= Len(b)
          BY <1>1, <1>5, <1>9, <3>1, <3>2
        <4>2. Stream'[j] = Rest(b)[j]
          BY <2>1, <2>2, <3>1, <4>1
        <4>3. Stream[e + j] = b[e + j]
          BY <1>2, <3>1, <4>1
        <4>4. QED
          BY <1>9, <4>1, <4>2, <4>3
      <3>3. CASE ~(j <= Len(b) - e)
        <4>1. Stream'[j] = w[j - (Len(b) - e)]
          BY <1>1, <1>5, <1>9, <2>1, <2>2, <3>1, <3>3
        <4>2. Stream[e + j] = w[(e + j) - Len(b)]
          <5>1. e + j \in 1..(Len(b) + Len(w)) /\ ~(e + j <= Len(b))
            BY <1>1, <1>10, <3>1, <3>3
          <5>2. QED
            BY <1>2, <5>1
        <4>3. j - (Len(b) - e) = (e + j) - Len(b)
          BY <1>1, <1>5
        <4>4. QED
          BY <4>1, <4>2, <4>3
      <3>4. QED
        BY <3>2, <3>3
    <2>5. QED
      BY <2>3, <2>4
  <1> PICK new : new = [i \in (k + 1)..n |-> at[i] - e]
    OBVIOUS
  <1>12. /\ \A i \in (k + 1)..n : new[i] = at[i] - e /\ at[i] \in e..all
    <2>1. ASSUME NEW i \in (k + 1)..n
          PROVE  new[i] = at[i] - e /\ at[i] \in e..all
      <3>1. i \in k..n /\ k + 1 <= i
        BY <1>1
      <3>2. at[k + 1] <= at[i] /\ at[i] \in 0..all
        BY <1>3, <1>6, <3>1
      <3>3. QED
        BY <1>1, <1>2, <1>5, <1>7, <3>2
    <2>2. QED
      BY <2>1
  <1>13. new \in [(k + 1)..n -> 0..(all - e)]
    <2>1. \A i \in (k + 1)..n : at[i] - e \in 0..(all - e)
      BY <1>10, <1>12
    <2>2. QED
      BY <2>1
  <1>14. \A i, j \in (k + 1)..n : i <= j => new[i] <= new[j]
    <2>1. ASSUME NEW i \in (k + 1)..n, NEW j \in (k + 1)..n, i <= j
          PROVE  new[i] <= new[j]
      <3>1. i \in k..n /\ j \in k..n
        BY <1>1
      <3>2. at[i] <= at[j]
        BY <1>3, <2>1, <3>1
      <3>3. at[i] \in Nat /\ at[j] \in Nat /\ e \in Nat
        <4>1. at[i] \in e..all /\ at[j] \in e..all
          BY <1>12
        <4>2. QED
          BY ONLY <1>10, <4>1
      <3>4. new[i] = at[i] - e /\ new[j] = at[j] - e
        BY <1>12
      <3>5. QED
        BY ONLY <3>2, <3>3, <3>4
    <2>2. QED
      BY <2>1
  <1>15. ASSUME NEW i \in (k + 2)..n
         PROVE  /\ new[i] = new[i - 1] + Len(Encode(sent[i]))
                /\ \A j \in 1..Len(Encode(sent[i])) :
                     Stream'[new[i - 1] + j] = Encode(sent[i])[j]
    <2>1. /\ i \in (k + 1)..n /\ i - 1 \in (k + 1)..n /\ i \in 1..n
      BY <1>1
    <2>2. /\ new[i] = at[i] - e /\ new[i - 1] = at[i - 1] - e
          /\ at[i] \in e..all /\ at[i - 1] \in e..all
      BY <1>12, <2>1
    <2>3. Len(Encode(sent[i])) \in Nat
      BY <1>1, <2>1, Encoded, LenProperties
    <2>4. /\ at[i] = at[i - 1] + Len(Encode(sent[i]))
          /\ \A j \in 1..Len(Encode(sent[i])) :
               Stream[at[i - 1] + j] = Encode(sent[i])[j]
      BY <1>3, <2>1
    <2>5. ASSUME NEW j \in 1..Len(Encode(sent[i]))
          PROVE  Stream'[new[i - 1] + j] = Encode(sent[i])[j]
      <3>1. at[i] = at[i - 1] + Len(Encode(sent[i]))
        BY <2>4
      <3>2. e \in Nat /\ all \in Nat
        BY <1>10
      <3>3. at[i - 1] \in Nat /\ e <= at[i - 1] /\ at[i] <= all
        <4>1. at[i - 1] \in e..all /\ at[i] \in e..all
          BY <2>2
        <4>2. QED
          BY ONLY <3>2, <4>1
      <3>4. at[i - 1] + j \in 1..all
        BY ONLY <2>3, <2>5, <3>1, <3>2, <3>3, Within
      <3>5. /\ (at[i - 1] - e) + j \in 1..(all - e)
            /\ e + ((at[i - 1] - e) + j) = at[i - 1] + j
        <4>1. ASSUME NEW a \in Nat, e <= a, a + j \in 1..all
              PROVE  /\ (a - e) + j \in 1..(all - e)
                     /\ e + ((a - e) + j) = a + j
          BY ONLY <2>3, <3>2, <4>1, Shifted
        <4>2. QED
          BY ONLY <3>3, <3>4, <4>1
      <3>6. /\ new[i - 1] + j \in 1..(all - e)
            /\ e + (new[i - 1] + j) = at[i - 1] + j
        BY <2>2, <3>5
      <3>7. Stream'[new[i - 1] + j] = Stream[at[i - 1] + j]
        BY <1>11, <3>6
      <3>8. QED
        BY <2>4, <3>7
    <2>6. new[i] = new[i - 1] + Len(Encode(sent[i]))
      <3>1. at[i] = at[i - 1] + Len(Encode(sent[i]))
        BY <2>4
      <3>2. e \in Nat /\ at[i - 1] \in Nat
        BY <1>10, <2>2
      <3>3. at[i] - e = (at[i - 1] - e) + Len(Encode(sent[i]))
        BY ONLY <2>3, <3>1, <3>2
      <3>4. QED
        BY <2>2, <3>3
    <2>7. QED
      BY <2>5, <2>6
  <1>16. new[k + 1] = 0 /\ new[n] = all - e
    <2>1. n \in (k + 1)..n
      BY <1>1, <1>4
    <2>2. new[k + 1] = at[k + 1] - e /\ new[n] = at[n] - e
      BY <1>6, <1>12, <2>1
    <2>3. e - e = 0
      BY <1>5
    <2>4. QED
      BY <1>3, <1>7, <2>2, <2>3
  <1>17. Holds(k + 1, new)'
    <2>1. Len(sent)' = n /\ sent' = sent
      BY DEF n
    <2>2. (new[k + 1] = 0 /\ new[Len(sent)] = Len(Stream))'
      BY <1>11, <1>16, <2>1
    <2>3. (\A i, j \in (k + 1)..Len(sent) : i <= j => new[i] <= new[j])'
      BY <1>14, <2>1
    <2>4. (k + 1) + 1 = k + 2
      BY <1>1
    <2>5. \A i \in (k + 2)..n :
            /\ new[i] = new[i - 1] + Len(Encode(sent[i]))'
            /\ \A j \in 1..Len(Encode(sent[i]))' :
                 Stream'[new[i - 1] + j] = Encode(sent[i])'[j]
      <3>1. ASSUME NEW i \in (k + 2)..n
            PROVE  Encode(sent[i])' = Encode(sent[i])
        BY <2>1 DEF Encode
      <3>2. ASSUME NEW i \in (k + 2)..n
            PROVE  Len(Encode(sent[i]))' = Len(Encode(sent[i]))
        BY <3>1
      <3>3. ASSUME NEW i \in (k + 2)..n
            PROVE  new[i] = new[i - 1] + Len(Encode(sent[i]))'
        BY <1>15, <3>2
      <3>4. ASSUME NEW i \in (k + 2)..n, NEW j \in 1..Len(Encode(sent[i]))'
            PROVE  Stream'[new[i - 1] + j] = Encode(sent[i])'[j]
        <4>1. j \in 1..Len(Encode(sent[i]))
          BY <3>2
        <4>2. QED
          BY <1>15, <3>1, <4>1
      <3>5. QED
        BY <3>3, <3>4
    <2>6. (\A i \in ((k + 1) + 1)..Len(sent) :
             /\ new[i] = new[i - 1] + Len(Encode(sent[i]))
             /\ \A j \in 1..Len(Encode(sent[i])) :
                  Stream[new[i - 1] + j] = Encode(sent[i])[j])'
      BY ONLY <2>1, <2>4, <2>5
    <2>7. QED
      BY <2>2, <2>3, <2>6 DEF Holds
  <1>18. QED
    BY <1>4, <1>8, <1>11, <1>13, <1>17 DEF n, m

-----------------------------------------------------------------------------
(* Neither end loses its place: bytes that move from the wire into the     *)
(* buffer change nothing,                                                  *)
LEMMA NoneTaken ==
  ASSUME InStep, Stream' = Stream, UNCHANGED <<end, sent, received>>,
         Len(sent) \in Nat
  PROVE  InStep'
  <1>1. PICK k \in 0..Len(sent) :
          /\ Delivered(k)
          /\ \E at \in [k..Len(sent) -> 0..Len(Stream)] : Holds(k, at)
    BY DEF InStep
  <1>2. Delivered(k)'
    BY <1>1, DeliveredStays
  <1>3. PICK at \in [k..Len(sent) -> 0..Len(Stream)] : Holds(k, at)
    BY <1>1
  <1>4. Holds(k, at)'
    BY <1>3, HoldsSame
  <1>5. at \in [k..Len(sent') -> 0..Len(Stream')] /\ k \in 0..Len(sent')
    OBVIOUS
  <1>6. QED
    BY <1>2, <1>4, <1>5 DEF InStep

(* a message sent goes to the end of the stream,                           *)
LEMMA OneSent ==
  ASSUME TypeOK, InStep, NEW m \in Messages, Send(m)
  PROVE  InStep'
  <1>1. PICK k \in 0..Len(sent) :
          /\ Delivered(k)
          /\ \E at \in [k..Len(sent) -> 0..Len(Stream)] : Holds(k, at)
    BY DEF InStep
  <1>2. /\ Len(sent) \in Nat /\ sent' = Append(sent, m)
        /\ Len(sent') = Len(sent) + 1
        /\ \A i \in 1..Len(sent) : sent'[i] = sent[i]
        /\ UNCHANGED <<end, received>>
    BY AppendProperties, LenProperties DEF TypeOK, Send
  <1>3. Delivered(k)'
    BY <1>1, <1>2, DeliveredStays
  <1>4. Stream' = Stream \o Encode(m)
    <2>1. buf' = buf /\ wire' = wire \o Encode(m)
      BY DEF Send
    <2>2. Encode(m) \in Seq(Bytes)
      BY Encoded
    <2>3. (buf \o wire) \o Encode(m) = buf \o (wire \o Encode(m))
      <3>1. buf \in Seq(Bytes) /\ wire \in Seq(Bytes)
        BY DEF TypeOK
      <3>2. QED
        BY ONLY <2>2, <3>1, BytesJoined
    <2>4. QED
      BY <2>1, <2>3 DEF Stream
  <1>5. PICK at \in [k..Len(sent) -> 0..Len(Stream)] : Holds(k, at)
    BY <1>1
  <1>6. \E new \in [k..Len(sent') -> 0..Len(Stream')] : Holds(k, new)'
    BY <1>2, <1>4, <1>5, HoldsSent
  <1>7. k \in 0..Len(sent')
    BY <1>2
  <1>8. QED
    BY <1>3, <1>6, <1>7 DEF InStep

(* and a message taken off a buffer is the next, whatever else is in it.   *)
LEMMA OneTaken ==
  ASSUME TypeOK, InStep, NEW b \in Seq(Bytes), NEW w \in Seq(Bytes),
         b \o w = Stream, Complete(b), buf' = Rest(b), wire' = w,
         UNCHANGED <<end, sent>>,
         received' = IF end = "game" \/ Decodes(FrontMessage(b))
                     THEN Append(received, FrontMessage(b)) ELSE received
  PROVE  InStep'
  <1>1. PICK k \in 0..Len(sent) :
          /\ Delivered(k)
          /\ \E at \in [k..Len(sent) -> 0..Len(Stream)] : Holds(k, at)
    BY DEF InStep
  <1>2. PICK at \in [k..Len(sent) -> 0..Len(Stream)] : Holds(k, at)
    BY <1>1
  <1>3. /\ k < Len(sent) /\ FrontMessage(b) = sent[k + 1]
        /\ \E new \in [(k + 1)..Len(sent) -> 0..Len(Stream')] :
             Holds(k + 1, new)'
    BY <1>2, HoldsTaken
  <1>4. Delivered(k + 1)'
    BY <1>1, <1>3, DeliveredNext
  <1>5. Len(sent) \in Nat
    BY LenProperties DEF TypeOK
  <1>6. k + 1 \in 0..Len(sent')
    BY <1>3, <1>5
  <1>7. \E new \in [(k + 1)..Len(sent') -> 0..Len(Stream')] :
          Holds(k + 1, new)'
    BY <1>3
  <1>8. QED
    BY <1>4, <1>6, <1>7 DEF InStep

(* At first nothing has been sent.                                         *)
LEMMA InStepAtFirst ==
  ASSUME Init
  PROVE  FramingInv
  <1>1. /\ sent = <<>> /\ Len(sent) = 0 /\ received = <<>> /\ Len(received) = 0
        /\ Len(wire) = 0 /\ Len(buf) = 0
    BY EmptySeq DEF Init
  <1>2. PassedOn(0) = {}
    BY DEF PassedOn
  <1>3. Delivered(0)
    BY <1>1, <1>2, FS_EmptySet DEF Delivered
  <1>4. Stream = <<>>
    <2>1. <<>> \in Seq(Bytes)
      BY EmptySeq
    <2>2. QED
      BY <2>1, ConcatEmptySeq DEF Init, Stream
  <1> PICK at : at = [i \in 0..0 |-> 0]
    OBVIOUS
  <1>5. at \in [0..0 -> 0..0] /\ at[0] = 0
    OBVIOUS
  <1>6. Len(Stream) = 0
    BY <1>4, EmptySeq
  <1>7. Holds(0, at)
    BY <1>1, <1>5, <1>6 DEF Holds
  <1>8. InStep
    BY <1>1, <1>3, <1>5, <1>6, <1>7 DEF InStep
  <1>9. QED
    BY <1>1, <1>8, FramingAssumption DEF FramingInv, Init

(* Every step keeps the place in the stream.                               *)
LEMMA InStepKept ==
  ASSUME TypeOK, FramingInv, [Next]_vars
  PROVE  FramingInv'
  <1>1. /\ sent \in Seq(Messages) /\ wire \in Seq(Bytes) /\ buf \in Seq(Bytes)
        /\ Len(wire) \in Nat /\ Len(buf) \in Nat /\ Len(sent) \in Nat
        /\ end \in {"game", "runner"} /\ (end = "game" => Len(buf) <= Capacity)
        /\ Len(wire) + Len(buf) <= MaxInFlight /\ MaxInFlight \in Nat
        /\ (parsing => end = "runner")
    BY LenProperties, FramingAssumption DEF TypeOK, FramingInv
  <1>2. Capacity \in Nat
    BY FramingAssumption DEF Capacity, HeaderSize, MaxPayload, Word
  <1>3. end' = end => (Roomy' <=> Roomy)
    BY DEF Roomy, Capacity, MaxPayload, Word, HeaderSize
  <1>4. ASSUME NEW m \in Messages, Send(m)
        PROVE  FramingInv'
    <2>1. Encode(m) \in Seq(Bytes) /\ Len(Encode(m)) \in Nat
      BY Encoded, LenProperties
    <2>2. /\ Len(wire') = Len(wire) + Len(Encode(m)) /\ buf' = buf
          /\ UNCHANGED <<end, parsing>>
      BY <1>1, <1>4, <2>1, ConcatProperties DEF Send
    <2>3. Len(wire') + Len(buf') <= MaxInFlight
      BY <1>1, <1>4, <2>1, <2>2 DEF Send
    <2>4. InStep => InStep'
      BY <1>4, OneSent
    <2>5. QED
      BY <1>1, <1>3, <2>2, <2>3, <2>4 DEF FramingInv
  <1>5. ASSUME NEW available \in 0..Len(wire), NEW n \in 0..available,
               Frame(available, n)
        PROVE  FramingInv'
    <2>1. UNCHANGED <<end, sent, parsing>> /\ end = "game"
      BY <1>5 DEF Frame
    <2> DEFINE space   == Capacity - Len(buf)
               to_read == IF available < space THEN available ELSE space
    <2>2. CASE available > 0 /\ to_read <= 0
      <3>1. buf' = <<>> /\ wire' = wire /\ Len(buf') = 0
        BY <1>5, <2>2, EmptySeq DEF Frame
      <3>2. ~Roomy
        <4>1. Len(wire) > 0 /\ Len(buf) >= Capacity
          BY <1>1, <1>2, <2>2
        <4>2. MaxInFlight > Capacity
          BY <1>1, <1>2, <4>1
        <4>3. QED
          BY <1>1, <1>2, <2>1, <4>2 DEF Roomy
      <3>3. QED
        BY <1>1, <1>3, <2>1, <3>1, <3>2 DEF FramingInv
    <2>3. CASE ~(available > 0 /\ to_read <= 0)
      <3> DEFINE b == buf \o SubSeq(wire, 1, n)
                 w == SubSeq(wire, n + 1, Len(wire))
      <3>1. n \in 0..to_read /\ TakeOne(b) /\ wire' = w
        BY <1>5, <2>3 DEF Frame
      <3>2. n \in 0..Len(wire)
        BY <1>1
      <3>3. /\ b \in Seq(Bytes) /\ Len(b) = Len(buf) + n
            /\ w \in Seq(Bytes) /\ Len(w) = Len(wire) - n
            /\ b \o w = Stream
        BY <1>1, <3>2, ReadOn DEF Stream
      <3> HIDE DEF b, w
      <3>4. Len(buf') \in Nat /\ Len(buf') <= Len(b)
        BY <3>1, <3>3, TakeOneTyped, LenProperties
      <3>5. Len(wire') + Len(buf') <= MaxInFlight
        BY <1>1, <3>1, <3>2, <3>3, <3>4
      <3>6. ASSUME InStep
            PROVE  InStep'
        <4>1. CASE TryParse(b)
          <5>1. Complete(b)
            BY <3>3, <4>1, TriesInFull
          <5>2. /\ buf' = Rest(b)
                /\ received' = IF end = "game" \/ Decodes(FrontMessage(b))
                               THEN Append(received, FrontMessage(b))
                               ELSE received
            BY <2>1, <3>1, <4>1 DEF TakeOne
          <5>3. QED
            BY <2>1, <3>1, <3>3, <3>6, <5>1, <5>2, OneTaken
        <4>2. CASE ~TryParse(b)
          <5>1. buf' = b /\ received' = received
            BY <3>1, <4>2 DEF TakeOne
          <5>2. Stream' = Stream
            BY <3>1, <3>3, <5>1 DEF Stream
          <5>3. QED
            BY <1>1, <2>1, <3>6, <5>1, <5>2, NoneTaken
        <4>3. QED
          BY <4>1, <4>2
      <3>7. QED
        BY <1>1, <1>3, <2>1, <3>5, <3>6 DEF FramingInv
    <2>4. QED
      BY <2>2, <2>3
  <1>6. ASSUME NEW n \in 1..Len(wire), Push(n)
        PROVE  FramingInv'
    <2>1. /\ n \in 0..Len(wire) /\ UNCHANGED <<end, sent, received>>
          /\ end = "runner"
      BY <1>1, <1>6 DEF Push
    <2>2. /\ buf' = buf \o SubSeq(wire, 1, n)
          /\ wire' = SubSeq(wire, n + 1, Len(wire))
      BY <1>6 DEF Push
    <2>3. /\ Len(buf') = Len(buf) + n /\ Len(wire') = Len(wire) - n
          /\ Stream' = Stream
      BY <1>1, <2>1, <2>2, ReadOn DEF Stream
    <2>4. Len(wire') + Len(buf') <= MaxInFlight
      BY <1>1, <2>1, <2>3
    <2>5. InStep => InStep'
      BY <1>1, <2>1, <2>3, NoneTaken
    <2>6. QED
      BY <1>1, <1>3, <2>1, <2>4, <2>5 DEF FramingInv
  <1>7. ASSUME Parse
        PROVE  FramingInv'
    <2>1. UNCHANGED <<end, sent, wire>> /\ end = "runner"
      BY <1>1, <1>7 DEF Parse
    <2>2. CASE Complete(buf)
      <3>1. /\ buf' = Rest(buf)
            /\ received' = IF end = "game" \/ Decodes(FrontMessage(buf))
                           THEN Append(received, FrontMessage(buf))
                           ELSE received
        BY <1>7, <2>1, <2>2 DEF Parse
      <3>2. TotalLen(buf) \in 3..Len(buf) /\ Len(buf') = Len(buf) - TotalLen(buf)
        BY <1>1, <2>2, <3>1, TakenOff DEF HeaderSize
      <3>3. Len(wire') + Len(buf') <= MaxInFlight
        BY <1>1, <2>1, <3>2
      <3>4. InStep => InStep'
        BY <1>1, <2>1, <2>2, <3>1, OneTaken DEF Stream
      <3>5. QED
        BY <1>1, <1>3, <2>1, <3>3, <3>4 DEF FramingInv
    <2>3. CASE ~Complete(buf)
      <3>1. UNCHANGED <<buf, received>>
        BY <1>7, <2>3 DEF Parse
      <3>2. InStep => InStep'
        BY <1>1, <2>1, <3>1, NoneTaken DEF Stream
      <3>3. QED
        BY <1>1, <1>3, <2>1, <3>1, <3>2 DEF FramingInv
    <2>4. QED
      BY <2>2, <2>3
  <1>8. CASE UNCHANGED vars
    <2>1. UNCHANGED <<end, sent, wire, buf, parsing, received>>
      BY <1>8 DEF vars
    <2>2. InStep => InStep'
      BY <1>1, <2>1, NoneTaken DEF Stream
    <2>3. QED
      BY <1>1, <1>3, <2>1, <2>2 DEF FramingInv
  <1>9. QED
    BY <1>4, <1>5, <1>6, <1>7, <1>8 DEF Next

(* Neither end loses its place in the stream, the game's as long as no     *)
(* more is in flight than its buffer holds, the runner's always: for any   *)
(* messages, cut and joined anywhere.                                      *)
THEOREM StaysInStep == Spec => [](Roomy => InSync)
  <1>1. Init => TypeOK /\ FramingInv
    BY TypesAtFirst, InStepAtFirst
  <1>2. TypeOK /\ FramingInv /\ [Next]_vars => TypeOK' /\ FramingInv'
    BY TypesKept, InStepKept
  <1>3. FramingInv => (Roomy => InSync)
    BY DEF FramingInv, InStep, Delivered, InSync
  <1>4. QED
    BY <1>1, <1>2, <1>3, PTL DEF Spec

=============================================================================
