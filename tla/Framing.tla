------------------------------- MODULE Framing -------------------------------
(***************************************************************************)
(* Messages on a byte stream: how either end of the connection finds the   *)
(* messages in what TCP delivers.  One direction is modelled at a time:    *)
(* `end' is the end that receives.                                         *)
(*                                                                         *)
(* The game (pdk_e2e_update) reads into a buffer of fixed size and takes   *)
(* at most one message a frame; it passes the buffer's length as a uint16. *)
(* The runner (ProtocolParser) takes all there are, and skips a message it *)
(* cannot decode.                                                          *)
(*                                                                         *)
(* A byte is one of 0..Base-1, where the code has 256: all sizes scale.    *)
(***************************************************************************)
EXTENDS Integers, FiniteSets, Sequences

CONSTANTS
  Base,        \* the values of a byte
  Messages,    \* the messages that are sent: [type, payload]
  LegalSizes,  \* of each type the runner knows, the payload sizes it accepts
  MaxSent,     \* bound on the messages sent
  MaxInFlight  \* bound on the bytes sent and not yet taken as messages

HeaderSize == 3
Word       == Base * Base     \* the values of a uint16
MaxPayload == Word - 1        \* PDK_E2E_MAX_PAYLOAD
Bytes      == 0..(Base - 1)

ASSUME FramingAssumption ==
  /\ Base \in Nat \ {0, 1}
  /\ MaxSent \in Nat /\ MaxInFlight \in Nat
  /\ \A m \in Messages : /\ m \in [type : Bytes, payload : Seq(Bytes)]
                         /\ Len(m.payload) <= MaxPayload

VARIABLES
  end,       \* which end receives: "game" or "runner"
  sent,      \* history: the messages sent
  wire,      \* the bytes TCP has still to deliver
  buf,       \* recv_buf[0..recv_buf_len-1], or the buffer of ProtocolParser
  parsing,   \* the runner is in the loop of parse()
  received   \* history: the messages dispatched (game) or returned (runner)

vars == <<end, sent, wire, buf, parsing, received>>

-----------------------------------------------------------------------------
(* encode_message(), send_message(), encodeMessage(); and a slip, the low  *)
(* byte of the length not masked.                                          *)
EncodeUnmasked(m) ==
  LET n == Len(m.payload)
  IN <<m.type, n \div Base, n>> \o m.payload
Encode(m) ==
  LET n == Len(m.payload)
  IN <<m.type, n \div Base, n % Base>> \o m.payload

PayloadLen(b) == b[2] * Base + b[3]

(* The size of the message at the front; and a slip, its payload's size.   *)
TotalNoHeader(b) == PayloadLen(b)
TotalLen(b) == HeaderSize + PayloadLen(b)

(* b starts with a complete message.                                       *)
Complete(b) == Len(b) >= HeaderSize /\ Len(b) >= TotalLen(b)

FrontMessage(b) ==
  [type |-> b[1], payload |-> SubSeq(b, HeaderSize + 1, TotalLen(b))]
Rest(b) == SubSeq(b, TotalLen(b) + 1, Len(b))

(* try_parse_message(): its parameter buf_len is a uint16, recv_buf_len an *)
(* int.                                                                    *)
TryParse(b) ==
  LET buf_len == Len(b) % Word
  IN buf_len >= HeaderSize /\ buf_len >= TotalLen(b)

(* sizeof(recv_buf).                                                       *)
Capacity == HeaderSize + MaxPayload

(* decodePayload() returns a message and not null.                         *)
Decodes(m) ==
  m.type \in DOMAIN LegalSizes /\ Len(m.payload) \in LegalSizes[m.type]

-----------------------------------------------------------------------------
Init ==
  /\ end \in {"game", "runner"}
  /\ sent = <<>> /\ wire = <<>> /\ buf = <<>>
  /\ parsing = FALSE
  /\ received = <<>>

Send(m) ==
  /\ Len(sent) < MaxSent
  /\ Len(wire) + Len(buf) + Len(Encode(m)) <= MaxInFlight
  /\ sent' = Append(sent, m)
  /\ wire' = wire \o Encode(m)
  /\ UNCHANGED <<end, buf, parsing, received>>

(* Parse, dispatch and compaction of one frame.                            *)
TakeOne(b) ==
  IF TryParse(b) THEN /\ received' = Append(received, FrontMessage(b))
                      /\ buf' = Rest(b)
                 ELSE /\ buf' = b
                      /\ UNCHANGED received

(* A frame of the game on which getBytesAvailable() returns `available'    *)
(* and read() returns n.                                                   *)
Frame(available, n) ==
  LET space   == Capacity - Len(buf)
      to_read == IF available < space THEN available ELSE space
  IN /\ end = "game"
     /\ available \in 0..Len(wire)
     /\ IF available > 0 /\ to_read <= 0
        THEN n = 0 /\ buf' = <<>> /\ UNCHANGED <<wire, received>>
        ELSE /\ n \in 0..to_read
             /\ TakeOne(buf \o SubSeq(wire, 1, n))
             /\ wire' = SubSeq(wire, n + 1, Len(wire))
     /\ UNCHANGED <<end, sent, parsing>>

(* onData(): push().                                                       *)
Push(n) ==
  /\ end = "runner" /\ ~parsing
  /\ n \in 1..Len(wire)
  /\ buf' = buf \o SubSeq(wire, 1, n)
  /\ wire' = SubSeq(wire, n + 1, Len(wire))
  /\ parsing' = TRUE
  /\ UNCHANGED <<end, sent, received>>

(* A slip of parse(): one message a chunk, as the game takes them.         *)
ParseOne ==
  /\ parsing /\ parsing' = FALSE
  /\ IF Complete(buf)
     THEN /\ buf' = Rest(buf)
          /\ received' = IF Decodes(FrontMessage(buf))
                         THEN Append(received, FrontMessage(buf)) ELSE received
     ELSE UNCHANGED <<buf, received>>
  /\ UNCHANGED <<end, sent, wire>>

(* One turn of the loop of parse(), or its end.                            *)
Parse ==
  /\ parsing
  /\ IF Complete(buf)
     THEN /\ buf' = Rest(buf)
          /\ received' = IF Decodes(FrontMessage(buf))
                         THEN Append(received, FrontMessage(buf)) ELSE received
          /\ UNCHANGED parsing
     ELSE parsing' = FALSE /\ UNCHANGED <<buf, received>>
  /\ UNCHANGED <<end, sent, wire>>

Next ==
  \/ \E m \in Messages : Send(m)
  \/ \E available \in 0..Len(wire) : \E n \in 0..available : Frame(available, n)
  \/ \E n \in 1..Len(wire) : Push(n)
  \/ Parse

Spec == Init /\ [][Next]_vars

(* The game keeps updating, and reads all that has arrived; Node passes on *)
(* what has arrived and ends its loops.                                    *)
Fairness ==
  /\ WF_vars(Frame(Len(wire), Len(wire)))
  /\ WF_vars(Push(Len(wire)))
  /\ WF_vars(Parse)

FairSpec == Spec /\ Fairness

-----------------------------------------------------------------------------
(***************************************************************************)
(* Properties.                                                             *)
(***************************************************************************)

(* Types; recv_buf never holds more than its size.                         *)
TypeOK ==
  /\ end \in {"game", "runner"}
  /\ sent \in Seq(Messages)
  /\ wire \in Seq(Bytes) /\ buf \in Seq(Bytes)
  /\ parsing \in BOOLEAN
  /\ received \in Seq([type : Bytes, payload : Seq(Bytes)])
  /\ end = "game" => Len(buf) <= Capacity

(* The places, among the first k messages sent, of those the receiving end *)
(* passes on: the game all, the runner those it can decode.                *)
PassedOn(k) == {i \in 1..k : end = "game" \/ Decodes(sent[i])}

(* Neither end loses its place in the stream: the messages received are    *)
(* those passed on of the first few sent, each once, whole and in order,   *)
(* however TCP cuts and joins them.  With no more bytes in flight than     *)
(* recv_buf holds, for the game's end.                                     *)
InSync ==
  \E k \in 0..Len(sent) :
    /\ Len(received) = Cardinality(PassedOn(k))
    /\ \A i \in PassedOn(k) :
         received[Cardinality({h \in PassedOn(k) : h <= i})] = sent[i]

(* Every message sent is received, though none follows to push it through: *)
(* the game takes on a later frame, from its buffer alone, what was one    *)
(* too many for this frame; the runner takes all before it waits again.    *)
AllReceived ==
  \A k \in 1..MaxSent :
    Len(sent) = k ~> \/ Len(received) >= Cardinality(PassedOn(Len(sent)))
                     \/ Len(sent) > k

(* Disputed: try_parse_message() returns true if the buffer starts with a  *)
(* complete message.  A buffer of 65536 bytes or more has, as a uint16,    *)
(* the length 0 to 2.                                                      *)
CompleteIsFound == end = "game" => (Complete(buf) => TryParse(buf))
=============================================================================
