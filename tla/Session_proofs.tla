---------------------------- MODULE Session_proofs ----------------------------
(***************************************************************************)
(* Theorems about Session: for any flows, scripts, buttons, angles and     *)
(* bound on the commands (SessionAssumption, OneDriver).                   *)
(***************************************************************************)
EXTENDS Session, SequenceLemmas

-----------------------------------------------------------------------------
(* The inductive invariant, in parts.                                      *)

Running(c) == outcome[c] = "running"
Call(c) == Head(todo[c])

(* A flow makes the calls of its script, and one flow drives the input.    *)
TodoInv ==
  /\ \A c \in Calls : \A i \in 1..Len(todo[c]) :
       /\ todo[c][i].n < MaxCommands
       /\ todo[c][i].op = "waitFrames" => todo[c][i].n > 0
  /\ \A c, d \in InputFlows(todo) : c = d

(* A call that waits, or whose promise is settled, runs; it does so once.  *)
CallInv ==
  /\ \A i \in 1..Len(waiters) : Running(waiters[i].call)
  /\ \A i \in 1..Len(settled) : Running(settled[i].call)
  /\ \A i, j \in 1..Len(waiters) :
       waiters[i].call = waiters[j].call => i = j
  /\ \A i, j \in 1..Len(settled) :
       settled[i].call = settled[j].call => i = j
  /\ \A i \in 1..Len(waiters), j \in 1..Len(settled) :
       waiters[i].call # settled[j].call

(* A running call awaits the reply to one of its steps, and has still to   *)
(* send those that follow.                                                 *)
At(c) == Len(Steps(Call(c))) - Len(steps[c])
Sends(cmd, step) ==
  cmd.type = step.type /\ cmd.buttons = step.buttons /\ cmd.crank = step.crank
ProgressInv ==
  \A c \in Calls : Running(c) =>
    LET plan == Steps(Call(c))
    IN /\ At(c) \in 1..Len(plan)
       /\ Sends(awaited[c], plan[At(c)])
       /\ steps[c] = SubSeq(plan, At(c) + 1, Len(plan))

(* What is on its way, in the order of the commands.                       *)
Kept   == ToSet(pendingMessages)
Coming == ToSet(parsed) \cup ToSet(toRunner)
Asked  == ToSet(recv_buf) \cup ToSet(toGame)

Rising(s) == \A i, j \in 1..Len(s) : i < j => s[i].tag < s[j].tag
Before(S, T) == \A x \in S, y \in T : x.tag < y.tag

OrderInv ==
  /\ Rising(pendingMessages) /\ Rising(parsed) /\ Rising(toRunner)
  /\ Rising(recv_buf) /\ Rising(toGame)
  /\ Before(Kept, Coming) /\ Before(ToSet(parsed), ToSet(toRunner))
  /\ Before(Kept \cup Coming, Asked) /\ Before(ToSet(recv_buf), ToSet(toGame))
  /\ \A x \in Kept \cup Coming \cup Asked : x.tag \in 1..issued

(* Commands are as PlaydateGame makes them.                                *)
AskedInv == \A x \in Asked : x.wellFormed /\ x.type # "UNKNOWN"

(* The waiters stand in the order of their commands.  A command that was   *)
(* written to a lost connection has the tag that the next would have had.  *)
Cmd(j) == awaited[waiters[j].call]
WaiterInv ==
  /\ \A j \in 1..Len(waiters) :
       /\ waiters[j].types = Awaits(Cmd(j).type)
       /\ Cmd(j) \in Game!Commands /\ Cmd(j).type # "UNKNOWN"
       /\ Cmd(j).tag \in 1..(issued + 1)
       /\ Cmd(j).tag = issued + 1 => ~link
  /\ \A i, j \in 1..Len(waiters) :
       i < j => Cmd(i).tag < Cmd(j).tag \/ Cmd(j).tag = issued + 1

(* A message and a waiter that suit do not miss each other.                *)
MatchInv == Server!NoMatchMissed

(* A reply, or the reply to a command that is still queued, is claimed by  *)
(* the waiter whose command it answers; or it is a stray, because a call   *)
(* has given up, or waits for a screenshot that was refused.  (Upset is    *)
(* Disturbed, in the terms of this module.)                                *)
AwaitSets == {Awaits(type) : type \in Game!CommandTypes \ {"UNKNOWN"}}
Claimed(tag, types) ==
  \E j \in 1..Len(waiters) : waiters[j].types = types /\ Cmd(j).tag = tag
Errors == {x \in Kept \cup Coming : x.type = "ERROR"}
Refusal(tag) == \E x \in Errors : x.tag <= tag
Upset(cmd) ==
  \/ \E a \in abandoned : a.tag < cmd.tag /\ Awaits(a.type) = Awaits(cmd.type)
  \/ cmd.type = "CAPTURE_FRAME" /\ Refusal(cmd.tag)
Stray(tag, types) ==
  \/ \E a \in abandoned : a.tag <= tag /\ Awaits(a.type) = types
  \/ types = {"FRAME_DATA"} /\ Refusal(tag)
AccountInv ==
  /\ \A x \in Kept \cup Coming : \A types \in AwaitSets :
       x.type \in types => Claimed(x.tag, types) \/ Stray(x.tag, types)
  /\ \A x \in Asked :
       Claimed(x.tag, Awaits(x.type)) \/ Stray(x.tag, Awaits(x.type))

(* The reply to a waiter's own command comes before those to later ones;   *)
(* it has not been lost while the connection is up.  A query may have been *)
(* answered by an ERROR; but then there is no later query.                 *)
Due(j) == \E y \in Coming : y.type \in waiters[j].types /\ y.tag = Cmd(j).tag
Unanswered(j) ==
  \E y \in Asked : Awaits(y.type) = waiters[j].types /\ y.tag = Cmd(j).tag
ReachInv ==
  \A j \in 1..Len(waiters) :
    /\ ~Upset(Cmd(j)) =>
         /\ \A x \in Coming :
              x.type \in waiters[j].types /\ x.tag > Cmd(j).tag => Due(j)
         /\ link /\ Cmd(j).type # "QUERY_STATE" => Due(j) \/ Unanswered(j)
    /\ Cmd(j).type = "QUERY_STATE" =>
         /\ \A x \in Coming :
              x.type \in waiters[j].types => x.tag <= Cmd(j).tag
         /\ \A y \in Asked : y.type = "QUERY_STATE" => y.tag <= Cmd(j).tag

(* A call that resumes has its own reply, or one of its kind if it was     *)
(* disturbed, or has given its command up.                                 *)
Suits(cmd, result) ==
  /\ cmd \in Game!Commands /\ cmd.type # "UNKNOWN"
  /\ \/ result = Server!TimedOut /\ cmd \in abandoned
     \/ /\ result # Server!TimedOut
        /\ result.type \in Awaits(cmd.type) /\ result.tag \in 1..issued
        /\ ~Upset(cmd) => result.tag = cmd.tag
SettledInv ==
  \A i \in 1..Len(settled) :
    Suits(awaited[settled[i].call], settled[i].result)

AnswerInv ==
  /\ AskedInv /\ WaiterInv /\ MatchInv /\ AccountInv /\ ReachInv /\ SettledInv
ReplyInv == OrderInv /\ AnswerInv

-----------------------------------------------------------------------------
(* Sequences in the order of the tags.                                     *)

(* A sequence stays in order when a greater one is appended,               *)
LEMMA RisingAppended ==
  ASSUME NEW T, NEW s \in Seq(T), NEW e \in T, Rising(s),
         \A x \in ToSet(s) : x.tag < e.tag
  PROVE  Rising(Append(s, e))
  <1>1. /\ Len(s) \in Nat /\ Len(Append(s, e)) = Len(s) + 1
        /\ Append(s, e)[Len(s) + 1] = e
        /\ \A j \in 1..Len(s) : Append(s, e)[j] = s[j]
    BY Appended
  <1>2. \A j \in 1..Len(s) : s[j].tag < e.tag
    BY Elements
  <1>3. SUFFICES ASSUME NEW i \in 1..Len(Append(s, e)),
                        NEW j \in 1..Len(Append(s, e)), i < j
                 PROVE  Append(s, e)[i].tag < Append(s, e)[j].tag
    BY DEF Rising
  <1>4. i \in 1..Len(s)
    BY <1>1, <1>3
  <1>5. CASE j \in 1..Len(s)
    BY <1>1, <1>3, <1>4, <1>5 DEF Rising
  <1>6. CASE j = Len(s) + 1
    BY <1>1, <1>2, <1>4, <1>6
  <1>7. QED
    BY <1>1, <1>5, <1>6

(* when it is cut,                                                         *)
LEMMA RisingHalves ==
  ASSUME NEW T, NEW s \in Seq(T), NEW n \in 0..Len(s), Rising(s)
  PROVE  /\ Rising(SubSeq(s, 1, n)) /\ Rising(SubSeq(s, n + 1, Len(s)))
         /\ Before(ToSet(SubSeq(s, 1, n)), ToSet(SubSeq(s, n + 1, Len(s))))
  <1> DEFINE a == SubSeq(s, 1, n)
             b == SubSeq(s, n + 1, Len(s))
  <1>1. /\ Len(s) \in Nat /\ n \in Nat
        /\ a \in Seq(T) /\ Len(a) = n /\ \A j \in 1..n : a[j] = s[j]
        /\ b \in Seq(T) /\ Len(b) = Len(s) - n
        /\ \A j \in 1..(Len(s) - n) : b[j] = s[n + j]
    BY Halves, LenProperties
  <1> HIDE DEF a, b
  <1>2. ASSUME NEW i \in 1..Len(a), NEW j \in 1..Len(a), i < j
        PROVE  a[i].tag < a[j].tag
    <2>1. /\ i \in 1..Len(s) /\ j \in 1..Len(s)
          /\ a[i] = s[i] /\ a[j] = s[j]
      BY <1>1
    <2>2. QED
      BY <1>2, <2>1 DEF Rising
  <1>3. ASSUME NEW i \in 1..Len(b), NEW j \in 1..Len(b), i < j
        PROVE  b[i].tag < b[j].tag
    <2>1. /\ n + i \in 1..Len(s) /\ n + j \in 1..Len(s) /\ n + i < n + j
          /\ b[i] = s[n + i] /\ b[j] = s[n + j]
      BY <1>1, <1>3
    <2>2. QED
      BY <2>1 DEF Rising
  <1>4. ASSUME NEW i \in 1..Len(a), NEW j \in 1..Len(b)
        PROVE  a[i].tag < b[j].tag
    <2>1. /\ i \in 1..Len(s) /\ n + j \in 1..Len(s) /\ i < n + j
          /\ a[i] = s[i] /\ b[j] = s[n + j]
      BY <1>1
    <2>2. QED
      BY <2>1 DEF Rising
  <1>5. ASSUME NEW x \in ToSet(a), NEW y \in ToSet(b)
        PROVE  x.tag < y.tag
    <2>1. PICK i \in 1..Len(a) : x = a[i]
      BY <1>1, Elements
    <2>2. PICK j \in 1..Len(b) : y = b[j]
      BY <1>1, Elements
    <2>3. QED
      BY <1>4, <2>1, <2>2
  <1>6. QED
    BY <1>2, <1>3, <1>5 DEF a, b, Rising, Before

(* when a later one is joined to it,                                       *)
LEMMA RisingJoined ==
  ASSUME NEW T, NEW s \in Seq(T), NEW t \in Seq(T), Rising(s), Rising(t),
         Before(ToSet(s), ToSet(t))
  PROVE  Rising(s \o t)
  <1> DEFINE u == s \o t
  <1>1. /\ Len(s) \in Nat /\ Len(t) \in Nat
        /\ Len(u) = Len(s) + Len(t)
        /\ \A i \in 1..Len(s) : u[i] = s[i]
        /\ \A i \in 1..Len(t) : u[Len(s) + i] = t[i]
    BY Joined
  <1> HIDE DEF u
  <1>2. ASSUME NEW i \in 1..Len(s), NEW j \in 1..Len(t)
        PROVE  s[i].tag < t[j].tag
    <2>1. s[i] \in ToSet(s) /\ t[j] \in ToSet(t)
      BY Elements
    <2>2. QED
      BY <2>1 DEF Before
  <1>3. SUFFICES ASSUME NEW i \in 1..Len(u), NEW j \in 1..Len(u), i < j
                 PROVE  u[i].tag < u[j].tag
    BY DEF Rising, u
  <1>4. CASE j <= Len(s)
    BY <1>1, <1>3, <1>4 DEF Rising
  <1>5. CASE i <= Len(s) /\ ~(j <= Len(s))
    <2>1. /\ j - Len(s) \in 1..Len(t) /\ u[j] = t[j - Len(s)]
          /\ i \in 1..Len(s) /\ u[i] = s[i]
      <3>1. j - Len(s) \in 1..Len(t) /\ Len(s) + (j - Len(s)) = j
        BY <1>1, <1>5
      <3>2. QED
        BY <1>1, <1>5, <3>1
    <2>2. QED
      BY <1>2, <2>1
  <1>6. CASE ~(i <= Len(s))
    <2> DEFINE k == i - Len(s)
               l == j - Len(s)
    <2>1. /\ k \in 1..Len(t) /\ Len(s) + k = i
          /\ l \in 1..Len(t) /\ Len(s) + l = j /\ k < l
      BY <1>1, <1>3, <1>6
    <2> HIDE DEF k, l
    <2>2. u[i] = t[k] /\ u[j] = t[l]
      BY <1>1, <2>1
    <2>3. QED
      BY <2>1, <2>2 DEF Rising
  <1>7. QED
    BY <1>4, <1>5, <1>6

(* when its first is taken, which is before the rest,                      *)
LEMMA RisingTail ==
  ASSUME NEW T, NEW s \in Seq(T), s # <<>>, Rising(s)
  PROVE  Rising(Tail(s)) /\ Before({Head(s)}, ToSet(Tail(s)))
  <1>1. /\ Tail(s) \in Seq(T)
        /\ Len(s) \in Nat /\ Len(s) > 0 /\ Head(s) = s[1]
        /\ Len(Tail(s)) = Len(s) - 1
        /\ \A j \in 1..(Len(s) - 1) : Tail(s)[j] = s[j + 1]
    BY TailElements
  <1>2. ASSUME NEW i \in 1..Len(Tail(s)), NEW j \in 1..Len(Tail(s)), i < j
        PROVE  Tail(s)[i].tag < Tail(s)[j].tag
    <2>1. /\ i + 1 \in 1..Len(s) /\ j + 1 \in 1..Len(s) /\ i + 1 < j + 1
          /\ Tail(s)[i] = s[i + 1] /\ Tail(s)[j] = s[j + 1]
      BY <1>1, <1>2
    <2>2. QED
      BY <2>1 DEF Rising
  <1>3. ASSUME NEW x \in ToSet(Tail(s))
        PROVE  Head(s).tag < x.tag
    <2>1. PICK j \in 1..Len(Tail(s)) : x = Tail(s)[j]
      BY <1>1, Elements
    <2>2. 1 \in 1..Len(s) /\ j + 1 \in 1..Len(s) /\ 1 < j + 1 /\ x = s[j + 1]
      BY <1>1, <2>1
    <2>3. QED
      BY <1>1, <2>2 DEF Rising
  <1>4. QED
    BY <1>2, <1>3 DEF Rising, Before

(* and when one is taken out, whose tag no other has.                      *)
LEMMA RisingRemoval ==
  ASSUME NEW T, NEW s \in Seq(T), NEW k \in 1..Len(s), Rising(s),
         \A x \in T : x.tag \in Nat
  PROVE  /\ Rising(RemoveAt(s, k))
         /\ \A x \in ToSet(RemoveAt(s, k)) : x.tag # s[k].tag
  <1> DEFINE r == RemoveAt(s, k)
             old(j) == IF j < k THEN j ELSE j + 1
  <1>1. /\ Len(s) \in Nat /\ r \in Seq(T) /\ Len(r) = Len(s) - 1
        /\ \A j \in 1..Len(r) : old(j) \in (1..Len(s)) \ {k} /\ r[j] = s[old(j)]
        /\ \A j \in 1..Len(s) : s[j].tag \in Nat
    <2>1. \A j \in 1..Len(r) : old(j) \in (1..Len(s)) \ {k} /\ r[j] = s[old(j)]
      BY Survivors
    <2>2. \A j \in 1..Len(s) : s[j].tag \in Nat
      BY ElementOfSeq
    <2>3. QED
      BY <2>1, <2>2, Removal, LenProperties
  <1>2. \A i, j \in 1..Len(r) : i < j => old(i) < old(j)
    BY <1>1
  <1> HIDE DEF r, old
  <1>3. Rising(r)
    BY <1>1, <1>2 DEF Rising
  <1>4. \A i \in (1..Len(s)) \ {k} : s[i].tag # s[k].tag
    <2>1. SUFFICES ASSUME NEW i \in 1..Len(s), i # k
                   PROVE  s[i].tag # s[k].tag
      OBVIOUS
    <2>2. CASE i < k
      BY <1>1, <2>2 DEF Rising
    <2>3. CASE k < i
      BY <1>1, <2>3 DEF Rising
    <2>4. QED
      BY <1>1, <2>1, <2>2, <2>3
  <1>5. ASSUME NEW x \in ToSet(r)
        PROVE  x.tag # s[k].tag
    <2>1. PICK j \in 1..Len(r) : x = r[j]
      BY <1>1, Elements
    <2>2. QED
      BY <1>1, <1>4, <2>1
  <1>6. QED
    BY <1>3, <1>5 DEF r

-----------------------------------------------------------------------------
(* What the actions do.                                                    *)

(* The commands of a call, in order.                                       *)
LEMMA PlanShape ==
  ASSUME NEW call \in APICalls, call.op = "waitFrames" => call.n > 0,
         lastCrankAngle \in Int
  PROVE  LET plan == Steps(call)
         IN /\ plan \in Seq(SentSteps) /\ Len(plan) \in Nat \ {0}
            /\ call.op = "waitFrames" =>
                 /\ Len(plan) = call.n
                 /\ \A i \in 1..call.n : plan[i] = Step("PING")
            /\ call.op = "tap" =>
                 /\ Len(plan) = call.n + 2
                 /\ plan[1] = Inject(call.buttons, lastCrankAngle)
                 /\ \A i \in 2..(call.n + 1) : plan[i] = Step("PING")
                 /\ plan[call.n + 2] = Step("RELEASE_INPUT")
            /\ call.op = "pressButtons" =>
                 plan = <<Inject(call.buttons, lastCrankAngle)>>
            /\ call.op = "setCrank" => plan = <<Inject({}, call.crank)>>
            /\ call.op = "rotateCrank" =>
                 plan = <<Inject({}, CrankBase + call.crank)>>
            /\ call.op = "releaseInput" => plan = <<Step("RELEASE_INPUT")>>
            /\ call.op = "screenshot" => plan = <<Step("CAPTURE_FRAME")>>
            /\ call.op = "queryState" => plan = <<Step("QUERY_STATE")>>
  <1>1. /\ call.n \in Nat /\ call.buttons \in SUBSET Buttons
        /\ call.crank \in Int /\ call.op \in APIOps
    BY DEF APICalls
  <1>2. /\ \A type \in Game!CommandTypes \ {"UNKNOWN"} : Step(type) \in SentSteps
        /\ \A b \in SUBSET Buttons, crank \in Int :
             Inject(b, crank) \in SentSteps
    BY SessionAssumption DEF Step, Inject, SentSteps, Game!CommandTypes
  <1>3. CrankBase + call.crank \in Int
    BY <1>1 DEF CrankBase
  <1>4. /\ Pings(call.n) \in Seq(SentSteps) /\ Len(Pings(call.n)) = call.n
        /\ \A i \in 1..call.n : Pings(call.n)[i] = Step("PING")
    <2>1. Step("PING") \in SentSteps
      BY <1>2 DEF Game!CommandTypes
    <2>2. QED
      BY <1>1, <2>1, IsASeq DEF Pings
  <1>5. CASE call.op = "waitFrames"
    BY <1>1, <1>4, <1>5 DEF Steps
  <1>6. CASE call.op = "tap"
    <2> DEFINE a == <<Inject(call.buttons, lastCrankAngle)>>
               b == Pings(call.n)
               d == <<Step("RELEASE_INPUT")>>
    <2>1. Steps(call) = (a \o b) \o d
      BY <1>6 DEF Steps, TapSteps
    <2>2. /\ a \in Seq(SentSteps) /\ Len(a) = 1
          /\ a[1] = Inject(call.buttons, lastCrankAngle)
          /\ d \in Seq(SentSteps) /\ Len(d) = 1
          /\ d[1] = Step("RELEASE_INPUT")
      BY <1>1, <1>2 DEF Game!CommandTypes
    <2>3. b \in Seq(SentSteps) /\ Len(b) = call.n
            /\ \A i \in 1..call.n : b[i] = Step("PING")
      BY <1>4
    <2> HIDE DEF a, b, d
    <2>4. /\ a \o b \in Seq(SentSteps) /\ Len(a \o b) = 1 + call.n
          /\ (a \o b)[1] = Inject(call.buttons, lastCrankAngle)
          /\ \A i \in 1..call.n : (a \o b)[1 + i] = Step("PING")
      <3>1. /\ a \o b \in Seq(SentSteps) /\ Len(a \o b) = Len(a) + Len(b)
            /\ \A i \in 1..Len(a) : (a \o b)[i] = a[i]
            /\ \A i \in 1..Len(b) : (a \o b)[Len(a) + i] = b[i]
        <4>1. a \in Seq(SentSteps) /\ b \in Seq(SentSteps)
          BY <2>2, <2>3
        <4>2. QED
          BY <4>1, Joined
      <3>2. QED
        BY <2>2, <2>3, <3>1
    <2> DEFINE ab == a \o b
               p == ab \o d
    <2>5. /\ p \in Seq(SentSteps) /\ Len(p) = Len(ab) + Len(d)
          /\ \A i \in 1..Len(ab) : p[i] = ab[i]
          /\ \A i \in 1..Len(d) : p[Len(ab) + i] = d[i]
      <3>1. ab \in Seq(SentSteps)
        BY <2>4
      <3> HIDE DEF ab
      <3>2. QED
        BY <2>2, <3>1, Joined
    <2>6. /\ ab \in Seq(SentSteps) /\ Len(ab) = 1 + call.n
          /\ ab[1] = Inject(call.buttons, lastCrankAngle)
          /\ \A i \in 1..call.n : ab[1 + i] = Step("PING")
      BY <2>4
    <2> HIDE DEF ab
    <2>7. Len(p) = call.n + 2 /\ p \in Seq(SentSteps)
      BY <1>1, <2>2, <2>5, <2>6
    <2>8. p[1] = Inject(call.buttons, lastCrankAngle)
      BY <1>1, <2>5, <2>6
    <2>9. ASSUME NEW i \in 2..(call.n + 1)
          PROVE  p[i] = Step("PING")
      <3>1. i - 1 \in 1..call.n /\ 1 + (i - 1) = i /\ i \in 1..Len(ab)
        BY <1>1, <2>6
      <3>2. QED
        BY <2>5, <2>6, <3>1
    <2>10. p[call.n + 2] = Step("RELEASE_INPUT")
      <3>1. Len(ab) + 1 = call.n + 2
        BY <1>1, <2>6
      <3>2. QED
        BY <2>2, <2>5, <3>1
    <2>11. Steps(call) = p
      BY <2>1 DEF ab
    <2> HIDE DEF p
    <2>12. QED
      BY <1>1, <1>6, <2>7, <2>8, <2>9, <2>10, <2>11
  <1>7. CASE call.op \notin {"waitFrames", "tap"}
    <2>1. ASSUME NEW step \in SentSteps
          PROVE  <<step>> \in Seq(SentSteps) /\ Len(<<step>>) = 1
      OBVIOUS
    <2>2. /\ Inject(call.buttons, lastCrankAngle) \in SentSteps
          /\ Inject({}, call.crank) \in SentSteps
          /\ Inject({}, CrankBase + call.crank) \in SentSteps
          /\ Step("RELEASE_INPUT") \in SentSteps
          /\ Step("CAPTURE_FRAME") \in SentSteps
          /\ Step("QUERY_STATE") \in SentSteps
      BY <1>1, <1>2, <1>3 DEF Game!CommandTypes
    <2>3. QED
      BY <1>1, <1>7, <2>1, <2>2 DEF Steps, APIOps, InputOps
  <1>8. QED
    BY <1>5, <1>6, <1>7

(* receiveAny() takes the first message kept that suits, or enlists.       *)
Takes(c, types, queue, k) ==
  /\ k \in 1..Len(pendingMessages) /\ pendingMessages[k].type \in types
  /\ pendingMessages' = RemoveAt(pendingMessages, k)
  /\ settled' = Append(queue, [call |-> c, result |-> pendingMessages[k]])
  /\ handed' = handed \cup {pendingMessages[k]}
  /\ waiters' = waiters
Waits(c, types, queue) ==
  /\ \A k \in 1..Len(pendingMessages) : pendingMessages[k].type \notin types
  /\ waiters' = Append(waiters, [call |-> c, types |-> types])
  /\ settled' = queue
  /\ pendingMessages' = pendingMessages /\ handed' = handed

(* receiveAny() takes one of the kept messages, or enlists a waiter.       *)
LEMMA ReceiveEffect ==
  ASSUME TypeOK, NEW c, NEW types, NEW queue,
         Server!ReceiveAny(c, types, queue)
  PROVE  \/ \E k \in 1..Len(pendingMessages) : Takes(c, types, queue, k)
         \/ Waits(c, types, queue)
  <1> DEFINE I == {k \in 1..Len(pendingMessages) :
                     pendingMessages[k].type \in types}
             first == Server!FirstPending(types)
  <1>1. first = IF I # {} THEN Min(I) ELSE 0
    BY DEF Server!FirstPending, Server!SelectInSeq, Server!Min, Min
  <1>2. I \in SUBSET Nat /\ 0 \notin I
    BY LenProperties DEF TypeOK, Server!TypeOK
  <1>3. I # {} => Min(I) \in I
    BY <1>2, LeastExists
  <1>4. \/ first # 0 /\ first \in I
        \/ first = 0 /\ I = {}
    BY <1>1, <1>2, <1>3
  <1>5. \/ /\ first # 0
           /\ pendingMessages' = RemoveAt(pendingMessages, first)
           /\ settled' = Append(queue,
                [call |-> c, result |-> pendingMessages[first]])
           /\ handed' = handed \cup {pendingMessages[first]}
           /\ waiters' = waiters
        \/ /\ first = 0
           /\ waiters' = Append(waiters, [call |-> c, types |-> types])
           /\ settled' = queue
           /\ pendingMessages' = pendingMessages /\ handed' = handed
    BY DEF Server!ReceiveAny, Server!Settlement, Server!RemoveAt, RemoveAt
  <1> HIDE DEF first
  <1>6. QED
    BY <1>4, <1>5 DEF Takes, Waits

(* send() and receive().                                                   *)
Written(cmd) ==
  /\ \/ link /\ toGame' = Append(toGame, cmd) /\ issued' = issued + 1
     \/ ~link /\ toGame' = toGame /\ issued' = issued
  /\ conn_state' = conn_state /\ access_pending' = access_pending
  /\ open_pending' = open_pending /\ link' = link /\ recv_buf' = recv_buf
  /\ injected_buttons' = injected_buttons
  /\ prev_injected_buttons' = prev_injected_buttons
  /\ injected_crank' = injected_crank
  /\ snapshot_current' = snapshot_current
  /\ snapshot_pushed' = snapshot_pushed
  /\ snapshot_released' = snapshot_released
  /\ real_buttons' = real_buttons /\ ignored' = ignored
  /\ snapshotted' = snapshotted
  /\ owed_push' = owed_push /\ owed_release' = owed_release
  /\ toRunner' = toRunner

(* A step writes its command, then takes a message or waits for one.       *)
LEMMA SendEffect ==
  ASSUME TypeOK, NEW c \in Calls, NEW step \in SentSteps, NEW queue,
         SendAndWait(c, step, queue)
  PROVE  /\ Command(step) \in Game!Commands
         /\ Command(step).tag = issued + 1 /\ Command(step).wellFormed
         /\ Sends(Command(step), step)
         /\ Written(Command(step))
         /\ \/ \E k \in 1..Len(pendingMessages) :
                 Takes(c, Awaits(step.type), queue, k)
            \/ Waits(c, Awaits(step.type), queue)
         /\ awaited' = [awaited EXCEPT ![c] = Command(step)]
         /\ socket' = socket /\ parsed' = parsed
  <1>1. issued \in Nat
    BY DEF TypeOK, Game!TypeOK
  <1>2. /\ Command(step) \in Game!Commands
        /\ Command(step).tag = issued + 1 /\ Command(step).wellFormed
        /\ Sends(Command(step), step)
    BY <1>1 DEF Command, Sends, SentSteps, Game!Commands
  <1>3. Written(Command(step))
    BY DEF SendAndWait, Written, Game!WriteCommand, gameVars, Game!connVars,
           Game!inputVars, Game!snapVars, Game!owedVars, Game!replyVars
  <1>4. \/ \E k \in 1..Len(pendingMessages) :
             Takes(c, Awaits(step.type), queue, k)
        \/ Waits(c, Awaits(step.type), queue)
    BY ReceiveEffect DEF SendAndWait
  <1>5. QED
    BY <1>2, <1>3, <1>4 DEF SendAndWait

(* onData() gives the message at hand to the first waiter it suits, or     *)
(* keeps it.                                                               *)
Delivers(k) ==
  /\ k \in 1..Len(waiters) /\ Head(parsed).type \in waiters[k].types
  /\ \A j \in 1..Len(waiters) :
       j < k => Head(parsed).type \notin waiters[j].types
  /\ waiters' = RemoveAt(waiters, k)
  /\ settled' =
       Append(settled, [call |-> waiters[k].call, result |-> Head(parsed)])
  /\ handed' = handed \cup {Head(parsed)}
  /\ pendingMessages' = pendingMessages
Keeps ==
  /\ \A j \in 1..Len(waiters) : Head(parsed).type \notin waiters[j].types
  /\ pendingMessages' = Append(pendingMessages, Head(parsed))
  /\ waiters' = waiters /\ settled' = settled /\ handed' = handed

(* onData() hands its next message to one waiter, or keeps it.             *)
LEMMA DeliverEffect ==
  ASSUME TypeOK, DeliverNext
  PROVE  /\ parsed # <<>> /\ parsed' = Tail(parsed)
         /\ (\E k \in 1..Len(waiters) : Delivers(k)) \/ Keeps
         /\ socket' = socket /\ toRunner' = toRunner
         /\ UNCHANGED <<gameVars, runnerVars>>
  <1> DEFINE type == Head(parsed).type
             I == {k \in 1..Len(waiters) : type \in waiters[k].types}
             first == Server!FirstWaiter(type)
  <1>1. first = IF I # {} THEN Min(I) ELSE 0
    BY DEF Server!FirstWaiter, Server!SelectInSeq, Server!Min, Min
  <1>2. I \in SUBSET Nat /\ 0 \notin I
    BY LenProperties DEF TypeOK, Server!TypeOK
  <1>3. I # {} => Min(I) \in I /\ \A j \in I : Min(I) <= j
    BY <1>2, LeastExists
  <1>4. \/ first # 0 /\ first \in I /\ \A j \in I : first <= j
        \/ first = 0 /\ I = {}
    BY <1>1, <1>2, <1>3
  <1>5. \/ /\ first # 0
           /\ settled' = Append(settled,
                [call |-> waiters[first].call, result |-> Head(parsed)])
           /\ handed' = handed \cup {Head(parsed)}
           /\ waiters' = RemoveAt(waiters, first)
           /\ pendingMessages' = pendingMessages
        \/ /\ first = 0
           /\ pendingMessages' = Append(pendingMessages, Head(parsed))
           /\ waiters' = waiters /\ settled' = settled /\ handed' = handed
    BY DEF DeliverNext, Server!DeliverParsed, Server!Resolving, Server!Keeping,
           Server!Settlement, Server!RemoveAt, RemoveAt
  <1> HIDE DEF first
  <1>6. CASE first # 0 /\ first \in I /\ \A j \in I : first <= j
    <2>1. \A j \in 1..Len(waiters) : j < first => type \notin waiters[j].types
      BY <1>2, <1>6
    <2>2. Delivers(first)
      BY <1>5, <1>6, <2>1 DEF Delivers
    <2>3. QED
      BY <1>6, <2>2 DEF DeliverNext, Server!DeliverParsed
  <1>7. CASE first = 0 /\ I = {}
    BY <1>5, <1>7 DEF DeliverNext, Server!DeliverParsed, Keeps
  <1>8. QED
    BY <1>4, <1>6, <1>7

(* The commands that inject input.                                         *)
InputTypes == {"INJECT_INPUT", "RELEASE_INPUT"}

(* A frame of the game dispatches the oldest of the commands, or none.     *)
MayAnswer(type) ==
  Awaits(type) \cup
    (IF type \in {"CAPTURE_FRAME", "QUERY_STATE"} THEN {"ERROR"} ELSE {})
Dispatches(m) ==
  /\ m \in Asked /\ \A y \in Asked : y # m => m.tag < y.tag
  /\ Asked' = Asked \ {m}
  /\ \/ /\ link
        /\ \E type \in MayAnswer(m.type) :
             toRunner' = Append(toRunner, [type |-> type, tag |-> m.tag])
     \/ ~link /\ toRunner' = toRunner
  /\ m.type = "INJECT_INPUT" =>
       injected_buttons' = m.buttons /\ injected_crank' = m.crank
  /\ m.type = "RELEASE_INPUT" =>
       injected_buttons' = {} /\ injected_crank' = NoInject
  /\ m.type \notin InputTypes =>
       injected_buttons' = injected_buttons /\ injected_crank' = injected_crank
Idles ==
  /\ Asked' = Asked /\ toRunner' = toRunner
  /\ injected_buttons' = injected_buttons /\ injected_crank' = injected_crank

(* A command is answered by a kind of reply it may have, and only two of   *)
(* them touch what is injected.                                            *)
LEMMA DispatchEffect ==
  ASSUME TypeOK, NEW m \in Game!Commands, m.wellFormed, m.type # "UNKNOWN",
         Game!DispatchCommand(m)
  PROVE  /\ \/ /\ link
               /\ \E type \in MayAnswer(m.type) :
                    toRunner' = Append(toRunner, [type |-> type, tag |-> m.tag])
            \/ ~link /\ toRunner' = toRunner
         /\ m.type = "INJECT_INPUT" =>
              injected_buttons' = m.buttons /\ injected_crank' = m.crank
         /\ m.type = "RELEASE_INPUT" =>
              injected_buttons' = {} /\ injected_crank' = NoInject
         /\ m.type \notin InputTypes =>
              /\ injected_buttons' = injected_buttons
              /\ injected_crank' = injected_crank
         /\ ignored' = ignored
  <1>1. link \in BOOLEAN
    BY DEF TypeOK, Game!TypeOK
  <1>2. CASE m.type = "PING"
    BY <1>1, <1>2 DEF Game!DispatchCommand, Game!HandlePing, Game!SendMessage,
       MayAnswer, Awaits, InputTypes, Game!inputVars
  <1>3. CASE m.type = "CAPTURE_FRAME"
    BY <1>1, <1>3 DEF Game!DispatchCommand, Game!HandleCaptureFrame,
       Game!SendMessage, MayAnswer, Awaits, InputTypes, Game!inputVars
  <1>4. CASE m.type = "INJECT_INPUT"
    BY <1>1, <1>4 DEF Game!DispatchCommand, Game!HandleInjectInput,
       Game!SendMessage, MayAnswer, Awaits, InputTypes
  <1>5. CASE m.type = "QUERY_STATE"
    BY <1>1, <1>5 DEF Game!DispatchCommand, Game!HandleQueryState,
       Game!SendMessage, MayAnswer, Awaits, InputTypes, Game!inputVars
  <1>6. CASE m.type = "RELEASE_INPUT"
    BY <1>1, <1>6 DEF Game!DispatchCommand, Game!HandleReleaseInput,
       Game!SendMessage, MayAnswer, Awaits, InputTypes
  <1>7. QED
    BY <1>2, <1>3, <1>4, <1>5, <1>6 DEF Game!Commands, Game!CommandTypes

(* A frame dispatches one command or none, and leaves the rest in order.   *)
LEMMA FrameEffect ==
  ASSUME TypeOK, OrderInv, AskedInv, NEW n \in 0..Len(toGame),
         Game!UpdateConnected({}, n)
  PROVE  /\ (\E m \in Game!Commands : Dispatches(m)) \/ Idles
         /\ recv_buf' \in Seq(Game!Commands) /\ toGame' \in Seq(Game!Commands)
         /\ Rising(recv_buf') /\ Rising(toGame')
         /\ Before(ToSet(recv_buf'), ToSet(toGame'))
         /\ Asked' \subseteq Asked
         /\ ignored' = ignored
  <1> DEFINE front == SubSeq(toGame, 1, n)
             back  == SubSeq(toGame, n + 1, Len(toGame))
             buf   == recv_buf \o front
  <1>1. recv_buf \in Seq(Game!Commands) /\ toGame \in Seq(Game!Commands)
    BY DEF TypeOK, Game!TypeOK
  <1>2. /\ front \in Seq(Game!Commands) /\ back \in Seq(Game!Commands)
        /\ ToSet(toGame) = ToSet(front) \cup ToSet(back)
        /\ Rising(front) /\ Rising(back) /\ Before(ToSet(front), ToSet(back))
    BY <1>1, Halves, HalvesElements, RisingHalves DEF OrderInv
  <1>3. Game!ProcessOneCommand(buf) /\ toGame' = back
    BY DEF Game!UpdateConnected
  <1> HIDE DEF front, back
  <1>4. Before(ToSet(recv_buf), ToSet(front)) /\ Before(ToSet(recv_buf), ToSet(back))
    BY <1>2 DEF OrderInv, Before
  <1>5. /\ buf \in Seq(Game!Commands) /\ Rising(buf)
        /\ ToSet(buf) = ToSet(recv_buf) \cup ToSet(front)
        /\ Before(ToSet(buf), ToSet(back))
    <2>1. /\ buf \in Seq(Game!Commands)
          /\ ToSet(buf) = ToSet(recv_buf) \cup ToSet(front)
      BY <1>1, <1>2, Joined
    <2>2. Rising(recv_buf)
      BY DEF OrderInv
    <2>3. Rising(buf)
      BY <1>1, <1>2, <1>4, <2>2, RisingJoined
    <2>4. QED
      BY <1>2, <1>4, <2>1, <2>3 DEF Before
  <1>6. Asked = ToSet(buf) \cup ToSet(back)
    BY <1>2, <1>5 DEF Asked
  <1> HIDE DEF buf
  <1>7. CASE /\ buf = <<>> /\ recv_buf' = buf
             /\ UNCHANGED <<Game!inputVars, Game!replyVars>>
    <2>1. Asked' = Asked
      BY <1>3, <1>6, <1>7 DEF Asked
    <2>2. QED
      BY <1>2, <1>3, <1>5, <1>7, <2>1
         DEF Idles, Game!inputVars, Game!replyVars
  <1>8. CASE /\ buf # <<>> /\ recv_buf' = Tail(buf)
             /\ Game!DispatchCommand(Head(buf))
    <2> DEFINE m == Head(buf)
    <2>1. /\ m \in Game!Commands /\ Tail(buf) \in Seq(Game!Commands)
          /\ ToSet(buf) = {m} \cup ToSet(Tail(buf))
          /\ Rising(Tail(buf)) /\ Before({m}, ToSet(Tail(buf)))
      BY <1>5, <1>8, TailElements, RisingTail
    <2>2. m \in Asked /\ m.wellFormed /\ m.type # "UNKNOWN"
      BY <1>6, <2>1 DEF AskedInv
    <2> HIDE DEF m
    <2>3. /\ \A y \in ToSet(Tail(buf)) \cup ToSet(back) : m.tag < y.tag
          /\ Asked' = ToSet(Tail(buf)) \cup ToSet(back)
          /\ Asked = {m} \cup (ToSet(Tail(buf)) \cup ToSet(back))
      BY <1>3, <1>5, <1>6, <1>8, <2>1 DEF Before, Asked
    <2>4. m \notin Asked' /\ \A y \in Asked : y # m => m.tag < y.tag
      <3>1. m.tag \in Nat
        BY <2>1 DEF Game!Commands
      <3>2. QED
        BY <2>3, <3>1
    <2>5. Asked' = Asked \ {m}
      BY <2>3, <2>4
    <2>6. Game!DispatchCommand(m)
      BY <1>8 DEF m
    <2>7. Dispatches(m) /\ ignored' = ignored
      BY <2>1, <2>2, <2>4, <2>5, <2>6, DispatchEffect DEF Dispatches
    <2>8. Before(ToSet(Tail(buf)), ToSet(back))
      BY <1>5, <2>1 DEF Before
    <2>9. QED
      BY <1>2, <1>3, <1>8, <2>1, <2>5, <2>7, <2>8
  <1>9. QED
    BY <1>3, <1>7, <1>8 DEF Game!ProcessOneCommand

-----------------------------------------------------------------------------
(* The shape of a session: types, scripts, and what each call awaits.      *)
Structure == TypeOK /\ TodoInv /\ CallInv /\ ProgressInv

(* Call c sends the k-th of its commands, while the promises of `queue'    *)
(* are settled: none of them its own.                                      *)
Sending(c, k, queue) ==
  LET plan == Steps(Call(c))
  IN /\ c \in Calls /\ todo[c] # <<>> /\ k \in 1..Len(plan)
     /\ plan \in Seq(SentSteps)
     /\ SendAndWait(c, plan[k], queue)
     /\ steps' = [steps EXCEPT ![c] = SubSeq(plan, k + 1, Len(plan))]
     /\ outcome' = [outcome EXCEPT ![c] = "running"]
     /\ lastCrankAngle' = lastCrankAngle /\ todo' = todo
     /\ abandoned' = abandoned
     /\ queryInFlight' \in BOOLEAN
     /\ frames' \in [Calls -> Nat]
     /\ Call(c).op = "queryState" /\ queryInFlight => Running(c)
     /\ queue \in Seq(Server!Outcomes)
     /\ \A i \in 1..Len(queue) :
          queue[i].call # c /\ \E j \in 1..Len(settled) : queue[i] = settled[j]
     /\ \A i, j \in 1..Len(queue) : queue[i].call = queue[j].call => i = j
     /\ \A j \in 1..Len(waiters) : waiters[j].call # c

(* What a flow is about to call, or calling, is an API call.               *)
LEMMA FirstCall ==
  ASSUME TypeOK, TodoInv, NEW c \in Calls, todo[c] # <<>>
  PROVE  /\ Call(c) = todo[c][1] /\ Call(c) \in APICalls
         /\ Call(c).op = "waitFrames" => Call(c).n > 0
         /\ Call(c).n < MaxCommands
         /\ Tail(todo[c]) \in Seq(APICalls)
         /\ \A i \in 1..Len(Tail(todo[c])) :
              i + 1 \in 1..Len(todo[c]) /\ Tail(todo[c])[i] = todo[c][i + 1]
         /\ Call(c).op \in InputOps => c \in InputFlows(todo)
  <1>1. todo[c] \in Seq(APICalls)
    BY DEF TypeOK
  <1>2. /\ Head(todo[c]) \in APICalls /\ Tail(todo[c]) \in Seq(APICalls)
        /\ Len(todo[c]) \in Nat /\ Len(todo[c]) > 0 /\ Head(todo[c]) = todo[c][1]
        /\ Len(Tail(todo[c])) = Len(todo[c]) - 1
        /\ \A j \in 1..(Len(todo[c]) - 1) : Tail(todo[c])[j] = todo[c][j + 1]
    BY <1>1, TailElements
  <1>3. 1 \in 1..Len(todo[c])
    BY <1>2
  <1>4. QED
    BY <1>2, <1>3 DEF TodoInv, Call, InputFlows

(* A call that begins sends the first of its commands,                     *)
LEMMA BeginSends ==
  ASSUME Structure, NEW c \in Calls, Begin(c)
  PROVE  Sending(c, 1, settled) /\ ~Running(c)
  <1> DEFINE plan == Steps(Call(c))
  <1>1. TypeOK /\ TodoInv /\ CallInv
    BY DEF Structure
  <1>2. ~Running(c) /\ todo[c] # <<>>
    BY DEF Begin, Running
  <1>3. /\ Call(c) \in APICalls
        /\ Call(c).op = "waitFrames" => Call(c).n > 0
    BY <1>1, <1>2, FirstCall
  <1>4. plan \in Seq(SentSteps) /\ Len(plan) \in Nat \ {0}
    BY <1>1, <1>3, PlanShape DEF TypeOK
  <1>5. /\ SendAndWait(c, Head(plan), settled)
        /\ steps' = [steps EXCEPT ![c] = Tail(plan)]
        /\ outcome' = [outcome EXCEPT ![c] = "running"]
        /\ queryInFlight' = (queryInFlight \/ Call(c).op = "queryState")
        /\ frames' = [frames EXCEPT ![c] = 0]
        /\ UNCHANGED <<lastCrankAngle, todo, abandoned>>
        /\ ~(Call(c).op = "queryState" /\ queryInFlight)
    BY DEF Begin, Call, Refused
  <1>6. Head(plan) = plan[1] /\ Tail(plan) = SubSeq(plan, 1 + 1, Len(plan))
    BY <1>4
  <1>7. queryInFlight' \in BOOLEAN /\ frames' \in [Calls -> Nat]
    BY <1>1, <1>5 DEF TypeOK
  <1>8. settled \in Seq(Server!Outcomes)
    BY <1>1 DEF TypeOK, Server!TypeOK
  <1>9. /\ \A i \in 1..Len(settled) : settled[i].call # c
        /\ \A j \in 1..Len(waiters) : waiters[j].call # c
    BY <1>1, <1>2 DEF CallInv
  <1>10. \A i, j \in 1..Len(settled) : settled[i].call = settled[j].call => i = j
    BY <1>1 DEF CallInv
  <1>11. 1 \in 1..Len(plan)
    BY <1>4
  <1> HIDE DEF plan
  <1>12. QED
    BY <1>2, <1>4, <1>5, <1>6, <1>7, <1>8, <1>9, <1>10, <1>11
       DEF Sending, plan

(* A call that resumes is the running one of its flow.                     *)
LEMMA Resumes ==
  ASSUME Structure, NEW i \in 1..Len(settled), NEW c \in Calls, Resuming(i, c)
  PROVE  /\ c = settled[i].call /\ Running(c) /\ todo[c] # <<>>
         /\ RemoveAt(settled, i) \in Seq(Server!Outcomes)
         /\ \A k \in 1..Len(RemoveAt(settled, i)) :
              /\ RemoveAt(settled, i)[k].call # c
              /\ \E j \in 1..Len(settled) : RemoveAt(settled, i)[k] = settled[j]
         /\ \A k, l \in 1..Len(RemoveAt(settled, i)) :
              RemoveAt(settled, i)[k].call = RemoveAt(settled, i)[l].call
                => k = l
         /\ \A j \in 1..Len(waiters) : waiters[j].call # c
  <1> DEFINE r == RemoveAt(settled, i)
             old(k) == IF k < i THEN k ELSE k + 1
  <1>1. TypeOK /\ CallInv /\ c = settled[i].call
    BY DEF Structure, Resuming
  <1>2. settled \in Seq(Server!Outcomes)
    BY <1>1 DEF TypeOK, Server!TypeOK
  <1>3. /\ r \in Seq(Server!Outcomes) /\ Len(settled) \in Nat /\ Len(r) \in Nat
        /\ \A k \in 1..Len(r) :
             old(k) \in (1..Len(settled)) \ {i} /\ r[k] = settled[old(k)]
    <2>1. \A k \in 1..Len(r) :
             old(k) \in (1..Len(settled)) \ {i} /\ r[k] = settled[old(k)]
      BY <1>2, Survivors
    <2>2. r \in Seq(Server!Outcomes)
      BY <1>2, Removal
    <2>3. QED
      BY <1>2, <2>1, <2>2, LenProperties
  <1>4. \A k, l \in 1..Len(r) : old(k) = old(l) => k = l
    BY <1>3
  <1> HIDE DEF r, old
  <1>5. \A k, l \in 1..Len(settled) : settled[k].call = settled[l].call => k = l
    BY <1>1 DEF CallInv
  <1>6. \A k \in 1..Len(r) : r[k].call # c /\ \E j \in 1..Len(settled) : r[k] = settled[j]
    BY <1>1, <1>3, <1>5
  <1>7. \A k, l \in 1..Len(r) : r[k].call = r[l].call => k = l
    BY <1>3, <1>4, <1>5
  <1>8. Running(c) /\ \A j \in 1..Len(waiters) : waiters[j].call # c
    BY <1>1 DEF CallInv
  <1>9. todo[c] # <<>>
    BY <1>1, <1>8 DEF TypeOK, Running
  <1>10. QED
    BY <1>1, <1>3, <1>6, <1>7, <1>8, <1>9 DEF r

(* What is left to send, cut from the commands of the call.                *)
LEMMA StepsLeft ==
  ASSUME NEW plan \in Seq(SentSteps), NEW k \in 1..Len(plan),
         NEW left, left = SubSeq(plan, k + 1, Len(plan))
  PROVE  /\ left \in Seq(SentSteps) /\ Len(left) = Len(plan) - k
         /\ Len(plan) - Len(left) = k
         /\ left # <<>> => /\ k + 1 \in 1..Len(plan)
                           /\ Head(left) = plan[k + 1]
                           /\ Tail(left) = SubSeq(plan, k + 2, Len(plan))
         /\ left = <<>> => k = Len(plan)
  <1>1. k \in 0..Len(plan) /\ Len(plan) \in Nat /\ k \in Nat
    BY LenProperties
  <1>2. /\ left \in Seq(SentSteps) /\ Len(left) = Len(plan) - k
        /\ \A j \in 1..(Len(plan) - k) : left[j] = plan[k + j]
    BY <1>1, Halves
  <1>3. ASSUME left = <<>> PROVE k = Len(plan)
    <2>1. Len(left) = 0
      BY <1>3
    <2>2. QED
      BY <1>1, <1>2, <2>1
  <1>4. ASSUME left # <<>>
        PROVE  /\ k + 1 \in 1..Len(plan) /\ Head(left) = plan[k + 1]
               /\ Tail(left) = SubSeq(plan, k + 2, Len(plan))
    <2> DEFINE t == Tail(left)
               u == SubSeq(plan, (k + 1) + 1, Len(plan))
    <2>1. /\ t \in Seq(SentSteps) /\ Len(left) > 0 /\ Head(left) = left[1]
          /\ Len(t) = Len(left) - 1
          /\ \A j \in 1..(Len(left) - 1) : t[j] = left[j + 1]
      BY <1>2, <1>4, TailElements
    <2>2. k + 1 \in 1..Len(plan) /\ Head(left) = plan[k + 1]
      BY <1>1, <1>2, <2>1
    <2>3. /\ u \in Seq(SentSteps) /\ Len(u) = Len(plan) - (k + 1)
          /\ \A j \in 1..(Len(plan) - (k + 1)) : u[j] = plan[(k + 1) + j]
      <3>1. k + 1 \in 0..Len(plan)
        BY <1>1, <2>2
      <3>2. QED
        BY <3>1, Halves
    <2>4. Len(t) = Len(u) /\ \A j \in 1..Len(t) : t[j] = u[j]
      <3>1. Len(t) = Len(u) /\ Len(t) = Len(plan) - k - 1
        BY <1>1, <1>2, <2>1, <2>3
      <3>2. SUFFICES ASSUME NEW j \in 1..Len(t) PROVE t[j] = u[j]
        BY <3>1
      <3>3. /\ j \in 1..(Len(left) - 1) /\ j + 1 \in 1..(Len(plan) - k)
            /\ j \in 1..(Len(plan) - (k + 1))
            /\ k + (j + 1) = (k + 1) + j
        BY <1>1, <1>2, <2>1, <3>1
      <3>4. QED
        BY <1>2, <2>1, <2>3, <3>3
    <2>5. t = u
      BY <2>1, <2>3, <2>4, SeqEqual
    <2>6. (k + 1) + 1 = k + 2
      BY <1>1
    <2>7. QED
      BY <2>2, <2>5, <2>6
  <1>5. QED
    BY <1>1, <1>2, <1>3, <1>4

(* one that goes on sends the next,                                        *)
LEMMA ContinueSends ==
  ASSUME Structure, NEW i \in 1..Len(settled), NEW c \in Calls, Continue(i, c)
  PROVE  /\ Sending(c, At(c) + 1, RemoveAt(settled, i)) /\ Running(c)
         /\ c = settled[i].call
         /\ settled[i].result # Server!TimedOut
         /\ queryInFlight' = queryInFlight /\ frames' = frames
  <1> DEFINE plan == Steps(Call(c))
             k == At(c)
             r == RemoveAt(settled, i)
  <1>1. TypeOK /\ TodoInv /\ CallInv /\ ProgressInv /\ Resuming(i, c)
    BY DEF Structure, Continue
  <1>2. /\ c = settled[i].call /\ Running(c) /\ todo[c] # <<>>
        /\ r \in Seq(Server!Outcomes)
        /\ \A l \in 1..Len(r) :
             r[l].call # c /\ \E j \in 1..Len(settled) : r[l] = settled[j]
        /\ \A l, m \in 1..Len(r) : r[l].call = r[m].call => l = m
        /\ \A j \in 1..Len(waiters) : waiters[j].call # c
    BY <1>1, Resumes
  <1>3. plan \in Seq(SentSteps)
    BY <1>1, <1>2, FirstCall, PlanShape DEF TypeOK
  <1>4. k \in 1..Len(plan) /\ steps[c] = SubSeq(plan, k + 1, Len(plan))
    BY <1>1, <1>2 DEF ProgressInv
  <1>5. /\ steps[c] # <<>> /\ SendAndWait(c, Head(steps[c]), r)
        /\ steps' = [steps EXCEPT ![c] = Tail(steps[c])]
        /\ UNCHANGED <<lastCrankAngle, queryInFlight, todo, outcome, frames,
                       abandoned>>
        /\ settled[i].result # Server!TimedOut
    BY DEF Continue, Failed
  <1> HIDE DEF plan, k, r
  <1>6. /\ k + 1 \in 1..Len(plan) /\ Head(steps[c]) = plan[k + 1]
        /\ Tail(steps[c]) = SubSeq(plan, (k + 1) + 1, Len(plan))
    <2>1. /\ k + 1 \in 1..Len(plan) /\ Head(steps[c]) = plan[k + 1]
          /\ Tail(steps[c]) = SubSeq(plan, k + 2, Len(plan))
      BY <1>3, <1>4, <1>5, StepsLeft
    <2>2. k \in Nat
      BY <1>4
    <2>3. (k + 1) + 1 = k + 2
      BY <2>2
    <2>4. QED
      BY <2>1, <2>3
  <1>7. outcome' = [outcome EXCEPT ![c] = "running"]
    BY <1>1, <1>2, <1>5 DEF TypeOK, Running
  <1>8. queryInFlight' \in BOOLEAN /\ frames' \in [Calls -> Nat]
    BY <1>1, <1>5 DEF TypeOK
  <1>9. Sending(c, k + 1, r)
    BY <1>2, <1>3, <1>5, <1>6, <1>7, <1>8 DEF Sending, plan
  <1>10. QED
    BY <1>2, <1>5, <1>9 DEF k, r

(* The call of flow c ends, the i-th of the settled promises having        *)
(* resumed it.                                                             *)
Ending(i, c) ==
  /\ c \in Calls /\ i \in 1..Len(settled) /\ c = settled[i].call
  /\ Running(c) /\ todo[c] # <<>>
  /\ \E how \in {"resolved", "rejected"} :
       outcome' = [outcome EXCEPT ![c] = how]
  /\ todo' = [todo EXCEPT ![c] = Tail(todo[c])]
  /\ steps' = [steps EXCEPT ![c] = <<>>]
  /\ settled' = RemoveAt(settled, i)
  /\ queryInFlight' = (queryInFlight /\ Call(c).op # "queryState")
  /\ lastCrankAngle' \in Int
  /\ lastCrankAngle' # lastCrankAngle => Call(c).op \in InputOps
  /\ UNCHANGED <<gameVars, toRunner, socket, parsed, pendingMessages, waiters,
                 handed, awaited, frames, abandoned>>

(* and one that is resolved or rejected sends no more.                     *)
LEMMA CallEnds ==
  ASSUME Structure, NEW i \in 1..Len(settled), NEW c \in Calls,
         Resolve(i, c) \/ Reject(i, c)
  PROVE  Ending(i, c)
  <1>1. Resuming(i, c) /\ TypeOK
    BY DEF Resolve, Reject, Structure
  <1>2. c = settled[i].call /\ Running(c) /\ todo[c] # <<>>
    BY <1>1, Resumes
  <1>3. \E how \in {"resolved", "rejected"} : Ends(i, c, how)
    BY DEF Resolve, Reject
  <1>4. /\ \E how \in {"resolved", "rejected"} :
             outcome' = [outcome EXCEPT ![c] = how]
        /\ todo' = [todo EXCEPT ![c] = Tail(todo[c])]
        /\ steps' = [steps EXCEPT ![c] = <<>>]
        /\ settled' = RemoveAt(settled, i)
        /\ queryInFlight' = (queryInFlight /\ Call(c).op # "queryState")
        /\ UNCHANGED <<gameVars, toRunner, socket, parsed, pendingMessages,
                       waiters, handed, awaited, frames, abandoned>>
    BY <1>3 DEF Ends, Call
  <1>5. /\ lastCrankAngle' \in Int
        /\ lastCrankAngle' # lastCrankAngle => Call(c).op \in InputOps
    <2>1. CASE Reject(i, c)
      BY <1>1, <2>1 DEF Reject, TypeOK
    <2>2. CASE Resolve(i, c)
      <3>1. awaited[c].crank \in Int
        BY <1>1, SessionAssumption
           DEF TypeOK, CommandOrNothing, Game!Commands, Nothing
      <3>2. lastCrankAngle' = CrankAfter(Call(c), awaited[c])
        BY <2>2 DEF Resolve, Call
      <3>3. QED
        BY <1>1, <3>1, <3>2, SessionAssumption DEF CrankAfter, InputOps, TypeOK
    <2>3. QED
      BY <2>1, <2>2
  <1>6. QED
    BY <1>2, <1>4, <1>5 DEF Ending

-----------------------------------------------------------------------------
(* Types.                                                                  *)

(* What a command is sent to receive are replies.                          *)
LEMMA AwaitsReplies ==
  ASSUME NEW type \in Game!CommandTypes \ {"UNKNOWN"}
  PROVE  Awaits(type) \in SUBSET Game!ReplyTypes
  BY DEF Awaits, Game!CommandTypes, Game!ReplyTypes

(* Waiters and settled promises belong to calls.                           *)
LEMMA QueueTypes ==
  ASSUME TypeOK
  PROVE  /\ settled \in Seq(Server!Outcomes) /\ waiters \in Seq(Server!Waiters)
         /\ \A j \in 1..Len(settled) :
              settled[j] \in Server!Outcomes /\ settled[j].call \in Calls
         /\ \A j \in 1..Len(waiters) :
              waiters[j] \in Server!Waiters /\ waiters[j].call \in Calls
  <1>1. settled \in Seq(Server!Outcomes) /\ waiters \in Seq(Server!Waiters)
    BY DEF TypeOK, Server!TypeOK
  <1>2. ASSUME NEW j \in 1..Len(settled)
        PROVE  settled[j] \in Server!Outcomes /\ settled[j].call \in Calls
    <2>1. settled[j] \in Server!Outcomes
      BY <1>1, ElementOfSeq
    <2>2. QED
      BY <2>1 DEF Server!Outcomes
  <1>3. ASSUME NEW j \in 1..Len(waiters)
        PROVE  waiters[j] \in Server!Waiters /\ waiters[j].call \in Calls
    <2>1. waiters[j] \in Server!Waiters
      BY <1>1, ElementOfSeq
    <2>2. QED
      BY <2>1 DEF Server!Waiters
  <1>4. QED
    BY <1>1, <1>2, <1>3

(* Types are kept when a call sends a command,                             *)
LEMMA SendTyped ==
  ASSUME TypeOK, NEW c, NEW k, NEW queue, Sending(c, k, queue)
  PROVE  TypeOK'
  <1> DEFINE plan == Steps(Call(c))
             step == plan[k]
             cmd  == Command(step)
             types == Awaits(step.type)
  <1>1. /\ c \in Calls /\ step \in SentSteps /\ SendAndWait(c, step, queue)
        /\ plan \in Seq(SentSteps) /\ k \in 1..Len(plan)
        /\ queue \in Seq(Server!Outcomes)
    BY ElementOfSeq DEF Sending
  <1>2. /\ steps' = [steps EXCEPT ![c] = SubSeq(plan, k + 1, Len(plan))]
        /\ outcome' = [outcome EXCEPT ![c] = "running"]
        /\ lastCrankAngle' = lastCrankAngle /\ todo' = todo
        /\ abandoned' = abandoned /\ todo[c] # <<>>
        /\ queryInFlight' \in BOOLEAN /\ frames' \in [Calls -> Nat]
    BY DEF Sending
  <1>3. SubSeq(plan, k + 1, Len(plan)) \in Seq(SentSteps)
    <2>1. k \in 0..Len(plan)
      BY <1>1
    <2>2. QED
      BY <1>1, <2>1, Halves
  <1> HIDE DEF plan, step
  <1>4. /\ cmd \in Game!Commands /\ Written(cmd)
        /\ \/ \E l \in 1..Len(pendingMessages) : Takes(c, types, queue, l)
           \/ Waits(c, types, queue)
        /\ awaited' = [awaited EXCEPT ![c] = cmd]
        /\ socket' = socket /\ parsed' = parsed
    BY <1>1, SendEffect
  <1>5. types \in SUBSET Game!ReplyTypes
    BY <1>1, AwaitsReplies DEF SentSteps
  <1> HIDE DEF cmd, types
  <1>6. Game!TypeOK /\ Server!TypeOK
    BY DEF TypeOK
  <1>7. Game!TypeOK'
    <2>1. toGame' \in Seq(Game!Commands) /\ issued' \in Nat
      <3>1. toGame \in Seq(Game!Commands) /\ issued \in Nat
        BY <1>6 DEF Game!TypeOK
      <3>2. Append(toGame, cmd) \in Seq(Game!Commands)
        BY <1>4, <3>1, AppendedElements
      <3>3. \/ toGame' = Append(toGame, cmd) /\ issued' = issued + 1
            \/ toGame' = toGame /\ issued' = issued
        BY <1>4 DEF Written
      <3>4. QED
        BY <3>1, <3>2, <3>3
    <2>2. QED
      BY <1>4, <1>6, <2>1 DEF Written, Game!TypeOK
  <1>8. Server!TypeOK'
    <2>1. toRunner' = toRunner
      BY <1>4 DEF Written
    <2>2. CASE Waits(c, types, queue)
      <3>1. [call |-> c, types |-> types] \in Server!Waiters
        BY <1>1, <1>5 DEF Server!Waiters
      <3>2. waiters' \in Seq(Server!Waiters)
        BY <1>6, <2>2, <3>1, AppendProperties DEF Waits, Server!TypeOK
      <3>3. QED
        BY <1>1, <1>4, <1>6, <2>1, <2>2, <3>2 DEF Waits, Server!TypeOK
    <2>3. ASSUME NEW l \in 1..Len(pendingMessages), Takes(c, types, queue, l)
          PROVE  Server!TypeOK'
      <3>1. pendingMessages \in Seq(Server!Messages)
        BY <1>6 DEF Server!TypeOK
      <3>2. /\ pendingMessages[l] \in Server!Messages
            /\ RemoveAt(pendingMessages, l) \in Seq(Server!Messages)
        BY <3>1, ElementOfSeq, Removal
      <3>3. [call |-> c, result |-> pendingMessages[l]] \in Server!Outcomes
        BY <1>1, <3>2 DEF Server!Outcomes
      <3>4. settled' \in Seq(Server!Outcomes)
        BY <1>1, <2>3, <3>3, AppendProperties DEF Takes
      <3>5. QED
        BY <1>4, <1>6, <2>1, <2>3, <3>2, <3>4 DEF Takes, Server!TypeOK
    <2>4. QED
      BY <1>4, <2>2, <2>3
  <1>9. QED
    BY <1>1, <1>2, <1>3, <1>4, <1>7, <1>8
       DEF TypeOK, CommandOrNothing, CallResults, plan

(* when a call ends,                                                       *)
LEMMA EndTyped ==
  ASSUME TypeOK, TodoInv, NEW i, NEW c, Ending(i, c)
  PROVE  TypeOK'
  <1>1. /\ c \in Calls /\ i \in 1..Len(settled) /\ todo[c] # <<>>
        /\ \E how \in {"resolved", "rejected"} :
             outcome' = [outcome EXCEPT ![c] = how]
        /\ todo' = [todo EXCEPT ![c] = Tail(todo[c])]
        /\ steps' = [steps EXCEPT ![c] = <<>>]
        /\ settled' = RemoveAt(settled, i)
        /\ queryInFlight' = (queryInFlight /\ Call(c).op # "queryState")
        /\ lastCrankAngle' \in Int
        /\ UNCHANGED <<gameVars, toRunner, socket, parsed, pendingMessages,
                       waiters, handed, awaited, frames, abandoned>>
    BY DEF Ending
  <1>2. Game!TypeOK'
    BY <1>1 DEF TypeOK, Game!TypeOK, gameVars
  <1>3. Server!TypeOK'
    <2>1. settled \in Seq(Server!Outcomes)
      BY DEF TypeOK, Server!TypeOK
    <2>2. RemoveAt(settled, i) \in Seq(Server!Outcomes)
      BY <1>1, <2>1, Removal
    <2>3. QED
      BY <1>1, <2>2 DEF TypeOK, Server!TypeOK
  <1>4. todo' \in [Calls -> Seq(APICalls)]
    BY <1>1, FirstCall DEF TypeOK
  <1>5. steps' \in [Calls -> Seq(SentSteps)]
    BY <1>1 DEF TypeOK
  <1>6. outcome' \in [Calls -> CallResults]
    BY <1>1 DEF TypeOK, CallResults
  <1>7. \A d \in Calls : outcome'[d] = "running" => todo'[d] # <<>>
    BY <1>1 DEF TypeOK
  <1>8. QED
    BY <1>1, <1>2, <1>3, <1>4, <1>5, <1>6, <1>7
       DEF TypeOK, CommandOrNothing, gameVars

(* A message reaches a waiter, or is kept.                                 *)
LEMMA DeliverTyped ==
  ASSUME TypeOK, DeliverNext
  PROVE  TypeOK'
  <1>1. /\ parsed # <<>> /\ parsed' = Tail(parsed)
        /\ (\E k \in 1..Len(waiters) : Delivers(k)) \/ Keeps
        /\ socket' = socket /\ toRunner' = toRunner
        /\ UNCHANGED <<gameVars, runnerVars>>
    BY DeliverEffect
  <1>2. /\ parsed \in Seq(Server!Messages)
        /\ pendingMessages \in Seq(Server!Messages)
        /\ waiters \in Seq(Server!Waiters) /\ settled \in Seq(Server!Outcomes)
        /\ handed \in SUBSET Server!Messages
    BY DEF TypeOK, Server!TypeOK
  <1>3. Head(parsed) \in Server!Messages /\ Tail(parsed) \in Seq(Server!Messages)
    BY <1>1, <1>2, TailElements
  <1>4. Game!TypeOK'
    BY <1>1 DEF TypeOK, Game!TypeOK, gameVars
  <1>5. Server!TypeOK'
    <2>1. CASE Keeps
      <3>1. pendingMessages' \in Seq(Server!Messages)
        BY <1>2, <1>3, <2>1, AppendedElements DEF Keeps
      <3>2. QED
        BY <1>1, <1>3, <2>1, <3>1 DEF Keeps, TypeOK, Server!TypeOK
    <2>2. ASSUME NEW k \in 1..Len(waiters), Delivers(k)
          PROVE  Server!TypeOK'
      <3>1. waiters[k] \in Server!Waiters /\ waiters' \in Seq(Server!Waiters)
        BY <1>2, <2>2, ElementOfSeq, Removal DEF Delivers
      <3>2. [call |-> waiters[k].call, result |-> Head(parsed)]
              \in Server!Outcomes
        BY <1>3, <3>1 DEF Server!Outcomes, Server!Waiters
      <3>3. settled' \in Seq(Server!Outcomes)
        BY <1>2, <2>2, <3>2, AppendedElements DEF Delivers
      <3>4. QED
        BY <1>1, <1>2, <1>3, <2>2, <3>1, <3>3 DEF Delivers, TypeOK, Server!TypeOK
    <2>3. QED
      BY <1>1, <2>1, <2>2
  <1>6. QED
    BY <1>1, <1>4, <1>5
       DEF TypeOK, CommandOrNothing, runnerVars, gameVars

(* when a chunk arrives,                                                   *)
LEMMA ArriveTyped ==
  ASSUME TypeOK, NEW n \in 1..Len(toRunner), DataArrives(n)
  PROVE  TypeOK'
  <1>1. /\ parsed' = SubSeq(toRunner, 1, n)
        /\ toRunner' = SubSeq(toRunner, n + 1, Len(toRunner))
        /\ UNCHANGED <<socket, pendingMessages, waiters, settled, handed,
                       gameVars, runnerVars>>
    BY DEF DataArrives, Server!OnData
  <1>2. toRunner \in Seq(Server!Messages) /\ toRunner \in Seq(Game!Replies)
    BY DEF TypeOK, Server!TypeOK, Game!TypeOK
  <1>3. n \in 0..Len(toRunner)
    BY <1>2, LenProperties
  <1>4. parsed' \in Seq(Server!Messages) /\ toRunner' \in Seq(Server!Messages)
    BY <1>1, <1>2, <1>3, Halves
  <1>5. toRunner' \in Seq(Game!Replies)
    BY <1>1, <1>2, <1>3, Halves
  <1>6. Game!TypeOK'
    BY <1>1, <1>5 DEF TypeOK, Game!TypeOK, gameVars
  <1>7. Server!TypeOK'
    BY <1>1, <1>4 DEF TypeOK, Server!TypeOK
  <1>8. QED
    BY <1>1, <1>6, <1>7 DEF TypeOK, CommandOrNothing, runnerVars, gameVars

(* when a timer fires,                                                     *)
LEMMA TimerTyped ==
  ASSUME TypeOK, NEW i \in 1..Len(waiters), TimerFires(i),
         awaited[waiters[i].call] \in Game!Commands
  PROVE  TypeOK'
  <1>1. /\ waiters' = RemoveAt(waiters, i)
        /\ settled' = Append(settled,
             [call |-> waiters[i].call, result |-> Server!TimedOut])
        /\ UNCHANGED <<socket, toRunner, parsed, pendingMessages, handed>>
        /\ abandoned' = abandoned \cup {awaited[waiters[i].call]}
        /\ UNCHANGED <<gameVars, lastCrankAngle, queryInFlight, todo, steps,
                       awaited, outcome, frames>>
    BY DEF TimerFires, Server!Timeout, Server!Settlement, Server!RemoveAt,
           RemoveAt
  <1>2. waiters \in Seq(Server!Waiters) /\ settled \in Seq(Server!Outcomes)
    BY DEF TypeOK, Server!TypeOK
  <1>3. waiters[i] \in Server!Waiters /\ waiters' \in Seq(Server!Waiters)
    BY <1>1, <1>2, ElementOfSeq, Removal
  <1>4. [call |-> waiters[i].call, result |-> Server!TimedOut]
          \in Server!Outcomes
    BY <1>3 DEF Server!Outcomes, Server!Waiters
  <1>5. settled' \in Seq(Server!Outcomes)
    BY <1>1, <1>2, <1>4, AppendedElements
  <1>6. Game!TypeOK'
    BY <1>1 DEF TypeOK, Game!TypeOK, gameVars
  <1>7. Server!TypeOK'
    BY <1>1, <1>3, <1>5 DEF TypeOK, Server!TypeOK
  <1>8. abandoned' \in SUBSET Game!Commands
    BY <1>1 DEF TypeOK
  <1>9. QED
    BY <1>1, <1>6, <1>7, <1>8 DEF TypeOK, CommandOrNothing, gameVars

(* A frame takes a snapshot of the buttons.                                *)
LEMMA SnapshotTyped ==
  ASSUME TypeOK, Game!SnapshotButtons({}), Game!OweEdges,
         injected_buttons' \in SUBSET Buttons
  PROVE  /\ prev_injected_buttons' \in SUBSET Buttons
         /\ snapshot_current' \in SUBSET Buttons
         /\ snapshot_pushed' \in SUBSET Buttons
         /\ snapshot_released' \in SUBSET Buttons
         /\ real_buttons' \in SUBSET Buttons /\ snapshotted' \in BOOLEAN
         /\ owed_push' \in SUBSET Buttons /\ owed_release' \in SUBSET Buttons
  <1>1. /\ injected_buttons \in SUBSET Buttons
        /\ prev_injected_buttons \in SUBSET Buttons
        /\ real_buttons \in SUBSET Buttons
        /\ owed_push \in SUBSET Buttons /\ owed_release \in SUBSET Buttons
    BY DEF TypeOK, Game!TypeOK
  <1>2. /\ prev_injected_buttons' \in SUBSET Buttons
        /\ snapshot_current' \in SUBSET Buttons
        /\ snapshot_pushed' \in SUBSET Buttons
        /\ snapshot_released' \in SUBSET Buttons
        /\ real_buttons' \in SUBSET Buttons /\ snapshotted' \in BOOLEAN
    BY <1>1 DEF Game!SnapshotButtons
  <1>3. owed_push' \in SUBSET Buttons /\ owed_release' \in SUBSET Buttons
    BY <1>1 DEF Game!OweEdges
  <1>4. QED
    BY <1>2, <1>3

(* when a command is dispatched,                                           *)
LEMMA DispatchTyped ==
  ASSUME TypeOK, NEW m \in Game!Commands, Game!DispatchCommand(m)
  PROVE  /\ toRunner' \in Seq(Game!Replies) /\ ignored' \in SUBSET Nat
         /\ injected_buttons' \in SUBSET Buttons /\ injected_crank' \in Int
  <1>1. /\ toRunner \in Seq(Game!Replies) /\ ignored \in SUBSET Nat
        /\ injected_buttons \in SUBSET Buttons /\ injected_crank \in Int
        /\ link \in BOOLEAN
    BY DEF TypeOK, Game!TypeOK
  <1>2. /\ m.tag \in Nat /\ m.buttons \in SUBSET Buttons /\ m.crank \in Int
        /\ m.type \in Game!CommandTypes
    BY DEF Game!Commands
  <1>3. ASSUME NEW type \in Game!ReplyTypes, Game!SendMessage(type, m.tag)
        PROVE  toRunner' \in Seq(Game!Replies)
    <2>1. [type |-> type, tag |-> m.tag] \in Game!Replies
      BY <1>2 DEF Game!Replies
    <2>2. Append(toRunner, [type |-> type, tag |-> m.tag]) \in Seq(Game!Replies)
      BY <1>1, <2>1, AppendedElements
    <2>3. QED
      BY <1>1, <1>3, <2>2 DEF Game!SendMessage
  <1>4. CASE m.type = "PING"
    BY <1>1, <1>3, <1>4 DEF Game!DispatchCommand, Game!HandlePing,
       Game!ReplyTypes, Game!inputVars
  <1>5. CASE m.type = "CAPTURE_FRAME"
    BY <1>1, <1>3, <1>5 DEF Game!DispatchCommand, Game!HandleCaptureFrame,
       Game!ReplyTypes, Game!inputVars
  <1>6. CASE m.type = "INJECT_INPUT"
    BY <1>1, <1>2, <1>3, <1>6 DEF Game!DispatchCommand,
       Game!HandleInjectInput, Game!ReplyTypes, Game!inputVars
  <1>7. CASE m.type = "QUERY_STATE"
    BY <1>1, <1>3, <1>7 DEF Game!DispatchCommand, Game!HandleQueryState,
       Game!ReplyTypes, Game!inputVars
  <1>8. CASE m.type = "RELEASE_INPUT"
    BY <1>1, <1>3, <1>8, SessionAssumption DEF Game!DispatchCommand,
       Game!HandleReleaseInput, Game!ReplyTypes
  <1>9. CASE m.type = "UNKNOWN"
    BY <1>1, <1>2, <1>9 DEF Game!DispatchCommand, Game!inputVars
  <1>10. QED
    BY <1>2, <1>4, <1>5, <1>6, <1>7, <1>8, <1>9 DEF Game!CommandTypes

(* through a whole frame,                                                  *)
LEMMA FrameTyped ==
  ASSUME TypeOK, NEW n \in 0..Len(toGame), Frame(n)
  PROVE  TypeOK'
  <1> DEFINE front == SubSeq(toGame, 1, n)
             buf   == recv_buf \o front
  <1>1. /\ Game!SnapshotButtons({}) /\ Game!OweEdges
        /\ Game!ProcessOneCommand(buf)
        /\ toGame' = SubSeq(toGame, n + 1, Len(toGame))
        /\ UNCHANGED <<conn_state, access_pending, open_pending, link, issued>>
    BY DEF Frame, Game!UpdateConnected, Game!connVars
  <1>2. /\ recv_buf \in Seq(Game!Commands) /\ toGame \in Seq(Game!Commands)
        /\ toRunner \in Seq(Game!Replies) /\ ignored \in SUBSET Nat
        /\ injected_buttons \in SUBSET Buttons /\ injected_crank \in Int
    BY DEF TypeOK, Game!TypeOK
  <1>3. /\ front \in Seq(Game!Commands)
        /\ SubSeq(toGame, n + 1, Len(toGame)) \in Seq(Game!Commands)
    BY <1>2, Halves
  <1> HIDE DEF front
  <1>4. buf \in Seq(Game!Commands)
    BY <1>2, <1>3, Joined
  <1> HIDE DEF buf
  <1>5. /\ recv_buf' \in Seq(Game!Commands)
        /\ toRunner' \in Seq(Game!Replies) /\ ignored' \in SUBSET Nat
        /\ injected_buttons' \in SUBSET Buttons /\ injected_crank' \in Int
    <2>1. CASE /\ buf = <<>> /\ recv_buf' = buf
               /\ UNCHANGED <<Game!inputVars, Game!replyVars>>
      BY <1>2, <1>4, <2>1 DEF Game!inputVars, Game!replyVars
    <2>2. CASE /\ buf # <<>> /\ recv_buf' = Tail(buf)
               /\ Game!DispatchCommand(Head(buf))
      <3>1. Head(buf) \in Game!Commands /\ Tail(buf) \in Seq(Game!Commands)
        BY <1>4, <2>2, TailElements
      <3>2. QED
        BY <2>2, <3>1, DispatchTyped
    <2>3. QED
      BY <1>1, <2>1, <2>2 DEF Game!ProcessOneCommand
  <1>6. /\ prev_injected_buttons' \in SUBSET Buttons
        /\ snapshot_current' \in SUBSET Buttons
        /\ snapshot_pushed' \in SUBSET Buttons
        /\ snapshot_released' \in SUBSET Buttons
        /\ real_buttons' \in SUBSET Buttons /\ snapshotted' \in BOOLEAN
        /\ owed_push' \in SUBSET Buttons /\ owed_release' \in SUBSET Buttons
    BY <1>1, <1>5, SnapshotTyped
  <1>7. Game!TypeOK'
    BY <1>1, <1>3, <1>5, <1>6 DEF TypeOK, Game!TypeOK
  <1>8. UNCHANGED <<serverVars, lastCrankAngle, queryInFlight, todo, steps,
                    awaited, outcome, abandoned>>
    BY DEF Frame
  <1>9. Server!TypeOK'
    <2>1. toRunner' \in Seq(Server!Messages)
      BY <1>5 DEF Game!Replies, Server!Messages
    <2>2. QED
      BY <1>8, <2>1 DEF TypeOK, Server!TypeOK, serverVars
  <1>10. frames' \in [Calls -> Nat]
    BY DEF Frame, TypeOK
  <1>11. QED
    BY <1>7, <1>8, <1>9, <1>10 DEF TypeOK, CommandOrNothing

(* and on a frame that finds the connection lost.                          *)
LEMMA LostTyped ==
  ASSUME TypeOK, FrameLost
  PROVE  TypeOK'
  <1>1. /\ Game!SnapshotButtons({}) /\ Game!OweEdges
        /\ conn_state' = "IDLE" /\ recv_buf' = <<>>
        /\ UNCHANGED <<access_pending, open_pending, link, injected_buttons,
                       injected_crank, toGame, issued, toRunner, ignored>>
        /\ UNCHANGED <<serverVars, runnerVars>>
    BY DEF FrameLost, Game!UpdateLost, Game!inputVars, Game!replyVars
  <1>2. injected_buttons' \in SUBSET Buttons
    BY <1>1 DEF TypeOK, Game!TypeOK
  <1>3. /\ prev_injected_buttons' \in SUBSET Buttons
        /\ snapshot_current' \in SUBSET Buttons
        /\ snapshot_pushed' \in SUBSET Buttons
        /\ snapshot_released' \in SUBSET Buttons
        /\ real_buttons' \in SUBSET Buttons /\ snapshotted' \in BOOLEAN
        /\ owed_push' \in SUBSET Buttons /\ owed_release' \in SUBSET Buttons
    BY <1>1, <1>2, SnapshotTyped
  <1>4. recv_buf' \in Seq(Game!Commands)
    BY <1>1
  <1>5. Game!TypeOK'
    BY <1>1, <1>3, <1>4 DEF TypeOK, Game!TypeOK, Game!ConnStates
  <1>6. Server!TypeOK'
    BY <1>1 DEF TypeOK, Server!TypeOK, serverVars
  <1>7. QED
    BY <1>1, <1>5, <1>6 DEF TypeOK, CommandOrNothing, runnerVars

(* What a running call awaits is the reply to a command.                   *)
LEMMA AwaitsCommand ==
  ASSUME Structure, NEW c \in Calls, Running(c)
  PROVE  /\ awaited[c] \in Game!Commands
         /\ awaited[c].type \in Game!CommandTypes \ {"UNKNOWN"}
         /\ todo[c] # <<>> /\ Call(c) \in APICalls
         /\ Call(c).op = "waitFrames" => Call(c).n > 0
         /\ Steps(Call(c)) \in Seq(SentSteps)
         /\ At(c) \in 1..Len(Steps(Call(c)))
  <1> DEFINE plan == Steps(Call(c))
  <1>1. TypeOK /\ TodoInv /\ ProgressInv
    BY DEF Structure
  <1>2. todo[c] # <<>>
    BY <1>1 DEF TypeOK, Running
  <1>3. Call(c) \in APICalls /\ (Call(c).op = "waitFrames" => Call(c).n > 0)
    BY <1>1, <1>2, FirstCall
  <1>4. plan \in Seq(SentSteps)
    BY <1>1, <1>3, PlanShape DEF TypeOK
  <1>5. At(c) \in 1..Len(plan) /\ Sends(awaited[c], plan[At(c)])
    BY <1>1 DEF ProgressInv
  <1> HIDE DEF plan
  <1>6. plan[At(c)] \in SentSteps
    BY <1>4, <1>5, ElementOfSeq
  <1>7. awaited[c].type \in Game!CommandTypes \ {"UNKNOWN"}
    BY <1>5, <1>6 DEF Sends, SentSteps
  <1>8. awaited[c] \in Game!Commands
    <2>1. awaited[c] \in CommandOrNothing /\ awaited[c] # Nothing
      BY <1>1, <1>7 DEF TypeOK, Nothing, Game!CommandTypes
    <2>2. QED
      BY <2>1 DEF CommandOrNothing
  <1>9. QED
    BY <1>2, <1>3, <1>4, <1>5, <1>7, <1>8 DEF plan

-----------------------------------------------------------------------------
(* The shape is kept.                                                      *)

(* Only a call that sends input looks at the crank.                        *)
LEMMA SameSteps ==
  ASSUME NEW c \in Calls, todo'[c] = todo[c],
         lastCrankAngle' = lastCrankAngle \/ Call(c).op \notin InputOps
  PROVE  Steps(Call(c))' = Steps(Call(c))
  <1>1. Call(c)' = Call(c)
    BY DEF Call
  <1>2. CASE lastCrankAngle' = lastCrankAngle
    BY <1>1, <1>2 DEF Steps, TapSteps, CrankBase
  <1>3. CASE Call(c).op \notin InputOps
    BY <1>1, <1>3 DEF Steps, InputOps
  <1>4. QED
    BY <1>2, <1>3

(* A call that sends keeps the structure of calls and promises,            *)
LEMMA SendKeepsShape ==
  ASSUME Structure, NEW c, NEW k, NEW queue, Sending(c, k, queue)
  PROVE  Structure'
  <1> DEFINE plan == Steps(Call(c))
             types == Awaits(plan[k].type)
  <1>1. /\ c \in Calls /\ todo[c] # <<>> /\ k \in 1..Len(plan)
        /\ plan \in Seq(SentSteps)
        /\ SendAndWait(c, plan[k], queue)
        /\ steps' = [steps EXCEPT ![c] = SubSeq(plan, k + 1, Len(plan))]
        /\ outcome' = [outcome EXCEPT ![c] = "running"]
        /\ lastCrankAngle' = lastCrankAngle /\ todo' = todo
        /\ queue \in Seq(Server!Outcomes)
        /\ \A i \in 1..Len(queue) :
             queue[i].call # c /\ \E j \in 1..Len(settled) : queue[i] = settled[j]
        /\ \A i, j \in 1..Len(queue) : queue[i].call = queue[j].call => i = j
        /\ \A j \in 1..Len(waiters) : waiters[j].call # c
    BY DEF Sending
  <1>2. TypeOK /\ TodoInv /\ CallInv /\ ProgressInv /\ TypeOK'
    BY SendTyped DEF Structure
  <1>3. TodoInv'
    BY <1>1, <1>2 DEF TodoInv, InputFlows
  <1> HIDE DEF plan
  <1>4. plan[k] \in SentSteps
    BY <1>1, ElementOfSeq
  <1>5. /\ Sends(Command(plan[k]), plan[k])
        /\ \/ \E l \in 1..Len(pendingMessages) : Takes(c, types, queue, l)
           \/ Waits(c, types, queue)
        /\ awaited' = [awaited EXCEPT ![c] = Command(plan[k])]
    BY <1>1, <1>2, <1>4, SendEffect
  <1> HIDE DEF types
  <1>6. /\ \A d \in Calls :
             outcome'[d] = "running" <=> outcome[d] = "running" \/ d = c
        /\ \A j \in 1..Len(settled) : settled[j].call \in Calls
        /\ \A j \in 1..Len(waiters) : waiters[j].call \in Calls
    BY <1>1, <1>2, QueueTypes DEF TypeOK
  <1>7. CallInv'
    <2> \A i \in 1..Len(queue) :
          /\ queue[i].call \in Calls /\ outcome[queue[i].call] = "running"
          /\ \A j \in 1..Len(waiters) : waiters[j].call # queue[i].call
      BY <1>1, <1>2, <1>6 DEF CallInv, Running
    <2>1. CASE Waits(c, types, queue)
      <3>1. /\ waiters' = Append(waiters, [call |-> c, types |-> types])
            /\ settled' = queue
        BY <2>1 DEF Waits
      <3>2. /\ Len(waiters) \in Nat /\ Len(waiters') = Len(waiters) + 1
            /\ waiters'[Len(waiters) + 1].call = c
            /\ \A j \in 1..Len(waiters) : waiters'[j] = waiters[j]
            /\ 1..Len(waiters') = 1..Len(waiters) \cup {Len(waiters) + 1}
        <4>1. waiters \in Seq(Server!Waiters)
          BY <1>2 DEF TypeOK, Server!TypeOK
        <4>2. [call |-> c, types |-> types] \in Server!Waiters
          BY <1>1, <1>4, AwaitsReplies DEF Server!Waiters, SentSteps, types
        <4>3. QED
          BY <3>1, <4>1, <4>2, Appended
      <3>3. /\ \A i \in 1..Len(waiters') :
                 outcome'[waiters'[i].call] = "running"
            /\ \A i \in 1..Len(settled') :
                 outcome'[settled'[i].call] = "running"
        BY <1>1, <1>2, <1>6, <3>1, <3>2 DEF CallInv, Running
      <3>4. \A i, j \in 1..Len(waiters') :
              waiters'[i].call = waiters'[j].call => i = j
        BY <1>1, <1>2, <3>2 DEF CallInv
      <3>5. \A i \in 1..Len(waiters'), j \in 1..Len(settled') :
              waiters'[i].call # settled'[j].call
        BY <1>1, <1>2, <3>1, <3>2 DEF CallInv
      <3>6. QED
        BY <1>1, <3>1, <3>3, <3>4, <3>5 DEF CallInv, Running
    <2>2. ASSUME NEW l \in 1..Len(pendingMessages), Takes(c, types, queue, l)
          PROVE  CallInv'
      <3> DEFINE e == [call |-> c, result |-> pendingMessages[l]]
      <3>1. waiters' = waiters /\ settled' = Append(queue, e) /\ e.call = c
        BY <2>2 DEF Takes
      <3>2. e \in Server!Outcomes
        <4>1. pendingMessages \in Seq(Server!Messages)
          BY <1>2 DEF TypeOK, Server!TypeOK
        <4>2. pendingMessages[l] \in Server!Messages
          BY <4>1, ElementOfSeq
        <4>3. QED
          BY <1>1, <4>2 DEF Server!Outcomes
      <3> HIDE DEF e
      <3>3. /\ Len(queue) \in Nat /\ Len(settled') = Len(queue) + 1
            /\ settled'[Len(queue) + 1] = e
            /\ \A j \in 1..Len(queue) : settled'[j] = queue[j]
            /\ 1..Len(settled') = 1..Len(queue) \cup {Len(queue) + 1}
        BY <1>1, <3>1, <3>2, Appended
      <3>4. /\ \A i \in 1..Len(waiters') :
                 outcome'[waiters'[i].call] = "running"
            /\ \A i \in 1..Len(settled') :
                 outcome'[settled'[i].call] = "running"
        BY <1>1, <1>2, <1>6, <3>1, <3>3 DEF CallInv, Running
      <3>5. \A i, j \in 1..Len(settled') :
              settled'[i].call = settled'[j].call => i = j
        BY <1>1, <3>1, <3>3
      <3>6. \A i \in 1..Len(waiters'), j \in 1..Len(settled') :
              waiters'[i].call # settled'[j].call
        BY <1>1, <1>2, <3>1, <3>3 DEF CallInv
      <3>7. QED
        BY <1>2, <3>1, <3>4, <3>5, <3>6 DEF CallInv, Running
    <2>3. QED
      BY <1>5, <2>1, <2>2

  <1>8. ProgressInv'
    <2>1. SUFFICES ASSUME NEW d \in Calls, Running(d)'
                   PROVE  LET p == Steps(Call(d))'
                          IN /\ At(d)' \in 1..Len(p)
                             /\ Sends(awaited'[d], p[At(d)'])
                             /\ steps'[d] = SubSeq(p, At(d)' + 1, Len(p))
      BY DEF ProgressInv, Sends
    <2>2. Steps(Call(d))' = Steps(Call(d))
      BY <1>1, SameSteps
    <2>3. At(d)' = Len(Steps(Call(d))) - Len(steps'[d])
      BY <2>2 DEF At
    <2>4. CASE d = c
      <3>1. /\ steps'[d] = SubSeq(plan, k + 1, Len(plan))
            /\ awaited'[d] = Command(plan[k])
        BY <1>1, <1>2, <1>5, <2>4 DEF TypeOK
      <3>2. At(d)' = k
        BY <1>1, <2>3, <2>4, <3>1, StepsLeft DEF plan
      <3>3. QED
        BY <1>1, <1>5, <2>2, <2>4, <3>1, <3>2 DEF plan
    <2>5. CASE d # c
      <3>1. steps'[d] = steps[d] /\ awaited'[d] = awaited[d] /\ Running(d)
        BY <1>1, <1>2, <1>5, <1>6, <2>1, <2>5 DEF TypeOK, Running
      <3>2. At(d)' = At(d)
        BY <2>3, <3>1 DEF At
      <3>3. QED
        BY <1>2, <2>2, <3>1, <3>2 DEF ProgressInv
    <2>6. QED
      BY <2>4, <2>5
  <1>9. QED
    BY <1>2, <1>3, <1>7, <1>8 DEF Structure

(* A call leaves the script; the others have still to send what they had.  *)
LEMMA DroppedCall ==
  ASSUME TypeOK, TodoInv, ProgressInv, NEW c \in Calls, todo[c] # <<>>,
         todo' = [todo EXCEPT ![c] = Tail(todo[c])],
         \A d \in Calls :
           outcome'[d] = "running" <=> outcome[d] = "running" /\ d # c,
         \A d \in Calls :
           d # c => steps'[d] = steps[d] /\ awaited'[d] = awaited[d],
         lastCrankAngle' # lastCrankAngle => Call(c).op \in InputOps
  PROVE  TodoInv' /\ ProgressInv'
  <1>1. TodoInv'
    <2>1. /\ \A k \in 1..Len(Tail(todo[c])) :
               k + 1 \in 1..Len(todo[c]) /\ Tail(todo[c])[k] = todo[c][k + 1]
      BY FirstCall
    <2>2. /\ \A d \in Calls : d # c => todo'[d] = todo[d]
          /\ todo'[c] = Tail(todo[c])
      BY DEF TypeOK
    <2>3. ASSUME NEW d \in Calls, NEW k \in 1..Len(todo'[d])
          PROVE  \E l \in 1..Len(todo[d]) : todo'[d][k] = todo[d][l]
      BY <2>1, <2>2, <2>3
    <2>4. \A d \in Calls : d \in InputFlows(todo') => d \in InputFlows(todo)
      <3>1. SUFFICES ASSUME NEW d \in Calls, NEW k \in 1..Len(todo'[d]),
                            todo'[d][k].op \in InputOps
                     PROVE  \E l \in 1..Len(todo[d]) : todo[d][l].op \in InputOps
        BY DEF InputFlows
      <3>2. PICK l \in 1..Len(todo[d]) : todo'[d][k] = todo[d][l]
        BY <2>3
      <3>3. QED
        BY <3>1, <3>2
    <2>5. \A d, e \in InputFlows(todo') : d = e
      BY <2>4 DEF InputFlows, TodoInv
    <2>6. \A d \in Calls : \A k \in 1..Len(todo'[d]) :
            /\ todo'[d][k].n < MaxCommands
            /\ todo'[d][k].op = "waitFrames" => todo'[d][k].n > 0
      <3>1. SUFFICES ASSUME NEW d \in Calls, NEW k \in 1..Len(todo'[d])
                     PROVE  /\ todo'[d][k].n < MaxCommands
                            /\ todo'[d][k].op = "waitFrames"
                                 => todo'[d][k].n > 0
        OBVIOUS
      <3>2. PICK l \in 1..Len(todo[d]) : todo'[d][k] = todo[d][l]
        BY <2>3
      <3>3. QED
        BY <3>2 DEF TodoInv
    <2>7. QED
      BY <2>5, <2>6 DEF TodoInv, InputFlows
  <1>2. ProgressInv'
    <2>1. SUFFICES ASSUME NEW d \in Calls, Running(d)'
                   PROVE  LET p == Steps(Call(d))'
                          IN /\ At(d)' \in 1..Len(p)
                             /\ Sends(awaited'[d], p[At(d)'])
                             /\ steps'[d] = SubSeq(p, At(d)' + 1, Len(p))
      BY DEF ProgressInv, Sends
    <2>2. d # c /\ Running(d)
      BY <2>1 DEF Running
    <2>3. /\ todo'[d] = todo[d] /\ steps'[d] = steps[d]
          /\ awaited'[d] = awaited[d]
      BY <2>2 DEF TypeOK
    <2>4. Steps(Call(d))' = Steps(Call(d))
      <3>1. todo[d] # <<>>
        BY <2>2 DEF TypeOK, Running
      <3>2. ~(Call(c).op \in InputOps /\ Call(d).op \in InputOps)
        BY <2>2, <3>1, FirstCall DEF TodoInv
      <3>3. QED
        BY <2>3, <3>2, SameSteps
    <2>5. At(d)' = At(d)
      BY <2>3, <2>4 DEF At
    <2>6. QED
      BY <2>2, <2>3, <2>4, <2>5 DEF ProgressInv
  <1>3. QED
    BY <1>1, <1>2

(* and so does one that ends.                                              *)
LEMMA EndKeepsShape ==
  ASSUME Structure, NEW i \in 1..Len(settled), NEW c, Ending(i, c),
         Resuming(i, c)
  PROVE  Structure'
  <1> DEFINE r == RemoveAt(settled, i)
  <1>1. /\ c \in Calls /\ Running(c) /\ todo[c] # <<>>
        /\ \E how \in {"resolved", "rejected"} :
             outcome' = [outcome EXCEPT ![c] = how]
        /\ todo' = [todo EXCEPT ![c] = Tail(todo[c])]
        /\ steps' = [steps EXCEPT ![c] = <<>>]
        /\ settled' = r /\ waiters' = waiters /\ awaited' = awaited
        /\ lastCrankAngle' # lastCrankAngle => Call(c).op \in InputOps
    BY DEF Ending
  <1>2. TypeOK /\ TodoInv /\ CallInv /\ ProgressInv /\ TypeOK'
    BY EndTyped DEF Structure
  <1>3. \A d \in Calls :
          outcome'[d] = "running" <=> outcome[d] = "running" /\ d # c
    BY <1>1, <1>2 DEF TypeOK
  <1>4. /\ \A k \in 1..Len(r) :
             r[k].call # c /\ \E j \in 1..Len(settled) : r[k] = settled[j]
        /\ \A k, l \in 1..Len(r) : r[k].call = r[l].call => k = l
        /\ \A j \in 1..Len(waiters) : waiters[j].call # c
    BY <1>1, Resumes
  <1> HIDE DEF r
  <1>5. TodoInv' /\ ProgressInv'
    BY <1>1, <1>2, <1>3, DroppedCall DEF TypeOK
  <1>6. CallInv'
    <2>1. \A j \in 1..Len(waiters) : outcome'[waiters[j].call] = "running"
      BY <1>2, <1>3, <1>4, QueueTypes DEF CallInv, Running
    <2>2. ASSUME NEW k \in 1..Len(r)
          PROVE  /\ outcome'[r[k].call] = "running"
                 /\ \A j \in 1..Len(waiters) : waiters[j].call # r[k].call
      <3>1. PICK j \in 1..Len(settled) : r[k] = settled[j]
        BY <1>4
      <3>2. settled[j].call \in Calls /\ outcome[settled[j].call] = "running"
        BY <1>2, QueueTypes DEF CallInv, Running
      <3>3. /\ r[k].call # c /\ r[k].call \in Calls
            /\ outcome[r[k].call] = "running"
        BY <1>4, <3>1, <3>2
      <3>4. outcome'[r[k].call] = "running"
        BY <1>3, <3>3
      <3>5. \A l \in 1..Len(waiters) : waiters[l].call # settled[j].call
        BY <1>2 DEF CallInv
      <3>6. QED
        BY <3>1, <3>4, <3>5
    <2>3. QED
      BY <1>1, <1>2, <1>4, <2>1, <2>2 DEF CallInv, Running
  <1>7. QED
    BY <1>2, <1>5, <1>6 DEF Structure

(* Steps that touch no call change nothing of what calls have to send.     *)
LEMMA PlansKept ==
  ASSUME TodoInv, ProgressInv,
         UNCHANGED <<lastCrankAngle, todo, steps, awaited, outcome>>
  PROVE  TodoInv' /\ ProgressInv'
  <1>1. TodoInv'
    BY DEF TodoInv, InputFlows
  <1>2. SUFFICES ASSUME NEW d \in Calls, Running(d)'
                 PROVE  LET p == Steps(Call(d))'
                        IN /\ At(d)' \in 1..Len(p)
                           /\ Sends(awaited'[d], p[At(d)'])
                           /\ steps'[d] = SubSeq(p, At(d)' + 1, Len(p))
    BY <1>1 DEF ProgressInv, Sends
  <1>3. Steps(Call(d))' = Steps(Call(d))
    BY SameSteps
  <1>4. At(d)' = At(d) /\ Running(d)
    BY <1>2, <1>3 DEF At, Running
  <1>5. QED
    BY <1>3, <1>4 DEF ProgressInv

(* The waiter that a message or its timer takes off the list: its call     *)
(* runs, and is not settled already.                                       *)
LEMMA Unlists ==
  ASSUME Structure, NEW k \in 1..Len(waiters),
         NEW result \in Server!Messages \cup {Server!TimedOut},
         waiters' = RemoveAt(waiters, k), TypeOK',
         settled' = Append(settled, [call |-> waiters[k].call, result |-> result]),
         UNCHANGED <<lastCrankAngle, todo, steps, awaited, outcome>>
  PROVE  Structure'
  <1> DEFINE r == RemoveAt(waiters, k)
             old(j) == IF j < k THEN j ELSE j + 1
             c == waiters[k].call
             e == [call |-> c, result |-> result]
  <1>1. TypeOK /\ TodoInv /\ CallInv /\ ProgressInv
    BY DEF Structure
  <1>2. /\ waiters \in Seq(Server!Waiters) /\ settled \in Seq(Server!Outcomes)
        /\ settled' \in Seq(Server!Outcomes)
    BY <1>1 DEF TypeOK, Server!TypeOK
  <1>3. /\ Len(waiters) \in Nat
        /\ \A j \in 1..Len(r) :
             old(j) \in (1..Len(waiters)) \ {k} /\ r[j] = waiters[old(j)]
        /\ \A j, l \in 1..Len(r) : old(j) = old(l) => j = l
    <2>1. \A j \in 1..Len(r) :
             old(j) \in (1..Len(waiters)) \ {k} /\ r[j] = waiters[old(j)]
      BY <1>2, Survivors
    <2>2. r \in Seq(Server!Waiters)
      BY <1>2, Removal
    <2>3. Len(waiters) \in Nat /\ Len(r) \in Nat
      BY <1>2, <2>2, LenProperties
    <2>4. QED
      BY <2>1, <2>3
  <1> HIDE DEF r, old
  <1>4. /\ Len(settled) \in Nat /\ Len(settled') = Len(settled) + 1
        /\ settled'[Len(settled) + 1] = e
        /\ \A j \in 1..Len(settled) : settled'[j] = settled[j]
        /\ 1..Len(settled') = 1..Len(settled) \cup {Len(settled) + 1}
    <2>1. e \in Server!Outcomes
      BY <1>1, QueueTypes DEF Server!Outcomes
    <2>2. QED
      BY <1>2, <2>1, Appended
  <1>5. e.call = c
    OBVIOUS
  <1>6. \A j \in 1..Len(waiters) : waiters[j].call = c => j = k
    BY <1>1 DEF CallInv
  <1>7. \A j \in 1..Len(settled) : settled[j].call # c
    BY <1>1 DEF CallInv
  <1>8. outcome[c] = "running"
    BY <1>1 DEF CallInv, Running
  <1> HIDE DEF e, c
  <1>9. CallInv'
    <2>1. \A j \in 1..Len(r) : /\ outcome[r[j].call] = "running"
                               /\ r[j].call # c
                               /\ \A l \in 1..Len(settled) :
                                    r[j].call # settled[l].call
      <3>1. SUFFICES ASSUME NEW j \in 1..Len(r)
                     PROVE  /\ outcome[r[j].call] = "running"
                            /\ r[j].call # c
                            /\ \A l \in 1..Len(settled) :
                                 r[j].call # settled[l].call
        OBVIOUS
      <3>2. /\ old(j) \in 1..Len(waiters) /\ old(j) # k
            /\ r[j] = waiters[old(j)]
        BY <1>3
      <3>3. waiters[old(j)].call # c
        BY <1>6, <3>2
      <3>4. QED
        BY <1>1, <3>2, <3>3 DEF CallInv, Running
    <2>2. ASSUME NEW j \in 1..Len(r), NEW l \in 1..Len(r),
                 r[j].call = r[l].call
          PROVE  j = l
      <3>1. /\ old(j) \in 1..Len(waiters) /\ r[j] = waiters[old(j)]
            /\ old(l) \in 1..Len(waiters) /\ r[l] = waiters[old(l)]
        BY <1>3
      <3>2. old(j) = old(l)
        BY <1>1, <2>2, <3>1 DEF CallInv
      <3>3. QED
        BY <1>3, <3>2
    <2>3. \A i, j \in 1..Len(settled') :
            settled'[i].call = settled'[j].call => i = j
      BY <1>1, <1>4, <1>5, <1>7 DEF CallInv
    <2>4. \A i \in 1..Len(settled') : outcome[settled'[i].call] = "running"
      BY <1>1, <1>4, <1>5, <1>8 DEF CallInv, Running
    <2>5. \A i \in 1..Len(r), j \in 1..Len(settled') :
            r[i].call # settled'[j].call
      BY <1>4, <1>5, <2>1
    <2>6. waiters' = r /\ outcome' = outcome
      BY DEF r
    <2>7. QED
      BY ONLY <2>1, <2>2, <2>3, <2>4, <2>5, <2>6 DEF CallInv, Running
  <1>10. QED
    BY <1>1, <1>9, PlansKept DEF Structure

(* Nothing happens to the calls.                                           *)
LEMMA Bystanders ==
  ASSUME Structure, TypeOK',
         UNCHANGED <<waiters, settled, lastCrankAngle, todo, steps, awaited,
                     outcome>>
  PROVE  Structure'
  <1>1. CallInv'
    BY DEF Structure, CallInv, Running
  <1>2. QED
    BY <1>1, PlansKept DEF Structure

(* At first no call runs.                                                  *)
LEMMA ShapeAtFirst ==
  ASSUME Init
  PROVE  Structure
  <1>1. /\ todo \in [Calls -> Seq(APICalls)]
        /\ \A c \in Calls : \A i \in 1..Len(todo[c]) :
             /\ todo[c][i].n < MaxCommands
             /\ todo[c][i].op = "waitFrames" => todo[c][i].n > 0
    BY SessionAssumption DEF Init
  <1>2. TodoInv
    BY <1>1, OneDriver DEF Init, TodoInv
  <1>3. Game!TypeOK
    <2>1. /\ toGame \in Seq(Game!Commands) /\ recv_buf \in Seq(Game!Commands)
          /\ toRunner \in Seq(Game!Replies)
      BY DEF Init
    <2>2. injected_crank \in Int /\ issued \in Nat
      BY SessionAssumption DEF Init
    <2>3. QED
      BY <2>1, <2>2 DEF Init, Game!TypeOK, Game!ConnStates
  <1>4. Server!TypeOK
    BY DEF Init, Server!TypeOK
  <1>5. TypeOK
    <2>1. steps \in [Calls -> Seq(SentSteps)]
      BY DEF Init
    <2>2. awaited \in [Calls -> CommandOrNothing]
      BY DEF Init, CommandOrNothing
    <2>3. outcome \in [Calls -> CallResults] /\ frames \in [Calls -> Nat]
      BY DEF Init, CallResults
    <2>4. \A c \in Calls : outcome[c] # "running"
      BY DEF Init
    <2>5. lastCrankAngle \in Int /\ queryInFlight \in BOOLEAN
            /\ abandoned \in SUBSET Game!Commands
      BY SessionAssumption DEF Init
    <2>6. QED
      BY <1>1, <1>3, <1>4, <2>1, <2>2, <2>3, <2>4, <2>5 DEF TypeOK
  <1>6. CallInv
    BY DEF Init, CallInv
  <1>7. ProgressInv
    BY DEF Init, ProgressInv, Running
  <1>8. QED
    BY <1>2, <1>5, <1>6, <1>7 DEF Structure

(* Every step keeps the structure.                                         *)
LEMMA ShapeKept ==
  ASSUME Structure, [Next]_vars
  PROVE  Structure'
  <1>1. TypeOK /\ TodoInv /\ CallInv /\ ProgressInv
    BY DEF Structure
  <1>2. ASSUME NEW c \in Calls, Begin(c)
        PROVE  Structure'
    BY <1>2, BeginSends, SendKeepsShape
  <1>3. ASSUME NEW c \in Calls, Refuse(c)
        PROVE  Structure'
    <2>1. /\ outcome' = [outcome EXCEPT ![c] = "rejected"]
          /\ todo' = [todo EXCEPT ![c] = Tail(@)]
          /\ ~Running(c) /\ todo[c] # <<>>
          /\ UNCHANGED <<gameVars, toRunner, serverVars, lastCrankAngle,
                         queryInFlight, steps, awaited, frames, abandoned>>
      BY <1>3 DEF Refuse, Running
    <2>2. Tail(todo[c]) \in Seq(APICalls)
      BY <1>1, <2>1, FirstCall
    <2>3. TypeOK'
      <3>1. Game!TypeOK' /\ Server!TypeOK'
        BY <1>1, <2>1 DEF TypeOK, Game!TypeOK, Server!TypeOK, gameVars, serverVars
      <3>2. QED
        BY <1>1, <2>1, <2>2, <3>1 DEF TypeOK, CommandOrNothing, CallResults
    <2>4. CallInv'
      BY <1>1, <2>1, QueueTypes DEF CallInv, Running, serverVars, TypeOK
    <2>5. TodoInv' /\ ProgressInv'
      <3>1. todo' = [todo EXCEPT ![c] = Tail(todo[c])]
        BY <2>1
      <3>2. \A d \in Calls :
              outcome'[d] = "running" <=> outcome[d] = "running" /\ d # c
        BY <1>1, <2>1 DEF TypeOK, Running
      <3>3. QED
        BY <1>1, <2>1, <3>1, <3>2, DroppedCall
    <2>6. QED
      BY <2>3, <2>4, <2>5 DEF Structure
  <1>4. ASSUME NEW i \in 1..Len(settled), NEW c \in Calls,
               Continue(i, c) \/ Resolve(i, c) \/ Reject(i, c)
        PROVE  Structure'
    <2>1. CASE Continue(i, c)
      BY <2>1, ContinueSends, SendKeepsShape
    <2>2. CASE Resolve(i, c) \/ Reject(i, c)
      BY <2>2, CallEnds, EndKeepsShape DEF Resolve, Reject
    <2>3. QED
      BY <1>4, <2>1, <2>2
  <1>5. ASSUME NEW n \in 1..Len(toRunner), DataArrives(n)
        PROVE  Structure'
    BY <1>1, <1>5, ArriveTyped, Bystanders
       DEF DataArrives, Server!OnData, runnerVars
  <1>6. CASE DeliverNext
    <2>1. /\ TypeOK'
          /\ (\E k \in 1..Len(waiters) : Delivers(k)) \/ Keeps
          /\ UNCHANGED <<lastCrankAngle, todo, steps, awaited, outcome>>
      BY <1>1, <1>6, DeliverTyped, DeliverEffect DEF runnerVars
    <2>2. CASE Keeps
      BY <2>1, <2>2, Bystanders DEF Keeps
    <2>3. ASSUME NEW k \in 1..Len(waiters), Delivers(k)
          PROVE  Structure'
      <3>1. Head(parsed) \in Server!Messages
        <4>1. parsed \in Seq(Server!Messages) /\ parsed # <<>>
          BY <1>1, <1>6 DEF TypeOK, Server!TypeOK, DeliverNext,
             Server!DeliverParsed
        <4>2. QED
          BY <4>1, TailElements
      <3>2. QED
        BY <2>1, <2>3, <3>1, Unlists DEF Delivers
    <2>4. QED
      BY <2>1, <2>2, <2>3
  <1>7. ASSUME NEW i \in 1..Len(waiters), TimerFires(i)
        PROVE  Structure'
    <2>1. awaited[waiters[i].call] \in Game!Commands
      BY <1>1, AwaitsCommand, QueueTypes DEF CallInv
    <2>2. TypeOK'
      BY <1>1, <1>7, <2>1, TimerTyped
    <2>3. /\ waiters' = RemoveAt(waiters, i)
          /\ settled' = Append(settled,
               [call |-> waiters[i].call, result |-> Server!TimedOut])
          /\ UNCHANGED <<lastCrankAngle, todo, steps, awaited, outcome>>
      BY <1>7 DEF TimerFires, Server!Timeout, Server!Settlement,
         Server!RemoveAt, RemoveAt
    <2>4. QED
      BY <2>2, <2>3, Unlists
  <1>8. CASE Close
    <2>1. /\ socket' = FALSE /\ link' = FALSE
          /\ UNCHANGED <<toRunner, parsed, pendingMessages, waiters, settled,
                         handed, runnerVars>>
          /\ UNCHANGED <<conn_state, access_pending, open_pending, toGame,
                 recv_buf, injected_buttons, prev_injected_buttons,
                 injected_crank, snapshot_current, snapshot_pushed,
                 snapshot_released, real_buttons, issued, ignored,
                 snapshotted, owed_push, owed_release>>
      BY <1>8 DEF Close, Server!Close
    <2>2. Game!TypeOK' /\ Server!TypeOK'
      BY <1>1, <2>1 DEF TypeOK, Game!TypeOK, Server!TypeOK
    <2>3. TypeOK'
      BY <1>1, <2>1, <2>2 DEF TypeOK, CommandOrNothing, runnerVars
    <2>4. QED
      BY <2>1, <2>3, Bystanders DEF runnerVars
  <1>9. ASSUME NEW n \in 0..Len(toGame), Frame(n)
        PROVE  Structure'
    BY <1>1, <1>9, FrameTyped, Bystanders DEF Frame, serverVars
  <1>10. CASE FrameLost
    BY <1>1, <1>10, LostTyped, Bystanders DEF FrameLost, serverVars, runnerVars
  <1>11. CASE LoseLink
    <2>1. /\ link' = FALSE
          /\ UNCHANGED <<serverVars, runnerVars, toRunner>>
          /\ UNCHANGED <<conn_state, access_pending, open_pending, toGame,
                 recv_buf, injected_buttons, prev_injected_buttons,
                 injected_crank, snapshot_current, snapshot_pushed,
                 snapshot_released, real_buttons, issued, ignored,
                 snapshotted, owed_push, owed_release>>
      BY <1>11 DEF LoseLink, Game!LoseLink, Game!inputVars, Game!snapVars,
         Game!owedVars, Game!queueVars, Game!replyVars
    <2>2. Game!TypeOK' /\ Server!TypeOK'
      BY <1>1, <2>1 DEF TypeOK, Game!TypeOK, Server!TypeOK, serverVars
    <2>3. TypeOK'
      BY <1>1, <2>1, <2>2 DEF TypeOK, CommandOrNothing, runnerVars
    <2>4. QED
      BY <2>1, <2>3, Bystanders DEF runnerVars, serverVars
  <1>12. CASE UNCHANGED vars
    <2>1. Game!TypeOK' /\ Server!TypeOK'
      BY <1>1, <1>12 DEF TypeOK, Game!TypeOK, Server!TypeOK, vars, gameVars,
         serverVars
    <2>2. TypeOK'
      BY <1>1, <1>12, <2>1 DEF TypeOK, CommandOrNothing, vars, runnerVars
    <2>3. QED
      BY <1>12, <2>2, Bystanders DEF vars, runnerVars, serverVars
  <1>13. QED
    BY <1>2, <1>3, <1>4, <1>5, <1>6, <1>7, <1>8, <1>9, <1>10, <1>11, <1>12
       DEF Next

(* The types of Session: of the game, of the server and of PlaydateGame    *)
(* are right in every session.                                             *)
THEOREM SessionTypes == Spec => []TypeOK
  <1>1. Init => Structure
    BY ShapeAtFirst
  <1>2. Structure /\ [Next]_vars => Structure'
    BY ShapeKept
  <1>3. Structure => TypeOK
    BY DEF Structure
  <1>4. QED
    BY <1>1, <1>2, <1>3, PTL DEF Spec

-----------------------------------------------------------------------------
(* One query at a time.                                                    *)

(* queryInFlight is set by the query that runs and reset as it ends.       *)
LEMMA GuardKept ==
  ASSUME Structure, QueryGuardHolds, [Next]_vars
  PROVE  QueryGuardHolds'
  <1> DEFINE query(c) == Call(c).op = "queryState"
  <1>1. TypeOK /\ (queryInFlight <=> Querying # {})
        /\ \A c, d \in Querying : c = d
    BY DEF Structure, QueryGuardHolds
  <1>2. Querying = {c \in Calls : outcome[c] = "running" /\ query(c)}
    BY DEF Querying, Call
  <1>3. Querying' = {c \in Calls : outcome'[c] = "running" /\
                       Head(todo'[c]).op = "queryState"}
    BY DEF Querying
  <1>4. ASSUME NEW c \in Calls, Begin(c)
        PROVE  QueryGuardHolds'
    <2>1. /\ ~Running(c) /\ todo' = todo
          /\ outcome' = [outcome EXCEPT ![c] = "running"]
          /\ queryInFlight' = (queryInFlight \/ query(c))
          /\ ~(query(c) /\ queryInFlight)
      BY <1>4 DEF Begin, Running, Refused, Call
    <2>2. Querying' = IF query(c) THEN Querying \cup {c} ELSE Querying
      BY <1>1, <1>2, <1>3, <2>1 DEF TypeOK, Running, Call
    <2>3. CASE query(c)
      BY <1>1, <2>1, <2>2, <2>3 DEF QueryGuardHolds
    <2>4. CASE ~query(c)
      BY <1>1, <2>1, <2>2, <2>4 DEF QueryGuardHolds
    <2>5. QED
      BY <2>3, <2>4
  <1>5. ASSUME NEW c \in Calls, outcome' \in [Calls -> CallResults],
               \A d \in Calls : outcome'[d] = "running" <=>
                                  outcome[d] = "running" /\ d # c,
               \A d \in Calls : d # c => todo'[d] = todo[d],
               queryInFlight' = (queryInFlight /\ ~(Running(c) /\ query(c)))
        PROVE  QueryGuardHolds'
    <2>1. Querying' = Querying \ {c}
      BY <1>2, <1>3, <1>5 DEF Call
    <2>2. c \in Querying <=> Running(c) /\ query(c)
      BY <1>2 DEF Running
    <2>3. CASE c \in Querying
      <3>1. Querying' = {} /\ ~queryInFlight'
        BY <1>1, <1>5, <2>1, <2>2, <2>3
      <3>2. QED
        BY <3>1 DEF QueryGuardHolds
    <2>4. CASE c \notin Querying
      <3>1. Querying' = Querying /\ queryInFlight' = queryInFlight
        BY <1>1, <1>5, <2>1, <2>2, <2>4 DEF TypeOK
      <3>2. QED
        BY <1>1, <3>1 DEF QueryGuardHolds
    <2>5. QED
      BY <2>3, <2>4
  <1>6. ASSUME NEW c \in Calls, Refuse(c)
        PROVE  QueryGuardHolds'
    <2>1. /\ ~Running(c) /\ queryInFlight' = queryInFlight
          /\ outcome' = [outcome EXCEPT ![c] = "rejected"]
          /\ todo' = [todo EXCEPT ![c] = Tail(@)]
      BY <1>6 DEF Refuse, Running
    <2>2. /\ outcome' \in [Calls -> CallResults]
          /\ \A d \in Calls : outcome'[d] = "running" <=>
                                outcome[d] = "running" /\ d # c
          /\ \A d \in Calls : d # c => todo'[d] = todo[d]
      BY <1>1, <2>1 DEF TypeOK, Running, CallResults
    <2>3. queryInFlight' = (queryInFlight /\ ~(Running(c) /\ query(c)))
      BY <1>1, <2>1 DEF TypeOK
    <2>4. QED
      BY <1>5, <2>1, <2>2, <2>3
  <1>7. ASSUME NEW i \in 1..Len(settled), NEW c \in Calls, Ending(i, c)
        PROVE  QueryGuardHolds'
    <2>1. /\ Running(c)
          /\ \E how \in {"resolved", "rejected"} :
               outcome' = [outcome EXCEPT ![c] = how]
          /\ todo' = [todo EXCEPT ![c] = Tail(todo[c])]
          /\ queryInFlight' = (queryInFlight /\ Call(c).op # "queryState")
      BY <1>7 DEF Ending
    <2>2. /\ outcome' \in [Calls -> CallResults]
          /\ \A d \in Calls : outcome'[d] = "running" <=>
                                outcome[d] = "running" /\ d # c
          /\ \A d \in Calls : d # c => todo'[d] = todo[d]
      BY <1>1, <2>1 DEF TypeOK, Running, CallResults
    <2>3. queryInFlight' = (queryInFlight /\ ~(Running(c) /\ query(c)))
      BY <1>1, <2>1 DEF TypeOK
    <2>4. QED
      BY <1>5, <2>2, <2>3
  <1>8. ASSUME UNCHANGED <<outcome, todo, queryInFlight>>
        PROVE  QueryGuardHolds'
    BY <1>8 DEF QueryGuardHolds, Querying
  <1>9. QED
    BY <1>4, <1>6, <1>7, <1>8, CallEnds
       DEF Next, Continue, DataArrives, DeliverNext, TimerFires, Close, Frame,
           FrameLost, LoseLink, runnerVars, vars

(* queryInFlight is set exactly while a query runs, and one runs at most,  *)
(* however the calls of the flows interleave, fail or time out             *)
(* (queryState: the guard, its `finally').                                 *)
THEOREM QueryGuard == Spec => []QueryGuardHolds
  <1>1. Init => Structure /\ QueryGuardHolds
    BY ShapeAtFirst DEF Init, QueryGuardHolds, Querying
  <1>2. Structure /\ QueryGuardHolds /\ [Next]_vars
          => Structure' /\ QueryGuardHolds'
    BY ShapeKept, GuardKept
  <1>3. QED
    BY <1>1, <1>2, PTL DEF Spec

-----------------------------------------------------------------------------
(* Replies.                                                                *)

Sent == Game!CommandTypes \ {"UNKNOWN"}

(* Two commands await the same replies, or share none.                     *)
LEMMA AwaitKinds ==
  ASSUME NEW s \in Sent, NEW t \in Sent
  PROVE  /\ \A r \in Awaits(s) : r \in Awaits(t) => Awaits(s) = Awaits(t)
         /\ Awaits(s) = Awaits(t) /\ s \in {"CAPTURE_FRAME", "QUERY_STATE"}
              => s = t
         /\ Awaits(s) = {"FRAME_DATA"} <=> s = "CAPTURE_FRAME"
         /\ "ERROR" \notin Awaits(s)
         /\ Awaits(s) \in AwaitSets
  <1>1. s \in {"PING", "CAPTURE_FRAME", "INJECT_INPUT", "QUERY_STATE",
               "RELEASE_INPUT"}
        /\ t \in {"PING", "CAPTURE_FRAME", "INJECT_INPUT", "QUERY_STATE",
               "RELEASE_INPUT"}
    BY DEF Sent, Game!CommandTypes
  <1>2. Awaits(s) \in AwaitSets
    BY DEF AwaitSets, Sent
  <1>3. QED
    BY <1>1, <1>2 DEF Awaits

(* A screenshot or a query may be answered by an ERROR, nothing else is.   *)
LEMMA AnswerKinds ==
  ASSUME NEW t \in Sent, NEW r \in MayAnswer(t)
  PROVE  /\ r \in Game!ReplyTypes
         /\ r \in Awaits(t) \/ r = "ERROR"
         /\ r = "ERROR" => t \in {"CAPTURE_FRAME", "QUERY_STATE"}
  <1>1. t \in {"PING", "CAPTURE_FRAME", "INJECT_INPUT", "QUERY_STATE",
               "RELEASE_INPUT"}
    BY DEF Sent, Game!CommandTypes
  <1>2. QED
    BY <1>1 DEF MayAnswer, Awaits, Game!ReplyTypes

(* What is on its way is typed.                                            *)
LEMMA WhatIsOnItsWay ==
  ASSUME TypeOK
  PROVE  /\ Kept \in SUBSET Server!Messages /\ Coming \in SUBSET Server!Messages
         /\ Asked \in SUBSET Game!Commands /\ issued \in Nat
  <1>1. /\ pendingMessages \in Seq(Server!Messages)
        /\ parsed \in Seq(Server!Messages) /\ toRunner \in Seq(Server!Messages)
        /\ recv_buf \in Seq(Game!Commands) /\ toGame \in Seq(Game!Commands)
        /\ issued \in Nat
    BY DEF TypeOK, Game!TypeOK, Server!TypeOK
  <1>2. /\ ToSet(pendingMessages) \in SUBSET Server!Messages
        /\ ToSet(parsed) \in SUBSET Server!Messages
        /\ ToSet(toRunner) \in SUBSET Server!Messages
        /\ ToSet(recv_buf) \in SUBSET Game!Commands
        /\ ToSet(toGame) \in SUBSET Game!Commands
    BY <1>1, Elements
  <1>3. QED
    BY <1>1, <1>2 DEF Kept, Coming, Asked

(* The message at hand is the oldest of those that are coming.             *)
LEMMA Oldest ==
  ASSUME TypeOK, OrderInv, parsed # <<>>, parsed' = Tail(parsed),
         toRunner' = toRunner
  PROVE  LET h == Head(parsed)
         IN /\ h \in Coming /\ h \in Server!Messages
            /\ \A y \in Coming : y # h => h.tag < y.tag
            /\ Coming' = Coming \ {h}
            /\ Rising(parsed')
            /\ Before(ToSet(parsed'), ToSet(toRunner'))
  <1> DEFINE h == Head(parsed)
  <1>1. parsed \in Seq(Server!Messages) /\ Rising(parsed)
        /\ Before(ToSet(parsed), ToSet(toRunner))
    BY DEF TypeOK, Server!TypeOK, OrderInv
  <1>2. /\ h \in Server!Messages
        /\ ToSet(parsed) = {h} \cup ToSet(Tail(parsed))
        /\ Rising(Tail(parsed)) /\ Before({h}, ToSet(Tail(parsed)))
    BY <1>1, TailElements, RisingTail
  <1> HIDE DEF h
  <1>3. h.tag \in Nat
    BY <1>2 DEF Server!Messages
  <1>4. \A y \in ToSet(Tail(parsed)) \cup ToSet(toRunner) : h.tag < y.tag
    BY <1>1, <1>2 DEF Before
  <1>5. h \notin ToSet(Tail(parsed)) \cup ToSet(toRunner)
    BY <1>3, <1>4
  <1>6. /\ Coming = {h} \cup (ToSet(Tail(parsed)) \cup ToSet(toRunner))
        /\ Coming' = ToSet(Tail(parsed)) \cup ToSet(toRunner)
    BY <1>2 DEF Coming
  <1>7. Before(ToSet(Tail(parsed)), ToSet(toRunner))
    BY <1>1, <1>2 DEF Before
  <1>8. QED
    BY <1>2, <1>4, <1>5, <1>6, <1>7 DEF h

(* A kept message that a call takes leaves no other with its tag.          *)
LEMMA KeptOnce ==
  ASSUME TypeOK, OrderInv, NEW l \in 1..Len(pendingMessages),
         pendingMessages' = RemoveAt(pendingMessages, l)
  PROVE  /\ pendingMessages[l] \in Kept
         /\ Kept' = Kept \ {pendingMessages[l]}
         /\ Rising(pendingMessages')
  <1> DEFINE m == pendingMessages[l]
             r == RemoveAt(pendingMessages, l)
  <1>1. pendingMessages \in Seq(Server!Messages) /\ Rising(pendingMessages)
    BY DEF TypeOK, Server!TypeOK, OrderInv
  <1>2. \A x \in Server!Messages : x.tag \in Nat
    BY DEF Server!Messages
  <1>3. Rising(r) /\ \A x \in ToSet(r) : x.tag # m.tag
    BY <1>1, <1>2, RisingRemoval
  <1>4. ToSet(pendingMessages) = ToSet(r) \cup {m}
    BY <1>1, RemovalElements
  <1> HIDE DEF m, r
  <1>5. m \notin ToSet(r)
    BY <1>3
  <1>6. Kept' = ToSet(r) /\ Kept = ToSet(pendingMessages)
    BY DEF Kept, r
  <1>7. QED
    BY <1>3, <1>4, <1>5, <1>6 DEF m, r

(* The order is kept: when a command is sent,                              *)
LEMMA OrderSent ==
  ASSUME TypeOK, OrderInv, NEW cmd \in Game!Commands, cmd.tag = issued + 1,
         Written(cmd), parsed' = parsed, Kept' \subseteq Kept,
         Rising(pendingMessages')
  PROVE  /\ OrderInv' /\ Coming' = Coming
         /\ issued' = IF link THEN issued + 1 ELSE issued
         /\ Asked' = IF link THEN Asked \cup {cmd} ELSE Asked
  <1>1. toGame \in Seq(Game!Commands) /\ issued \in Nat /\ link \in BOOLEAN
    BY DEF TypeOK, Game!TypeOK
  <1>2. /\ toRunner' = toRunner /\ recv_buf' = recv_buf
        /\ \/ link /\ toGame' = Append(toGame, cmd) /\ issued' = issued + 1
           \/ ~link /\ toGame' = toGame /\ issued' = issued
    BY DEF Written
  <1>3. Coming' = Coming
    BY <1>2 DEF Coming
  <1>4. \A x \in Kept \cup Coming \cup Asked : x.tag \in 1..issued
    BY DEF OrderInv
  <1>5. /\ Rising(parsed') /\ Rising(toRunner') /\ Rising(recv_buf')
        /\ Before(ToSet(parsed'), ToSet(toRunner'))
        /\ Before(Kept', Coming')
    BY <1>2, <1>3 DEF OrderInv, Before
  <1>6. CASE link
    <2>1. toGame' = Append(toGame, cmd) /\ issued' = issued + 1
      BY <1>2, <1>6
    <2>2. ToSet(toGame') = ToSet(toGame) \cup {cmd}
      BY <1>1, <2>1, AppendedElements
    <2>3. Asked' = Asked \cup {cmd}
      BY <1>2, <2>2 DEF Asked
    <2>4. \A x \in Kept' \cup Coming' \cup Asked' : x.tag \in 1..issued'
      BY <1>1, <1>3, <1>4, <2>1, <2>3
    <2>5. Rising(toGame')
      <3>1. \A x \in ToSet(toGame) : x.tag < cmd.tag
        BY <1>1, <1>4 DEF Asked
      <3>2. QED
        BY <1>1, <2>1, <3>1, RisingAppended DEF OrderInv
    <2>6. Before(ToSet(recv_buf'), ToSet(toGame'))
      <3>1. \A x \in ToSet(recv_buf) : x.tag < cmd.tag
        BY <1>1, <1>4 DEF Asked
      <3>2. QED
        BY <1>2, <2>2, <3>1 DEF OrderInv, Before
    <2>7. Before(Kept' \cup Coming', Asked')
      <3>1. \A x \in Kept \cup Coming : x.tag < cmd.tag
        BY <1>1, <1>4
      <3>2. QED
        BY <1>3, <2>3, <3>1 DEF OrderInv, Before
    <2>8. QED
      BY <1>3, <1>5, <1>6, <2>1, <2>3, <2>4, <2>5, <2>6, <2>7 DEF OrderInv
  <1>7. CASE ~link
    <2>1. Asked' = Asked /\ toGame' = toGame /\ issued' = issued
      BY <1>2, <1>7 DEF Asked
    <2>2. \A x \in Kept' \cup Coming' \cup Asked' : x.tag \in 1..issued'
      BY <1>3, <1>4, <2>1
    <2>3. Before(Kept' \cup Coming', Asked')
      BY <1>3, <2>1 DEF OrderInv, Before
    <2>4. QED
      BY <1>2, <1>3, <1>5, <1>7, <2>1, <2>2, <2>3 DEF OrderInv
  <1>8. QED
    BY <1>1, <1>6, <1>7

(* when the game runs a frame,                                             *)
LEMMA OrderFrame ==
  ASSUME TypeOK, OrderInv, AskedInv, NEW n \in 0..Len(toGame), Frame(n)
  PROVE  /\ OrderInv' /\ issued' = issued
         /\ (\E m \in Game!Commands : Dispatches(m)) \/ Idles
         /\ \A m \in Game!Commands : Dispatches(m) =>
              \/ ~link /\ Coming' = Coming
              \/ link /\ \E type \in MayAnswer(m.type) :
                   Coming' = Coming \cup {[type |-> type, tag |-> m.tag]}
  <1>1. /\ (\E m \in Game!Commands : Dispatches(m)) \/ Idles
        /\ Rising(recv_buf') /\ Rising(toGame')
        /\ Before(ToSet(recv_buf'), ToSet(toGame'))
        /\ Asked' \subseteq Asked
    BY FrameEffect DEF Frame
  <1>2. /\ pendingMessages' = pendingMessages /\ parsed' = parsed
        /\ Kept' = Kept /\ issued' = issued
    BY DEF Frame, serverVars, Kept, Game!UpdateConnected
  <1>3. toRunner \in Seq(Server!Messages) /\ issued \in Nat
    BY DEF TypeOK, Server!TypeOK, Game!TypeOK
  <1>4. ASSUME NEW m \in Game!Commands, Dispatches(m)
        PROVE  /\ \/ ~link /\ Coming' = Coming
                  \/ link /\ \E type \in MayAnswer(m.type) :
                       Coming' = Coming \cup {[type |-> type, tag |-> m.tag]}
               /\ OrderInv'
    <2>1. /\ m \in Asked /\ Asked' = Asked \ {m}
          /\ \A y \in Asked : y # m => m.tag < y.tag
          /\ \/ link /\ \E type \in MayAnswer(m.type) :
                  toRunner' = Append(toRunner, [type |-> type, tag |-> m.tag])
             \/ ~link /\ toRunner' = toRunner
      BY <1>4 DEF Dispatches
    <2>2. CASE ~link /\ toRunner' = toRunner
      <3>1. Coming' = Coming
        BY <1>2, <2>2 DEF Coming
      <3>2. /\ Before(Kept' \cup Coming', Asked')
            /\ \A x \in Kept' \cup Coming' \cup Asked' : x.tag \in 1..issued'
        BY <1>2, <2>1, <3>1 DEF OrderInv, Before
      <3>3. QED
        BY <1>1, <1>2, <2>2, <3>1, <3>2 DEF OrderInv
    <2>3. ASSUME link, NEW type \in MayAnswer(m.type),
                 toRunner' = Append(toRunner, [type |-> type, tag |-> m.tag])
          PROVE  /\ Coming' = Coming \cup {[type |-> type, tag |-> m.tag]}
                 /\ OrderInv'
      <3> DEFINE r == [type |-> type, tag |-> m.tag]
      <3>1. m.tag \in 1..issued /\ m.type \in Sent
        BY <2>1, WhatIsOnItsWay
           DEF OrderInv, AskedInv, Sent, Game!Commands
      <3>2. r \in Server!Messages /\ r.tag = m.tag
        BY <1>3, <3>1, AnswerKinds DEF Server!Messages
      <3> HIDE DEF r
      <3>3. toRunner' = Append(toRunner, r)
        BY <2>3 DEF r
      <3>4. ToSet(toRunner') = ToSet(toRunner) \cup {r}
        BY <1>3, <3>2, <3>3, AppendedElements
      <3>5. Coming' = Coming \cup {r}
        BY <1>2, <3>4 DEF Coming
      <3>6. \A x \in Kept \cup Coming : x.tag < r.tag
        BY <2>1, <3>2 DEF OrderInv, Before
      <3>7. Rising(toRunner')
        <4>1. \A x \in ToSet(toRunner) : x.tag < r.tag
          BY <3>6 DEF Coming
        <4>2. QED
          BY <1>3, <3>2, <3>3, <4>1, RisingAppended DEF OrderInv
      <3>8. Before(ToSet(parsed'), ToSet(toRunner'))
        <4>1. \A x \in ToSet(parsed) : x.tag < r.tag
          BY <3>6 DEF Coming
        <4>2. QED
          BY <1>2, <3>4, <4>1 DEF OrderInv, Before
      <3>9. Before(Kept', Coming')
        BY <1>2, <3>5, <3>6 DEF OrderInv, Before
      <3>10. Before(Kept' \cup Coming', Asked')
        BY <1>2, <2>1, <3>2, <3>5 DEF OrderInv, Before
      <3>11. \A x \in Kept' \cup Coming' \cup Asked' : x.tag \in 1..issued'
        BY <1>2, <2>1, <3>1, <3>2, <3>5 DEF OrderInv
      <3>12. Rising(pendingMessages') /\ Rising(parsed')
        BY <1>2 DEF OrderInv
      <3>13. OrderInv'
        BY <1>1, <3>7, <3>8, <3>9, <3>10, <3>11, <3>12 DEF OrderInv
      <3>14. QED
        BY <3>5, <3>13 DEF r
    <2>4. QED
      BY <2>1, <2>2, <2>3
  <1>5. CASE Idles
    <2>1. Coming' = Coming /\ Asked' = Asked /\ toRunner' = toRunner
      BY <1>2, <1>5 DEF Idles, Coming
    <2>2. /\ Before(Kept' \cup Coming', Asked')
          /\ \A x \in Kept' \cup Coming' \cup Asked' : x.tag \in 1..issued'
      BY <1>2, <2>1 DEF OrderInv
    <2>3. OrderInv'
      BY <1>1, <1>2, <2>1, <2>2 DEF OrderInv
    <2>4. QED
      BY <1>1, <1>2, <1>4, <2>3
  <1>6. QED
    BY <1>1, <1>2, <1>4, <1>5

(* when a chunk arrives,                                                   *)
LEMMA OrderArrival ==
  ASSUME TypeOK, OrderInv, NEW n \in 1..Len(toRunner), DataArrives(n)
  PROVE  OrderInv' /\ Coming' = Coming
  <1>1. /\ parsed = <<>> /\ parsed' = SubSeq(toRunner, 1, n)
        /\ toRunner' = SubSeq(toRunner, n + 1, Len(toRunner))
        /\ UNCHANGED <<pendingMessages, recv_buf, toGame, issued>>
    BY DEF DataArrives, Server!OnData, Server!EventLoopTurn, gameVars
  <1>2. toRunner \in Seq(Server!Messages)
    BY DEF TypeOK, Server!TypeOK
  <1>3. n \in 0..Len(toRunner)
    BY <1>2, LenProperties
  <1>4. /\ Rising(parsed') /\ Rising(toRunner')
        /\ Before(ToSet(parsed'), ToSet(toRunner'))
        /\ ToSet(toRunner) = ToSet(parsed') \cup ToSet(toRunner')
    BY <1>1, <1>2, <1>3, RisingHalves, HalvesElements DEF OrderInv
  <1>5. ToSet(parsed) = {}
    BY <1>1 DEF ToSet
  <1>6. Coming' = Coming /\ Kept' = Kept /\ Asked' = Asked
    BY <1>1, <1>4, <1>5 DEF Coming, Kept, Asked
  <1>7. QED
    BY <1>1, <1>4, <1>6 DEF OrderInv

(* when a message is kept or handed over,                                  *)
LEMMA OrderDelivery ==
  ASSUME TypeOK, OrderInv, parsed # <<>>, parsed' = Tail(parsed),
         UNCHANGED <<toRunner, recv_buf, toGame, issued>>,
         \/ pendingMessages' = pendingMessages
         \/ pendingMessages' = Append(pendingMessages, Head(parsed))
  PROVE  /\ OrderInv' /\ Asked' = Asked
         /\ Kept' = IF pendingMessages' = pendingMessages THEN Kept
                    ELSE Kept \cup {Head(parsed)}
  <1> DEFINE h == Head(parsed)
  <1>1. /\ h \in Coming /\ h \in Server!Messages
        /\ \A y \in Coming : y # h => h.tag < y.tag
        /\ Coming' = Coming \ {h}
        /\ Rising(parsed') /\ Before(ToSet(parsed'), ToSet(toRunner'))
    BY Oldest
  <1>2. pendingMessages \in Seq(Server!Messages)
    BY DEF TypeOK, Server!TypeOK
  <1> HIDE DEF h
  <1>3. Asked' = Asked
    BY DEF Asked
  <1>4. /\ Rising(toRunner') /\ Rising(recv_buf') /\ Rising(toGame')
        /\ Before(ToSet(recv_buf'), ToSet(toGame'))
    BY DEF OrderInv
  <1>5. CASE pendingMessages' = pendingMessages
    <2>1. Kept' = Kept
      BY <1>5 DEF Kept
    <2>2. /\ Rising(pendingMessages') /\ Before(Kept', Coming')
          /\ Before(Kept' \cup Coming', Asked')
          /\ \A x \in Kept' \cup Coming' \cup Asked' : x.tag \in 1..issued'
      BY <1>1, <1>3, <1>5, <2>1 DEF OrderInv, Before
    <2>3. QED
      BY <1>1, <1>3, <1>4, <1>5, <2>1, <2>2 DEF OrderInv
  <1>6. CASE /\ pendingMessages' # pendingMessages
             /\ pendingMessages' = Append(pendingMessages, h)
    <2>1. Kept' = Kept \cup {h}
      BY <1>1, <1>2, <1>6, AppendedElements DEF Kept
    <2>2. \A x \in Kept : x.tag < h.tag
      BY <1>1 DEF OrderInv, Before
    <2>3. Rising(pendingMessages')
      BY <1>1, <1>2, <1>6, <2>2, RisingAppended DEF OrderInv, Kept
    <2>4. Before(Kept', Coming')
      BY <1>1, <2>1, <2>2 DEF OrderInv, Before
    <2>5. Before(Kept' \cup Coming', Asked')
      BY <1>1, <1>3, <2>1 DEF OrderInv, Before
    <2>6. \A x \in Kept' \cup Coming' \cup Asked' : x.tag \in 1..issued'
      BY <1>1, <1>3, <2>1 DEF OrderInv
    <2>7. QED
      BY <1>1, <1>3, <1>4, <1>6, <2>1, <2>3, <2>4, <2>5, <2>6 DEF OrderInv, h
  <1>7. QED
    BY <1>5, <1>6 DEF h

(* and when what the game has read is dropped, if anything.                *)
LEMMA OrderLoss ==
  ASSUME TypeOK, OrderInv,
         UNCHANGED <<pendingMessages, parsed, toRunner, toGame, issued>>,
         recv_buf' = recv_buf \/ recv_buf' = <<>>
  PROVE  /\ OrderInv' /\ Kept' = Kept /\ Coming' = Coming
         /\ Asked' \subseteq Asked /\ (recv_buf' = recv_buf => Asked' = Asked)
  <1>1. /\ Kept' = Kept /\ Coming' = Coming
        /\ recv_buf' = recv_buf => Asked' = Asked
    BY DEF Kept, Coming, Asked
  <1>2. CASE recv_buf' = recv_buf
    BY <1>1, <1>2 DEF OrderInv
  <1>3. CASE recv_buf' = <<>>
    <2>1. ToSet(recv_buf') = {} /\ Rising(recv_buf')
      BY <1>3 DEF ToSet, Rising
    <2>2. Asked' \subseteq Asked /\ Before(ToSet(recv_buf'), ToSet(toGame'))
      BY <2>1 DEF Asked, Before
    <2>3. /\ Before(Kept' \cup Coming', Asked')
          /\ \A x \in Kept' \cup Coming' \cup Asked' : x.tag \in 1..issued'
      BY <1>1, <2>2 DEF OrderInv, Before
    <2>4. QED
      BY <1>1, <2>1, <2>2, <2>3 DEF OrderInv
  <1>4. QED
    BY <1>2, <1>3

-----------------------------------------------------------------------------
(* Each kind of step keeps the account of the replies.                     *)

(* No message moves, though one that was asked for may be dropped with the *)
(* connection.                                                             *)
LEMMA QuietReplies ==
  ASSUME AnswerInv, Kept' = Kept, Coming' = Coming,
         link' => link /\ Asked' = Asked, Asked' \subseteq Asked,
         UNCHANGED <<pendingMessages, waiters, awaited, abandoned, issued>>,
         \A i \in 1..Len(settled') :
           \E j \in 1..Len(settled) : settled'[i] = settled[j]
  PROVE  AnswerInv'
  <1>1. /\ AskedInv /\ WaiterInv /\ MatchInv /\ AccountInv /\ ReachInv
        /\ SettledInv
    BY DEF AnswerInv
  <1>2. AskedInv'
    BY <1>1 DEF AskedInv
  <1>3. WaiterInv'
    BY <1>1 DEF WaiterInv, Cmd
  <1>4. MatchInv'
    BY <1>1 DEF MatchInv, Server!NoMatchMissed
  <1>5. AccountInv'
    BY <1>1 DEF AccountInv, Claimed, Stray, Refusal, Errors, Cmd
  <1>6. ReachInv'
    <2>1. ASSUME NEW j \in 1..Len(waiters)
          PROVE  /\ Cmd(j)' = Cmd(j) /\ Upset(Cmd(j))' = Upset(Cmd(j))
                 /\ Due(j)' = Due(j)
                 /\ link' => Unanswered(j)' = Unanswered(j)
      BY DEF Cmd, Upset, Refusal, Errors, Due, Unanswered
    <2>2. QED
      BY <1>1, <2>1 DEF ReachInv
  <1>7. SettledInv'
    <2>1. ASSUME NEW i \in 1..Len(settled')
          PROVE  Suits(awaited[settled[i].call], settled[i].result)'
      <3>1. PICK j \in 1..Len(settled) : settled'[i] = settled[j]
        OBVIOUS
      <3>2. Suits(awaited[settled[j].call], settled[j].result)
        BY <1>1 DEF SettledInv
      <3>3. QED
        BY <3>1, <3>2 DEF Suits, Upset, Refusal, Errors
    <2>2. QED
      BY <2>1 DEF SettledInv
  <1>8. QED
    BY <1>2, <1>3, <1>4, <1>5, <1>6, <1>7 DEF AnswerInv

(* A waiter leaves the list, because a message has come for it or because  *)
(* its timer has fired.                                                    *)
LEMMA WaitersLeft ==
  ASSUME TypeOK, WaiterInv, MatchInv, NEW k \in 1..Len(waiters),
         waiters' = RemoveAt(waiters, k),
         UNCHANGED <<pendingMessages, awaited, issued, link>>
  PROVE  /\ WaiterInv' /\ MatchInv'
         /\ \A j \in 1..Len(waiters') : \E l \in 1..Len(waiters) :
              l # k /\ waiters'[j] = waiters[l] /\ Cmd(j)' = Cmd(l)
         /\ \A l \in 1..Len(waiters) : l # k =>
              \E j \in 1..Len(waiters') :
                waiters'[j] = waiters[l] /\ Cmd(j)' = Cmd(l)
  <1>1. waiters \in Seq(Server!Waiters)
    BY DEF TypeOK, Server!TypeOK
  <1>2. /\ \A j \in 1..Len(waiters') : \E l \in 1..Len(waiters) :
             l # k /\ waiters'[j] = waiters[l]
        /\ \A i, j \in 1..Len(waiters') : i < j =>
             \E l, m \in 1..Len(waiters) :
               l < m /\ waiters'[i] = waiters[l] /\ waiters'[j] = waiters[m]
        /\ \A l \in 1..Len(waiters) : l # k =>
             \E j \in 1..Len(waiters') : waiters'[j] = waiters[l]
    <2> DEFINE r == RemoveAt(waiters, k)
    <2>1. \A j \in 1..Len(r) : \E l \in 1..Len(waiters) :
            l # k /\ r[j] = waiters[l]
      BY <1>1, Remaining
    <2>2. \A i, j \in 1..Len(r) : i < j =>
            \E l, m \in 1..Len(waiters) :
              l < m /\ r[i] = waiters[l] /\ r[j] = waiters[m]
      BY <1>1, Remaining
    <2>3. \A l \in 1..Len(waiters) : l # k =>
            \E j \in 1..Len(r) : r[j] = waiters[l]
      BY <1>1, Remaining
    <2>4. waiters' = r
      OBVIOUS
    <2> HIDE DEF r
    <2>5. QED
      BY <2>1, <2>2, <2>3, <2>4
  <1>3. WaiterInv'
    <2>1. ASSUME NEW j \in 1..Len(waiters')
          PROVE  /\ waiters'[j].types = Awaits(Cmd(j)'.type)
                 /\ Cmd(j)' \in Game!Commands /\ Cmd(j)'.type # "UNKNOWN"
                 /\ Cmd(j)'.tag \in 1..(issued + 1)
                 /\ Cmd(j)'.tag = issued + 1 => ~link
      <3>1. PICK l \in 1..Len(waiters) : waiters'[j] = waiters[l]
        BY <1>2
      <3>2. QED
        BY <3>1 DEF WaiterInv, Cmd
    <2>2. ASSUME NEW i \in 1..Len(waiters'), NEW j \in 1..Len(waiters'), i < j
          PROVE  Cmd(i)'.tag < Cmd(j)'.tag \/ Cmd(j)'.tag = issued + 1
      <3>1. PICK l, m \in 1..Len(waiters) :
              l < m /\ waiters'[i] = waiters[l] /\ waiters'[j] = waiters[m]
        BY <1>2, <2>2
      <3>2. QED
        BY <3>1 DEF WaiterInv, Cmd
    <2>3. QED
      BY <2>1, <2>2 DEF WaiterInv
  <1>4. MatchInv'
    <2>1. SUFFICES ASSUME NEW i \in 1..Len(pendingMessages),
                          NEW j \in 1..Len(waiters')
                   PROVE  pendingMessages[i].type \notin waiters'[j].types
      BY DEF MatchInv, Server!NoMatchMissed
    <2>2. PICK l \in 1..Len(waiters) : waiters'[j] = waiters[l]
      BY <1>2
    <2>3. QED
      BY <2>2 DEF MatchInv, Server!NoMatchMissed
  <1>5. ASSUME NEW j \in 1..Len(waiters'), NEW l \in 1..Len(waiters),
               waiters'[j] = waiters[l]
        PROVE  Cmd(j)' = Cmd(l)
    BY <1>5 DEF Cmd
  <1>6. ASSUME NEW j \in 1..Len(waiters')
        PROVE  \E l \in 1..Len(waiters) :
                 l # k /\ waiters'[j] = waiters[l] /\ Cmd(j)' = Cmd(l)
    BY <1>2, <1>5
  <1>7. ASSUME NEW l \in 1..Len(waiters), l # k
        PROVE  \E j \in 1..Len(waiters') :
                 waiters'[j] = waiters[l] /\ Cmd(j)' = Cmd(l)
    BY <1>2, <1>5, <1>7
  <1>8. QED
    BY <1>3, <1>4, <1>6, <1>7

(* A waiter leaves; the others are still accounted for if what bears its   *)
(* tag has another excuse.                                                 *)
LEMMA AccountLeft ==
  ASSUME TypeOK, WaiterInv, MatchInv, AccountInv, NEW k \in 1..Len(waiters),
         waiters' = RemoveAt(waiters, k),
         UNCHANGED <<pendingMessages, awaited, issued, link>>,
         Kept' \cup Coming' \subseteq Kept \cup Coming, Asked' \subseteq Asked,
         abandoned \subseteq abandoned', Errors \subseteq Errors',
         \A x \in Kept' \cup Coming' \cup Asked' :
           x.tag = Cmd(k).tag =>
             \/ \E a \in abandoned' : /\ a.tag <= Cmd(k).tag
                                      /\ Awaits(a.type) = waiters[k].types
             \/ /\ waiters[k].types = {"FRAME_DATA"}
                /\ \E e \in Errors' : e.tag <= Cmd(k).tag
  PROVE  AccountInv'
  <1>1. \A l \in 1..Len(waiters) : l # k =>
          \E j \in 1..Len(waiters') :
            waiters'[j] = waiters[l] /\ Cmd(j)' = Cmd(l)
    BY WaitersLeft
  <1>2. ASSUME NEW x \in Kept' \cup Coming' \cup Asked', NEW types,
               Claimed(x.tag, types) \/ Stray(x.tag, types)
        PROVE  Claimed(x.tag, types)' \/ Stray(x.tag, types)'
    <2>1. CASE Stray(x.tag, types)
      BY <2>1 DEF Stray, Refusal
    <2>2. ASSUME NEW l \in 1..Len(waiters), waiters[l].types = types,
                 Cmd(l).tag = x.tag, l # k
          PROVE  Claimed(x.tag, types)'
      BY <1>1, <2>2 DEF Claimed
    <2>3. CASE waiters[k].types = types /\ Cmd(k).tag = x.tag
      BY <2>3 DEF Stray, Refusal
    <2>4. QED
      BY <1>2, <2>1, <2>2, <2>3 DEF Claimed
  <1>3. QED
    BY <1>2 DEF AccountInv

(* What has been settled stays so.                                         *)
LEMMA SettledStays ==
  ASSUME TypeOK, SettledInv, NEW i, NEW j \in 1..Len(settled),
         settled'[i] = settled[j],
         awaited'[settled[j].call] = awaited[settled[j].call],
         abandoned \subseteq abandoned', Errors \subseteq Errors',
         issued' \in {issued, issued + 1}
  PROVE  Suits(awaited[settled[i].call], settled[i].result)'
  <1> DEFINE cmd == awaited[settled[j].call]
             result == settled[j].result
  <1>1. issued \in Nat
    BY DEF TypeOK, Game!TypeOK
  <1>2. Suits(cmd, result)
    BY DEF SettledInv
  <1>3. 1..issued \subseteq 1..issued'
    BY <1>1
  <1>4. awaited'[settled'[i].call] = cmd /\ settled'[i].result = result
    OBVIOUS
  <1> HIDE DEF cmd, result
  <1>5. Upset(cmd) => Upset(awaited[settled[i].call])'
    BY <1>4 DEF Upset, Refusal
  <1>6. QED
    BY <1>2, <1>3, <1>4, <1>5 DEF Suits

(* A timeout is not a message.                                             *)
LEMMA TimesOut ==
  ASSUME NEW m \in Server!Messages
  PROVE  m # Server!TimedOut
  <1>1. m.type \in Game!ReplyTypes
    BY DEF Server!Messages
  <1>2. m.type # "timed out"
    BY <1>1 DEF Game!ReplyTypes
  <1>3. Server!TimedOut.type = "timed out"
    BY DEF Server!TimedOut
  <1>4. QED
    BY <1>2, <1>3

(* The parts of the invariant about replies hold when a message reaches    *)
(* its waiter,                                                             *)
LEMMA HandedOver ==
  ASSUME Structure, ReplyInv, DeliverNext, NEW k \in 1..Len(waiters),
         Delivers(k)
  PROVE  AnswerInv'
  <1> DEFINE h == Head(parsed)
             w == Cmd(k)
             types == waiters[k].types
  <1>1. /\ TypeOK /\ OrderInv /\ AskedInv /\ WaiterInv /\ MatchInv
        /\ AccountInv /\ ReachInv /\ SettledInv
    BY DEF Structure, ReplyInv, AnswerInv
  <1>2. /\ parsed # <<>> /\ parsed' = Tail(parsed)
        /\ UNCHANGED <<socket, toRunner, recv_buf, toGame, issued, link,
                       awaited, abandoned>>
    BY <1>1, DeliverEffect DEF gameVars, runnerVars
  <1>3. /\ h.type \in types /\ pendingMessages' = pendingMessages
        /\ \A j \in 1..Len(waiters) : j < k => h.type \notin waiters[j].types
        /\ waiters' = RemoveAt(waiters, k)
        /\ settled' = Append(settled, [call |-> waiters[k].call, result |-> h])
    BY DEF Delivers
  <1>4. /\ h \in Coming /\ h \in Server!Messages
        /\ \A y \in Coming : y # h => h.tag < y.tag
        /\ Coming' = Coming \ {h} /\ Kept' = Kept /\ Asked' = Asked
    BY <1>1, <1>2, <1>3, Oldest, OrderDelivery
  <1>5. /\ w \in Game!Commands /\ w.type \in Sent /\ types = Awaits(w.type)
        /\ w.tag \in Nat /\ issued \in Nat /\ Len(waiters) \in Nat
        /\ h.tag \in 1..issued
    BY <1>1, <1>4, WhatIsOnItsWay, QueueTypes, LenProperties
       DEF WaiterInv, OrderInv, Sent, Game!Commands
  <1> HIDE DEF h, w, types
  <1>6. types \in AwaitSets /\ h.type # "ERROR"
    BY <1>3, <1>5, AwaitKinds
  <1>7. Errors' = Errors /\ Kept' \cup Coming' \subseteq Kept \cup Coming
    BY <1>4, <1>6 DEF Errors
  <1>8. Upset(w) =>
          \/ \E a \in abandoned : a.tag < w.tag /\ Awaits(a.type) = types
          \/ types = {"FRAME_DATA"} /\ \E e \in Errors : e.tag <= w.tag
    BY <1>5, AwaitKinds DEF Upset, Refusal
  (* the message is the reply to the waiter's own command, or the waiter   *)
  (* was disturbed                                                         *)
  <1>9. ASSUME ~Upset(w) PROVE h.tag = w.tag
    <2>1. ASSUME h.tag > w.tag PROVE FALSE
      <3>1. Due(k)
        BY <1>1, <1>3, <1>4, <1>9, <2>1 DEF ReachInv, w, types
      <3>2. PICK y \in Coming : y.tag = w.tag
        BY <3>1 DEF Due, w
      <3>3. QED
        BY <1>4, <1>5, <2>1, <3>2
    <2>2. ASSUME h.tag < w.tag PROVE FALSE
      <3>1. ~Stray(h.tag, types)
        <4>1. ASSUME NEW a \in abandoned, a.tag <= h.tag,
                     Awaits(a.type) = types
              PROVE  FALSE
          <5>1. a.tag \in Nat
            BY <1>1 DEF TypeOK, Game!Commands
          <5>2. a.tag < w.tag
            BY <1>5, <2>2, <4>1, <5>1
          <5>3. QED
            BY <1>5, <1>9, <4>1, <5>2 DEF Upset
        <4>2. ASSUME types = {"FRAME_DATA"}, NEW e \in Errors, e.tag <= h.tag
              PROVE  FALSE
          <5>1. e.tag \in Nat
            BY <1>1, WhatIsOnItsWay DEF Errors, Server!Messages
          <5>2. e.tag <= w.tag
            BY <1>5, <2>2, <4>2, <5>1
          <5>3. w.type = "CAPTURE_FRAME"
            BY <1>5, <4>2, AwaitKinds
          <5>4. QED
            BY <1>9, <5>2, <5>3 DEF Upset, Refusal
        <4>3. QED
          BY <4>1, <4>2 DEF Stray, Refusal
      <3>2. PICK j \in 1..Len(waiters) :
              waiters[j].types = types /\ Cmd(j).tag = h.tag
        BY <1>1, <1>3, <1>4, <1>6, <3>1 DEF AccountInv, Claimed
      <3>3. k < j
        <4>1. ~(j < k)
          BY <1>3, <3>2
        <4>2. j # k
          BY <1>5, <2>2, <3>2 DEF w
        <4>3. QED
          BY <1>5, <4>1, <4>2
      <3>4. w.tag < Cmd(j).tag \/ Cmd(j).tag = issued + 1
        BY <1>1, <3>3 DEF WaiterInv, w
      <3>5. QED
        BY <1>5, <2>2, <3>2, <3>4
    <2>3. QED
      BY <1>5, <2>1, <2>2
  <1>10. WaiterInv' /\ MatchInv'
    BY <1>1, <1>2, <1>3, WaitersLeft
  <1>11. AccountInv'
    <2>1. ASSUME NEW x \in Kept' \cup Coming' \cup Asked', x.tag = w.tag
          PROVE  \/ \E a \in abandoned : a.tag <= w.tag /\ Awaits(a.type) = types
                 \/ types = {"FRAME_DATA"} /\ \E e \in Errors : e.tag <= w.tag
      <3>1. x.tag # h.tag
        <4>1. CASE x \in Kept
          BY <1>1, <1>4, <1>5, <4>1 DEF OrderInv, Before
        <4>2. CASE x \in Coming /\ x # h
          BY <1>4, <1>5, <4>2
        <4>3. CASE x \in Asked
          BY <1>1, <1>4, <1>5, <4>3 DEF OrderInv, Before
        <4>4. QED
          BY <1>4, <2>1, <4>1, <4>2, <4>3
      <3>2. Upset(w)
        BY <1>9, <2>1, <3>1
      <3>3. \A a \in abandoned : a.tag \in Nat
        BY <1>1 DEF TypeOK, Game!Commands
      <3>4. QED
        BY <1>5, <1>8, <3>2, <3>3
    <2>2. QED
      BY <1>1, <1>2, <1>3, <1>4, <1>7, <2>1, AccountLeft DEF w, types

  <1>12. ReachInv'
    <2>1. ASSUME NEW l \in 1..Len(waiters), l # k, ~Upset(Cmd(l)),
                 h.type \in waiters[l].types, h.tag = Cmd(l).tag
          PROVE  FALSE
      <3>1. k < l
        BY <1>3, <1>5, <2>1
      <3>2. w.tag < Cmd(l).tag
        BY <1>1, <1>5, <2>1, <3>1 DEF WaiterInv, w
      <3>3. Upset(w)
        BY <1>5, <1>9, <2>1, <3>2
      <3>4. /\ Cmd(l) \in Game!Commands /\ Cmd(l).type \in Sent
            /\ waiters[l].types = Awaits(Cmd(l).type) /\ Cmd(l).tag \in Nat
        BY <1>1 DEF WaiterInv, Sent, Game!Commands
      <3>5. Awaits(Cmd(l).type) = types
        BY <1>3, <1>5, <2>1, <3>4, AwaitKinds
      <3>6. ASSUME NEW a \in abandoned, a.tag < w.tag, Awaits(a.type) = types
            PROVE  FALSE
        <4>1. a.tag \in Nat
          BY <1>1 DEF TypeOK, Game!Commands
        <4>2. a.tag < Cmd(l).tag
          BY <1>5, <3>2, <3>4, <3>6, <4>1
        <4>3. QED
          BY <2>1, <3>5, <3>6, <4>2 DEF Upset
      <3>7. ASSUME types = {"FRAME_DATA"}, NEW e \in Errors, e.tag <= w.tag
            PROVE  FALSE
        <4>1. e.tag \in Nat
          BY <1>1, WhatIsOnItsWay DEF Errors, Server!Messages
        <4>2. e.tag <= Cmd(l).tag /\ Cmd(l).type = "CAPTURE_FRAME"
          BY <1>5, <3>2, <3>4, <3>5, <3>7, <4>1, AwaitKinds
        <4>3. QED
          BY <2>1, <4>2 DEF Upset, Refusal
      <3>8. QED
        BY <1>8, <3>3, <3>6, <3>7
    <2>2. ASSUME NEW j \in 1..Len(waiters')
          PROVE  /\ ~Upset(Cmd(j))' =>
                      /\ \A x \in Coming' :
                           x.type \in waiters'[j].types
                             /\ x.tag > Cmd(j)'.tag => Due(j)'
                      /\ link' /\ Cmd(j)'.type # "QUERY_STATE"
                           => Due(j)' \/ Unanswered(j)'
                 /\ Cmd(j)'.type = "QUERY_STATE" =>
                      /\ \A x \in Coming' :
                           x.type \in waiters'[j].types => x.tag <= Cmd(j)'.tag
                      /\ \A y \in Asked' :
                           y.type = "QUERY_STATE" => y.tag <= Cmd(j)'.tag
      <3>1. PICK l \in 1..Len(waiters) :
              l # k /\ waiters'[j] = waiters[l] /\ Cmd(j)' = Cmd(l)
        BY <1>1, <1>2, <1>3, WaitersLeft
      <3>2. Upset(Cmd(j))' = Upset(Cmd(l))
        BY <1>2, <1>7, <3>1 DEF Upset, Refusal
      <3>3. Unanswered(j)' = Unanswered(l)
        BY <1>4, <3>1 DEF Unanswered
      <3>4. ~Upset(Cmd(l)) /\ Due(l) => Due(j)'
        BY <1>4, <2>1, <3>1 DEF Due
      <3>5. QED
        BY <1>1, <1>2, <1>4, <3>1, <3>2, <3>3, <3>4 DEF ReachInv
    <2>3. QED
      BY <2>2 DEF ReachInv
  <1>13. SettledInv'
    <2> DEFINE e == [call |-> waiters[k].call, result |-> h]
    <2>1. /\ Len(settled) \in Nat /\ Len(settled') = Len(settled) + 1
          /\ settled'[Len(settled) + 1] = e
          /\ \A j \in 1..Len(settled) : settled'[j] = settled[j]
          /\ 1..Len(settled') = 1..Len(settled) \cup {Len(settled) + 1}
      <3>1. settled \in Seq(Server!Outcomes) /\ e \in Server!Outcomes
        BY <1>1, <1>4, QueueTypes DEF Server!Outcomes
      <3>2. QED
        BY <1>3, <3>1, Appended
    <2>2. ASSUME NEW i \in 1..Len(settled)
          PROVE  Suits(awaited[settled[i].call], settled[i].result)'
      BY <1>1, <1>2, <1>7, <2>1, SettledStays
    <2>3. ASSUME NEW i, i = Len(settled) + 1
          PROVE  Suits(awaited[settled[i].call], settled[i].result)'
      <3>1. awaited'[settled'[i].call] = w /\ settled'[i].result = h
        BY <1>2, <2>1, <2>3 DEF w, Cmd
      <3>2. Upset(w) => Upset(awaited[settled[i].call])'
        BY <1>2, <1>7, <3>1 DEF Upset, Refusal
      <3>3. h # Server!TimedOut
        BY <1>4, TimesOut
      <3>4. QED
        BY <1>2, <1>3, <1>5, <1>9, <3>1, <3>2, <3>3 DEF Suits, Sent
    <2>4. QED
      BY <2>1, <2>2, <2>3 DEF SettledInv
  <1>14. AskedInv'
    BY <1>1, <1>4 DEF AskedInv
  <1>15. QED
    BY <1>10, <1>11, <1>12, <1>13, <1>14 DEF AnswerInv

(* when a waiter gives up,                                                 *)
LEMMA GivenUp ==
  ASSUME Structure, ReplyInv, NEW k \in 1..Len(waiters), TimerFires(k)
  PROVE  ReplyInv'
  <1> DEFINE w == Cmd(k)
             types == waiters[k].types
  <1>1. /\ TypeOK /\ OrderInv /\ AskedInv /\ WaiterInv /\ MatchInv
        /\ AccountInv /\ ReachInv /\ SettledInv
    BY DEF Structure, ReplyInv, AnswerInv
  <1>2. /\ waiters' = RemoveAt(waiters, k)
        /\ settled' = Append(settled,
             [call |-> waiters[k].call, result |-> Server!TimedOut])
        /\ abandoned' = abandoned \cup {w}
        /\ UNCHANGED <<socket, toRunner, parsed, pendingMessages, toGame,
                       recv_buf, issued, link, awaited>>
    BY DEF TimerFires, Server!Timeout, Server!Settlement, Server!RemoveAt,
       RemoveAt, gameVars, Cmd
  <1>3. /\ w \in Game!Commands /\ w.type # "UNKNOWN" /\ types = Awaits(w.type)
        /\ w.tag \in Nat
    BY <1>1 DEF WaiterInv, Game!Commands
  <1> HIDE DEF w, types
  <1>4. OrderInv' /\ Kept' = Kept /\ Coming' = Coming /\ Asked' = Asked
    BY <1>1, <1>2, OrderLoss
  <1>5. Errors' = Errors
    BY <1>4 DEF Errors
  <1>6. WaiterInv' /\ MatchInv'
    BY <1>1, <1>2, WaitersLeft
  <1>7. AccountInv'
    <2>1. w \in abandoned' /\ w.tag <= w.tag /\ abandoned \subseteq abandoned'
      BY <1>2, <1>3
    <2>2. QED
      BY <1>1, <1>2, <1>3, <1>4, <1>5, <2>1, AccountLeft DEF w, types
  <1>8. ReachInv'
    <2>1. ASSUME NEW j \in 1..Len(waiters')
          PROVE  /\ ~Upset(Cmd(j))' =>
                      /\ \A x \in Coming' :
                           x.type \in waiters'[j].types
                             /\ x.tag > Cmd(j)'.tag => Due(j)'
                      /\ link' /\ Cmd(j)'.type # "QUERY_STATE"
                           => Due(j)' \/ Unanswered(j)'
                 /\ Cmd(j)'.type = "QUERY_STATE" =>
                      /\ \A x \in Coming' :
                           x.type \in waiters'[j].types => x.tag <= Cmd(j)'.tag
                      /\ \A y \in Asked' :
                           y.type = "QUERY_STATE" => y.tag <= Cmd(j)'.tag
      <3>1. PICK l \in 1..Len(waiters) :
              l # k /\ waiters'[j] = waiters[l] /\ Cmd(j)' = Cmd(l)
        BY <1>1, <1>2, WaitersLeft
      <3>2. Upset(Cmd(l)) => Upset(Cmd(j))'
        BY <1>2, <1>5, <3>1 DEF Upset, Refusal
      <3>3. Unanswered(j)' = Unanswered(l) /\ Due(j)' = Due(l)
        BY <1>4, <3>1 DEF Unanswered, Due
      <3>4. QED
        BY <1>1, <1>2, <1>4, <3>1, <3>2, <3>3 DEF ReachInv
    <2>2. QED
      BY <2>1 DEF ReachInv
  <1>9. SettledInv'
    <2> DEFINE e == [call |-> waiters[k].call, result |-> Server!TimedOut]
    <2>1. /\ Len(settled) \in Nat /\ Len(settled') = Len(settled) + 1
          /\ settled'[Len(settled) + 1] = e
          /\ \A j \in 1..Len(settled) : settled'[j] = settled[j]
          /\ 1..Len(settled') = 1..Len(settled) \cup {Len(settled) + 1}
      <3>1. settled \in Seq(Server!Outcomes) /\ e \in Server!Outcomes
        BY <1>1, QueueTypes DEF Server!Outcomes
      <3>2. QED
        BY <1>2, <3>1, Appended
    <2>2. ASSUME NEW i \in 1..Len(settled)
          PROVE  Suits(awaited[settled[i].call], settled[i].result)'
      <3>1. abandoned \subseteq abandoned'
        BY <1>2
      <3>2. QED
        BY <1>1, <1>2, <1>5, <2>1, <3>1, SettledStays
    <2>3. ASSUME NEW i, i = Len(settled) + 1
          PROVE  Suits(awaited[settled[i].call], settled[i].result)'
      <3>1. /\ awaited'[settled'[i].call] = w
            /\ settled'[i].result = Server!TimedOut
        BY <1>2, <2>1, <2>3 DEF w, Cmd
      <3>2. w \in abandoned'
        BY <1>2
      <3>3. QED
        BY <1>3, <3>1, <3>2 DEF Suits, Server!TimedOut
    <2>4. QED
      BY <2>1, <2>2, <2>3 DEF SettledInv
  <1>10. AskedInv'
    BY <1>1, <1>4 DEF AskedInv
  <1>11. QED
    BY <1>4, <1>6, <1>7, <1>8, <1>9, <1>10 DEF ReplyInv, AnswerInv

(* when a message finds no waiter,                                         *)
LEMMA KeptBack ==
  ASSUME Structure, ReplyInv, DeliverNext, Keeps
  PROVE  AnswerInv'
  <1> DEFINE h == Head(parsed)
  <1>1. /\ TypeOK /\ OrderInv /\ AskedInv /\ WaiterInv /\ MatchInv
        /\ AccountInv /\ ReachInv /\ SettledInv
    BY DEF Structure, ReplyInv, AnswerInv
  <1>2. /\ parsed # <<>> /\ parsed' = Tail(parsed)
        /\ UNCHANGED <<socket, toRunner, recv_buf, toGame, issued, link,
                       awaited, abandoned>>
    BY <1>1, DeliverEffect DEF gameVars, runnerVars
  <1>3. /\ \A j \in 1..Len(waiters) : h.type \notin waiters[j].types
        /\ pendingMessages' = Append(pendingMessages, h)
        /\ waiters' = waiters /\ settled' = settled
    BY DEF Keeps
  <1>4. /\ h \in Coming /\ h \in Server!Messages
        /\ Coming' = Coming \ {h} /\ Asked' = Asked
        /\ Kept' = IF pendingMessages' = pendingMessages THEN Kept
                   ELSE Kept \cup {h}
    <2>1. h \in Coming /\ h \in Server!Messages /\ Coming' = Coming \ {h}
      BY <1>1, <1>2, Oldest
    <2>2. /\ Asked' = Asked
          /\ Kept' = IF pendingMessages' = pendingMessages THEN Kept
                     ELSE Kept \cup {h}
      BY <1>1, <1>2, <1>3, OrderDelivery
    <2>3. QED
      BY <2>1, <2>2
  <1>5. pendingMessages \in Seq(Server!Messages)
    BY <1>1 DEF TypeOK, Server!TypeOK
  <1> HIDE DEF h
  <1>6. /\ Len(pendingMessages) \in Nat
        /\ Len(pendingMessages') = Len(pendingMessages) + 1
        /\ pendingMessages'[Len(pendingMessages) + 1] = h
        /\ \A j \in 1..Len(pendingMessages) :
             pendingMessages'[j] = pendingMessages[j]
    BY <1>3, <1>4, <1>5, Appended
  <1>7. Kept' = Kept \cup {h} /\ Kept' \cup Coming' = Kept \cup Coming
    BY <1>4, <1>6
  <1>8. Errors' = Errors
    BY <1>7 DEF Errors
  <1>9. MatchInv'
    <2>1. SUFFICES ASSUME NEW i \in 1..Len(pendingMessages'),
                          NEW j \in 1..Len(waiters)
                   PROVE  pendingMessages'[i].type \notin waiters[j].types
      BY <1>3 DEF MatchInv, Server!NoMatchMissed
    <2>2. CASE i \in 1..Len(pendingMessages)
      BY <1>1, <1>6, <2>2 DEF MatchInv, Server!NoMatchMissed
    <2>3. CASE i = Len(pendingMessages) + 1
      BY <1>3, <1>6, <2>3
    <2>4. QED
      BY <1>6, <2>2, <2>3
  <1>10. WaiterInv'
    BY <1>1, <1>2, <1>3 DEF WaiterInv, Cmd
  <1>11. AccountInv'
    BY <1>1, <1>2, <1>3, <1>4, <1>7, <1>8
       DEF AccountInv, Claimed, Stray, Refusal, Cmd
  <1>12. ReachInv'
    <2>1. ASSUME NEW j \in 1..Len(waiters)
          PROVE  /\ Cmd(j)' = Cmd(j) /\ Upset(Cmd(j))' = Upset(Cmd(j))
                 /\ Due(j)' = Due(j) /\ Unanswered(j)' = Unanswered(j)
      <3>1. Cmd(j)' = Cmd(j)
        BY <1>2, <1>3 DEF Cmd
      <3>2. Upset(Cmd(j))' = Upset(Cmd(j))
        BY <1>2, <1>8, <3>1 DEF Upset, Refusal
      <3>3. Due(j)' = Due(j) /\ Unanswered(j)' = Unanswered(j)
        BY <1>3, <1>4, <3>1 DEF Due, Unanswered
      <3>4. QED
        BY <3>1, <3>2, <3>3
    <2>2. QED
      BY <1>1, <1>2, <1>3, <1>4, <2>1 DEF ReachInv
  <1>13. SettledInv'
    BY <1>1, <1>2, <1>3, <1>8, SettledStays DEF SettledInv
  <1>14. AskedInv'
    BY <1>1, <1>4 DEF AskedInv
  <1>15. QED
    BY <1>9, <1>10, <1>11, <1>12, <1>13, <1>14 DEF AnswerInv

(* and when the game answers a command.                                    *)
LEMMA Replied ==
  ASSUME Structure, ReplyInv, NEW n \in 0..Len(toGame), Frame(n)
  PROVE  ReplyInv'
  <1>1. /\ TypeOK /\ OrderInv /\ AnswerInv /\ AskedInv /\ WaiterInv
        /\ MatchInv /\ AccountInv /\ ReachInv /\ SettledInv
    BY DEF Structure, ReplyInv, AnswerInv
  <1>2. /\ OrderInv' /\ issued' = issued
        /\ (\E m \in Game!Commands : Dispatches(m)) \/ Idles
        /\ \A m \in Game!Commands : Dispatches(m) =>
             \/ ~link /\ Coming' = Coming
             \/ link /\ \E type \in MayAnswer(m.type) :
                  Coming' = Coming \cup {[type |-> type, tag |-> m.tag]}
    BY <1>1, OrderFrame
  <1>3. /\ UNCHANGED <<socket, parsed, pendingMessages, waiters, settled,
                       awaited, abandoned, link>>
        /\ Kept' = Kept
    BY DEF Frame, serverVars, Game!UpdateConnected, Game!connVars, Kept
  <1>4. CASE Idles
    <2>1. Coming' = Coming /\ Asked' = Asked
      BY <1>3, <1>4 DEF Idles, Coming
    <2>2. QED
      BY <1>1, <1>2, <1>3, <2>1, QuietReplies DEF ReplyInv
  <1>5. ASSUME NEW m \in Game!Commands, Dispatches(m), ~link, Coming' = Coming
        PROVE  ReplyInv'
    <2>1. Asked' \subseteq Asked
      BY <1>5 DEF Dispatches
    <2>2. QED
      BY <1>1, <1>2, <1>3, <1>5, <2>1, QuietReplies DEF ReplyInv
  <1>6. ASSUME NEW m \in Game!Commands, Dispatches(m), link,
               NEW type \in MayAnswer(m.type),
               Coming' = Coming \cup {[type |-> type, tag |-> m.tag]}
        PROVE  AnswerInv'
    <2> DEFINE r == [type |-> type, tag |-> m.tag]
    <2>1. /\ r.type = type /\ r.tag = m.tag /\ Coming' = Coming \cup {r}
          /\ m \in Asked /\ Asked' = Asked \ {m}
          /\ \A y \in Asked : y # m => m.tag < y.tag
          /\ m.type \in Sent /\ m.tag \in Nat
      BY <1>1, <1>6 DEF Dispatches, AskedInv, Sent, Game!Commands
    <2>2. /\ type \in Awaits(m.type) \/ type = "ERROR"
          /\ type = "ERROR" => m.type \in {"CAPTURE_FRAME", "QUERY_STATE"}
      BY <1>6, <2>1, AnswerKinds
    <2> HIDE DEF r
    <2>3. ASSUME NEW t \in Sent, type \in Awaits(t)
          PROVE  /\ type \in Awaits(m.type) /\ Awaits(m.type) = Awaits(t)
                 /\ t \in {"CAPTURE_FRAME", "QUERY_STATE"} => m.type = t
      BY <2>1, <2>2, <2>3, AwaitKinds
    <2>4. Errors \subseteq Errors' /\ (type = "ERROR" => r \in Errors')
      BY <1>3, <2>1 DEF Errors
    <2>5. AskedInv' /\ WaiterInv' /\ MatchInv'
      <3>1. AskedInv'
        BY <1>1, <2>1 DEF AskedInv
      <3>2. WaiterInv'
        BY <1>1, <1>2, <1>3 DEF WaiterInv, Cmd
      <3>3. MatchInv'
        BY <1>1, <1>3 DEF MatchInv, Server!NoMatchMissed
      <3>4. QED
        BY <3>1, <3>2, <3>3
    <2>6. AccountInv'
      <3>1. ASSUME NEW tag, NEW types,
                   Claimed(tag, types) \/ Stray(tag, types)
            PROVE  Claimed(tag, types)' \/ Stray(tag, types)'
        BY <1>3, <2>4, <3>1 DEF Claimed, Stray, Refusal, Cmd
      <3>2. ASSUME NEW types \in AwaitSets, type \in types
            PROVE  Claimed(r.tag, types) \/ Stray(r.tag, types)
        <4>1. types = Awaits(m.type)
          BY <2>3, <3>2 DEF AwaitSets, Sent
        <4>2. QED
          BY <1>1, <2>1, <4>1 DEF AccountInv
      <3>3. ASSUME NEW x \in Kept' \cup Coming', NEW types \in AwaitSets,
                   x.type \in types
            PROVE  Claimed(x.tag, types)' \/ Stray(x.tag, types)'
        <4>1. Claimed(x.tag, types) \/ Stray(x.tag, types)
          BY <1>1, <1>3, <2>1, <3>2, <3>3 DEF AccountInv
        <4>2. QED
          BY <3>1, <4>1
      <3>4. ASSUME NEW x \in Asked'
            PROVE  \/ Claimed(x.tag, Awaits(x.type))'
                   \/ Stray(x.tag, Awaits(x.type))'
        <4>1. \/ Claimed(x.tag, Awaits(x.type))
              \/ Stray(x.tag, Awaits(x.type))
          BY <1>1, <2>1 DEF AccountInv
        <4>2. QED
          BY <3>1, <4>1
      <3>5. QED
        BY <3>3, <3>4 DEF AccountInv
    <2>7. ReachInv'
      <3>1. ASSUME NEW j \in 1..Len(waiters)
            PROVE  /\ ~Upset(Cmd(j))' =>
                        /\ \A x \in Coming' :
                             x.type \in waiters[j].types
                               /\ x.tag > Cmd(j).tag => Due(j)'
                        /\ link' /\ Cmd(j).type # "QUERY_STATE"
                             => Due(j)' \/ Unanswered(j)'
                   /\ Cmd(j).type = "QUERY_STATE" =>
                        /\ \A x \in Coming' :
                             x.type \in waiters[j].types => x.tag <= Cmd(j).tag
                        /\ \A y \in Asked' :
                             y.type = "QUERY_STATE" => y.tag <= Cmd(j).tag
        <4> DEFINE c == Cmd(j)
        <4>1. /\ c.type \in Sent /\ c.tag \in Nat
              /\ waiters[j].types = Awaits(c.type) /\ Cmd(j)' = c
          BY <1>1, <1>3 DEF WaiterInv, Sent, Game!Commands, Cmd
        <4>2. Upset(c) => Upset(Cmd(j))'
          BY <1>3, <2>4, <4>1 DEF Upset, Refusal
        <4>3. Due(j) => Due(j)'
          BY <1>3, <2>1, <4>1 DEF Due
        <4>4. ASSUME Unanswered(j)
              PROVE  \E y \in Asked : y.tag = c.tag
          BY <4>4 DEF Unanswered
        <4> HIDE DEF c
        <4>5. ASSUME type \in waiters[j].types, m.tag > c.tag,
                     ~Upset(Cmd(j))'
              PROVE  Due(j)'
          <5>1. c.type # "QUERY_STATE"
            <6>1. SUFFICES ASSUME c.type = "QUERY_STATE" PROVE FALSE
              OBVIOUS
            <6>2. m.type = "QUERY_STATE"
              BY <2>3, <4>1, <4>5, <6>1
            <6>3. m.tag <= c.tag
              BY <1>1, <2>1, <6>1, <6>2 DEF ReachInv, c
            <6>4. QED
              BY <2>1, <4>1, <4>5, <6>3
          <5>2. Due(j) \/ Unanswered(j)
            BY <1>1, <1>6, <4>2, <4>5, <5>1 DEF ReachInv, c
          <5>3. ASSUME NEW y \in Asked, y.tag = c.tag PROVE FALSE
            BY <2>1, <4>1, <4>5, <5>3
          <5>4. QED
            BY <4>3, <4>4, <5>2, <5>3
        <4>6. ASSUME NEW y \in Asked, Awaits(y.type) = waiters[j].types,
                     y.tag = c.tag, c.type # "QUERY_STATE", ~Upset(Cmd(j))'
              PROVE  Due(j)' \/ Unanswered(j)'
          <5>1. CASE y # m
            BY <1>3, <2>1, <4>1, <4>6, <5>1 DEF Unanswered
          <5>2. CASE y = m /\ type \in Awaits(m.type)
            BY <1>3, <2>1, <4>1, <4>6, <5>2 DEF Due
          <5>3. CASE y = m /\ type = "ERROR"
            <6>1. m.type = c.type
              BY <2>1, <2>2, <4>1, <4>6, <5>3, AwaitKinds
            <6>2. c.type = "CAPTURE_FRAME"
              BY <2>2, <4>6, <5>3, <6>1
            <6>3. r \in Errors' /\ r.tag <= c.tag
              BY <2>1, <2>4, <4>1, <4>6, <5>3
            <6>4. Upset(Cmd(j))'
              BY <4>1, <6>2, <6>3 DEF Upset, Refusal
            <6>5. QED
              BY <4>6, <6>4
          <5>4. QED
            BY <2>2, <5>1, <5>2, <5>3
        <4>7. ASSUME c.type = "QUERY_STATE", type \in waiters[j].types
              PROVE  m.tag <= c.tag
          <5>1. m.type = "QUERY_STATE"
            BY <2>3, <4>1, <4>7
          <5>2. QED
            BY <1>1, <2>1, <4>7, <5>1 DEF ReachInv, c
        <4>8. ASSUME ~Upset(Cmd(j))', NEW x \in Coming',
                     x.type \in waiters[j].types, x.tag > c.tag
              PROVE  Due(j)'
          BY <1>1, <2>1, <4>2, <4>3, <4>5, <4>8 DEF ReachInv, c
        <4>9. ASSUME ~Upset(Cmd(j))', link, c.type # "QUERY_STATE"
              PROVE  Due(j)' \/ Unanswered(j)'
          <5>1. Due(j) \/ Unanswered(j)
            BY <1>1, <4>2, <4>9 DEF ReachInv, c
          <5>2. CASE Unanswered(j)
            <6>1. PICK y \in Asked :
                    Awaits(y.type) = waiters[j].types /\ y.tag = c.tag
              BY <5>2 DEF Unanswered, c
            <6>2. QED
              BY <4>6, <4>9, <6>1
          <5>3. QED
            BY <4>3, <5>1, <5>2
        <4>10. ASSUME c.type = "QUERY_STATE", NEW x \in Coming',
                      x.type \in waiters[j].types
               PROVE  x.tag <= c.tag
          BY <1>1, <2>1, <4>7, <4>10 DEF ReachInv, c
        <4>11. ASSUME c.type = "QUERY_STATE", NEW y \in Asked',
                      y.type = "QUERY_STATE"
               PROVE  y.tag <= c.tag
          BY <1>1, <2>1, <4>11 DEF ReachInv, c
        <4>12. QED
          BY <1>3, <4>8, <4>9, <4>10, <4>11 DEF c
      <3>2. \A j \in 1..Len(waiters) : Cmd(j)' = Cmd(j)
        BY <1>3 DEF Cmd
      <3>3. QED
        BY <1>3, <3>1, <3>2 DEF ReachInv
    <2>8. SettledInv'
      BY <1>1, <1>2, <1>3, <2>4, SettledStays DEF SettledInv
    <2>9. QED
      BY <2>5, <2>6, <2>7, <2>8 DEF AnswerInv
  <1>7. QED
    BY <1>2, <1>4, <1>5, <1>6 DEF ReplyInv

(* Only a query sends QUERY_STATE.                                         *)
LEMMA QueryOnly ==
  ASSUME Structure, NEW c \in Calls, todo[c] # <<>>,
         NEW k \in 1..Len(Steps(Call(c))),
         Steps(Call(c))[k].type = "QUERY_STATE"
  PROVE  Call(c).op = "queryState"
  <1> DEFINE call == Call(c)
             plan == Steps(call)
  <1>1. /\ call \in APICalls /\ (call.op = "waitFrames" => call.n > 0)
        /\ lastCrankAngle \in Int
    BY FirstCall DEF Structure, TypeOK
  <1>2. call.op \in APIOps /\ call.n \in Nat
    BY <1>1 DEF APICalls
  <1> HIDE DEF call
  <1>3. /\ plan \in Seq(SentSteps) /\ Len(plan) \in Nat
        /\ call.op = "waitFrames" =>
             /\ Len(plan) = call.n
             /\ \A i \in 1..call.n : plan[i] = Step("PING")
        /\ call.op = "tap" =>
             /\ Len(plan) = call.n + 2
             /\ plan[1] = Inject(call.buttons, lastCrankAngle)
             /\ \A i \in 2..(call.n + 1) : plan[i] = Step("PING")
             /\ plan[call.n + 2] = Step("RELEASE_INPUT")
        /\ call.op = "pressButtons" =>
             plan = <<Inject(call.buttons, lastCrankAngle)>>
        /\ call.op = "setCrank" => plan = <<Inject({}, call.crank)>>
        /\ call.op = "rotateCrank" =>
             plan = <<Inject({}, CrankBase + call.crank)>>
        /\ call.op = "releaseInput" => plan = <<Step("RELEASE_INPUT")>>
        /\ call.op = "screenshot" => plan = <<Step("CAPTURE_FRAME")>>
    BY <1>1, PlanShape
  <1>4. plan[k].type = "QUERY_STATE" /\ k \in 1..Len(plan)
    BY DEF call
  <1> HIDE DEF plan
  <1>5. /\ \A type : Step(type).type = type
        /\ \A b, crank : Inject(b, crank).type = "INJECT_INPUT"
    BY DEF Step, Inject
  <1>6. CASE call.op = "waitFrames"
    BY <1>3, <1>4, <1>5, <1>6
  <1>7. CASE call.op = "tap"
    <2>1. k = 1 \/ k \in 2..(call.n + 1) \/ k = call.n + 2
      BY <1>2, <1>3, <1>4, <1>7
    <2>2. QED
      BY <1>3, <1>4, <1>5, <1>7, <2>1
  <1>8. CASE call.op \in {"pressButtons", "setCrank", "rotateCrank",
                          "releaseInput", "screenshot"}
    <2>1. PICK step : plan = <<step>> /\ step.type # "QUERY_STATE"
      BY <1>3, <1>5, <1>8
    <2>2. k = 1 /\ plan[1] = step
      BY <1>4, <2>1
    <2>3. QED
      BY <1>4, <2>1, <2>2
  <1>9. QED
    BY <1>2, <1>6, <1>7, <1>8 DEF call, APIOps, InputOps

(* While a query waits, no other is sent.                                  *)
LEMMA OneQuery ==
  ASSUME Structure, QueryGuardHolds, NEW c, NEW k, NEW queue,
         Sending(c, k, queue), Steps(Call(c))[k].type = "QUERY_STATE",
         NEW j \in 1..Len(waiters), Cmd(j).type = "QUERY_STATE"
  PROVE  FALSE
  <1> DEFINE d == waiters[j].call
  <1>1. /\ TypeOK /\ d \in Calls /\ Running(d) /\ d # c
        /\ c \in Calls /\ todo[c] # <<>> /\ k \in 1..Len(Steps(Call(c)))
        /\ Call(c).op = "queryState" /\ queryInFlight => Running(c)
    BY QueueTypes DEF Structure, CallInv, Sending
  <1>2. Call(c).op = "queryState"
    BY <1>1, QueryOnly
  <1>3. awaited[d].type = "QUERY_STATE"
    BY DEF Cmd
  <1> HIDE DEF d
  <1>4. todo[d] # <<>>
    BY <1>1 DEF TypeOK, Running
  <1>5. /\ At(d) \in 1..Len(Steps(Call(d)))
        /\ Steps(Call(d))[At(d)].type = "QUERY_STATE"
    BY <1>1, <1>3 DEF Structure, ProgressInv, Sends
  <1>6. Call(d).op = "queryState"
    BY <1>1, <1>4, <1>5, QueryOnly
  <1>7. d \in Querying
    BY <1>1, <1>6 DEF Querying, Running, Call
  <1>8. c \in Querying
    BY <1>1, <1>2, <1>7 DEF QueryGuardHolds, Querying, Running, Call
  <1>9. QED
    BY <1>1, <1>7, <1>8 DEF QueryGuardHolds

(* Those that wait when a command is sent.                                 *)
LEMMA WaitersStay ==
  ASSUME TypeOK, WaiterInv, issued' = IF link THEN issued + 1 ELSE issued,
         link' = link, NEW i \in 1..Len(waiters), NEW j \in 1..Len(waiters)
  PROVE  /\ waiters[j].types = Awaits(Cmd(j).type)
         /\ Cmd(j) \in Game!Commands /\ Cmd(j).type \in Sent
         /\ Cmd(j).tag \in Nat /\ Cmd(j).tag <= issued + 1
         /\ link => Cmd(j).tag <= issued
         /\ Cmd(j).tag \in 1..(issued' + 1)
         /\ Cmd(j).tag = issued' + 1 => ~link'
         /\ i < j => Cmd(i).tag < Cmd(j).tag \/ Cmd(j).tag = issued' + 1
  <1>1. issued \in Nat /\ link \in BOOLEAN
    BY DEF TypeOK, Game!TypeOK
  <1>2. /\ waiters[j].types = Awaits(Cmd(j).type)
        /\ Cmd(j) \in Game!Commands /\ Cmd(j).type # "UNKNOWN"
        /\ Cmd(j).tag \in 1..(issued + 1)
        /\ Cmd(j).tag = issued + 1 => ~link
        /\ i < j => Cmd(i).tag < Cmd(j).tag \/ Cmd(j).tag = issued + 1
    BY DEF WaiterInv
  <1>3. Cmd(j).type \in Sent
    BY <1>2 DEF Sent, Game!Commands
  <1>4. CASE link
    <2>1. issued' = issued + 1
      BY <1>4
    <2>2. QED
      BY <1>1, <1>2, <1>3, <1>4, <2>1
  <1>5. CASE ~link
    <2>1. issued' = issued
      BY <1>5
    <2>2. QED
      BY <1>1, <1>2, <1>3, <1>5, <2>1
  <1>6. QED
    BY <1>1, <1>4, <1>5

(* A call sends a command: the call claims its reply, or takes a stray.    *)
LEMMA Asks ==
  ASSUME Structure, QueryGuardHolds, ReplyInv, NEW c, NEW k, NEW queue,
         Sending(c, k, queue)
  PROVE  ReplyInv'
  <1>0. PICK step, cmd, types, N :
          /\ step = Steps(Call(c))[k] /\ cmd = Command(step)
          /\ types = Awaits(step.type) /\ N = Len(waiters) + 1
    OBVIOUS
  <1>1. /\ TypeOK /\ OrderInv /\ AskedInv /\ WaiterInv /\ MatchInv
        /\ AccountInv /\ ReachInv /\ SettledInv
    BY DEF Structure, ReplyInv, AnswerInv
  <1>2. /\ c \in Calls /\ step \in SentSteps /\ SendAndWait(c, step, queue)
        /\ abandoned' = abandoned
        /\ queue \in Seq(Server!Outcomes)
        /\ \A i \in 1..Len(queue) :
             queue[i].call # c /\ \E j \in 1..Len(settled) : queue[i] = settled[j]
        /\ \A j \in 1..Len(waiters) : waiters[j].call # c
    <2>1. /\ c \in Calls /\ Steps(Call(c)) \in Seq(SentSteps)
          /\ k \in 1..Len(Steps(Call(c))) /\ SendAndWait(c, step, queue)
      BY <1>0 DEF Sending
    <2>2. step \in SentSteps
      BY <1>0, <2>1, ElementOfSeq
    <2>3. QED
      BY <2>1, <2>2 DEF Sending
  <1>3. /\ cmd \in Game!Commands /\ cmd.tag = issued + 1 /\ cmd.wellFormed
        /\ cmd.type = step.type /\ Written(cmd)
        /\ \/ \E l \in 1..Len(pendingMessages) : Takes(c, types, queue, l)
           \/ Waits(c, types, queue)
        /\ awaited' = [awaited EXCEPT ![c] = cmd]
        /\ socket' = socket /\ parsed' = parsed
    BY <1>0, <1>1, <1>2, SendEffect DEF Sends
  <1>4. cmd.type \in Sent /\ types = Awaits(cmd.type) /\ types \in AwaitSets
    BY <1>0, <1>2, <1>3, AwaitKinds DEF Sent, SentSteps
  <1>5. /\ issued \in Nat /\ link \in BOOLEAN /\ link' = link
        /\ Len(waiters) \in Nat /\ waiters \in Seq(Server!Waiters)
        /\ pendingMessages \in Seq(Server!Messages)
        /\ awaited \in [Calls -> CommandOrNothing]
        /\ \A j \in 1..Len(waiters) : waiters[j].call \in Calls
        /\ \A j \in 1..Len(settled) : settled[j].call \in Calls
    BY <1>1, <1>3, QueueTypes, LenProperties
       DEF TypeOK, Game!TypeOK, Server!TypeOK, Written
  <1>6. /\ awaited'[c] = cmd
        /\ \A d \in Calls : d # c => awaited'[d] = awaited[d]
    BY <1>2, <1>3, <1>5
  <1>7. ASSUME NEW j \in 1..Len(waiters), waiters'[j] = waiters[j]
        PROVE  Cmd(j)' = Cmd(j)
    BY <1>2, <1>5, <1>6, <1>7 DEF Cmd
  <1>8. /\ \A x \in Kept \cup Coming : x.tag \in 1..issued
        /\ \A x \in Asked : x.tag \in 1..issued
    BY <1>1 DEF OrderInv
  (* what has been settled *)
  <1>9. ASSUME NEW i \in 1..Len(queue), settled'[i] = queue[i],
               Errors' = Errors, issued' \in {issued, issued + 1}
        PROVE  Suits(awaited[settled[i].call], settled[i].result)'
    <2>1. PICK j \in 1..Len(settled) :
            queue[i] = settled[j] /\ settled[j].call # c
      BY <1>2
    <2>2. awaited'[settled[j].call] = awaited[settled[j].call]
      BY <1>5, <1>6, <2>1
    <2>3. QED
      BY <1>1, <1>2, <1>9, <2>1, <2>2, SettledStays
  (* the waiters of before                                                 *)
  <1>10. ASSUME NEW j \in 1..Len(waiters), waiters'[j] = waiters[j],
                Coming' = Coming, Errors' = Errors,
                Asked' = IF link THEN Asked \cup {cmd} ELSE Asked
         PROVE  /\ ~Upset(Cmd(j))' =>
                     /\ \A x \in Coming' :
                          x.type \in waiters'[j].types
                            /\ x.tag > Cmd(j)'.tag => Due(j)'
                     /\ link' /\ Cmd(j)'.type # "QUERY_STATE"
                          => Due(j)' \/ Unanswered(j)'
                /\ Cmd(j)'.type = "QUERY_STATE" =>
                     /\ \A x \in Coming' :
                          x.type \in waiters'[j].types => x.tag <= Cmd(j)'.tag
                     /\ \A y \in Asked' :
                          y.type = "QUERY_STATE" => y.tag <= Cmd(j)'.tag
    <2>1. Cmd(j)' = Cmd(j)
      BY <1>7, <1>10
    <2>2. Upset(Cmd(j))' = Upset(Cmd(j))
      BY <1>2, <1>10, <2>1 DEF Upset, Refusal
    <2>3. Due(j)' = Due(j) /\ (Unanswered(j) => Unanswered(j)')
      BY <1>10, <2>1 DEF Due, Unanswered
    <2>4. ASSUME Cmd(j).type = "QUERY_STATE", NEW y \in Asked',
                 y.type = "QUERY_STATE"
          PROVE  y.tag <= Cmd(j).tag
      <3>1. cmd.type # "QUERY_STATE"
        BY <1>0, <1>3, <2>4, OneQuery
      <3>2. y \in Asked
        BY <1>10, <2>4, <3>1
      <3>3. QED
        BY <1>1, <2>4, <3>2 DEF ReachInv
    <2>5. QED
      BY <1>1, <1>5, <1>10, <2>1, <2>2, <2>3, <2>4 DEF ReachInv
  <1>11. CASE Waits(c, types, queue)
    <2> DEFINE w == [call |-> c, types |-> types]
    <2>1. /\ \A i \in 1..Len(pendingMessages) :
               pendingMessages[i].type \notin types
          /\ waiters' = Append(waiters, w) /\ settled' = queue
          /\ pendingMessages' = pendingMessages
      BY <1>11 DEF Waits
    <2>2. /\ Len(waiters') = N /\ waiters'[N] = w
          /\ \A j \in 1..Len(waiters) : waiters'[j] = waiters[j]
          /\ 1..Len(waiters') = 1..Len(waiters) \cup {N}
      <3>1. types \in SUBSET Game!ReplyTypes
        BY <1>4, AwaitsReplies DEF Sent
      <3>2. w \in Server!Waiters
        BY <1>2, <3>1 DEF Server!Waiters
      <3>3. QED
        BY <1>0, <1>5, <2>1, <3>2, Appended
    <2>3. Kept' = Kept /\ Rising(pendingMessages')
      BY <1>1, <2>1 DEF Kept, OrderInv
    <2>4. /\ OrderInv' /\ Coming' = Coming
          /\ issued' = IF link THEN issued + 1 ELSE issued
          /\ Asked' = IF link THEN Asked \cup {cmd} ELSE Asked
      BY <1>1, <1>3, <2>3, OrderSent
    <2>5. Errors' = Errors /\ issued' \in {issued, issued + 1}
      BY <2>3, <2>4 DEF Errors
    <2>6. Cmd(N)' = cmd /\ waiters'[N].types = types
      <3>1. w.call = c /\ w.types = types
        OBVIOUS
      <3> HIDE DEF w
      <3>2. QED
        BY <1>6, <2>2, <3>1 DEF Cmd
    <2>7. \A j \in 1..Len(waiters) : Cmd(j)' = Cmd(j)
      BY <1>7, <2>2
    <2> HIDE DEF w
    <2>8. AskedInv'
      BY <1>1, <1>3, <1>4, <2>4 DEF AskedInv, Sent
    <2>9. WaiterInv'
      <3>1. ASSUME NEW j \in 1..Len(waiters)
            PROVE  /\ waiters'[j].types = Awaits(Cmd(j)'.type)
                   /\ Cmd(j)' \in Game!Commands /\ Cmd(j)'.type # "UNKNOWN"
                   /\ Cmd(j)'.tag \in 1..(issued' + 1)
                   /\ Cmd(j)'.tag = issued' + 1 => ~link'
        BY <1>1, <1>5, <2>2, <2>4, <2>7, WaitersStay DEF Sent
      <3>2. /\ cmd.tag \in 1..(issued' + 1)
            /\ cmd.tag = issued' + 1 => ~link'
            /\ \A j \in 1..Len(waiters) :
                 Cmd(j).tag < cmd.tag \/ cmd.tag = issued' + 1
        <4>1. CASE link
          <5>1. issued' = issued + 1
            BY <2>4, <4>1
          <5>2. \A j \in 1..Len(waiters) :
                  Cmd(j).tag \in Nat /\ Cmd(j).tag <= issued
            BY <1>1, <1>5, <2>4, <4>1, WaitersStay
          <5>3. QED
            BY <1>3, <1>5, <4>1, <5>1, <5>2
        <4>2. CASE ~link
          <5>1. issued' = issued
            BY <2>4, <4>2
          <5>2. QED
            BY <1>3, <1>5, <4>2, <5>1
        <4>3. QED
          BY <1>5, <4>1, <4>2
      <3>3. \A i, j \in 1..Len(waiters) :
              i < j => Cmd(i).tag < Cmd(j).tag \/ Cmd(j).tag = issued' + 1
        BY <1>1, <1>5, <2>4, WaitersStay
      <3>4. \A i, j \in 1..Len(waiters') :
              i < j => Cmd(i)'.tag < Cmd(j)'.tag \/ Cmd(j)'.tag = issued' + 1
        <4>1. \A i \in 1..Len(waiters) : i < N /\ i \in Nat
          BY <1>0, <1>5
        <4>2. N \in Nat
          BY <1>0, <1>5
        <4>3. QED
          BY <2>2, <2>6, <2>7, <3>2, <3>3, <4>1, <4>2
      <3>5. \A j \in 1..Len(waiters') :
              /\ waiters'[j].types = Awaits(Cmd(j)'.type)
              /\ Cmd(j)' \in Game!Commands /\ Cmd(j)'.type # "UNKNOWN"
              /\ Cmd(j)'.tag \in 1..(issued' + 1)
              /\ Cmd(j)'.tag = issued' + 1 => ~link'
        BY <1>3, <1>4, <2>2, <2>6, <3>1, <3>2 DEF Sent
      <3>6. QED
        BY <3>4, <3>5 DEF WaiterInv
    <2>10. MatchInv'
      BY <1>1, <2>1, <2>2, <2>6 DEF MatchInv, Server!NoMatchMissed
    <2>11. AccountInv'
      <3>1. ASSUME NEW tag, NEW ts, Claimed(tag, ts) \/ Stray(tag, ts)
            PROVE  Claimed(tag, ts)' \/ Stray(tag, ts)'
        BY <1>2, <2>2, <2>5, <2>7, <3>1 DEF Claimed, Stray, Refusal
      <3>2. Claimed(cmd.tag, Awaits(cmd.type))'
        BY <1>4, <2>2, <2>6 DEF Claimed
      <3>3. ASSUME NEW x \in Kept' \cup Coming', NEW ts \in AwaitSets,
                   x.type \in ts
            PROVE  Claimed(x.tag, ts)' \/ Stray(x.tag, ts)'
        BY <1>1, <2>3, <2>4, <3>1, <3>3 DEF AccountInv
      <3>4. ASSUME NEW x \in Asked'
            PROVE  \/ Claimed(x.tag, Awaits(x.type))'
                   \/ Stray(x.tag, Awaits(x.type))'
        <4>1. CASE x \in Asked
          BY <1>1, <3>1, <4>1 DEF AccountInv
        <4>2. CASE x = cmd
          BY <3>2, <4>2
        <4>3. QED
          BY <2>4, <3>4, <4>1, <4>2
      <3>5. QED
        BY <3>3, <3>4 DEF AccountInv
    <2>12. ReachInv'
      <3>1. /\ \A x \in Coming' :
                 x.type \in waiters'[N].types /\ x.tag > Cmd(N)'.tag => Due(N)'
            /\ \A x \in Coming' :
                 x.type \in waiters'[N].types => x.tag <= Cmd(N)'.tag
            /\ \A y \in Asked' :
                 y.type = "QUERY_STATE" => y.tag <= Cmd(N)'.tag
        BY <1>3, <1>5, <1>8, <2>4, <2>6
      <3>2. link => Unanswered(N)'
        BY <1>4, <2>4, <2>6 DEF Unanswered
      <3>3. QED
        BY <1>5, <1>10, <2>2, <2>4, <2>5, <3>1, <3>2 DEF ReachInv
    <2>13. SettledInv'
      BY <1>9, <2>1, <2>5 DEF SettledInv
    <2>14. QED
      BY <2>4, <2>8, <2>9, <2>10, <2>11, <2>12, <2>13 DEF ReplyInv, AnswerInv
  <1>12. ASSUME NEW l \in 1..Len(pendingMessages), Takes(c, types, queue, l)
         PROVE  ReplyInv'
    <2> DEFINE m == pendingMessages[l]
               e == [call |-> c, result |-> m]
    <2>1. /\ m.type \in types /\ waiters' = waiters
          /\ pendingMessages' = RemoveAt(pendingMessages, l)
          /\ settled' = Append(queue, e)
      BY <1>12 DEF Takes
    <2>2. /\ m \in Kept /\ Kept' = Kept \ {m} /\ Rising(pendingMessages')
          /\ m \in Server!Messages
      <3>1. m \in Kept /\ Kept' = Kept \ {m} /\ Rising(pendingMessages')
        BY <1>1, <2>1, KeptOnce
      <3>2. QED
        BY <1>1, <3>1, WhatIsOnItsWay
    <2>3. /\ OrderInv' /\ Coming' = Coming
          /\ issued' = IF link THEN issued + 1 ELSE issued
          /\ Asked' = IF link THEN Asked \cup {cmd} ELSE Asked
      BY <1>1, <1>3, <2>2, OrderSent
    <2>4. /\ Len(queue) \in Nat /\ Len(settled') = Len(queue) + 1
          /\ settled'[Len(queue) + 1] = e
          /\ \A j \in 1..Len(queue) : settled'[j] = queue[j]
          /\ 1..Len(settled') = 1..Len(queue) \cup {Len(queue) + 1}
      <3>1. e \in Server!Outcomes
        BY <1>2, <2>2 DEF Server!Outcomes
      <3>2. QED
        BY <1>2, <2>1, <3>1, Appended
    <2>5. m # Server!TimedOut /\ m.tag \in 1..issued /\ m.type # "ERROR"
      BY <1>4, <1>8, <2>1, <2>2, TimesOut, AwaitKinds
    <2>6. ~Claimed(m.tag, types)
      BY <1>1, <2>1 DEF MatchInv, Server!NoMatchMissed, Claimed
    <2>7. e.call = c /\ e.result = m
      OBVIOUS
    <2>8. pendingMessages' \in Seq(Server!Messages)
      BY <1>5, <2>1, Removal
    <2> HIDE DEF m, e
    <2>9. Stray(m.tag, types)
      BY <1>1, <1>4, <2>1, <2>2, <2>6 DEF AccountInv
    <2>10. Upset(cmd) /\ Stray(cmd.tag, types)
      <3>1. ASSUME NEW a \in abandoned, a.tag <= m.tag
            PROVE  a.tag < cmd.tag /\ a.tag <= cmd.tag
        <4>1. a.tag \in Nat
          BY <1>1 DEF TypeOK, Game!Commands
        <4>2. QED
          BY <1>3, <1>5, <2>5, <3>1, <4>1
      <3>2. ASSUME NEW x \in Errors, x.tag <= m.tag
            PROVE  x.tag <= cmd.tag
        <4>1. x.tag \in Nat
          BY <1>1, WhatIsOnItsWay DEF Errors, Server!Messages
        <4>2. QED
          BY <1>3, <1>5, <2>5, <3>2, <4>1
      <3>3. types = {"FRAME_DATA"} => cmd.type = "CAPTURE_FRAME"
        BY <1>4, AwaitKinds
      <3>4. QED
        BY <1>4, <2>9, <3>1, <3>2, <3>3 DEF Upset, Stray, Refusal
    <2>11. Errors' = Errors /\ issued' \in {issued, issued + 1}
      BY <2>2, <2>3, <2>5 DEF Errors
    <2>12. \A j \in 1..Len(waiters) : Cmd(j)' = Cmd(j)
      BY <1>7, <2>1
    <2>13. AskedInv'
      BY <1>1, <1>3, <1>4, <2>3 DEF AskedInv, Sent
    <2>14. WaiterInv'
      <3>1. \A i, j \in 1..Len(waiters) :
              /\ waiters[j].types = Awaits(Cmd(j).type)
              /\ Cmd(j) \in Game!Commands /\ Cmd(j).type # "UNKNOWN"
              /\ Cmd(j).tag \in 1..(issued' + 1)
              /\ Cmd(j).tag = issued' + 1 => ~link'
              /\ i < j => Cmd(i).tag < Cmd(j).tag \/ Cmd(j).tag = issued' + 1
        BY <1>1, <1>5, <2>3, WaitersStay DEF Sent
      <3>2. QED
        BY <2>1, <2>12, <3>1 DEF WaiterInv
    <2>15. MatchInv'
      <3>1. SUFFICES ASSUME NEW i \in 1..Len(pendingMessages'),
                            NEW j \in 1..Len(waiters)
                     PROVE  pendingMessages'[i].type \notin waiters[j].types
        BY <2>1 DEF MatchInv, Server!NoMatchMissed
      <3>2. pendingMessages'[i] \in Kept
        <4>1. pendingMessages'[i] \in Kept'
          BY <2>8, Elements DEF Kept
        <4>2. QED
          BY <2>2, <4>1
      <3>3. PICK o \in 1..Len(pendingMessages) :
              pendingMessages'[i] = pendingMessages[o]
        BY <1>5, <3>2, Elements DEF Kept
      <3>4. QED
        BY <1>1, <3>3 DEF MatchInv, Server!NoMatchMissed
    <2>16. AccountInv'
      <3>1. ASSUME NEW tag, NEW ts, Claimed(tag, ts) \/ Stray(tag, ts)
            PROVE  Claimed(tag, ts)' \/ Stray(tag, ts)'
        BY <1>2, <2>1, <2>11, <2>12, <3>1 DEF Claimed, Stray, Refusal
      <3>2. ASSUME NEW x \in Kept' \cup Coming', NEW ts \in AwaitSets,
                   x.type \in ts
            PROVE  Claimed(x.tag, ts)' \/ Stray(x.tag, ts)'
        BY <1>1, <2>2, <2>3, <3>1, <3>2 DEF AccountInv
      <3>3. ASSUME NEW x \in Asked'
            PROVE  \/ Claimed(x.tag, Awaits(x.type))'
                   \/ Stray(x.tag, Awaits(x.type))'
        <4>1. CASE x \in Asked
          BY <1>1, <3>1, <4>1 DEF AccountInv
        <4>2. CASE x = cmd
          BY <1>4, <2>10, <3>1, <4>2
        <4>3. QED
          BY <2>3, <3>3, <4>1, <4>2
      <3>4. QED
        BY <3>2, <3>3 DEF AccountInv
    <2>17. ReachInv'
      BY <1>10, <2>1, <2>3, <2>11 DEF ReachInv
    <2>18. SettledInv'
      <3>1. ASSUME NEW i, i = Len(queue) + 1
            PROVE  Suits(awaited[settled[i].call], settled[i].result)'
        <4>1. /\ awaited'[settled'[i].call] = cmd /\ settled'[i].result = m
          BY <1>6, <2>4, <2>7, <3>1
        <4>2. Upset(awaited[settled[i].call])'
          BY <1>2, <2>10, <2>11, <4>1 DEF Upset, Refusal
        <4>3. m.tag \in 1..issued'
          BY <1>5, <2>5, <2>11
        <4>4. QED
          BY <1>3, <1>4, <2>1, <2>5, <4>1, <4>2, <4>3 DEF Suits, Sent
      <3>2. QED
        BY <1>9, <2>4, <2>11, <3>1 DEF SettledInv
    <2>19. QED
      BY <2>3, <2>13, <2>14, <2>15, <2>16, <2>17, <2>18 DEF ReplyInv, AnswerInv
  <1>13. QED
    BY <1>3, <1>11, <1>12

(* A step that moves no message.                                           *)
LEMMA NoMessage ==
  ASSUME Structure, ReplyInv, link' => link,
         UNCHANGED <<pendingMessages, parsed, toRunner, toGame, issued,
                     waiters, awaited, abandoned>>,
         recv_buf' = recv_buf \/ (recv_buf' = <<>> /\ ~link),
         \A i \in 1..Len(settled') :
           \E j \in 1..Len(settled) : settled'[i] = settled[j]
  PROVE  ReplyInv'
  <1>1. TypeOK /\ OrderInv /\ AnswerInv
    BY DEF Structure, ReplyInv
  <1>2. /\ OrderInv' /\ Kept' = Kept /\ Coming' = Coming
        /\ Asked' \subseteq Asked /\ (recv_buf' = recv_buf => Asked' = Asked)
    BY <1>1, OrderLoss
  <1>3. AnswerInv'
    BY <1>1, <1>2, QuietReplies
  <1>4. QED
    BY <1>2, <1>3 DEF ReplyInv

(* At first nothing is on its way.                                         *)
LEMMA RepliesAtFirst ==
  ASSUME Init
  PROVE  ReplyInv
  <1>1. ToSet(<<>>) = {} /\ Rising(<<>>)
    BY DEF ToSet, Rising
  <1>2. /\ Kept = {} /\ Coming = {} /\ Asked = {}
        /\ waiters = <<>> /\ settled = <<>> /\ pendingMessages = <<>>
    BY <1>1 DEF Init, Kept, Coming, Asked
  <1>3. OrderInv
    BY <1>1, <1>2 DEF OrderInv, Before, Init
  <1>4. AskedInv /\ WaiterInv /\ MatchInv /\ AccountInv /\ ReachInv /\ SettledInv
    BY <1>2 DEF AskedInv, WaiterInv, MatchInv, Server!NoMatchMissed,
       AccountInv, ReachInv, SettledInv
  <1>5. QED
    BY <1>3, <1>4 DEF ReplyInv, AnswerInv

(* Every step keeps the invariant about replies.                           *)
LEMMA RepliesKept ==
  ASSUME Structure, QueryGuardHolds, ReplyInv, [Next]_vars
  PROVE  ReplyInv'
  <1>1. TypeOK /\ OrderInv /\ AnswerInv
    BY DEF Structure, ReplyInv
  <1>2. ASSUME NEW c \in Calls, Begin(c)
        PROVE  ReplyInv'
    BY <1>2, BeginSends, Asks
  <1>3. ASSUME NEW c \in Calls, Refuse(c)
        PROVE  ReplyInv'
    BY <1>3, NoMessage DEF Refuse, serverVars, gameVars
  <1>4. ASSUME NEW i \in 1..Len(settled), NEW c \in Calls,
               Continue(i, c) \/ Resolve(i, c) \/ Reject(i, c)
        PROVE  ReplyInv'
    <2>1. CASE Continue(i, c)
      BY <2>1, ContinueSends, Asks
    <2>2. CASE Resolve(i, c) \/ Reject(i, c)
      <3>1. Ending(i, c) /\ Resuming(i, c)
        BY <2>2, CallEnds DEF Resolve, Reject
      <3>2. \A k \in 1..Len(settled') :
              \E j \in 1..Len(settled) : settled'[k] = settled[j]
        BY <3>1, Resumes DEF Ending
      <3>3. QED
        BY <3>1, <3>2, NoMessage DEF Ending, gameVars
    <2>3. QED
      BY <1>4, <2>1, <2>2
  <1>5. ASSUME NEW n \in 1..Len(toRunner), DataArrives(n)
        PROVE  ReplyInv'
    <2>1. OrderInv' /\ Coming' = Coming
      BY <1>1, <1>5, OrderArrival
    <2>2. UNCHANGED <<pendingMessages, waiters, settled, awaited, abandoned,
                      issued, link, recv_buf, toGame>>
      BY <1>5 DEF DataArrives, Server!OnData, gameVars, runnerVars
    <2>3. Kept' = Kept /\ Asked' = Asked
      BY <2>2 DEF Kept, Asked
    <2>4. QED
      BY <1>1, <2>1, <2>2, <2>3, QuietReplies DEF ReplyInv
  <1>6. CASE DeliverNext
    <2>1. /\ parsed # <<>> /\ parsed' = Tail(parsed)
          /\ (\E k \in 1..Len(waiters) : Delivers(k)) \/ Keeps
          /\ UNCHANGED <<toRunner, recv_buf, toGame, issued>>
      BY <1>1, <1>6, DeliverEffect DEF gameVars
    <2>2. OrderInv'
      BY <1>1, <2>1, OrderDelivery DEF Delivers, Keeps
    <2>3. AnswerInv'
      BY <1>6, <2>1, HandedOver, KeptBack
    <2>4. QED
      BY <2>2, <2>3 DEF ReplyInv
  <1>7. ASSUME NEW i \in 1..Len(waiters), TimerFires(i)
        PROVE  ReplyInv'
    BY <1>7, GivenUp
  <1>8. CASE Close
    BY <1>8, NoMessage DEF Close, Server!Close, runnerVars
  <1>9. ASSUME NEW n \in 0..Len(toGame), Frame(n)
        PROVE  ReplyInv'
    BY <1>9, Replied
  <1>10. CASE FrameLost
    BY <1>10, NoMessage
       DEF FrameLost, Game!UpdateLost, Game!replyVars, serverVars, runnerVars
  <1>11. CASE LoseLink
    BY <1>11, NoMessage
       DEF LoseLink, Game!LoseLink, Game!replyVars, Game!queueVars, serverVars,
           runnerVars
  <1>12. CASE UNCHANGED vars
    BY <1>12, NoMessage DEF vars, gameVars, serverVars, runnerVars
  <1>13. QED
    BY <1>2, <1>3, <1>4, <1>5, <1>6, <1>7, <1>8, <1>9, <1>10, <1>11, <1>12
       DEF Next

(* What upsets a command disturbs it, in the terms of Session.             *)
LEMMA UpsetIsDisturbed ==
  ASSUME TypeOK, NEW cmd, Upset(cmd)
  PROVE  Disturbed(cmd)
  <1>1. CASE \E a \in abandoned :
               a.tag < cmd.tag /\ Awaits(a.type) = Awaits(cmd.type)
    BY <1>1 DEF Disturbed
  <1>2. CASE cmd.type = "CAPTURE_FRAME" /\ Refusal(cmd.tag)
    <2>1. /\ pendingMessages \in Seq(Server!Messages)
          /\ parsed \in Seq(Server!Messages)
          /\ toRunner \in Seq(Server!Messages)
      BY DEF TypeOK, Server!TypeOK
    <2> DEFINE s == pendingMessages \o parsed
    <2>2. s \in Seq(Server!Messages) /\ ToSet(s) = Kept \cup ToSet(parsed)
      BY <2>1, Joined DEF Kept
    <2>3. Undelivered = s \o toRunner
      BY DEF Undelivered
    <2> HIDE DEF s
    <2>4. /\ Undelivered \in Seq(Server!Messages)
          /\ ToSet(Undelivered) = Kept \cup Coming
      BY <2>1, <2>2, <2>3, Joined DEF Coming
    <2>5. PICK x \in Kept \cup Coming : x.type = "ERROR" /\ x.tag <= cmd.tag
      BY <1>2 DEF Refusal, Errors
    <2>6. PICK i \in 1..Len(Undelivered) : Undelivered[i] = x
      BY <2>4, <2>5, Elements
    <2>7. QED
      BY <1>2, <2>5, <2>6 DEF Disturbed
  <1>3. QED
    BY <1>1, <1>2 DEF Upset

(* A reply that is not the call's own has one of the excuses OwnReply      *)
(* lists.                                                                  *)
LEMMA OwnReplyFollows ==
  ASSUME Structure, ReplyInv
  PROVE  OwnReply
  <1>1. TypeOK /\ SettledInv
    BY DEF Structure, ReplyInv, AnswerInv
  <1>2. SUFFICES ASSUME NEW i \in 1..Len(settled),
                        settled[i].result # Server!TimedOut,
                        ~Disturbed(awaited[settled[i].call])
                 PROVE  settled[i].result.tag = awaited[settled[i].call].tag
    BY DEF OwnReply
  <1>3. ~Upset(awaited[settled[i].call])
    BY <1>1, <1>2, UpsetIsDisturbed
  <1>4. QED
    BY <1>1, <1>2, <1>3 DEF SettledInv, Suits

(* A call is handed the reply to its own command, however the flows, the   *)
(* frames and the chunks interleave: messages and commands stay in the     *)
(* order of their tags on every leg of the way, and a reply is claimed by  *)
(* the waiter that asked for it until that waiter gives up (SendAndWait,   *)
(* onData, pdk_e2e_update).                                                *)
THEOREM OwnReplies == Spec => []OwnReply
  <1>1. Init => Structure /\ QueryGuardHolds /\ ReplyInv
    BY ShapeAtFirst, RepliesAtFirst DEF Init, QueryGuardHolds, Querying
  <1>2. Structure /\ QueryGuardHolds /\ ReplyInv /\ [Next]_vars
          => Structure' /\ QueryGuardHolds' /\ ReplyInv'
    BY ShapeKept, GuardKept, RepliesKept
  <1>3. Structure /\ ReplyInv => OwnReply
    BY OwnReplyFollows
  <1>4. QED
    BY <1>1, <1>2, <1>3, PTL DEF Spec

-----------------------------------------------------------------------------
(* The crank and the buttons.                                              *)
AskedInput == {x \in Asked : x.type \in InputTypes}

(* The game has dispatched the command.                                    *)
Answers == Kept \cup Coming \cup {settled[i].result : i \in 1..Len(settled)}
Answered(cmd) == \E x \in Answers : x.tag = cmd.tag

(* Whatever becomes of it, what a call has given up was a command, and     *)
(* what it awaits was sent.                                                *)
KnownInv ==
  /\ \A a \in abandoned : a.type # "UNKNOWN"
  /\ \A c \in Calls : Running(c) =>
       /\ awaited[c].tag \in 1..(issued + 1)
       /\ awaited[c].tag = issued + 1 => ~link

(* While no call drives the input, the runner knows the crank.  The call   *)
(* that does has one input command on its way at most: the one it awaits   *)
(* an answer to.  Once that is answered the game has done what it says;    *)
(* and a tap() holds its button from then on until its last command is     *)
(* dispatched.                                                             *)
Drives(c) == Running(c) /\ Call(c).op \in InputOps
Driven(c) ==
  /\ awaited[c].type \in InputTypes =>
       /\ \A x \in AskedInput : x.tag = awaited[c].tag
       /\ \A x \in Asked : x.tag = awaited[c].tag => Sends(x, awaited[c])
       /\ Answered(awaited[c]) =>
            /\ AskedInput = {}
            /\ injected_crank = awaited[c].crank
            /\ injected_buttons = awaited[c].buttons
  /\ awaited[c].type = "PING" =>
       AskedInput = {} /\ injected_crank = lastCrankAngle
  /\ Call(c).op = "tap" /\ At(c) > 1 =>
       \/ injected_buttons = Call(c).buttons
       \/ /\ awaited[c].type = "RELEASE_INPUT"
          /\ \A x \in Asked : x.tag # awaited[c].tag
InputInv ==
  ~InputAbandoned =>
    /\ ~InputRuns => AskedInput = {} /\ lastCrankAngle = injected_crank
    /\ \A c \in Calls : Drives(c) => Driven(c)

(* Each command that is answered has taken a frame of its own; the first   *)
(* of a tap() one that does not show the button yet.                       *)
Lasted(call, k) == IF call.op = "tap" THEN k - 2 ELSE k - 1
Timed(c) ==
  ~Excused(c) =>
    /\ frames[c] >= Lasted(Call(c), At(c))
    /\ Answered(awaited[c]) => frames[c] >= Lasted(Call(c), At(c)) + 1
FramesInv == \A c \in Calls : Running(c) => Timed(c)

-----------------------------------------------------------------------------
(* The crank and the buttons of the game.                                  *)

(* Every step keeps it.                                                    *)
LEMMA KnownKept ==
  ASSUME Structure, KnownInv, [Next]_vars
  PROVE  KnownInv'
  <1>1. TypeOK /\ issued \in Nat /\ link \in BOOLEAN
    BY DEF Structure, TypeOK, Game!TypeOK
  <1>2. ASSUME NEW c, NEW k, NEW queue, Sending(c, k, queue)
        PROVE  KnownInv'
    <2>1. /\ c \in Calls /\ Steps(Call(c))[k] \in SentSteps
          /\ SendAndWait(c, Steps(Call(c))[k], queue)
          /\ outcome' = [outcome EXCEPT ![c] = "running"]
          /\ abandoned' = abandoned
      BY <1>2, ElementOfSeq DEF Sending
    <2>2. PICK cmd : /\ cmd.tag = issued + 1 /\ Written(cmd)
                     /\ awaited' = [awaited EXCEPT ![c] = cmd]
      BY <1>1, <2>1, SendEffect
    <2>3. /\ link' = link
          /\ \/ link /\ issued' = issued + 1
             \/ ~link /\ issued' = issued
      BY <2>2 DEF Written
    <2>4. ASSUME NEW d \in Calls, outcome'[d] = "running"
          PROVE  /\ awaited'[d].tag \in 1..(issued' + 1)
                 /\ awaited'[d].tag = issued' + 1 => ~link'
      <3>1. CASE d = c
        <4>1. awaited'[d].tag = issued + 1
          BY <1>1, <2>2, <3>1 DEF TypeOK
        <4>2. QED
          BY <1>1, <2>3, <4>1
      <3>2. CASE d # c
        <4>1. awaited'[d] = awaited[d] /\ Running(d)
          BY <1>1, <2>1, <2>2, <2>4, <3>2 DEF TypeOK, Running
        <4>2. QED
          BY <1>1, <2>3, <4>1 DEF KnownInv
      <3>3. QED
        BY <3>1, <3>2
    <2>5. QED
      BY <2>1, <2>4 DEF KnownInv, Running
  <1>3. ASSUME UNCHANGED <<awaited, issued>>, link' => link,
               \A c \in Calls : outcome'[c] = "running" => outcome[c] = "running",
               \A a \in abandoned' : a.type # "UNKNOWN"
        PROVE  KnownInv'
    BY <1>3 DEF KnownInv, Running
  <1>4. \A a \in abandoned : a.type # "UNKNOWN"
    BY DEF KnownInv
  <1>5. ASSUME NEW i \in 1..Len(settled), NEW c \in Calls,
               Resolve(i, c) \/ Reject(i, c)
        PROVE  KnownInv'
    <2>1. Ending(i, c)
      BY <1>5, CallEnds
    <2>2. \A d \in Calls : outcome'[d] = "running" => outcome[d] = "running"
      BY <1>1, <2>1 DEF Ending, TypeOK
    <2>3. QED
      BY <1>3, <1>4, <2>1, <2>2 DEF Ending, gameVars
  <1>6. ASSUME NEW i \in 1..Len(waiters), TimerFires(i)
        PROVE  KnownInv'
    <2>1. awaited[waiters[i].call].type # "UNKNOWN"
      BY <1>1, AwaitsCommand, QueueTypes DEF Structure, CallInv
    <2>2. abandoned' = abandoned \cup {awaited[waiters[i].call]}
      BY <1>6 DEF TimerFires
    <2>3. \A a \in abandoned' : a.type # "UNKNOWN"
      BY <1>4, <2>1, <2>2
    <2>4. QED
      BY <1>3, <1>6, <2>3 DEF TimerFires, gameVars
  <1>7. ASSUME NEW c \in Calls, Refuse(c)
        PROVE  KnownInv'
    <2>1. \A d \in Calls : outcome'[d] = "running" => outcome[d] = "running"
      BY <1>1, <1>7 DEF Refuse, TypeOK
    <2>2. QED
      BY <1>3, <1>4, <1>7, <2>1 DEF Refuse, gameVars
  <1>8. ASSUME NEW n, Frame(n)
        PROVE  KnownInv'
    BY <1>3, <1>4, <1>8 DEF Frame, Game!UpdateConnected, Game!connVars
  <1>9. CASE FrameLost \/ LoseLink \/ Close \/ DeliverNext
               \/ (\E n \in 1..Len(toRunner) : DataArrives(n)) \/ UNCHANGED vars
    <2>1. /\ UNCHANGED <<awaited, issued, outcome, abandoned>>
          /\ link' = link \/ link' = FALSE
      BY <1>9 DEF FrameLost, LoseLink, Close, DeliverNext, DataArrives,
         Game!UpdateLost, Game!LoseLink, Game!queueVars, gameVars, runnerVars,
         vars
    <2>2. QED
      BY <1>1, <1>3, <1>4, <2>1
  <1>10. ASSUME NEW c \in Calls, Begin(c)
         PROVE  KnownInv'
    BY <1>2, <1>10, BeginSends
  <1>11. ASSUME NEW i \in 1..Len(settled), NEW c \in Calls, Continue(i, c)
         PROVE  KnownInv'
    BY <1>2, <1>11, ContinueSends
  <1>12. QED
    BY <1>5, <1>6, <1>7, <1>8, <1>9, <1>10, <1>11 DEF Next

(* One call drives the input at a time, and no other flow has one to make. *)
LEMMA OneDrives ==
  ASSUME Structure, NEW c \in Calls, NEW d \in Calls,
         Drives(c) \/ (todo[c] # <<>> /\ Call(c).op \in InputOps), Drives(d)
  PROVE  c = d
  <1>1. TypeOK /\ TodoInv
    BY DEF Structure
  <1>2. todo[c] # <<>> /\ todo[d] # <<>>
    BY <1>1 DEF Drives, Running, TypeOK
  <1>3. c \in InputFlows(todo) /\ d \in InputFlows(todo)
    BY <1>1, <1>2, FirstCall DEF Drives
  <1>4. QED
    BY <1>1, <1>3 DEF TodoInv

(* One call drives the input at a time.                                    *)
LEMMA DrivesAlone ==
  ASSUME Structure', NEW c \in Calls, NEW d \in Calls, Drives(c)', Drives(d)'
  PROVE  c = d
  <1>1. TypeOK' /\ TodoInv'
    BY DEF Structure
  <1>2. /\ todo'[c] # <<>> /\ todo'[d] # <<>>
        /\ todo' \in [Calls -> Seq(APICalls)]
    BY <1>1 DEF Drives, Running, TypeOK
  <1>3. /\ 1 \in 1..Len(todo'[c]) /\ Head(todo'[c]) = todo'[c][1]
        /\ 1 \in 1..Len(todo'[d]) /\ Head(todo'[d]) = todo'[d][1]
    BY <1>2
  <1>4. c \in InputFlows(todo') /\ d \in InputFlows(todo')
    BY <1>3 DEF InputFlows, Drives, Call
  <1>5. QED
    BY <1>1, <1>4 DEF TodoInv

(* Which commands the calls send that drive the input, and which the       *)
(* others.                                                                 *)
PlanFits(call, plan) ==
  /\ plan \in Seq(SentSteps) /\ Len(plan) \in Nat \ {0}
  /\ call.op \in APIOps /\ call.n \in Nat
  /\ \A k \in 1..Len(plan) :
       /\ call.op \notin InputOps => plan[k].type \notin InputTypes
       /\ call.op \in InputOps => plan[k].type \in InputTypes \cup {"PING"}
       /\ plan[k].type = "RELEASE_INPUT" =>
            plan[k].crank = NoInject /\ plan[k].buttons = {}
  /\ call.op \in InputOps \ {"tap"} =>
       Len(plan) = 1 /\ plan[1].type \in InputTypes
  /\ call.op = "pressButtons" => plan[1].crank = lastCrankAngle
  /\ call.op = "releaseInput" => plan[1].type = "RELEASE_INPUT"
  /\ call.op = "waitFrames" =>
       Len(plan) = call.n /\ \A k \in 1..Len(plan) : plan[k].type = "PING"
  /\ call.op \in {"screenshot", "queryState"} => Len(plan) = 1
  /\ call.op = "tap" =>
       /\ Len(plan) = call.n + 2 /\ plan[1].type = "INJECT_INPUT"
       /\ plan[1].buttons = call.buttons
       /\ plan[1].crank = lastCrankAngle
       /\ \A k \in 2..(Len(plan) - 1) : plan[k].type = "PING"
       /\ plan[Len(plan)].type = "RELEASE_INPUT"

(* The commands of a call fit what FramesInv and InputInv read off them.   *)
LEMMA InputPlans ==
  ASSUME Structure, NEW c \in Calls, todo[c] # <<>>
  PROVE  PlanFits(Call(c), Steps(Call(c)))
  <1> DEFINE call == Call(c)
             plan == Steps(call)
  <1>1. /\ call \in APICalls /\ (call.op = "waitFrames" => call.n > 0)
        /\ lastCrankAngle \in Int
    BY FirstCall DEF Structure, TypeOK
  <1>2. call.op \in APIOps /\ call.n \in Nat
    BY <1>1 DEF APICalls
  <1> HIDE DEF call
  <1>3. /\ plan \in Seq(SentSteps) /\ Len(plan) \in Nat \ {0}
        /\ call.op = "waitFrames" =>
             /\ Len(plan) = call.n
             /\ \A i \in 1..call.n : plan[i] = Step("PING")
        /\ call.op = "tap" =>
             /\ Len(plan) = call.n + 2
             /\ plan[1] = Inject(call.buttons, lastCrankAngle)
             /\ \A i \in 2..(call.n + 1) : plan[i] = Step("PING")
             /\ plan[call.n + 2] = Step("RELEASE_INPUT")
        /\ call.op = "pressButtons" =>
             plan = <<Inject(call.buttons, lastCrankAngle)>>
        /\ call.op = "setCrank" => plan = <<Inject({}, call.crank)>>
        /\ call.op = "rotateCrank" =>
             plan = <<Inject({}, CrankBase + call.crank)>>
        /\ call.op = "releaseInput" => plan = <<Step("RELEASE_INPUT")>>
        /\ call.op = "screenshot" => plan = <<Step("CAPTURE_FRAME")>>
        /\ call.op = "queryState" => plan = <<Step("QUERY_STATE")>>
    BY <1>1, PlanShape
  <1> HIDE DEF plan
  <1>4. /\ \A type : /\ Step(type).type = type /\ Step(type).buttons = {}
                     /\ Step(type).crank = NoInject
        /\ \A b, crank : /\ Inject(b, crank).type = "INJECT_INPUT"
                         /\ Inject(b, crank).buttons = b
                         /\ Inject(b, crank).crank = crank
    BY DEF Step, Inject
  <1>0. SUFFICES PlanFits(call, plan)
    BY DEF call, plan
  <1>5. CASE call.op = "waitFrames"
    BY <1>2, <1>3, <1>4, <1>5 DEF PlanFits, InputOps, InputTypes
  <1>6. CASE call.op = "tap"
    <2>1. \A k \in 1..Len(plan) :
            k = 1 \/ k \in 2..(call.n + 1) \/ k = call.n + 2
      BY <1>2, <1>3, <1>6
    <2>2. 2..(Len(plan) - 1) = 2..(call.n + 1)
      BY <1>2, <1>3, <1>6
    <2>3. ASSUME NEW k \in 1..Len(plan)
          PROVE  /\ plan[k].type \in InputTypes \cup {"PING"}
                 /\ plan[k].type = "RELEASE_INPUT" =>
                      plan[k].crank = NoInject /\ plan[k].buttons = {}
      BY <1>3, <1>4, <1>6, <2>1 DEF InputTypes
    <2>4. /\ Len(plan) = call.n + 2 /\ plan[1].type = "INJECT_INPUT"
          /\ plan[1].buttons = call.buttons
          /\ plan[1].crank = lastCrankAngle
          /\ plan[Len(plan)].type = "RELEASE_INPUT"
      BY <1>3, <1>4, <1>6
    <2>5. \A k \in 2..(Len(plan) - 1) : plan[k].type = "PING"
      <3>1. \A k \in 2..(call.n + 1) : plan[k] = Step("PING")
        BY <1>3, <1>6
      <3>2. QED
        BY <1>4, <2>2, <3>1
    <2>6. QED
      BY <1>2, <1>3, <1>6, <2>3, <2>4, <2>5 DEF PlanFits, InputOps
  <1>7. CASE call.op \notin {"waitFrames", "tap"}
    <2>1. PICK step : plan = <<step>>
      BY <1>2, <1>3, <1>7 DEF APIOps, InputOps
    <2>2. /\ Len(plan) = 1 /\ plan[1] = step
          /\ \A k \in 1..Len(plan) : plan[k] = step
      BY <2>1
    <2>3. /\ call.op \in {"pressButtons", "setCrank", "rotateCrank"} =>
               step.type = "INJECT_INPUT"
          /\ call.op = "pressButtons" => step.crank = lastCrankAngle
          /\ call.op = "releaseInput" =>
               /\ step.type = "RELEASE_INPUT"
               /\ step.crank = NoInject /\ step.buttons = {}
          /\ call.op = "screenshot" => step.type = "CAPTURE_FRAME"
          /\ call.op = "queryState" => step.type = "QUERY_STATE"
      <3>1. \A x, y : <<x>> = <<y>> => x = y
        OBVIOUS
      <3>2. QED
        BY <1>3, <1>4, <2>1, <3>1
    <2>4. QED
      BY <1>2, <1>3, <1>7, <2>2, <2>3 DEF PlanFits, APIOps, InputOps, InputTypes
  <1>8. QED
    BY <1>5, <1>6, <1>7

(* A running call stands in its plan.                                      *)
LEMMA RunsItsPlan ==
  ASSUME Structure, NEW c \in Calls, Running(c)
  PROVE  /\ todo[c] # <<>> /\ PlanFits(Call(c), Steps(Call(c)))
         /\ At(c) \in 1..Len(Steps(Call(c)))
         /\ Sends(awaited[c], Steps(Call(c))[At(c)])
         /\ steps[c] = SubSeq(Steps(Call(c)), At(c) + 1, Len(Steps(Call(c))))
         /\ (steps[c] = <<>> <=> At(c) = Len(Steps(Call(c))))
  <1> DEFINE plan == Steps(Call(c))
             k == At(c)
  <1>1. todo[c] # <<>>
    BY AwaitsCommand
  <1>2. PlanFits(Call(c), plan)
    BY <1>1, InputPlans
  <1>3. /\ k \in 1..Len(plan) /\ Sends(awaited[c], plan[k])
        /\ steps[c] = SubSeq(plan, k + 1, Len(plan))
        /\ k = Len(plan) - Len(steps[c])
    BY DEF Structure, ProgressInv, At
  <1>4. plan \in Seq(SentSteps) /\ Len(plan) \in Nat
    BY <1>2 DEF PlanFits
  <1> HIDE DEF plan, k
  <1>5. PICK left : left = steps[c]
    OBVIOUS
  <1>6. /\ plan \in Seq(SentSteps) /\ k \in 1..Len(plan)
        /\ left = SubSeq(plan, k + 1, Len(plan))
    BY <1>3, <1>4, <1>5
  <1>7. /\ left \in Seq(SentSteps) /\ Len(left) = Len(plan) - k
        /\ left = <<>> => k = Len(plan)
    <2>1. ASSUME NEW p \in Seq(SentSteps), NEW i \in 1..Len(p)
          PROVE  LET l == SubSeq(p, i + 1, Len(p))
                 IN  /\ l \in Seq(SentSteps) /\ Len(l) = Len(p) - i
                     /\ l = <<>> => i = Len(p)
      BY ONLY StepsLeft
    <2>2. LET l == SubSeq(plan, k + 1, Len(plan))
          IN  /\ l \in Seq(SentSteps) /\ Len(l) = Len(plan) - k
              /\ l = <<>> => k = Len(plan)
      BY <1>6, <2>1, Zenon
    <2>3. QED
      BY ONLY <1>6, <2>2
  <1>8. k = Len(plan) => left = <<>>
    <2>1. k = Len(plan) => Len(left) = 0
      BY <1>4, <1>7
    <2>2. QED
      BY <1>7, <2>1
  <1>9. QED
    BY <1>1, <1>2, <1>3, <1>5, <1>7, <1>8 DEF plan, k

(* No answer is to a command that has not been sent.                       *)
LEMMA AnswersSent ==
  ASSUME Structure, ReplyInv, NEW x \in Answers
  PROVE  x.tag \in 0..issued
  <1>1. TypeOK /\ OrderInv /\ SettledInv /\ issued \in Nat
    BY DEF Structure, ReplyInv, AnswerInv, TypeOK, Game!TypeOK
  <1>2. CASE x \in Kept \cup Coming
    BY <1>1, <1>2 DEF OrderInv
  <1>3. ASSUME NEW i \in 1..Len(settled), x = settled[i].result
        PROVE  x.tag \in 0..issued
    <2>1. x = Server!TimedOut \/ x.tag \in 1..issued
      BY <1>1, <1>3 DEF SettledInv, Suits
    <2>2. Server!TimedOut.tag = 0
      BY DEF Server!TimedOut
    <2>3. CASE x = Server!TimedOut
      BY <1>1, <2>2, <2>3
    <2>4. CASE x.tag \in 1..issued
      BY <1>1, <2>4
    <2>5. QED
      BY <2>1, <2>3, <2>4
  <1>4. QED
    BY <1>2, <1>3 DEF Answers

(* A call that resumes has the answer to its input command, unless one was *)
(* given up.                                                               *)
LEMMA InputAnswered ==
  ASSUME Structure, ReplyInv, ~InputAbandoned, NEW i \in 1..Len(settled),
         NEW c, c = settled[i].call, awaited[c].type \in InputTypes
  PROVE  /\ settled[i].result # Server!TimedOut
         /\ settled[i].result.type = "INPUT_ACK"
         /\ Answered(awaited[c])
  <1> DEFINE cmd == awaited[c]
             result == settled[i].result
  <1>1. Suits(cmd, result)
    BY DEF ReplyInv, AnswerInv, SettledInv
  <1>2. result \in Answers
    BY DEF Answers
  <1>3. cmd.type \in InputTypes
    OBVIOUS
  <1> HIDE DEF cmd, result
  <1>4. Awaits(cmd.type) = {"INPUT_ACK"} /\ cmd.type # "CAPTURE_FRAME"
    BY <1>3 DEF Awaits, InputTypes
  <1>5. cmd \notin abandoned
    BY <1>4 DEF InputAbandoned
  <1>6. ~Upset(cmd)
    BY <1>4 DEF Upset, InputAbandoned
  <1>7. result # Server!TimedOut /\ result.type = "INPUT_ACK"
        /\ result.tag = cmd.tag
    BY <1>1, <1>4, <1>5, <1>6 DEF Suits
  <1>8. QED
    BY <1>2, <1>7 DEF Answered, cmd, result

(* A step that does not touch the input of the game, nor what the call     *)
(* that drives it awaits.                                                  *)
LEMMA DriverKept ==
  ASSUME InputInv, abandoned \subseteq abandoned',
         UNCHANGED <<lastCrankAngle, injected_crank, injected_buttons>>,
         AskedInput' \subseteq AskedInput,
         \A c \in Calls :
           /\ Drives(c)' <=> Drives(c)
           /\ Drives(c) =>
                /\ todo'[c] = todo[c] /\ awaited'[c] = awaited[c]
                /\ steps'[c] = steps[c]
                /\ \A x \in Asked' : x.tag = awaited[c].tag => x \in Asked
                /\ awaited[c].type \in InputTypes /\ Answered(awaited[c])'
                     => Answered(awaited[c])
  PROVE  InputInv'
  <1>1. InputAbandoned => InputAbandoned'
    BY DEF InputAbandoned
  <1>2. InputRuns' <=> InputRuns
    <2>1. /\ InputRuns <=> \E c \in Calls : Drives(c)
          /\ InputRuns' <=> \E c \in Calls : Drives(c)'
      BY DEF InputRuns, Drives, Running, Call
    <2>2. QED
      BY <2>1
  <1>3. ASSUME NEW c \in Calls, Drives(c), Driven(c), AskedInput' \subseteq AskedInput
        PROVE  Driven(c)'
    <2>1. /\ Call(c)' = Call(c) /\ awaited'[c] = awaited[c]
          /\ \A x \in Asked' : x.tag = awaited[c].tag => x \in Asked
          /\ awaited[c].type \in InputTypes /\ Answered(awaited[c])'
               => Answered(awaited[c])
          /\ At(c)' = At(c)
      <3>1. Call(c)' = Call(c) /\ Steps(Call(c))' = Steps(Call(c))
        BY <1>3, SameSteps DEF Call
      <3>2. QED
        BY <1>3, <3>1 DEF At
    <2>2. QED
      BY <1>3, <2>1 DEF Driven
  <1>4. ASSUME ~InputAbandoned', ~InputRuns'
        PROVE  AskedInput' = {} /\ lastCrankAngle' = injected_crank'
    BY <1>1, <1>2, <1>4 DEF InputInv
  <1>5. ASSUME ~InputAbandoned', NEW c \in Calls, Drives(c)'
        PROVE  Driven(c)'
    BY <1>1, <1>3, <1>5 DEF InputInv
  <1>6. QED
    BY <1>4, <1>5 DEF InputInv

(* Answers do not come from nowhere: what a step adds to them is a time    *)
(* limit, or the reply to the command that a frame dispatches.             *)
LEMMA AnswersDelivered ==
  ASSUME Structure, ReplyInv, DeliverNext
  PROVE  Answers' \subseteq Answers /\ Errors \subseteq Errors'
  <1> DEFINE h == Head(parsed)
  <1>1. TypeOK /\ OrderInv
    BY DEF Structure, ReplyInv
  <1>2. /\ parsed # <<>> /\ parsed' = Tail(parsed) /\ toRunner' = toRunner
        /\ (\E k \in 1..Len(waiters) : Delivers(k)) \/ Keeps
        /\ UNCHANGED <<recv_buf, toGame, issued>>
    BY <1>1, DeliverEffect DEF gameVars
  <1>3. h \in Coming /\ Coming' = Coming \ {h}
    BY <1>1, <1>2, Oldest
  <1>4. Kept' \subseteq Kept \cup {h}
    BY <1>1, <1>2, OrderDelivery DEF Delivers, Keeps
  <1>5. ASSUME NEW i \in 1..Len(settled')
        PROVE  settled'[i].result \in Answers
    <2>1. CASE settled' = settled
      BY <1>5, <2>1 DEF Answers
    <2>2. CASE \E k \in 1..Len(waiters) : Delivers(k)
      <3>1. PICK e : settled' = Append(settled, e) /\ e.result = h
        BY <2>2 DEF Delivers
      <3>2. settled \in Seq(Server!Outcomes) /\ settled' \in Seq(Server!Outcomes)
        BY <1>1, DeliverTyped DEF TypeOK, Server!TypeOK, Structure
      <3>3. \/ i \in 1..Len(settled) /\ settled'[i] = settled[i]
            \/ settled'[i] = e
        BY <3>1, <3>2, LenProperties
      <3>4. QED
        BY <1>3, <3>1, <3>3 DEF Answers
    <2>3. QED
      BY <1>2, <2>1, <2>2 DEF Keeps
  <1>6. Answers' \subseteq Answers
    BY <1>3, <1>4, <1>5 DEF Answers
  <1>7. Errors \subseteq Errors'
    <2>1. ASSUME NEW k \in 1..Len(waiters), Delivers(k)
          PROVE  h.type # "ERROR" /\ Kept' = Kept
      <3>1. h.type \in Awaits(Cmd(k).type) /\ Cmd(k).type \in Sent
        BY <2>1 DEF Delivers, ReplyInv, AnswerInv, WaiterInv, Sent, Game!Commands
      <3>2. QED
        BY <2>1, <3>1, AwaitKinds DEF Delivers, Kept
    <2>2. Keeps => Kept' = Kept \cup {h}
      BY <1>1, <1>2, OrderDelivery DEF Keeps, Kept
    <2>3. QED
      BY <1>2, <1>3, <2>1, <2>2 DEF Errors
  <1>8. QED
    BY <1>6, <1>7

(* A timer adds no answer.                                                 *)
LEMMA AnswersTimedOut ==
  ASSUME Structure, NEW k \in 1..Len(waiters), TimerFires(k)
  PROVE  Answers' \subseteq Answers \cup {Server!TimedOut}
  <1>1. PICK e : settled' = Append(settled, e) /\ e.result = Server!TimedOut
    BY DEF TimerFires, Server!Timeout, Server!Settlement
  <1>2. Kept' = Kept /\ Coming' = Coming
    BY DEF TimerFires, Server!Timeout, Kept, Coming
  <1>3. settled \in Seq(Server!Outcomes)
    BY DEF Structure, TypeOK, Server!TypeOK
  <1>4. ASSUME NEW i \in 1..Len(settled')
        PROVE  settled'[i].result \in Answers \cup {Server!TimedOut}
    <2>1. \/ i \in 1..Len(settled) /\ settled'[i] = settled[i]
          \/ settled'[i] = e
      BY <1>1, <1>3, LenProperties
    <2>2. QED
      BY <1>1, <2>1 DEF Answers
  <1>5. QED
    BY <1>2, <1>4 DEF Answers

(* A call that sends adds no answer, and one command that is asked.        *)
LEMMA AnswersTaken ==
  ASSUME Structure, ReplyInv, NEW c, NEW k, NEW queue, Sending(c, k, queue)
  PROVE  /\ Answers' \subseteq Answers /\ Errors \subseteq Errors'
         /\ \E cmd \in Game!Commands :
              /\ cmd.tag = issued + 1 /\ Sends(cmd, Steps(Call(c))[k])
              /\ awaited' = [awaited EXCEPT ![c] = cmd]
              /\ Asked' = IF link THEN Asked \cup {cmd} ELSE Asked
              /\ UNCHANGED <<injected_crank, injected_buttons>>
  <1>1. TypeOK /\ OrderInv
    BY DEF Structure, ReplyInv
  <1>2. PICK step, cmd, types :
          step = Steps(Call(c))[k] /\ cmd = Command(step) /\ types = Awaits(step.type)
    OBVIOUS
  <1>3. /\ c \in Calls /\ step \in SentSteps /\ SendAndWait(c, step, queue)
        /\ queue \in Seq(Server!Outcomes)
        /\ \A i \in 1..Len(queue) : \E j \in 1..Len(settled) : queue[i] = settled[j]
    BY <1>2, ElementOfSeq DEF Sending
  <1>4. /\ cmd \in Game!Commands /\ cmd.tag = issued + 1 /\ Sends(cmd, step)
        /\ Written(cmd)
        /\ \/ \E l \in 1..Len(pendingMessages) : Takes(c, types, queue, l)
           \/ Waits(c, types, queue)
        /\ awaited' = [awaited EXCEPT ![c] = cmd]
        /\ parsed' = parsed
    BY <1>1, <1>2, <1>3, SendEffect
  <1>5. Kept' \subseteq Kept /\ Rising(pendingMessages')
    BY <1>1, <1>4, KeptOnce DEF Takes, Waits, Kept, OrderInv
  <1>6. Coming' = Coming /\ Asked' = IF link THEN Asked \cup {cmd} ELSE Asked
    BY <1>1, <1>4, <1>5, OrderSent
  <1>7. ASSUME NEW i \in 1..Len(settled')
        PROVE  settled'[i].result \in Answers
    <2>1. CASE settled' = queue
      BY <1>3, <1>7, <2>1 DEF Answers
    <2>2. ASSUME NEW l \in 1..Len(pendingMessages), Takes(c, types, queue, l)
          PROVE  settled'[i].result \in Answers
      <3>1. PICK e : settled' = Append(queue, e) /\ e.result = pendingMessages[l]
        BY <2>2 DEF Takes
      <3>2. \/ i \in 1..Len(queue) /\ settled'[i] = queue[i]
            \/ settled'[i] = e
        BY <1>3, <3>1, LenProperties
      <3>3. pendingMessages[l] \in Kept
        BY <1>1, <2>2, KeptOnce DEF Takes
      <3>4. QED
        BY <1>3, <3>1, <3>2, <3>3 DEF Answers
    <2>3. QED
      BY <1>4, <2>1, <2>2 DEF Waits
  <1>8. Answers' \subseteq Answers
    BY <1>5, <1>6, <1>7 DEF Answers
  <1>9. UNCHANGED <<injected_crank, injected_buttons>>
    BY <1>4 DEF Written
  <1>10. Errors \subseteq Errors'
    <2>1. ASSUME NEW l \in 1..Len(pendingMessages), Takes(c, types, queue, l)
          PROVE  /\ pendingMessages[l].type # "ERROR"
                 /\ Kept' = Kept \ {pendingMessages[l]}
      <3>1. /\ pendingMessages[l].type \in Awaits(step.type)
            /\ pendingMessages' = RemoveAt(pendingMessages, l)
        BY <1>2, <2>1 DEF Takes
      <3>2. step.type \in Sent
        BY <1>3 DEF SentSteps, Sent
      <3>3. QED
        BY <1>1, <3>1, <3>2, AwaitKinds, KeptOnce
    <2>2. QED
      BY <1>4, <1>6, <2>1 DEF Waits, Errors, Kept
  <1>11. QED
    BY <1>2, <1>4, <1>6, <1>8, <1>9, <1>10

(* A call that has sent its k-th command stands at it.                     *)
LEMMA Reached ==
  ASSUME TypeOK, NEW c, NEW k, NEW queue, Sending(c, k, queue)
  PROVE  At(c)' = k
  <1>1. PICK plan, left : plan = Steps(Call(c)) /\ left = steps'[c]
    OBVIOUS
  <1>2. /\ c \in Calls /\ todo' = todo /\ lastCrankAngle' = lastCrankAngle
        /\ plan \in Seq(SentSteps) /\ k \in 1..Len(plan)
        /\ left = SubSeq(plan, k + 1, Len(plan))
    BY <1>1 DEF Sending, TypeOK
  <1>3. Steps(Call(c))' = plan
    BY <1>1, <1>2, SameSteps
  <1>4. Len(plan) - Len(left) = k
    BY <1>2, StepsLeft
  <1>5. QED
    BY <1>1, <1>3, <1>4 DEF At

(* A time limit answers nothing.                                           *)
LEMMA NothingNew ==
  ASSUME KnownInv, issued \in Nat, NEW c \in Calls, Running(c),
         awaited'[c] = awaited[c],
         Answers' \subseteq Answers \cup {Server!TimedOut},
         Answered(awaited[c])'
  PROVE  Answered(awaited[c])
  <1>1. awaited[c].tag \in 1..(issued + 1)
    BY DEF KnownInv
  <1>2. PICK x \in Answers' : x.tag = awaited[c].tag
    BY DEF Answered
  <1>3. x # Server!TimedOut
    <2>1. Server!TimedOut.tag = 0
      BY DEF Server!TimedOut
    <2>2. x.tag # 0
      BY <1>1, <1>2
    <2>3. QED
      BY <2>1, <2>2
  <1>4. QED
    BY <1>2, <1>3 DEF Answered

(* A step that brings no answer and no command.                            *)
LEMMA QuietInput ==
  ASSUME KnownInv, InputInv, abandoned \subseteq abandoned', issued \in Nat,
         UNCHANGED <<lastCrankAngle, injected_crank, injected_buttons>>,
         Asked' \subseteq Asked,
         Answers' \subseteq Answers \cup {Server!TimedOut},
         \A c \in Calls :
           /\ Drives(c)' <=> Drives(c)
           /\ Drives(c) => /\ todo'[c] = todo[c] /\ awaited'[c] = awaited[c]
                           /\ steps'[c] = steps[c]
  PROVE  InputInv'
  <1>1. AskedInput' \subseteq AskedInput
    BY DEF AskedInput
  <1>2. ASSUME NEW c \in Calls, Drives(c), Answered(awaited[c])'
        PROVE  Answered(awaited[c])
    BY <1>2, NothingNew DEF Drives
  <1>3. QED
    BY <1>1, <1>2, DriverKept

(* A call begins that does not send input, or goes on.                     *)
LEMMA OtherSends ==
  ASSUME Structure, ReplyInv, KnownInv, InputInv, NEW c, NEW k, NEW queue,
         Sending(c, k, queue), Call(c).op \notin InputOps
  PROVE  InputInv'
  <1>1. /\ c \in Calls /\ todo[c] # <<>> /\ k \in 1..Len(Steps(Call(c)))
        /\ outcome' = [outcome EXCEPT ![c] = "running"]
        /\ steps' = [steps EXCEPT
             ![c] = SubSeq(Steps(Call(c)), k + 1, Len(Steps(Call(c))))]
        /\ UNCHANGED <<lastCrankAngle, todo, abandoned>>
    BY DEF Sending
  <1>2. TypeOK /\ OrderInv /\ issued \in Nat
    BY DEF Structure, ReplyInv, TypeOK, Game!TypeOK
  <1>3. Answers' \subseteq Answers
    BY AnswersTaken
  <1>4. PICK cmd \in Game!Commands :
          /\ cmd.tag = issued + 1 /\ Sends(cmd, Steps(Call(c))[k])
          /\ awaited' = [awaited EXCEPT ![c] = cmd]
          /\ Asked' = IF link THEN Asked \cup {cmd} ELSE Asked
          /\ UNCHANGED <<injected_crank, injected_buttons>>
    BY AnswersTaken
  <1>5. cmd.type \notin InputTypes
    BY <1>1, <1>4, InputPlans DEF PlanFits, Sends
  <1>6. AskedInput' \subseteq AskedInput
    BY <1>4, <1>5 DEF AskedInput
  <1>7. ASSUME NEW d \in Calls
        PROVE  Drives(d)' <=> Drives(d)
    BY <1>1, <1>2 DEF Drives, Running, Call, TypeOK
  <1>8. ASSUME NEW d \in Calls, Drives(d)
        PROVE  /\ todo'[d] = todo[d] /\ awaited'[d] = awaited[d]
               /\ steps'[d] = steps[d]
               /\ \A x \in Asked' : x.tag = awaited[d].tag => x \in Asked
               /\ Answered(awaited[d])' => Answered(awaited[d])
    <2>1. d # c
      BY <1>8 DEF Drives
    <2>2. /\ todo'[d] = todo[d] /\ awaited'[d] = awaited[d]
          /\ steps'[d] = steps[d]
      BY <1>1, <1>2, <1>4, <2>1 DEF TypeOK
    <2>3. link => awaited[d].tag # cmd.tag
      BY <1>4, <1>8 DEF Drives, KnownInv
    <2>4. \A x \in Asked' : x.tag = awaited[d].tag => x \in Asked
      BY <1>4, <2>3
    <2>5. Answered(awaited[d])' => Answered(awaited[d])
      BY <1>3, <2>2 DEF Answered
    <2>6. QED
      BY <2>2, <2>4, <2>5
  <1>9. QED
    BY <1>1, <1>4, <1>6, <1>7, <1>8, DriverKept

(* An input command is sent when none is on its way and the runner knows   *)
(* the crank; the next of a tap() also while the button is held.           *)
LEMMA InputSends ==
  ASSUME Structure, Structure', ReplyInv, NEW c, NEW k, NEW queue,
         Sending(c, k, queue), Call(c).op \in InputOps,
         AskedInput = {}, injected_crank = lastCrankAngle,
         k > 1 => Call(c).op = "tap" /\ injected_buttons = Call(c).buttons
  PROVE  InputInv'
  <1>1. /\ c \in Calls /\ todo[c] # <<>> /\ k \in 1..Len(Steps(Call(c)))
        /\ outcome' = [outcome EXCEPT ![c] = "running"]
        /\ steps' = [steps EXCEPT
             ![c] = SubSeq(Steps(Call(c)), k + 1, Len(Steps(Call(c))))]
        /\ UNCHANGED <<lastCrankAngle, todo, abandoned>>
    BY DEF Sending
  <1>2. TypeOK /\ OrderInv /\ issued \in Nat
    BY DEF Structure, ReplyInv, TypeOK, Game!TypeOK
  <1>3. Answers' \subseteq Answers
    BY AnswersTaken
  <1>4. PICK cmd \in Game!Commands :
          /\ cmd.tag = issued + 1 /\ Sends(cmd, Steps(Call(c))[k])
          /\ awaited' = [awaited EXCEPT ![c] = cmd]
          /\ Asked' = IF link THEN Asked \cup {cmd} ELSE Asked
          /\ UNCHANGED <<injected_crank, injected_buttons>>
    BY AnswersTaken
  <1>5. awaited'[c] = cmd /\ Drives(c)' /\ Call(c)' = Call(c)
    BY <1>1, <1>2, <1>4 DEF TypeOK, Drives, Running, Call
  <1>6. At(c)' = k
    BY <1>2, Reached
  <1>7. PlanFits(Call(c), Steps(Call(c)))
    BY <1>1, InputPlans
  <1>8. AskedInput' \subseteq {cmd} /\ (cmd.type = "PING" => AskedInput' = {})
    BY <1>4 DEF AskedInput, InputTypes
  <1>9. \A x \in Asked' : x.tag = cmd.tag => x = cmd
    <2>1. \A x \in Asked : x.tag # cmd.tag
      BY <1>2, <1>4 DEF OrderInv
    <2>2. QED
      BY <1>4, <2>1
  <1>10. ~Answered(cmd)'
    <2>1. \A x \in Answers : x.tag # cmd.tag
      BY <1>2, <1>4, AnswersSent
    <2>2. QED
      BY <1>3, <2>1 DEF Answered
  <1>11. Driven(c)'
    <2>1. awaited'[c].type \in InputTypes =>
            /\ \A x \in AskedInput' : x.tag = awaited'[c].tag
            /\ \A x \in Asked' : x.tag = awaited'[c].tag => Sends(x, awaited'[c])
            /\ ~Answered(awaited[c])'
      BY <1>5, <1>8, <1>9, <1>10 DEF Sends, Answered
    <2>2. awaited'[c].type = "PING" =>
            AskedInput' = {} /\ injected_crank' = lastCrankAngle'
      BY <1>1, <1>4, <1>5, <1>8
    <2>3. Call(c)'.op = "tap" /\ At(c)' > 1 => injected_buttons' = Call(c)'.buttons
      BY <1>4, <1>5, <1>6
    <2>4. QED
      BY <2>1, <2>2, <2>3 DEF Driven
  <1>12. ASSUME NEW d \in Calls, Drives(d)'
         PROVE  d = c
    BY <1>1, <1>5, <1>12, DrivesAlone
  <1>13. InputRuns'
    BY <1>1, <1>5 DEF InputRuns, Drives, Running, Call
  <1>14. QED
    BY <1>11, <1>12, <1>13 DEF InputInv

(* A call that sends input ends.                                           *)
LEMMA InputEnds ==
  ASSUME Structure, ReplyInv, InputInv, NEW i \in 1..Len(settled),
         NEW c \in Calls, Resolve(i, c) \/ Reject(i, c), Call(c).op \in InputOps
  PROVE  InputInv'
  <1>1. Ending(i, c)
    BY CallEnds
  <1>2. /\ c = settled[i].call /\ Running(c) /\ TypeOK
        /\ UNCHANGED <<gameVars, toRunner, parsed, pendingMessages, abandoned>>
    BY <1>1 DEF Ending, Structure
  <1>3. AskedInput' = AskedInput /\ injected_crank' = injected_crank
    BY <1>2 DEF AskedInput, Asked, gameVars
  <1>4. ASSUME NEW d \in Calls
        PROVE  ~Drives(d)'
    <2>1. outcome'[c] # "running"
      BY <1>1, <1>2 DEF Ending, TypeOK
    <2>2. CASE d = c
      BY <2>1, <2>2 DEF Drives, Running
    <2>3. CASE d # c
      <3>1. ~Drives(d)
        BY <1>2, <2>3, OneDrives DEF Drives
      <3>2. outcome'[d] = outcome[d] /\ todo'[d] = todo[d]
        BY <1>1, <1>2, <2>3 DEF Ending, TypeOK
      <3>3. QED
        BY <3>1, <3>2 DEF Drives, Running, Call
    <2>4. QED
      BY <2>2, <2>3
  <1>5. SUFFICES ASSUME ~InputAbandoned
                 PROVE  AskedInput = {} /\ lastCrankAngle' = injected_crank
    BY <1>2, <1>3, <1>4 DEF InputInv, InputAbandoned
  <1>6. Driven(c)
    BY <1>2, <1>5 DEF InputInv, Drives
  <1>7. PICK plan, k : /\ plan = Steps(Call(c)) /\ k = At(c)
    OBVIOUS
  <1>8. /\ PlanFits(Call(c), plan) /\ k \in 1..Len(plan)
        /\ Sends(awaited[c], plan[k])
        /\ steps[c] = <<>> <=> k = Len(plan)
    BY <1>2, <1>7, RunsItsPlan
  <1>9. awaited[c].type \in InputTypes =>
          /\ settled[i].result # Server!TimedOut
          /\ settled[i].result.type = "INPUT_ACK"
          /\ AskedInput = {} /\ injected_crank = awaited[c].crank
    BY <1>2, <1>5, <1>6, InputAnswered DEF Driven
  <1>10. CASE Resolve(i, c)
    <2>1. /\ steps[c] = <<>>
          /\ lastCrankAngle' = CrankAfter(Call(c), awaited[c])
      BY <1>10 DEF Resolve, Call
    <2>2. plan[k].type \in InputTypes
      BY <1>8, <2>1 DEF PlanFits, InputOps, InputTypes
    <2>3. /\ awaited[c].type = plan[k].type /\ awaited[c].crank = plan[k].crank
      BY <1>8 DEF Sends
    <2>4. CASE Call(c).op \in {"setCrank", "rotateCrank"}
      BY <1>9, <2>1, <2>2, <2>3, <2>4 DEF CrankAfter
    <2>5. CASE Call(c).op = "pressButtons"
      <3>1. Len(plan) = 1 /\ plan[1].crank = lastCrankAngle
        BY <1>8, <2>5 DEF PlanFits, InputOps
      <3>2. k = 1
        BY <1>8, <3>1
      <3>3. QED
        BY <1>9, <2>1, <2>2, <2>3, <2>5, <3>1, <3>2 DEF CrankAfter
    <2>6. CASE Call(c).op \in {"tap", "releaseInput"}
      <3>1. plan[k].crank = NoInject
        BY <1>8, <2>1, <2>6 DEF PlanFits, InputOps
      <3>2. QED
        BY <1>9, <2>1, <2>2, <2>3, <2>6, <3>1 DEF CrankAfter
    <2>7. QED
      BY <2>4, <2>5, <2>6 DEF InputOps
  <1>11. CASE Reject(i, c)
    <2>1. /\ lastCrankAngle' = lastCrankAngle
          /\ \/ settled[i].result \in {Server!TimedOut}
             \/ settled[i].result.type \in {"STATE_NOT_FOUND", "STATE_VALUE"}
             \/ steps[c] # <<>>
      BY <1>11 DEF Reject, Failed
    <2>2. CASE awaited[c].type \in InputTypes
      <3>1. k # Len(plan)
        BY <1>8, <1>9, <2>1, <2>2
      <3>2. k = 1 /\ Call(c).op = "tap"
        BY <1>8, <2>2, <3>1 DEF PlanFits, Sends, InputTypes
      <3>3. plan[k].crank = lastCrankAngle
        BY <1>8, <3>2 DEF PlanFits
      <3>4. QED
        BY <1>8, <1>9, <2>1, <2>2, <3>3 DEF Sends
    <2>3. CASE awaited[c].type = "PING"
      BY <1>6, <2>1, <2>3 DEF Driven
    <2>4. awaited[c].type \in InputTypes \cup {"PING"}
      BY <1>8 DEF PlanFits, Sends
    <2>5. QED
      BY <2>2, <2>3, <2>4
  <1>12. QED
    BY <1>10, <1>11

(* A frame dispatches a command.                                           *)
LEMMA InputDispatched ==
  ASSUME Structure, ReplyInv, KnownInv, InputInv,
         NEW n \in 0..Len(toGame), Frame(n)
  PROVE  InputInv'
  <1>1. TypeOK /\ OrderInv /\ AskedInv /\ issued \in Nat
    BY DEF Structure, ReplyInv, AnswerInv, TypeOK, Game!TypeOK
  <1>2. /\ (\E m \in Game!Commands : Dispatches(m)) \/ Idles
        /\ \A m \in Game!Commands : Dispatches(m) =>
             \/ ~link /\ Coming' = Coming
             \/ link /\ \E type \in MayAnswer(m.type) :
                  Coming' = Coming \cup {[type |-> type, tag |-> m.tag]}
    BY <1>1, OrderFrame
  <1>3. UNCHANGED <<lastCrankAngle, todo, steps, awaited, outcome, abandoned,
                    parsed, pendingMessages, settled>>
    BY DEF Frame, serverVars
  <1>4. Kept' = Kept /\ {settled'[i].result : i \in 1..Len(settled')}
                          = {settled[i].result : i \in 1..Len(settled)}
    BY <1>3 DEF Kept
  <1>5. \A c \in Calls : /\ Drives(c)' <=> Drives(c)
                         /\ todo'[c] = todo[c] /\ awaited'[c] = awaited[c]
                         /\ steps'[c] = steps[c]
    BY <1>3 DEF Drives, Running, Call
  <1>6. CASE Idles
    <2>1. Asked' = Asked /\ Coming' = Coming
      BY <1>3, <1>6 DEF Idles, Coming
    <2>2. Answers' \subseteq Answers \cup {Server!TimedOut}
      BY <1>4, <2>1 DEF Answers
    <2>3. QED
      BY <1>1, <1>3, <1>5, <1>6, <2>1, <2>2, QuietInput DEF Idles
  <1>7. ASSUME NEW m \in Game!Commands, Dispatches(m)
        PROVE  InputInv'
    <2>1. /\ m \in Asked /\ \A y \in Asked : y # m => m.tag < y.tag
          /\ Asked' = Asked \ {m} /\ m.tag \in Nat
      BY <1>7 DEF Dispatches, Game!Commands
    <2>2. \A x \in Answers' : x \in Answers \/ x.tag = m.tag
      <3>1. Coming' = Coming
              \/ \E type : Coming' = Coming \cup {[type |-> type, tag |-> m.tag]}
        BY <1>2, <1>7
      <3>2. \A x \in Coming' : x \in Coming \/ x.tag = m.tag
        BY <3>1
      <3>3. QED
        BY <1>4, <3>2 DEF Answers
    <2>3. AskedInput' \subseteq AskedInput
      BY <2>1 DEF AskedInput
    <2>4. CASE m.type \notin InputTypes
      <3>1. UNCHANGED <<injected_crank, injected_buttons>>
        BY <1>7, <2>4 DEF Dispatches
      <3>2. ASSUME ~InputAbandoned, NEW c \in Calls, Drives(c),
                   awaited[c].type \in InputTypes, Answered(awaited[c])'
            PROVE  Answered(awaited[c])
        <4>1. PICK x \in Answers' : x.tag = awaited[c].tag
          BY <1>5, <3>2 DEF Answered
        <4>2. CASE x.tag = m.tag
          <5>1. Sends(m, awaited[c])
            BY <2>1, <3>2, <4>1, <4>2 DEF InputInv, Driven
          <5>2. QED
            BY <2>4, <3>2, <5>1 DEF Sends
        <4>3. QED
          BY <2>2, <4>1, <4>2 DEF Answered
      <3>3. CASE InputAbandoned
        BY <1>3, <3>3 DEF InputInv, InputAbandoned
      <3>4. CASE ~InputAbandoned
        BY <1>3, <1>5, <2>1, <2>3, <3>1, <3>2, <3>4, DriverKept
      <3>5. QED
        BY <3>3, <3>4
    <2>5. CASE m.type \in InputTypes
      <3>1. m \in AskedInput
        BY <2>1, <2>5 DEF AskedInput
      <3>2. SUFFICES ASSUME ~InputAbandoned
                     PROVE  InputInv'
        BY <1>3 DEF InputInv, InputAbandoned
      <3>3. PICK c \in Calls : Drives(c)
        BY <3>1, <3>2 DEF InputInv, InputRuns, Drives, Running, Call
      <3>4. PICK plan, k, cmd :
              plan = Steps(Call(c)) /\ k = At(c) /\ cmd = awaited[c]
        OBVIOUS
      <3>5. /\ PlanFits(Call(c), plan) /\ k \in 1..Len(plan)
            /\ Sends(cmd, plan[k])
        BY <3>3, <3>4, RunsItsPlan DEF Drives
      <3>6. Driven(c)
        BY <3>2, <3>3 DEF InputInv
      <3>7. cmd.type \in InputTypes
        <4>1. cmd.type \in InputTypes \cup {"PING"}
          BY <3>3, <3>5 DEF PlanFits, Sends, Drives
        <4>2. cmd.type # "PING"
          BY <3>1, <3>4, <3>6 DEF Driven
        <4>3. QED
          BY <4>1, <4>2
      <3>8. m.tag = cmd.tag /\ Sends(m, cmd)
        BY <2>1, <3>1, <3>4, <3>6, <3>7 DEF Driven
      <3>9. AskedInput' = {}
        <4>1. ASSUME NEW x \in AskedInput'
              PROVE  FALSE
          <5>1. x \in Asked /\ x # m /\ x \in AskedInput
            BY <2>1, <2>3, <4>1 DEF AskedInput
          <5>2. x.tag = cmd.tag
            BY <3>4, <3>6, <3>7, <5>1 DEF Driven
          <5>3. QED
            BY <2>1, <3>8, <5>1, <5>2
        <4>2. QED
          BY <4>1
      <3>10. injected_crank' = cmd.crank /\ injected_buttons' = cmd.buttons
        <4>1. CASE m.type = "INJECT_INPUT"
          BY <1>7, <3>8, <4>1 DEF Dispatches, Sends
        <4>2. CASE m.type = "RELEASE_INPUT"
          <5>1. injected_crank' = NoInject /\ injected_buttons' = {}
            BY <1>7, <4>2 DEF Dispatches
          <5>2. plan[k].type = "RELEASE_INPUT"
            BY <3>5, <3>8, <4>2 DEF Sends
          <5>3. plan[k].crank = NoInject /\ plan[k].buttons = {}
            BY <3>5, <5>2 DEF PlanFits
          <5>4. QED
            BY <3>5, <5>1, <5>3 DEF Sends
        <4>3. QED
          BY <2>5, <4>1, <4>2 DEF InputTypes
      <3>11. \A x \in Asked' : x.tag # cmd.tag
        BY <2>1, <3>8
      <3>12. awaited'[c] = cmd /\ Call(c)' = Call(c) /\ At(c)' = k
        <4>1. Steps(Call(c))' = Steps(Call(c))
          BY <1>3, <1>5, SameSteps
        <4>2. QED
          BY <1>5, <3>4, <4>1 DEF At, Call
      <3>13. Driven(c)'
        <4>1. Call(c).op = "tap" /\ k > 1 => cmd.type = "RELEASE_INPUT"
          <5>1. ASSUME Call(c).op = "tap", k > 1
                PROVE  k = Len(plan)
            BY <3>5, <3>7, <5>1 DEF PlanFits, Sends, InputTypes
          <5>2. QED
            BY <3>5, <5>1 DEF PlanFits, Sends
        <4>2. cmd.type # "PING"
          BY <3>7 DEF InputTypes
        <4>3. QED
          BY <3>9, <3>10, <3>11, <3>12, <4>1, <4>2 DEF Driven
      <3>14. ASSUME NEW d \in Calls, Drives(d)'
             PROVE  d = c
        BY <1>5, <3>3, <3>14, OneDrives
      <3>15. InputRuns'
        BY <1>5, <3>3 DEF InputRuns, Drives, Running, Call
      <3>16. QED
        BY <3>13, <3>14, <3>15 DEF InputInv
    <2>6. QED
      BY <2>4, <2>5
  <1>8. QED
    BY <1>2, <1>6, <1>7

(* At first nobody has turned the crank.                                   *)
LEMMA CrankAtFirst ==
  ASSUME Init
  PROVE  KnownInv /\ InputInv
  <1>1. abandoned = {} /\ \A c \in Calls : ~Running(c)
    BY DEF Init, Running
  <1>2. Asked = {} /\ lastCrankAngle = injected_crank
    BY DEF Init, Asked, ToSet
  <1>3. QED
    BY <1>1, <1>2 DEF KnownInv, InputInv, AskedInput, Drives

(* Every step keeps what the runner knows of the input.                    *)
LEMMA CrankKept ==
  ASSUME Structure, Structure', ReplyInv, KnownInv, InputInv, [Next]_vars
  PROVE  InputInv'
  <1>1. TypeOK /\ OrderInv /\ issued \in Nat
    BY DEF Structure, ReplyInv, TypeOK, Game!TypeOK
  <1>2. ASSUME NEW c \in Calls, Begin(c)
        PROVE  InputInv'
    <2>1. Sending(c, 1, settled) /\ ~Running(c)
      BY <1>2, BeginSends
    <2>2. CASE Call(c).op \notin InputOps
      BY <2>1, <2>2, OtherSends
    <2>3. CASE Call(c).op \in InputOps
      <3>1. todo[c] # <<>>
        BY <2>1 DEF Sending
      <3>2. \A d \in Calls : ~Drives(d)
        BY <2>1, <2>3, <3>1, OneDrives DEF Drives
      <3>3. ~InputRuns
        BY <3>2 DEF InputRuns, Drives, Running, Call
      <3>4. CASE InputAbandoned
        BY <2>1, <3>4 DEF Sending, InputInv, InputAbandoned
      <3>5. CASE ~InputAbandoned
        <4>1. AskedInput = {} /\ injected_crank = lastCrankAngle
          BY <3>3, <3>5 DEF InputInv
        <4>2. QED
          BY <2>1, <2>3, <4>1, InputSends
      <3>6. QED
        BY <3>4, <3>5
    <2>4. QED
      BY <2>2, <2>3
  <1>3. ASSUME NEW i \in 1..Len(settled), NEW c \in Calls, Continue(i, c)
        PROVE  InputInv'
    <2>1. PICK plan, k : plan = Steps(Call(c)) /\ k = At(c)
      OBVIOUS
    <2>2. /\ Sending(c, k + 1, RemoveAt(settled, i)) /\ Running(c)
          /\ c = settled[i].call
      BY <1>3, <2>1, ContinueSends
    <2>3. CASE Call(c).op \notin InputOps
      BY <2>2, <2>3, OtherSends
    <2>4. CASE Call(c).op \in InputOps /\ InputAbandoned
      BY <2>2, <2>4 DEF Sending, InputInv, InputAbandoned
    <2>5. CASE Call(c).op \in InputOps /\ ~InputAbandoned
      <3>1. /\ PlanFits(Call(c), plan) /\ k \in 1..Len(plan)
            /\ Sends(awaited[c], plan[k])
        BY <2>1, <2>2, RunsItsPlan
      <3>2. k + 1 \in 1..Len(plan)
        BY <2>1, <2>2 DEF Sending
      <3>3. Call(c).op = "tap"
        BY <2>5, <3>1, <3>2 DEF PlanFits
      <3>4. Driven(c)
        BY <2>2, <2>5 DEF InputInv, Drives
      <3>5. CASE k = 1
        <4>1. /\ plan[k].type = "INJECT_INPUT" /\ plan[k].crank = lastCrankAngle
              /\ plan[k].buttons = Call(c).buttons
          BY <3>1, <3>3, <3>5 DEF PlanFits
        <4>2. /\ awaited[c].type \in InputTypes
              /\ awaited[c].crank = lastCrankAngle
              /\ awaited[c].buttons = Call(c).buttons
          BY <3>1, <4>1 DEF Sends, InputTypes
        <4>3. Answered(awaited[c])
          BY <2>2, <2>5, <4>2, InputAnswered
        <4>4. AskedInput = {} /\ injected_crank = lastCrankAngle
              /\ injected_buttons = Call(c).buttons
          BY <3>4, <4>2, <4>3 DEF Driven
        <4>5. QED
          BY <2>2, <2>5, <3>3, <4>4, InputSends
      <3>6. CASE k # 1
        <4>1. k > 1 /\ k \in 2..(Len(plan) - 1)
          BY <3>1, <3>2, <3>6 DEF PlanFits
        <4>2. awaited[c].type = "PING"
          BY <3>1, <3>3, <4>1 DEF PlanFits, Sends
        <4>3. AskedInput = {} /\ injected_crank = lastCrankAngle
              /\ injected_buttons = Call(c).buttons
          BY <2>1, <3>3, <3>4, <4>1, <4>2 DEF Driven
        <4>4. QED
          BY <2>2, <2>5, <3>3, <4>3, InputSends
      <3>7. QED
        BY <3>5, <3>6
    <2>6. QED
      BY <2>3, <2>4, <2>5
  <1>4. ASSUME NEW i \in 1..Len(settled), NEW c \in Calls,
               Resolve(i, c) \/ Reject(i, c)
        PROVE  InputInv'
    <2>1. CASE Call(c).op \in InputOps
      BY <1>4, <2>1, InputEnds
    <2>2. CASE Call(c).op \notin InputOps
      <3>1. Ending(i, c) /\ Resuming(i, c)
        BY <1>4, CallEnds DEF Resolve, Reject
      <3>2. /\ UNCHANGED <<lastCrankAngle, injected_crank, injected_buttons,
                           abandoned, parsed, toRunner, pendingMessages,
                           recv_buf, toGame, awaited>>
            /\ settled' = RemoveAt(settled, i)
        BY <2>2, <3>1 DEF Ending, gameVars
      <3>3. Asked' = Asked /\ Kept' = Kept /\ Coming' = Coming
        BY <3>2 DEF Asked, Kept, Coming
      <3>4. \A k \in 1..Len(settled') :
              \E j \in 1..Len(settled) : settled'[k] = settled[j]
        BY <3>1, <3>2, Resumes
      <3>5. Answers' \subseteq Answers
        BY <3>3, <3>4 DEF Answers
      <3>6. ASSUME NEW d \in Calls
            PROVE  /\ Drives(d)' <=> Drives(d)
                   /\ Drives(d) => todo'[d] = todo[d] /\ steps'[d] = steps[d]
        <4>1. CASE d = c
          <5>1. outcome'[c] # "running"
            BY <1>1, <3>1 DEF Ending, TypeOK
          <5>2. QED
            BY <2>2, <4>1, <5>1 DEF Drives, Running
        <4>2. CASE d # c
          <5>1. /\ outcome'[d] = outcome[d] /\ todo'[d] = todo[d]
                /\ steps'[d] = steps[d]
            BY <1>1, <3>1, <4>2 DEF Ending, TypeOK
          <5>2. QED
            BY <5>1 DEF Drives, Running, Call
        <4>3. QED
          BY <4>1, <4>2
      <3>7. QED
        BY <1>1, <3>2, <3>3, <3>5, <3>6, QuietInput
    <2>3. QED
      BY <2>1, <2>2
  <1>5. ASSUME NEW c \in Calls, Refuse(c)
        PROVE  InputInv'
    <2>1. /\ UNCHANGED <<lastCrankAngle, injected_crank, injected_buttons,
                         abandoned, parsed, toRunner, pendingMessages, settled,
                         recv_buf, toGame, awaited, steps>>
          /\ outcome' = [outcome EXCEPT ![c] = "rejected"]
          /\ todo' = [todo EXCEPT ![c] = Tail(todo[c])]
          /\ outcome[c] # "running"
      BY <1>5 DEF Refuse, gameVars, serverVars
    <2>2. Asked' = Asked /\ Answers' = Answers
      BY <2>1 DEF Asked, Answers, Kept, Coming
    <2>3. ASSUME NEW d \in Calls
          PROVE  /\ Drives(d)' <=> Drives(d)
                 /\ Drives(d) => todo'[d] = todo[d]
      <3>1. CASE d = c
        BY <1>1, <2>1, <3>1 DEF Drives, Running, TypeOK
      <3>2. CASE d # c
        BY <1>1, <2>1, <3>2 DEF Drives, Running, Call, TypeOK
      <3>3. QED
        BY <3>1, <3>2
    <2>4. QED
      BY <1>1, <2>1, <2>2, <2>3, QuietInput
  <1>6. ASSUME UNCHANGED <<lastCrankAngle, injected_crank, injected_buttons,
                           todo, steps, awaited, outcome>>,
               abandoned \subseteq abandoned', Asked' \subseteq Asked,
               Answers' \subseteq Answers \cup {Server!TimedOut}
        PROVE  InputInv'
    BY <1>1, <1>6, QuietInput DEF Drives, Running, Call
  <1>7. ASSUME NEW n \in 1..Len(toRunner), DataArrives(n)
        PROVE  InputInv'
    <2>1. /\ Coming' = Coming
          /\ UNCHANGED <<pendingMessages, settled, gameVars, runnerVars>>
      BY <1>1, <1>7, OrderArrival DEF DataArrives, Server!OnData
    <2>2. Asked' = Asked /\ Answers' = Answers
      BY <2>1 DEF Asked, Answers, Kept, gameVars
    <2>3. QED
      BY <1>6, <2>1, <2>2 DEF gameVars, runnerVars
  <1>8. CASE DeliverNext
    <2>1. Answers' \subseteq Answers
      BY <1>8, AnswersDelivered
    <2>2. UNCHANGED <<gameVars, runnerVars>>
      BY <1>8 DEF DeliverNext
    <2>3. Asked' = Asked
      BY <2>2 DEF Asked, gameVars
    <2>4. QED
      BY <1>6, <2>1, <2>2, <2>3 DEF gameVars, runnerVars
  <1>9. ASSUME NEW i \in 1..Len(waiters), TimerFires(i)
        PROVE  InputInv'
    <2>1. Answers' \subseteq Answers \cup {Server!TimedOut}
      BY <1>9, AnswersTimedOut
    <2>2. /\ abandoned \subseteq abandoned'
          /\ UNCHANGED <<gameVars, lastCrankAngle, todo, steps, awaited, outcome>>
      BY <1>9 DEF TimerFires
    <2>3. Asked' = Asked
      BY <2>2 DEF Asked, gameVars
    <2>4. QED
      BY <1>6, <2>1, <2>2, <2>3 DEF gameVars
  <1>10. CASE FrameLost \/ LoseLink \/ Close \/ UNCHANGED vars
    <2>1. /\ UNCHANGED <<lastCrankAngle, injected_crank, injected_buttons, todo,
                         steps, awaited, outcome, abandoned, pendingMessages,
                         parsed, toRunner, settled, toGame>>
          /\ recv_buf' = recv_buf \/ recv_buf' = <<>>
      BY <1>10 DEF FrameLost, LoseLink, Close, Server!Close, Game!UpdateLost,
         Game!LoseLink, Game!inputVars, Game!queueVars, Game!replyVars,
         serverVars, runnerVars, gameVars, vars
    <2>2. Asked' \subseteq Asked
      BY <2>1 DEF Asked, ToSet
    <2>3. Answers' = Answers
      BY <2>1 DEF Answers, Kept, Coming
    <2>4. QED
      BY <1>6, <2>1, <2>2, <2>3
  <1>11. ASSUME NEW n \in 0..Len(toGame), Frame(n)
         PROVE  InputInv'
    BY <1>11, InputDispatched
  <1>12. QED
    BY <1>2, <1>3, <1>4, <1>5, <1>7, <1>8, <1>9, <1>10, <1>11 DEF Next

(* The runner knows the crank of the game: whatever the flows do, unless   *)
(* an input command was given up on, the angle that pressButtons() and     *)
(* tap() would send is the one that the game injects, whenever no call     *)
(* that sends input is running.                                            *)
THEOREM CrankKnown == Spec => []CrankInSync
  <1>1. Init => Structure /\ QueryGuardHolds /\ ReplyInv /\ KnownInv /\ InputInv
    BY ShapeAtFirst, RepliesAtFirst, CrankAtFirst
       DEF Init, QueryGuardHolds, Querying
  <1>2. Structure /\ QueryGuardHolds /\ ReplyInv /\ KnownInv /\ InputInv
          /\ [Next]_vars
        => (Structure /\ QueryGuardHolds /\ ReplyInv /\ KnownInv /\ InputInv)'
    BY ShapeKept, GuardKept, RepliesKept, KnownKept, CrankKept
  <1>3. InputInv => CrankInSync
    BY DEF InputInv, CrankInSync
  <1>4. QED
    BY <1>1, <1>2, <1>3, PTL DEF Spec

-----------------------------------------------------------------------------
(* The frames that calls last.                                             *)

(* A call needs a frame for each of its commands, but tap() one less.      *)
LEMMA FrameEach ==
  ASSUME NEW call, NEW plan, PlanFits(call, plan), NEW k \in 1..Len(plan)
  PROVE  /\ Needs(call) \in Nat /\ Lasted(call, k) + 1 <= Needs(call)
         /\ k = Len(plan) => Lasted(call, k) + 1 = Needs(call)
  <1>1. /\ Len(plan) \in Nat /\ call.n \in Nat /\ call.op \in APIOps
        /\ call.op = "waitFrames" => Len(plan) = call.n
        /\ call.op = "tap" => Len(plan) = call.n + 2
        /\ call.op \notin {"waitFrames", "tap"} => Len(plan) = 1
    BY DEF PlanFits, APIOps, InputOps
  <1>2. CASE call.op = "waitFrames"
    <2>1. Needs(call) = call.n /\ Lasted(call, k) = k - 1
      BY <1>2 DEF Needs, Lasted
    <2>2. QED
      BY <1>1, <1>2, <2>1
  <1>3. CASE call.op = "tap"
    <2>1. Needs(call) = call.n + 1 /\ Lasted(call, k) = k - 2
      BY <1>3 DEF Needs, Lasted
    <2>2. QED
      BY <1>1, <1>3, <2>1
  <1>4. CASE call.op \notin {"waitFrames", "tap"}
    <2>1. Needs(call) = 1 /\ Lasted(call, k) = k - 1
      BY <1>4 DEF Needs, Lasted
    <2>2. Len(plan) = 1
      BY <1>1, <1>4
    <2>3. k = 1
      BY <2>2
    <2>4. QED
      BY <2>1, <2>2, <2>3
  <1>5. QED
    BY <1>2, <1>3, <1>4

(* What excuses a call, in the terms of this module.                       *)
LEMMA ExcusedBy ==
  ASSUME TypeOK, NEW c \in Calls
  PROVE  Excused(c) <=>
           /\ Running(c)
           /\ \E type \in CallTypes(Call(c)) :
                \/ \E a \in abandoned : Awaits(a.type) = Awaits(type)
                \/ type = "CAPTURE_FRAME" /\ Errors # {}
  <1>1. /\ pendingMessages \in Seq(Server!Messages)
        /\ parsed \in Seq(Server!Messages)
        /\ toRunner \in Seq(Server!Messages)
    BY DEF TypeOK, Server!TypeOK
  <1> DEFINE s == pendingMessages \o parsed
  <1>2. s \in Seq(Server!Messages) /\ ToSet(s) = Kept \cup ToSet(parsed)
    BY <1>1, Joined DEF Kept
  <1>3. Undelivered = s \o toRunner
    BY DEF Undelivered
  <1> HIDE DEF s
  <1>4. /\ Undelivered \in Seq(Server!Messages)
        /\ ToSet(Undelivered) = Kept \cup Coming
    BY <1>1, <1>2, <1>3, Joined DEF Coming
  <1>5. Errors # {} <=> \E i \in 1..Len(Undelivered) : Undelivered[i].type = "ERROR"
    BY <1>4, Elements DEF Errors
  <1>6. QED
    BY <1>5 DEF Excused, Running, Call

(* An excuse lasts as long as the call.                                    *)
LEMMA StaysExcused ==
  ASSUME TypeOK, TypeOK', NEW c \in Calls, Excused(c), Running(c)',
         todo'[c] = todo[c], Steps(Call(c))' = Steps(Call(c)),
         abandoned \subseteq abandoned', Errors \subseteq Errors'
  PROVE  Excused(c)'
  <1>1. CallTypes(Call(c))' = CallTypes(Call(c))
    BY DEF CallTypes
  <1>2. \E type \in CallTypes(Call(c))' :
          \/ \E a \in abandoned' : Awaits(a.type) = Awaits(type)
          \/ type = "CAPTURE_FRAME" /\ Errors' # {}
    BY <1>1, ExcusedBy
  <1>3. pendingMessages' \in Seq(Server!Messages) /\ parsed' \in Seq(Server!Messages)
        /\ toRunner' \in Seq(Server!Messages)
    BY DEF TypeOK, Server!TypeOK
  <1> DEFINE s == pendingMessages' \o parsed'
  <1>4. s \in Seq(Server!Messages) /\ ToSet(s) = Kept' \cup ToSet(parsed')
    BY <1>3, Joined DEF Kept
  <1>5. Undelivered' = s \o toRunner'
    BY DEF Undelivered
  <1> HIDE DEF s
  <1>6. /\ Undelivered' \in Seq(Server!Messages)
        /\ ToSet(Undelivered') = Kept' \cup Coming'
    BY <1>3, <1>4, <1>5, Joined DEF Coming
  <1>7. Errors' # {} =>
          \E i \in 1..Len(Undelivered') : Undelivered'[i].type = "ERROR"
    BY <1>6, Elements DEF Errors
  <1>8. QED
    BY <1>2, <1>7 DEF Excused, Running, Call

(* A call that is not excused is handed the answer to its command: it has  *)
(* lasted the frames of its commands up to that one.                       *)
LEMMA NotUpset ==
  ASSUME Structure, NEW c \in Calls, Running(c), ~Excused(c)
  PROVE  ~Upset(awaited[c])
  <1>1. TypeOK
    BY DEF Structure
  <1>2. awaited[c].type \in CallTypes(Call(c))
    BY RunsItsPlan DEF CallTypes, Sends
  <1>3. QED
    BY <1>1, <1>2, ExcusedBy DEF Upset, Refusal

(* A call whose own reply has come has lasted the frames before it.        *)
LEMMA Served ==
  ASSUME Structure, ReplyInv, FramesInv, NEW i \in 1..Len(settled),
         NEW c \in Calls, c = settled[i].call, Running(c),
         settled[i].result # Server!TimedOut, ~Excused(c)
  PROVE  frames[c] >= Lasted(Call(c), At(c)) + 1
  <1>1. ~Upset(awaited[c])
    BY NotUpset
  <1>2. settled[i].result.tag = awaited[c].tag
    BY <1>1 DEF ReplyInv, AnswerInv, SettledInv, Suits
  <1>3. Answered(awaited[c])
    BY <1>2 DEF Answered, Answers
  <1>4. QED
    BY <1>3 DEF FramesInv, Timed

(* A step that is not of the call's own flow.                              *)
LEMMA TimedStays ==
  ASSUME TypeOK, TypeOK', NEW c \in Calls, Running(c)', Timed(c),
         todo'[c] = todo[c], steps'[c] = steps[c], awaited'[c] = awaited[c],
         Steps(Call(c))' = Steps(Call(c)), frames'[c] >= frames[c],
         At(c) \in Int,
         abandoned \subseteq abandoned', Errors \subseteq Errors',
         Answered(awaited[c])' =>
           Answered(awaited[c]) \/ frames'[c] >= Lasted(Call(c), At(c)) + 1
  PROVE  Timed(c)'
  <1>1. Excused(c) => Excused(c)'
    BY StaysExcused
  <1>2. At(c)' = At(c) /\ Call(c)' = Call(c)
    BY DEF At, Call
  <1>3. frames[c] \in Nat /\ frames'[c] \in Nat
    BY DEF TypeOK
  <1>4. PICK l \in Int : l = Lasted(Call(c), At(c))
    BY DEF Lasted
  <1>5. Lasted(Call(c)', At(c)') = l
    BY <1>2, <1>4
  <1>6. CASE Excused(c)
    BY <1>1, <1>6 DEF Timed
  <1>7. CASE ~Excused(c)
    <2>1. /\ frames[c] >= l
          /\ Answered(awaited[c]) => frames[c] >= l + 1
      BY <1>4, <1>7 DEF Timed
    <2>2. frames'[c] >= l /\ (Answered(awaited[c])' => frames'[c] >= l + 1)
      BY <1>3, <1>4, <2>1
    <2>3. QED
      BY <1>5, <2>2 DEF Timed
  <1>8. QED
    BY <1>6, <1>7

(* What the flows do other than c, which acts.                             *)
LEMMA OthersTimed ==
  ASSUME Structure, TypeOK', KnownInv, FramesInv, NEW c \in Calls,
         \A d \in Calls \ {c} :
           /\ outcome'[d] = outcome[d] /\ todo'[d] = todo[d]
           /\ steps'[d] = steps[d] /\ awaited'[d] = awaited[d]
           /\ frames'[d] = frames[d],
         lastCrankAngle' # lastCrankAngle => Drives(c),
         abandoned \subseteq abandoned', Errors \subseteq Errors',
         Answers' \subseteq Answers \cup {Server!TimedOut}
  PROVE  \A d \in Calls \ {c} : Running(d)' => Timed(d)'
  <1> SUFFICES ASSUME NEW d \in Calls, d # c, Running(d)'
               PROVE  Timed(d)'
    OBVIOUS
  <1>1. TypeOK /\ issued \in Nat
    BY DEF Structure, TypeOK, Game!TypeOK
  <1>2. Running(d)
    BY DEF Running
  <1>3. Steps(Call(d))' = Steps(Call(d))
    <2>1. lastCrankAngle' = lastCrankAngle \/ Call(d).op \notin InputOps
      BY <1>2, OneDrives DEF Drives
    <2>2. QED
      BY <2>1, SameSteps
  <1>4. Answered(awaited[d])' => Answered(awaited[d])
    BY <1>1, <1>2, NothingNew
  <1>5. At(d) \in Int
    BY <1>2, AwaitsCommand
  <1>6. frames'[d] >= frames[d]
    BY <1>1 DEF TypeOK
  <1>7. Timed(d)
    BY <1>2 DEF FramesInv
  <1>8. QED
    BY <1>1, <1>3, <1>4, <1>5, <1>6, <1>7, TimedStays

(* The count of frames is right when a call sends,                         *)
LEMMA TimedSends ==
  ASSUME Structure, Structure', ReplyInv, KnownInv, FramesInv,
         NEW c, NEW k, NEW queue, Sending(c, k, queue),
         \A d \in Calls \ {c} : frames'[d] = frames[d],
         Excused(c)' \/ frames'[c] >= Lasted(Call(c), k)
  PROVE  FramesInv'
  <1>1. TypeOK /\ TypeOK' /\ OrderInv /\ issued \in Nat
    BY DEF Structure, ReplyInv, TypeOK, Game!TypeOK
  <1>2. /\ c \in Calls /\ outcome' = [outcome EXCEPT ![c] = "running"]
        /\ steps' = [steps EXCEPT
             ![c] = SubSeq(Steps(Call(c)), k + 1, Len(Steps(Call(c))))]
        /\ UNCHANGED <<lastCrankAngle, todo, abandoned>>
    BY DEF Sending
  <1>3. Answers' \subseteq Answers /\ Errors \subseteq Errors'
    BY AnswersTaken
  <1>4. PICK cmd : /\ cmd.tag = issued + 1
                   /\ awaited' = [awaited EXCEPT ![c] = cmd]
    BY AnswersTaken
  <1>5. \A d \in Calls \ {c} :
          /\ outcome'[d] = outcome[d] /\ todo'[d] = todo[d]
          /\ steps'[d] = steps[d] /\ awaited'[d] = awaited[d]
          /\ frames'[d] = frames[d]
    BY <1>1, <1>2, <1>4 DEF TypeOK
  <1>6. \A d \in Calls \ {c} : Running(d)' => Timed(d)'
    BY <1>1, <1>2, <1>3, <1>5, OthersTimed
  <1>7. Timed(c)'
    <2>1. At(c)' = k /\ Call(c)' = Call(c) /\ awaited'[c] = cmd
      BY <1>1, <1>2, <1>4, Reached DEF TypeOK, Call
    <2>2. \A x \in Answers : x.tag # cmd.tag
      BY <1>1, <1>4, AnswersSent
    <2>3. ~Answered(awaited[c])'
      BY <1>3, <2>1, <2>2 DEF Answered
    <2>4. QED
      BY <2>1, <2>3 DEF Timed
  <1>8. QED
    BY <1>6, <1>7 DEF FramesInv

(* when the game runs a frame,                                             *)
LEMMA TimedFrame ==
  ASSUME Structure, Structure', ReplyInv, KnownInv, InputInv, FramesInv,
         NEW n \in 0..Len(toGame), Frame(n)
  PROVE  FramesInv'
  <1>1. /\ TypeOK /\ TypeOK' /\ OrderInv /\ AskedInv /\ issued \in Nat
    BY DEF Structure, ReplyInv, AnswerInv, TypeOK, Game!TypeOK
  <1>2. /\ (\E m \in Game!Commands : Dispatches(m)) \/ Idles
        /\ \A m \in Game!Commands : Dispatches(m) =>
             \/ ~link /\ Coming' = Coming
             \/ link /\ \E type \in MayAnswer(m.type) :
                  Coming' = Coming \cup {[type |-> type, tag |-> m.tag]}
    BY <1>1, OrderFrame
  <1>3. /\ UNCHANGED <<lastCrankAngle, todo, steps, awaited, outcome, abandoned,
                       parsed, pendingMessages, settled>>
        /\ frames' = [c \in Calls |->
                        IF Counts(c) /\ frames[c] <= Needs(Head(todo[c]))
                        THEN frames[c] + 1 ELSE frames[c]]
        /\ snapshot_current' = injected_buttons
    BY DEF Frame, serverVars, Game!UpdateConnected, Game!SnapshotButtons
  <1>4. /\ Kept' = Kept /\ {settled'[i].result : i \in 1..Len(settled')}
                            = {settled[i].result : i \in 1..Len(settled)}
    BY <1>3 DEF Kept
  <1>5. Coming \subseteq Coming'
    BY <1>2, <1>3 DEF Idles, Coming
  <1>6. Errors \subseteq Errors'
    BY <1>4, <1>5 DEF Errors
  <1>7. ASSUME NEW x \in Answers', x \notin Answers
        PROVE  \E m \in Asked : x.tag = m.tag
    <2>1. x \in Coming' /\ x \notin Coming
      BY <1>4, <1>7 DEF Answers
    <2>2. ~Idles
      BY <1>3, <2>1 DEF Idles, Coming
    <2>3. PICK m \in Game!Commands : Dispatches(m)
      BY <1>2, <2>2
    <2>4. \E type : Coming' = Coming \cup {[type |-> type, tag |-> m.tag]}
      BY <1>2, <2>1, <2>3
    <2>5. x.tag = m.tag
      BY <2>1, <2>4
    <2>6. QED
      BY <2>3, <2>5 DEF Dispatches
  <1>8. SUFFICES ASSUME NEW c \in Calls, Running(c)'
                 PROVE  Timed(c)'
    BY DEF FramesInv
  <1>9. Running(c) /\ Timed(c)
    BY <1>3, <1>8 DEF Running, FramesInv
  <1>10. Steps(Call(c))' = Steps(Call(c))
    BY <1>3, SameSteps
  <1>11. frames[c] \in Nat
         /\ frames'[c] = IF Counts(c) /\ frames[c] <= Needs(Call(c))
                         THEN frames[c] + 1 ELSE frames[c]
    BY <1>1, <1>3 DEF TypeOK, Call
  <1>12. PICK plan, k : plan = Steps(Call(c)) /\ k = At(c)
    OBVIOUS
  <1>13. /\ PlanFits(Call(c), plan) /\ k \in 1..Len(plan)
         /\ Sends(awaited[c], plan[k])
    BY <1>9, <1>12, RunsItsPlan
  <1>14. PICK l \in Int : l = Lasted(Call(c), k)
    BY <1>13 DEF Lasted
  <1>15. Needs(Call(c)) \in Nat /\ l + 1 <= Needs(Call(c))
    BY <1>13, <1>14, FrameEach
  <1>16. ASSUME ~Excused(c), Answered(awaited[c])', ~Answered(awaited[c])
         PROVE  frames'[c] >= l + 1
    <2>1. PICK x \in Answers' : x.tag = awaited[c].tag
      BY <1>3, <1>16 DEF Answered
    <2>2. x \notin Answers
      BY <1>16, <2>1 DEF Answered
    <2>3. PICK m \in Asked : m.tag = awaited[c].tag
      BY <1>7, <2>1, <2>2
    <2>4. frames[c] >= l
      BY <1>9, <1>12, <1>14, <1>16 DEF Timed
    <2>5. CASE Call(c).op = "tap" /\ k = 1
      BY <1>11, <1>14, <2>5 DEF Lasted
    <2>6. CASE ~(Call(c).op = "tap" /\ k = 1)
      <3>1. Counts(c)
        <4>1. CASE Call(c).op # "tap"
          BY <1>9, <4>1 DEF Counts, Running, Call
        <4>2. CASE Call(c).op = "tap"
          <5>1. k > 1
            BY <1>13, <2>6, <4>2
          <5>2. ~InputAbandoned
            <6>1. plan[1].type = "INJECT_INPUT" /\ 1 \in 1..Len(plan)
              BY <1>13, <4>2 DEF PlanFits
            <6>2. "INJECT_INPUT" \in CallTypes(Call(c))
              BY <1>12, <6>1 DEF CallTypes
            <6>3. \A a \in abandoned : Awaits(a.type) # Awaits("INJECT_INPUT")
              BY <1>1, <1>9, <1>16, <6>2, ExcusedBy
            <6>4. Awaits("INJECT_INPUT") = {"INPUT_ACK"}
                  /\ "INJECT_INPUT" \in Sent
              BY DEF Awaits, Sent, Game!CommandTypes
            <6>5. \A a \in abandoned : a.type \in Sent
              BY <1>1 DEF KnownInv, TypeOK, Sent, Game!Commands
            <6>6. QED
              BY <6>3, <6>4, <6>5, AwaitKinds DEF InputAbandoned
          <5>3. Driven(c)
            BY <1>9, <4>2, <5>2 DEF InputInv, Drives, InputOps
          <5>4. injected_buttons = Call(c).buttons
            BY <1>12, <2>3, <4>2, <5>1, <5>3 DEF Driven
          <5>5. QED
            BY <1>3, <1>9, <5>4 DEF Counts, Running, Call
        <4>3. QED
          BY <4>1, <4>2
      <3>2. QED
        BY <1>11, <1>15, <2>4, <3>1
    <2>7. QED
      BY <2>5, <2>6
  <1>17. CASE Excused(c)
    <2>1. Excused(c)'
      BY <1>1, <1>3, <1>6, <1>8, <1>10, <1>17, StaysExcused
    <2>2. QED
      BY <2>1 DEF Timed
  <1>18. CASE ~Excused(c)
    <2>1. Answered(awaited[c])' =>
            Answered(awaited[c]) \/ frames'[c] >= Lasted(Call(c), At(c)) + 1
      BY <1>12, <1>14, <1>16, <1>18
    <2>2. frames'[c] >= frames[c] /\ At(c) \in Int
      BY <1>11, <1>12, <1>13
    <2>3. QED
      BY <1>1, <1>3, <1>6, <1>8, <1>9, <1>10, <2>1, <2>2, TimedStays
  <1>19. QED
    BY <1>17, <1>18

(* and after every step.                                                   *)
LEMMA FramesKept ==
  ASSUME Structure, Structure', ReplyInv, KnownInv, InputInv, FramesInv,
         [Next]_vars
  PROVE  FramesInv'
  <1>1. /\ TypeOK /\ TypeOK' /\ OrderInv /\ issued \in Nat
    BY DEF Structure, ReplyInv, TypeOK, Game!TypeOK
  <1>2. ASSUME NEW c \in Calls, Begin(c)
        PROVE  FramesInv'
    <2>1. Sending(c, 1, settled)
      BY <1>2, BeginSends
    <2>2. frames' = [frames EXCEPT ![c] = 0]
      BY <1>2 DEF Begin
    <2>3. /\ \A d \in Calls \ {c} : frames'[d] = frames[d]
          /\ frames'[c] >= Lasted(Call(c), 1)
      BY <1>1, <2>2 DEF TypeOK, Lasted
    <2>4. QED
      BY <2>1, <2>3, TimedSends
  <1>3. ASSUME NEW i \in 1..Len(settled), NEW c \in Calls, Continue(i, c)
        PROVE  FramesInv'
    <2>1. /\ Sending(c, At(c) + 1, RemoveAt(settled, i)) /\ Running(c)
          /\ c = settled[i].call /\ frames' = frames
          /\ settled[i].result # Server!TimedOut
      BY <1>3, ContinueSends
    <2>2. Errors \subseteq Errors' /\ abandoned' = abandoned
      BY <2>1, AnswersTaken DEF Sending
    <2>3. /\ todo' = todo /\ lastCrankAngle' = lastCrankAngle
          /\ outcome' = [outcome EXCEPT ![c] = "running"]
      BY <2>1 DEF Sending
    <2>4. Running(c)' /\ Steps(Call(c))' = Steps(Call(c))
      BY <1>1, <2>3, SameSteps DEF TypeOK, Running
    <2>5. CASE Excused(c)
      <3>1. Excused(c)'
        BY <1>1, <2>2, <2>3, <2>4, <2>5, StaysExcused
      <3>2. QED
        BY <2>1, <3>1, TimedSends
    <2>6. CASE ~Excused(c)
      <3>1. frames[c] >= Lasted(Call(c), At(c)) + 1
        BY <2>1, <2>6, Served
      <3>2. At(c) \in Int /\ frames[c] \in Nat
        BY <1>1, <2>1, AwaitsCommand DEF TypeOK
      <3>3. Lasted(Call(c), At(c) + 1) = Lasted(Call(c), At(c)) + 1
        BY <3>2 DEF Lasted
      <3>4. frames'[c] >= Lasted(Call(c), At(c) + 1)
        BY <2>1, <3>1, <3>3
      <3>5. QED
        BY <2>1, <3>4, TimedSends
    <2>7. QED
      BY <2>5, <2>6
  <1>4. ASSUME NEW c \in Calls, outcome'[c] # "running",
               \A d \in Calls \ {c} : /\ outcome'[d] = outcome[d]
                                      /\ todo'[d] = todo[d]
                                      /\ steps'[d] = steps[d],
               UNCHANGED <<awaited, frames, abandoned>>,
               lastCrankAngle' # lastCrankAngle => Drives(c),
               Errors \subseteq Errors', Answers' \subseteq Answers
        PROVE  FramesInv'
    <2>1. \A d \in Calls \ {c} : Running(d)' => Timed(d)'
      BY <1>1, <1>4, OthersTimed
    <2>2. QED
      BY <1>4, <2>1 DEF FramesInv, Running
  <1>5. ASSUME NEW i \in 1..Len(settled), NEW c \in Calls,
               Resolve(i, c) \/ Reject(i, c)
        PROVE  FramesInv'
    <2>1. Ending(i, c) /\ Resuming(i, c)
      BY <1>5, CallEnds DEF Resolve, Reject
    <2>2. /\ UNCHANGED <<abandoned, parsed, toRunner, pendingMessages, awaited,
                         frames>>
          /\ settled' = RemoveAt(settled, i)
          /\ lastCrankAngle' # lastCrankAngle => Drives(c)
      BY <2>1 DEF Ending, Drives
    <2>3. Kept' = Kept /\ Coming' = Coming
      BY <2>2 DEF Kept, Coming
    <2>4. \A k \in 1..Len(settled') :
            \E j \in 1..Len(settled) : settled'[k] = settled[j]
      BY <2>1, <2>2, Resumes
    <2>5. Answers' \subseteq Answers /\ Errors' = Errors
      BY <2>3, <2>4 DEF Answers, Errors
    <2>6. /\ outcome'[c] # "running"
          /\ \A d \in Calls \ {c} : /\ outcome'[d] = outcome[d]
                                    /\ todo'[d] = todo[d]
                                    /\ steps'[d] = steps[d]
      BY <1>1, <2>1 DEF Ending, TypeOK
    <2>7. QED
      BY <1>4, <2>2, <2>5, <2>6
  <1>6. ASSUME NEW c \in Calls, Refuse(c)
        PROVE  FramesInv'
    <2>1. /\ UNCHANGED <<lastCrankAngle, abandoned, parsed, toRunner, frames,
                         pendingMessages, settled, awaited, steps>>
          /\ outcome' = [outcome EXCEPT ![c] = "rejected"]
          /\ todo' = [todo EXCEPT ![c] = Tail(todo[c])]
      BY <1>6 DEF Refuse, gameVars, serverVars
    <2>2. Answers' = Answers /\ Errors' = Errors
      BY <2>1 DEF Answers, Errors, Kept, Coming
    <2>3. /\ outcome'[c] # "running"
          /\ \A d \in Calls \ {c} : outcome'[d] = outcome[d] /\ todo'[d] = todo[d]
      BY <1>1, <2>1 DEF TypeOK
    <2>4. QED
      BY <1>4, <2>1, <2>2, <2>3
  <1>7. ASSUME UNCHANGED <<lastCrankAngle, todo, steps, awaited, outcome, frames>>,
               abandoned \subseteq abandoned', Errors \subseteq Errors',
               Answers' \subseteq Answers \cup {Server!TimedOut}
        PROVE  FramesInv'
    <2>1. ASSUME NEW c \in Calls, Running(c)'
          PROVE  Timed(c)'
      <3>1. Running(c) /\ Timed(c)
        BY <1>7, <2>1 DEF Running, FramesInv
      <3>2. Steps(Call(c))' = Steps(Call(c))
        BY <1>7, SameSteps
      <3>3. Answered(awaited[c])' => Answered(awaited[c])
        BY <1>1, <1>7, <3>1, NothingNew
      <3>4. At(c) \in Int /\ frames'[c] >= frames[c]
        BY <1>1, <1>7, <3>1, AwaitsCommand DEF TypeOK
      <3>5. QED
        BY <1>1, <1>7, <2>1, <3>1, <3>2, <3>3, <3>4, TimedStays
    <2>2. QED
      BY <2>1 DEF FramesInv
  <1>8. ASSUME NEW n \in 1..Len(toRunner), DataArrives(n)
        PROVE  FramesInv'
    <2>1. /\ Coming' = Coming
          /\ UNCHANGED <<pendingMessages, settled, runnerVars>>
      BY <1>1, <1>8, OrderArrival DEF DataArrives, Server!OnData
    <2>2. Errors' = Errors /\ Answers' = Answers
      BY <2>1 DEF Answers, Errors, Kept
    <2>3. QED
      BY <1>7, <2>1, <2>2 DEF runnerVars
  <1>9. CASE DeliverNext
    <2>1. Answers' \subseteq Answers /\ Errors \subseteq Errors'
      BY <1>9, AnswersDelivered
    <2>2. UNCHANGED runnerVars
      BY <1>9 DEF DeliverNext
    <2>3. QED
      BY <1>7, <2>1, <2>2 DEF runnerVars
  <1>10. ASSUME NEW i \in 1..Len(waiters), TimerFires(i)
         PROVE  FramesInv'
    <2>1. Answers' \subseteq Answers \cup {Server!TimedOut}
      BY <1>10, AnswersTimedOut
    <2>2. /\ abandoned \subseteq abandoned'
          /\ UNCHANGED <<lastCrankAngle, todo, steps, awaited, outcome, frames,
                         pendingMessages, parsed, toRunner>>
      BY <1>10 DEF TimerFires, Server!Timeout
    <2>3. Errors' = Errors
      BY <2>2 DEF Errors, Kept, Coming
    <2>4. QED
      BY <1>7, <2>1, <2>2, <2>3
  <1>11. CASE FrameLost \/ LoseLink \/ Close \/ UNCHANGED vars
    <2>1. UNCHANGED <<lastCrankAngle, todo, steps, awaited, outcome, frames,
                      abandoned, pendingMessages, parsed, toRunner, settled>>
      BY <1>11 DEF FrameLost, LoseLink, Close, Server!Close, Game!UpdateLost,
         Game!LoseLink, Game!replyVars, serverVars, runnerVars, vars
    <2>2. Answers' = Answers /\ Errors' = Errors
      BY <2>1 DEF Answers, Errors, Kept, Coming
    <2>3. QED
      BY <1>7, <2>1, <2>2
  <1>12. ASSUME NEW n \in 0..Len(toGame), Frame(n)
         PROVE  FramesInv'
    BY <1>12, TimedFrame
  <1>13. QED
    BY <1>2, <1>3, <1>5, <1>6, <1>8, <1>9, <1>10, <1>11, <1>12 DEF Next

-----------------------------------------------------------------------------
(* The steps of FrameSync that the steps of a session are.                 *)

Need == [c \in Calls |-> IF outcome[c] = "running"
                         THEN Needs(Head(todo[c])) ELSE 0]

(* A call needs no more frames than the bound.                             *)
LEMMA NeedsFew ==
  ASSUME Structure, NEW c \in Calls, todo[c] # <<>>
  PROVE  Needs(Call(c)) \in 0..MaxCommands
  <1>1. Call(c).n < MaxCommands /\ Call(c).n \in Nat /\ MaxCommands \in Nat
    BY FirstCall, SessionAssumption DEF Structure, APICalls
  <1>2. QED
    BY <1>1 DEF Needs

(* One flow's need changes.                                                *)
LEMMA NeedUpdated ==
  ASSUME NEW c \in Calls,
         \A d \in Calls \ {c} : outcome'[d] = outcome[d] /\ todo'[d] = todo[d],
         NEW n,
         n = IF outcome'[c] = "running" THEN Needs(Head(todo'[c])) ELSE 0
  PROVE  Need' = [Need EXCEPT ![c] = n]
  BY DEF Need

(* The initial states are those of FrameSync.                              *)
LEMMA SyncAtFirst ==
  ASSUME Init
  PROVE  Sync!Init
  <1>1. /\ outcome = [c \in Calls |-> "none"]
        /\ frames = [c \in Calls |-> 0]
    BY DEF Init
  <1>2. [c \in Calls |-> IF outcome[c] = "running"
                         THEN Needs(Head(todo[c])) ELSE 0]
          = [c \in Calls |-> 0]
    BY <1>1
  <1>3. QED
    BY <1>1, <1>2 DEF Sync!Init

(* A call that begins does so in FrameSync,                                *)
LEMMA SyncBegins ==
  ASSUME Structure, NEW c \in Calls, Begin(c)
  PROVE  Sync!Begin(c)
  <1>1. /\ outcome[c] # "running" /\ todo[c] # <<>> /\ todo' = todo
        /\ outcome' = [outcome EXCEPT ![c] = "running"]
        /\ frames' = [frames EXCEPT ![c] = 0]
    BY DEF Begin
  <1>2. Needs(Call(c)) \in 0..MaxCommands
    BY <1>1, NeedsFew
  <1>3. outcome \in [Calls -> CallResults]
    BY DEF Structure, TypeOK
  <1>4. Need' = [Need EXCEPT ![c] = Needs(Call(c))]
    BY <1>1, <1>3, NeedUpdated DEF Call
  <1>5. QED
    BY <1>1, <1>2, <1>4 DEF Sync!Begin, Need

(* one that ends needs no more frames,                                     *)
LEMMA SyncEnds ==
  ASSUME Structure, NEW c \in Calls, NEW how,
         how # "running", outcome' = [outcome EXCEPT ![c] = how],
         todo' = [todo EXCEPT ![c] = Tail(todo[c])], frames' = frames
  PROVE  Need' = [Need EXCEPT ![c] = 0]
  <1>1. outcome \in [Calls -> CallResults] /\ todo \in [Calls -> Seq(APICalls)]
    BY DEF Structure, TypeOK
  <1>2. QED
    BY <1>1, NeedUpdated

(* A call that resolves has sent all of its commands and has been answered.*)
LEMMA LastedEnough ==
  ASSUME Structure, ReplyInv, FramesInv, NEW i \in 1..Len(settled),
         NEW c \in Calls, Resolve(i, c), ~Excused(c)
  PROVE  frames[c] >= Needs(Call(c))
  <1>1. /\ c = settled[i].call /\ Running(c)
        /\ settled[i].result # Server!TimedOut /\ steps[c] = <<>>
    BY CallEnds DEF Ending, Resolve, Failed
  <1>2. PICK plan, k : plan = Steps(Call(c)) /\ k = At(c)
    OBVIOUS
  <1>3. PlanFits(Call(c), plan) /\ k \in 1..Len(plan) /\ k = Len(plan)
    BY <1>1, <1>2, RunsItsPlan
  <1>4. Lasted(Call(c), k) + 1 = Needs(Call(c))
    BY <1>3, FrameEach
  <1>5. frames[c] >= Lasted(Call(c), k) + 1
    BY <1>1, <1>2, Served
  <1>6. QED
    BY <1>4, <1>5

(* and every step is one of FrameSync or a stutter.                        *)
LEMMA SyncSteps ==
  ASSUME Structure, ReplyInv, FramesInv, [Next]_vars
  PROVE  Sync!Next
  <1>1. outcome \in [Calls -> CallResults] /\ todo \in [Calls -> Seq(APICalls)]
        /\ frames \in [Calls -> Nat]
    BY DEF Structure, TypeOK
  <1>2. ASSUME UNCHANGED <<outcome, todo, frames>>
        PROVE  Sync!Next
    BY <1>2 DEF Sync!Next, Sync!Excuse
  <1>3. ASSUME NEW c \in Calls, Begin(c)
        PROVE  Sync!Next
    BY <1>3, SyncBegins DEF Sync!Next
  <1>4. ASSUME NEW c \in Calls, Refuse(c)
        PROVE  Sync!Next
    <2>1. /\ outcome[c] # "running" /\ frames' = frames
          /\ outcome' = [outcome EXCEPT ![c] = "rejected"]
          /\ todo' = [todo EXCEPT ![c] = Tail(todo[c])]
      BY <1>4 DEF Refuse
    <2>2. Need' = [Need EXCEPT ![c] = 0]
      BY <2>1, SyncEnds
    <2>3. Need' = Need
      BY <2>1, <2>2 DEF Need
    <2>4. Sync!Refuse(c)
      BY <2>1, <2>3 DEF Sync!Refuse, Need
    <2>5. QED
      BY <2>4 DEF Sync!Next
  <1>5. ASSUME NEW i \in 1..Len(settled), NEW c \in Calls, Resolve(i, c)
        PROVE  Sync!Next
    <2>1. /\ outcome' = [outcome EXCEPT ![c] = "resolved"]
          /\ todo' = [todo EXCEPT ![c] = Tail(todo[c])] /\ frames' = frames
      BY <1>5 DEF Resolve, Ends
    <2>2. outcome[c] = "running"
      BY <1>5, CallEnds DEF Ending, Running
    <2>3. Need' = [Need EXCEPT ![c] = 0]
      BY <2>1, SyncEnds
    <2>4. Need[c] = Needs(Call(c))
      BY <2>2 DEF Need, Call
    <2>5. frames[c] >= Need[c] \/ c \in {d \in Calls : Excused(d)}
      BY <1>5, <2>4, LastedEnough
    <2>6. Sync!Resolve(c)
      BY <2>1, <2>2, <2>3, <2>5 DEF Sync!Resolve, Need
    <2>7. QED
      BY <2>6 DEF Sync!Next
  <1>6. ASSUME NEW i \in 1..Len(settled), NEW c \in Calls, Reject(i, c)
        PROVE  Sync!Next
    <2>1. /\ outcome' = [outcome EXCEPT ![c] = "rejected"]
          /\ todo' = [todo EXCEPT ![c] = Tail(todo[c])] /\ frames' = frames
      BY <1>6 DEF Reject, Ends
    <2>2. outcome[c] = "running"
      BY <1>6, CallEnds DEF Ending, Running
    <2>3. Need' = [Need EXCEPT ![c] = 0]
      BY <2>1, SyncEnds
    <2>4. Sync!Reject(c)
      BY <2>1, <2>2, <2>3 DEF Sync!Reject, Need
    <2>5. QED
      BY <2>4 DEF Sync!Next
  <1>7. ASSUME NEW i \in 1..Len(settled), NEW c \in Calls, Continue(i, c)
        PROVE  Sync!Next
    BY <1>2, <1>7 DEF Continue
  <1>8. ASSUME NEW n \in 0..Len(toGame), Frame(n)
        PROVE  Sync!Next
    <2> DEFINE S == {c \in Calls : Counts(c)}
    <2>1. /\ UNCHANGED <<outcome, todo>>
          /\ frames' = [c \in Calls |->
                          IF Counts(c) /\ frames[c] <= Needs(Head(todo[c]))
                          THEN frames[c] + 1 ELSE frames[c]]
      BY <1>8 DEF Frame
    <2>2. \A c \in Calls : Counts(c) =>
            outcome[c] = "running" /\ Need[c] = Needs(Head(todo[c]))
      BY DEF Counts, Need
    <2>3. frames' = [c \in Calls |->
                       IF c \in S /\ frames[c] <= Need[c]
                       THEN frames[c] + 1 ELSE frames[c]]
      BY <2>1, <2>2
    <2>4. S \in SUBSET {c \in Calls : outcome[c] = "running"}
      BY <2>2
    <2> HIDE DEF S
    <2>5. Need' = Need
      BY <2>1 DEF Need
    <2>6. Sync!Frame
      BY <2>1, <2>3, <2>4, <2>5 DEF Sync!Frame, Need
    <2>7. QED
      BY <2>6 DEF Sync!Next
  <1>9. QED
    BY <1>2, <1>3, <1>4, <1>5, <1>6, <1>7, <1>8
       DEF Next, DataArrives, DeliverNext, TimerFires, Close, FrameLost,
           LoseLink, runnerVars, vars

(* Calls last their frames, as FrameSync promises: waitFrames(n) returns   *)
(* when the game has run n frames since it was called, tap() when the game *)
(* has seen the button on n + 1, however the frames, the messages and the  *)
(* flows interleave; only a call whose commands may be handed the late     *)
(* reply to an abandoned one may return early.                             *)
THEOREM FramesLast == Spec => CallsLastTheirFrames
  <1> DEFINE Inv == /\ Structure /\ QueryGuardHolds /\ ReplyInv
                    /\ KnownInv /\ InputInv /\ FramesInv
  <1>1. Init => Inv
    BY ShapeAtFirst, RepliesAtFirst, CrankAtFirst
       DEF Init, QueryGuardHolds, Querying, FramesInv, Running
  <1>2. Inv /\ [Next]_vars => Inv'
    BY ShapeKept, GuardKept, RepliesKept, KnownKept, CrankKept, FramesKept
  <1>3. Init => Sync!Init
    BY SyncAtFirst
  <1>4. Inv /\ [Next]_vars => [Sync!Next]_(Sync!vars)
    BY SyncSteps
  <1> HIDE DEF Inv
  <1>5. QED
    BY <1>1, <1>2, <1>3, <1>4, PTL DEF Spec, CallsLastTheirFrames, Sync!Spec

=============================================================================
