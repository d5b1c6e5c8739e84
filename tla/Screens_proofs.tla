---------------------------- MODULE Screens_proofs ----------------------------
(***************************************************************************)
(* Theorems about Screens: for any number of flows, names and framebuffers *)
(* and any scripts; with what xorFramebuffers(), decodeFramebuffer() and   *)
(* the PNG make of a display of any size.                                  *)
(***************************************************************************)
EXTENDS Screens, FiniteSetTheorems, TLAPS, SequenceLemmas

Writing == {"again", "write", "filling"}

(* A flow is in the middle of a call its script has.                       *)
CallInv ==
  /\ call \in [Flows -> Waits \cup Matches \cup {NoCall}]
  /\ \A f \in Flows : pc[f] # "idle" => call[f] \in Waits \cup Matches
  /\ \A f \in Flows : pc[f] \in Writing => call[f] \in Matches

(* A wait resolves no later than its SettleFrames-th identical frame.      *)
CountInv == \A f \in Flows : pc[f] # "idle" => settleCount[f] < SettleFrames

(* Flows that work on one name know of each other.                         *)
SameName(f, g) ==
  /\ call[f] \in Matches /\ call[g] \in Matches
  /\ call[f].name = call[g].name
RivalsInv ==
  /\ rivals \in [Flows -> BOOLEAN]
  /\ \A f, g \in Flows :
       f # g /\ pc[f] # "idle" /\ pc[g] # "idle" /\ SameName(f, g) => rivals[f]

(* A flow that is to write was told to; or it found nothing and may create *)
(* it, and still there is nothing unless a rival has come.                 *)
WriteInv ==
  \A f \in Flows :
    /\ pc[f] \in Writing => UpdateMode(call[f]) \/ AutoCreateMissing(call[f])
    /\ pc[f] \in {"again", "write"} /\ ~UpdateMode(call[f]) /\ ~rivals[f] =>
         references[call[f].name] = NoFile

ScreensInv == TypeOK /\ CallInv /\ CountInv /\ RivalsInv /\ WriteInv

(* What can be read is a file or the lack of one.                          *)
LEMMA FileOfDisplay ==
  ASSUME NEW s \in Displays PROVE FileOf(s) = framebufferToPng(s)
  BY ScreensAssumption DEF FileOf

(* At first all flows are idle.                                            *)
LEMMA InitHolds == Init => ScreensInv
  <1> SUFFICES ASSUME Init PROVE ScreensInv
    OBVIOUS
  <1>1. references \in [Names -> Files]
    <2>1. ASSUME NEW n \in Names
          PROVE  FileOf(source[n]) \in Files
      <3>1. source[n] = NoFile \/ source[n] \in Raws
        BY DEF Init, Raws
      <3>2. FileOf(NoFile) = NoFile
        BY DEF FileOf
      <3>3. QED
        BY <3>1, <3>2 DEF Files
    <2>2. QED
      BY <2>1 DEF Init
  <1>2. TypeOK
    BY <1>1, ScreensAssumption DEF Init, TypeOK, PCs, Results, Raws
  <1>3. CallInv /\ CountInv /\ RivalsInv /\ WriteInv
    BY DEF Init, CallInv, CountInv, RivalsInv, WriteInv, Writing
  <1>4. QED
    BY <1>2, <1>3 DEF ScreensInv

(* A call begins.                                                          *)
LEMMA BeginHolds ==
  ASSUME ScreensInv, NEW f \in Flows, NEW c \in script[f], Begin(f, c)
  PROVE  ScreensInv'
  <1>0. c \in Waits \cup Matches
    BY ScreensAssumption DEF ScreensInv, TypeOK
  <1>1. TypeOK'
    <2>1. /\ mode' \in Modes /\ script' \in Scripts
          /\ references' \in [Names -> Files] /\ cut' \subseteq Names
      BY DEF ScreensInv, TypeOK, Begin, fileVars
    <2>2. pc' \in [Flows -> PCs] /\ result' \in [Flows -> Results]
      BY DEF ScreensInv, TypeOK, Begin, Goto, PCs, Results
    <2>3. captured' \in [Flows -> Raws] /\ previous' \in [Flows -> Raws]
      BY DEF ScreensInv, TypeOK, Begin, Raws
    <2>4. /\ settleCount' \in [Flows -> 0 .. SettleFrames]
          /\ polls' \in [Flows -> 0 .. MaxPolls]
      BY ScreensAssumption DEF ScreensInv, TypeOK, Begin
    <2>5. ASSUME NEW g \in Flows, pc'[g] \notin {"idle", "sent"}
          PROVE  captured'[g] # Nothing
      BY <2>5 DEF ScreensInv, TypeOK, Begin, Goto
    <2>6. QED
      BY <2>1, <2>2, <2>3, <2>4, <2>5 DEF TypeOK
  <1>2. CallInv'
    BY <1>0 DEF ScreensInv, TypeOK, CallInv, Begin, Goto, Writing
  <1>3. CountInv'
    BY ScreensAssumption DEF ScreensInv, TypeOK, CountInv, Begin, Goto
  <1>4. RivalsInv'
    <2>1. rivals' \in [Flows -> BOOLEAN]
      BY DEF ScreensInv, RivalsInv, Begin, Rivals
    <2>2. ASSUME NEW g \in Flows, NEW h \in Flows, g # h,
                 pc'[g] # "idle", pc'[h] # "idle", SameName(g, h)'
          PROVE  rivals'[g]
      <3>1. \A k \in Flows : k # f => pc'[k] = pc[k] /\ call'[k] = call[k]
        BY DEF ScreensInv, TypeOK, CallInv, Begin, Goto
      <3>2. call'[f] = c
        BY DEF ScreensInv, CallInv, Begin
      <3>3. \A k \in Flows : k # f =>
              rivals'[k] = (rivals[k] \/ Rivals(f, c, k))
        BY DEF Begin
      <3>4. rivals'[f] = (\E k \in Flows : Rivals(f, c, k))
        BY DEF Begin
      <3>5. CASE g = f
        BY <2>2, <3>1, <3>2, <3>4, <3>5 DEF Rivals, SameName, Matches
      <3>6. CASE h = f
        BY <2>2, <3>1, <3>2, <3>3, <3>6 DEF Rivals, SameName, Matches
      <3>7. CASE g # f /\ h # f
        BY <2>2, <3>1, <3>3, <3>7 DEF ScreensInv, RivalsInv, SameName
      <3>8. QED
        BY <3>5, <3>6, <3>7
    <2>3. QED
      BY <2>1, <2>2 DEF RivalsInv
  <1>5. WriteInv'
    BY DEF ScreensInv, TypeOK, CallInv, RivalsInv, WriteInv, Begin, Goto,
           fileVars, Writing, UpdateMode, AutoCreateMissing
  <1>6. QED
    BY <1>1, <1>2, <1>3, <1>4, <1>5 DEF ScreensInv

(* What a step that neither begins a call nor touches a file must leave.   *)
Progress(f) ==
  /\ UNCHANGED <<mode, script, references, call, rivals>>
  /\ \E where \in PCs : Goto(f, where)

(* A call that goes on with the files untouched keeps the invariant.       *)
LEMMA ProgressHolds ==
  ASSUME ScreensInv, NEW f \in Flows, Progress(f), pc[f] # "idle",
         TypeOK', CountInv',
         pc'[f] \in Writing =>
           /\ call[f] \in Matches
           /\ UpdateMode(call[f]) \/ AutoCreateMissing(call[f]),
         pc'[f] \in {"again", "write"} /\ ~UpdateMode(call[f])
           /\ ~rivals[f] => references[call[f].name] = NoFile
  PROVE  ScreensInv'
  <1>1. \A g \in Flows : g # f => pc'[g] = pc[g]
    BY DEF ScreensInv, TypeOK, Progress, Goto
  <1>2. CallInv'
    BY <1>1 DEF ScreensInv, CallInv, Progress
  <1>3. RivalsInv'
    BY <1>1 DEF ScreensInv, RivalsInv, SameName, Progress
  <1>4. WriteInv'
    BY <1>1 DEF ScreensInv, WriteInv, Progress, UpdateMode, AutoCreateMissing
  <1>5. QED
    BY <1>2, <1>3, <1>4 DEF ScreensInv

(* Screenshots: captured, or timed out.                                    *)
LEMMA ScreenshotHolds ==
  ASSUME ScreensInv, NEW f \in Flows,
         (\E d \in Displays : FrameCaptures(f, d)) \/ ScreenshotFails(f)
  PROVE  ScreensInv'
  <1>1. ASSUME NEW d \in Displays, FrameCaptures(f, d)
        PROVE  ScreensInv'
    <2>1. d \in Raws /\ d # Nothing
      BY ScreensAssumption DEF Raws
    <2>2. TypeOK'
      BY <1>1, <2>1
         DEF ScreensInv, TypeOK, FrameCaptures, Goto, fileVars, PCs
    <2>3. CountInv' /\ pc[f] # "idle"
      BY <1>1 DEF ScreensInv, TypeOK, CountInv, FrameCaptures, Goto
    <2>4. Progress(f) /\ pc'[f] = "captured"
      BY <1>1 DEF ScreensInv, TypeOK, Progress, FrameCaptures, Goto, fileVars,
                  PCs
    <2>5. QED
      BY <2>2, <2>3, <2>4, ProgressHolds DEF Writing
  <1>2. CASE ScreenshotFails(f)
    <2>1. TypeOK'
      BY <1>2 DEF ScreensInv, TypeOK, ScreenshotFails, Ends, Goto, fileVars,
                  waitVars, PCs, Results
    <2>2. CountInv' /\ pc[f] # "idle"
      BY <1>2 DEF ScreensInv, TypeOK, CountInv, ScreenshotFails, Ends, Goto,
                  waitVars
    <2>3. Progress(f) /\ pc'[f] = "idle"
      BY <1>2 DEF ScreensInv, TypeOK, Progress, ScreenshotFails, Ends, Goto,
                  fileVars, PCs
    <2>4. QED
      BY <2>1, <2>2, <2>3, ProgressHolds DEF Writing
  <1>3. QED
    BY <1>1, <1>2

(* The loop of a wait goes on or ends.                                     *)
LEMMA TurnTypes ==
  ASSUME TypeOK, NEW f \in Flows, NEW expired \in BOOLEAN, Turn(f, expired)
  PROVE  /\ pc' \in [Flows -> PCs] /\ pc'[f] \in {"idle", "sent"}
         /\ \A g \in Flows : g # f => pc'[g] = pc[g]
         /\ \E where \in PCs : Goto(f, where)
         /\ polls' \in [Flows -> 0 .. MaxPolls]
         /\ result' \in [Flows -> Results]
  <1>1. CASE expired
    BY <1>1 DEF TypeOK, Turn, Ends, Goto, PCs, Results
  <1>2. CASE ~expired
    <2>1. polls[f] \in 0 .. MaxPolls /\ ~(polls[f] >= MaxPolls)
      BY <1>2 DEF TypeOK, Turn
    <2>2. polls[f] + 1 \in 0 .. MaxPolls
      BY <2>1, ScreensAssumption
    <2>3. QED
      BY <1>2, <2>2 DEF TypeOK, Turn, Goto, PCs
  <1>3. QED
    BY <1>1, <1>2

(* ... with a result, as it does when it has seen enough.                  *)
LEMMA EndsTypes ==
  ASSUME TypeOK, NEW f \in Flows, NEW how \in Results, Ends(f, how)
  PROVE  /\ pc' \in [Flows -> PCs] /\ pc'[f] \in {"idle", "sent"}
         /\ \A g \in Flows : g # f => pc'[g] = pc[g]
         /\ \E where \in PCs : Goto(f, where)
         /\ result' \in [Flows -> Results]
  BY DEF TypeOK, Ends, Goto, PCs

(* The two waits.                                                          *)
LEMMA WaitHolds ==
  ASSUME ScreensInv, NEW f \in Flows, NEW expired \in BOOLEAN,
         \/ Baseline(f, expired)
         \/ ChangesTurn(f, expired)
         \/ StableTurn(f, expired)
  PROVE  ScreensInv'
  <1>0. TypeOK /\ "resolved" \in Results
    BY DEF ScreensInv, Results
  <1>1. /\ UNCHANGED <<mode, script, references, cut, call, captured, rivals>>
        /\ pc[f] = "captured"
    BY DEF Baseline, ChangesTurn, StableTurn, fileVars
  <1>2. /\ pc' \in [Flows -> PCs] /\ pc'[f] \in {"idle", "sent"}
        /\ \A g \in Flows : g # f => pc'[g] = pc[g]
        /\ \E where \in PCs : Goto(f, where)
        /\ polls' \in [Flows -> 0 .. MaxPolls]
        /\ result' \in [Flows -> Results]
    <2>1. \/ Turn(f, expired)
          \/ Ends(f, "resolved") /\ UNCHANGED polls
      BY DEF Baseline, ChangesTurn, StableTurn
    <2>2. CASE Turn(f, expired)
      BY <1>0, <2>2, TurnTypes
    <2>3. CASE Ends(f, "resolved") /\ UNCHANGED polls
      <3>1. polls' \in [Flows -> 0 .. MaxPolls]
        BY <1>0, <2>3 DEF TypeOK
      <3>2. QED
        BY <1>0, <2>3, <3>1, EndsTypes
    <2>4. QED
      BY <2>1, <2>2, <2>3
  <1>3. previous' \in [Flows -> Raws]
    BY <1>0 DEF TypeOK, Baseline, ChangesTurn, StableTurn
  <1>4. /\ settleCount' \in [Flows -> 0 .. SettleFrames]
        /\ \A g \in Flows : g # f => settleCount'[g] = settleCount[g]
        /\ pc'[f] # "idle" => settleCount'[f] < SettleFrames
    <2>0. /\ settleCount \in [Flows -> 0 .. SettleFrames]
          /\ settleCount[f] \in 0 .. SettleFrames
          /\ settleCount[f] < SettleFrames
      BY <1>1 DEF ScreensInv, TypeOK, CountInv
    <2>1. CASE UNCHANGED settleCount
      BY <2>0, <2>1
    <2>2. CASE StableTurn(f, expired)
      <3>1. Settled(f) \in 0 .. SettleFrames
        BY <2>0, ScreensAssumption DEF Settled
      <3>2. settleCount' = [settleCount EXCEPT ![f] = Settled(f)]
        BY <2>2 DEF StableTurn
      <3>3. pc'[f] # "idle" => Settled(f) < SettleFrames
        BY <1>0, <2>2 DEF StableTurn, Ends, Goto, TypeOK
      <3>4. QED
        BY <2>0, <3>1, <3>2, <3>3
    <2>3. QED
      BY <2>1, <2>2 DEF Baseline, ChangesTurn
  <1>5. TypeOK'
    <2>1. ASSUME NEW g \in Flows, pc'[g] \notin {"idle", "sent"}
          PROVE  captured'[g] # Nothing
      BY <1>0, <1>1, <1>2, <2>1 DEF TypeOK
    <2>2. QED
      BY <1>0, <1>1, <1>2, <1>3, <1>4, <2>1 DEF TypeOK
  <1>6. CountInv'
    BY <1>2, <1>4 DEF ScreensInv, CountInv
  <1>7. Progress(f) /\ pc'[f] \notin Writing
    BY <1>1, <1>2 DEF Progress, Writing
  <1>8. QED
    BY <1>1, <1>5, <1>6, <1>7, ProgressHolds DEF Writing

(* What a step of a comparison must leave, and the rest follows.           *)
LEMMA ComparisonTypes ==
  ASSUME ScreensInv, NEW f \in Flows, pc[f] \notin {"idle", "sent"},
         UNCHANGED <<mode, script, call, captured, waitVars, rivals>>,
         references' \in [Names -> Files], cut' \subseteq Names,
         \/ \E where \in PCs : Goto(f, where) /\ UNCHANGED result
         \/ \E how \in Results : Ends(f, how)
  PROVE  /\ TypeOK' /\ CountInv'
         /\ \E where \in PCs : Goto(f, where)
         /\ \A g \in Flows : g # f => pc'[g] = pc[g]
  <1>1. /\ pc' \in [Flows -> PCs] /\ result' \in [Flows -> Results]
        /\ \E where \in PCs : Goto(f, where)
        /\ \A g \in Flows : g # f => pc'[g] = pc[g]
    BY DEF ScreensInv, TypeOK, Ends, Goto, PCs
  <1>2. ASSUME NEW g \in Flows, pc'[g] \notin {"idle", "sent"}
        PROVE  captured'[g] # Nothing
    BY <1>1, <1>2 DEF ScreensInv, TypeOK
  <1>3. TypeOK'
    BY <1>1, <1>2 DEF ScreensInv, TypeOK, waitVars
  <1>4. CountInv'
    BY <1>1 DEF ScreensInv, CountInv, waitVars
  <1>5. QED
    BY <1>1, <1>3, <1>4

(* Nothing but a missing file makes the verdict "missing".                 *)
LEMMA VerdictTypes ==
  ASSUME NEW c, NEW raw, NEW file
  PROVE  /\ Verdict(c, raw, file) \in Results
         /\ Verdict(c, raw, file) = "missing" => file = NoFile
  BY DEF Verdict, Results

(* The reference is read, and what follows is decided.                     *)
LEMMA ReadHolds ==
  ASSUME ScreensInv, NEW f \in Flows, Read(f)
  PROVE  ScreensInv'
  <1> DEFINE c == call[f]
             verdict == Verdict(c, captured[f], references[c.name])
  <1>1. verdict \in Results /\ (verdict = "missing" => references[c.name] = NoFile)
    BY VerdictTypes
  <1>2. /\ pc[f] \in {"captured", "again"} /\ c.op = "match"
        /\ UNCHANGED <<mode, script, references, cut, call, captured, waitVars,
                       rivals>>
    BY DEF Read, fileVars
  <1>3. c \in Matches
    BY <1>2 DEF ScreensInv, CallInv, Waits, WaitUntilScreenChanges,
                WaitUntilStable
  <1>4. \/ Writes(f) /\ Goto(f, "write") /\ UNCHANGED result
        \/ /\ ~Writes(f) /\ verdict = "missing" /\ AutoCreateMissing(c)
           /\ Goto(f, "again") /\ UNCHANGED result
        \/ Goto(f, "diff") /\ UNCHANGED result
        \/ Ends(f, verdict)
    BY DEF Read
  <1> HIDE DEF verdict
  <1>5. /\ TypeOK' /\ CountInv'
        /\ \E where \in PCs : Goto(f, where)
    <2>1. \/ \E where \in PCs : Goto(f, where) /\ UNCHANGED result
          \/ \E how \in Results : Ends(f, how)
      BY <1>1, <1>4 DEF PCs
    <2>2. references' \in [Names -> Files] /\ cut' \subseteq Names
      BY <1>2 DEF ScreensInv, TypeOK
    <2>3. QED
      BY <1>2, <2>1, <2>2, ComparisonTypes
  <1>6. Progress(f) /\ pc[f] # "idle"
    BY <1>2, <1>5 DEF Progress
  <1>7. pc'[f] \in Writing => UpdateMode(c) \/ AutoCreateMissing(c)
    BY <1>2, <1>4 DEF ScreensInv, TypeOK, WriteInv, Writing, Writes, Goto, Ends
  <1>8. pc'[f] \in {"again", "write"} /\ ~UpdateMode(c) /\ ~rivals[f] =>
          references[c.name] = NoFile
    BY <1>1, <1>2, <1>4
       DEF ScreensInv, TypeOK, WriteInv, Writes, Goto, Ends
  <1>9. QED
    BY <1>3, <1>5, <1>6, <1>7, <1>8, ProgressHolds

(* A file is opened or written: the flow knows of any other that is at     *)
(* work on that name.                                                      *)
LEMMA WriteHolds ==
  ASSUME ScreensInv, NEW f \in Flows, Opens(f) \/ Fills(f)
  PROVE  ScreensInv'
  <1>1. /\ pc[f] \in {"write", "filling"} /\ pc'[f] \in {"filling", "idle"}
        /\ UNCHANGED <<mode, script, call, captured, waitVars, rivals>>
        /\ \/ \E where \in PCs : Goto(f, where) /\ UNCHANGED result
           \/ \E how \in Results : Ends(f, how)
    <2>1. CASE Opens(f)
      BY <2>1 DEF ScreensInv, TypeOK, Opens, Goto, PCs
    <2>2. CASE Fills(f)
      BY <2>2 DEF ScreensInv, TypeOK, Fills, Ends, Goto, Results
    <2>3. QED
      BY <2>1, <2>2
  <1>2. call[f] \in Matches /\ call[f].name \in Names
    BY <1>1 DEF ScreensInv, CallInv, Writing, Matches
  <1>3. \E file \in Files : references' = [references EXCEPT ![call[f].name] = file]
    <2>1. captured[f] \in Displays
      BY <1>1 DEF ScreensInv, TypeOK, Raws
    <2>2. framebufferToPng(captured[f]) \in Files
      BY <2>1, FileOfDisplay DEF Files, Raws
    <2>3. Truncated \in Files
      BY DEF Files
    <2>4. QED
      BY <2>2, <2>3 DEF Opens, Fills
  <1>4. references' \in [Names -> Files] /\ cut' \subseteq Names
    <2>1. cut' \subseteq cut
      BY DEF Opens, Fills
    <2>2. QED
      BY <1>3, <2>1 DEF ScreensInv, TypeOK
  <1>5. /\ TypeOK' /\ CountInv'
        /\ \A g \in Flows : g # f => pc'[g] = pc[g]
    BY <1>1, <1>4, ComparisonTypes
  <1>6. CallInv' /\ RivalsInv'
    BY <1>1, <1>2, <1>5
       DEF ScreensInv, CallInv, RivalsInv, SameName, Writing
  <1>7. ASSUME NEW g \in Flows
        PROVE  /\ pc'[g] \in Writing =>
                    (UpdateMode(call[g]) \/ AutoCreateMissing(call[g]))'
               /\ pc'[g] \in {"again", "write"} /\ ~UpdateMode(call[g])'
                    /\ ~rivals'[g] => references'[call'[g].name] = NoFile
    <2>1. CASE g = f
      BY <1>1, <2>1
         DEF ScreensInv, WriteInv, Writing, UpdateMode, AutoCreateMissing
    <2>2. CASE g # f
      <3>1. pc'[g] = pc[g]
        BY <1>5, <2>2
      <3>2. pc'[g] \in Writing =>
              (UpdateMode(call[g]) \/ AutoCreateMissing(call[g]))'
        BY <1>1, <3>1 DEF ScreensInv, WriteInv, UpdateMode, AutoCreateMissing
      <3>3. ASSUME pc[g] \in {"again", "write"}, ~UpdateMode(call[g]), ~rivals[g]
            PROVE  references'[call[g].name] = NoFile
        <4>1. call[g] \in Matches /\ call[g].name \in Names
          BY <3>3 DEF ScreensInv, CallInv, Writing, Matches
        <4>2. call[g].name # call[f].name
          BY <1>1, <1>2, <2>2, <3>3, <4>1
             DEF ScreensInv, RivalsInv, SameName
        <4>3. references[call[g].name] = NoFile
          BY <3>3 DEF ScreensInv, WriteInv
        <4>4. QED
          BY <1>3, <4>1, <4>2, <4>3 DEF ScreensInv, TypeOK
      <3>4. QED
        BY <1>1, <3>1, <3>2, <3>3 DEF UpdateMode
    <2>3. QED
      BY <2>1, <2>2
  <1>8. WriteInv'
    BY <1>7 DEF WriteInv
  <1>9. QED
    BY <1>5, <1>6, <1>8 DEF ScreensInv

(* A comparison ends otherwise.                                            *)
LEMMA EndHolds ==
  ASSUME ScreensInv, NEW f \in Flows, WritesDiff(f) \/ FileFails(f)
  PROVE  ScreensInv'
  <1>1. /\ pc[f] \notin {"idle", "sent"}
        /\ UNCHANGED <<mode, script, references, call, captured, waitVars, rivals>>
        /\ \E how \in Results : Ends(f, how)
        /\ cut' \in {cut, cut \cup {call[f].name}}
        /\ pc[f] # "filling" => cut' = cut
    BY DEF WritesDiff, FileFails, fileVars, Results
  <1>2. references' \in [Names -> Files] /\ cut' \subseteq Names
    <2>1. pc[f] = "filling" => call[f].name \in Names
      BY DEF ScreensInv, CallInv, Writing, Matches
    <2>2. QED
      BY <1>1, <2>1 DEF ScreensInv, TypeOK
  <1>3. TypeOK' /\ CountInv' /\ \E where \in PCs : Goto(f, where)
    BY <1>1, <1>2, ComparisonTypes
  <1>4. Progress(f) /\ pc[f] # "idle" /\ pc'[f] \notin Writing
    BY <1>1, <1>3 DEF ScreensInv, TypeOK, Progress, Ends, Goto, Writing
  <1>5. QED
    BY <1>3, <1>4, ProgressHolds DEF Writing

(* Another run begins with all flows idle.                                 *)
LEMMA NewRunHolds ==
  ASSUME ScreensInv, NEW m \in Modes, NewRun(m)
  PROVE  ScreensInv'
  <1>1. TypeOK'
    <2>1. /\ mode' \in Modes /\ script' \in Scripts
          /\ references' \in [Names -> Files] /\ cut' \subseteq Names
      BY DEF ScreensInv, TypeOK, NewRun
    <2>2. pc' \in [Flows -> PCs] /\ result' \in [Flows -> Results]
      BY DEF NewRun, PCs, Results
    <2>3. captured' \in [Flows -> Raws] /\ previous' \in [Flows -> Raws]
      BY DEF NewRun, Raws
    <2>4. /\ settleCount' \in [Flows -> 0 .. SettleFrames]
          /\ polls' \in [Flows -> 0 .. MaxPolls]
      BY ScreensAssumption DEF NewRun
    <2>5. \A f \in Flows : pc'[f] = "idle"
      BY DEF NewRun
    <2>6. QED
      BY <2>1, <2>2, <2>3, <2>4, <2>5 DEF TypeOK
  <1>2. CallInv' /\ CountInv' /\ RivalsInv' /\ WriteInv'
    BY DEF NewRun, CallInv, CountInv, RivalsInv, WriteInv, Writing
  <1>3. QED
    BY <1>1, <1>2 DEF ScreensInv

(* A stutter keeps it,                                                     *)
LEMMA StutterHolds ==
  ASSUME ScreensInv, UNCHANGED vars PROVE ScreensInv'
  BY DEF ScreensInv, TypeOK, CallInv, CountInv, RivalsInv, SameName, WriteInv,
         UpdateMode, AutoCreateMissing, vars, fileVars, waitVars

(* and so does every step.                                                 *)
LEMMA NextHolds ==
  ASSUME ScreensInv, [Next]_vars PROVE ScreensInv'
  BY BeginHolds, ScreenshotHolds, WaitHolds, ReadHolds, WriteHolds, EndHolds,
     NewRunHolds, StutterHolds DEF Next

(* In every state the invariant holds.                                     *)
THEOREM Invariant == Spec => []ScreensInv
  <1>1. ScreensInv /\ [Next]_vars => ScreensInv'
    BY NextHolds
  <1>2. QED
    BY InitHolds, <1>1, PTL DEF Spec

(* The variables keep their types, and what is past its screenshot has a   *)
(* framebuffer.                                                            *)
THEOREM ScreenTypesKept == Spec => []TypeOK
  <1>1. ScreensInv => TypeOK
    BY DEF ScreensInv
  <1>2. QED
    BY Invariant, <1>1, PTL

(* A step that changes a file was allowed to.                              *)
LEMMA ChangesAreAllowed ==
  ASSUME ScreensInv, [Next]_vars, NEW n \in Names,
         references'[n] # references[n]
  PROVE  \E f \in Flows : MayWrite(f, n)
  <1>1. PICK f \in Flows : Opens(f) \/ Fills(f)
    BY DEF Next, Begin, FrameCaptures, ScreenshotFails, Baseline, ChangesTurn,
           StableTurn, Read, WritesDiff, FileFails, NewRun, fileVars, vars
  <1>2. pc[f] \in {"write", "filling"}
    BY <1>1 DEF Opens, Fills
  <1>3. call[f].name = n
    BY <1>1 DEF ScreensInv, TypeOK, Opens, Fills
  <1>4. UpdateMode(call[f]) \/ AutoCreateMissing(call[f])
    BY <1>2 DEF ScreensInv, WriteInv, Writing
  <1>5. mode \in Modes
    BY DEF ScreensInv, TypeOK
  <1>6. CASE UpdateMode(call[f])
    BY <1>2, <1>3, <1>6 DEF MayWrite, UpdateMode
  <1>7. CASE ~UpdateMode(call[f])
    <2>1. call[f].updateMode = "undefined" /\ mode = "new"
      BY <1>4, <1>5, <1>7 DEF AutoCreateMissing, UpdateMode, Modes
    <2>2. references[n] = NoFile \/ pc[f] = "filling" \/ rivals[f]
      BY <1>2, <1>3, <1>7 DEF ScreensInv, WriteInv, RivalsInv
    <2>3. QED
      BY <1>2, <1>3, <2>1, <2>2 DEF MayWrite
  <1>8. QED
    BY <1>6, <1>7

(* A file that is torn is being written, or something stopped its writing. *)
LEMMA TornInit == Init => NoTornReference
  <1> SUFFICES ASSUME Init, NEW n \in Names PROVE references[n] # Truncated
    BY DEF NoTornReference
  <1>1. source[n] \in Displays \cup {NoFile, Nothing}
    BY DEF Init
  <1>2. references[n] = FileOf(source[n])
    BY DEF Init
  <1>3. QED
    BY <1>1, <1>2, TruncatedAssumption

LEMMA TornHolds ==
  ASSUME ScreensInv, NoTornReference, [Next]_vars
  PROVE  NoTornReference'
  <1> SUFFICES ASSUME NEW n \in Names, references'[n] = Truncated
               PROVE  n \in cut' \/ \E f \in Flows : Filling(f, n)'
    BY DEF NoTornReference
  <1> DEFINE Torn == n \in cut \/ \E f \in Flows : Filling(f, n)
  <1>1. ASSUME NEW f \in Flows, Opens(f)
        PROVE  Torn'
    <2>1. CASE call[f].name = n
      BY <1>1, <2>1 DEF ScreensInv, TypeOK, Opens, Goto, Filling
    <2>2. CASE call[f].name # n
      <3>1. references[n] = Truncated /\ (n \in cut <=> n \in cut')
        BY <1>1, <2>2 DEF ScreensInv, TypeOK, Opens
      <3>2. \A g \in Flows : Filling(g, n) => Filling(g, n)'
        BY <1>1 DEF ScreensInv, TypeOK, Opens, Goto, Filling
      <3>3. QED
        BY <3>1, <3>2 DEF NoTornReference
    <2>3. QED
      BY <2>1, <2>2
  <1>2. ASSUME NEW f \in Flows, Fills(f)
        PROVE  Torn'
    <2>1. framebufferToPng(captured[f]) # Truncated
      <3>1. captured[f] \in Displays
        BY <1>2 DEF ScreensInv, TypeOK, Raws, Fills
      <3>2. QED
        BY <3>1, FileOfDisplay, TruncatedAssumption
    <2>2. call[f].name # n /\ references[n] = Truncated
      BY <1>2, <2>1 DEF ScreensInv, TypeOK, Fills
    <2>3. \A g \in Flows : Filling(g, n) => Filling(g, n)'
      BY <1>2, <2>2 DEF ScreensInv, TypeOK, Fills, Ends, Goto, Filling
    <2>4. cut' = cut
      BY <1>2 DEF Fills
    <2>5. QED
      BY <2>2, <2>3, <2>4 DEF NoTornReference
  <1>3. ASSUME NEW f \in Flows, FileFails(f)
        PROVE  Torn'
    <2>1. references[n] = Truncated
      BY <1>3 DEF FileFails
    <2>2. \A g \in Flows : Filling(g, n) => Filling(g, n)' \/ n \in cut'
      BY <1>3 DEF ScreensInv, TypeOK, FileFails, Ends, Goto, Filling
    <2>3. n \in cut => n \in cut'
      BY <1>3 DEF FileFails
    <2>4. QED
      BY <2>1, <2>2, <2>3 DEF NoTornReference
  <1>4. ASSUME NEW m \in Modes, NewRun(m)
        PROVE  Torn'
    BY <1>4 DEF NewRun, NoTornReference
  <1>5. ASSUME \/ \E f \in Flows : \E c \in script[f] : Begin(f, c)
               \/ \E f \in Flows, d \in Displays : FrameCaptures(f, d)
               \/ \E f \in Flows, expired \in BOOLEAN :
                    \/ Baseline(f, expired) \/ ChangesTurn(f, expired)
                    \/ StableTurn(f, expired)
               \/ \E f \in Flows :
                    ScreenshotFails(f) \/ Read(f) \/ WritesDiff(f)
               \/ UNCHANGED vars
        PROVE  Torn'
    <2> DEFINE Holds(g) == pc[g] = "filling" =>
                             pc'[g] = pc[g] /\ call'[g] = call[g]
    <2> USE DEF ScreensInv, TypeOK, Ends, Goto
    <2>a. ASSUME NEW f \in Flows, NEW c \in script[f], Begin(f, c)
          PROVE  UNCHANGED fileVars /\ \A g \in Flows : Holds(g)
      BY <2>a DEF Begin
    <2>b. ASSUME NEW f \in Flows, NEW d \in Displays, FrameCaptures(f, d)
          PROVE  UNCHANGED fileVars /\ \A g \in Flows : Holds(g)
      BY <2>b DEF FrameCaptures
    <2>c. ASSUME NEW f \in Flows, NEW expired \in BOOLEAN,
                 \/ Baseline(f, expired) \/ ChangesTurn(f, expired)
                 \/ StableTurn(f, expired)
          PROVE  UNCHANGED fileVars /\ \A g \in Flows : Holds(g)
      BY <2>c DEF Baseline, ChangesTurn, StableTurn, Turn
    <2>d. ASSUME NEW f \in Flows,
                 ScreenshotFails(f) \/ Read(f) \/ WritesDiff(f)
          PROVE  UNCHANGED fileVars /\ \A g \in Flows : Holds(g)
      BY <2>d DEF ScreenshotFails, Read, WritesDiff
    <2>e. ASSUME UNCHANGED vars
          PROVE  UNCHANGED fileVars /\ \A g \in Flows : Holds(g)
      BY <2>e DEF vars
    <2>1. UNCHANGED fileVars /\ \A g \in Flows : Holds(g)
      BY <1>5, <2>a, <2>b, <2>c, <2>d, <2>e DEF vars
    <2>2. \A g \in Flows : Filling(g, n) => Filling(g, n)'
      BY <2>1 DEF Filling
    <2>3. QED
      BY <2>1, <2>2 DEF NoTornReference, fileVars
  <1>6. QED
    BY <1>1, <1>2, <1>3, <1>4, <1>5 DEF Next

(* Unless a write fails or is stopped, a reference that is not being       *)
(* written is whole.                                                       *)
THEOREM NoneTorn == Spec => []NoTornReference
  <1>1. ScreensInv /\ NoTornReference /\ [Next]_vars => NoTornReference'
    BY TornHolds
  <1>2. QED
    BY TornInit, Invariant, <1>1, PTL DEF Spec

(* References are created and overwritten only as a test asked.            *)
THEOREM FilesKept == Spec => ReferencesKept
  <1>1. ScreensInv /\ [Next]_vars =>
          [\A n \in Names : references'[n] # references[n] =>
             \E f \in Flows : MayWrite(f, n)]_vars
    BY ChangesAreAllowed
  <1>2. QED
    BY Invariant, <1>1, PTL DEF Spec, ReferencesKept

-----------------------------------------------------------------------------
(***************************************************************************)
(* Bits, bytes and pixels: xorFramebuffers() counts the pixels in which    *)
(* two framebuffers differ, and so does a comparison with a PNG.  SUBSET   *)
(* gives the library's powers of two; there is no induction but on the     *)
(* least number for which something fails.                                 *)
(***************************************************************************)

(* A power of two counts the subsets.                                      *)
LEMMA Subsets ==
  ASSUME NEW n \in Nat
  PROVE  /\ IsFiniteSet(SUBSET (1..n)) /\ Cardinality(SUBSET (1..n)) = 2^n
         /\ 2^n \in Nat
  <1>1. IsFiniteSet(1..n) /\ Cardinality(1..n) = n
    BY FS_Interval
  <1>2. QED
    BY <1>1, FS_SUBSET, FS_CardinalityType

(* One element more doubles them.                                          *)
LEMMA Doubled ==
  ASSUME NEW n \in Nat
  PROVE  2^(n + 1) = 2 * 2^n
  <1> DEFINE S == SUBSET (1..n)
             T == {B \cup {n + 1} : B \in S}
  <1>1. IsFiniteSet(S) /\ Cardinality(S) = 2^n /\ 2^n \in Nat
    BY Subsets
  <1>2. ExistsBijection(S, T)
    <2> DEFINE f == [B \in S |-> B \cup {n + 1}]
    <2>1. f \in [S -> T]
      OBVIOUS
    <2>2. ASSUME NEW B \in S, NEW C \in S, f[B] = f[C]
          PROVE  B = C
      <3>1. n + 1 \notin B /\ n + 1 \notin C
        OBVIOUS
      <3>2. B \cup {n + 1} = C \cup {n + 1}
        BY <2>2
      <3>3. QED
        BY <3>1, <3>2
    <2>3. f \in Injection(S, T)
      BY <2>1, <2>2 DEF Injection, IsInjective
    <2>4. f \in Surjection(S, T)
      BY <2>1 DEF Surjection
    <2>5. QED
      BY <2>3, <2>4 DEF ExistsBijection, Bijection
  <1>3. IsFiniteSet(T) /\ Cardinality(T) = 2^n
    BY <1>1, <1>2, FS_Bijection
  <1>4. S \cap T = {}
    <2>1. ASSUME NEW B \in S PROVE n + 1 \notin B
      OBVIOUS
    <2>2. QED
      BY <2>1
  <1>5. SUBSET (1..(n + 1)) = S \cup T
    <2>1. ASSUME NEW B \in SUBSET (1..(n + 1)) PROVE B \in S \cup T
      <3>1. CASE n + 1 \notin B
        <4>1. \A x \in B : x \in 1..n
          BY <3>1
        <4>2. QED
          BY <4>1
      <3>2. CASE n + 1 \in B
        <4>1. \A x \in B \ {n + 1} : x \in 1..n
          OBVIOUS
        <4>2. B \ {n + 1} \in S /\ B = (B \ {n + 1}) \cup {n + 1}
          BY <3>2, <4>1
        <4>3. QED
          BY <4>2
      <3>3. QED
        BY <3>1, <3>2
    <2>2. ASSUME NEW B \in S
          PROVE  /\ B \in SUBSET (1..(n + 1))
                 /\ B \cup {n + 1} \in SUBSET (1..(n + 1))
      OBVIOUS
    <2>3. ASSUME NEW B \in S \cup T PROVE B \in SUBSET (1..(n + 1))
      BY <2>2
    <2> HIDE DEF S, T
    <2>4. QED
      BY <2>1, <2>3
  <1> HIDE DEF S, T
  <1>6. Cardinality(S \cup T) = 2^n + 2^n
    <2>1. Cardinality(S \cap T) = 0
      BY <1>4, FS_EmptySet
    <2>2. Cardinality(S \cup T) =
            Cardinality(S) + Cardinality(T) - Cardinality(S \cap T)
      BY <1>1, <1>3, FS_Union
    <2>3. QED
      BY <1>1, <1>3, <2>1, <2>2
  <1>7. 2^(n + 1) = 2^n + 2^n
    <2>1. Cardinality(SUBSET (1..(n + 1))) = 2^(n + 1)
      BY Subsets
    <2>2. QED
      BY <1>5, <1>6, <2>1
  <1>8. QED
    BY <1>1, <1>7

(* So each is twice the one before, and none is zero.                      *)
LEMMA TwoPowers ==
  /\ 2^0 = 1
  /\ \A n \in Nat : 2^n \in Nat \ {0} /\ 2^(n + 1) = 2 * 2^n
  <1>1. 2^0 = 1
    OBVIOUS
  <1>2. \A n \in Nat : 2^n \in Nat /\ 2^(n + 1) = 2 * 2^n
    BY Subsets, Doubled
  <1>3. ASSUME NEW n \in Nat PROVE 2^n # 0
    <2>1. {} \in SUBSET (1..n)
      OBVIOUS
    <2>2. QED
      BY <2>1, Subsets, FS_EmptySet
  <1>4. QED
    BY <1>1, <1>2, <1>3

(* Division, by what it leaves.                                            *)
LEMMA DivMod ==
  ASSUME NEW n \in Nat, NEW d \in Nat \ {0}
  PROVE  /\ n \div d \in Nat /\ n % d \in 0 .. (d - 1)
         /\ n = d * (n \div d) + (n % d)
  OBVIOUS
(* A quotient and a remainder are what they are.                           *)
LEMMA DivUnique ==
  ASSUME NEW d \in Nat \ {0}, NEW q \in Nat, NEW r \in 0 .. (d - 1)
  PROVE  /\ d * q + r \in Nat
         /\ (d * q + r) \div d = q /\ (d * q + r) % d = r
  OBVIOUS

(* The bits of a number: the lowest, and those of its half.                *)
LEMMA LowestBit ==
  ASSUME NEW x \in Nat
  PROVE  Bit(x, 0) = x % 2
  <1>1. x \div 1 = x
    OBVIOUS
  <1>2. QED
    BY <1>1, TwoPowers DEF Bit

(* The others are those of the half.                                       *)
LEMMA HigherBits ==
  ASSUME NEW x \in Nat, NEW i \in Nat
  PROVE  Bit(x, i + 1) = Bit(x \div 2, i)
  <1>1. PICK p : p = 2^i
    OBVIOUS
  <1>2. p \in Nat \ {0} /\ 2^(i + 1) = 2 * p
    BY <1>1, TwoPowers
  <1>3. PICK h \in Nat, r \in 0 .. 1 : x = 2 * h + r /\ x \div 2 = h
    BY DivMod
  <1>4. PICK q \in Nat, t \in 0 .. (p - 1) : h = p * q + t /\ h \div p = q
    BY <1>2, DivMod
  <1>5. x = (2 * p) * q + (2 * t + r)
    BY <1>2, <1>3, <1>4
  <1>6. 2 * p \in Nat \ {0} /\ 2 * t + r \in 0 .. (2 * p - 1)
    BY <1>2, <1>3, <1>4
  <1>7. x \div (2 * p) = q
    BY <1>5, <1>6, DivUnique
  <1>8. QED
    BY <1>1, <1>2, <1>3, <1>4, <1>7 DEF Bit

(* Each is 0 or 1.                                                         *)
LEMMA BitIsBit ==
  ASSUME NEW x \in Nat, NEW i \in Nat
  PROVE  Bit(x, i) \in {0, 1}
  <1>1. x \div 2^i \in Nat
    BY TwoPowers
  <1>2. QED
    BY <1>1 DEF Bit

(* Half of a number has a bit less.                                        *)
LEMMA Halved ==
  ASSUME NEW n \in Nat, NEW x \in 0 .. 2^(n + 1) - 1
  PROVE  x \in Nat /\ x \div 2 \in 0 .. 2^n - 1 /\ x % 2 \in {0, 1}
  <1>1. PICK p : p = 2^n
    OBVIOUS
  <1>2. p \in Nat /\ 2^(n + 1) = 2 * p
    BY <1>1, TwoPowers
  <1>3. QED
    BY <1>1, <1>2

(* The table of counts as far as n.                                        *)
IsTable(g, n) ==
  g = [i \in 0 .. n |-> IF i = 0 THEN 0 ELSE g[i \div 2] + (i % 2)]

(* There is one, as long as one wants,                                     *)
LEMMA TableExists ==
  ASSUME NEW n \in Nat
  PROVE  \E g : IsTable(g, n)
  <1> DEFINE Bad == {m \in Nat : ~\E g : IsTable(g, m)}
  <1>1. SUFFICES ASSUME n \in Bad PROVE FALSE
    OBVIOUS
  <1>2. PICK m \in Bad : \A k \in Bad : m <= k
    BY <1>1, LeastExists
  <1>3. CASE m = 0
    <2>1. IsTable([i \in 0 .. 0 |-> 0], 0)
      BY DEF IsTable
    <2>2. QED
      BY <1>2, <1>3, <2>1
  <1>4. CASE m # 0
    <2>1. m - 1 \in Nat /\ m - 1 \notin Bad
      BY <1>2, <1>4
    <2>2. PICK g : IsTable(g, m - 1)
      BY <2>1
    <2> DEFINE h == [i \in 0 .. m |->
                       IF i = m THEN g[m \div 2] + (m % 2) ELSE g[i]]
    <2>3. ASSUME NEW i \in 0 .. m
          PROVE  h[i] = IF i = 0 THEN 0 ELSE h[i \div 2] + (i % 2)
      <3>1. i \in Nat /\ i \div 2 \in Nat /\ i \div 2 <= i
        OBVIOUS
      <3>2. i # 0 => i \div 2 \in 0 .. (m - 1) /\ h[i \div 2] = g[i \div 2]
        BY <1>2, <3>1
      <3>3. CASE i = m
        BY <1>4, <3>2, <3>3
      <3>4. CASE i # m
        <4>1. i \in 0 .. (m - 1) /\ h[i] = g[i]
          BY <1>2, <3>4
        <4>2. g[i] = IF i = 0 THEN 0 ELSE g[i \div 2] + (i % 2)
          BY <2>2, <4>1 DEF IsTable
        <4>3. QED
          BY <3>2, <4>1, <4>2
      <3>5. QED
        BY <3>3, <3>4
    <2>4. h = [i \in 0 .. m |-> h[i]]
      OBVIOUS
    <2> HIDE DEF h
    <2>5. IsTable(h, m)
      BY <2>3, <2>4 DEF IsTable
    <2>6. QED
      BY <1>2, <2>5
  <1>5. QED
    BY <1>3, <1>4

(* so POPCOUNT is what it says.                                            *)
LEMMA PopcountIs ==
  ASSUME NEW i \in Bytes
  PROVE  POPCOUNT[i] = IF i = 0 THEN 0 ELSE POPCOUNT[i \div 2] + (i % 2)
  <1>1. 2^Bits \in Nat \ {0}
    BY TwoPowers, FrameBufferAssumption
  <1>2. 2^Bits - 1 \in Nat /\ Bytes = 0 .. 2^Bits - 1
    BY <1>1 DEF Bytes
  <1>3. \E g : IsTable(g, 2^Bits - 1)
    BY <1>2, TableExists
  <1>4. POPCOUNT = [k \in Bytes |->
                      IF k = 0 THEN 0 ELSE POPCOUNT[k \div 2] + (k % 2)]
    BY <1>2, <1>3, Zenon DEF POPCOUNT, IsTable
  <1>5. QED
    BY <1>4, Zenon

(* The bits of x below n that are set.                                     *)
BitsSet(x, n) == {i \in 0 .. n - 1 : Bit(x, i) = 1}

(* They are those of its half, one further up, and the lowest.             *)
LEMMA BitsOfHalf ==
  ASSUME NEW n \in Nat, NEW x \in Nat
  PROVE  /\ IsFiniteSet(BitsSet(x, n))
         /\ Cardinality(BitsSet(x, n + 1)) =
              Cardinality(BitsSet(x \div 2, n)) + (x % 2)
  <1> DEFINE half == BitsSet(x \div 2, n)
             up == {i + 1 : i \in half}
             f == [i \in half |-> i + 1]
  <1>1. \A k, y \in Nat : IsFiniteSet(BitsSet(y, k))
    <2>1. SUFFICES ASSUME NEW k \in Nat, NEW y \in Nat
                   PROVE  IsFiniteSet(BitsSet(y, k))
      OBVIOUS
    <2>2. IsFiniteSet(0 .. k - 1) /\ BitsSet(y, k) \in SUBSET (0 .. k - 1)
      BY FS_Interval DEF BitsSet
    <2>3. QED
      BY <2>2, FS_Subset
  <1>2. x \div 2 \in Nat /\ x % 2 \in {0, 1}
    OBVIOUS
  <1>3. IsFiniteSet(half) /\ half \subseteq 0 .. n - 1
    BY <1>1, <1>2 DEF BitsSet
  <1>4. IsFiniteSet(up) /\ Cardinality(up) = Cardinality(half)
    <2> HIDE DEF half
    <2>1. /\ f \in [half -> up]
          /\ \A i, j \in half : f[i] = f[j] => i = j
          /\ \A k \in up : \E i \in half : f[i] = k
      BY <1>3
    <2> HIDE DEF f, up
    <2>2. f \in Injection(half, up) /\ f \in Surjection(half, up)
      BY <2>1 DEF Injection, IsInjective, Surjection
    <2>3. ExistsBijection(half, up)
      BY <2>2 DEF ExistsBijection, Bijection
    <2>4. QED
      BY <1>3, <2>3, FS_Bijection
  <1>5. ASSUME NEW i \in Nat
        PROVE  /\ Bit(x, i + 1) = Bit(x \div 2, i)
               /\ Bit(x, 0) = x % 2
    BY HigherBits, LowestBit
  <1>6. ASSUME NEW i \in 1 .. n
        PROVE  i \in BitsSet(x, n + 1) <=> i \in up
    <2>1. i - 1 \in 0 .. n - 1 /\ i \in 0 .. (n + 1) - 1
      OBVIOUS
    <2>2. Bit(x, i) = Bit(x \div 2, i - 1)
      <3>1. (i - 1) + 1 = i
        OBVIOUS
      <3>2. QED
        BY <1>5, <2>1, <3>1
    <2>3. i \in up <=> i - 1 \in half
      BY <1>3
    <2>4. QED
      BY <2>1, <2>2, <2>3 DEF BitsSet
  <1>7. up \subseteq 1 .. n /\ 0 \notin up
    BY <1>3
  <1>8. BitsSet(x, n + 1) = IF x % 2 = 1 THEN up \cup {0} ELSE up
    <2>1. BitsSet(x, n + 1) \subseteq 0 .. n
      BY DEF BitsSet
    <2>2. 0 \in BitsSet(x, n + 1) <=> x % 2 = 1
      BY <1>5 DEF BitsSet
    <2>3. \A i \in 0 .. n : i = 0 \/ i \in 1 .. n
      OBVIOUS
    <2> HIDE DEF up
    <2>4. PICK all : all = BitsSet(x, n + 1)
      OBVIOUS
    <2>5. 0 \in 0 .. n /\ 1 .. n \subseteq 0 .. n
      OBVIOUS
    <2>6. CASE x % 2 = 1
      <3>1. \A i \in 0 .. n : i \in all <=> i \in up \cup {0}
        BY <1>6, <1>7, <2>2, <2>3, <2>4, <2>6
      <3>2. all \subseteq 0 .. n /\ up \cup {0} \subseteq 0 .. n
        BY <1>7, <2>1, <2>4, <2>5
      <3>3. all = up \cup {0}
        BY ONLY <3>1, <3>2
      <3>4. QED
        BY <2>4, <2>6, <3>3
    <2>7. CASE x % 2 # 1
      <3>1. \A i \in 0 .. n : i \in all <=> i \in up
        BY <1>6, <1>7, <2>2, <2>3, <2>4, <2>7
      <3>2. all \subseteq 0 .. n /\ up \subseteq 0 .. n
        BY <1>7, <2>1, <2>4, <2>5
      <3>3. all = up
        BY ONLY <3>1, <3>2
      <3>4. QED
        BY <2>4, <2>7, <3>3
    <2>8. QED
      BY <2>6, <2>7
  <1> HIDE DEF up, half
  <1>9. Cardinality(half) \in Nat
    BY <1>3, FS_CardinalityType
  <1>10. Cardinality(BitsSet(x, n + 1)) = Cardinality(half) + (x % 2)
    <2>1. CASE x % 2 = 1
      BY <1>4, <1>7, <1>8, <2>1, FS_AddElement
    <2>2. CASE x % 2 = 0
      BY <1>4, <1>8, <1>9, <2>2
    <2>3. QED
      BY <1>2, <2>1, <2>2
  <1>11. QED
    BY <1>1, <1>10 DEF half

(* Powers of two grow.                                                     *)
LEMMA PowersGrow ==
  ASSUME NEW n \in Nat, NEW k \in Nat, n <= k
  PROVE  2^n <= 2^k
  <1> DEFINE Bad == {j \in Nat : n <= j /\ ~(2^n <= 2^j)}
  <1>1. SUFFICES ASSUME Bad # {} PROVE FALSE
    OBVIOUS
  <1>2. PICK j \in Bad : \A l \in Bad : j <= l
    BY <1>1, LeastExists
  <1>3. 2^n \in Nat
    BY TwoPowers
  <1>4. j # n
    BY <1>2, <1>3
  <1>5. j - 1 \in Nat /\ n <= j - 1 /\ (j - 1) + 1 = j
    BY <1>2, <1>4
  <1>6. 2^n <= 2^(j - 1)
    BY <1>2, <1>5
  <1>7. 2^(j - 1) \in Nat /\ 2^j = 2 * 2^(j - 1)
    BY <1>5, TwoPowers
  <1>8. QED
    BY <1>2, <1>3, <1>6, <1>7

(* POPCOUNT counts the bits that are set.                                  *)
Counted(n) ==
  \A x \in 0 .. 2^n - 1 : POPCOUNT[x] = Cardinality(BitsSet(x, n))

(* It counts them in every byte: by induction on the bits looked at.       *)
LEMMA PopcountCounts == Counted(Bits)
  <1> DEFINE Bad == {n \in Nat : n <= Bits /\ ~Counted(n)}
  <1>0. Bits \in Nat
    BY FrameBufferAssumption
  <1>1. SUFFICES ASSUME Bad # {} PROVE FALSE
    BY <1>0
  <1>2. PICK n \in Bad : \A k \in Bad : n <= k
    BY <1>1, LeastExists
  <1>3. 0 \in Bytes /\ POPCOUNT[0] = 0
    <2>1. 2^Bits \in Nat \ {0}
      BY <1>0, TwoPowers
    <2>2. 0 \in Bytes
      BY <2>1 DEF Bytes
    <2>3. QED
      BY <2>2, PopcountIs
  <1>4. CASE n = 0
    <2>1. BitsSet(0, 0) = {} /\ Cardinality({}) = 0
      BY FS_EmptySet DEF BitsSet
    <2>2. 2^0 - 1 = 0
      BY TwoPowers
    <2>3. Counted(0)
      BY <1>3, <2>1, <2>2 DEF Counted
    <2>4. QED
      BY <1>2, <1>4, <2>3
  <1>5. CASE n # 0
    <2>1. PICK m \in Nat : n = m + 1
      <3>1. n - 1 \in Nat /\ n = (n - 1) + 1
        BY <1>2, <1>5
      <3>2. QED
        BY <3>1
    <2>2. Counted(m) /\ n <= Bits
      BY <1>0, <1>2, <2>1
    <2>3. ASSUME NEW x \in 0 .. 2^(m + 1) - 1
          PROVE  POPCOUNT[x] = Cardinality(BitsSet(x, m + 1))
      <3>1. x \in Nat /\ x \div 2 \in 0 .. 2^m - 1 /\ x % 2 \in {0, 1}
        BY <2>1, Halved
      <3>2. POPCOUNT[x \div 2] = Cardinality(BitsSet(x \div 2, m))
        BY <2>2, <3>1 DEF Counted
      <3>3. Cardinality(BitsSet(x, m + 1)) = POPCOUNT[x \div 2] + (x % 2)
        BY <3>1, <3>2, BitsOfHalf
      <3>4. x \in Bytes
        BY <1>0, <2>1, <2>2, PowersGrow DEF Bytes
      <3>5. CASE x = 0
        BY <1>3, <3>3, <3>5
      <3>6. CASE x # 0
        BY <3>3, <3>4, <3>6, PopcountIs
      <3>7. QED
        BY <3>5, <3>6
    <2>4. Counted(m + 1)
      BY <2>3 DEF Counted
    <2>5. QED
      BY <1>2, <2>1, <2>4
  <1>6. QED
    BY <1>4, <1>5

(* Any bits are those of a number.                                         *)
Made(n) ==
  \A D \in SUBSET (0 .. n - 1) : \E x \in 0 .. 2^n - 1 : BitsSet(x, n) = D

(* As many bits as one wants: by induction on them.                        *)
LEMMA BitsMade ==
  ASSUME NEW n \in Nat
  PROVE  Made(n)
  <1> DEFINE Bad == {k \in Nat : ~Made(k)}
  <1>1. SUFFICES ASSUME Bad # {} PROVE FALSE
    OBVIOUS
  <1>2. PICK k \in Bad : \A l \in Bad : k <= l
    BY <1>1, LeastExists
  <1>3. CASE k = 0
    <2>1. BitsSet(0, 0) = {} /\ 0 .. 0 - 1 = {}
      BY DEF BitsSet
    <2>2. 0 \in 0 .. 2^0 - 1
      BY TwoPowers
    <2>3. Made(0)
      BY <2>1, <2>2 DEF Made
    <2>4. QED
      BY <1>2, <1>3, <2>3
  <1>4. CASE k # 0
    <2>1. PICK m \in Nat : k = m + 1
      <3>1. k - 1 \in Nat /\ k = (k - 1) + 1
        BY <1>2, <1>4
      <3>2. QED
        BY <3>1
    <2>2. Made(m)
      BY <1>2, <2>1
    <2>3. ASSUME NEW D \in SUBSET (0 .. (m + 1) - 1)
          PROVE  \E x \in 0 .. 2^(m + 1) - 1 : BitsSet(x, m + 1) = D
      <3> DEFINE E == {i \in 0 .. m - 1 : i + 1 \in D}
      <3>1. PICK y \in 0 .. 2^m - 1 : BitsSet(y, m) = E
        BY <2>2 DEF Made
      <3>2. PICK r \in {0, 1} : r = 1 <=> 0 \in D
        OBVIOUS
      <3>3. PICK p \in Nat : p = 2^m /\ 2^(m + 1) = 2 * p
        BY TwoPowers
      <3> DEFINE x == 2 * y + r
      <3>4. x \in 0 .. 2^(m + 1) - 1 /\ x \in Nat
        BY <3>3
      <3>5. x \div 2 = y /\ x % 2 = r
        BY <3>3
      <3> HIDE DEF x
      <3>6. Bit(x, 0) = r
        BY <3>4, <3>5, LowestBit
      <3>7. ASSUME NEW i \in 0 .. (m + 1) - 1
            PROVE  Bit(x, i) = 1 <=> i \in D
        <4>1. CASE i = 0
          BY <3>2, <3>6, <4>1
        <4>2. CASE i # 0
          <5>1. PICK j \in 0 .. m - 1 : i = j + 1
            <6>1. i - 1 \in 0 .. m - 1 /\ i = (i - 1) + 1
              BY <4>2
            <6>2. QED
              BY <6>1
          <5>2. Bit(x, i) = Bit(y, j)
            <6>1. x \in Nat /\ j \in Nat
              BY <3>4
            <6>2. Bit(x, j + 1) = Bit(x \div 2, j)
              BY ONLY <6>1, HigherBits
            <6>3. QED
              BY <3>5, <5>1, <6>2
          <5>3. Bit(y, j) = 1 <=> j \in E
            BY <3>1 DEF BitsSet
          <5>4. QED
            BY <5>1, <5>2, <5>3
        <4>3. QED
          BY <4>1, <4>2
      <3>8. BitsSet(x, m + 1) = D
        BY <3>7 DEF BitsSet
      <3>9. QED
        BY <3>4, <3>8
    <2>4. Made(m + 1)
      BY <2>3 DEF Made
    <2>5. QED
      BY <1>2, <2>1, <2>4
  <1>5. QED
    BY <1>3, <1>4

(* The bits of the exclusive or are those that differ, and POPCOUNT counts *)
(* them.                                                                   *)
BitsDiffer(a, b) == {i \in 0 .. Bits - 1 : Bit(a, i) # Bit(b, i)}

(* As many as that.                                                        *)
LEMMA XorCounts ==
  ASSUME NEW a \in Bytes, NEW b \in Bytes
  PROVE  POPCOUNT[Xor(a, b)] = Cardinality(BitsDiffer(a, b))
  <1>1. Bits \in Nat
    BY FrameBufferAssumption
  <1>2. PICK x \in Bytes : BitsSet(x, Bits) = BitsDiffer(a, b)
    <2>1. BitsDiffer(a, b) \in SUBSET (0 .. Bits - 1)
      BY DEF BitsDiffer
    <2>2. QED
      BY <1>1, <2>1, BitsMade DEF Made, Bytes
  <1>3. \A i \in 0 .. Bits - 1 : Bit(x, i) = 1 <=> Bit(a, i) # Bit(b, i)
    BY <1>2 DEF BitsSet, BitsDiffer
  <1>4. /\ Xor(a, b) \in Bytes
        /\ \A i \in 0 .. Bits - 1 :
             Bit(Xor(a, b), i) = 1 <=> Bit(a, i) # Bit(b, i)
    BY <1>3 DEF Xor
  <1>5. BitsSet(Xor(a, b), Bits) = BitsDiffer(a, b)
    BY <1>4 DEF BitsSet, BitsDiffer
  <1>6. QED
    BY <1>4, <1>5, PopcountCounts DEF Counted, Bytes

-----------------------------------------------------------------------------
(* Where a framebuffer keeps its pixels.                                   *)

(* A pixel is in a row, there in a byte, and there a bit.                  *)
LEMMA PixelAt ==
  ASSUME NEW row \in 0 .. Height - 1, NEW i \in 0 .. BytesPerRow - 1,
         NEW k \in 0 .. Bits - 1
  PROVE  LET p == row * Width + (i * Bits + k)
         IN  /\ p \in Pixels
             /\ ByteOf(p) = row * RowSize + i
             /\ BitOf(p) = (Bits - 1) - k
  <1> DEFINE c == i * Bits + k
             p == row * Width + c
  <1>1. /\ Height \in Nat \ {0} /\ BytesPerRow \in Nat \ {0}
        /\ Bits \in Nat \ {0} /\ RowSize \in Nat \ {0}
    BY FrameBufferAssumption
  <1>2. Width \in Nat \ {0} /\ Width = BytesPerRow * Bits
    BY <1>1 DEF Width
  <1>3. c \in 0 .. Width - 1
    <2>1. i + 1 <= BytesPerRow
      BY <1>1
    <2>2. (i + 1) * Bits <= BytesPerRow * Bits
      BY <1>1, <2>1
    <2>3. (i + 1) * Bits = i * Bits + Bits
      BY <1>1
    <2>4. QED
      BY <1>1, <1>2, <2>2, <2>3
  <1>4. c \div Bits = i /\ c % Bits = k
    <2>1. c = Bits * i + k
      BY <1>1
    <2>2. QED
      BY <1>1, <2>1, DivUnique
  <1>5. p \div Width = row /\ p % Width = c
    <2>1. p = Width * row + c /\ row \in Nat
      BY <1>1, <1>2, <1>3
    <2> HIDE DEF c
    <2>2. (Width * row + c) \div Width = row /\ (Width * row + c) % Width = c
      BY ONLY <1>2, <1>3, <2>1, DivUnique
    <2>3. QED
      BY <2>1, <2>2
  <1>6. p % Bits = k
    <2>1. p = Bits * (row * BytesPerRow + i) + k
      <3>1. row * (BytesPerRow * Bits) = Bits * (row * BytesPerRow)
        BY <1>1
      <3>2. Bits * (row * BytesPerRow + i) =
              Bits * (row * BytesPerRow) + Bits * i
        BY <1>1
      <3>3. QED
        BY <1>1, <1>2, <3>1, <3>2
    <2>2. row * BytesPerRow + i \in Nat
      BY <1>1
    <2>3. PICK q \in Nat : q = row * BytesPerRow + i
      BY <2>2
    <2>4. (Bits * q + k) % Bits = k
      BY <1>1, DivUnique
    <2>5. QED
      BY <2>1, <2>3, <2>4
  <1>7. p \in Pixels
    <2>1. row + 1 <= Height
      BY <1>1
    <2>2. (row + 1) * Width <= Height * Width
      BY <1>1, <1>2, <2>1
    <2>3. /\ (row + 1) * Width = row * Width + Width
          /\ Height * Width = Width * Height
      BY <1>1, <1>2
    <2>4. p < Width * Height /\ p \in Nat
      BY <1>1, <1>2, <1>3, <2>2, <2>3
    <2>5. QED
      BY <1>1, <1>2, <2>4 DEF Pixels
  <1>8. QED
    BY <1>4, <1>5, <1>6, <1>7 DEF ByteOf, BitOf

(* Every pixel is so.                                                      *)
LEMMA PixelIs ==
  ASSUME NEW p \in Pixels
  PROVE  \E row \in 0 .. Height - 1, i \in 0 .. BytesPerRow - 1,
            k \in 0 .. Bits - 1 : p = row * Width + (i * Bits + k)
  <1>1. /\ Height \in Nat \ {0} /\ BytesPerRow \in Nat \ {0}
        /\ Bits \in Nat \ {0}
    BY FrameBufferAssumption
  <1>2. Width \in Nat \ {0} /\ Width = BytesPerRow * Bits
    BY <1>1 DEF Width
  <1>3. p \in Nat /\ p < Width * Height
    BY <1>1, <1>2 DEF Pixels
  <1>4. PICK row \in Nat, c \in 0 .. Width - 1 : p = Width * row + c
    <2>1. /\ p \div Width \in Nat /\ p % Width \in 0 .. Width - 1
          /\ p = Width * (p \div Width) + (p % Width)
      BY ONLY <1>2, <1>3, DivMod
    <2>2. QED
      BY <2>1
  <1>5. PICK i \in Nat, k \in 0 .. Bits - 1 : c = Bits * i + k
    <2>1. c \in Nat
      BY <1>2
    <2>2. /\ c \div Bits \in Nat /\ c % Bits \in 0 .. Bits - 1
          /\ c = Bits * (c \div Bits) + (c % Bits)
      BY ONLY <1>1, <2>1, DivMod
    <2>3. QED
      BY <2>2
  <1>6. row < Height
    <2>1. SUFFICES ASSUME row >= Height PROVE FALSE
      BY <1>1, <1>4
    <2>2. Width * row >= Width * Height
      BY <1>1, <1>2, <1>4, <2>1
    <2>3. QED
      BY <1>1, <1>2, <1>3, <1>4, <2>2
  <1>7. i < BytesPerRow
    <2>1. SUFFICES ASSUME i >= BytesPerRow PROVE FALSE
      BY <1>1, <1>5
    <2>2. Bits * i >= Bits * BytesPerRow
      BY <1>1, <1>5, <2>1
    <2>3. QED
      BY <1>1, <1>2, <1>4, <1>5, <2>2
  <1>8. row \in 0 .. Height - 1 /\ i \in 0 .. BytesPerRow - 1
    BY <1>1, <1>4, <1>5, <1>6, <1>7
  <1>9. p = row * Width + (i * Bits + k)
    BY <1>1, <1>2, <1>4, <1>5
  <1>10. QED
    BY <1>8, <1>9

(* The pixels in which two framebuffers differ, those in some of the bytes.*)
PixelsDiffer(a, b) ==
  {p \in Pixels : decodeFramebuffer(a)[p] # decodeFramebuffer(b)[p]}
DifferIn(a, b, T) == {p \in PixelsDiffer(a, b) : ByteOf(p) \in T}

(* The bytes of data are bytes of every framebuffer.                       *)
LEMMA InBuffer ==
  ASSUME NEW i \in DataBytes
  PROVE  i \in 0 .. RowSize * Height - 1
  <1>1. /\ Height \in Nat \ {0} /\ BytesPerRow \in Nat \ {0}
        /\ RowSize \in Nat \ {0} /\ BytesPerRow <= RowSize
    BY FrameBufferAssumption
  <1>2. PICK row \in 0 .. Height - 1, x \in 0 .. BytesPerRow - 1 :
               i = row * RowSize + x
    BY DEF DataBytes
  <1>3. row + 1 <= Height
    BY <1>1
  <1>4. (row + 1) * RowSize <= Height * RowSize
    BY <1>1, <1>3
  <1>5. /\ (row + 1) * RowSize = row * RowSize + RowSize
        /\ Height * RowSize = RowSize * Height
    BY <1>1
  <1>6. i < RowSize * Height /\ i \in Nat
    BY <1>1, <1>2, <1>4, <1>5
  <1>7. QED
    BY <1>1, <1>6

(* So a framebuffer has a byte there.                                      *)
LEMMA DataByte ==
  ASSUME NEW a \in Framebuffers, NEW i \in DataBytes
  PROVE  a[i] \in Bytes /\ a[i] \in Nat
  <1>1. a[i] \in Bytes
    BY InBuffer DEF Framebuffers
  <1>2. 2^Bits \in Nat
    BY FrameBufferAssumption, TwoPowers
  <1>3. QED
    BY <1>1, <1>2 DEF Bytes

(* A pixel differs when its bit does.                                      *)
LEMMA Decoded ==
  ASSUME NEW a \in Framebuffers, NEW b \in Framebuffers,
         NEW p \in Pixels, NEW j \in 0 .. Bits - 1, ByteOf(p) \in DataBytes,
         BitOf(p) = j
  PROVE  p \in PixelsDiffer(a, b) <=>
           j \in BitsDiffer(a[ByteOf(p)], b[ByteOf(p)])
  <1>1. j \in Nat
    BY FrameBufferAssumption
  <1>2. /\ Bit(a[ByteOf(p)], j) \in {0, 1}
        /\ Bit(b[ByteOf(p)], j) \in {0, 1}
    BY <1>1, DataByte, BitIsBit
  <1>3. /\ decodeFramebuffer(a)[p] =
             IF Bit(a[ByteOf(p)], j) = 1 THEN 255 ELSE 0
        /\ decodeFramebuffer(b)[p] =
             IF Bit(b[ByteOf(p)], j) = 1 THEN 255 ELSE 0
    BY DEF decodeFramebuffer
  <1>4. QED
    BY <1>2, <1>3 DEF PixelsDiffer, BitsDiffer

(* A byte has as many pixels that differ as POPCOUNT says.                 *)
LEMMA ByteCounts ==
  ASSUME NEW a \in Framebuffers, NEW b \in Framebuffers, NEW i \in DataBytes
  PROVE  /\ IsFiniteSet(DifferIn(a, b, {i}))
         /\ Cardinality(DifferIn(a, b, {i})) = POPCOUNT[Xor(a[i], b[i])]
  <1>1. /\ Height \in Nat \ {0} /\ BytesPerRow \in Nat \ {0}
        /\ RowSize \in Nat \ {0} /\ BytesPerRow <= RowSize
        /\ Bits \in Nat \ {0}
    BY FrameBufferAssumption
  <1>2. PICK row \in 0 .. Height - 1, x \in 0 .. BytesPerRow - 1 :
               i = row * RowSize + x
    BY DEF DataBytes
  <1> DEFINE D == BitsDiffer(a[i], b[i])
             P == DifferIn(a, b, {i})
             at(j) == row * Width + (x * Bits + ((Bits - 1) - j))
             f == [j \in D |-> at(j)]
  <1>3. ASSUME NEW j \in 0 .. Bits - 1
        PROVE  at(j) \in Pixels /\ ByteOf(at(j)) = i /\ BitOf(at(j)) = j
    <2>1. (Bits - 1) - j \in 0 .. Bits - 1 /\ (Bits - 1) - ((Bits - 1) - j) = j
      BY <1>1
    <2>2. QED
      BY <1>2, <2>1, PixelAt
  <1>4. D \subseteq 0 .. Bits - 1 /\ IsFiniteSet(D)
    <2>1. D \in SUBSET (0 .. Bits - 1) /\ IsFiniteSet(0 .. Bits - 1)
      BY <1>1, FS_Interval DEF BitsDiffer
    <2>2. QED
      BY <2>1, FS_Subset
  <1>5. ASSUME NEW p \in P
        PROVE  \E j \in D : p = at(j)
    <2>1. p \in Pixels /\ ByteOf(p) = i /\ p \in PixelsDiffer(a, b)
      BY DEF DifferIn, PixelsDiffer
    <2>2. PICK r \in 0 .. Height - 1, y \in 0 .. BytesPerRow - 1,
               k \in 0 .. Bits - 1 : p = r * Width + (y * Bits + k)
      BY <2>1, PixelIs
    <2>3. i = r * RowSize + y /\ BitOf(p) = (Bits - 1) - k
      BY <2>1, <2>2, PixelAt
    <2>4. r = row /\ y = x
      <3>1. /\ RowSize * row + x = RowSize * r + y
            /\ row \in Nat /\ r \in Nat
            /\ x \in 0 .. RowSize - 1 /\ y \in 0 .. RowSize - 1
        BY <1>1, <1>2, <2>3
      <3>2. /\ (RowSize * row + x) \div RowSize = row
            /\ (RowSize * row + x) % RowSize = x
            /\ (RowSize * r + y) \div RowSize = r
            /\ (RowSize * r + y) % RowSize = y
        BY ONLY <1>1, <3>1, DivUnique
      <3>3. QED
        BY <3>1, <3>2
    <2>5. PICK j \in 0 .. Bits - 1 : j = (Bits - 1) - k
      BY <1>1
    <2>6. (Bits - 1) - j = k
      BY <1>1, <2>5
    <2>7. p = at(j)
      BY <2>2, <2>4, <2>6
    <2>8. j \in D
      BY <2>1, <2>3, <2>5, Decoded
    <2>9. QED
      BY <2>7, <2>8
  <1>6. ASSUME NEW j \in D
        PROVE  at(j) \in P
    <2>1. at(j) \in Pixels /\ ByteOf(at(j)) = i /\ BitOf(at(j)) = j
      BY <1>3, <1>4
    <2>2. at(j) \in PixelsDiffer(a, b)
      BY <1>4, <2>1, Decoded
    <2>3. QED
      BY <2>1, <2>2 DEF DifferIn
  <1>7. ASSUME NEW j \in D, NEW k \in D, at(j) = at(k)
        PROVE  j = k
    BY <1>3, <1>4, <1>7
  <1> HIDE DEF D, P, at
  <1>8. f \in Injection(D, P) /\ f \in Surjection(D, P)
    <2>1. /\ f \in [D -> P]
          /\ \A j, k \in D : f[j] = f[k] => j = k
          /\ \A p \in P : \E j \in D : f[j] = p
      BY <1>5, <1>6, <1>7
    <2> HIDE DEF f
    <2>2. QED
      BY <2>1 DEF Injection, IsInjective, Surjection
  <1>9. ExistsBijection(D, P)
    BY <1>8 DEF ExistsBijection, Bijection
  <1>10. IsFiniteSet(P) /\ Cardinality(P) = Cardinality(D)
    BY <1>4, <1>9, FS_Bijection
  <1>11. Cardinality(D) = POPCOUNT[Xor(a[i], b[i])]
    BY DataByte, XorCounts DEF D
  <1>12. QED
    BY <1>10, <1>11 DEF P

(* The pixels that differ, in whichever bytes, are finitely many.          *)
LEMMA DifferFinite ==
  ASSUME NEW a, NEW b, NEW T
  PROVE  IsFiniteSet(DifferIn(a, b, T))
  <1>1. Width * Height - 1 \in Int
    BY FrameBufferAssumption DEF Width
  <1>2. IsFiniteSet(Pixels)
    BY <1>1, FS_Interval DEF Pixels
  <1>3. DifferIn(a, b, T) \in SUBSET Pixels
    BY DEF DifferIn, PixelsDiffer
  <1>4. QED
    BY <1>2, <1>3, FS_Subset

(* Those in one byte and those in the others add up.                       *)
LEMMA DifferApart ==
  ASSUME NEW a, NEW b, NEW T, NEW i \in T
  PROVE  Cardinality(DifferIn(a, b, T)) =
           Cardinality(DifferIn(a, b, {i}))
             + Cardinality(DifferIn(a, b, T \ {i}))
  <1>1. PICK A, B : A = DifferIn(a, b, {i}) /\ B = DifferIn(a, b, T \ {i})
    OBVIOUS
  <1>2. DifferIn(a, b, T) = A \cup B /\ A \cap B = {}
    BY <1>1 DEF DifferIn
  <1>3. IsFiniteSet(A) /\ IsFiniteSet(B)
    BY <1>1, DifferFinite
  <1>4. Cardinality(A) \in Nat /\ Cardinality(B) \in Nat
    BY <1>3, FS_CardinalityType
  <1>5. Cardinality(A \cap B) = 0
    BY <1>2, FS_EmptySet
  <1>6. Cardinality(A \cup B) =
          Cardinality(A) + Cardinality(B) - Cardinality(A \cap B)
    BY ONLY <1>3, FS_Union
  <1>7. QED
    BY <1>1, <1>2, <1>4, <1>5, <1>6

(* The sums xorFramebuffers() makes, over a set of bytes.                  *)
Sums(a, b, g) ==
  g = [s \in SUBSET DataBytes |->
         IF s = {} THEN 0
         ELSE LET x == CHOOSE x \in s : TRUE
              IN  POPCOUNT[Xor(a[x], b[x])] + g[s \ {x}]]

(* It is the function TLA+ chooses, at all the bytes.                      *)
LEMMA SumIsASum ==
  ASSUME NEW a, NEW b
  PROVE  xorFramebuffers(a, b) = (CHOOSE g : Sums(a, b, g))[DataBytes]
  BY DEF xorFramebuffers, MapThenSumSet, MapThenFoldSet, Sums

(* To count the pixels that differ is one way,                             *)
LEMMA CountIsASum ==
  ASSUME NEW a \in Framebuffers, NEW b \in Framebuffers
  PROVE  \E g : Sums(a, b, g)
  <1> DEFINE g == [s \in SUBSET DataBytes |-> Cardinality(DifferIn(a, b, s))]
  <1>1. ASSUME NEW s \in SUBSET DataBytes
        PROVE  g[s] = IF s = {} THEN 0
                      ELSE LET x == CHOOSE x \in s : TRUE
                           IN  POPCOUNT[Xor(a[x], b[x])] + g[s \ {x}]
    <2>1. CASE s = {}
      <3>1. DifferIn(a, b, {}) = {}
        BY DEF DifferIn
      <3>2. QED
        BY <2>1, <3>1, FS_EmptySet
    <2>2. CASE s # {}
      <3>1. PICK x \in s : x = CHOOSE y \in s : TRUE
        BY <2>2
      <3>2. x \in DataBytes /\ s \ {x} \in SUBSET DataBytes
        OBVIOUS
      <3>3. g[s] = POPCOUNT[Xor(a[x], b[x])] + g[s \ {x}]
        <4>1. /\ g[s] = Cardinality(DifferIn(a, b, s))
              /\ g[s \ {x}] = Cardinality(DifferIn(a, b, s \ {x}))
          BY <3>2
        <4>2. Cardinality(DifferIn(a, b, {x})) = POPCOUNT[Xor(a[x], b[x])]
          BY <3>2, ByteCounts
        <4>3. Cardinality(DifferIn(a, b, s)) =
                Cardinality(DifferIn(a, b, {x}))
                  + Cardinality(DifferIn(a, b, s \ {x}))
          BY DifferApart
        <4> HIDE DEF g
        <4>4. QED
          BY <4>1, <4>2, <4>3
      <3>4. QED
        BY <2>2, <3>1, <3>3
    <2>3. QED
      BY <2>1, <2>2
  <1>2. g = [s \in SUBSET DataBytes |-> g[s]]
    OBVIOUS
  <1> HIDE DEF g
  <1>3. Sums(a, b, g)
    BY <1>1, <1>2 DEF Sums
  <1>4. QED
    BY <1>3

(* and the only one.                                                       *)
LEMMA SumIsTheCount ==
  ASSUME NEW a \in Framebuffers, NEW b \in Framebuffers, NEW g, Sums(a, b, g),
         IsFiniteSet(DataBytes)
  PROVE  g[DataBytes] = Cardinality(DifferIn(a, b, DataBytes))
  <1> DEFINE Wrong(s) == g[s] # Cardinality(DifferIn(a, b, s))
             Bad == {n \in Nat : \E s \in SUBSET DataBytes :
                                   Cardinality(s) = n /\ Wrong(s)}
  <1>1. Cardinality(DataBytes) \in Nat
    BY FS_CardinalityType
  <1>2. SUFFICES ASSUME Bad # {} PROVE FALSE
    BY <1>1
  <1>3. PICK n \in Bad : \A k \in Bad : n <= k
    BY <1>2, LeastExists
  <1>4. PICK s \in SUBSET DataBytes : Cardinality(s) = n /\ Wrong(s)
    BY <1>3
  <1>5. g[s] = IF s = {} THEN 0
               ELSE LET x == CHOOSE x \in s : TRUE
                    IN  POPCOUNT[Xor(a[x], b[x])] + g[s \ {x}]
    BY Zenon DEF Sums
  <1>6. s # {}
    <2>1. DifferIn(a, b, {}) = {} /\ Cardinality({}) = 0
      BY FS_EmptySet DEF DifferIn
    <2>2. QED
      BY <1>4, <1>5, <2>1
  <1>7. PICK x \in s : x = CHOOSE y \in s : TRUE
    BY <1>6
  <1>8. g[s] = POPCOUNT[Xor(a[x], b[x])] + g[s \ {x}]
    BY <1>5, <1>6, <1>7
  <1>9. g[s \ {x}] = Cardinality(DifferIn(a, b, s \ {x}))
    <2>1. IsFiniteSet(s)
      BY FS_Subset
    <2>2. Cardinality(s \ {x}) = n - 1 /\ Cardinality(s \ {x}) \in Nat
      BY <1>4, <2>1, FS_RemoveElement, FS_CardinalityType
    <2>3. ~(n <= n - 1)
      BY <1>3
    <2>4. n - 1 \notin Bad
      BY <1>3, <2>3
    <2>5. s \ {x} \in SUBSET DataBytes
      OBVIOUS
    <2>6. QED
      BY <2>2, <2>4, <2>5
  <1>10. POPCOUNT[Xor(a[x], b[x])] = Cardinality(DifferIn(a, b, {x}))
    BY ByteCounts
  <1>11. QED
    BY <1>4, <1>8, <1>9, <1>10, DifferApart

(* A framebuffer has finitely many bytes of data, and every pixel is in    *)
(* one of them.                                                            *)
LEMMA DataBytesAll ==
  /\ IsFiniteSet(DataBytes)
  /\ \A p \in Pixels : ByteOf(p) \in DataBytes
  <1>1. \A p \in Pixels : ByteOf(p) \in DataBytes
    <2>1. SUFFICES ASSUME NEW p \in Pixels PROVE ByteOf(p) \in DataBytes
      OBVIOUS
    <2>2. PICK row \in 0 .. Height - 1, i \in 0 .. BytesPerRow - 1,
               k \in 0 .. Bits - 1 : p = row * Width + (i * Bits + k)
      BY PixelIs
    <2>3. ByteOf(p) = row * RowSize + i
      BY <2>2, PixelAt
    <2>4. QED
      BY <2>3 DEF DataBytes
  <1>2. \A i \in DataBytes : i \in 0 .. RowSize * Height - 1
    BY InBuffer
  <1>3. RowSize * Height - 1 \in Int
    BY FrameBufferAssumption
  <1>4. IsFiniteSet(0 .. RowSize * Height - 1)
    BY <1>3, FS_Interval
  <1>5. DataBytes \in SUBSET (0 .. RowSize * Height - 1)
    BY <1>2
  <1>6. QED
    BY <1>1, <1>4, <1>5, FS_Subset

(* xorFramebuffers() counts the pixels that differ.                        *)
THEOREM XorCountsPixels ==
  ASSUME NEW a \in Framebuffers, NEW b \in Framebuffers
  PROVE  /\ xorFramebuffers(a, b) = Cardinality(PixelsDiffer(a, b))
         /\ xorFramebuffers(a, b) \in Nat
         /\ xorFramebuffers(a, b) > 0 <=>
              decodeFramebuffer(a) # decodeFramebuffer(b)
  <1>1. PICK g : Sums(a, b, g) /\ xorFramebuffers(a, b) = g[DataBytes]
    BY SumIsASum, CountIsASum
  <1>2. DifferIn(a, b, DataBytes) = PixelsDiffer(a, b)
    BY DataBytesAll DEF DifferIn, PixelsDiffer
  <1>3. xorFramebuffers(a, b) = Cardinality(PixelsDiffer(a, b))
    BY <1>1, <1>2, SumIsTheCount, DataBytesAll
  <1>4. IsFiniteSet(PixelsDiffer(a, b))
    BY <1>2, DifferFinite
  <1>5. /\ Cardinality(PixelsDiffer(a, b)) \in Nat
        /\ Cardinality(PixelsDiffer(a, b)) = 0 <=> PixelsDiffer(a, b) = {}
    BY <1>4, FS_CardinalityType, FS_EmptySet
  <1>6. PixelsDiffer(a, b) = {} <=> decodeFramebuffer(a) = decodeFramebuffer(b)
    BY DEF PixelsDiffer, decodeFramebuffer
  <1>7. QED
    BY <1>3, <1>5, <1>6

(* The way of a framebuffer through a PNG loses nothing.                   *)
LEMMA PngKeeps ==
  ASSUME NEW s
  PROVE  /\ decodePng(framebufferToPng(s)).width = Width
         /\ decodePng(framebufferToPng(s)).height = Height
         /\ decodePng(framebufferToPng(s)).pixels = decodeFramebuffer(s)
  <1>1. Width \in Nat /\ Height \in Nat /\ Width * Height \in Nat
    BY FrameBufferAssumption DEF Width
  <1>2. PICK px : px = decodeFramebuffer(s)
    OBVIOUS
  <1>3. px = [p \in Pixels |-> px[p]]
    BY <1>2 DEF decodeFramebuffer
  <1>4. PICK png : png = framebufferToPng(s)
    OBVIOUS
  <1>5. /\ png.width = Width /\ png.height = Height
        /\ png.data = [j \in 0 .. 4 * Width * Height - 1 |->
                         IF j % 4 = 3 THEN 255 ELSE px[j \div 4]]
    BY <1>2, <1>4 DEF framebufferToPng, encodeGrayscalePng
  <1>6. \A p \in Pixels : png.data[4 * p] = px[p]
    <2>1. PICK n \in Nat : n = Width * Height
      BY <1>1
    <2>2. 4 * Width * Height = 4 * n
      BY <1>1, <2>1
    <2>3. SUFFICES ASSUME NEW p \in 0 .. n - 1 PROVE png.data[4 * p] = px[p]
      BY <2>1 DEF Pixels
    <2>4. /\ 4 * p \in 0 .. 4 * n - 1
          /\ (4 * p) % 4 # 3 /\ (4 * p) \div 4 = p
      OBVIOUS
    <2>5. QED
      BY <1>5, <2>2, <2>4
  <1>7. [p \in Pixels |-> png.data[4 * p]] = px
    BY <1>3, <1>6
  <1>8. QED
    BY <1>2, <1>4, <1>5, <1>7 DEF decodePng, Pixels

(* So a comparison with the PNG counts what xorFramebuffers() counts.      *)
LEMMA DiffIsXor ==
  ASSUME NEW a \in Framebuffers, NEW b \in Framebuffers
  PROVE  diffCount(a, framebufferToPng(b)) = xorFramebuffers(a, b)
  BY PngKeeps, XorCountsPixels DEF diffCount, PixelsDiffer

-----------------------------------------------------------------------------
(***************************************************************************)
(* What the flows have seen.                                               *)
(***************************************************************************)

(* What has been said of a wait, with m of its frames looked at.           *)
Moment(c, s, k) ==
  IF c.op = "stable" THEN StableAt(s, k) ELSE ChangedAt(s, k)

(* The last of them show one picture, count of them after the frame whose  *)
(* picture it is, and the one before that, if there is one, another.       *)
Settling(s, m, first, count) ==
  /\ m - count >= 1 /\ first = s[m - count]
  /\ \A i \in m - count .. m : SamePicture(s[i], first)
  /\ m - count > 1 => ~SamePicture(s[m - count - 1], first)

WaitedSoFar(c, s, m, first, count) ==
  /\ m = 0 => first = Nothing /\ count = 0
  /\ m > 0 => IF c.op = "stable" THEN Settling(s, m, first, count)
              ELSE first = s[1]
  /\ \A k \in 1 .. m : ~Moment(c, s, k)

(* The frames of a wait that it has looked at: not the one just captured.  *)
Looked(f) == IF pc[f] = "captured" THEN Len(shown[f]) - 1 ELSE Len(shown[f])

WaitInv(f) ==
  /\ pc[f] # "idle" => result[f] = "none"
  /\ pc[f] # "idle" /\ call[f] \in Waits =>
       /\ pc[f] = "captured" =>
            /\ Len(shown[f]) > 0
            /\ captured[f] = shown[f][Len(shown[f])]
       /\ pc[f] \in {"sent", "captured"}
       /\ WaitedSoFar(call[f], shown[f], Looked(f), previous[f],
                      settleCount[f])
  /\ pc[f] = "idle" /\ result[f] = "resolved" =>
       \A k \in 1 .. Len(shown[f]) :
         Moment(call[f], shown[f], k) <=> k = Len(shown[f])
  /\ pc[f] = "idle" /\ result[f] = "expired" =>
       \A k \in 1 .. Len(shown[f]) : ~Moment(call[f], shown[f], k)

(* A file is what was made of the framebuffer it is said to be made from,  *)
(* unless it is being written.                                             *)
SourceInv ==
  /\ source \in [Names -> Raws \cup {NoFile}]
  /\ \A n \in Names : references[n] \in {FileOf(source[n]), Truncated}

(* A verdict, also one whose diff is still to be written, is by the count. *)
VerdictInv(f) ==
  /\ pc[f] = "diff" \/ result[f] = "fail" =>
       ~(xorFramebuffers(captured[f], against[f]) <= call[f].maxDiffPixels)
  /\ result[f] = "pass" =>
       xorFramebuffers(captured[f], against[f]) <= call[f].maxDiffPixels

SeenInv ==
  /\ shown \in [Flows -> Seq(Displays)]
  /\ against \in [Flows -> Raws \cup {NoFile}]
  /\ SourceInv
  /\ \A f \in Flows : WaitInv(f) /\ VerdictInv(f)

(* What was said of frames stays true when one more is captured.           *)
LEMMA CapturedMore ==
  ASSUME NEW c, NEW s \in Seq(Displays), NEW d \in Displays, NEW first,
         NEW count \in Nat, WaitedSoFar(c, s, Len(s), first, count)
  PROVE  WaitedSoFar(c, Append(s, d), Len(s), first, count)
  <1>1. PICK t : t = Append(s, d)
    OBVIOUS
  <1>2. Len(s) \in Nat /\ \A i \in 1 .. Len(s) : t[i] = s[i]
    BY ONLY <1>1, s \in Seq(Displays), d \in Displays
  <1>3. ASSUME NEW k \in 1 .. Len(s)
        PROVE  Moment(c, t, k) <=> Moment(c, s, k)
    <2>1. ChangedAt(t, k) <=> ChangedAt(s, k)
      BY <1>2 DEF ChangedAt
    <2>2. StableAt(t, k) <=> StableAt(s, k)
      <3>1. k > SettleFrames =>
              \A i \in k - SettleFrames .. k : t[i] = s[i]
        BY <1>2, ScreensAssumption
      <3>2. t[k] = s[k]
        BY <1>2
      <3>3. QED
        BY <3>1, <3>2 DEF StableAt
    <2>3. QED
      BY <2>1, <2>2 DEF Moment
  <1>4. ASSUME Len(s) > 0, Settling(s, Len(s), first, count)
        PROVE  Settling(t, Len(s), first, count)
    <2>1. PICK m \in Nat : m = Len(s)
      BY <1>2
    <2>2. m - count >= 1 /\ m > 0
      BY <1>4, <2>1 DEF Settling
    <2>3. \A i \in m - count .. m : t[i] = s[i]
      BY <1>2, <2>1, <2>2
    <2>4. t[m - count] = s[m - count]
      BY <2>2, <2>3
    <2>5. m - count > 1 => t[m - count - 1] = s[m - count - 1]
      BY <1>2, <2>1, <2>2
    <2>6. QED
      BY <1>4, <2>1, <2>3, <2>4, <2>5 DEF Settling
  <1>5. Len(s) > 0 => t[1] = s[1]
    BY <1>2
  <1>6. QED
    BY <1>1, <1>3, <1>4, <1>5 DEF WaitedSoFar

(* One more frame of the same picture: settled or not yet.                 *)
LEMMA SettlesOn ==
  ASSUME NEW s \in Seq(Displays), NEW m \in Nat, Len(s) = m + 1,
         NEW first, NEW count \in Nat, count < SettleFrames,
         Settling(s, m, first, count), SamePicture(first, s[m + 1])
  PROVE  /\ Settling(s, m + 1, first, count + 1)
         /\ StableAt(s, m + 1) <=> count + 1 >= SettleFrames
  <1>1. PICK b \in Nat : b = m - count /\ b >= 1
    BY DEF Settling
  <1>2. /\ b = (m + 1) - (count + 1) /\ b <= m
        /\ (m + 1) - (count + 1) - 1 = b - 1 /\ m - count - 1 = b - 1
    BY <1>1
  <1>3. first = s[b] /\ \A i \in b .. m : SamePicture(s[i], first)
    BY <1>1 DEF Settling
  <1>4. \A i \in b .. m + 1 : i \in b .. m \/ i = m + 1
    BY <1>1
  <1>5. \A i \in b .. m + 1 : SamePicture(s[i], first)
    BY <1>3, <1>4 DEF SamePicture
  <1>6. b > 1 => ~SamePicture(s[b - 1], first)
    BY <1>1, <1>2 DEF Settling
  <1>7. Settling(s, m + 1, first, count + 1)
    BY <1>1, <1>2, <1>3, <1>5, <1>6 DEF Settling
  <1>8. SettleFrames \in Nat
    BY ScreensAssumption
  <1>9. ASSUME count + 1 >= SettleFrames
        PROVE  StableAt(s, m + 1)
    <2>1. (m + 1) - SettleFrames = b /\ m + 1 > SettleFrames
      BY <1>1, <1>8, <1>9
    <2>2. \A i \in b .. m + 1 : SamePicture(s[i], s[m + 1])
      BY <1>5 DEF SamePicture
    <2>3. QED
      BY <2>1, <2>2 DEF StableAt
  <1>10. ASSUME count + 1 < SettleFrames, StableAt(s, m + 1)
         PROVE  FALSE
    <2>1. m + 1 > SettleFrames
      BY <1>10 DEF StableAt
    <2>2. b > 1 /\ b - 1 \in (m + 1) - SettleFrames .. m + 1
      BY <1>1, <1>8, <1>10, <2>1
    <2>3. SamePicture(s[b - 1], s[m + 1])
      BY <1>10, <2>2 DEF StableAt
    <2>4. QED
      BY <1>6, <2>2, <2>3 DEF SamePicture
  <1>11. QED
    BY <1>7, <1>8, <1>9, <1>10

(* One of another: to be settled from here on.                             *)
LEMMA SettlesAnew ==
  ASSUME NEW s \in Seq(Displays), NEW m \in Nat, Len(s) = m + 1,
         NEW first, NEW count \in Nat,
         Settling(s, m, first, count), ~SamePicture(first, s[m + 1])
  PROVE  /\ Settling(s, m + 1, s[m + 1], 0)
         /\ ~StableAt(s, m + 1)
  <1>1. m \in m - count .. m /\ m >= 1
    BY DEF Settling
  <1>2. ~SamePicture(s[m], s[m + 1])
    BY <1>1 DEF Settling, SamePicture
  <1>3. Settling(s, m + 1, s[m + 1], 0)
    <2>1. (m + 1) - 0 = m + 1 /\ (m + 1) - 0 - 1 = m /\ m + 1 >= 1
      OBVIOUS
    <2>2. \A i \in m + 1 .. m + 1 : i = m + 1
      OBVIOUS
    <2>3. QED
      BY <1>2, <2>1, <2>2 DEF Settling, SamePicture
  <1>4. m \in (m + 1) - SettleFrames .. m + 1
    BY ScreensAssumption
  <1>5. QED
    BY <1>2, <1>3, <1>4 DEF StableAt

(* With nothing looked at, the first is the one to begin with.             *)
LEMMA SettlesFirst ==
  ASSUME NEW c, NEW s \in Seq(Displays), Len(s) = 1
  PROVE  WaitedSoFar(c, s, 1, s[1], 0)
  <1>1. \A i \in 1 - 0 .. 1 : i = 1
    OBVIOUS
  <1>2. Settling(s, 1, s[1], 0)
    BY <1>1 DEF Settling, SamePicture
  <1>3. ~StableAt(s, 1) /\ ~ChangedAt(s, 1)
    BY ScreensAssumption DEF StableAt, ChangedAt, SamePicture
  <1>4. \A k \in 1 .. 1 : k = 1
    OBVIOUS
  <1>5. QED
    BY <1>2, <1>3, <1>4 DEF WaitedSoFar, Moment

-----------------------------------------------------------------------------
(* A flow a step has nothing to do with.                                   *)
Untouched(g) ==
  /\ call'[g] = call[g] /\ pc'[g] = pc[g] /\ captured'[g] = captured[g]
  /\ previous'[g] = previous[g] /\ settleCount'[g] = settleCount[g]
  /\ result'[g] = result[g] /\ shown'[g] = shown[g]
  /\ against'[g] = against[g]

(* It keeps what is known of it.                                           *)
LEMMA UntouchedKeeps ==
  ASSUME NEW g \in Flows, WaitInv(g), VerdictInv(g), Untouched(g)
  PROVE  WaitInv(g)' /\ VerdictInv(g)'
  <1>1. WaitInv(g)'
    BY DEF WaitInv, Looked, Untouched
  <1>2. VerdictInv(g)'
    BY DEF VerdictInv, Untouched
  <1>3. QED
    BY <1>1, <1>2

(* So a step is about its own flow.                                        *)
LEMMA OneFlow ==
  ASSUME SeenInv, NEW f \in Flows, \A g \in Flows : g # f => Untouched(g),
         shown' \in [Flows -> Seq(Displays)],
         against' \in [Flows -> Raws \cup {NoFile}],
         SourceInv', WaitInv(f)', VerdictInv(f)'
  PROVE  SeenInv'
  <1>1. \A g \in Flows : WaitInv(g)' /\ VerdictInv(g)'
    BY UntouchedKeeps DEF SeenInv
  <1>2. QED
    BY <1>1 DEF SeenInv

(* The files as they were.                                                 *)
LEMMA SourceKept ==
  ASSUME SourceInv, UNCHANGED <<references, source>> PROVE SourceInv'
  BY DEF SourceInv

(* At first no flow has seen anything.                                     *)
LEMMA SeenInit == Init => SeenInv
  <1> SUFFICES ASSUME Init PROVE SeenInv
    OBVIOUS
  <1>1. /\ shown \in [Flows -> Seq(Displays)]
        /\ against \in [Flows -> Raws \cup {NoFile}]
    BY DEF Init, Raws
  <1>2. SourceInv
    BY DEF Init, SourceInv, Raws
  <1>3. \A f \in Flows : WaitInv(f) /\ VerdictInv(f)
    BY DEF Init, WaitInv, VerdictInv
  <1>4. QED
    BY <1>1, <1>2, <1>3 DEF SeenInv

(* A call begins.                                                          *)
LEMMA BeginSeen ==
  ASSUME ScreensInv, SeenInv, NEW f \in Flows, NEW c \in script[f], Begin(f, c)
  PROVE  SeenInv'
  <1>1. \A g \in Flows : g # f => Untouched(g)
    BY DEF ScreensInv, TypeOK, CallInv, SeenInv, Begin, Goto, Untouched
  <1>2. /\ pc'[f] = "sent" /\ call'[f] = c /\ result'[f] = "none"
        /\ previous'[f] = Nothing /\ settleCount'[f] = 0 /\ shown'[f] = <<>>
    BY DEF ScreensInv, TypeOK, CallInv, SeenInv, Begin, Goto
  <1>3. shown' \in [Flows -> Seq(Displays)]
    BY DEF SeenInv, Begin
  <1>4. against' \in [Flows -> Raws \cup {NoFile}]
    BY DEF SeenInv, Begin, Raws
  <1>5. WaitedSoFar(c, <<>>, 0, Nothing, 0)
    BY DEF WaitedSoFar
  <1>6. Looked(f)' = 0
    BY <1>2 DEF Looked
  <1>7. WaitInv(f)'
    BY <1>2, <1>5, <1>6 DEF WaitInv
  <1>8. VerdictInv(f)'
    BY <1>2 DEF VerdictInv
  <1>9. SourceInv'
    BY SourceKept DEF SeenInv, Begin, fileVars
  <1>10. QED
    BY <1>1, <1>3, <1>4, <1>7, <1>8, <1>9, OneFlow

(* A frame is captured.                                                    *)
LEMMA CaptureSeen ==
  ASSUME ScreensInv, SeenInv, NEW f \in Flows, NEW d \in Displays,
         FrameCaptures(f, d)
  PROVE  SeenInv'
  <1>1. \A g \in Flows : g # f => Untouched(g)
    BY DEF ScreensInv, TypeOK, CallInv, SeenInv, FrameCaptures, Goto, Untouched
  <1>2. /\ pc[f] = "sent" /\ pc'[f] = "captured" /\ call'[f] = call[f]
        /\ result'[f] = result[f] /\ captured'[f] = d
        /\ previous'[f] = previous[f] /\ settleCount'[f] = settleCount[f]
        /\ shown'[f] = IF call[f] \in Waits THEN Append(shown[f], d)
                       ELSE shown[f]
    BY DEF ScreensInv, TypeOK, CallInv, SeenInv, FrameCaptures, Goto
  <1>3. shown[f] \in Seq(Displays) /\ settleCount[f] \in Nat
    BY ScreensAssumption DEF SeenInv, ScreensInv, TypeOK
  <1>4. shown' \in [Flows -> Seq(Displays)]
    <2>1. Append(shown[f], d) \in Seq(Displays)
      BY <1>3
    <2>2. QED
      BY <2>1 DEF SeenInv, FrameCaptures
  <1>5. against' \in [Flows -> Raws \cup {NoFile}]
    BY DEF SeenInv, FrameCaptures
  <1>6. WaitInv(f) /\ result[f] = "none"
    BY <1>2 DEF SeenInv, WaitInv
  <1>7. ASSUME call[f] \in Waits
        PROVE  /\ Len(shown'[f]) > 0 /\ captured'[f] = shown'[f][Len(shown'[f])]
               /\ WaitedSoFar(call'[f], shown'[f], Looked(f)', previous'[f],
                              settleCount'[f])
    <2>1. PICK s \in Seq(Displays) : s = shown[f]
      BY <1>3
    <2>2. WaitedSoFar(call[f], s, Len(s), previous[f], settleCount[f])
      BY <1>2, <1>6, <1>7, <2>1 DEF WaitInv, Looked
    <2>3. WaitedSoFar(call[f], Append(s, d), Len(s), previous[f],
                      settleCount[f])
      BY <1>3, <2>2, CapturedMore
    <2>4. PICK t : t = Append(s, d)
      OBVIOUS
    <2>5. Len(s) \in Nat /\ Len(t) = Len(s) + 1 /\ t[Len(s) + 1] = d
      BY ONLY <2>4, s \in Seq(Displays), d \in Displays
    <2>6. shown'[f] = t
      BY <1>2, <1>7, <2>1, <2>4
    <2>7. Looked(f)' = Len(s)
      <3>1. Looked(f)' = Len(t) - 1
        BY <1>2, <2>6 DEF Looked
      <3>2. Len(t) - 1 = Len(s)
        BY ONLY <2>5
      <3>3. QED
        BY <3>1, <3>2
    <2>8. Len(t) > 0 /\ t[Len(t)] = d
      BY ONLY <2>5
    <2>9. WaitedSoFar(call'[f], shown'[f], Looked(f)', previous'[f],
                      settleCount'[f])
      BY <1>2, <2>3, <2>4, <2>6, <2>7
    <2>10. QED
      BY <1>2, <2>6, <2>8, <2>9
  <1>8. WaitInv(f)'
    BY <1>2, <1>6, <1>7 DEF WaitInv
  <1>9. VerdictInv(f)'
    BY <1>2, <1>6 DEF VerdictInv
  <1>10. SourceInv'
    BY SourceKept DEF SeenInv, FrameCaptures, fileVars
  <1>11. QED
    BY <1>1, <1>4, <1>5, <1>8, <1>9, <1>10, OneFlow

(* What a wait has looked at, it goes by: it goes on, or says so.          *)
LEMMA WaitSeen ==
  ASSUME ScreensInv, SeenInv, NEW f \in Flows, NEW expired \in BOOLEAN,
         call[f] \in Waits, pc[f] = "captured", UNCHANGED <<call, shown>>,
         \/ /\ Turn(f, expired)
            /\ WaitedSoFar(call[f], shown[f], Len(shown[f]), previous'[f],
                           settleCount'[f])
         \/ /\ Ends(f, "resolved")
            /\ \A k \in 1 .. Len(shown[f]) :
                 Moment(call[f], shown[f], k) <=> k = Len(shown[f])
  PROVE  /\ WaitInv(f)' /\ VerdictInv(f)'
         /\ \A g \in Flows : g # f => pc'[g] = pc[g] /\ result'[g] = result[g]
  <1>1. result[f] = "none"
    BY DEF SeenInv, WaitInv
  <1>2. CASE Turn(f, expired) /\ expired
    <2>1. pc'[f] = "idle" /\ result'[f] = "expired"
      BY <1>2 DEF ScreensInv, TypeOK, Turn, Ends, Goto
    <2>2. \A k \in 1 .. Len(shown[f]) : ~Moment(call[f], shown[f], k)
      BY <1>2, <2>1 DEF WaitedSoFar, Ends, Turn, ScreensInv, TypeOK
    <2>3. QED
      BY <1>2, <2>1, <2>2
         DEF WaitInv, VerdictInv, ScreensInv, TypeOK, Turn, Ends, Goto
  <1>3. CASE Turn(f, expired) /\ ~expired
    <2>1. pc'[f] = "sent" /\ result'[f] = "none"
      BY <1>1, <1>3 DEF ScreensInv, TypeOK, Turn, Goto
    <2>2. WaitedSoFar(call[f], shown[f], Len(shown[f]), previous'[f],
                      settleCount'[f])
      BY <2>1 DEF Ends, Goto, ScreensInv, TypeOK
    <2>3. Looked(f)' = Len(shown[f])
      BY <2>1 DEF Looked
    <2>4. QED
      BY <1>3, <2>1, <2>2, <2>3
         DEF WaitInv, VerdictInv, ScreensInv, TypeOK, Turn, Goto
  <1>4. CASE /\ Ends(f, "resolved")
             /\ \A k \in 1 .. Len(shown[f]) :
                  Moment(call[f], shown[f], k) <=> k = Len(shown[f])
    <2>1. pc'[f] = "idle" /\ result'[f] = "resolved"
      BY <1>4 DEF ScreensInv, TypeOK, Ends, Goto
    <2>2. QED
      BY <1>4, <2>1 DEF WaitInv, VerdictInv, ScreensInv, TypeOK, Ends, Goto
  <1>5. QED
    BY <1>2, <1>3, <1>4

(* The waits.                                                              *)
LEMMA TurnSeen ==
  ASSUME ScreensInv, SeenInv, NEW f \in Flows, NEW expired \in BOOLEAN,
         \/ Baseline(f, expired)
         \/ ChangesTurn(f, expired)
         \/ StableTurn(f, expired)
  PROVE  SeenInv'
  <1> DEFINE s == shown[f]
  <1>1. /\ pc[f] = "captured" /\ UNCHANGED <<call, captured, shown, against>>
        /\ UNCHANGED fileVars
    BY DEF Baseline, ChangesTurn, StableTurn
  <1>2. call[f] \in Waits
    BY <1>1 DEF Baseline, ChangesTurn, StableTurn, ScreensInv, CallInv, Waits,
                WaitUntilScreenChanges, WaitUntilStable, Matches
  <1>3. PICK m : m = Len(s) - 1
    OBVIOUS
  <1>4. /\ s \in Seq(Displays) /\ m \in Nat /\ Len(s) = m + 1
        /\ captured[f] = s[m + 1] /\ s[m + 1] \in Displays
        /\ \A i \in 1 .. m + 1 : s[i] \in Displays
        /\ WaitedSoFar(call[f], s, m, previous[f], settleCount[f])
    <2>1. s \in Seq(Displays) /\ WaitInv(f)
      BY DEF SeenInv
    <2>2. /\ Len(s) > 0 /\ captured[f] = s[Len(s)]
          /\ WaitedSoFar(call[f], s, m, previous[f], settleCount[f])
      BY <1>1, <1>2, <1>3, <2>1 DEF WaitInv, Looked
    <2>3. m \in Nat /\ Len(s) = m + 1
      BY <1>3, <2>1, <2>2
    <2>4. \A i \in 1 .. m + 1 : s[i] \in Displays
      BY <2>1, <2>3
    <2>5. QED
      BY <2>1, <2>2, <2>3, <2>4
  <1>5. /\ settleCount[f] \in Nat /\ settleCount[f] < SettleFrames
        /\ SettleFrames \in Nat
    BY <1>1, ScreensAssumption DEF ScreensInv, TypeOK, CountInv
  <1>6. /\ m = 0 => previous[f] = Nothing /\ settleCount[f] = 0
        /\ m > 0 => previous[f] \in Displays /\ previous[f] # Nothing
    <2>1. m = 0 => previous[f] = Nothing /\ settleCount[f] = 0
      BY <1>4 DEF WaitedSoFar
    <2>2. ASSUME m > 0
          PROVE  previous[f] \in Displays
      <3>1. CASE call[f].op = "stable"
        <4>1. Settling(s, m, previous[f], settleCount[f])
          BY <1>4, <2>2, <3>1 DEF WaitedSoFar
        <4>2. m - settleCount[f] \in 1 .. m + 1
          BY <1>4, <1>5, <4>1 DEF Settling
        <4>3. QED
          BY <1>4, <4>1, <4>2 DEF Settling
      <3>2. CASE call[f].op # "stable"
        <4>1. previous[f] = s[1]
          BY <1>4, <2>2, <3>2 DEF WaitedSoFar
        <4>2. 1 \in 1 .. m + 1
          BY <1>4
        <4>3. QED
          BY <1>4, <4>1, <4>2
      <3>3. QED
        BY <3>1, <3>2
    <2>3. QED
      BY <2>1, <2>2, ScreensAssumption
  <1>7. m > 0 => (Differs(f) <=> ~SamePicture(previous[f], s[m + 1]))
    BY <1>4, <1>6, XorCountsPixels, ScreensAssumption DEF Differs, SamePicture
  <1>8. \A k \in 1 .. m : ~Moment(call[f], s, k)
    BY <1>4 DEF WaitedSoFar
  <1>9. \A k \in 1 .. m + 1 : k \in 1 .. m \/ k = m + 1
    BY <1>4
  <1>10. \A g \in Flows : g # f =>
           previous'[g] = previous[g] /\ settleCount'[g] = settleCount[g]
    BY DEF ScreensInv, TypeOK, Baseline, ChangesTurn, StableTurn
  <1>11. ASSUME ~Moment(call[f], s, m + 1),
                IF call[f].op = "stable"
                THEN Settling(s, m + 1, previous'[f], settleCount'[f])
                ELSE previous'[f] = s[1]
         PROVE  WaitedSoFar(call[f], s, Len(s), previous'[f], settleCount'[f])
    BY <1>4, <1>8, <1>9, <1>11 DEF WaitedSoFar
  <1>12. ASSUME Moment(call[f], s, m + 1)
         PROVE  \A k \in 1 .. Len(s) :
                  Moment(call[f], s, k) <=> k = Len(s)
    <2>1. \A k \in 1 .. m : k # m + 1
      BY <1>4
    <2>2. QED
      BY <1>4, <1>8, <1>9, <1>12, <2>1
  <1> HIDE DEF s
  <1>13. \/ /\ Turn(f, expired)
            /\ WaitedSoFar(call[f], s, Len(s), previous'[f], settleCount'[f])
         \/ /\ Ends(f, "resolved")
            /\ \A k \in 1 .. Len(s) :
                 Moment(call[f], s, k) <=> k = Len(s)
    <2>1. CASE Baseline(f, expired)
      <3>1. m = 0
        BY <1>4, <1>6, <2>1 DEF Baseline
      <3>2. previous'[f] = s[1] /\ settleCount'[f] = 0
        BY <1>4, <1>6, <2>1, <3>1 DEF Baseline, ScreensInv, TypeOK
      <3>3. WaitedSoFar(call[f], s, 1, s[1], 0)
        BY <1>4, <3>1, SettlesFirst
      <3>4. QED
        BY <1>4, <2>1, <3>1, <3>2, <3>3 DEF Baseline
    <2>2. CASE ChangesTurn(f, expired)
      <3>1. m > 0 /\ call[f].op = "changes" /\ previous'[f] = previous[f]
        BY <1>4, <1>6, <2>2 DEF ChangesTurn
      <3>2. previous[f] = s[1]
        BY <1>4, <3>1 DEF WaitedSoFar
      <3>3. Differs(f) <=> Moment(call[f], s, m + 1)
        BY <1>7, <3>1, <3>2 DEF Moment, ChangedAt
      <3>4. CASE Differs(f)
        BY <1>12, <2>2, <3>3, <3>4 DEF ChangesTurn
      <3>5. CASE ~Differs(f)
        BY <1>11, <2>2, <3>1, <3>2, <3>3, <3>5 DEF ChangesTurn
      <3>6. QED
        BY <3>4, <3>5
    <2>3. CASE StableTurn(f, expired)
      <3>1. m > 0 /\ call[f].op = "stable"
        BY <1>4, <1>6, <2>3 DEF StableTurn
      <3>2. Settling(s, m, previous[f], settleCount[f])
        BY <1>4, <3>1 DEF WaitedSoFar
      <3>3. settleCount'[f] = Settled(f)
        BY <2>3 DEF StableTurn, ScreensInv, TypeOK
      <3>4. CASE Differs(f)
        <4>1. previous'[f] = s[m + 1] /\ settleCount'[f] = 0
          BY <1>4, <2>3, <3>3, <3>4
             DEF StableTurn, ScreensInv, TypeOK, Settled
        <4>2. Settling(s, m + 1, s[m + 1], 0) /\ ~StableAt(s, m + 1)
          BY <1>4, <1>5, <1>7, <3>1, <3>2, <3>4, SettlesAnew
        <4>3. Turn(f, expired)
          BY <1>5, <2>3, <3>4, ScreensAssumption DEF StableTurn, Settled
        <4>4. QED
          BY <1>11, <3>1, <4>1, <4>2, <4>3 DEF Moment
      <3>5. CASE ~Differs(f)
        <4>1. previous'[f] = previous[f] /\ settleCount'[f] = settleCount[f] + 1
          BY <2>3, <3>3, <3>5 DEF StableTurn, Settled
        <4>2. /\ Settling(s, m + 1, previous[f], settleCount[f] + 1)
              /\ StableAt(s, m + 1) <=> settleCount[f] + 1 >= SettleFrames
          BY <1>4, <1>5, <1>7, <3>1, <3>2, <3>5, SettlesOn
        <4>3. CASE settleCount[f] + 1 >= SettleFrames
          <5>1. Moment(call[f], s, m + 1)
            BY <3>1, <4>2, <4>3 DEF Moment
          <5>2. Ends(f, "resolved")
            BY <1>5, <2>3, <3>5, <4>3 DEF StableTurn, Settled
          <5>3. QED
            BY <1>12, <5>1, <5>2
        <4>4. CASE settleCount[f] + 1 < SettleFrames
          <5>1. ~Moment(call[f], s, m + 1)
            BY <1>5, <3>1, <4>2, <4>4 DEF Moment
          <5>2. Turn(f, expired)
            BY <1>5, <2>3, <3>5, <4>4 DEF StableTurn, Settled
          <5>3. QED
            BY <1>11, <3>1, <4>1, <4>2, <5>1, <5>2
        <4>5. QED
          BY <1>5, <4>3, <4>4
      <3>6. QED
        BY <3>4, <3>5
    <2>4. QED
      BY <2>1, <2>2, <2>3
  <1>14. /\ WaitInv(f)' /\ VerdictInv(f)'
         /\ \A g \in Flows : g # f => pc'[g] = pc[g] /\ result'[g] = result[g]
    BY <1>1, <1>2, <1>13, WaitSeen DEF s
  <1>15. \A g \in Flows : g # f => Untouched(g)
    BY <1>1, <1>10, <1>14 DEF Untouched
  <1>16. SourceInv'
    BY <1>1, SourceKept DEF SeenInv, fileVars
  <1>17. QED
    BY <1>1, <1>14, <1>15, <1>16, OneFlow DEF SeenInv

-----------------------------------------------------------------------------
(* What a reference that can be compared was made from.                    *)
LEMMA Comparable ==
  ASSUME TypeOK, SourceInv, NEW n \in Names,
         references[n] # NoFile, ~Unusable(references[n])
  PROVE  /\ source[n] \in Displays
         /\ references[n] = framebufferToPng(source[n])
  <1>1. references[n] = FileOf(source[n])
    BY DEF SourceInv, Unusable
  <1>2. source[n] # NoFile
    BY <1>1 DEF FileOf
  <1>3. source[n] # Nothing
    <2>1. decodePng(Alien).width = 1 /\ decodePng(Alien).height = 1
      BY DEF decodePng, Alien, encodeGrayscalePng
    <2>2. Width # 1 \/ Height # 1
      BY ScreensAssumption
    <2>3. Unusable(Alien)
      BY <2>1, <2>2 DEF Unusable
    <2>4. FileOf(Nothing) = Alien
      BY ScreensAssumption DEF FileOf
    <2>5. QED
      BY <1>1, <2>3, <2>4
  <1>4. QED
    BY <1>1, <1>2, <1>3, FileOfDisplay DEF SourceInv, Raws

(* A verdict goes by the count of the bits that differ.                    *)
LEMMA VerdictCounts ==
  ASSUME TypeOK, SourceInv, NEW n \in Names, NEW c, NEW raw \in Displays,
         Verdict(c, raw, references[n]) \in {"pass", "fail"}
  PROVE  Verdict(c, raw, references[n]) = "pass" <=>
           xorFramebuffers(raw, source[n]) <= c.maxDiffPixels
  <1>1. references[n] # NoFile /\ ~Unusable(references[n])
    BY DEF Verdict
  <1>2. /\ source[n] \in Displays
        /\ references[n] = framebufferToPng(source[n])
    BY <1>1, Comparable
  <1>3. diffCount(raw, references[n]) = xorFramebuffers(raw, source[n])
    BY <1>2, DiffIsXor, ScreensAssumption
  <1>4. QED
    BY <1>1, <1>3 DEF Verdict

(* What a step of a comparison has to leave.                               *)
Comparing(f) ==
  /\ UNCHANGED <<call, captured, previous, settleCount, shown>>
  /\ \A g \in Flows : g # f =>
       pc'[g] = pc[g] /\ result'[g] = result[g] /\ against'[g] = against[g]
  /\ pc'[f] = "idle" => result'[f] \notin {"resolved", "expired"}
  /\ pc'[f] # "idle" => result'[f] = result[f] /\ call[f] \notin Waits

(* Then only the verdict is left to look at.                               *)
LEMMA ComparingKeeps ==
  ASSUME SeenInv, NEW f \in Flows, Comparing(f), pc[f] # "idle",
         against' \in [Flows -> Raws \cup {NoFile}], SourceInv', VerdictInv(f)'
  PROVE  SeenInv'
  <1>1. \A g \in Flows : g # f => Untouched(g)
    BY DEF Comparing, Untouched
  <1>2. result[f] = "none"
    BY DEF SeenInv, WaitInv
  <1>3. WaitInv(f)'
    BY <1>2 DEF Comparing, WaitInv
  <1>4. shown' \in [Flows -> Seq(Displays)]
    BY DEF SeenInv, Comparing
  <1>5. QED
    BY <1>1, <1>3, <1>4, OneFlow

(* The reference is read and the verdict passed.                           *)
LEMMA ReadSeen ==
  ASSUME ScreensInv, SeenInv, NEW f \in Flows, Read(f)
  PROVE  SeenInv'
  <1> DEFINE c == call[f]
             verdict == Verdict(c, captured[f], references[c.name])
  <1>1. /\ pc[f] \in {"captured", "again"} /\ c.op = "match"
        /\ UNCHANGED <<call, captured, waitVars>> /\ UNCHANGED fileVars
        /\ against' = [against EXCEPT ![f] = source[c.name]]
    BY DEF Read
  <1>2. c \in Matches /\ c \notin Waits /\ c.name \in Names
    BY <1>1 DEF ScreensInv, CallInv, Waits, WaitUntilScreenChanges,
                WaitUntilStable, Matches
  <1>3. captured[f] \in Displays
    BY <1>1 DEF ScreensInv, TypeOK, Raws
  <1>4. TypeOK /\ SourceInv /\ result[f] = "none"
    BY <1>1 DEF ScreensInv, SeenInv, WaitInv
  <1>5. verdict \in {"missing", "error", "pass", "fail"}
    BY DEF Verdict
  <1>6. verdict \in {"pass", "fail"} =>
          (verdict = "pass" <=>
             xorFramebuffers(captured[f], source[c.name]) <= c.maxDiffPixels)
    BY <1>2, <1>3, <1>4, VerdictCounts
  <1>7. \/ pc'[f] \in {"write", "again"} /\ result'[f] = "none"
        \/ pc'[f] = "diff" /\ result'[f] = "none" /\ verdict = "fail"
        \/ pc'[f] = "idle" /\ result'[f] = verdict
    BY <1>4 DEF Read, Ends, Goto, TypeOK
  <1>8. \A g \in Flows : g # f =>
          pc'[g] = pc[g] /\ result'[g] = result[g] /\ against'[g] = against[g]
    BY <1>4 DEF Read, Ends, Goto, TypeOK, SeenInv
  <1>9. /\ against'[f] = source[c.name]
        /\ against' \in [Flows -> Raws \cup {NoFile}]
    BY <1>1, <1>2, <1>4 DEF SeenInv, SourceInv
  <1> HIDE DEF verdict
  <1>10. Comparing(f)
    BY <1>1, <1>2, <1>4, <1>5, <1>7, <1>8 DEF Comparing, waitVars
  <1>11. VerdictInv(f)'
    BY <1>1, <1>5, <1>6, <1>7, <1>9 DEF VerdictInv
  <1>12. SourceInv'
    BY <1>1, <1>4, SourceKept DEF fileVars
  <1>13. QED
    BY <1>1, <1>9, <1>10, <1>11, <1>12, ComparingKeeps

(* A reference is written.                                                 *)
LEMMA WriteSeen ==
  ASSUME ScreensInv, SeenInv, NEW f \in Flows, Opens(f) \/ Fills(f)
  PROVE  SeenInv'
  <1>1. /\ pc[f] \in {"write", "filling"}
        /\ UNCHANGED <<call, captured, waitVars, against>>
        /\ \/ Goto(f, "filling") /\ UNCHANGED result
           \/ Ends(f, "written")
    BY DEF Opens, Fills
  <1>2. call[f] \in Matches /\ call[f].name \in Names /\ call[f] \notin Waits
    BY <1>1 DEF ScreensInv, CallInv, Writing, Matches, Waits,
                WaitUntilScreenChanges, WaitUntilStable
  <1>3. TypeOK /\ SourceInv /\ result[f] = "none"
    BY <1>1 DEF ScreensInv, SeenInv, WaitInv
  <1>4. captured[f] \in Displays
    BY <1>1, <1>3 DEF TypeOK, Raws
  <1>5. Comparing(f)
    BY <1>1, <1>2, <1>3 DEF Comparing, waitVars, Ends, Goto, TypeOK
  <1>6. SourceInv'
    <2>1. CASE Opens(f)
      BY <1>2, <1>3, <2>1 DEF Opens, SourceInv, TypeOK
    <2>2. CASE Fills(f)
      <3>1. /\ references' = [references EXCEPT
                                ![call[f].name] = FileOf(captured[f])]
            /\ source' = [source EXCEPT ![call[f].name] = captured[f]]
        BY <1>4, <2>2, FileOfDisplay DEF Fills
      <3>2. captured[f] \in Raws \cup {NoFile}
        BY <1>4 DEF Raws
      <3>3. QED
        BY <1>2, <1>3, <3>1, <3>2 DEF SourceInv, TypeOK
    <2>3. QED
      BY <2>1, <2>2
  <1>7. VerdictInv(f)'
    BY <1>1, <1>3 DEF VerdictInv, Ends, Goto, TypeOK
  <1>8. QED
    BY <1>1, <1>5, <1>6, <1>7, ComparingKeeps DEF SeenInv

(* A call ends otherwise.                                                  *)
LEMMA EndSeen ==
  ASSUME ScreensInv, SeenInv, NEW f \in Flows,
         ScreenshotFails(f) \/ WritesDiff(f) \/ FileFails(f)
  PROVE  SeenInv'
  <1>1. /\ pc[f] # "idle" /\ UNCHANGED <<references, source>>
        /\ UNCHANGED <<call, captured, waitVars, against>>
        /\ \/ Ends(f, "no screenshot") \/ Ends(f, "error")
           \/ pc[f] = "diff" /\ Ends(f, "fail")
    BY DEF ScreenshotFails, WritesDiff, FileFails, fileVars
  <1>2. TypeOK /\ SourceInv /\ VerdictInv(f)
    BY DEF ScreensInv, SeenInv
  <1>3. Comparing(f)
    BY <1>1, <1>2 DEF Comparing, waitVars, Ends, Goto, TypeOK
  <1>4. SourceInv'
    BY <1>1, <1>2, SourceKept
  <1>5. VerdictInv(f)'
    BY <1>1, <1>2 DEF VerdictInv, Ends, Goto, TypeOK
  <1>6. QED
    BY <1>1, <1>3, <1>4, <1>5, ComparingKeeps DEF SeenInv

(* Another run has seen nothing, and finds the files.                      *)
LEMMA NewRunSeen ==
  ASSUME SeenInv, NEW m \in Modes, NewRun(m)
  PROVE  SeenInv'
  <1>1. /\ shown' \in [Flows -> Seq(Displays)]
        /\ against' \in [Flows -> Raws \cup {NoFile}]
    BY DEF NewRun, Raws
  <1>2. SourceInv'
    BY SourceKept DEF NewRun, SeenInv
  <1>3. \A f \in Flows : WaitInv(f)' /\ VerdictInv(f)'
    BY DEF NewRun, WaitInv, VerdictInv
  <1>4. QED
    BY <1>1, <1>2, <1>3 DEF SeenInv

(* A stutter shows nothing,                                                *)
LEMMA StutterSeen ==
  ASSUME SeenInv, UNCHANGED vars PROVE SeenInv'
  <1>1. \A f \in Flows : WaitInv(f)' /\ VerdictInv(f)'
    BY UntouchedKeeps DEF SeenInv, Untouched, vars, waitVars
  <1>2. QED
    BY <1>1 DEF SeenInv, SourceInv, vars, waitVars, fileVars

(* and what every step leaves is as it was seen.                           *)
LEMMA NextSeen ==
  ASSUME ScreensInv, SeenInv, [Next]_vars PROVE SeenInv'
  BY BeginSeen, CaptureSeen, TurnSeen, ReadSeen, WriteSeen, EndSeen,
     NewRunSeen, StutterSeen DEF Next

(* What the flows have seen is what was shown, in every state.             *)
THEOREM SeenAlways == Spec => []SeenInv
  <1>1. ScreensInv /\ SeenInv /\ [Next]_vars => SeenInv'
    BY NextSeen
  <1>2. QED
    BY SeenInit, Invariant, <1>1, PTL DEF Spec

(* A verdict is what a comparison of the raw framebuffers would say.       *)
THEOREM VerdictsAreXor == Spec => []VerdictIsXor
  <1>1. SeenInv => VerdictIsXor
    BY DEF SeenInv, VerdictInv, VerdictIsXor
  <1>2. QED
    BY SeenAlways, <1>1, PTL

(* A wait that resolves or expires says what was on the screens.           *)
THEOREM WaitsTellIt == Spec => []WaitsTellTheTruth
  <1>1. SeenInv => WaitsTellTheTruth
    <2>1. SUFFICES ASSUME SeenInv, NEW f \in Flows,
                          result[f] \in {"resolved", "expired"}
                   PROVE  /\ result[f] = "resolved" =>
                               \A k \in 1 .. Len(shown[f]) :
                                 Moment(call[f], shown[f], k) <=>
                                   k = Len(shown[f])
                          /\ result[f] = "expired" =>
                               \A k \in 1 .. Len(shown[f]) :
                                 ~Moment(call[f], shown[f], k)
      BY DEF WaitsTellTheTruth, Moment
    <2>2. WaitInv(f)
      BY <2>1 DEF SeenInv
    <2>3. QED
      BY <2>1, <2>2 DEF WaitInv
  <1>2. QED
    BY SeenAlways, <1>1, PTL
===============================================================================
