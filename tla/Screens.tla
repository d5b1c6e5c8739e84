-------------------------------- MODULE Screens --------------------------------
(***************************************************************************)
(* What a test makes of the screens it captures: waitUntilScreenChanges()  *)
(* and waitUntilStable() of PlaydateGame.ts, toMatchScreenshot() with the  *)
(* comparison of Screenshot.ts, and the reference files on disk, which     *)
(* outlive the test run that wrote them.                                   *)
(*                                                                         *)
(* Each flow of the test makes one call after the other; what runs between *)
(* two awaits is one action.  A screenshot is the request, the frame that  *)
(* captures, and the call that resumes: Session has the rest of it.        *)
(***************************************************************************)
EXTENDS FrameBuffer, Sequences

CONSTANTS
  Flows,
  Scripts,       \* what the flows call: functions from flows to sets of calls
  Names,         \* of screenshots
  Displays,      \* framebuffers the game displays
  SettleFrames,  \* settleFrames of waitUntilStable()
  MaxPolls,      \* polls after which a deadline has passed
  NoFile, Truncated, Nothing

WaitUntilScreenChanges == [op |-> "changes"]
WaitUntilStable == [op |-> "stable"]
ToMatchScreenshot(name, updateMode, maxDiffPixels) ==
  [op |-> "match", name |-> name, updateMode |-> updateMode,
   maxDiffPixels |-> maxDiffPixels]
Waits == {WaitUntilScreenChanges, WaitUntilStable}
Matches == [op : {"match"}, name : Names,
            updateMode : {"undefined", "true", "false"}, maxDiffPixels : Nat]

ASSUME ScreensAssumption ==
  /\ \A s \in Scripts : \A f \in Flows : s[f] \subseteq Waits \cup Matches
  /\ Displays \subseteq Framebuffers
  /\ Nothing \notin Displays /\ NoFile \notin Displays \cup {Nothing}
  /\ SettleFrames \in Nat \ {0} /\ MaxPolls \in Nat
  /\ <<Width, Height>> # <<1, 1>>   \* a picture can be of another size

VARIABLES
  mode,         \* the update mode vitest provides, "undefined" without setup
  script,
  references,   \* the files, by name
  call, pc,     \* of each flow: its latest call and where that stands
  captured,     \* its latest framebuffer
  previous, settleCount, polls,   \* of the two waits
  result,       \* how the latest call ended
  source,       \* history: the framebuffer each reference was made from
  cut,          \* history: names of which a write ended early since the
                \* file was last opened
  against,      \* history: that of the reference a flow compared with
  shown,        \* history: the framebuffers of the flow's latest wait
  rivals        \* history: another call on that name ran at the same time

waitVars == <<previous, settleCount, polls, shown>>
fileVars == <<references, source, cut>>
vars == <<mode, script, fileVars, call, pc, captured, waitVars, result,
          against, rivals>>

Modes == {"all", "new", "none", "undefined"}
NoCall == [op |-> "none"]

(* A file that is complete: what framebufferToPng() wrote, or a picture    *)
(* from elsewhere, of another size.                                        *)
Alien == encodeGrayscalePng([p \in {0} |-> 0], 1, 1)
FileOf(s) ==
  IF s = NoFile THEN NoFile
  ELSE IF s = Nothing THEN Alien ELSE framebufferToPng(s)

ASSUME TruncatedAssumption ==
  Truncated \notin {FileOf(s) : s \in Displays \cup {NoFile, Nothing}}

Init ==
  /\ mode \in Modes /\ script \in Scripts
  /\ source \in [Names -> Displays \cup {NoFile, Nothing}]
  /\ references = [n \in Names |-> FileOf(source[n])] /\ cut = {}
  /\ call = [f \in Flows |-> NoCall]
  /\ pc = [f \in Flows |-> "idle"]
  /\ captured = [f \in Flows |-> Nothing]
  /\ previous = [f \in Flows |-> Nothing]
  /\ settleCount = [f \in Flows |-> 0]
  /\ polls = [f \in Flows |-> 0]
  /\ result = [f \in Flows |-> "none"]
  /\ against = [f \in Flows |-> Nothing]
  /\ shown = [f \in Flows |-> <<>>]
  /\ rivals = [f \in Flows |-> FALSE]

Goto(f, where) == pc' = [pc EXCEPT ![f] = where]

(* The call settles.                                                       *)
Ends(f, how) ==
  /\ Goto(f, "idle")
  /\ result' = [result EXCEPT ![f] = how]

-----------------------------------------------------------------------------
(* Screenshots.                                                            *)

Rivals(f, c, g) ==
  f # g /\ pc[g] # "idle" /\ c.op = "match" /\ call[g].op = "match"
    /\ call[g].name = c.name

Begin(f, c) ==
  /\ pc[f] = "idle" /\ c \in script[f]
  /\ call' = [call EXCEPT ![f] = c]
  /\ Goto(f, "sent")
  /\ captured' = [captured EXCEPT ![f] = Nothing]
  /\ previous' = [previous EXCEPT ![f] = Nothing]
  /\ settleCount' = [settleCount EXCEPT ![f] = 0]
  /\ polls' = [polls EXCEPT ![f] = 0]
  /\ result' = [result EXCEPT ![f] = "none"]
  /\ against' = [against EXCEPT ![f] = Nothing]
  /\ shown' = [shown EXCEPT ![f] = <<>>]
  /\ rivals' = [g \in Flows |->
                  IF g = f THEN \E h \in Flows : Rivals(f, c, h)
                  ELSE rivals[g] \/ Rivals(f, c, g)]
  /\ UNCHANGED <<mode, script, fileVars>>

(* The game displays what it likes on the frame that captures.             *)
FrameCaptures(f, d) ==
  /\ pc[f] = "sent"
  /\ Goto(f, "captured")
  /\ captured' = [captured EXCEPT ![f] = d]
  /\ shown' = IF call[f] \in Waits THEN [shown EXCEPT ![f] = Append(@, d)]
              ELSE shown
  /\ UNCHANGED <<mode, script, fileVars, call, previous, settleCount, polls,
                 result, against, rivals>>

(* The screenshot times out, whatever has become of it.                    *)
ScreenshotFails(f) ==
  /\ pc[f] \in {"sent", "captured"}
  /\ Ends(f, "no screenshot")
  /\ UNCHANGED <<mode, script, fileVars, call, captured, waitVars, against,
                 rivals>>

-----------------------------------------------------------------------------
(* The two waits: a baseline, then a screenshot for each turn of the loop. *)

Differs(f) == xorFramebuffers(previous[f], captured[f]) > 0

(* The next turn; and a slip, remaining < 0 for remaining <= 0.            *)
TurnAtDeadline(f, expired) ==
  /\ polls[f] > MaxPolls => expired
  /\ \/ expired /\ Ends(f, "expired") /\ UNCHANGED polls
     \/ ~expired /\ Goto(f, "sent") /\ UNCHANGED result
          /\ polls' = [polls EXCEPT ![f] = @ + 1]
Turn(f, expired) ==
  /\ polls[f] >= MaxPolls => expired
  /\ \/ expired /\ Ends(f, "expired") /\ UNCHANGED polls
     \/ ~expired /\ Goto(f, "sent") /\ UNCHANGED result
          /\ polls' = [polls EXCEPT ![f] = @ + 1]

Baseline(f, expired) ==
  /\ pc[f] = "captured" /\ call[f] \in Waits /\ previous[f] = Nothing
  /\ previous' = [previous EXCEPT ![f] = captured[f]]
  /\ Turn(f, expired)
  /\ UNCHANGED <<mode, script, fileVars, call, captured, settleCount, shown,
                 against, rivals>>

ChangesTurn(f, expired) ==
  /\ pc[f] = "captured" /\ call[f].op = "changes" /\ previous[f] # Nothing
  /\ \/ Differs(f) /\ Ends(f, "resolved") /\ UNCHANGED polls
     \/ ~Differs(f) /\ Turn(f, expired)
  /\ UNCHANGED <<mode, script, fileVars, call, captured, previous,
                 settleCount, shown, against, rivals>>

(* A slip: the count goes on when the screen changes.                      *)
SettlesThrough(f) == settleCount[f]

(* The identical frames counted so far.                                    *)
Settled(f) == IF Differs(f) THEN 0 ELSE settleCount[f] + 1

StableTurn(f, expired) ==
  /\ pc[f] = "captured" /\ call[f].op = "stable" /\ previous[f] # Nothing
  /\ settleCount' = [settleCount EXCEPT ![f] = Settled(f)]
  /\ previous' =
       IF Differs(f) THEN [previous EXCEPT ![f] = captured[f]] ELSE previous
  /\ \/ Settled(f) >= SettleFrames /\ Ends(f, "resolved") /\ UNCHANGED polls
     \/ Settled(f) < SettleFrames /\ Turn(f, expired)
  /\ UNCHANGED <<mode, script, fileVars, call, captured, shown, against,
                 rivals>>

-----------------------------------------------------------------------------
(* toMatchScreenshot() and compareScreenshot().                            *)

(* Only vitest's own mode may create what is missing; and a slip, also     *)
(* where no mode is provided.                                              *)
CreatesByDefault(c) == c.updateMode = "undefined" /\ mode # "none"
AutoCreateMissing(c) ==
  c.updateMode = "undefined" /\ mode \notin {"undefined", "none"}

UpdateMode(c) ==
  c.updateMode = "true" \/ (c.updateMode = "undefined" /\ mode = "all")

diffCount(raw, png) ==
  LET a == decodeFramebuffer(raw) b == decodePng(png).pixels
  IN Cardinality({p \in Pixels : a[p] # b[p]})

(* A reference that decodePng() refuses, or of another size.               *)
Unusable(file) ==
  file = Truncated \/ decodePng(file).width # Width
                   \/ decodePng(file).height # Height

Verdict(c, raw, file) ==
  IF file = NoFile THEN "missing"
  ELSE IF Unusable(file) THEN "error"
  ELSE IF diffCount(raw, file) <= c.maxDiffPixels THEN "pass" ELSE "fail"

(* compareScreenshot() is to write: in "again" it has been called once     *)
(* more, this time to create.  And a slip, this time like the first.       *)
WritesAsBefore(f) == UpdateMode(call[f])
Writes(f) == UpdateMode(call[f]) \/ pc[f] = "again"

(* readFile() returns.                                                     *)
Read(f) ==
  LET c == call[f]
      file == references[c.name]
      verdict == Verdict(c, captured[f], file)
  IN /\ c.op = "match" /\ pc[f] \in {"captured", "again"}
     /\ IF Writes(f) THEN Goto(f, "write") /\ UNCHANGED result
        ELSE IF verdict = "missing" /\ AutoCreateMissing(c)
        THEN Goto(f, "again") /\ UNCHANGED result
        ELSE IF verdict = "fail"
        THEN Goto(f, "diff") /\ UNCHANGED result
        ELSE Ends(f, verdict)
     /\ against' = [against EXCEPT ![f] = source[c.name]]
     /\ UNCHANGED <<mode, script, fileVars, call, captured, waitVars, rivals>>

(* writeFile() opens the file, and then writes it; and a slip, the call    *)
(* does not wait for it.                                                   *)
OpensUnawaited(f) ==
  /\ pc[f] = "write"
  /\ Ends(f, "written")
  /\ references' = [references EXCEPT ![call[f].name] = Truncated]
  /\ cut' = cut \ {call[f].name}
  /\ UNCHANGED <<mode, script, source, call, captured, waitVars, against,
                 rivals>>
Opens(f) ==
  /\ pc[f] = "write"
  /\ Goto(f, "filling")
  /\ references' = [references EXCEPT ![call[f].name] = Truncated]
  /\ cut' = cut \ {call[f].name}
  /\ UNCHANGED <<mode, script, source, call, captured, waitVars, result,
                 against, rivals>>

Fills(f) ==
  /\ pc[f] = "filling"
  /\ references' =
       [references EXCEPT ![call[f].name] = framebufferToPng(captured[f])]
  /\ source' = [source EXCEPT ![call[f].name] = captured[f]]
  /\ Ends(f, "written")
  /\ UNCHANGED <<mode, script, cut, call, captured, waitVars, against, rivals>>

(* The diff is written beside the references, and nobody reads it.         *)
WritesDiff(f) ==
  /\ pc[f] = "diff"
  /\ Ends(f, "fail")
  /\ UNCHANGED <<mode, script, fileVars, call, captured, waitVars, against,
                 rivals>>

Filling(f, n) == pc[f] = "filling" /\ call[f].name = n

(* The file system refuses: other than by there being no such file.        *)
FileFails(f) ==
  /\ \/ pc[f] \in {"again", "write", "filling", "diff"}
     \/ pc[f] = "captured" /\ call[f].op = "match"
  /\ Ends(f, "error")
  /\ cut' = IF pc[f] = "filling" THEN cut \cup {call[f].name} ELSE cut
  /\ UNCHANGED <<mode, script, references, source, call, captured, waitVars, against,
                 rivals>>

(* The run is over or is stopped, calls in progress with it, and another   *)
(* one is started: vitestSetup.ts provides its mode.                       *)
NewRun(m) ==
  /\ mode' = m
  /\ pc' = [f \in Flows |-> "idle"]
  /\ call' = [f \in Flows |-> NoCall]
  /\ result' = [f \in Flows |-> "none"]
  /\ captured' = [f \in Flows |-> Nothing]
  /\ against' = [f \in Flows |-> Nothing]
  /\ shown' = [f \in Flows |-> <<>>]
  /\ previous' = [f \in Flows |-> Nothing]
  /\ settleCount' = [f \in Flows |-> 0]
  /\ polls' = [f \in Flows |-> 0]
  /\ rivals' = [f \in Flows |-> FALSE]
  /\ cut' = cut \cup {n \in Names : \E f \in Flows : Filling(f, n)}
  /\ UNCHANGED <<script, references, source>>

Next ==
  \/ \E f \in Flows : \E c \in script[f] : Begin(f, c)
  \/ \E f \in Flows, d \in Displays : FrameCaptures(f, d)
  \/ \E f \in Flows, expired \in BOOLEAN :
       Baseline(f, expired) \/ ChangesTurn(f, expired) \/ StableTurn(f, expired)
  \/ \E f \in Flows : \/ ScreenshotFails(f) \/ Read(f) \/ Opens(f) \/ Fills(f)
                      \/ WritesDiff(f) \/ FileFails(f)
  \/ \E m \in Modes : NewRun(m)

Spec == Init /\ [][Next]_vars

(* Node runs its timers, and its file operations return.                   *)
Goes(f) ==
  \/ ScreenshotFails(f) \/ Read(f) \/ Opens(f) \/ Fills(f) \/ WritesDiff(f)
  \/ \E expired \in BOOLEAN :
       Baseline(f, expired) \/ ChangesTurn(f, expired) \/ StableTurn(f, expired)
FairSpec == Spec /\ \A f \in Flows : WF_vars(Goes(f))

-----------------------------------------------------------------------------
(***************************************************************************)
(* Properties.                                                             *)
(***************************************************************************)

PCs == {"idle", "sent", "captured", "again", "write", "filling", "diff"}
Results == {"none", "no screenshot", "expired", "resolved", "missing",
            "error", "pass", "fail", "written"}
Raws == Displays \cup {Nothing}
Files == {NoFile, Truncated} \cup {FileOf(s) : s \in Raws}

(* Types; a call past its screenshot has captured something.               *)
TypeOK ==
  /\ mode \in Modes /\ script \in Scripts
  /\ references \in [Names -> Files] /\ cut \subseteq Names
  /\ pc \in [Flows -> PCs]
  /\ captured \in [Flows -> Raws] /\ previous \in [Flows -> Raws]
  /\ settleCount \in [Flows -> 0 .. SettleFrames]
  /\ polls \in [Flows -> 0 .. MaxPolls]
  /\ result \in [Flows -> Results]
  /\ \A f \in Flows : pc[f] \notin {"idle", "sent"} => captured[f] # Nothing

(* toMatchScreenshot() passes exactly when the framebuffer captured and    *)
(* the one its reference was made from differ by few enough pixels, as     *)
(* xorFramebuffers() counts them: decoding, PNG coding and a comparison of *)
(* pixels agree with a comparison of the raw bytes.                        *)
VerdictIsXor ==
  \A f \in Flows :
    result[f] \in {"pass", "fail"} =>
      (result[f] = "pass" <=> xorFramebuffers(captured[f], against[f])
                                <= call[f].maxDiffPixels)

(* A reference comes into being or is overwritten only as a test asked: by *)
(* a call told to update, or, in the default mode, where there was none;   *)
(* so never in strict mode or without vitest's setup, in whichever run.    *)
(* Two calls that create one reference at the same time may each find      *)
(* none, and the later one overwrites what the earlier has written.        *)
MayWrite(f, n) ==
  /\ pc[f] \in {"write", "filling"} /\ call[f].name = n
  /\ \/ call[f].updateMode = "true"
     \/ call[f].updateMode = "undefined" /\ mode = "all"
     \/ /\ call[f].updateMode = "undefined" /\ mode = "new"
        /\ references[n] = NoFile \/ pc[f] = "filling" \/ rivals[f]
ReferencesKept ==
  [][\A n \in Names : references'[n] # references[n] =>
       \E f \in Flows : MayWrite(f, n)]_vars

(* No reference is left torn unless something failed: a file that is no    *)
(* PNG is one that a call is still writing, or of which a write failed or  *)
(* was stopped with its run.  Whichever calls write it at the same time,   *)
(* and in whichever order they open and fill it, once they have ended well *)
(* it is whole: what a later comparison reads is what one of them wrote.   *)
NoTornReference ==
  \A n \in Names :
    references[n] = Truncated => n \in cut \/ \E f \in Flows : Filling(f, n)

(* The waits say what was on the screens they captured, the game running   *)
(* on between two: waitUntilStable() resolves once SettleFrames captures   *)
(* in a row show the picture of the one before them, and not sooner;       *)
(* waitUntilScreenChanges() once one differs from the first; and if either *)
(* reports that it timed out, there was no such moment.                    *)
SamePicture(a, b) == decodeFramebuffer(a) = decodeFramebuffer(b)
StableAt(s, k) ==
  k > SettleFrames /\ \A i \in k - SettleFrames .. k : SamePicture(s[i], s[k])
ChangedAt(s, k) == ~SamePicture(s[1], s[k])
WaitsTellTheTruth ==
  \A f \in Flows :
    LET s == shown[f]
        Moment(k) == IF call[f].op = "stable" THEN StableAt(s, k)
                     ELSE ChangedAt(s, k)
    IN /\ result[f] = "resolved" =>
            \A k \in 1 .. Len(s) : Moment(k) <=> k = Len(s)
       /\ result[f] = "expired" => \A k \in 1 .. Len(s) : ~Moment(k)

(* Every call ends: a screenshot by its timer, a wait by its deadline, a   *)
(* comparison by what the file system answers.                             *)
EveryCallEnds == \A f \in Flows : pc[f] # "idle" ~> pc[f] = "idle"
===============================================================================
