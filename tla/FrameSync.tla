------------------------------ MODULE FrameSync ------------------------------
(***************************************************************************)
(* What a test script is promised of time: the calls of PlaydateGame last  *)
(* in game frames.  A call that needs n frames resolves only when the game *)
(* has run n frames that count for it since the call was made; waitFrames  *)
(* counts every frame, tap() those on which its button is held.  A call    *)
(* may reject at any time.                                                 *)
(*                                                                         *)
(* A call that is `excused' may resolve early.  When it is, is up to the   *)
(* implementation, and its business to explain.                            *)
(***************************************************************************)
EXTENDS Integers

CONSTANTS
  Calls,     \* the flows that make calls, one at a time each
  MaxFrames  \* the most frames a call may need

VARIABLES
  outcome,   \* of each flow's latest call
  need,      \* the frames it needs while it runs, else 0
  frames,    \* the frames it has lasted, counted up to one more than needed
  excused    \* the flows whose call may resolve early

vars == <<outcome, need, frames, excused>>

Outcomes == {"none", "running", "resolved", "rejected"}

Init ==
  /\ outcome = [c \in Calls |-> "none"]
  /\ need = [c \in Calls |-> 0]
  /\ frames = [c \in Calls |-> 0]
  /\ excused \in SUBSET Calls

Begin(c) ==
  /\ outcome[c] # "running"
  /\ outcome' = [outcome EXCEPT ![c] = "running"]
  /\ \E n \in 0..MaxFrames : need' = [need EXCEPT ![c] = n]
  /\ frames' = [frames EXCEPT ![c] = 0]

(* A call that is refused at once never runs.                              *)
Refuse(c) ==
  /\ outcome[c] # "running"
  /\ outcome' = [outcome EXCEPT ![c] = "rejected"]
  /\ UNCHANGED <<need, frames>>

(* A frame of the game, which counts for some of the calls that run.       *)
Frame ==
  /\ \E S \in SUBSET {c \in Calls : outcome[c] = "running"} :
       frames' = [c \in Calls |->
                    IF c \in S /\ frames[c] <= need[c]
                    THEN frames[c] + 1 ELSE frames[c]]
  /\ UNCHANGED <<outcome, need>>

Resolve(c) ==
  /\ outcome[c] = "running"
  /\ frames[c] >= need[c] \/ c \in excused
  /\ outcome' = [outcome EXCEPT ![c] = "resolved"]
  /\ need' = [need EXCEPT ![c] = 0]
  /\ UNCHANGED frames

Reject(c) ==
  /\ outcome[c] = "running"
  /\ outcome' = [outcome EXCEPT ![c] = "rejected"]
  /\ need' = [need EXCEPT ![c] = 0]
  /\ UNCHANGED frames

(* Something happens that excuses calls, or that ends their excuse.        *)
Excuse == UNCHANGED <<outcome, need, frames>>

Next ==
  \/ Frame
  \/ Excuse
  \/ \E c \in Calls : Begin(c) \/ Refuse(c) \/ Resolve(c) \/ Reject(c)

Spec == Init /\ [][Next]_vars
=============================================================================
