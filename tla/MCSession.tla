------------------------------ MODULE MCSession -------------------------------
(* Small test scripts for Session.                                         *)
EXTENDS Session

CONSTANTS c1, c2, A, Right

(* CRANK_NO_INJECT is an angle among the others.                           *)
MCNoInject == -1
MCCranks == {MCNoInject, Right, 0}

(* Input by one flow, next to frames counted by the other; two flows that  *)
(* await replies of one type; calls that follow one that has failed or may *)
(* have failed.                                                            *)
Pair(s, t) == [c \in Calls |-> IF c = c1 THEN s ELSE t]
MCScripts ==
  {Pair(<<Tap(A, 1)>>, <<WaitFrames(1)>>),
   Pair(<<SetCrank(Right), PressButtons({A}), PressButtons({}),
         ReleaseInput>>, <<>>),
   Pair(<<RotateCrank(Right), Tap(A, 0)>>, <<>>),
   Pair(<<Screenshot, Screenshot>>, <<Screenshot>>),
   Pair(<<QueryState>>, <<QueryState>>),
   Pair(<<WaitFrames(1), WaitFrames(2)>>, <<>>)}

(* One flow that only counts frames, once, and once more.                  *)
MCWaitTwice == {Pair(<<WaitFrames(1), WaitFrames(1)>>, <<>>)}

(* Turned on, and back past where it was.                                  *)
MCTurns == {Pair(<<RotateCrank(Right), RotateCrank(-Right),
                   RotateCrank(-Right)>>, <<>>)}
===============================================================================
