------------------------------- MODULE MCScreens -------------------------------
(* A small instance of Screens for TLC: a display of two rows of two       *)
(* pixels, each row in a byte of two bits and followed by a byte that is   *)
(* padding.                                                                *)
EXTENDS Screens

CONSTANTS f1, f2, title

Raw(a, b, pad) ==
  [i \in 0 .. RowSize * Height - 1 |->
     CASE i = 0 -> a [] i = RowSize -> b [] OTHER -> pad]

(* A blank screen; the same with other padding; one pixel.                 *)
MCDisplays == {Raw(0, 0, 0), Raw(0, 0, 3), Raw(0, 1, 0)}

(* The waits, by themselves; screenshots of one name, by two flows: both   *)
(* may create it and one also updates it, or one only reads it.            *)
MCScripts ==
  {[f \in Flows |-> IF f = f1 THEN {WaitUntilScreenChanges, WaitUntilStable}
                    ELSE {}],
   [f \in Flows |->
      {ToMatchScreenshot(title, "undefined", IF f = f1 THEN 0 ELSE 1)}
        \cup IF f = f1 THEN {ToMatchScreenshot(title, "true", 0)} ELSE {}],
   [f \in Flows |->
      {IF f = f1 THEN ToMatchScreenshot(title, "undefined", 0)
       ELSE ToMatchScreenshot(title, "false", 1)}]}
===============================================================================
