---------------------------- MODULE MCGameModule ----------------------------
(* Small instances of GameModule for TLC.                                  *)
EXTENDS GameModule

=============================================================================
