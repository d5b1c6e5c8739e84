---------------------------- MODULE MCTcpServer -----------------------------
(* A small instance of TcpServerSystem for TLC.                            *)
EXTENDS TcpServerSystem
=============================================================================
