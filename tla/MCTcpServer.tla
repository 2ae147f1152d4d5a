----------------------------- MODULE MCTcpServer -----------------------------
(***************************************************************************)
(* TcpServer for TLC: conduit identities are interchangeable.              *)
(***************************************************************************)
EXTENDS TcpServer, TLC

ConduitSymmetry == Permutations(Conduits)
===============================================================================
