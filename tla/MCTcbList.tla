----------------------------- MODULE MCTcbList -----------------------------
(* TcbList on four nodes, whose addresses are interchangeable.             *)
EXTENDS TcbList, TLC

NodeSymmetry == Permutations(Nodes)
=============================================================================
