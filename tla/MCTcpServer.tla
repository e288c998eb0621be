----------------------------- MODULE MCTcpServer -----------------------------
(* TcpServer on small instances.                                            *)
EXTENDS TcpServer, TLC

Symmetry == Permutations(Conns) \cup Permutations(Fds)
=============================================================================
