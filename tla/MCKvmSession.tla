--------------------------- MODULE MCKvmSession ---------------------------
(* TLC instances of KvmSession.                                            *)
EXTENDS KvmSession, TLC

Symmetric == Permutations(Conns)
=============================================================================
