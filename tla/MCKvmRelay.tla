----------------------------- MODULE MCKvmRelay -----------------------------
(* TLC instance of KvmRelay.                                              *)
EXTENDS KvmRelay
=============================================================================
