----------------------------- MODULE MCVncInput -----------------------------
(* TLC instance of VncInput.                                              *)
EXTENDS VncInput
=============================================================================
