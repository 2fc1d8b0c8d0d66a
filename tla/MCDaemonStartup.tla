-------------------------- MODULE MCDaemonStartup --------------------------
(* The TLC instance of DaemonStartup.                                      *)
EXTENDS DaemonStartup
=============================================================================
