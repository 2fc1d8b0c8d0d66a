---------------------------- MODULE MCInstallState ----------------------------
(* TLC instance of InstallState.                                             *)
EXTENDS InstallState
===============================================================================
