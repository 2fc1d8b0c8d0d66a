----------------------------- MODULE MCPermWalk -----------------------------
EXTENDS PermWalk
=============================================================================
