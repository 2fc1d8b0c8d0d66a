----------------------------- MODULE ViewerSlot -----------------------------
(***************************************************************************)
(* What the agent's socket promises the daemon: one viewer is served at a  *)
(* time, connections are taken in the order they arrive, each at most      *)
(* once, and taking one ends the session of the one before.  KvmSession    *)
(* implements it with two threads and unlocked globals.                    *)
(***************************************************************************)
EXTENDS Naturals, Sequences

CONSTANTS Conns, Backlog

VARIABLES
  conn,     \* "new", "pending" (connected, not accepted), "open", "closed"
  backlog   \* the pending connections, oldest first

slotVars == <<conn, backlog>>

SlotInit ==
  /\ conn = [c \in Conns |-> "new"]
  /\ backlog = <<>>

Arrive(c) ==
  /\ conn[c] = "new" /\ Len(backlog) < Backlog
  /\ conn' = [conn EXCEPT ![c] = "pending"]
  /\ backlog' = Append(backlog, c)

(* the oldest pending connection replaces the one being served, if any     *)
Serve ==
  /\ backlog # <<>>
  /\ conn' = [c \in Conns |-> IF c = Head(backlog) THEN "open"
                              ELSE IF conn[c] = "open" THEN "closed"
                              ELSE conn[c]]
  /\ backlog' = Tail(backlog)

Drop(c) ==
  /\ conn[c] = "open"
  /\ conn' = [conn EXCEPT ![c] = "closed"]
  /\ UNCHANGED backlog

(* the process ends and takes every connection with it                     *)
DropAll ==
  /\ conn' = [c \in Conns |-> IF conn[c] = "new" THEN "new" ELSE "closed"]
  /\ backlog' = <<>>

SlotNext == Serve \/ DropAll \/ \E c \in Conns : Arrive(c) \/ Drop(c)

SlotSpec == SlotInit /\ [][SlotNext]_slotVars
=============================================================================
