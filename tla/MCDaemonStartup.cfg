\* One user who comes and goes, a self-update, edits that fail, crashes and
\* reboots; no symmetry, since the run checks a liveness property.
CONSTANTS
  Users = {u1}
  Nobody = Nobody
  None = None
  Unloaded = Unloaded
  Partial = Partial
  LastBuild = 2
  Edits = {"done", "failed", "torn"}
  Faults = {"crash", "reboot"}
  MaxFaults = 2
  MaxHelpers = 2
SPECIFICATION FairSpec
INVARIANT TypeOK
INVARIANT CopyWhole
PROPERTY ConsoleAgentInStep
PROPERTY Repaired
CHECK_DEADLOCK FALSE
