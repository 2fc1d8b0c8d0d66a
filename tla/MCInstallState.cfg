\* Three scripts in any order, a second build, installs that stop anywhere.
CONSTANTS
  None = None
  LastBuild = 2
  MaxScripts = 3
  MayStop = {"install"}
SPECIFICATION Spec
INVARIANTS TypeOK Undone InstallTookEffect PolicyKept
CHECK_DEADLOCK FALSE
