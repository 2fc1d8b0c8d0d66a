\* Plugging, unplugging, mirroring; two requests of the viewer.
CONSTANTS
  Screens = {1, 2}
  Layouts <- MCLayouts
  KVM_MAX_DISPLAYS = 3
  Numbers = {0, 2}
  MaxChanges = 1
  MaxRequests = 2
SPECIFICATION FairDisplaysSpec
INVARIANT DisplaysTypeOK
PROPERTY NumberMeansScreen
PROPERTY ViewerFollows
