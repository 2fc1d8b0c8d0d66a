\* Both threads are fair, but the served viewer may stop reading.
CONSTANTS
  Conns = {c1, c2}
  Geoms = {g1}
  Zero = zero
  None = none
  NTiles = 1
  Kinds = {"refresh"}
  MaxFrames = 1
  Room = 1
  Backlog = 1
SPECIFICATION FairSpec
PROPERTY LastConnectWins
