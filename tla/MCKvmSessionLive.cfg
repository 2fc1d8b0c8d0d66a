\* Liveness: peers read what they are sent, and capturing works.
CONSTANTS
  Conns = {c1, c2}
  Geoms = {g1}
  Zero = zero
  None = none
  NTiles = 1
  Kinds = {"refresh"}
  MaxFrames = 1
  Room = 1
  Backlog = 1
SPECIFICATION PaintedSpec
PROPERTY LastConnectWins
PROPERTY ShutdownReleased
PROPERTY Repainted
