\* A display that changes its size while the viewer asks for a refresh.
CONSTANTS
  Conns = {c1}
  Geoms = {g1, g2}
  Zero = zero
  None = none
  NTiles = 1
  Kinds = {"refresh"}
  MaxFrames = 1
  Room = 1
  Backlog = 1
SPECIFICATION PaintedSpec
PROPERTY ToldResolution
