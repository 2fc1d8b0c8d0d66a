\* Safety: two viewers, one display size that may disappear, all frame kinds.
CONSTANTS
  Conns = {c1, c2}
  Geoms = {g1}
  Zero = zero
  None = none
  NTiles = 1
  Kinds = {"refresh", "query", "modifier", "select", "other"}
  MaxFrames = 1
  Room = 1
  Backlog = 1
SYMMETRY Symmetric
SPECIFICATION Spec
INVARIANT TypeOK
INVARIANT ResetOwnsDescriptor
INVARIANT FramesWhole
INVARIANT CachedTileDelivered
PROPERTY ServesOneSlot
