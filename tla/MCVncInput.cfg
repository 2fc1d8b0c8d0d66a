\* Two viewers, a key with a shifted form, one without, a button.
CONSTANTS
  Viewers = {v1, v2}
  Shifted = {one}
  Unshifted = {ret}
  Buttons = {left}
  ShiftKey = shift
  Wait = 2
SPECIFICATION LiveSpec
INVARIANT TypeOK
INVARIANT TracksServer
INVARIANT NoPhantom
PROPERTY Reconnects
