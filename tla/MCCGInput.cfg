\* Two modifiers with a flag each, the right button, a queue of two slots.
CONSTANTS
  Mods = {"VK_SHIFT", "VK_LWIN"}
  Letters = {"VK_C"}
  Flags = {"Shift", "Command"}
  FlagOf <- OneEach
  Buttons = {"right"}
  Slots = 2
SPECIFICATION Spec
INVARIANT TypeOK
INVARIANT FlagsExact
INVARIANT ArrivesInState
INVARIANT NothingLatched
