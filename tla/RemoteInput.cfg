\* Two Command keys, one pointer; a Mac or another computer, with or without
\* leave to read the local clipboard.  For the pointing two videos of up to
\* two shapes on three layouts.
CONSTANTS
  Modifiers = {"left", "right"}
  Family <- FamilyOf
  Left = {"left"}
  Pointers = {p1}
  Absent = Absent
  Unset = Unset
  MaxEvents = 4
  MaxFaults = 3
  Layouts <- MCLayouts
  Sizes <- MCSizes
  Points <- MCPoints
  Wheels <- MCWheels
  Displays = {1, 2}
  Missing = Missing
  MaxObjects = 2
  MaxFrames = 2
  MaxSends = 1

SPECIFICATION MCSpec

INVARIANTS
  PointerIsTrue
  WireIsOwn
PROPERTIES
  InputFollowsUser
  NoLatePaste

CHECK_DEADLOCK FALSE
