SPECIFICATION MCSpec
CONSTANTS
  r1 = r1
  r2 = r2
  b1 = b1
  Undefined = Undefined
  Rooms = {r1, r2}
  Buildings = {b1}
  BuildingOf <- MCBuildingOf
  MaxFinish = 2
  Untouched = {"step", "location", "devices"}
SYMMETRY MCSymmetry
INVARIANTS
  FlagsTrue
  NotOverwritten
  NeverStuck
PROPERTIES
  ImplementsRoomSetup
CHECK_DEADLOCK FALSE
