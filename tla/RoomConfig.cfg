SPECIFICATION PagesSpec
CONSTANTS
  r1 = r1
  r2 = r2
  b1 = b1
  b2 = b2
  disp = disp
  inp = inp
  Rooms = {r1, r2}
  Buildings = {b1, b2}
  BuildingOf <- MCBuildingOf
  Names = {"D1", "H1"}
  FreshNames = {"X"}
  Types = {disp, inp}
  PortsOf <- MCPortsOf
  Sources = {inp}
  Destinations = {disp}
  MayFeed <- MCMayFeed
  FixedAddress = {inp}
  DefaultPorts <- MCDefaultPorts
  Includes <- MCIncludes
  NumberOf <- MCNumberOf
  StoredAtFirst <- MCStored
  Add = Add
  None = None
  Fixed = Fixed
  MaxActs = 0
  MaxHurry = 0
  d1 = d1
  d2 = d2
  pi = pi
  tv = tv
  hdmi = hdmi
  TypedRooms = {d1, d2}
  RoomsThere = {d2}
  BuildingsThere = {b1}
  BuildingPart <- MCBuildingPart
  DeviceTypes = {pi, tv, hdmi}
  PiTypes = {pi}
  BaseName <- MCBaseName
  NameIncludes <- MCNameIncludes
  IDRank <- MCIDRank
  RoomDigits <- MCRoomDigits
  MaxDevices = 0
  MaxGroups = 0
  NoRoom = NoRoom
  FormBuildings = {"b1", "b2"}
  FormStoredAtFirst <- MCFormStored
  NewIDs <- MCNewIDs
  RenamedIDs <- MCRenamedIDs
  ConfigNames <- MCConfigNames
  Tag = Tag
  NotChosen = NotChosen
  MaxFormActs = 6
  c1 = c1
  c2 = c2
  p1 = p1
  p2 = p2
  e1 = e1
  e2 = e2
  Browser = {p1, p2}
  Client = {c1, c2}
  EventRoom = {e1, e2}
  NoSub = NoSub
  MaxEvents = 0
  MaxChoices = 0
INVARIANT ConfigurationAsChosen
CHECK_DEADLOCK FALSE
