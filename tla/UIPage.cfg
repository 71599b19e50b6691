SPECIFICATION MCSpec
CONSTANTS
  r1 = r1
  r2 = r2
  hdmi = hdmi
  d1 = d1
  mic = mic
  old = old
  cp1 = cp1
  cp2 = cp2
  template = template
  custom = custom
  o1 = o1
  o2 = o2
  o3 = o3
  None = None
  Blank = Blank
  Rooms = {r1, r2}
  Names = {hdmi, d1, mic, old}
  InputsOf <- MCInputsOf
  DisplaysOf <- MCDisplaysOf
  MicsOf <- MCMicsOf
  ProcessorsOf <- MCProcessorsOf
  Templates = {template, custom}
  PanelsIn <- MCPanelsIn
  Loaded = {o1, o2, o3}
  Many = 2
  MaxChoices = 3
  MaxSubmits = 2
  MaxHurries = 1
INVARIANTS
  Complete
  NoDuplicates
  NothingLost
CHECK_DEADLOCK FALSE
