SPECIFICATION MCSpec
CONSTANTS
  a = a
  b = b
  d = d
  p1 = p1
  p2 = p2
  p3 = p3
  p4 = p4
  Team <- MCTwo
  Player <- MCFour
  Positions = {"RB"}
  PosOf <- MCPosOf
  RosterCap = 2
  StarterCount = 1
  IRSlots = 1
  ReserveSlots <- MCReserve
  Limits <- MCUnlimited
  Nobody = nobody
  Caller = {c1, c2}
  Ops = {"correction", "add", "drop", "ir", "activateIR", "reserve", "activateReserve"}
  Offer = {}
  MaxAssets = 1
  VetoMode = "none"
  GameDay = {p1}
  Injurable = {p1, p2}
SYMMETRY MCSymmetry
CHECK_DEADLOCK FALSE
INVARIANTS OneOwner RostersFit
