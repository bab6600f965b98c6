SPECIFICATION MCTradingSpec
CONSTANTS
  a = a
  b = b
  d = d
  p1 = p1
  p2 = p2
  p3 = p3
  p4 = p4
  Team <- MCTwo
  Player <- MCFour
  Positions = {"RB"}
  PosOf <- MCPosOf
  RosterCap = 2
  StarterCount = 1
  IRSlots = 1
  ReserveSlots <- MCReserve
  Limits <- MCUnlimited
  Nobody = nobody
  Caller = {c1}
  Ops = {"add", "drop"}
  Offer = {o1}
  MaxAssets = 2
  VetoMode = "none"
  GameDay = {p1}
  Injurable = {}
SYMMETRY MCSymmetry
INVARIANT WithinCap
PROPERTIES TradesAreKept ImplementsRosterBook
CHECK_DEADLOCK FALSE
