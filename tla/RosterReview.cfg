SPECIFICATION MCTradingSpec
CONSTANTS
  a = a
  b = b
  d = d
  p1 = p1
  p2 = p2
  p3 = p3
  p4 = p4
  Team <- MCThree
  Player <- MCTrio
  Positions = {"RB"}
  PosOf <- MCPosOf
  RosterCap = 1
  StarterCount = 1
  IRSlots = 1
  ReserveSlots <- MCReserve
  Limits <- MCUnlimited
  Nobody = nobody
  Caller = {c1}
  Ops = {"drop", "ir"}
  Offer = {o1, o2}
  MaxAssets = 1
  VetoMode = "both"
  GameDay = {}
  Injurable = {p1}
SYMMETRY MCSymmetry
INVARIANTS TypeOK NoOrphanZone
PROPERTIES SettledOffersStay
CHECK_DEADLOCK FALSE
