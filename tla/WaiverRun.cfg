SPECIFICATION MCFairSpec
CONSTANTS
  a = a
  b = b
  p1 = p1
  p2 = p2
  p3 = p3
  p4 = p4
  Team <- MCTeam
  Player <- MCPlayer
  Positions = {"RB"}
  PosOf <- MCPosOf
  RosterCap = 2
  StarterCount = 1
  IRSlots = 0
  ReserveSlots <- MCLimits
  Limits <- MCLimits
  Drafted <- MCDrafted
  StartRosters <- MCStart
  Fickle = {p4}
  Kick <- MCKick
  NoGame = 9
  Day = 2
  ClearDays = 1
  GameEnd = 1
  Linger = 1
  DeferLimit = 2
  DeferWindow = 2
  Budget = 1
  Modes = {"perf-priority", "faab"}
  MaxClaims = 3
  MaxNow = 4
CHECK_DEADLOCK FALSE
INVARIANTS RunsAreSound
PROPERTIES MCRunsCatchUp NoSweep
