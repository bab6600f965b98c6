SPECIFICATION MCFairSpec
CONSTANTS
  t1 = t1
  t2 = t2
  qb1 = qb1
  qb2 = qb2
  k1 = k1
  k2 = k2
  qb = qb
  Teams <- MCTeams
  DefaultOrder <- MCOrder
  Rounds = 1
  Players <- MCPlayers
  Slots <- MCSlots
  Fits <- MCFits
  Requests = {r1}
  MinPickClock = 1
  MaxPickClock = 3
  DefaultPickClock = 1
  AutopickGrace = 1
  NotSeenClock = 1
  RestartGrace = 1
  Durations = {2}
  Extensions = {1}
  MaxNow = 3
  MaxActs = 2
INVARIANTS TypeOK
PROPERTIES LoopPicksOnlyOnExpiredClock UndoRemovesDisplayedPick BootIsFair ClockKeepsMoving
