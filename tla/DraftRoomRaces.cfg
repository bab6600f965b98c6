SPECIFICATION MCRaces
CONSTANTS
  t1 = t1
  t2 = t2
  qb1 = qb1
  qb2 = qb2
  k1 = k1
  k2 = k2
  qb = qb
  Teams <- MCTeams
  DefaultOrder <- MCOrder
  Rounds = 2
  Players <- MCPlayers4
  Slots <- MCSlots
  Fits <- MCFits
  Requests = {r1, r2}
  MinPickClock = 1
  MaxPickClock = 3
  DefaultPickClock = 1
  AutopickGrace = 1
  NotSeenClock = 1
  RestartGrace = 1
  Durations = {}
  Extensions = {}
  MaxNow = 2
  MaxActs = 1
SYMMETRY MCSymmetry
INVARIANTS TapeIsSound
PROPERTIES ImplementsSnakeDraft
