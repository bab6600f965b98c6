SPECIFICATION GameDaySpec
CONSTANTS
  g1 = g1 g2 = g2
  Game = {g1, g2}
  GameWeek <- MCGameWeek
  Kick <- MCKick
  WindowAfter = 1
  RehydrateAfter = 2
  Relevant = {g1}
  Baseline = 2
  Settling = 1
  DailyBudget = 1
  MaxInflight = 1
  Cooldown = 1
  OpenFor = 1
  Missing = Missing
  LastTime = 2
  MaxMishaps = 1
  h1 = h1 h2 = h2 early = early late = late
  Contest = {h1, h2}
  Owner = {early, late}
  Line = {0, 1}
  Margin = {0, 1}
  Thursdays = {3}
  Eve <- MCEve
  Unset = Unset
  Unscored = Unscored
  FirstKick <- MCKickoffs
  FirstLine <- MCFirstLine
  FirstPicks <- MCFirstPicks
  LastTurn = 5
  MaxMoves = 1
  MaxRestarts = 1
  c1 = c1 c2 = c2 c3 = c3 c4 = c4 w1 = w1 w2 = w2
  Pool = {c1, c2, c3, c4}
  Club <- MCClub
  KickedAt <- MCKickedAt
  Tab = {w1, w2}
  FivePlayers = 2 PerClub = 1
  NoAsk = NoAsk
  LastHour = 4
CHECK_DEADLOCK FALSE
INVARIANTS PollerIsSound ContestsAreSound
PROPERTIES FinalsStayFinal PicksStay
