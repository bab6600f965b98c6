SPECIFICATION MCPickemSpec
CONSTANTS
  h1 = h1 h2 = h2 early = early late = late
  Contest = {h1, h2}
  Owner = {early, late}
  Line = {0, 1}
  Margin = {0, 1}
  Thursdays = {3}
  Eve <- MCEve
  Unset = Unset
  Unscored = Unscored
  FirstKick <- MCKickoffs
  FirstLine <- MCFirstLine
  FirstPicks <- MCFirstPicks
  LastTurn = 5
  MaxMoves = 1
  MaxRestarts = 1
CHECK_DEADLOCK FALSE
INVARIANTS PageSettlesWithTheLast
