SPECIFICATION MCSpec
CONSTANTS
  ann = ann bob = bob carol = carol dee = dee
  rb = rb flex = flex
  opener = opener thursday = thursday sunday = sunday
  Nobody = Nobody NoGame = NoGame
  Player = {ann, bob, carol, dee}
  Slot = {rb, flex}
  NFLGame = {opener, thursday, sunday}
  FirstRoster = {ann, bob, dee}
  RosterSize = 4
  LastWeek = 2
  Horizon = 5
  EditWeeks = {2}
  MaxEdits = 2
  MaxMoves = 1
  MaxReopens = 1
  SlotOrder <- MCSlotOrder
  Fit <- MCFit
  Projection <- MCProjection
  WeekOf <- MCWeekOf
  Kickoff <- MCKickoff
  GameOf <- MCGameOf
  Turn <- MCTurn
PROPERTY NoLateStart
CHECK_DEADLOCK FALSE
