SPECIFICATION SeasonSpec
CONSTANTS
  ann = ann bob = bob carol = carol dee = dee
  rb = rb flex = flex
  opener = opener thursday = thursday sunday = sunday
  Nobody = Nobody NoGame = NoGame
  Player = {ann, bob, carol, dee}
  Slot = {rb, flex}
  NFLGame = {opener, thursday, sunday}
  FirstRoster = {ann, bob, dee}
  RosterSize = 4
  LastWeek = 2
  Horizon = 5
  EditWeeks = {2}
  MaxEdits = 2
  MaxMoves = 1
  MaxReopens = 1
  SlotOrder <- MCSlotOrder
  Fit <- MCFit
  Projection <- MCProjection
  WeekOf <- MCWeekOf
  Kickoff <- MCKickoff
  GameOf <- MCGameOf
  Turn <- MCTurn
  t1 = t1  t2 = t2  t3 = t3  t4 = t4  t5 = t5  t6 = t6  t7 = t7
  east = east  west = west
  Team = {t1, t2, t3, t4, t5, t6, t7}
  Division <- MCDivision
  Configs <- MCConfigs
  Orders <- MCOrders
  Lines <- MCLines
  Advances = {a1, a2}
  StartWeek = 15
  LastNFLWeek = 18
  NoTeam = NoTeam
  MaxCorrections = 1
  MaxStandings = 1
CHECK_DEADLOCK FALSE
INVARIANTS LineupsAreSound TickIsPatient BracketIsSound
PROPERTIES RecordStays PublishedIsFinal MCWeeksClose
