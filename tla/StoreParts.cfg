CONSTANTS
  Seat = {1, 2}
  p1 = p1 p2 = p2 p3 = p3
  Person = {p1, p2, p3}
  Ranked = {x, y}
  BoardLimit = 2
  MinTeams = 1
  NoMember = NoMember NoSeat = NoSeat NoRequest = NoRequest NoForm = NoForm
  MaxRequests = 3
  MaxTenures = 4
  Holder = {1, 2}
  Motif = {m1}
  Ref = {a1}
  Plain = {picks, kv}
  Scalars = kv
  Value = {v0, v1}
  Blank = v0
  None = None
  MaxFaults = 3
  Bytes = {b1, b2}
  Native = Native
  NoMark = NoMark
  Empty = Empty
  Nothing = Nothing
  MaxStops = 3
  MaxPuts = 2
  k1 = k1 k2 = k2 f0 = f0 f1 = f1 f2 = f2
  Publisher = {k1, k2}
  Bundle <- MCBundle
  OldBytes = {f0}
  Edit = Edit Marker = Marker Absent = Absent
  MaxRuns = 2 MaxEdits = 1 MaxUpsets = 2
  v1 = v1 v2 = v2 r1 = r1 r2 = r2
  Viewer = {v1, v2}
  Request = {r1, r2}
  Capacity = 1 Ttl = 0 Grace = 0
  FirstPick = {0} MyTurns = {1} FullBoard = 2
  NoSession = NoSession NoErrand = NoErrand
  LastSession = 2 LastMinute = 2
SPECIFICATION StoreSpec
CHECK_DEADLOCK FALSE
INVARIANTS SeatsAreSound MemoryIsAccountedFor FilesAreSound PracticeIsSound
PROPERTIES ConfirmedMeansShown AnswersAreTrue FilesSurvive PracticeIsKept
