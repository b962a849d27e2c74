SPECIFICATION ConsoleSpec
CONSTANTS
  l1 = l1
  l2 = l2
  Jobs <- TwoJobs
  Unreadable = Unreadable
  RefreshEvery = 1
  Patience = 1
  MaxQueue = 1
  MaxPresses = 1
  MaxOdd = 1
  MayHang = TRUE
  Pipe = 2
  MaxOutput = 2
  MaxQuery = 3
  MaxSaid = 4
  Keys = {"k1", "k2"}
  MaxDepth = 1
  MaxCount = 2
  Models = {"m1"}
  MaxLength = 9
  MaxRows = 2
  Writers = {w1}
  MaxSaves = 3
  MayLose = {"config"}
  MaxEdits = 3
  MaxFaults = 3
  LastCopyMayFail = FALSE
  MaxRuns = 4
  Period = 2
  MaxTime = 7
  Good = {"9", "99"}
  MaxLines = 2
  MaxMoves = 3
  Shas = {r1, r2, r3}
  NoRelease = NoRelease
  Stable = Stable
  MayShrink = {"launchd"}
  Keep = 1
  PruneAge = 1
  MaxInstalls = 4
  MaxDeaths = 1
INVARIANT PressHitsWhatWasShown
INVARIANT AnswerIsSound
INVARIANT TakesJson
INVARIANT FiguresAreTheAnswer
 
 
 
 
 
 
PROPERTY OthersKept
CHECK_DEADLOCK FALSE
