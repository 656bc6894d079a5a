SPECIFICATION FairSpec
CONSTANTS
  w1 = w1
  w2 = w2
  own = own
  loud = loud
  Workers <- TwoWorkers
  Files <- TwoFiles
  CommandLines <- Lines
  Disks <- DiskStates
  Missing = Missing
  Malformed = Malformed
  Nothing = Nothing
  NotANumber = NotANumber
  MaxInt <- FifteenBits
  MaxSize <- SixteenBits
INVARIANTS
  TypeOK
  HandlersUseWhatLives
  ThreadsEndBeforeWhatTheyUse
  WaitsOnlyForWhatEnds
  SettingsInForce
PROPERTIES
  ServesOrEnds
