SPECIFICATION Spec
CONSTANTS
  Texts <- FewTexts
  FirstDates <- Starts
  LastDates <- Ends
  FirstDay <- NumberOfMinDate
  MinAmount = 1
  MaxAmount = 2
  NotFinite = NotFinite
  NotADate = NotADate
INVARIANTS
  TextsJudgedAsDays
PROPERTIES
  LaterDaysLetMoreThrough
