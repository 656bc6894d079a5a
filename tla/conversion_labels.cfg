SPECIFICATION Spec
CONSTANTS
  EUR = EUR
  USD = USD
  FirstDay = 1
  MinAmount = 1
  MaxAmount = 2
  NotFinite = NotFinite
  NotADate = NotADate
  Currencies <- TwoCurrencies
  Hours = 3
  TimeZones <- EastAndWest
  LastDay = 2
  Forms <- FewForms
  MaxSubmits = 2
  Absent = Absent
  Nothing = Nothing
INVARIANTS
  LabelsNameTheResult
