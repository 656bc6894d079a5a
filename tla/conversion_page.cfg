SPECIFICATION FairSpec
CONSTANTS
  EUR = EUR
  USD = USD
  FirstDay = 1
  MinAmount = 1
  MaxAmount = 2
  NotFinite = NotFinite
  NotADate = NotADate
  Currencies <- TwoCurrencies
  Hours = 3
  TimeZones <- EastAndWest
  LastDay = 2
  Forms <- FormsFilled
  MaxSubmits = 2
  Absent = Absent
  Nothing = Nothing
INVARIANTS
  TypeOK
  FormHasItsLookups
  ValidFormNotRefused
  ResultWithItsHistory
  LastSubmitShown
  SpinnersTurnForACause
PROPERTIES
  NeverSilent
  PageComesBack
