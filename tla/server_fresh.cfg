SPECIFICATION FreshSpec
CONSTANTS
  w1 = w1
  w2 = w2
  eur = eur
  EUR = EUR
  USD = USD
  XXX = XXX
  Workers <- TwoWorkers
  Requests <- Competing
  Upper <- UpperCase
  Listed <- TwoListed
  QuotedOn <- Quotes
  LastDay = 2
  FirstDay = 1
  MinAmount = 1
  MaxAmount = 2
  NotFinite = NotFinite
  NotADate = NotADate
  CatalogMaxAge = 1
  RateMaxAge = 1
  HistoryMaxAge = 1
  RateMaxElements = 1
  HistoryMaxElements = 1
  Nullopt = Nullopt
  Nothing = Nothing
SYMMETRY Interchangeable
INVARIANTS
  RateAtMostMaxAgeBehind
  HistoryAtMostMaxAgeBehind
