SPECIFICATION RecencySpec
CONSTANTS
  k1 = k1
  k2 = k2
  k3 = k3
  k4 = k4
  n1 = n1
  n2 = n2
  n3 = n3
  n4 = n4
  v1 = v1
  v2 = v2
  Keys <- FourKeys
  Values <- TwoValues
  Nodes <- FourNodes
  NoNode = NoNode
  Nullopt = Nullopt
  NoAnswer = NoAnswer
  MaxAge = 2
  MaxElements = 3
  AgeCap = 3
SYMMETRY Interchangeable
INVARIANTS
  TypeOK
  IndexMatchesEntries
  WithinCapacity
  SweepIteratorValid
PROPERTIES
  StopOnlyApproachesExit
  EvictsLeastRecentlyUsed
  ImplementsICache
