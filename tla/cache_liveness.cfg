SPECIFICATION FairSpec
CONSTANTS
  k1 = k1
  k2 = k2
  k3 = k3
  k4 = k4
  n1 = n1
  n2 = n2
  n3 = n3
  n4 = n4
  v1 = v1
  v2 = v2
  Keys <- TwoKeys
  Values <- OneValue
  Nodes <- ThreeNodes
  NoNode = NoNode
  Nullopt = Nullopt
  NoAnswer = NoAnswer
  MaxAge = 4
  MaxElements = 2
  AgeCap = 5
PROPERTIES
  DestructorReturns
  EventuallyReclaimed
