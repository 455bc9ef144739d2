CONSTANTS
  ta = ta
  tb = tb
  Types <- MCTypes
  Named <- MCNamed
  MaxRequests = 3
  MaxIncoming = 2
  MaxLoss = 1
SPECIFICATION Spec
PROPERTY EveryRequestEnds
