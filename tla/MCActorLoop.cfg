CONSTANTS
  MaxMsgs = 4
SPECIFICATION Spec
INVARIANT TypeOK
 
PROPERTY EventuallyStops
PROPERTY ActorSpec
