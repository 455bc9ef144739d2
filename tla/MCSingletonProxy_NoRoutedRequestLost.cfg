CONSTANTS
  Requests = {q1, q2, q3}
  Refs = {1, 2}
SPECIFICATION Spec
INVARIANT NoRoutedRequestLost
