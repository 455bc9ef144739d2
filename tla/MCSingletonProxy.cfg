CONSTANTS
  Requests = {q1, q2, q3}
  Refs = {1, 2, 3}
SPECIFICATION Spec
INVARIANT TypeOK
INVARIANT ProxyPreservesOrder
PROPERTY EventuallyRouted
