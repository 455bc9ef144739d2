CONSTANTS
  Payloads <- MCPayloads
  MsgLen <- MCMsgLen
  MaxConns = 5
  MaxFaults = 2
  MaxHandshakes = 1
SPECIFICATION Spec
INVARIANT AckMatchesConnection
