--------------------------- MODULE MCRemoteClient ---------------------------
(* Model-checking instance of RemoteClient: three payloads of different     *)
(* encoded lengths, two network faults, one handshake request.             *)
EXTENDS RemoteClient

MCPayloads == {1, 2, 3}
MCMsgLen == [p \in MCPayloads |-> 1 + (p % 2)]
=============================================================================
