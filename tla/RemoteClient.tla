---------------------------- MODULE RemoteClient ----------------------------
(***************************************************************************)
(* The per-peer RemoteClient actor of coerce (src/coerce/src/remote/net/   *)
(* client/connect.rs and send.rs).  The actor's handlers run one at a time *)
(* off its mailbox; each handler is one atomic action here.  Around it run *)
(* the tasks the handlers spawn or talk to: the delayed reconnect task     *)
(* spawned by Disconnected, the receive loop of the current connection,   *)
(* the TCP peer, and the callers that send Write and BeginHandshake.       *)
(*                                                                         *)
(* Data is abstracted: a written message is a payload id, its encoding a   *)
(* length MsgLen[p]; a connection is an id in 1..MaxConns.                 *)
(***************************************************************************)
EXTENDS Naturals, Sequences, SequencesExt

CONSTANTS
  Payloads,       \* messages callers Write, each written once
  MsgLen,         \* [Payloads -> Nat \ {0}]: length of write_to_bytes(p)
  MaxConns,       \* bound on successful dials; connection ids are 1..MaxConns
  MaxFaults,      \* bound on network faults (failed dial, broken write half)
  MaxHandshakes   \* bound on BeginHandshake requests

ASSUME MsgLen \in [Payloads -> Nat \ {0}]
ASSUME MaxConns \in Nat \ {0} /\ MaxFaults \in Nat /\ MaxHandshakes \in Nat

Conns == 1..MaxConns

VARIABLES
  state,          \* ClientState: [kind, attempts, conn, acked]
  writeBuffer,    \* write_buffer (VecDeque of encoded messages)
  bytesTotal,     \* write_buffer_bytes_total
  ackWaiters,     \* Len(on_handshake_ack_callbacks)
  mailbox,        \* the actor's inbox, FIFO
  alive,          \* FALSE once a handler has panicked and the actor task died
  reconnects,     \* reconnect tasks spawned by Disconnected, still sleeping
  sinkOk,         \* [Conns -> BOOLEAN]: the TCP write half of c still works
  peerHandshake,  \* [Conns -> {"none","sent","acked"}]: handshake frames on c
  closeSent,      \* [Conns -> BOOLEAN]: receive loop of c reported the close
  nextConn,       \* id of the next connection a dial creates
  faults,         \* network faults so far
  unsent,         \* payloads no caller has written yet
  handshakesLeft, \* BeginHandshake requests callers may still make
  accepted,       \* history: payloads Write returned Ok(()) for, in order
  delivered       \* history: payloads the peer read off its socket, in order

vars == <<state, writeBuffer, bytesTotal, ackWaiters, mailbox, alive,
          reconnects, sinkOk, peerHandshake, closeSent, nextConn, faults,
          unsent, handshakesLeft, accepted, delivered>>

Kinds == {"Idle", "Quarantined", "Connected"}

IdleState(n) == [kind |-> "Idle", attempts |-> n, conn |-> 0, acked |-> FALSE]
ConnectedState(c) == [kind |-> "Connected", attempts |-> 0, conn |-> c, acked |-> FALSE]

IsConnected == state.kind = "Connected"

Msg == [type : {"Connect", "BeginHandshake", "Disconnected"}]
       \cup [type : {"Write"}, payload : Payloads, encodable : BOOLEAN]
       \cup [type : {"HandshakeAck"}, conn : Conns]

\* Sum of the encoded lengths of a sequence of payloads.
SumLen(s) == FoldLeft(LAMBDA acc, p : acc + MsgLen[p], 0, s)

\* The receive loop of c runs while c is the client's live connection: it is
\* aborted by ConnectionState::disconnected and when the state is dropped.
LoopRunning(c) == alive /\ IsConnected /\ state.conn = c

-----------------------------------------------------------------------------
(* Helpers shared by several handlers.                                     *)

\* Bug variant: the pushed bytes are not counted.
BufferMessageUncounted(p) ==
  /\ writeBuffer' = Append(writeBuffer, p)
  /\ bytesTotal' = bytesTotal

\* buffer_message: push to the back and count the bytes.
BufferMessage(p) ==
  /\ writeBuffer' = Append(writeBuffer, p)
  /\ bytesTotal' = bytesTotal + MsgLen[p]

\* The state computed by the Disconnected handler.
AfterDisconnect(s) ==
  IF s.kind = "Connected" THEN IdleState(1)
                          ELSE [s EXCEPT !.attempts = @ + 1]

\* Bug variant: no reconnect task is spawned.
DisconnectNoRetry ==
  /\ state' = AfterDisconnect(state)
  /\ reconnects' = reconnects

\* The whole Disconnected handler, also run inline by Connect and Write:
\* the new state, then a spawned task that sends Connect after the delay.
Disconnect ==
  /\ state' = AfterDisconnect(state)
  /\ reconnects' = reconnects + 1

\* Bug variants of the flush loop: the failed entry is not pushed back; its
\* length is subtracted before the write is known to succeed; the buffer
\* is written back to front.
FlushDropFailed(c) ==
  \E k \in 0..Len(writeBuffer) :
    LET sent == SubSeq(writeBuffer, 1, k)
        broke == k < Len(writeBuffer)
    IN /\ broke => faults < MaxFaults
       /\ delivered' = delivered \o sent
       /\ writeBuffer' = SubSeq(writeBuffer, k + 2, Len(writeBuffer))
       /\ bytesTotal' = bytesTotal - SumLen(SubSeq(writeBuffer, 1, IF broke THEN k + 1 ELSE k))
       /\ sinkOk' = [sinkOk EXCEPT ![c] = ~broke]
       /\ faults' = IF broke THEN faults + 1 ELSE faults

FlushEarlySubtract(c) ==
  \E k \in 0..Len(writeBuffer) :
    LET sent == SubSeq(writeBuffer, 1, k)
        broke == k < Len(writeBuffer)
    IN /\ broke => faults < MaxFaults
       /\ delivered' = delivered \o sent
       /\ writeBuffer' = SubSeq(writeBuffer, k + 1, Len(writeBuffer))
       /\ bytesTotal' = bytesTotal - SumLen(SubSeq(writeBuffer, 1, IF broke THEN k + 1 ELSE k))
       /\ sinkOk' = [sinkOk EXCEPT ![c] = ~broke]
       /\ faults' = IF broke THEN faults + 1 ELSE faults

\* flush_buffered_writes on connection c: pop front and write until the
\* buffer is empty or a write fails; the failed entry goes back to the front.
\* k entries are written; k < Len(writeBuffer) means the sink broke at k+1.
Flush(c) ==
  \E k \in 0..Len(writeBuffer) :
    LET sent == SubSeq(writeBuffer, 1, k)
        broke == k < Len(writeBuffer)
    IN /\ broke => faults < MaxFaults
       /\ delivered' = delivered \o sent
       /\ writeBuffer' = SubSeq(writeBuffer, k + 1, Len(writeBuffer))
       /\ bytesTotal' = bytesTotal - SumLen(sent)
       /\ sinkOk' = [sinkOk EXCEPT ![c] = ~broke]
       /\ faults' = IF broke THEN faults + 1 ELSE faults

-----------------------------------------------------------------------------
(* Handlers of the client actor.  Each takes the head of the mailbox.       *)

Recv(type) ==
  /\ alive
  /\ mailbox # <<>>
  /\ Head(mailbox).type = type
  /\ mailbox' = Tail(mailbox)

\* Connect, dial or identity failed: resolve on_identified callbacks with
\* None and run the Disconnected handler inline.
ConnectFailed ==
  /\ Recv("Connect")
  /\ faults < MaxFaults
  /\ faults' = faults + 1
  /\ Disconnect
  /\ UNCHANGED <<writeBuffer, bytesTotal, ackWaiters, alive, sinkOk,
                 peerHandshake, closeSent, nextConn, unsent, handshakesLeft,
                 accepted, delivered>>

\* Connect succeeded: a new connection with handshake None replaces whatever
\* state the client was in, then the write buffer is flushed on it.
ConnectSucceeded ==
  /\ Recv("Connect")
  /\ nextConn \in Conns
  /\ nextConn' = nextConn + 1
  /\ state' = ConnectedState(nextConn)
  /\ Flush(nextConn)
  /\ UNCHANGED <<ackWaiters, alive, reconnects, peerHandshake, closeSent,
                 unsent, handshakesLeft, accepted>>

\* Write<M>: encoding failure returns Err(Encoding) and changes nothing;
\* otherwise the bytes are buffered while not connected, written when the
\* sink works, and buffered plus Disconnected run inline when it fails.
HandleWrite ==
  /\ Recv("Write")
  /\ LET m == Head(mailbox) IN
     IF ~m.encodable
     THEN UNCHANGED <<state, writeBuffer, bytesTotal, reconnects, accepted, delivered>>
     ELSE
       /\ accepted' = Append(accepted, m.payload)
       /\ \/ /\ ~IsConnected
             /\ BufferMessage(m.payload)
             /\ UNCHANGED <<state, reconnects, delivered>>
          \/ /\ IsConnected /\ sinkOk[state.conn]
             /\ delivered' = Append(delivered, m.payload)
             /\ UNCHANGED <<state, writeBuffer, bytesTotal, reconnects>>
          \/ /\ IsConnected /\ ~sinkOk[state.conn]
             /\ BufferMessage(m.payload)
             /\ Disconnect
             /\ UNCHANGED delivered
  /\ UNCHANGED <<ackWaiters, alive, sinkOk, peerHandshake, closeSent, nextConn,
                 faults, unsent, handshakesLeft>>

\* BeginHandshake: ignored unless connected; the handshake frame is written
\* with .expect("write handshake"), so a broken sink panics the actor.
HandleBeginHandshake ==
  /\ Recv("BeginHandshake")
  /\ \/ /\ ~IsConnected
        /\ UNCHANGED <<ackWaiters, alive, peerHandshake>>
     \/ /\ IsConnected /\ sinkOk[state.conn]
        /\ peerHandshake' = [peerHandshake EXCEPT ![state.conn] = "sent"]
        /\ ackWaiters' = ackWaiters + 1
        /\ UNCHANGED alive
     \/ /\ IsConnected /\ ~sinkOk[state.conn]
        /\ alive' = FALSE
        /\ UNCHANGED <<ackWaiters, peerHandshake>>
  /\ UNCHANGED <<state, writeBuffer, bytesTotal, reconnects, sinkOk, closeSent,
                 nextConn, faults, unsent, handshakesLeft, accepted, delivered>>

\* HandshakeAcknowledge: marks whatever connection is current acknowledged
\* and completes every queued callback; discarded with a warning otherwise.
HandleHandshakeAck ==
  /\ Recv("HandshakeAck")
  /\ IF IsConnected
     THEN /\ state' = [state EXCEPT !.acked = TRUE]
          /\ ackWaiters' = 0
     ELSE UNCHANGED <<state, ackWaiters>>
  /\ UNCHANGED <<writeBuffer, bytesTotal, alive, reconnects, sinkOk,
                 peerHandshake, closeSent, nextConn, faults, unsent,
                 handshakesLeft, accepted, delivered>>

HandleDisconnected ==
  /\ Recv("Disconnected")
  /\ Disconnect
  /\ UNCHANGED <<writeBuffer, bytesTotal, ackWaiters, alive, sinkOk,
                 peerHandshake, closeSent, nextConn, faults, unsent,
                 handshakesLeft, accepted, delivered>>

ActorStep ==
  \/ ConnectFailed \/ ConnectSucceeded \/ HandleWrite
  \/ HandleBeginHandshake \/ HandleHandshakeAck \/ HandleDisconnected

-----------------------------------------------------------------------------
(* The environment: callers, the reconnect task, the peer and the network. *)

\* A caller sends Write(p); whether p encodes is the codec's verdict.
CallerWrite ==
  \E p \in unsent, enc \in BOOLEAN :
    /\ unsent' = unsent \ {p}
    /\ mailbox' = Append(mailbox, [type |-> "Write", payload |-> p, encodable |-> enc])
    /\ UNCHANGED <<state, writeBuffer, bytesTotal, ackWaiters, alive, reconnects,
                   sinkOk, peerHandshake, closeSent, nextConn, faults,
                   handshakesLeft, accepted, delivered>>

CallerBeginHandshake ==
  /\ handshakesLeft > 0
  /\ handshakesLeft' = handshakesLeft - 1
  /\ mailbox' = Append(mailbox, [type |-> "BeginHandshake"])
  /\ UNCHANGED <<state, writeBuffer, bytesTotal, ackWaiters, alive, reconnects,
                 sinkOk, peerHandshake, closeSent, nextConn, faults, unsent,
                 accepted, delivered>>

\* The task spawned by Disconnected wakes after RECONNECT_DELAY and sends
\* Connect to the client.
ReconnectFires ==
  /\ reconnects > 0
  /\ reconnects' = reconnects - 1
  /\ mailbox' = Append(mailbox, [type |-> "Connect"])
  /\ UNCHANGED <<state, writeBuffer, bytesTotal, ackWaiters, alive, sinkOk,
                 peerHandshake, closeSent, nextConn, faults, unsent,
                 handshakesLeft, accepted, delivered>>

\* The peer answers a handshake frame; the receive loop of c decodes the
\* ack and sends HandshakeAcknowledge to the client.
PeerAcks(c) ==
  /\ LoopRunning(c) /\ sinkOk[c]
  /\ peerHandshake[c] = "sent"
  /\ peerHandshake' = [peerHandshake EXCEPT ![c] = "acked"]
  /\ mailbox' = Append(mailbox, [type |-> "HandshakeAck", conn |-> c])
  /\ UNCHANGED <<state, writeBuffer, bytesTotal, ackWaiters, alive, reconnects,
                 sinkOk, closeSent, nextConn, faults, unsent, handshakesLeft,
                 accepted, delivered>>

\* The TCP connection c breaks: every later write on it fails.
SinkBreaks(c) ==
  /\ LoopRunning(c) /\ sinkOk[c]
  /\ faults < MaxFaults
  /\ faults' = faults + 1
  /\ sinkOk' = [sinkOk EXCEPT ![c] = FALSE]
  /\ UNCHANGED <<state, writeBuffer, bytesTotal, ackWaiters, mailbox, alive,
                 reconnects, peerHandshake, closeSent, nextConn, unsent,
                 handshakesLeft, accepted, delivered>>

\* The receive loop of a broken connection ends and sends Disconnected.
ReceiveLoopCloses(c) ==
  /\ LoopRunning(c) /\ ~sinkOk[c] /\ ~closeSent[c]
  /\ closeSent' = [closeSent EXCEPT ![c] = TRUE]
  /\ mailbox' = Append(mailbox, [type |-> "Disconnected"])
  /\ UNCHANGED <<state, writeBuffer, bytesTotal, ackWaiters, alive, reconnects,
                 sinkOk, peerHandshake, nextConn, faults, unsent,
                 handshakesLeft, accepted, delivered>>

\* Nothing is left to happen: the actor waits on an empty mailbox (or has
\* died) and no caller, timer or connection has anything to send.
Quiescent ==
  /\ mailbox = <<>> \/ ~alive
  /\ reconnects = 0 /\ unsent = {} /\ handshakesLeft = 0
  /\ \A c \in Conns : ~ENABLED (PeerAcks(c) \/ ReceiveLoopCloses(c))
  /\ UNCHANGED vars

-----------------------------------------------------------------------------

\* RemoteClient starts Idle with no attempts; the first Connect is sent by
\* whoever creates it.
Init ==
  /\ state = IdleState(0)
  /\ writeBuffer = <<>> /\ bytesTotal = 0 /\ ackWaiters = 0
  /\ mailbox = <<[type |-> "Connect"]>>
  /\ alive = TRUE
  /\ reconnects = 0
  /\ sinkOk = [c \in Conns |-> TRUE]
  /\ peerHandshake = [c \in Conns |-> "none"]
  /\ closeSent = [c \in Conns |-> FALSE]
  /\ nextConn = 1 /\ faults = 0
  /\ unsent = Payloads /\ handshakesLeft = MaxHandshakes
  /\ accepted = <<>> /\ delivered = <<>>

Environment ==
  \/ CallerWrite \/ CallerBeginHandshake \/ ReconnectFires
  \/ \E c \in Conns : PeerAcks(c) \/ SinkBreaks(c) \/ ReceiveLoopCloses(c)

Next == ActorStep \/ Environment \/ Quiescent

\* The actor loop handles its mailbox whenever it is non-empty, the sleeping
\* reconnect task wakes, and a broken connection's receive loop ends.
Fairness ==
  /\ WF_vars(ActorStep)
  /\ WF_vars(ReconnectFires)
  /\ \A c \in Conns : WF_vars(ReceiveLoopCloses(c))

Spec == Init /\ [][Next]_vars /\ Fairness

-----------------------------------------------------------------------------
(* Properties.                                                              *)

TypeOK ==
  /\ state \in [kind : Kinds, attempts : Nat, conn : 0..MaxConns, acked : BOOLEAN]
  /\ writeBuffer \in Seq(Payloads) /\ bytesTotal \in Nat /\ ackWaiters \in Nat
  /\ mailbox \in Seq(Msg) /\ alive \in BOOLEAN /\ reconnects \in Nat
  /\ sinkOk \in [Conns -> BOOLEAN]
  /\ peerHandshake \in [Conns -> {"none", "sent", "acked"}]
  /\ closeSent \in [Conns -> BOOLEAN]
  /\ nextConn \in 1..MaxConns + 1 /\ faults \in 0..MaxFaults
  /\ unsent \in SUBSET Payloads /\ handshakesLeft \in 0..MaxHandshakes
  /\ accepted \in Seq(Payloads) /\ delivered \in Seq(Payloads)

\* No accepted write is lost, duplicated or reordered by the failure paths of
\* write and flush_buffered_writes: what the peer has read, followed by the
\* write buffer, is exactly what Write accepted, in order.
NoLossNoReorder == alive => delivered \o writeBuffer = accepted

\* write_buffer_bytes_total equals the summed length of the buffered entries
\* after every handler (buffer_message, the flush loop and its push_front).
BufferAccounting == bytesTotal = SumLen(writeBuffer)

\* A write the client accepted is eventually read by the peer, unless the
\* client actor died: reconnect retries after every failure and flushes.
EventuallyDelivered ==
  \A p \in Payloads :
    (p \in Range(accepted)) ~> (p \in Range(delivered) \/ ~alive)

\* Network faults are absorbed by the state machine (spec section 7): no
\* handler panics because a write on the socket failed.
SurvivesTransportFaults == alive

\* The client believes the handshake of its current connection acknowledged
\* only if a handshake frame was written on that very connection.
AckMatchesConnection ==
  IsConnected /\ state.acked => peerHandshake[state.conn] # "none"

=============================================================================
