---------------------------- MODULE RemoteHandler ----------------------------
(***************************************************************************)
(* The RemoteHandler actor (src/coerce-remote/src/actor/handler.rs): the   *)
(* table of handler names (handler_types, handlers) and the table of       *)
(* requests awaiting a remote result (requests).  Around it:               *)
(*   - requests i \in Ids: resolve the handler name of the message type    *)
(*     (HandlerName), store the request (PushRequest) and, once that send  *)
(*     returned, write a Message frame with correlation i to the peer;     *)
(*   - the peer, which answers a Message with a Result frame or loses it;  *)
(*   - the receive loop, which turns a Result into PopRequest and          *)
(*     completes the request it gets back, and turns an incoming Message   *)
(*     into GetHandler to find the handler to run.                         *)
(* A uuid is an id; a request is identified with its correlation id.       *)
(***************************************************************************)
EXTENDS Naturals, FiniteSets, Sequences, SequencesExt

CONSTANTS
  Types,        \* message types <A, M> callers send remotely
  Named,        \* types registered at startup: in handler_types and handlers
  MaxRequests,  \* requests made; their ids are 1..MaxRequests
  MaxIncoming,  \* Message frames the peer sends to this node
  MaxLoss       \* Result frames lost on the way back

ASSUME Named \subseteq Types

Ids == 1..MaxRequests

VARIABLES
  mailbox,    \* the RemoteHandler's inbox, FIFO
  requests,   \* DOMAIN of self.requests
  rpc,        \* [Ids -> position of request i]
  nameReply,  \* [Ids -> reply to request i's HandlerName: Some, None, or none yet]
  rtype,      \* [Ids -> Types]: the type request i sends
  inflight,   \* Message frames the peer holds, by correlation id
  lost,       \* requests whose Message or Result frame was lost
  orphans,    \* Results whose PopRequest returned None
  incoming,   \* Message frames the peer sent to this node
  dispatched  \* history: <<name, handler found>> for each GetHandler

vars == <<mailbox, requests, rpc, nameReply, rtype, inflight, lost, orphans, incoming, dispatched>>

Recv(type) ==
  /\ mailbox # <<>>
  /\ Head(mailbox).type = type
  /\ mailbox' = Tail(mailbox)

PushMsg(i) == [type |-> "PushRequest", id |-> i]

-----------------------------------------------------------------------------
(* The RemoteHandler's handlers.                                            *)

\* HandlerName<A, M>: handler_types.get(marker.id()).map(clone) is the
\* reply: Some(name) for a registered type, None otherwise.
HandleHandlerName ==
  /\ Recv("HandlerName")
  /\ LET i == Head(mailbox).id IN
     nameReply' = [nameReply EXCEPT ![i] = IF rtype[i] \in Named THEN "Some" ELSE "None"]
  /\ UNCHANGED <<requests, rpc, rtype, inflight, lost, orphans, incoming, dispatched>>

\* PushRequest(id, request): requests.insert(id, request).
HandlePushRequest ==
  /\ Recv("PushRequest")
  /\ requests' = requests \cup {Head(mailbox).id}
  /\ UNCHANGED <<rpc, nameReply, rtype, inflight, lost, orphans, incoming, dispatched>>

\* Bug variant: the entry is read and not removed.
HandlePopRequestNoRemove ==
  /\ Recv("PopRequest")
  /\ LET i == Head(mailbox).id IN
     IF i \in requests
     THEN /\ rpc' = [rpc EXCEPT ![i] = "done"]
          /\ UNCHANGED <<requests, orphans>>
     ELSE /\ orphans' = orphans + 1
          /\ UNCHANGED <<requests, rpc>>
  /\ UNCHANGED <<nameReply, rtype, inflight, lost, incoming, dispatched>>

\* PopRequest(id): requests.remove(id).  The receive loop completes the
\* request it gets back with the result; a None drops the result.
HandlePopRequest ==
  /\ Recv("PopRequest")
  /\ LET i == Head(mailbox).id IN
     IF i \in requests
     THEN /\ requests' = requests \ {i}
          /\ rpc' = [rpc EXCEPT ![i] = "done"]
          /\ UNCHANGED orphans
     ELSE /\ orphans' = orphans + 1
          /\ UNCHANGED <<requests, rpc>>
  /\ UNCHANGED <<nameReply, rtype, inflight, lost, incoming, dispatched>>

\* GetHandler(name): handlers.get(name) mapped to a fresh boxed handler.
HandleGetHandler ==
  /\ Recv("GetHandler")
  /\ LET t == Head(mailbox).name IN
     dispatched' = Append(dispatched, <<t, t \in Named>>)
  /\ UNCHANGED <<requests, rpc, nameReply, rtype, inflight, lost, orphans, incoming>>

HandlerStep ==
  HandleHandlerName \/ HandlePushRequest \/ HandlePopRequest \/ HandleGetHandler

-----------------------------------------------------------------------------
(* A remote request (outside src/: RemoteActorSystem's send path).          *)

\* A caller sends a message of type t remotely: first the handler name.
RequestBegins(i) ==
  /\ rpc[i] = "idle"
  /\ \E t \in Types : rtype' = [rtype EXCEPT ![i] = t]
  /\ rpc' = [rpc EXCEPT ![i] = "naming"]
  /\ mailbox' = Append(mailbox, [type |-> "HandlerName", id |-> i])
  /\ UNCHANGED <<nameReply, requests, inflight, lost, orphans, incoming, dispatched>>

\* Bug variant: a None reply never wakes the requester up.
RequestNamedNoneHangs(i) ==
  /\ rpc[i] = "naming" /\ nameReply[i] = "Some"
  /\ rpc' = [rpc EXCEPT ![i] = "named"]
  /\ nameReply' = [nameReply EXCEPT ![i] = "Awaited"]
  /\ UNCHANGED <<mailbox, requests, rtype, inflight, lost, orphans, incoming, dispatched>>

\* The HandlerName reply arrives: with a name the request goes on, with
\* None it fails at once.
RequestNamed(i) ==
  /\ rpc[i] = "naming" /\ nameReply[i] # "Awaited"
  /\ rpc' = [rpc EXCEPT ![i] = IF nameReply[i] = "Some" THEN "named" ELSE "failed"]
  /\ nameReply' = [nameReply EXCEPT ![i] = "Awaited"]
  /\ UNCHANGED <<mailbox, requests, rtype, inflight, lost, orphans, incoming, dispatched>>

\* The name is known: push the request, awaiting the send.
RequestPushes(i) ==
  /\ rpc[i] = "named"
  /\ rpc' = [rpc EXCEPT ![i] = "pushing"]
  /\ mailbox' = Append(mailbox, PushMsg(i))
  /\ UNCHANGED <<nameReply, requests, rtype, inflight, lost, orphans, incoming, dispatched>>

\* The push returned: write the Message frame with correlation i.
RequestWrites(i) ==
  /\ rpc[i] = "pushing" /\ PushMsg(i) \notin ToSet(mailbox)
  /\ rpc' = [rpc EXCEPT ![i] = "sent"]
  /\ inflight' = inflight \cup {i}
  /\ UNCHANGED <<nameReply, mailbox, requests, rtype, lost, orphans, incoming, dispatched>>

(* The peer and this node's receive loop.                                   *)

\* The peer handles Message i and its Result frame comes back; the receive
\* loop sends PopRequest(i).
PeerAnswers(i) ==
  /\ i \in inflight
  /\ inflight' = inflight \ {i}
  /\ mailbox' = Append(mailbox, [type |-> "PopRequest", id |-> i])
  /\ UNCHANGED <<requests, rpc, nameReply, rtype, lost, orphans, incoming, dispatched>>

\* The connection breaks and Message i or its Result is gone.
PeerLoses(i) ==
  /\ i \in inflight /\ Cardinality(lost) < MaxLoss
  /\ inflight' = inflight \ {i}
  /\ lost' = lost \cup {i}
  /\ UNCHANGED <<mailbox, requests, rpc, nameReply, rtype, orphans, incoming, dispatched>>

\* A Message frame from the peer: the receive loop looks its handler up.
PeerSendsMessage ==
  /\ incoming < MaxIncoming
  /\ incoming' = incoming + 1
  /\ \E t \in Types : mailbox' = Append(mailbox, [type |-> "GetHandler", name |-> t])
  /\ UNCHANGED <<requests, rpc, nameReply, rtype, inflight, lost, orphans, dispatched>>

Quiescent ==
  /\ mailbox = <<>> /\ inflight = {}
  /\ \A i \in Ids : rpc[i] \in {"idle", "sent", "done", "failed"}
  /\ UNCHANGED vars

-----------------------------------------------------------------------------

\* RemoteHandler::new: the tables are built at startup, requests is empty.
Init ==
  /\ mailbox = <<>>
  /\ requests = {}
  /\ rpc = [i \in Ids |-> "idle"]
  /\ nameReply = [i \in Ids |-> "Awaited"]
  /\ rtype = [i \in Ids |-> CHOOSE t \in Types : TRUE]
  /\ inflight = {} /\ lost = {} /\ orphans = 0
  /\ incoming = 0 /\ dispatched = <<>>

Next ==
  \/ HandlerStep
  \/ \E i \in Ids : \/ RequestBegins(i) \/ RequestNamed(i) \/ RequestPushes(i) \/ RequestWrites(i)
                   \/ PeerAnswers(i) \/ PeerLoses(i)
  \/ PeerSendsMessage
  \/ Quiescent

\* The actor, the requesting tasks and the peer's handlers run when they
\* can; callers, lost frames and incoming messages get no fairness.
Spec ==
  /\ Init /\ [][Next]_vars
  /\ WF_vars(HandlerStep)
  /\ \A i \in Ids : WF_vars(RequestNamed(i)) /\ WF_vars(RequestPushes(i)) /\ WF_vars(RequestWrites(i))
                  /\ WF_vars(PeerAnswers(i))

-----------------------------------------------------------------------------
(* Properties.                                                              *)

\* The pending table holds exactly the requests whose PushRequest was
\* handled and whose result has not come back: PopRequest removes what it
\* returns, so a completed request leaves no entry behind.
PendingTableExact ==
  \A i \in Ids :
    LET pushed == \/ rpc[i] = "sent"
                  \/ rpc[i] = "pushing" /\ PushMsg(i) \notin ToSet(mailbox)
    IN (i \in requests) <=> pushed

\* Every request a caller starts ends unless its frame was lost: it
\* completes with its result, or it fails because its type has no
\* registered handler name.
EveryRequestEndsUnlessLost ==
  \A i \in Ids : (rpc[i] = "naming") ~> (rpc[i] \in {"done", "failed"} \/ i \in lost)

\* Every request a caller starts ends, lost frames included: the contract is
\* at-most-once with explicit failure (spec section 1), so a request whose
\* result never comes back must fail rather than wait, and its entry in
\* the pending table must go.
EveryRequestEnds ==
  \A i \in Ids : (rpc[i] = "naming") ~> (rpc[i] \in {"done", "failed"})

=============================================================================
