--------------------------- MODULE RemoteRegistry ---------------------------
(***************************************************************************)
(* The RemoteRegistry actor (src/coerce-remote/src/actor/handler.rs) and   *)
(* the tasks that talk to it: the cluster worker's start sequence          *)
(* (src/coerce/src/remote/cluster/builder/worker.rs), the seed's and the   *)
(* peers' handshakes, which announce node lists (RegisterNodes), and a     *)
(* caller that lists nodes (GetNodes) and writes to them (ClientWrite).    *)
(*                                                                         *)
(* The registry handles its mailbox one message at a time; a handler,      *)
(* connect_all's dials included, is one atomic step.  A client is named by *)
(* its generation: conns[n] counts the RemoteClients ever connected to     *)
(* node n and clients[n] is the generation the registry maps n to (0 when  *)
(* none).                                                                  *)
(***************************************************************************)
EXTENDS Naturals, FiniteSets, Sequences, SequencesExt

CONSTANTS
  Self,         \* this worker's node id
  Peers,        \* remote node ids
  Seed,         \* the seed node, in Peers
  MaxFaults,    \* failed dials and failed server starts
  MaxAnnounce,  \* handshakes from peers (each carries a node list)
  MaxWrites     \* ClientWrite messages callers send

ASSUME Seed \in Peers /\ Self \notin Peers

VARIABLES
  mailbox,   \* the registry's inbox, FIFO
  context,   \* self.context is Some
  alive,     \* the registry's actor loop runs (FALSE after a panic)
  nodes,     \* self.nodes: the registered node ids
  clients,   \* self.clients: [Peers -> generation], 0 when absent
  conns,     \* [Peers -> Nat]: RemoteClients ever connected to the node
  faults,    \* faults used so far
  worker,    \* position of ClusterWorkerBuilder::start
  seedClient, \* generation of the worker's seed client, 0 before the dial
  seedNews,  \* the seed's handshake (its node list) is still to come
  announced, \* peer handshakes so far
  known,     \* the caller's last GetNodes result
  asking,    \* the caller awaits a GetNodes reply
  writes,    \* ClientWrite messages sent
  delivered, \* history: <<node, generation>> each ClientWrite went to
  dropped,   \* ClientWrite messages handled with no client for the node
  seedAddr,  \* with_seed_addr was called: self.seed_addr is Some
  broken     \* <<node, generation>> of clients whose connection has broken

vars == <<mailbox, context, alive, nodes, clients, conns, faults, worker,
          seedClient, seedNews, announced, known, asking, writes, delivered, dropped,
          seedAddr, broken>>

envVars == <<seedNews, announced, known, asking, writes, seedAddr, broken>>

Nodes == Peers \cup {Self}

\* The reply to an awaited send to the registry has come back: the message
\* was handled, or the registry died and the send failed.
Handled(m) == m \notin ToSet(mailbox)

Recv(type) ==
  /\ alive
  /\ mailbox # <<>>
  /\ Head(mailbox).type = type
  /\ mailbox' = Tail(mailbox)

-----------------------------------------------------------------------------
(* The registry's handlers.                                                 *)

\* SetContext: self.context = Some(ctx).
HandleSetContext ==
  /\ Recv("SetContext")
  /\ context' = TRUE
  /\ UNCHANGED <<alive, nodes, clients, conns, faults, worker, seedClient, delivered, dropped>>
  /\ UNCHANGED envVars

\* register_node(node): the node store records the node.
HandleRegisterNode ==
  /\ Recv("RegisterNode")
  /\ nodes' = nodes \cup {Head(mailbox).node}
  /\ UNCHANGED <<context, alive, clients, conns, faults, worker, seedClient, delivered, dropped>>
  /\ UNCHANGED envVars

\* GetNodes: the caller receives self.nodes.get_all().
HandleGetNodes ==
  /\ Recv("GetNodes")
  /\ known' = nodes
  /\ asking' = FALSE
  /\ UNCHANGED <<context, alive, nodes, clients, conns, faults, worker, seedClient, delivered, dropped>>
  /\ UNCHANGED <<seedNews, announced, writes, seedAddr, broken>>

\* RegisterClient(id, client): add_client inserts, replacing any client the
\* map held for id.
HandleRegisterClient ==
  /\ Recv("RegisterClient")
  /\ clients' = [clients EXCEPT ![Head(mailbox).node] = Head(mailbox).client]
  /\ UNCHANGED <<context, alive, nodes, conns, faults, worker, seedClient, delivered, dropped>>
  /\ UNCHANGED envVars

\* Bug variants: the Err arm's None is stored as a client; a failed dial
\* removes the client the node had.
AfterConnectAllKeepsFailed(ok, failed) ==
  [n \in Peers |-> IF n \in ok \cup failed THEN conns[n] + 1 ELSE clients[n]]

AfterConnectAllClearsFailed(ok, failed) ==
  [n \in Peers |-> IF n \in ok THEN conns[n] + 1
                   ELSE IF n \in failed THEN 0 ELSE clients[n]]

\* The clients map after connect_all: each dialled node that connected gets
\* its new client; a failed dial (None) leaves the entry alone.
AfterConnectAll(ok, failed) ==
  [n \in Peers |-> IF n \in ok THEN conns[n] + 1 ELSE clients[n]]

\* RegisterNodes(nodes): keep the nodes that are not registered, unwrap the
\* context (a panic when it is None), dial each one in turn, and add the
\* clients that connected.  Failed dials are logged and not retried.
HandleRegisterNodes ==
  /\ Recv("RegisterNodes")
  /\ IF ~context
     THEN /\ alive' = FALSE
          /\ mailbox' = <<>>
          /\ UNCHANGED <<clients, conns, faults>>
     ELSE LET unregistered == Head(mailbox).nodes \ nodes
          IN \E failed \in SUBSET unregistered :
               LET ok == unregistered \ failed IN
               /\ faults + Cardinality(failed) <= MaxFaults
               /\ faults' = faults + Cardinality(failed)
               /\ clients' = AfterConnectAll(ok, failed)
               /\ conns' = [n \in Peers |-> IF n \in ok THEN conns[n] + 1 ELSE conns[n]]
               /\ UNCHANGED alive
  /\ UNCHANGED <<context, nodes, worker, seedClient, delivered, dropped>>
  /\ UNCHANGED envVars

\* ClientWrite(id, bytes): send to the client mapped to id, discarding what
\* client.send returns; when there is none the message is logged as
\* "client not found" and dropped.
HandleClientWrite ==
  /\ Recv("ClientWrite")
  /\ LET m == Head(mailbox) IN
     IF clients[m.node] # 0
     THEN /\ delivered' = Append(delivered, <<m.node, clients[m.node]>>)
          /\ UNCHANGED dropped
     ELSE /\ dropped' = dropped \cup {m}
          /\ UNCHANGED delivered
  /\ UNCHANGED <<context, alive, nodes, clients, conns, faults, worker, seedClient>>
  /\ UNCHANGED envVars

RegistryStep ==
  \/ HandleSetContext \/ HandleRegisterNode \/ HandleGetNodes
  \/ HandleRegisterClient \/ HandleRegisterNodes \/ HandleClientWrite

-----------------------------------------------------------------------------
(* ClusterWorkerBuilder::start.  Each register_* call is an awaited send to *)
(* the registry; worker is the await the task is blocked on.               *)

RegisterNodeMsg(n) == [type |-> "RegisterNode", node |-> n]
RegisterClientMsg(n, k) == [type |-> "RegisterClient", node |-> n, client |-> k]

\* register_node(RemoteNode::new(node_id, listen_addr)).
WorkerRegisterSelf ==
  /\ worker = "start"
  /\ mailbox' = Append(mailbox, RegisterNodeMsg(Self))
  /\ worker' = "await_self"
  /\ UNCHANGED <<context, alive, nodes, clients, conns, faults, seedClient, delivered, dropped>>
  /\ UNCHANGED envVars

\* seed_addr is Some, so discover_peers dials the seed.  A failed dial hits
\* expect("failed to connect to seed server").  A connected client's receive
\* loop runs from now on and will deliver the seed's handshake.
WorkerDiscoverPeers ==
  /\ worker = "await_self" /\ Handled(RegisterNodeMsg(Self)) /\ seedAddr
  /\ \/ /\ faults < MaxFaults
        /\ faults' = faults + 1
        /\ worker' = "panicked"
        /\ UNCHANGED <<conns, seedClient, seedNews>>
     \/ /\ conns' = [conns EXCEPT ![Seed] = @ + 1]
        /\ seedClient' = conns[Seed] + 1
        /\ seedNews' = TRUE
        /\ worker' = "connected_seed"
        /\ UNCHANGED faults
  /\ UNCHANGED <<mailbox, context, alive, nodes, clients, delivered, dropped>>
  /\ UNCHANGED <<announced, known, asking, writes, seedAddr, broken>>

\* register_node(RemoteNode::new(client.node_id, seed_addr)).
WorkerRegisterSeedNode ==
  /\ worker = "connected_seed"
  /\ mailbox' = Append(mailbox, RegisterNodeMsg(Seed))
  /\ worker' = "await_seed_node"
  /\ UNCHANGED <<context, alive, nodes, clients, conns, faults, seedClient, delivered, dropped>>
  /\ UNCHANGED envVars

\* register_client(client.node_id, client).
WorkerRegisterSeedClient ==
  /\ worker = "await_seed_node" /\ Handled(RegisterNodeMsg(Seed))
  /\ mailbox' = Append(mailbox, RegisterClientMsg(Seed, seedClient))
  /\ worker' = "await_seed_client"
  /\ UNCHANGED <<context, alive, nodes, clients, conns, faults, seedClient, delivered, dropped>>
  /\ UNCHANGED envVars

\* The awaits before the server starts have returned: register_client when
\* seed_addr is Some, else register_node(self).
ReadyToServe ==
  \/ worker = "await_seed_client" /\ Handled(RegisterClientMsg(Seed, seedClient))
  \/ worker = "await_self" /\ ~seedAddr /\ Handled(RegisterNodeMsg(Self))

\* RemoteServer::start(listen_addr).expect("failed to start server").
WorkerStartServer ==
  /\ ReadyToServe
  /\ \/ /\ faults < MaxFaults
        /\ faults' = faults + 1
        /\ worker' = "panicked"
     \/ /\ worker' = "running"
        /\ UNCHANGED faults
  /\ UNCHANGED <<mailbox, context, alive, nodes, clients, conns, seedClient, delivered, dropped>>
  /\ UNCHANGED envVars

WorkerStep ==
  WorkerRegisterSelf \/ WorkerDiscoverPeers \/ WorkerRegisterSeedNode
  \/ WorkerRegisterSeedClient \/ WorkerStartServer

-----------------------------------------------------------------------------
(* The environment (outside src/): handshakes and callers.                  *)

\* The seed client's receive loop gets the seed's handshake, whose node list
\* becomes the initial peer set (spec section 6): RegisterNodes.
SeedHandshake ==
  /\ seedNews
  /\ seedNews' = FALSE
  /\ \E S \in SUBSET Peers :
       mailbox' = Append(mailbox, [type |-> "RegisterNodes", nodes |-> S])
  /\ UNCHANGED <<context, alive, nodes, clients, conns, faults, worker, seedClient, delivered, dropped>>
  /\ UNCHANGED <<announced, known, asking, writes, seedAddr, broken>>

\* A peer's handshake to the running server carries its node list.
PeerHandshake ==
  /\ worker = "running" /\ announced < MaxAnnounce
  /\ announced' = announced + 1
  /\ \E S \in SUBSET Peers :
       mailbox' = Append(mailbox, [type |-> "RegisterNodes", nodes |-> S])
  /\ UNCHANGED <<context, alive, nodes, clients, conns, faults, worker, seedClient, delivered, dropped>>
  /\ UNCHANGED <<seedNews, known, asking, writes, seedAddr, broken>>

\* The connection under a mapped client breaks (the peer went away).  The
\* registry is not told: its client stays in self.clients.
ConnectionBreaks ==
  /\ faults < MaxFaults
  /\ \E n \in Peers :
       /\ clients[n] # 0 /\ <<n, clients[n]>> \notin broken
       /\ broken' = broken \cup {<<n, clients[n]>>}
  /\ faults' = faults + 1
  /\ UNCHANGED <<mailbox, context, alive, nodes, clients, conns, worker, seedClient, delivered, dropped>>
  /\ UNCHANGED <<seedNews, announced, known, asking, writes, seedAddr>>

\* A caller asks the registry for its nodes.
CallerGetNodes ==
  /\ ~asking
  /\ asking' = TRUE
  /\ mailbox' = Append(mailbox, [type |-> "GetNodes"])
  /\ UNCHANGED <<context, alive, nodes, clients, conns, faults, worker, seedClient, delivered, dropped>>
  /\ UNCHANGED <<seedNews, announced, known, writes, seedAddr, broken>>

\* A caller sends ClientWrite to a remote node.  The message records, for
\* the properties, whether the caller's last GetNodes listed the node and
\* whether the registry held a client for it when it was sent.
CallerClientWrite ==
  /\ writes < MaxWrites
  /\ writes' = writes + 1
  /\ \E n \in Peers :
       mailbox' = Append(mailbox, [type |-> "ClientWrite", node |-> n, id |-> writes + 1,
                                   listed |-> n \in known, registered |-> clients[n] # 0])
  /\ UNCHANGED <<context, alive, nodes, clients, conns, faults, worker, seedClient, delivered, dropped>>
  /\ UNCHANGED <<seedNews, announced, known, asking, seedAddr, broken>>

\* Nothing is left to do: the worker has stopped and the registry is idle.
Quiescent ==
  /\ worker \in {"running", "panicked"}
  /\ mailbox = <<>> \/ ~alive
  /\ UNCHANGED vars

-----------------------------------------------------------------------------

\* The actor system is built first: its builder (not under src/) spawns the
\* registry and sends it SetContext, so SetContext is the first message.  ClusterWorkerBuilder::new then holds the system.
Init ==
  /\ mailbox = <<[type |-> "SetContext"]>>
  /\ context = FALSE /\ alive = TRUE
  /\ nodes = {}
  /\ clients = [n \in Peers |-> 0] /\ conns = [n \in Peers |-> 0]
  /\ faults = 0
  /\ worker = "start" /\ seedClient = 0
  /\ seedNews = FALSE /\ announced = 0
  /\ known = {} /\ asking = FALSE /\ writes = 0
  /\ delivered = <<>> /\ dropped = {}
  /\ seedAddr \in BOOLEAN /\ broken = {}

Next ==
  \/ RegistryStep \/ WorkerStep
  \/ SeedHandshake \/ PeerHandshake \/ CallerGetNodes \/ CallerClientWrite
  \/ ConnectionBreaks
  \/ Quiescent

\* The registry's loop and the worker task are polled while they can run.
Spec == Init /\ [][Next]_vars /\ WF_vars(RegistryStep) /\ WF_vars(WorkerStep)

-----------------------------------------------------------------------------
(* Properties.                                                              *)

Msgs ==
  [type : {"SetContext", "GetNodes"}]
  \cup [type : {"RegisterNode"}, node : Nodes]
  \cup [type : {"RegisterClient"}, node : Peers, client : Nat]
  \cup [type : {"RegisterNodes"}, nodes : SUBSET Peers]
  \cup [type : {"ClientWrite"}, node : Peers, id : 1..MaxWrites,
        listed : BOOLEAN, registered : BOOLEAN]

TypeOK ==
  /\ mailbox \in Seq(Msgs)
  /\ context \in BOOLEAN /\ alive \in BOOLEAN
  /\ nodes \in SUBSET Nodes
  /\ clients \in [Peers -> Nat] /\ conns \in [Peers -> Nat]
  /\ \A n \in Peers : clients[n] <= conns[n]
  /\ faults \in 0..MaxFaults
  /\ worker \in {"start", "await_self", "connected_seed", "await_seed_node",
                 "await_seed_client",
                 "running", "panicked"}
  /\ delivered \in Seq(Peers \X Nat)
  /\ seedAddr \in BOOLEAN /\ broken \subseteq Peers \X Nat

\* A ClientWrite sent while the registry held a client for its node is
\* never dropped as "client not found": no later RegisterNodes, redial or
\* failed dial takes the client away.
RegisteredWriteNotDropped == \A m \in dropped : ~m.registered

\* Every remote node is connected at most once: RegisterNodes only dials
\* nodes that have no client yet, so no second RemoteClient (with its own
\* connection, receive loop and reconnect tasks) is ever made for a node.
NoDuplicateClient == \A n \in Peers : conns[n] <= 1

\* A ClientWrite to a node that GetNodes listed is not dropped as "client
\* not found" (handler.rs:127): a listed node has a client.
ListedWriteNotDropped == \A m \in dropped : ~m.listed

=============================================================================
