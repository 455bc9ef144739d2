--------------------------- MODULE SingletonProxy ---------------------------
(***************************************************************************)
(* The cluster singleton Proxy actor (src/coerce/src/remote/cluster/       *)
(* singleton/proxy/mod.rs) together with the singleton instances it fronts *)
(* and the manager that starts and stops them.  The proxy is Buffered with *)
(* a request queue or Active with an actor_ref; its mailbox carries        *)
(* requests from callers and SingletonStarted / SingletonStopping from the *)
(* manager.  A request routed to a singleton lands in that singleton's     *)
(* inbox.  Stopping an instance queues a Stop behind what it already has; *)
(* its actor loop handles the requests ahead of the Stop, breaks on it and *)
(* drops whatever was queued after it.                                     *)
(***************************************************************************)
EXTENDS Naturals, Sequences, SequencesExt

CONSTANTS
  Requests,  \* requests callers send through the proxy, each sent once
  Refs       \* singleton instances (ActorRef<A>) the manager may start

NoRef == 0
ASSUME NoRef \notin Refs

\* The Stop message that ends an instance's actor loop.
StopMsg == "Stop"
ASSUME StopMsg \notin Requests

VARIABLES
  proxy,      \* ProxyState: [kind, queue, ref]
  mailbox,    \* the proxy's inbox, FIFO
  inbox,      \* [Refs -> Seq(Requests \cup {StopMsg})]: an instance's mailbox
  phase,      \* [Refs -> {"unborn","running","stopping","stopped"}]
  unsent,     \* requests no caller has sent yet
  accepted,   \* history: requests the proxy took off its mailbox, in order
  routed,     \* history: requests the proxy handed to a singleton, in order
  served      \* history: <<request, ref>> a singleton instance handled

vars == <<proxy, mailbox, inbox, phase, unsent, accepted, routed, served>>

Live == {r \in Refs : phase[r] \in {"running", "stopping"}}

\* ActorRef::send to instance r: the requests reach its mailbox while its
\* actor loop lives; a send to a stopped actor fails and the request is gone.
SendTo(r, reqs) ==
  inbox' = [inbox EXCEPT ![r] = IF r \in Live THEN @ \o reqs ELSE @]

BufferedState(q) == [kind |-> "Buffered", queue |-> q, ref |-> NoRef]
ActiveState(r) == [kind |-> "Active", queue |-> <<>>, ref |-> r]

\* ProxyState::is_active.
IsActive == proxy.kind = "Active"

-----------------------------------------------------------------------------
(* The proxy's handlers.                                                    *)

Recv(type) ==
  /\ mailbox # <<>>
  /\ Head(mailbox).type = type
  /\ mailbox' = Tail(mailbox)

\* Buffered::send (proxy/send.rs): a request is queued while Buffered and
\* sent straight to actor_ref while Active.
HandleRequest ==
  /\ Recv("Request")
  /\ LET q == Head(mailbox).req IN
     /\ accepted' = Append(accepted, q)
     /\ IF proxy.kind = "Buffered"
        THEN /\ proxy' = [proxy EXCEPT !.queue = Append(@, q)]
             /\ UNCHANGED <<inbox, routed>>
        ELSE /\ SendTo(proxy.ref, <<q>>)
             /\ routed' = Append(routed, q)
             /\ UNCHANGED proxy
  /\ UNCHANGED <<phase, unsent, served>>

\* Bug variants: the queue is replayed back to front; it is iterated
\* without being popped; the proxy stays Buffered after the drain.
HandleSingletonStartedLifo ==
  /\ Recv("Started")
  /\ LET r == Head(mailbox).ref
         drained == IF proxy.kind = "Buffered" THEN Reverse(proxy.queue) ELSE <<>>
     IN /\ SendTo(r, drained)
        /\ routed' = routed \o drained
        /\ proxy' = ActiveState(r)
  /\ UNCHANGED <<phase, unsent, accepted, served>>

HandleSingletonStartedNoPop ==
  /\ Recv("Started")
  /\ LET r == Head(mailbox).ref
         drained == IF proxy.kind = "Buffered" THEN proxy.queue ELSE <<>>
     IN /\ SendTo(r, drained)
        /\ routed' = routed \o drained
        /\ proxy' = [proxy EXCEPT !.kind = "Active", !.ref = r]
  /\ UNCHANGED <<phase, unsent, accepted, served>>

HandleSingletonStartedStayBuffered ==
  /\ Recv("Started")
  /\ LET r == Head(mailbox).ref
         drained == IF proxy.kind = "Buffered" THEN proxy.queue ELSE <<>>
     IN /\ SendTo(r, drained)
        /\ routed' = routed \o drained
        /\ proxy' = BufferedState(<<>>)
  /\ UNCHANGED <<phase, unsent, accepted, served>>

\* SingletonStarted: when Buffered, pop_front every queued request and send
\* it to the new actor_ref; in any state, become Active on that ref.
HandleSingletonStarted ==
  /\ Recv("Started")
  /\ LET r == Head(mailbox).ref
         drained == IF proxy.kind = "Buffered" THEN proxy.queue ELSE <<>>
     IN /\ SendTo(r, drained)
        /\ routed' = routed \o drained
        /\ proxy' = ActiveState(r)
  /\ UNCHANGED <<phase, unsent, accepted, served>>

\* SingletonStopping: an Active proxy goes back to Buffered with an empty
\* queue; a Buffered one keeps its queue.
HandleSingletonStopping ==
  /\ Recv("Stopping")
  /\ proxy' = IF IsActive THEN BufferedState(<<>>) ELSE proxy
  /\ UNCHANGED <<inbox, phase, unsent, accepted, routed, served>>

-----------------------------------------------------------------------------
(* Callers, the singleton instances and their manager (outside src/).       *)

CallerSends ==
  \E q \in unsent :
    /\ unsent' = unsent \ {q}
    /\ mailbox' = Append(mailbox, [type |-> "Request", req |-> q])
    /\ UNCHANGED <<proxy, inbox, phase, accepted, routed, served>>


\* The manager starts a fresh instance when none is live and tells the proxy.
StartSingleton(r) ==
  /\ phase[r] = "unborn" /\ Live = {}
  /\ phase' = [phase EXCEPT ![r] = "running"]
  /\ mailbox' = Append(mailbox, [type |-> "Started", ref |-> r])
  /\ UNCHANGED <<proxy, inbox, unsent, accepted, routed, served>>

\* The manager stops the running instance, as long as a successor is left
\* to start: it sends the instance a Stop and tells the proxy it is stopping.
BeginStop(r) ==
  /\ phase[r] = "running"
  /\ \E s \in Refs : phase[s] = "unborn"
  /\ phase' = [phase EXCEPT ![r] = "stopping"]
  /\ inbox' = [inbox EXCEPT ![r] = Append(@, StopMsg)]
  /\ mailbox' = Append(mailbox, [type |-> "Stopping"])
  /\ UNCHANGED <<proxy, unsent, accepted, routed, served>>

\* actor_loop receives the Stop: the handler sets the status Stopping, the
\* loop breaks, stopped runs, and the receiver, with every message still
\* queued behind the Stop, is dropped.
FinishStop(r) ==
  /\ phase[r] = "stopping"
  /\ inbox[r] # <<>> /\ Head(inbox[r]) = StopMsg
  /\ phase' = [phase EXCEPT ![r] = "stopped"]
  /\ inbox' = [inbox EXCEPT ![r] = <<>>]
  /\ UNCHANGED <<proxy, mailbox, unsent, accepted, routed, served>>

\* actor_loop receives a request and handles it; the status stays Started.
SingletonHandles(r) ==
  /\ r \in Live /\ inbox[r] # <<>> /\ Head(inbox[r]) # StopMsg
  /\ served' = Append(served, <<Head(inbox[r]), r>>)
  /\ inbox' = [inbox EXCEPT ![r] = Tail(@)]
  /\ UNCHANGED <<proxy, mailbox, phase, unsent, accepted, routed>>

Quiescent ==
  /\ mailbox = <<>> /\ unsent = {}
  /\ \A r \in Refs : inbox[r] = <<>> /\ phase[r] # "stopping"
  /\ UNCHANGED vars

-----------------------------------------------------------------------------

\* Proxy::new starts Buffered with an empty queue.
Init ==
  /\ proxy = BufferedState(<<>>)
  /\ mailbox = <<>>
  /\ inbox = [r \in Refs |-> <<>>]
  /\ phase = [r \in Refs |-> "unborn"]
  /\ unsent = Requests
  /\ accepted = <<>> /\ routed = <<>> /\ served = <<>>

ProxyStep == HandleRequest \/ HandleSingletonStarted \/ HandleSingletonStopping

Next ==
  \/ ProxyStep \/ CallerSends
  \/ \E r \in Refs : StartSingleton(r) \/ BeginStop(r) \/ FinishStop(r)
                     \/ SingletonHandles(r)
  \/ Quiescent

\* Actor loops handle their mailboxes; the manager keeps a singleton
\* running (it starts one whenever none is live) and completes stops.
Fairness ==
  /\ WF_vars(ProxyStep)
  /\ \A r \in Refs : WF_vars(StartSingleton(r)) /\ WF_vars(FinishStop(r))
                     /\ WF_vars(SingletonHandles(r))

Spec == Init /\ [][Next]_vars /\ Fairness

-----------------------------------------------------------------------------
(* Properties.                                                              *)

TypeOK ==
  /\ \/ proxy.queue \in Seq(Requests) /\ proxy = BufferedState(proxy.queue)
     \/ \E r \in Refs : proxy = ActiveState(r)
  /\ mailbox \in Seq([type : {"Request"}, req : Requests]
                     \cup [type : {"Started"}, ref : Refs]
                     \cup [type : {"Stopping"}])
  /\ inbox \in [Refs -> Seq(Requests \cup {StopMsg})]
  /\ phase \in [Refs -> {"unborn", "running", "stopping", "stopped"}]
  /\ unsent \in SUBSET Requests
  /\ accepted \in Seq(Requests) /\ routed \in Seq(Requests)
  /\ served \in Seq(Requests \X Refs)

\* The proxy neither drops nor reorders: what it handed to singletons,
\* followed by its queue, is everything it accepted in arrival order, across
\* every Buffered -> Active -> Buffered episode (spec section 8, property 6).
ProxyPreservesOrder == routed \o proxy.queue = accepted

\* Every request the proxy accepts is eventually handed to a singleton
\* instance, however often the singleton stops and restarts.
EventuallyRouted ==
  \A q \in Requests : (q \in ToSet(accepted)) ~> (q \in ToSet(routed))

\* No request is lost between proxy and singleton: every request the proxy
\* routed is handled by some instance or still waits in a live inbox.
NoRoutedRequestLost ==
  \A i \in 1..Len(routed) :
    \/ \E j \in 1..Len(served) : served[j][1] = routed[i]
    \/ \E r \in Live : routed[i] \in ToSet(inbox[r])

=============================================================================
