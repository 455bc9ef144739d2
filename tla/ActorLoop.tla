------------------------------ MODULE ActorLoop ------------------------------
(***************************************************************************)
(* actor_loop of coerce-rt (src/coerce-rt/src/actor/lifecycle.rs): the     *)
(* task that owns an actor, runs its started hook, handles its mailbox one *)
(* message at a time, and runs its stopped hook on the way out.  Callers   *)
(* hold references (mailbox senders) and send Status, Stop or a user       *)
(* message; dropping the last reference closes the mailbox.                *)
(*                                                                         *)
(* pc is the loop's position: "starting" before started returns,          *)
(* "running" in the while-let loop, "exiting" after it, "done" at return.  *)
(***************************************************************************)
EXTENDS Naturals, Sequences, SequencesExt

CONSTANT MaxMsgs  \* bound on messages callers send

Kinds == {"Status", "Stop", "User"}
Statuses == {"Starting", "Started", "Stopping", "Stopped"}

VARIABLES
  pc,            \* position of actor_loop
  status,        \* ctx.get_status()
  mailbox,       \* the mpsc channel: Seq of [id, kind]
  open,          \* some LocalActorRef (a sender) is still alive
  sent,          \* history: every message a caller enqueued, in order
  handled,       \* history: every message msg.handle ran for, in order
  startedCalls,  \* times actor.started ran
  stoppedCalls   \* times actor.stopped ran

vars == <<pc, status, mailbox, open, sent, handled, startedCalls, stoppedCalls>>

IsStop(m) == m.kind = "Stop"

-----------------------------------------------------------------------------

Init ==
  /\ pc = "starting" /\ status = "Starting"
  /\ mailbox = <<>> /\ open = TRUE
  /\ sent = <<>> /\ handled = <<>>
  /\ startedCalls = 0 /\ stoppedCalls = 0

\* Bug variant: an aborted start falls through to the stopped hook.
StartedAbortRunsStopped ==
  /\ pc = "starting"
  /\ startedCalls' = startedCalls + 1
  /\ \E abort \in BOOLEAN :
       IF abort THEN pc' = "exiting" /\ status' = "Stopping"
                ELSE pc' = "running" /\ status' = "Started"
  /\ UNCHANGED <<mailbox, open, sent, handled, stoppedCalls>>

\* ActorHandlerContext::new(Starting); actor.started(&mut ctx).  The hook
\* may set Stopping, and then the loop returns at once without stopped;
\* otherwise the status becomes Started.
Started ==
  /\ pc = "starting"
  /\ startedCalls' = startedCalls + 1
  /\ \E abort \in BOOLEAN :
       IF abort THEN pc' = "done" /\ status' = "Stopping"
                ELSE pc' = "running" /\ status' = "Started"
  /\ UNCHANGED <<mailbox, open, sent, handled, stoppedCalls>>

\* The status after a handler ran: Status reads it, Stop sets Stopping, a
\* user handler may set Stopping through its context.
StatusAfter(m) ==
  CASE m.kind = "Status" -> {status}
    [] m.kind = "Stop"   -> {"Stopping"}
    [] m.kind = "User"   -> {status, "Stopping"}

\* One iteration of the while-let loop: receive, handle, break on Stopping.
HandleNext ==
  /\ pc = "running"
  /\ mailbox # <<>>
  /\ LET m == Head(mailbox) IN
     \E s \in StatusAfter(m) :
       /\ status' = s
       /\ handled' = Append(handled, m)
       /\ pc' = IF s = "Stopping" THEN "exiting" ELSE "running"
  /\ mailbox' = Tail(mailbox)
  /\ UNCHANGED <<open, sent, startedCalls, stoppedCalls>>

\* Bug variant: a closed channel is mistaken for an empty open one.
MailboxClosedMissed ==
  /\ pc = "running"
  /\ mailbox = <<>> /\ open
  /\ pc' = "exiting"
  /\ UNCHANGED <<status, mailbox, open, sent, handled, startedCalls, stoppedCalls>>

MailboxClosed ==
  /\ pc = "running"
  /\ mailbox = <<>> /\ ~open
  /\ pc' = "exiting"
  /\ UNCHANGED <<status, mailbox, open, sent, handled, startedCalls, stoppedCalls>>

\* Bug variant: the loop does not return after the stopped hook.
ExitNoReturn ==
  /\ pc = "exiting"
  /\ stoppedCalls' = stoppedCalls + 1
  /\ status' = "Stopped"
  /\ pc' = "exiting"
  /\ UNCHANGED <<mailbox, open, sent, handled, startedCalls>>

\* After the loop: Stopping, actor.stopped, Stopped.
Exit ==
  /\ pc = "exiting"
  /\ stoppedCalls' = stoppedCalls + 1
  /\ status' = "Stopped"
  /\ pc' = "done"
  /\ UNCHANGED <<mailbox, open, sent, handled, startedCalls>>

\* A caller holding a reference sends a message.  Once the loop has
\* returned the receiver is dropped and a send fails without enqueuing.
Send ==
  /\ open /\ pc # "done"
  /\ Len(sent) < MaxMsgs
  /\ \E k \in Kinds :
       LET m == [id |-> Len(sent) + 1, kind |-> k]
       IN /\ mailbox' = Append(mailbox, m)
          /\ sent' = Append(sent, m)
  /\ UNCHANGED <<pc, status, open, handled, startedCalls, stoppedCalls>>

\* The last LocalActorRef is dropped.
DropRefs ==
  /\ open
  /\ open' = FALSE
  /\ UNCHANGED <<pc, status, mailbox, sent, handled, startedCalls, stoppedCalls>>

\* The loop task has returned and nobody can send any more.
Finished ==
  /\ pc = "done" /\ ~open
  /\ UNCHANGED vars

Next == Started \/ HandleNext \/ MailboxClosed \/ Exit \/ Send \/ DropRefs \/ Finished

\* The executor keeps polling the loop task while it can make progress.
Spec == Init /\ [][Next]_vars /\ WF_vars(Started \/ HandleNext \/ MailboxClosed \/ Exit)

-----------------------------------------------------------------------------
(* Properties.                                                              *)

TypeOK ==
  /\ pc \in {"starting", "running", "exiting", "done"}
  /\ status \in Statuses
  /\ mailbox \in Seq([id : 1..MaxMsgs, kind : Kinds])
  /\ open \in BOOLEAN
  /\ sent \in Seq([id : 1..MaxMsgs, kind : Kinds])
  /\ handled \in Seq([id : 1..MaxMsgs, kind : Kinds])
  /\ startedCalls \in 0..1 /\ stoppedCalls \in 0..1

EventuallyStops ==
  ((~open) \/ (\E i \in DOMAIN sent : IsStop(sent[i]))) ~> (pc = "done")

\* actor_loop implements SerialActor.  The loop has started unless it is
\* still in the started hook; it has finished once the stopped hook ran;
\* it aborted when it is past the hook, Stopping, and has handled nothing
\* (a handler is the only other way to Stopping).  In particular an abort
\* in started (lifecycle.rs:51) never runs the stopped hook and never
\* handles a message.
AbstractPhase ==
  CASE pc = "starting"                          -> "new"
    [] pc = "done" /\ stoppedCalls = 1          -> "stopped"
    [] status = "Stopping" /\ handled = <<>>    -> "aborted"
    [] OTHER                                    -> "running"

Actor == INSTANCE SerialActor WITH
           phase <- AbstractPhase,
           Msg <- [id : 1..MaxMsgs, kind : Kinds],
           StopMsg <- [id : 1..MaxMsgs, kind : {"Stop"}]

ActorSpec == Actor!Spec

=============================================================================
