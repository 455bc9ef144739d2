---------------------------- MODULE SerialActor ----------------------------
(***************************************************************************)
(* What an actor promises its callers (spec section 4.1), independent of   *)
(* how actor_loop is written: it starts or aborts; while it runs it        *)
(* handles the messages sent to it one by one in send order; it handles    *)
(* nothing after a Stop; it finishes once, and an actor that aborted never *)
(* handles anything and never finishes.                                    *)
(***************************************************************************)
EXTENDS Naturals, Sequences

CONSTANTS
  Msg,      \* the messages callers may send
  StopMsg   \* the Stop messages among them

VARIABLES
  phase,    \* "new", "running", "stopped" (stopped hook ran) or "aborted"
  sent,     \* messages enqueued, in order
  handled,  \* messages handled, in order
  open      \* callers can still send

avars == <<phase, sent, handled, open>>

Init ==
  /\ phase = "new" /\ sent = <<>> /\ handled = <<>> /\ open = TRUE

Send ==
  /\ open /\ phase \in {"new", "running"}
  /\ \E m \in Msg : sent' = Append(sent, m)
  /\ UNCHANGED <<phase, handled, open>>

Close ==
  /\ open /\ open' = FALSE
  /\ UNCHANGED <<phase, sent, handled>>

Start ==
  /\ phase = "new" /\ phase' = "running"
  /\ UNCHANGED <<sent, handled, open>>

Abort ==
  /\ phase = "new" /\ phase' = "aborted"
  /\ UNCHANGED <<sent, handled, open>>

\* The next message in send order is handled, unless a Stop was.
Handle ==
  /\ phase = "running"
  /\ Len(handled) < Len(sent)
  /\ handled = <<>> \/ handled[Len(handled)] \notin StopMsg
  /\ handled' = Append(handled, sent[Len(handled) + 1])
  /\ UNCHANGED <<phase, sent, open>>

Finish ==
  /\ phase = "running" /\ phase' = "stopped"
  /\ UNCHANGED <<sent, handled, open>>

Next == Send \/ Close \/ Start \/ Abort \/ Handle \/ Finish

Spec == Init /\ [][Next]_avars

=============================================================================
