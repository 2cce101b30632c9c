----------------------------- MODULE MessageQueue -----------------------------
(***************************************************************************)
(* The queue of messages sent while an agent is running:                   *)
(* eino/runner/message_queue.go.  Per conversation, appended by senders    *)
(* and by refused runs, emptied by the context-injection middleware at a   *)
(* model call and by a run that ends.  Each operator is one critical       *)
(* section of the queue's mutex.                                           *)
(***************************************************************************)
EXTENDS Sequences

CONSTANTS
  Conv,        \* conversations
  Text         \* contents that can be queued

VARIABLE queues

QueueTypeOK == queues \in [Conv -> Seq(Text)]

QueueInit == queues = [c \in Conv |-> <<>>]

HasPending(c) == queues[c] # <<>>

Enqueue(c, text) == queues' = [queues EXCEPT ![c] = Append(@, text)]

\* What the drain returns is queues[c] in the state before the step.
Drain(c) == queues' = [queues EXCEPT ![c] = <<>>]

QueueCleanup(c) == queues' = [queues EXCEPT ![c] = <<>>]

=============================================================================
