---------------------------- MODULE MutationQueue ----------------------------
(***************************************************************************)
(* core/plugin/mutations.go: the queue through which every host call of a  *)
(* plugin reaches the simulation tick.  Any goroutine enqueues; the tick   *)
(* alone drains, one Drain at a time, and applies what it took while       *)
(* others go on enqueueing.                                                *)
(***************************************************************************)
EXTENDS Naturals, Sequences

CONSTANTS
  Calls,     \* host calls
  MaxQueued  \* maximumQueuedCalls

ASSUME MaxQueuedAssumption == MaxQueued \in Nat

VARIABLES
  calls,     \* MutationQueue.calls
  closed,    \* MutationQueue.closed
  batch,     \* what the running Drain has still to apply
  accepted,  \* every call Enqueue took, in that order
  applied    \* every call the tick has applied, in that order

queueVars == <<calls, closed, batch, accepted, applied>>

QueueInit ==
  /\ calls = <<>> /\ batch = <<>> /\ closed = FALSE
  /\ accepted = <<>> /\ applied = <<>>

Room == ~closed /\ Len(calls) < MaxQueued

\* A refused call is reported to the plugin's log and forgotten.
Enqueue(c) ==
  /\ IF Room THEN calls' = Append(calls, c) /\ accepted' = Append(accepted, c)
             ELSE UNCHANGED <<calls, accepted>>
  /\ UNCHANGED <<closed, batch, applied>>

\* Drain swaps the slice under the lock, then applies without it.
TakesACopy ==
  /\ batch = <<>> /\ calls # <<>>
  /\ batch' = calls
  /\ UNCHANGED <<calls, closed, accepted, applied>>

Take ==
  /\ batch = <<>> /\ calls # <<>>
  /\ batch' = calls /\ calls' = <<>>
  /\ UNCHANGED <<closed, accepted, applied>>

\* A call that fails does not hold back the ones behind it.
Apply ==
  /\ batch # <<>>
  /\ applied' = Append(applied, Head(batch)) /\ batch' = Tail(batch)
  /\ UNCHANGED <<calls, closed, accepted>>

Close == closed' = TRUE /\ UNCHANGED <<calls, batch, accepted, applied>>

Drain == Take \/ Apply

QueueNext == Drain \/ Close \/ \E c \in Calls : Enqueue(c)

QueueSpec == QueueInit /\ [][QueueNext]_queueVars

---------------------------------------------------------------------------

QueueTypeOK ==
  /\ calls \in Seq(Calls) /\ batch \in Seq(Calls) /\ closed \in BOOLEAN
  /\ accepted \in Seq(Calls) /\ applied \in Seq(Calls)

\* mutations.go:49: Drain applies the calls present at its start in FIFO order.  However
\* enqueues and drains interleave, no accepted call is lost, doubled or overtaken.
Conserved == accepted = (applied \o batch) \o calls
=============================================================================
