------------------------------- MODULE LinkConn -------------------------------
(***************************************************************************)
(* runtime/link/conn.go: one framed stream to a plugin runtime shared by   *)
(* callers that each wait for the reply with their own sequence number.    *)
(* Request registers the number, sends and waits; one goroutine reads the  *)
(* stream and hands a reply to whoever waits for it; Close and a read      *)
(* error both run shutdown, which wakes everyone.                          *)
(*                                                                         *)
(* The stream and the runtime behind it are external: frames arrive in     *)
(* order, a write blocks while the pipe is full, and the runtime may       *)
(* answer in any order, twice, late, or with numbers it was never given.   *)
(***************************************************************************)
EXTENDS Integers, Sequences, FiniteSets

CONSTANTS
  Callers,      \* goroutines that call Request
  MaxRequests,  \* bound: requests issued
  PipeSize,     \* frames the stream takes before a write blocks
  MaxStray,     \* bound: frames the runtime sends of its own accord
  Strays,       \* bound: the numbers those have
  Expiring,     \* bound: the callers whose contexts may expire
  None

ASSUME BoundsAssumption ==
  /\ MaxRequests \in Nat /\ PipeSize \in Nat \ {0} /\ MaxStray \in Nat
  /\ Expiring \subseteq Callers

Odd(n) == n % 2 = 1
Seqs == 0 .. 2 * MaxRequests + 1
Requests == {s \in Seqs : Odd(s) /\ s < 2 * MaxRequests}

ASSUME NoneAssumption == None \notin Seqs /\ None \notin {"EOF", "closed"}

\* What Request returns: the reply with a number, or an error.
Reply(s) == [kind |-> "reply", seq |-> s]
Failure(e) == [kind |-> e, seq |-> 0]

VARIABLES
  seq,        \* Conn.seq
  pending,    \* keys of Conn.pending; {} also when it is nil
  closing, closed, err, done,
  chan,       \* [Requests -> "none", "open", "full" or "closed"]
  held,       \* [Requests -> the number of the frame in the channel]
  kpc, kseq, expired, result,   \* Request of each caller
  rpc, rframe,                  \* the read loop
  cpc,                          \* Close
  waking,     \* the channels shutdown has still to close
  handled,    \* numbers of the frames given to the handler
  outbox, inbox,                \* the stream, to the runtime and from it
  open,       \* neither end has closed the stream
  owed,       \* requests the runtime has received
  stray, panic

connVars == <<seq, pending, closing, closed, err, done, chan, held, waking>>
callVars == <<kpc, kseq, expired, result>>
readVars == <<rpc, rframe, handled>>
streamVars == <<outbox, inbox, open, owed, stray>>
vars == <<connVars, callVars, readVars, cpc, streamVars, panic>>

Init ==
  /\ seq = 0 /\ pending = {} /\ closing = FALSE /\ closed = FALSE /\ err = None /\ done = FALSE
  /\ chan = [s \in Requests |-> "none"] /\ held = [s \in Requests |-> None] /\ waking = {}
  /\ kpc = [k \in Callers |-> "idle"] /\ kseq = [k \in Callers |-> None]
  /\ expired = [k \in Callers |-> FALSE] /\ result = [k \in Callers |-> Failure("none")]
  /\ rpc = "receive" /\ rframe = None /\ cpc = "idle" /\ handled = {}
  /\ outbox = <<>> /\ inbox = <<>> /\ open = TRUE /\ owed = {} /\ stray = 0
  /\ panic = FALSE

---------------------------------------------------------------------------
(* Request. *)

\* The host numbers its requests odd, the runtime its emissions even.
NumberOf(n) == n - 1

Issue(k) ==
  /\ kpc[k] = "idle" /\ seq < 2 * MaxRequests
  /\ seq' = seq + 2 /\ kseq' = [kseq EXCEPT ![k] = NumberOf(seq + 2)]
  /\ kpc' = [kpc EXCEPT ![k] = "expect"]
  /\ expired' = [expired EXCEPT ![k] = FALSE] /\ result' = [result EXCEPT ![k] = Failure("none")]
  /\ UNCHANGED <<pending, closing, closed, err, done, chan, held, waking,
                 readVars, cpc, streamVars, panic>>

\* A request on a connection that has ended fails at once.
ExpectFails(k) ==
  /\ kpc[k] = "expect" /\ closed
  /\ result' = [result EXCEPT ![k] = Failure(err)] /\ kpc' = [kpc EXCEPT ![k] = "idle"]
  /\ UNCHANGED <<connVars, kseq, expired, readVars, cpc, streamVars, panic>>

Expect(k) ==
  /\ kpc[k] = "expect" /\ ~closed
  /\ pending' = pending \cup {kseq[k]} /\ chan' = [chan EXCEPT ![kseq[k]] = "open"]
  /\ kpc' = [kpc EXCEPT ![k] = "send"]
  /\ UNCHANGED <<seq, closing, closed, err, done, held, waking, kseq, expired, result,
                 readVars, cpc, streamVars, panic>>

Leave(k, outcome) ==
  /\ result' = [result EXCEPT ![k] = outcome]
  /\ kpc' = [kpc EXCEPT ![k] = "forget"]

SendFrame(k) ==
  /\ kpc[k] = "send" /\ open /\ Len(outbox) < PipeSize
  /\ outbox' = Append(outbox, kseq[k])
  /\ kpc' = [kpc EXCEPT ![k] = "wait"]
  /\ UNCHANGED <<connVars, kseq, expired, result, readVars, cpc, inbox, open, owed, stray, panic>>

SendFails(k) ==
  /\ kpc[k] = "send" /\ ~open
  /\ Leave(k, Failure("write error"))
  /\ UNCHANGED <<connVars, kseq, expired, readVars, cpc, streamVars, panic>>

\* The select: whichever of the ready cases the scheduler picks.
TakeReply(k) ==
  /\ kpc[k] = "wait" /\ chan[kseq[k]] = "full"
  /\ Leave(k, Reply(held[kseq[k]]))
  /\ UNCHANGED <<connVars, kseq, expired, readVars, cpc, streamVars, panic>>

Woken(k) ==
  /\ kpc[k] = "wait" /\ (chan[kseq[k]] = "closed" \/ done)
  /\ Leave(k, Failure(IF err = None THEN "no error" ELSE err))
  /\ UNCHANGED <<connVars, kseq, expired, readVars, cpc, streamVars, panic>>

NoDeadline(k) == FALSE
PastDeadline(k) == expired[k]

GiveUp(k) ==
  /\ kpc[k] = "wait" /\ PastDeadline(k)
  /\ Leave(k, Failure("deadline"))
  /\ UNCHANGED <<connVars, kseq, expired, readVars, cpc, streamVars, panic>>

\* The deferred forget.
Forgotten(p, s) == p \ {s}
Forget(k) ==
  /\ kpc[k] = "forget"
  /\ pending' = Forgotten(pending, kseq[k])
  /\ kpc' = [kpc EXCEPT ![k] = "idle"]
  /\ UNCHANGED <<seq, closing, closed, err, done, chan, held, waking, kseq, expired, result,
                 readVars, cpc, streamVars, panic>>

Expire(k) ==
  /\ k \in Expiring /\ kpc[k] # "idle" /\ ~expired[k]
  /\ expired' = [expired EXCEPT ![k] = TRUE]
  /\ UNCHANGED <<connVars, kpc, kseq, result, readVars, cpc, streamVars, panic>>

---------------------------------------------------------------------------
(* The read loop. *)

\* This side has closed the stream: what is left in it is not read any more.
ClosedHere == cpc \notin {"idle", "stream"}

Receive ==
  /\ rpc = "receive" /\ inbox # <<>> /\ ~ClosedHere
  /\ rframe' = Head(inbox) /\ inbox' = Tail(inbox)
  /\ rpc' = "look up"
  /\ UNCHANGED <<connVars, callVars, handled, cpc, outbox, open, owed, stray, panic>>

ReceiveFails ==
  /\ rpc = "receive" /\ ~open /\ (inbox = <<>> \/ ClosedHere)
  /\ rpc' = "shut down"
  /\ UNCHANGED <<connVars, callVars, rframe, handled, cpc, streamVars, panic>>

\* Only an odd number answers a request of this side.
Waiting(s) == Odd(s) /\ s \in pending

\* The entry goes with the delivery.
StillPending(p, s) == p
Delivered(p, s) == p \ {s}

LookUp ==
  /\ rpc = "look up"
  /\ IF Waiting(rframe)
       THEN pending' = Delivered(pending, rframe) /\ rpc' = "deliver"
       ELSE UNCHANGED pending /\ rpc' = "stray"
  /\ UNCHANGED <<seq, closing, closed, err, done, chan, held, waking, callVars, rframe, handled,
                 cpc, streamVars, panic>>

\* A send on a closed channel panics, and one on a full channel would block.
Deliver ==
  /\ rpc = "deliver" /\ chan[rframe] # "full"
  /\ IF chan[rframe] = "closed" THEN panic' = TRUE /\ UNCHANGED <<chan, held>>
     ELSE /\ chan' = [chan EXCEPT ![rframe] = "full"] /\ held' = [held EXCEPT ![rframe] = rframe]
          /\ UNCHANGED panic
  /\ rpc' = "receive" /\ rframe' = None
  /\ UNCHANGED <<seq, pending, closing, closed, err, done, waking, callVars, handled, cpc, streamVars>>

\* abandoned: an answer to a request that was issued and is no longer waited for.
Abandoned(s) == Odd(s) /\ s < seq

Drop ==
  /\ rpc = "stray" /\ Abandoned(rframe)
  /\ rpc' = "receive" /\ rframe' = None
  /\ UNCHANGED <<connVars, callVars, handled, cpc, streamVars, panic>>

Handle ==
  /\ rpc = "stray" /\ ~Abandoned(rframe)
  /\ handled' = handled \cup {rframe}
  /\ rpc' = "receive" /\ rframe' = None
  /\ UNCHANGED <<connVars, callVars, cpc, streamVars, panic>>

---------------------------------------------------------------------------
(* Close, and shutdown on behalf of either. *)

BeginClose ==
  /\ cpc = "idle"
  /\ closing' = TRUE /\ cpc' = "stream"
  /\ UNCHANGED <<seq, pending, closed, err, done, chan, held, waking, callVars, readVars,
                 streamVars, panic>>

CloseStream ==
  /\ cpc = "stream"
  /\ open' = FALSE /\ cpc' = "shut down"
  /\ UNCHANGED <<connVars, callVars, readVars, outbox, inbox, owed, stray, panic>>

\* Why the connection ended.
NoReason(cause) == None
Reason(cause) == IF closing THEN "closed" ELSE cause

\* The locked half of shutdown: after the first call the others return.
ShutDown(cause) ==
  IF closed THEN UNCHANGED <<closed, err, pending, waking>>
  ELSE /\ closed' = TRUE /\ err' = Reason(cause)
       /\ waking' = pending /\ pending' = {}

ReaderShutsDown ==
  /\ rpc = "shut down"
  /\ ShutDown("EOF")
  /\ rpc' = IF closed THEN "stopped" ELSE "wake"
  /\ UNCHANGED <<seq, closing, done, chan, held, callVars, rframe, handled, cpc, streamVars, panic>>

CloserShutsDown ==
  /\ cpc = "shut down"
  /\ ShutDown("closed")
  /\ cpc' = IF closed THEN "stopped" ELSE "wake"
  /\ UNCHANGED <<seq, closing, done, chan, held, callVars, readVars, streamVars, panic>>

\* The unlocked half, run by whichever got there first ...
ReaderWakes == rpc = "wake"
Waking == rpc = "wake" \/ cpc = "wake"

\* ... closes one channel after the other ...
WakeOne(s) ==
  /\ Waking /\ s \in waking
  /\ chan' = [chan EXCEPT ![s] = "closed"] /\ waking' = waking \ {s}
  /\ UNCHANGED <<seq, pending, closing, closed, err, done, held, callVars, readVars, cpc,
                 streamVars, panic>>

\* ... and done at last.
WakeAll ==
  /\ Waking /\ waking = {}
  /\ panic' = (panic \/ done) /\ done' = TRUE
  /\ rpc' = (IF rpc = "wake" THEN "stopped" ELSE rpc)
  /\ cpc' = (IF cpc = "wake" THEN "stopped" ELSE cpc)
  /\ UNCHANGED <<seq, pending, closing, closed, err, chan, held, waking, callVars, rframe,
                 handled, streamVars>>

---------------------------------------------------------------------------
(* The runtime. *)

RuntimeReads ==
  /\ open /\ outbox # <<>>
  /\ owed' = owed \cup {Head(outbox)} /\ outbox' = Tail(outbox)
  /\ UNCHANGED <<connVars, callVars, readVars, cpc, inbox, open, stray, panic>>

RuntimeReplies(s) ==
  /\ open /\ s \in owed
  /\ owed' = owed \ {s} /\ inbox' = Append(inbox, s)
  /\ UNCHANGED <<connVars, callVars, readVars, cpc, outbox, open, stray, panic>>

\* An emission (an even number), a second reply, or a number out of the blue.
RuntimeStrays(s) ==
  /\ open /\ stray < MaxStray /\ s \in Strays
  /\ stray' = stray + 1 /\ inbox' = Append(inbox, s)
  /\ UNCHANGED <<connVars, callVars, readVars, cpc, outbox, open, owed, panic>>

RuntimeDies ==
  /\ open /\ open' = FALSE
  /\ UNCHANGED <<connVars, callVars, readVars, cpc, outbox, inbox, owed, stray, panic>>

CallerStep(k) ==
  \/ ExpectFails(k) \/ Expect(k) \/ SendFrame(k) \/ SendFails(k)
  \/ TakeReply(k) \/ Woken(k) \/ GiveUp(k) \/ Forget(k)

ReaderStep == Receive \/ ReceiveFails \/ LookUp \/ Deliver \/ Drop \/ Handle \/ ReaderShutsDown
Wake == WakeAll \/ \E s \in Requests : WakeOne(s)

Next ==
  \/ \E k \in Callers : Issue(k) \/ CallerStep(k) \/ Expire(k)
  \/ ReaderStep \/ BeginClose \/ CloseStream \/ CloserShutsDown \/ Wake
  \/ RuntimeReads \/ RuntimeDies \/ \E s \in Seqs : RuntimeReplies(s) \/ RuntimeStrays(s)

Spec == Init /\ [][Next]_vars

\* Every goroutine of the host runs; the runtime owes nothing, and no context need expire.
FairSpec ==
  /\ Spec
  /\ \A k \in Callers : WF_vars(CallerStep(k))
  /\ WF_vars(ReaderStep) /\ WF_vars(CloseStream) /\ WF_vars(CloserShutsDown) /\ WF_vars(Wake)

---------------------------------------------------------------------------
(* Properties. *)

Errors == {"write error", "deadline", "EOF", "closed"}

Results == [kind : Errors \cup {"reply", "no error", "none"}, seq : Seqs]

ConnType ==
  /\ seq \in Nat /\ pending \subseteq Requests /\ waking \subseteq Requests
  /\ closing \in BOOLEAN /\ closed \in BOOLEAN /\ done \in BOOLEAN /\ panic \in BOOLEAN
  /\ err \in {None, "EOF", "closed"}
  /\ chan \in [Requests -> {"none", "open", "full", "closed"}]
  /\ held \in [Requests -> Seqs \cup {None}]

CallType ==
  /\ kpc \in [Callers -> {"idle", "expect", "send", "wait", "forget"}]
  /\ kseq \in [Callers -> Requests \cup {None}] /\ expired \in [Callers -> BOOLEAN]
  /\ result \in [Callers -> Results]

ReadType ==
  /\ rpc \in {"receive", "look up", "deliver", "stray", "shut down", "wake", "stopped"}
  /\ cpc \in {"idle", "stream", "shut down", "wake", "stopped"}
  /\ rframe \in Seqs \cup {None} /\ handled \subseteq Seqs

StreamType ==
  /\ outbox \in Seq(Requests) /\ inbox \in Seq(Seqs) /\ owed \subseteq Requests
  /\ open \in BOOLEAN /\ stray \in Nat

\* Every variable has its type.
TypeOK == ConnType /\ CallType /\ ReadType /\ StreamType

\* conn.go:170: a delivery finds a channel that is neither closed by a shutdown that
\* runs meanwhile nor still full of an earlier reply: the read loop never panics and
\* never blocks.
DeliveryFits ==
  /\ ~panic
  /\ rpc = "deliver" => chan[rframe] = "open"

\* conn.go:20: whatever order the replies come in, and whatever else the runtime
\* sends, a request gets the reply with its own number or an error, never neither.
OwnReply ==
  \A k \in Callers : kpc[k] \in {"idle", "forget"} /\ kseq[k] # None =>
    result[k] = Reply(kseq[k]) \/ result[k].kind \in Errors

\* conn.go:186: the handler, for which a frame is a protocol violation or an emission,
\* never sees an answer to a request that was issued, however late it comes.
HandlerSeesStrays ==
  [][\A s \in handled' \ handled : ~Odd(s) \/ s > seq]_vars

\* A number is pending for a request that is under way, and no longer: the table does
\* not grow with requests that were given up.
NothingLeftPending ==
  \A s \in pending : \E k \in Callers : kseq[k] = s /\ kpc[k] \in {"send", "wait", "forget"}

\* conn.go:224: once the connection has ended no request waits on, context or no.
EndWakesAll == \A k \in Callers : (closed /\ kpc[k] = "wait") ~> kpc[k] # "wait"

\* conn.go:64: ctx is what bounds the wait.
ContextBoundsWait == \A k \in Callers : expired[k] ~> (kpc[k] = "idle")

\* It does as long as the runtime keeps reading: a write to a full stream looks at
\* no context.
DeadlineBoundsWait ==
  WF_vars(RuntimeReads) => ContextBoundsWait
=============================================================================
