---------------------------- MODULE LinkConnProofs ----------------------------
(***************************************************************************)
(* Theorems about LinkConn, for any callers, any number of requests, any   *)
(* capacity of the stream and whatever the runtime sends.                  *)
(***************************************************************************)
EXTENDS LinkConn, TLAPS

USE DEF connVars, callVars, readVars, streamVars

---------------------------------------------------------------------------
(* The inductive invariant. *)

\* A number is issued once, and its channel made once.
NumbersOnce ==
  /\ seq % 2 = 0
  /\ \A k \in Callers :
       /\ kpc[k] # "idle" => kseq[k] \in Requests
       /\ kseq[k] \in Requests => kseq[k] < seq
       /\ kpc[k] = "expect" => chan[kseq[k]] = "none"
  /\ \A j, k \in Callers :
       j # k /\ kpc[j] = "expect" /\ kpc[k] = "expect" => kseq[j] # kseq[k]
  /\ \A s \in Requests : s > seq => chan[s] = "none"

\* Whoever takes a number out of the table owns its channel: the read loop the one it
\* delivers to, the shutdown those it has still to close.
OneOwner ==
  /\ \A s \in pending \cup waking : chan[s] = "open"
  /\ rpc \in {"look up", "deliver", "stray"} => rframe \in Seqs
  /\ rpc = "deliver" =>
       rframe \in Requests /\ chan[rframe] = "open" /\ rframe \notin pending \cup waking
  /\ \A s \in Requests : chan[s] = "full" => held[s] = s

\* One shutdown, the read loop's or Close's, wakes the callers, and once.
EndsOnce ==
  /\ closed => pending = {} /\ err \in {"EOF", "closed"}
  /\ ~closed => waking = {} /\ ~done /\ rpc # "wake" /\ cpc # "wake"
  /\ done => waking = {} /\ rpc # "wake" /\ cpc # "wake"
  /\ ~(rpc = "wake" /\ cpc = "wake")
  /\ \A s \in Requests : chan[s] = "closed" => closed
  /\ ~panic

IInv == TypeOK /\ NumbersOnce /\ OneOwner /\ EndsOnce /\ OwnReply /\ NothingLeftPending

---------------------------------------------------------------------------
(* What the helpers return. *)

\* Counting on from an even number, the next request's is odd and in range.
LEMMA NextNumber ==
  ASSUME NEW n \in Nat, n % 2 = 0, n < 2 * MaxRequests
  PROVE  n + 2 \in Nat /\ (n + 2) % 2 = 0 /\ NumberOf(n + 2) = n + 1 /\ n + 1 \in Requests
<1>1. MaxRequests \in Nat BY BoundsAssumption
<1>2. (n + 2) % 2 = 0 /\ (n + 1) % 2 = 1 OBVIOUS
<1>3. n + 1 < 2 * MaxRequests BY <1>1
<1> QED BY <1>1, <1>2, <1>3 DEF NumberOf, Requests, Seqs, Odd

\* What a request may return.
LEMMA ResultType ==
  /\ Requests \subseteq Seqs /\ Seqs \subseteq Nat
  /\ \A e \in Errors \cup {"reply", "no error", "none"} : Failure(e) \in Results
  /\ \A s \in Seqs : Reply(s) \in Results
<1>1. 0 \in Seqs /\ Seqs \subseteq Nat BY BoundsAssumption DEF Seqs
<1> QED BY <1>1 DEF Requests, Failure, Reply, Results

\* What the read loop gets off the stream.
LEMMA FrameType ==
  ASSUME TypeOK, Receive
  PROVE  rframe' \in Seqs /\ inbox' \in Seq(Seqs)
<1>1. inbox \in Seq(Seqs) /\ inbox # <<>> BY DEF TypeOK, StreamType, Receive
<1>2. Head(inbox) \in Seqs /\ Tail(inbox) \in Seq(Seqs) BY <1>1
<1> QED BY <1>2 DEF Receive

\* A request on its way out still covers its entry, which it has yet to remove.
LEMMA LeavingKeepsTable ==
  ASSUME CallType, NothingLeftPending, UNCHANGED <<kseq, pending>>,
         NEW k \in Callers, kpc' = [kpc EXCEPT ![k] = "forget"]
  PROVE  NothingLeftPending'
<1> SUFFICES ASSUME NEW s \in pending'
             PROVE  \E j \in Callers : kseq'[j] = s /\ kpc'[j] \in {"send", "wait", "forget"}
  BY DEF NothingLeftPending
<1>1. PICK j \in Callers : kseq[j] = s /\ kpc[j] \in {"send", "wait", "forget"}
  BY DEF NothingLeftPending
<1> QED BY <1>1 DEF CallType

---------------------------------------------------------------------------
(* Every action keeps it. *)

LEMMA IssueKeeps ==
  ASSUME IInv, NEW k \in Callers, Issue(k)
  PROVE  IInv'
<1> USE DEF IInv, TypeOK, Issue
<1>1. ConnType' BY NextNumber DEF NumbersOnce, ConnType
<1>2. CallType'
  <2>1. NumberOf(seq + 2) \in Requests BY NextNumber DEF ConnType, NumbersOnce
  <2>2. Failure("none") \in Results BY ResultType
  <2> QED BY <2>1, <2>2 DEF CallType
<1>3. (ReadType /\ StreamType)' BY DEF ReadType, StreamType
<1>4. NumbersOnce'
  <2>1. seq \in Nat /\ seq % 2 = 0 BY DEF ConnType, NumbersOnce
  <2>2. seq' \in Nat /\ seq' % 2 = 0 /\ NumberOf(seq + 2) = seq + 1 /\ seq + 1 \in Requests
    BY <2>1, NextNumber
  <2>3. chan[seq + 1] = "none" BY <2>1, <2>2 DEF NumbersOnce
  <2>4. \A j \in Callers : kseq[j] \in Requests => kseq[j] < seq /\ kseq[j] \in Nat
    BY ResultType DEF NumbersOnce
  <2>5. /\ kpc'[k] = "expect" /\ kseq'[k] = seq + 1
        /\ \A j \in Callers : j # k => kpc'[j] = kpc[j] /\ kseq'[j] = kseq[j]
    BY <2>2 DEF CallType
  <2>6. seq' = seq + 2 /\ chan' = chan OBVIOUS
  <2>7. ASSUME NEW s \in Requests, s > seq' PROVE chan'[s] = "none"
    <3>1. s \in Nat BY ResultType
    <3>2. s > seq BY <2>1, <2>6, <2>7, <3>1
    <3> QED BY <2>6, <3>2 DEF NumbersOnce
  <2>8. \A j \in Callers : kseq'[j] \in Requests => kseq'[j] < seq' BY <2>1, <2>4, <2>5, <2>6
  <2>9. \A j \in Callers : j # k /\ kpc[j] = "expect" => kseq[j] # seq + 1 BY <2>1, <2>4 DEF NumbersOnce
  <2> QED BY <2>2, <2>3, <2>5, <2>6, <2>7, <2>8, <2>9 DEF NumbersOnce
<1>5. OneOwner' BY ResultType DEF OneOwner, ConnType, NumbersOnce, EndsOnce
<1>6. EndsOnce' BY ResultType DEF EndsOnce, OneOwner, ConnType, ReadType
<1>7. (OwnReply /\ NothingLeftPending)' BY DEF OwnReply, NothingLeftPending, CallType
<1> QED BY <1>1, <1>2, <1>3, <1>4, <1>5, <1>6, <1>7

LEMMA ExpectFailsKeeps ==
  ASSUME IInv, NEW k \in Callers, ExpectFails(k)
  PROVE  IInv'
<1> USE DEF IInv, TypeOK, ExpectFails
<1>1. ConnType' BY DEF ConnType
<1>2. CallType' BY ResultType DEF EndsOnce, Errors, CallType
<1>3. (ReadType /\ StreamType)' BY DEF ReadType, StreamType
<1>4. NumbersOnce' BY ResultType DEF NumbersOnce, ConnType, CallType
<1>5. OneOwner' BY ResultType DEF OneOwner, ConnType, NumbersOnce, EndsOnce
<1>6. EndsOnce' BY ResultType DEF EndsOnce, OneOwner, ConnType, ReadType
<1>7. OwnReply'
  BY ResultType DEF OwnReply, CallType, Failure, Reply, Errors, NumbersOnce, OneOwner, EndsOnce
<1>8. NothingLeftPending' BY ResultType DEF NothingLeftPending, CallType, NumbersOnce
<1> QED BY <1>1, <1>2, <1>3, <1>4, <1>5, <1>6, <1>7, <1>8

LEMMA ExpectKeeps ==
  ASSUME IInv, NEW k \in Callers, Expect(k)
  PROVE  IInv'
<1> USE DEF IInv, TypeOK, Expect
<1>1. ConnType' BY DEF NumbersOnce, ConnType
<1>2. CallType' BY DEF CallType
<1>3. (ReadType /\ StreamType)' BY DEF ReadType, StreamType
<1>4. NumbersOnce'
  <2>1. kseq[k] \in Requests /\ kseq[k] < seq /\ kseq[k] \in Nat /\ seq \in Nat
    BY ResultType DEF NumbersOnce, ConnType
  <2>2. \A j \in Callers : kpc'[j] = "expect" => j # k /\ kpc[j] = "expect" BY DEF CallType
  <2>3. \A j \in Callers : kpc'[j] = "expect" => kseq[j] \in Requests /\ kseq[j] # kseq[k] /\ chan[kseq[j]] = "none"
    BY <2>2 DEF NumbersOnce
  <2>4. \A j \in Callers : kpc'[j] = "expect" => chan'[kseq'[j]] = "none" BY <2>1, <2>3 DEF ConnType
  <2>5. ASSUME NEW s \in Requests, s > seq PROVE chan'[s] = "none"
    <3>1. s \in Nat BY ResultType
    <3>2. s # kseq[k] BY <2>1, <2>5, <3>1
    <3>3. chan[s] = "none" BY <2>5 DEF NumbersOnce
    <3> QED BY <3>2, <3>3 DEF ConnType
  <2>6. \A j \in Callers : kpc'[j] # "idle" => kseq'[j] \in Requests BY DEF NumbersOnce, CallType
  <2> QED BY <2>2, <2>4, <2>5, <2>6 DEF NumbersOnce
<1>5. OneOwner' BY ResultType DEF OneOwner, ConnType, NumbersOnce, EndsOnce
<1>6. EndsOnce' BY ResultType DEF EndsOnce, OneOwner, ConnType, ReadType
<1>7. (OwnReply /\ NothingLeftPending)' BY DEF OwnReply, NothingLeftPending, CallType
<1> QED BY <1>1, <1>2, <1>3, <1>4, <1>5, <1>6, <1>7

LEMMA SendFrameKeeps ==
  ASSUME IInv, NEW k \in Callers, SendFrame(k)
  PROVE  IInv'
<1> USE DEF IInv, TypeOK, SendFrame
<1>1. (ConnType /\ CallType)' BY ResultType DEF ConnType, CallType
<1>2. ReadType' BY DEF ReadType
<1>3. StreamType' BY DEF NumbersOnce, StreamType
<1>4. NumbersOnce' BY ResultType DEF NumbersOnce, ConnType, CallType
<1>5. OneOwner' BY ResultType DEF OneOwner, ConnType, NumbersOnce, EndsOnce
<1>6. EndsOnce' BY ResultType DEF EndsOnce, OneOwner, ConnType, ReadType
<1>7. (OwnReply /\ NothingLeftPending)' BY DEF OwnReply, NothingLeftPending, CallType
<1> QED BY <1>1, <1>2, <1>3, <1>4, <1>5, <1>6, <1>7

LEMMA SendFailsKeeps ==
  ASSUME IInv, NEW k \in Callers, SendFails(k)
  PROVE  IInv'
<1> USE DEF IInv, TypeOK, SendFails, Leave
<1>1. ConnType' BY DEF ConnType
<1>2. CallType' BY ResultType DEF Leave, Errors, CallType
<1>3. (ReadType /\ StreamType)' BY DEF ReadType, StreamType
<1>4. NumbersOnce' BY ResultType DEF NumbersOnce, ConnType, CallType
<1>5. OneOwner' BY ResultType DEF OneOwner, ConnType, NumbersOnce, EndsOnce
<1>6. EndsOnce' BY ResultType DEF EndsOnce, OneOwner, ConnType, ReadType
<1>7. OwnReply'
  BY ResultType DEF OwnReply, CallType, Failure, Reply, Errors, NumbersOnce, OneOwner, EndsOnce
<1>8. NothingLeftPending' BY LeavingKeepsTable
<1> QED BY <1>1, <1>2, <1>3, <1>4, <1>5, <1>6, <1>7, <1>8

LEMMA TakeReplyKeeps ==
  ASSUME IInv, NEW k \in Callers, TakeReply(k)
  PROVE  IInv'
<1> USE DEF IInv, TypeOK, TakeReply, Leave
<1>1. ConnType' BY DEF ConnType
<1>2. CallType' BY ResultType DEF Leave, OneOwner, NumbersOnce, CallType
<1>3. (ReadType /\ StreamType)' BY DEF ReadType, StreamType
<1>4. NumbersOnce' BY ResultType DEF NumbersOnce, ConnType, CallType
<1>5. OneOwner' BY ResultType DEF OneOwner, ConnType, NumbersOnce, EndsOnce
<1>6. EndsOnce' BY ResultType DEF EndsOnce, OneOwner, ConnType, ReadType
<1>7. OwnReply'
  BY ResultType DEF OwnReply, CallType, Failure, Reply, Errors, NumbersOnce, OneOwner, EndsOnce
<1>8. NothingLeftPending' BY LeavingKeepsTable
<1> QED BY <1>1, <1>2, <1>3, <1>4, <1>5, <1>6, <1>7, <1>8

LEMMA WokenKeeps ==
  ASSUME IInv, NEW k \in Callers, Woken(k)
  PROVE  IInv'
<1> USE DEF IInv, TypeOK, Woken, Leave
<1>1. ConnType' BY DEF ConnType
<1>2. CallType' BY ResultType DEF Leave, ConnType, Errors, CallType
<1>3. (ReadType /\ StreamType)' BY DEF ReadType, StreamType
<1>4. NumbersOnce' BY ResultType DEF NumbersOnce, ConnType, CallType
<1>5. OneOwner' BY ResultType DEF OneOwner, ConnType, NumbersOnce, EndsOnce
<1>6. EndsOnce' BY ResultType DEF EndsOnce, OneOwner, ConnType, ReadType
<1>7. OwnReply'
  <2>1. kseq[k] \in Requests BY DEF NumbersOnce
  <2>2. closed BY <2>1 DEF EndsOnce
  <2>3. err \in {"EOF", "closed"} BY <2>2 DEF EndsOnce
  <2>4. result'[k].kind \in Errors 
    <3>1. result'[k] = Failure(err) BY <2>3, NoneAssumption DEF CallType
    <3>2. Failure(err).kind = err BY DEF Failure
    <3> QED BY <2>3, <3>1, <3>2 DEF Errors
  <2> QED BY <2>4 DEF OwnReply, CallType
<1>8. NothingLeftPending' BY LeavingKeepsTable
<1> QED BY <1>1, <1>2, <1>3, <1>4, <1>5, <1>6, <1>7, <1>8

LEMMA GiveUpKeeps ==
  ASSUME IInv, NEW k \in Callers, GiveUp(k)
  PROVE  IInv'
<1> USE DEF IInv, TypeOK, GiveUp, Leave
<1>1. ConnType' BY DEF ConnType
<1>2. CallType' BY ResultType DEF Leave, Errors, CallType
<1>3. (ReadType /\ StreamType)' BY DEF ReadType, StreamType
<1>4. NumbersOnce' BY ResultType DEF NumbersOnce, ConnType, CallType
<1>5. OneOwner' BY ResultType DEF OneOwner, ConnType, NumbersOnce, EndsOnce
<1>6. EndsOnce' BY ResultType DEF EndsOnce, OneOwner, ConnType, ReadType
<1>7. OwnReply'
  BY ResultType DEF OwnReply, CallType, Failure, Reply, Errors, NumbersOnce, OneOwner, EndsOnce
<1>8. NothingLeftPending' BY LeavingKeepsTable
<1> QED BY <1>1, <1>2, <1>3, <1>4, <1>5, <1>6, <1>7, <1>8

LEMMA ForgetKeeps ==
  ASSUME IInv, NEW k \in Callers, Forget(k)
  PROVE  IInv'
<1> USE DEF IInv, TypeOK, Forget, Forgotten
<1>1. (ConnType /\ CallType)' BY ResultType DEF ConnType, CallType
<1>2. (ReadType /\ StreamType)' BY DEF ReadType, StreamType
<1>3. NumbersOnce' BY ResultType DEF NumbersOnce, ConnType, CallType
<1>4. OneOwner' BY ResultType DEF OneOwner, ConnType, NumbersOnce, EndsOnce
<1>5. EndsOnce' BY ResultType DEF EndsOnce, OneOwner, ConnType, ReadType
<1>6. (OwnReply /\ NothingLeftPending)' BY DEF OwnReply, NothingLeftPending, CallType
<1> QED BY <1>1, <1>2, <1>3, <1>4, <1>5, <1>6

LEMMA ExpireKeeps ==
  ASSUME IInv, NEW k \in Callers, Expire(k)
  PROVE  IInv'
<1> USE DEF IInv, TypeOK, Expire
<1>1. (ConnType /\ CallType)' BY ResultType DEF ConnType, CallType
<1>2. (ReadType /\ StreamType)' BY DEF ReadType, StreamType
<1>3. (NumbersOnce /\ OneOwner /\ EndsOnce)' BY ResultType DEF NumbersOnce, OneOwner, EndsOnce, ConnType
<1>4. (OwnReply /\ NothingLeftPending)' BY DEF OwnReply, NothingLeftPending, CallType
<1> QED BY <1>1, <1>2, <1>3, <1>4

LEMMA ReceiveKeeps ==
  ASSUME IInv, Receive
  PROVE  IInv'
<1> USE DEF IInv, TypeOK, Receive
<1>1. (ConnType /\ CallType)' BY ResultType DEF ConnType, CallType
<1>2. ReadType' BY FrameType DEF ReadType
<1>3. StreamType' BY FrameType DEF StreamType
<1>4. NumbersOnce' BY ResultType DEF NumbersOnce, ConnType, CallType
<1>5. OneOwner'
  <2>1. rframe' \in Seqs BY FrameType
  <2> QED BY <2>1 DEF OneOwner
<1>6. EndsOnce' BY ResultType DEF EndsOnce, OneOwner, ConnType, ReadType
<1>7. (OwnReply /\ NothingLeftPending)' BY DEF OwnReply, NothingLeftPending, CallType
<1> QED BY <1>1, <1>2, <1>3, <1>4, <1>5, <1>6, <1>7

LEMMA ReceiveFailsKeeps ==
  ASSUME IInv, ReceiveFails
  PROVE  IInv'
<1> USE DEF IInv, TypeOK, ReceiveFails
<1>1. (ConnType /\ CallType)' BY ResultType DEF ConnType, CallType
<1>2. (ReadType /\ StreamType)' BY DEF ReadType, StreamType
<1>3. (NumbersOnce /\ OneOwner /\ EndsOnce)' BY ResultType DEF NumbersOnce, OneOwner, EndsOnce, ConnType
<1>4. (OwnReply /\ NothingLeftPending)' BY DEF OwnReply, NothingLeftPending, CallType
<1> QED BY <1>1, <1>2, <1>3, <1>4

LEMMA LookUpKeeps ==
  ASSUME IInv, LookUp
  PROVE  IInv'
<1> USE DEF IInv, TypeOK, LookUp, Delivered, Waiting
<1>1. (ConnType /\ CallType)' BY ResultType DEF ConnType, CallType
<1>2. (ReadType /\ StreamType)' BY DEF ReadType, StreamType
<1>3. (NumbersOnce /\ OneOwner /\ EndsOnce)' BY ResultType DEF NumbersOnce, OneOwner, EndsOnce, ConnType
<1>4. (OwnReply /\ NothingLeftPending)' BY DEF OwnReply, NothingLeftPending, CallType
<1> QED BY <1>1, <1>2, <1>3, <1>4

LEMMA DeliverKeeps ==
  ASSUME IInv, Deliver
  PROVE  IInv'
<1> USE DEF IInv, TypeOK, Deliver
<1>1. ConnType' BY DEF OneOwner, ConnType
<1>2. CallType' BY DEF CallType
<1>3. (ReadType /\ StreamType)' BY DEF ReadType, StreamType
<1>4. NumbersOnce'
  <2>1. \A j \in Callers : kpc[j] = "expect" => kseq[j] # rframe BY DEF NumbersOnce, OneOwner
  <2>2. \A s \in Requests : chan'[s] = chan[s] \/ s = rframe BY DEF ConnType
  <2>3. \A s \in Requests : s > seq => s # rframe BY DEF NumbersOnce, OneOwner
  <2> QED BY <2>1, <2>2, <2>3 DEF NumbersOnce
<1>5. OneOwner'
  <2>1. rframe \in Requests /\ rframe \notin pending \cup waking BY DEF OneOwner
  <2>2. /\ chan' \in [Requests -> {"none", "open", "full", "closed"}]
        /\ \A s \in Requests : s # rframe => chan'[s] = chan[s] /\ held'[s] = held[s]
    BY DEF ConnType
  <2>3. chan'[rframe] = "full" /\ held'[rframe] = rframe BY <2>1 DEF ConnType, OneOwner
  <2>4. pending \cup waking \subseteq Requests BY DEF ConnType
  <2> QED BY <2>1, <2>2, <2>3, <2>4 DEF OneOwner
<1>6. EndsOnce' BY ResultType DEF EndsOnce, OneOwner, ConnType, ReadType
<1>7. (OwnReply /\ NothingLeftPending)' BY DEF OwnReply, NothingLeftPending, CallType
<1> QED BY <1>1, <1>2, <1>3, <1>4, <1>5, <1>6, <1>7

LEMMA DropKeeps ==
  ASSUME IInv, Drop
  PROVE  IInv'
<1> USE DEF IInv, TypeOK, Drop
<1>1. (ConnType /\ CallType)' BY ResultType DEF ConnType, CallType
<1>2. (ReadType /\ StreamType)' BY DEF ReadType, StreamType
<1>3. (NumbersOnce /\ OneOwner /\ EndsOnce)' BY ResultType DEF NumbersOnce, OneOwner, EndsOnce, ConnType
<1>4. (OwnReply /\ NothingLeftPending)' BY DEF OwnReply, NothingLeftPending, CallType
<1> QED BY <1>1, <1>2, <1>3, <1>4

LEMMA HandleKeeps ==
  ASSUME IInv, Handle
  PROVE  IInv'
<1> USE DEF IInv, TypeOK, Handle
<1>1. (ConnType /\ CallType)' BY ResultType DEF ConnType, CallType
<1>2. ReadType' BY DEF OneOwner, ReadType
<1>3. StreamType' BY DEF StreamType
<1>4. (NumbersOnce /\ OneOwner /\ EndsOnce)' BY ResultType DEF NumbersOnce, OneOwner, EndsOnce, ConnType
<1>5. (OwnReply /\ NothingLeftPending)' BY DEF OwnReply, NothingLeftPending, CallType
<1> QED BY <1>1, <1>2, <1>3, <1>4, <1>5

LEMMA BeginCloseKeeps ==
  ASSUME IInv, BeginClose
  PROVE  IInv'
<1> USE DEF IInv, TypeOK, BeginClose
<1>1. (ConnType /\ CallType)' BY ResultType DEF ConnType, CallType
<1>2. (ReadType /\ StreamType)' BY DEF ReadType, StreamType
<1>3. (NumbersOnce /\ OneOwner /\ EndsOnce)' BY ResultType DEF NumbersOnce, OneOwner, EndsOnce, ConnType
<1>4. (OwnReply /\ NothingLeftPending)' BY DEF OwnReply, NothingLeftPending, CallType
<1> QED BY <1>1, <1>2, <1>3, <1>4

LEMMA CloseStreamKeeps ==
  ASSUME IInv, CloseStream
  PROVE  IInv'
<1> USE DEF IInv, TypeOK, CloseStream
<1>1. (ConnType /\ CallType)' BY ResultType DEF ConnType, CallType
<1>2. (ReadType /\ StreamType)' BY DEF ReadType, StreamType
<1>3. (NumbersOnce /\ OneOwner /\ EndsOnce)' BY ResultType DEF NumbersOnce, OneOwner, EndsOnce, ConnType
<1>4. (OwnReply /\ NothingLeftPending)' BY DEF OwnReply, NothingLeftPending, CallType
<1> QED BY <1>1, <1>2, <1>3, <1>4

LEMMA ReaderShutsDownKeeps ==
  ASSUME IInv, ReaderShutsDown
  PROVE  IInv'
<1> USE DEF IInv, TypeOK, ReaderShutsDown, ShutDown, Reason
<1>1. (ConnType /\ CallType)' BY ResultType DEF ConnType, CallType
<1>2. (ReadType /\ StreamType)' BY DEF ReadType, StreamType
<1>3. (NumbersOnce /\ OneOwner /\ EndsOnce)' BY ResultType DEF NumbersOnce, OneOwner, EndsOnce, ConnType
<1>4. (OwnReply /\ NothingLeftPending)' BY DEF OwnReply, NothingLeftPending, CallType
<1> QED BY <1>1, <1>2, <1>3, <1>4

LEMMA CloserShutsDownKeeps ==
  ASSUME IInv, CloserShutsDown
  PROVE  IInv'
<1> USE DEF IInv, TypeOK, CloserShutsDown, ShutDown, Reason
<1>1. (ConnType /\ CallType)' BY ResultType DEF ConnType, CallType
<1>2. (ReadType /\ StreamType)' BY DEF ReadType, StreamType
<1>3. (NumbersOnce /\ OneOwner /\ EndsOnce)' BY ResultType DEF NumbersOnce, OneOwner, EndsOnce, ConnType
<1>4. (OwnReply /\ NothingLeftPending)' BY DEF OwnReply, NothingLeftPending, CallType
<1> QED BY <1>1, <1>2, <1>3, <1>4

LEMMA WakeOneKeeps ==
  ASSUME IInv, NEW s \in Requests, WakeOne(s)
  PROVE  IInv'
<1> USE DEF IInv, TypeOK, WakeOne
<1>1. (ConnType /\ CallType)' BY ResultType DEF ConnType, CallType
<1>2. (ReadType /\ StreamType)' BY DEF ReadType, StreamType
<1>3. (NumbersOnce /\ OneOwner /\ EndsOnce)' BY ResultType DEF NumbersOnce, OneOwner, EndsOnce, ConnType
<1>4. (OwnReply /\ NothingLeftPending)' BY DEF OwnReply, NothingLeftPending, CallType
<1> QED BY <1>1, <1>2, <1>3, <1>4

LEMMA WakeAllKeeps ==
  ASSUME IInv, WakeAll
  PROVE  IInv'
<1> USE DEF IInv, TypeOK, WakeAll, Waking
<1>1. (ConnType /\ CallType)' BY ResultType DEF ConnType, CallType
<1>2. (ReadType /\ StreamType)' BY DEF ReadType, StreamType
<1>3. (NumbersOnce /\ OneOwner /\ EndsOnce)' BY ResultType DEF NumbersOnce, OneOwner, EndsOnce, ConnType
<1>4. (OwnReply /\ NothingLeftPending)' BY DEF OwnReply, NothingLeftPending, CallType
<1> QED BY <1>1, <1>2, <1>3, <1>4

LEMMA RuntimeReadsKeeps ==
  ASSUME IInv, RuntimeReads
  PROVE  IInv'
<1> USE DEF IInv, TypeOK, RuntimeReads
<1>1. (ConnType /\ CallType)' BY ResultType DEF ConnType, CallType
<1>2. ReadType' BY DEF ReadType
<1>3. StreamType' BY DEF StreamType
<1>4. (NumbersOnce /\ OneOwner /\ EndsOnce)' BY ResultType DEF NumbersOnce, OneOwner, EndsOnce, ConnType
<1>5. (OwnReply /\ NothingLeftPending)' BY DEF OwnReply, NothingLeftPending, CallType
<1> QED BY <1>1, <1>2, <1>3, <1>4, <1>5

LEMMA RuntimeRepliesKeeps ==
  ASSUME IInv, NEW s \in Seqs, RuntimeReplies(s)
  PROVE  IInv'
<1> USE DEF IInv, TypeOK, RuntimeReplies
<1>1. (ConnType /\ CallType)' BY ResultType DEF ConnType, CallType
<1>2. ReadType' BY DEF ReadType
<1>3. StreamType' BY DEF StreamType
<1>4. (NumbersOnce /\ OneOwner /\ EndsOnce)' BY ResultType DEF NumbersOnce, OneOwner, EndsOnce, ConnType
<1>5. (OwnReply /\ NothingLeftPending)' BY DEF OwnReply, NothingLeftPending, CallType
<1> QED BY <1>1, <1>2, <1>3, <1>4, <1>5

LEMMA RuntimeStraysKeeps ==
  ASSUME IInv, NEW s \in Seqs, RuntimeStrays(s)
  PROVE  IInv'
<1> USE DEF IInv, TypeOK, RuntimeStrays
<1>1. (ConnType /\ CallType)' BY ResultType DEF ConnType, CallType
<1>2. ReadType' BY DEF ReadType
<1>3. StreamType' BY DEF StreamType
<1>4. (NumbersOnce /\ OneOwner /\ EndsOnce)' BY ResultType DEF NumbersOnce, OneOwner, EndsOnce, ConnType
<1>5. (OwnReply /\ NothingLeftPending)' BY DEF OwnReply, NothingLeftPending, CallType
<1> QED BY <1>1, <1>2, <1>3, <1>4, <1>5

LEMMA RuntimeDiesKeeps ==
  ASSUME IInv, RuntimeDies
  PROVE  IInv'
<1> USE DEF IInv, TypeOK, RuntimeDies
<1>1. (ConnType /\ CallType)' BY ResultType DEF ConnType, CallType
<1>2. (ReadType /\ StreamType)' BY DEF ReadType, StreamType
<1>3. (NumbersOnce /\ OneOwner /\ EndsOnce)' BY ResultType DEF NumbersOnce, OneOwner, EndsOnce, ConnType
<1>4. (OwnReply /\ NothingLeftPending)' BY DEF OwnReply, NothingLeftPending, CallType
<1> QED BY <1>1, <1>2, <1>3, <1>4

---------------------------------------------------------------------------
LEMMA InitInvariant == Init => IInv
<1> SUFFICES ASSUME Init PROVE IInv
  OBVIOUS
<1> USE DEF Init
<1>1. TypeOK
  <2>1. ConnType BY DEF ConnType
  <2>2. CallType BY ResultType DEF CallType
  <2> QED BY <2>1, <2>2 DEF TypeOK, ReadType, StreamType
<1>2. NumbersOnce /\ OneOwner /\ EndsOnce
  <2>1. 0 % 2 = 0 OBVIOUS
  <2>2. \A k \in Callers : kseq[k] \notin Requests BY NoneAssumption, ResultType
  <2> QED BY <2>1, <2>2 DEF NumbersOnce, OneOwner, EndsOnce
<1>3. OwnReply /\ NothingLeftPending BY DEF OwnReply, NothingLeftPending
<1> QED BY <1>1, <1>2, <1>3 DEF IInv

LEMMA NextInvariant == IInv /\ [Next]_vars => IInv'
<1> SUFFICES ASSUME IInv, [Next]_vars PROVE IInv'
  OBVIOUS
<1>1. ASSUME NEW k \in Callers, Issue(k) \/ CallerStep(k) \/ Expire(k) PROVE IInv'
  BY <1>1, IssueKeeps, ExpireKeeps, ExpectFailsKeeps, ExpectKeeps, SendFrameKeeps, SendFailsKeeps,
     TakeReplyKeeps, WokenKeeps, GiveUpKeeps, ForgetKeeps DEF CallerStep
<1>2. CASE ReaderStep
  BY <1>2, ReceiveKeeps, ReceiveFailsKeeps, LookUpKeeps, DeliverKeeps, DropKeeps, HandleKeeps,
     ReaderShutsDownKeeps DEF ReaderStep
<1>3. CASE BeginClose \/ CloseStream \/ CloserShutsDown
  BY <1>3, BeginCloseKeeps, CloseStreamKeeps, CloserShutsDownKeeps
<1>4. CASE Wake
  BY <1>4, WakeOneKeeps, WakeAllKeeps DEF Wake
<1>5. CASE RuntimeReads \/ RuntimeDies
  BY <1>5, RuntimeReadsKeeps, RuntimeDiesKeeps
<1>6. ASSUME NEW s \in Seqs, RuntimeReplies(s) \/ RuntimeStrays(s) PROVE IInv'
  BY <1>6, RuntimeRepliesKeeps, RuntimeStraysKeeps
<1>7. CASE UNCHANGED vars
  <2> USE <1>7 DEF vars, IInv
  <2>1. TypeOK'
    <3>1. (ConnType /\ CallType)' BY DEF TypeOK, ConnType, CallType
    <3>2. (ReadType /\ StreamType)' BY DEF TypeOK, ReadType, StreamType
    <3> QED BY <3>1, <3>2 DEF TypeOK
  <2>2. NumbersOnce' BY DEF NumbersOnce
  <2>3. (OneOwner /\ EndsOnce)' BY DEF OneOwner, EndsOnce
  <2>4. (OwnReply /\ NothingLeftPending)' BY DEF OwnReply, NothingLeftPending
  <2> QED BY <2>1, <2>2, <2>3, <2>4
<1> QED BY <1>1, <1>2, <1>3, <1>4, <1>5, <1>6, <1>7 DEF Next

\* What the proofs below rest on holds in every state.
THEOREM Invariant == Spec => []IInv
BY InitInvariant, NextInvariant, PTL DEF Spec

\* Every variable of the connection keeps its type, however many callers there are and
\* whatever the runtime sends.
THEOREM TypeCorrect == Spec => []TypeOK
<1>1. IInv => TypeOK BY DEF IInv
<1> QED BY <1>1, Invariant, PTL

\* The read loop never sends to a channel that a shutdown has closed or that holds a
\* reply already, and done is closed once: nothing in it panics or blocks.
THEOREM DeliveryNeverPanics == Spec => []DeliveryFits
<1>1. IInv => DeliveryFits BY DEF IInv, OneOwner, EndsOnce, DeliveryFits
<1> QED BY <1>1, Invariant, PTL

\* A request that returns has its own reply, or one of the errors.
THEOREM RepliesMatch == Spec => []OwnReply
<1>1. IInv => OwnReply BY DEF IInv
<1> QED BY <1>1, Invariant, PTL

\* Only requests that are under way have an entry in the table of pending ones.
THEOREM TableIsBounded == Spec => []NothingLeftPending
<1>1. IInv => NothingLeftPending BY DEF IInv
<1> QED BY <1>1, Invariant, PTL

\* The handler never gets an answer to a request that was issued, however late: those
\* that are no longer waited for are dropped.
THEOREM HandlerOnlyStrays == Spec => HandlerSeesStrays
<1>1. IInv /\ [Next]_vars => [\A s \in handled' \ handled : ~Odd(s) \/ s > seq]_vars
  <2> SUFFICES ASSUME IInv, Next, NEW s \in handled' \ handled PROVE ~Odd(s) \/ s > seq
    BY DEF vars
  <2>1. Handle
    <3>1. ASSUME NEW k \in Callers, Issue(k) \/ CallerStep(k) \/ Expire(k) PROVE handled' = handled
      BY <3>1 DEF Issue, CallerStep, Expire, ExpectFails, Expect, SendFrame, SendFails, TakeReply,
                  Woken, GiveUp, Forget
    <3>2. (Receive \/ ReceiveFails \/ LookUp \/ Deliver \/ Drop \/ ReaderShutsDown) => handled' = handled
      BY DEF Receive, ReceiveFails, LookUp, Deliver, Drop, ReaderShutsDown
    <3>3. (BeginClose \/ CloseStream \/ CloserShutsDown \/ Wake \/ RuntimeReads \/ RuntimeDies) => handled' = handled
      BY DEF BeginClose, CloseStream, CloserShutsDown, Wake, WakeAll, WakeOne, RuntimeReads, RuntimeDies
    <3>4. ASSUME NEW n \in Seqs, RuntimeReplies(n) \/ RuntimeStrays(n) PROVE handled' = handled
      BY <3>4 DEF RuntimeReplies, RuntimeStrays
    <3> QED BY <3>1, <3>2, <3>3, <3>4 DEF Next, ReaderStep
  <2>2. s = rframe /\ rframe \in Seqs /\ ~Abandoned(rframe)
    BY <2>1 DEF Handle, IInv, OneOwner
  <2>3. s \in Nat /\ seq \in Nat /\ seq % 2 = 0
    BY <2>2, ResultType DEF IInv, NumbersOnce, TypeOK, ConnType
  <2>4. CASE ~Odd(s)
    BY <2>4
  <2>5. CASE Odd(s)
    <3>1. s >= seq BY <2>2, <2>3, <2>5 DEF Abandoned
    <3>2. s # seq BY <2>3, <2>5 DEF Odd
    <3> QED BY <2>3, <3>1, <3>2
  <2> QED BY <2>4, <2>5
<1> QED BY <1>1, Invariant, PTL DEF Spec, HandlerSeesStrays
=============================================================================
