------------------------ MODULE PlayerSessionsProofs ------------------------
(***************************************************************************)
(* Types of the sessions; that the game keeps no player without a          *)
(* connection; that a Bedrock player's file only moves forward and its     *)
(* departure is told after its arrival; that a stop keeps what was due.    *)
(* For any connections, players and order of steps.                        *)
(***************************************************************************)
EXTENDS PlayerSessions, TLAPS

USE DEF connVars, gameVars, busVars, newsVars, diskVars

---------------------------------------------------------------------------
(* Types. *)

Walks == 0 .. MaxWalk
Intents == {JoinOf(c) : c \in BedrockConns} \cup {DisconnectOf(u) : u \in UUIDs}
Places == {"absent", "out", "loaded", "entering", "waiting", "starting", "playing",
           "leaving", "saving", "writing", "unregistering", "gone"}
Stages == {"idle", "announce", "drain", "save"}

\* The fields of the tick's record, named so that a record is one of opaque sets.
Crowds == SUBSET Conns
People == SUBSET UUIDs
Batches == Seq(Intents)
Visits == {NoVisit} \cup [of : UUIDs, value : Walks]
Takings == [UUIDs -> Walks]
Ticks == [stage : Stages, ready : Crowds, batch : Batches, todo : People, held : Visits,
          taken : Takings]

ConnTyped ==
  pc \in [Conns -> Places] /\ snap \in [Conns -> Walks] /\ answer \in [Conns -> {"none", "joined", "refused"}]
GameTyped ==
  /\ online \in [UUIDs -> Conns \cup {NoConn}] /\ sessions \in [UUIDs -> Conns \cup {NoConn}]
  /\ data \in [Conns -> Walks] /\ walked \in [UUIDs -> Walks] /\ due \in [UUIDs -> Walks]
  /\ file \in [UUIDs -> Walks] /\ faults \in [UUIDs -> 0 .. MaxFaults]
BusTyped ==
  lifecycle \in Batches /\ Len(lifecycle) <= LifecycleCapacity /\ moves \in [UUIDs -> Walks]
NewsTyped ==
  /\ pending \in People /\ joins \in [Conns -> Nat] /\ quits \in [Conns -> Nat]
  /\ phase \in {"up", "stopping", "saving", "down"}
Typed == ConnTyped /\ GameTyped /\ BusTyped /\ NewsTyped /\ tick \in Ticks

LEMMA OwnersArePeople ==
  /\ \A c \in Conns : Owner[c] \in UUIDs
  /\ JavaConns \subseteq Conns /\ BedrockConns \subseteq Conns
  /\ MaxWalk \in Nat /\ MaxFaults \in Nat /\ LifecycleCapacity \in Nat /\ 0 \in Walks
BY SessionsAssumption DEF Conns, Walks

\* One step more of a walk, one fault more: both stay within their bounds.
LEMMA StepsOn ==
  ASSUME NEW f, NEW n \in Nat, NEW S, f \in [S -> 0 .. n], NEW u \in S, f[u] < n
  PROVE  [f EXCEPT ![u] = @ + 1] \in [S -> 0 .. n]
OBVIOUS

LEMMA FilesTyped ==
  ASSUME Typed, NEW u \in UUIDs
  PROVE  /\ \A c \in Conns :
              LoadPlayer(c, u) => data' \in [Conns -> Walks] /\ faults' \in [UUIDs -> 0 .. MaxFaults]
         /\ \A value \in Walks :
              WritePlayer(u, value) => file' \in [UUIDs -> Walks] /\ faults' \in [UUIDs -> 0 .. MaxFaults]
<1>1. MayFail(u) => [faults EXCEPT ![u] = @ + 1] \in [UUIDs -> 0 .. MaxFaults]
  BY StepsOn, OwnersArePeople DEF Typed, GameTyped, MayFail
<1>2. QED
  BY <1>1, OwnersArePeople DEF Typed, GameTyped, LoadPlayer, WritePlayer

\* One action at a time: those of a Java connection.
LEMMA JavaTyped ==
  ASSUME Typed, NEW c \in JavaConns,
         JavaLoad(c) \/ JavaWalk(c) \/ JavaLeave(c) \/ JavaStep(c)
  PROVE  Typed'
<1> USE OwnersArePeople DEF Typed, ConnTyped, GameTyped, BusTyped, NewsTyped, Go
<1>1. CASE JavaLoad(c)
  BY <1>1, FilesTyped DEF JavaLoad, Places
<1>2. CASE JavaRegister(c)
  BY <1>2 DEF JavaRegister, Places, People
<1>3. CASE JavaEnter(c)
  BY <1>3 DEF JavaEnter, Places
<1>4. CASE JavaWalk(c)
  <2>1. walked' \in [UUIDs -> Walks]
    BY <1>4, StepsOn DEF JavaWalk, Walks
  <2>2. data' \in [Conns -> Walks]
    BY <1>4, <2>1 DEF JavaWalk
  <2> QED
    BY <1>4, <2>1, <2>2 DEF JavaWalk
<1>5. CASE JavaLeave(c)
  BY <1>5 DEF JavaLeave, Places
<1>6. CASE JavaSnapshot(c)
  BY <1>6 DEF JavaSnapshot, Places
<1>7. CASE JavaWrite(c)
  BY <1>7, FilesTyped DEF JavaWrite, Places
<1>8. CASE JavaUnregister(c)
  BY <1>8 DEF JavaUnregister, Unregister, Places
<1>9. QED
  BY <1>1, <1>2, <1>3, <1>4, <1>5, <1>6, <1>7, <1>8 DEF JavaStep

\* Intents that are posted and drawn.
LEMMA QueueUpdates ==
  /\ <<>> \in Batches /\ Len(<<>>) = 0
  /\ \A q \in Batches, i \in Intents : Append(q, i) \in Batches /\ Len(Append(q, i)) = Len(q) + 1
  /\ \A q \in Batches : Len(q) \in Nat
  /\ \A q \in Batches : q # <<>> => Head(q) \in Intents /\ Tail(q) \in Batches
BY DEF Batches

LEMMA IntentKinds ==
  /\ \A c \in BedrockConns : JoinOf(c) \in Intents
  /\ \A u \in UUIDs : DisconnectOf(u) \in Intents
  /\ \A i \in Intents : i.kind = "join" => i.conn \in BedrockConns /\ i = JoinOf(i.conn)
  /\ \A i \in Intents : i.kind # "join" => i.uuid \in UUIDs /\ i = DisconnectOf(i.uuid)
BY DEF Intents, JoinOf, DisconnectOf

LEMMA BedrockTyped ==
  ASSUME Typed, NEW c \in BedrockConns,
         \/ PostJoin(c) \/ PostJoinExpires(c) \/ JoinTimesOut(c) \/ UpdateMove(c)
         \/ BedrockLeave(c) \/ BedrockStep(c)
  PROVE  Typed'
<1> USE OwnersArePeople DEF Typed, ConnTyped, GameTyped, BusTyped, NewsTyped, Go
<1>1. CASE PostJoin(c)
  <2>1. lifecycle' \in Batches /\ Len(lifecycle') <= LifecycleCapacity
    BY <1>1, QueueUpdates, IntentKinds DEF PostJoin
  <2> QED
    BY <1>1, <2>1 DEF PostJoin, Places
<1>2. CASE PostJoinExpires(c)
  BY <1>2 DEF PostJoinExpires, Places
<1>3. CASE JoinTimesOut(c)
  BY <1>3 DEF JoinTimesOut, Places
<1>4. CASE UpdateMove(c)
  <2>1. walked' \in [UUIDs -> Walks]
    BY <1>4, StepsOn DEF UpdateMove, Walks
  <2>2. moves' \in [UUIDs -> Walks]
    BY <1>4, <2>1 DEF UpdateMove
  <2> QED
    BY <1>4, <2>1, <2>2 DEF UpdateMove
<1>5. CASE BedrockLeave(c)
  BY <1>5 DEF BedrockLeave, Places
<1>6. CASE TakeAnswer(c)
  BY <1>6 DEF TakeAnswer, Places
<1>7. CASE StartPlay(c)
  BY <1>7 DEF StartPlay, Places
<1>8. CASE PostDisconnect(c)
  <2>1. lifecycle' \in Batches /\ Len(lifecycle') <= LifecycleCapacity
    BY <1>8, QueueUpdates, IntentKinds DEF PostDisconnect
  <2> QED
    BY <1>8, <2>1 DEF PostDisconnect, Places
<1>9. CASE ContextDone(c)
  BY <1>9 DEF ContextDone, Places
<1>10. QED
  BY <1>1, <1>2, <1>3, <1>4, <1>5, <1>6, <1>7, <1>8, <1>9 DEF BedrockStep

\* The tick's record after each kind of update.
LEMMA TickUpdates ==
  ASSUME NEW t \in Ticks
  PROVE  /\ \A x \in Stages, r \in Crowds : [t EXCEPT !.stage = x, !.ready = r] \in Ticks
         /\ \A r \in Crowds : [t EXCEPT !.ready = r] \in Ticks
         /\ \A x \in Stages, q \in Batches, d \in People :
              [t EXCEPT !.stage = x, !.batch = q, !.todo = d] \in Ticks
         /\ \A d \in People, v \in Visits : [t EXCEPT !.todo = d, !.held = v] \in Ticks
         /\ \A k \in Takings, v \in Visits : [t EXCEPT !.taken = k, !.held = v] \in Ticks
         /\ \A v \in Visits : [t EXCEPT !.held = v] \in Ticks
         /\ \A q \in Batches : [t EXCEPT !.batch = q] \in Ticks
         /\ t.ready \in Crowds /\ t.batch \in Batches /\ t.todo \in People /\ t.held \in Visits
         /\ t.taken \in Takings
BY DEF Ticks

LEMMA IdleTyped == IdleTick \in Ticks /\ SaveEveryone \in Ticks
<1>1. {} \in Crowds /\ {} \in People /\ NoVisit \in Visits /\ Online \in People
  BY DEF Crowds, People, Visits, Online
<1>2. [u \in UUIDs |-> 0] \in Takings
  BY OwnersArePeople DEF Takings
<1>3. IdleTick \in Ticks
  BY <1>1, <1>2, QueueUpdates DEF IdleTick, Ticks, Stages
<1>4. \A t \in Ticks, d \in People : [t EXCEPT !.stage = "save", !.todo = d] \in Ticks
  BY DEF Ticks, Stages
<1>5. QED
  BY <1>1, <1>3, <1>4 DEF SaveEveryone

LEMMA ApplyTyped ==
  ASSUME Typed, ApplyLifecycle
  PROVE  Typed'
<1> USE OwnersArePeople DEF Typed, ConnTyped, GameTyped, BusTyped, NewsTyped
<1> DEFINE i == Head(tick.batch)
<1>1. tick.batch # <<>> /\ i \in Intents /\ Tail(tick.batch) \in Batches
  BY QueueUpdates, TickUpdates DEF ApplyLifecycle
<1>2. tick' \in Ticks
  BY <1>1, TickUpdates DEF ApplyLifecycle
<1> HIDE DEF i
<1>3. CASE i.kind = "join"
  <2>1. i.conn \in BedrockConns /\ ApplyJoin(i.conn)
    BY <1>1, <1>3, IntentKinds DEF ApplyLifecycle, i
  <2>2. data' \in [Conns -> Walks] /\ faults' \in [UUIDs -> 0 .. MaxFaults]
    BY <2>1, FilesTyped DEF ApplyJoin
  <2>3. ConnTyped' /\ online' \in [UUIDs -> Conns \cup {NoConn}] /\ pending' \in People
    <3>1. CASE Reply(i.conn, "refused") /\ UNCHANGED <<gameVars, pending, faults>>
      BY <2>1, <3>1 DEF Reply
    <3>2. CASE Added(i.conn)
      <4>1. pending \cup {Owner[i.conn]} \in People
        BY <2>1 DEF People
      <4> QED
        BY <2>1, <3>2, <4>1 DEF Added, Reply
    <3>3. CASE Duplicate(i.conn)
      BY <2>1, <3>3 DEF Duplicate, Reply
    <3> QED
      BY <2>1, <3>1, <3>2, <3>3 DEF ApplyJoin
  <2> QED
    BY <1>2, <2>1, <2>2, <2>3 DEF ApplyLifecycle, ApplyJoin
<1>4. CASE i.kind # "join"
  <2>1. i.uuid \in UUIDs /\ ApplyDisconnect(i.uuid)
    BY <1>1, <1>4, IntentKinds DEF ApplyLifecycle, i
  <2>2. file' \in [UUIDs -> Walks] /\ faults' \in [UUIDs -> 0 .. MaxFaults]
    BY <2>1, FilesTyped DEF ApplyDisconnect
  <2>3. online' \in [UUIDs -> Conns \cup {NoConn}] /\ quits' \in [Conns -> Nat]
    BY <2>1 DEF ApplyDisconnect, Unregister
  <2> QED
    BY <1>2, <2>1, <2>2, <2>3 DEF ApplyLifecycle, ApplyDisconnect
<1>5. QED
  BY <1>3, <1>4

LEMMA TickTyped == ASSUME Typed, TickStep PROVE Typed'
<1> USE OwnersArePeople DEF Typed, ConnTyped, GameTyped, BusTyped, NewsTyped
<1>0. tick.ready \in Crowds /\ tick.todo \in People /\ tick.held \in Visits /\ tick.taken \in Takings
  BY TickUpdates
<1>1. CASE AnnounceReachable
  <2>1. PICK late \in SUBSET UUIDs :
          /\ pending' = {u \in pending : online[u] # NoConn}
                          \ ({u \in pending : online[u] # NoConn /\ sessions[u] # NoConn} \cup late)
          /\ tick' = [tick EXCEPT !.stage = "announce",
                 !.ready = {online[u] : u \in {v \in pending : online[v] # NoConn /\ sessions[v] # NoConn}}]
    <3>1. {u \in {v \in pending : online[v] # NoConn} : sessions[u] # NoConn}
            = {u \in pending : online[u] # NoConn /\ sessions[u] # NoConn}
      OBVIOUS
    <3> QED
      BY <1>1, <3>1 DEF AnnounceReachable, People
  <2>2. {online[u] : u \in {v \in pending : online[v] # NoConn /\ sessions[v] # NoConn}} \in Crowds
    BY DEF Crowds, People
  <2>3. tick' \in Ticks /\ pending' \in People
    BY <2>1, <2>2, TickUpdates DEF Stages, People
  <2> QED
    BY <1>1, <2>3 DEF AnnounceReachable
<1>2. ASSUME NEW c \in Conns, EmitJoin(c) PROVE Typed'
  <2>1. tick.ready \ {c} \in Crowds
    BY <1>0 DEF Crowds
  <2>2. tick' \in Ticks
    BY <1>2, <2>1, TickUpdates DEF EmitJoin
  <2> QED
    BY <1>2, <2>2 DEF EmitJoin
<1>3. CASE DrainLifecycle
  <2>1. {u \in UUIDs : moves[u] # 0} \in People
    BY DEF People
  <2>2. tick' \in Ticks
    BY <1>3, <2>1, TickUpdates DEF DrainLifecycle, Stages
  <2> QED
    BY <1>3, <2>2, QueueUpdates DEF DrainLifecycle
<1>4. ASSUME NEW u \in UUIDs, RangeReads(u) PROVE Typed'
  <2>1. tick.todo \ {u} \in People /\ [of |-> u, value |-> moves[u]] \in Visits
    BY <1>0 DEF People, Visits
  <2>2. tick' \in Ticks
    BY <1>4, <2>1, TickUpdates DEF RangeReads
  <2> QED
    BY <1>4, <2>2 DEF RangeReads
<1>5. CASE RangeDeletes
  <2>1. tick.held.of \in UUIDs /\ tick.held.value \in Walks
    BY <1>0, <1>5 DEF RangeDeletes, Visits
  <2>2. [tick.taken EXCEPT ![tick.held.of] = tick.held.value] \in Takings /\ NoVisit \in Visits
    BY <1>0, <2>1 DEF Takings, Visits
  <2>3. tick' = [tick EXCEPT !.taken = [tick.taken EXCEPT ![tick.held.of] = tick.held.value],
                             !.held = NoVisit]
    BY <1>5 DEF RangeDeletes
  <2>4. tick' \in Ticks
    BY <2>2, <2>3, TickUpdates
  <2> QED
    BY <1>5, <2>1, <2>4 DEF RangeDeletes
<1>6. CASE ApplyLifecycle
  BY <1>6, ApplyTyped
<1>7. CASE ApplyMoves
  <2>1. data' \in [Conns -> Walks]
    BY <1>0, <1>7 DEF ApplyMoves, Takings
  <2> QED
    BY <1>7, <2>1, IdleTyped DEF ApplyMoves
<1>8. ASSUME NEW u \in UUIDs, SaveSnapshots(u) PROVE Typed'
  <2>1. tick.todo \ {u} \in People /\ NoVisit \in Visits
    BY <1>0 DEF People, Visits
  <2>2. online[u] # NoConn => [of |-> u, value |-> data[online[u]]] \in Visits
    BY DEF Visits
  <2>3. tick' \in Ticks
    BY <1>8, <2>1, <2>2, TickUpdates DEF SaveSnapshots
  <2> QED
    BY <1>8, <2>3 DEF SaveSnapshots
<1>9. CASE SaveWrites
  <2>1. tick.held.of \in UUIDs /\ tick.held.value \in Walks
    BY <1>0, <1>9 DEF SaveWrites, Visits
  <2>2. file' \in [UUIDs -> Walks] /\ faults' \in [UUIDs -> 0 .. MaxFaults]
    BY <1>9, <2>1, FilesTyped DEF SaveWrites
  <2>3. tick' \in Ticks
    BY <1>9, TickUpdates DEF SaveWrites, Visits
  <2> QED
    BY <1>9, <2>2, <2>3 DEF SaveWrites
<1>10. CASE Saved
  BY <1>10, IdleTyped DEF Saved
<1>11. CASE ShutdownSave
  BY <1>11, IdleTyped DEF ShutdownSave
<1>12. QED
  BY <1>1, <1>2, <1>3, <1>4, <1>5, <1>6, <1>7, <1>8, <1>9, <1>10, <1>11 DEF TickStep

LEMMA TypedStep == Typed /\ [Next]_vars => Typed'
<1> SUFFICES ASSUME Typed, [Next]_vars PROVE Typed'
  OBVIOUS
<1>1. CASE UNCHANGED vars
  BY <1>1 DEF vars, Typed, ConnTyped, GameTyped, BusTyped, NewsTyped
<1>2. CASE Stop
  BY <1>2 DEF Stop, Typed, ConnTyped, GameTyped, BusTyped, NewsTyped
<1>3. QED
  BY <1>1, <1>2, JavaTyped, BedrockTyped, TickTyped DEF Next, ClientStep

LEMMA AlwaysTyped == Spec => []Typed
<1>1. Init => Typed
  <2> SUFFICES ASSUME Init PROVE Typed
    OBVIOUS
  <2>1. pc \in [Conns -> Places]
    BY DEF Init, Places
  <2> QED
    BY <2>1, OwnersArePeople, QueueUpdates, IdleTyped
       DEF Init, Typed, ConnTyped, GameTyped, BusTyped, NewsTyped, People
<1>2. QED
  BY <1>1, TypedStep, PTL DEF Spec

\* Every variable of the sessions keeps its type: in particular the lifecycle channel never
\* holds more than its capacity, and the game core has one connection per UUID.
THEOREM SessionsTypeCorrect == Spec => []TypeOK
<1>1. Typed => TypeOK
  <2> SUFFICES ASSUME Typed PROVE TypeOK
    OBVIOUS
  <2>1. tick.ready \in Crowds /\ tick.todo \in People
    BY TickUpdates DEF Typed
  <2> QED
    BY <2>1 DEF Typed, TypeOK, ConnTyped, GameTyped, BusTyped, NewsTyped, Crowds, People, Batches,
                Intents, Walks, Places
<1>2. QED
  BY <1>1, AlwaysTyped, PTL

---------------------------------------------------------------------------
(* What waits in the bus, and whom the game holds.                         *)

Has(q, i) == \E k \in DOMAIN q : q[k] = i
Once(q, i) == \A k, m \in DOMAIN q : q[k] = i /\ q[m] = i => k = m
\* Every join of c in q has a disconnect of its player after it.
Followed(q, c) ==
  \A k \in DOMAIN q : q[k] = JoinOf(c) => \E m \in DOMAIN q : m > k /\ q[m] = DisconnectOf(Owner[c])

Asked(c) == Has(lifecycle, JoinOf(c)) \/ Has(tick.batch, JoinOf(c))

\* A connection asks once, and has no answer before its join is applied.
AsksOnce(c) ==
  /\ Once(lifecycle, JoinOf(c)) /\ Once(tick.batch, JoinOf(c))
  /\ ~(Has(lifecycle, JoinOf(c)) /\ Has(tick.batch, JoinOf(c)))
  /\ Asked(c) => answer[c] = "none" /\ pc[c] \in {"waiting", "leaving", "gone"}
  /\ pc[c] = "out" => answer[c] = "none"

\* The join of a connection that is gone is undone by a disconnect behind it.
Chased(c) ==
  phase = "up" /\ pc[c] = "gone" =>
    /\ Followed(lifecycle, c)
    /\ Followed(tick.batch, c) \/ Has(lifecycle, DisconnectOf(Owner[c]))

\* Whom the game holds under u is u's, and a connection that has been let in.
Holds(u) ==
  LET c == online[u] IN
  c # NoConn =>
    /\ Owner[c] = u
    /\ c \in JavaConns => pc[c] \in {"entering", "playing", "saving", "writing", "unregistering"}
    /\ c \in BedrockConns =>
         /\ answer[c] = "joined" /\ pc[c] \in {"waiting", "starting", "playing", "leaving", "gone"}
         /\ phase = "up" /\ pc[c] = "gone" =>
              Has(lifecycle, DisconnectOf(u)) \/ Has(tick.batch, DisconnectOf(u))

InTurn ==
  /\ tick.stage # "drain" => tick.batch = <<>> /\ tick.taken = [u \in UUIDs |-> 0]
  /\ tick.stage # "announce" => tick.ready = {}

Watched ==
  InTurn /\ (\A c \in BedrockConns : AsksOnce(c) /\ Chased(c)) /\ \A u \in UUIDs : Holds(u)

LEMMA KindsDiffer ==
  /\ \A c, u : JoinOf(c) # DisconnectOf(u)
  /\ \A c, d : JoinOf(c) = JoinOf(d) => c = d
  /\ \A u, v : DisconnectOf(u) = DisconnectOf(v) => u = v
BY DEF JoinOf, DisconnectOf

LEMMA AppendKeeps ==
  ASSUME NEW q \in Batches, NEW i \in Intents
  PROVE  /\ \A x : Has(Append(q, i), x) <=> Has(q, x) \/ i = x
         /\ \A x : Once(q, x) /\ (i = x => ~Has(q, x)) => Once(Append(q, i), x)
         /\ \A c : Followed(q, c) /\ i # JoinOf(c) => Followed(Append(q, i), c)
         /\ \A c : i = DisconnectOf(Owner[c]) => Followed(Append(q, i), c)
<1> DEFINE n == Len(q)
           r == Append(q, i)
<1>1. /\ n \in Nat /\ DOMAIN q = 1 .. n /\ DOMAIN r = 1 .. n + 1
      /\ r[n + 1] = i /\ \A k \in 1 .. n : r[k] = q[k]
  BY DEF Batches
<1> HIDE DEF n, r
<1>2. \A x : Has(r, x) <=> Has(q, x) \/ i = x
  <2>1. \A k \in 1 .. n : k \in 1 .. n + 1
    BY <1>1
  <2>2. n + 1 \in 1 .. n + 1 /\ \A k \in 1 .. n + 1 : k \in 1 .. n \/ k = n + 1
    BY <1>1
  <2> QED
    BY <1>1, <2>1, <2>2 DEF Has
<1>3. ASSUME NEW x, Once(q, x), i = x => ~Has(q, x) PROVE Once(r, x)
  BY <1>1, <1>3 DEF Once, Has
<1>4. ASSUME NEW c, Followed(q, c), i # JoinOf(c) PROVE Followed(r, c)
  <2> SUFFICES ASSUME NEW k \in DOMAIN r, r[k] = JoinOf(c)
               PROVE  \E m \in DOMAIN r : m > k /\ r[m] = DisconnectOf(Owner[c])
    BY DEF Followed
  <2>1. k \in DOMAIN q /\ q[k] = JoinOf(c)
    BY <1>1, <1>4
  <2>2. PICK m \in DOMAIN q : m > k /\ q[m] = DisconnectOf(Owner[c])
    BY <1>4, <2>1 DEF Followed
  <2> QED
    BY <1>1, <2>2
<1>5. ASSUME NEW c, i = DisconnectOf(Owner[c]) PROVE Followed(r, c)
  <2> SUFFICES ASSUME NEW k \in DOMAIN r, r[k] = JoinOf(c)
               PROVE  \E m \in DOMAIN r : m > k /\ r[m] = DisconnectOf(Owner[c])
    BY DEF Followed
  <2>1. k # n + 1
    BY <1>1, <1>5, KindsDiffer
  <2> QED
    BY <1>1, <1>5, <2>1
<1>6. QED
  BY <1>2, <1>3, <1>4, <1>5 DEF r

LEMMA TailKeeps ==
  ASSUME NEW q \in Batches, q # <<>>
  PROVE  /\ \A x : Has(q, x) <=> x = Head(q) \/ Has(Tail(q), x)
         /\ \A x : Once(q, x) => Once(Tail(q), x) /\ (Head(q) = x => ~Has(Tail(q), x))
         /\ \A c : Followed(q, c) =>
              /\ Followed(Tail(q), c)
              /\ Head(q) = JoinOf(c) => Has(Tail(q), DisconnectOf(Owner[c]))
<1> DEFINE n == Len(q)
           r == Tail(q)
<1>1. /\ n \in Nat \ {0} /\ DOMAIN q = 1 .. n /\ DOMAIN r = 1 .. n - 1
      /\ Head(q) = q[1] /\ \A k \in 1 .. n - 1 : r[k] = q[k + 1]
  BY DEF Batches
<1> HIDE DEF n, r
<1>2. /\ \A k \in 1 .. n - 1 : k + 1 \in 1 .. n
      /\ \A k \in 1 .. n : k = 1 \/ (k - 1 \in 1 .. n - 1 /\ (k - 1) + 1 = k)
      /\ 1 \in 1 .. n
  BY <1>1
<1>3. \A k \in DOMAIN q : k = 1 \/ (k - 1 \in DOMAIN r /\ r[k - 1] = q[k])
  BY <1>1, <1>2
<1>4. \A x : Has(q, x) <=> x = Head(q) \/ Has(r, x)
  BY <1>1, <1>2, <1>3 DEF Has
<1>5. ASSUME NEW x, Once(q, x) PROVE Once(r, x) /\ (Head(q) = x => ~Has(r, x))
  <2>1. ASSUME NEW k \in DOMAIN r, NEW m \in DOMAIN r, r[k] = x, r[m] = x PROVE k = m
    <3>1. k + 1 \in DOMAIN q /\ m + 1 \in DOMAIN q /\ q[k + 1] = x /\ q[m + 1] = x
      BY <1>1, <1>2, <2>1
    <3>2. k + 1 = m + 1
      BY <1>5, <3>1 DEF Once
    <3> QED
      BY <1>1, <3>2
  <2>2. ASSUME NEW k \in DOMAIN r, r[k] = x, Head(q) = x PROVE FALSE
    <3>1. k + 1 \in DOMAIN q /\ q[k + 1] = x /\ 1 \in DOMAIN q /\ q[1] = x
      BY <1>1, <1>2, <2>2
    <3>2. k + 1 = 1
      BY <1>5, <3>1 DEF Once
    <3> QED
      BY <1>1, <3>2
  <2> QED
    BY <2>1, <2>2 DEF Once, Has
<1>6. ASSUME NEW c, Followed(q, c)
      PROVE  Followed(r, c) /\ (Head(q) = JoinOf(c) => Has(r, DisconnectOf(Owner[c])))
  <2>1. ASSUME NEW k \in DOMAIN q, q[k] = JoinOf(c)
        PROVE  \E m \in DOMAIN r : m + 1 > k /\ r[m] = DisconnectOf(Owner[c])
    <3>1. PICK m \in DOMAIN q : m > k /\ q[m] = DisconnectOf(Owner[c])
      BY <1>6, <2>1 DEF Followed
    <3>2. m # 1
      BY <1>1, <3>1
    <3> QED
      BY <1>1, <1>3, <3>1, <3>2
  <2>2. ASSUME NEW k \in DOMAIN r, r[k] = JoinOf(c)
        PROVE  \E m \in DOMAIN r : m > k /\ r[m] = DisconnectOf(Owner[c])
    <3>1. k + 1 \in DOMAIN q /\ q[k + 1] = JoinOf(c)
      BY <1>1, <1>2, <2>2
    <3>2. PICK m \in DOMAIN r : m + 1 > k + 1 /\ r[m] = DisconnectOf(Owner[c])
      BY <2>1, <3>1
    <3> QED
      BY <1>1, <3>2
  <2>3. Head(q) = JoinOf(c) => Has(r, DisconnectOf(Owner[c]))
    BY <1>1, <1>2, <2>1 DEF Has
  <2> QED
    BY <2>2, <2>3 DEF Followed
<1>7. QED
  BY <1>4, <1>5, <1>6 DEF r

LEMMA EmptyKeeps == \A x : ~Has(<<>>, x) /\ Once(<<>>, x)
BY DEF Has, Once

LEMMA NoJoinNoChase == \A q, c : ~Has(q, JoinOf(c)) => Followed(q, c)
BY DEF Has, Followed

\* Steps that leave the bus and the tick alone, and Bedrock connections where they are.
LEMMA BusLeftAlone ==
  ASSUME Typed, Watched, UNCHANGED <<lifecycle, tick, answer>>,
         phase' = "up" => phase = "up", \A d \in BedrockConns : pc'[d] = pc[d]
  PROVE  InTurn' /\ \A d \in BedrockConns : AsksOnce(d)' /\ Chased(d)'
<1>1. InTurn'
  BY DEF Watched, InTurn
<1>2. ASSUME NEW d \in BedrockConns PROVE AsksOnce(d)' /\ Chased(d)'
  BY DEF Watched, AsksOnce, Chased, Asked
<1>3. QED
  BY <1>1, <1>2

LEMMA JavaWatched ==
  ASSUME Typed, Watched, NEW c \in JavaConns,
         JavaLoad(c) \/ JavaWalk(c) \/ JavaLeave(c) \/ JavaStep(c)
  PROVE  Watched'
<1>0. c \notin BedrockConns /\ c \in Conns /\ Owner[c] \in UUIDs /\ NoConn \notin Conns
  BY SessionsAssumption DEF Conns
<1>1. UNCHANGED <<lifecycle, tick, answer, phase>> /\ \A d \in Conns : d # c => pc'[d] = pc[d]
  BY DEF JavaStep, JavaLoad, JavaWalk, JavaLeave, JavaRegister, JavaEnter, JavaSnapshot, JavaWrite,
         JavaUnregister, Go, Typed, ConnTyped
<1>2. InTurn' /\ \A d \in BedrockConns : AsksOnce(d)' /\ Chased(d)'
  BY <1>0, <1>1, BusLeftAlone, OwnersArePeople
<1>3. \A u \in UUIDs : online'[u] = online[u] \/ (u = Owner[c] /\ online'[u] \in {c, NoConn})
  BY <1>0 DEF Typed, GameTyped, JavaStep, JavaLoad, JavaWalk, JavaLeave, JavaRegister, JavaEnter,
         JavaSnapshot, JavaWrite, JavaUnregister, Unregister
<1>4. online'[Owner[c]] = c =>
        pc'[c] \in {"entering", "playing", "saving", "writing", "unregistering"}
  <2>1. online[Owner[c]] = c =>
          pc[c] \in {"entering", "playing", "saving", "writing", "unregistering"}
    BY <1>0 DEF Watched, Holds
  <2> QED
    BY <1>0, <2>1 DEF Typed, GameTyped, ConnTyped, JavaStep, JavaLoad, JavaWalk, JavaLeave, JavaRegister,
         JavaEnter, JavaSnapshot, JavaWrite, JavaUnregister, Unregister, Go
<1>5. ASSUME NEW u \in UUIDs PROVE Holds(u)'
  <2>1. CASE online'[u] = c
    <3>1. Owner[c] = u
      BY <1>0, <1>3, <2>1 DEF Watched, Holds
    <3> QED
      BY <1>0, <1>4, <2>1, <3>1 DEF Holds
  <2>2. CASE online'[u] # c /\ online'[u] # NoConn
    <3>1. online'[u] = online[u] /\ online[u] \in Conns /\ pc'[online[u]] = pc[online[u]]
      BY <1>1, <1>3, <2>2 DEF Typed, GameTyped
    <3> QED
      BY <1>1, <2>2, <3>1 DEF Watched, Holds
  <2>3. CASE online'[u] = NoConn
    BY <2>3 DEF Holds
  <2> QED
    BY <2>1, <2>2, <2>3
<1>6. QED
  BY <1>2, <1>5 DEF Watched

\* A connection that takes its answer, plays, leaves or gives up posts nothing.
LEMMA BedrockAloneWatched ==
  ASSUME Typed, Watched, NEW c \in BedrockConns,
         \/ PostJoinExpires(c) \/ JoinTimesOut(c) \/ UpdateMove(c) \/ BedrockLeave(c)
         \/ TakeAnswer(c) \/ StartPlay(c) \/ ContextDone(c)
  PROVE  Watched'
<1> USE DEF PostJoinExpires, JoinTimesOut, UpdateMove, BedrockLeave, TakeAnswer, StartPlay, ContextDone, Go
<1>0. c \in Conns /\ Owner[c] \in UUIDs /\ NoConn \notin Conns /\ c \notin JavaConns
  BY SessionsAssumption DEF Conns
<1>1. UNCHANGED <<lifecycle, tick, answer, phase, online>> /\ \A d \in Conns : d # c => pc'[d] = pc[d]
  BY DEF Typed, ConnTyped
<1>2. Asked(c) => answer[c] = "none" /\ pc'[c] \in {"waiting", "leaving", "gone"}
  <2>1. Asked(c) => answer[c] = "none" /\ pc[c] \in {"waiting", "leaving", "gone"}
    BY DEF Watched, AsksOnce
  <2> QED
    BY <1>0, <2>1 DEF Typed, ConnTyped
<1>3. pc'[c] = "out" => pc[c] = "out"
  BY <1>0 DEF Typed, ConnTyped
<1>4. phase = "up" /\ pc'[c] = "gone" => pc[c] = "gone" \/ ~Asked(c)
  <2>1. Asked(c) => answer[c] = "none" /\ pc[c] \in {"waiting", "leaving", "gone"}
    BY DEF Watched, AsksOnce
  <2> QED
    BY <1>0, <2>1 DEF Typed, ConnTyped
<1>5. online[Owner[c]] = c =>
        /\ pc'[c] \in {"waiting", "starting", "playing", "leaving", "gone"}
        /\ phase = "up" /\ pc'[c] = "gone" => pc[c] = "gone"
  <2>1. online[Owner[c]] = c =>
          answer[c] = "joined" /\ pc[c] \in {"waiting", "starting", "playing", "leaving", "gone"}
    BY <1>0 DEF Watched, Holds
  <2> QED
    BY <1>0, <2>1 DEF Typed, ConnTyped
<1> HIDE DEF PostJoinExpires, JoinTimesOut, UpdateMove, BedrockLeave, TakeAnswer, StartPlay, ContextDone
<1>6. ASSUME NEW d \in BedrockConns PROVE AsksOnce(d)' /\ Chased(d)'
  <2>1. CASE d # c
    <3>1. pc'[d] = pc[d]
      BY <1>1, <2>1, OwnersArePeople
    <3> QED
      BY <1>1, <3>1 DEF Watched, AsksOnce, Chased, Asked
  <2>2. CASE d = c
    <3>1. AsksOnce(c)'
      BY <1>1, <1>2, <1>3 DEF Watched, AsksOnce, Asked
    <3>2. Chased(c)'
      BY <1>1, <1>4, NoJoinNoChase DEF Watched, Chased, Asked
    <3> QED
      BY <2>2, <3>1, <3>2
  <2> QED
    BY <2>1, <2>2
<1>7. ASSUME NEW u \in UUIDs PROVE Holds(u)'
  <2>1. CASE online[u] = c
    BY <1>0, <1>1, <1>5, <2>1 DEF Watched, Holds
  <2>2. CASE online[u] # c /\ online[u] # NoConn
    <3>1. pc'[online[u]] = pc[online[u]]
      BY <1>1, <2>2 DEF Typed, GameTyped
    <3> QED
      BY <1>1, <2>2, <3>1 DEF Watched, Holds
  <2>3. CASE online[u] = NoConn
    BY <1>1, <2>3 DEF Holds
  <2> QED
    BY <2>1, <2>2, <2>3
<1>8. InTurn'
  BY <1>1 DEF Watched, InTurn
<1>9. QED
  BY <1>6, <1>7, <1>8 DEF Watched

\* A connection that posts its join, or the disconnect that undoes it.
LEMMA PostWatched ==
  ASSUME Typed, Watched, NEW c \in BedrockConns, PostJoin(c) \/ PostDisconnect(c)
  PROVE  Watched'
<1>0. c \in Conns /\ Owner[c] \in UUIDs /\ NoConn \notin Conns /\ c \notin JavaConns
  BY SessionsAssumption DEF Conns
<1>1. UNCHANGED <<tick, answer, phase, online>> /\ \A d \in Conns : d # c => pc'[d] = pc[d]
  BY DEF PostJoin, PostDisconnect, Go, Typed, ConnTyped
<1>2. PICK i \in {JoinOf(c), DisconnectOf(Owner[c])} :
        /\ lifecycle' = Append(lifecycle, i)
        /\ i = JoinOf(c) => pc[c] = "out" /\ pc'[c] = "waiting"
        /\ i = DisconnectOf(Owner[c]) => pc[c] = "leaving" /\ pc'[c] = "gone"
  BY <1>0, KindsDiffer DEF PostJoin, PostDisconnect, Go, Typed, ConnTyped
<1>3. lifecycle \in Batches /\ i \in Intents
  BY <1>0, <1>2, IntentKinds DEF Typed, BusTyped
<1>4. ASSUME NEW d \in BedrockConns PROVE AsksOnce(d)'
  <2>1. AsksOnce(d)
    BY DEF Watched
  <2>2. d # c => pc'[d] = pc[d] /\ i # JoinOf(d)
    BY <1>1, <1>2, OwnersArePeople, KindsDiffer
  <2>3. i = JoinOf(d) => ~Asked(d) /\ ~Has(lifecycle, JoinOf(d)) /\ ~Has(tick.batch, JoinOf(d))
    BY <1>2, <2>1, <2>2 DEF AsksOnce, Asked
  <2>4. Once(lifecycle, JoinOf(d))'
    BY <1>2, <1>3, <2>1, <2>3, AppendKeeps DEF AsksOnce
  <2>5. Has(lifecycle, JoinOf(d))' <=> Has(lifecycle, JoinOf(d)) \/ i = JoinOf(d)
    BY <1>2, <1>3, AppendKeeps
  <2>6. i = JoinOf(d) => answer[d] = "none"
    BY <1>2, <2>1, <2>2 DEF AsksOnce
  <2> QED
    BY <1>1, <1>2, <2>1, <2>2, <2>3, <2>4, <2>5, <2>6, KindsDiffer DEF AsksOnce, Asked
<1>5. ASSUME NEW d \in BedrockConns PROVE Chased(d)'
  <2> SUFFICES ASSUME phase = "up", pc'[d] = "gone"
               PROVE  Followed(lifecycle, d)' /\ (Followed(tick.batch, d)' \/ Has(lifecycle, DisconnectOf(Owner[d]))')
    BY <1>1 DEF Chased
  <2>1. CASE d = c
    <3>1. i = DisconnectOf(Owner[d])
      BY <1>2, <2>1
    <3> QED
      BY <1>2, <1>3, <3>1, AppendKeeps
  <2>2. CASE d # c
    <3>1. pc[d] = "gone" /\ i # JoinOf(d)
      BY <1>1, <1>2, <2>2, OwnersArePeople, KindsDiffer
    <3>2. Followed(lifecycle, d) /\ (Followed(tick.batch, d) \/ Has(lifecycle, DisconnectOf(Owner[d])))
      BY <3>1 DEF Watched, Chased
    <3> QED
      BY <1>1, <1>2, <1>3, <3>1, <3>2, AppendKeeps
  <2> QED
    BY <2>1, <2>2
<1>6. ASSUME NEW u \in UUIDs PROVE Holds(u)'
  <2>0. \A x : Has(lifecycle, x) => Has(lifecycle, x)'
    BY <1>2, <1>3, AppendKeeps
  <2>1. CASE online[u] = c
    <3>1. i = DisconnectOf(u) /\ Owner[c] = u /\ answer[c] = "joined"
      BY <1>0, <1>2, <2>1 DEF Watched, Holds
    <3>2. Has(lifecycle, DisconnectOf(u))'
      BY <1>2, <1>3, <3>1, AppendKeeps
    <3> QED
      BY <1>0, <1>1, <1>2, <2>1, <3>1, <3>2, KindsDiffer DEF Holds
  <2>2. CASE online[u] # c /\ online[u] # NoConn
    <3>1. pc'[online[u]] = pc[online[u]]
      BY <1>1, <2>2 DEF Typed, GameTyped
    <3> QED
      BY <1>1, <2>0, <2>2, <3>1 DEF Watched, Holds
  <2>3. CASE online[u] = NoConn
    BY <1>1, <2>3 DEF Holds
  <2> QED
    BY <2>1, <2>2, <2>3
<1>7. InTurn'
  BY <1>1 DEF Watched, InTurn
<1>8. QED
  BY <1>4, <1>5, <1>6, <1>7 DEF Watched

LEMMA ApplyWatched ==
  ASSUME Typed, Watched, ApplyLifecycle
  PROVE  Watched'
<1> DEFINE i == Head(tick.batch)
<1>1. tick.batch # <<>> /\ tick.batch \in Batches /\ i \in Intents
  BY QueueUpdates, TickUpdates DEF ApplyLifecycle, Typed
<1>2. /\ tick'.batch = Tail(tick.batch) /\ tick'.stage = tick.stage /\ tick.stage = "drain"
      /\ tick'.ready = tick.ready
      /\ UNCHANGED <<lifecycle, phase, pc>>
  <2>1. tick' = [tick EXCEPT !.batch = Tail(tick.batch)]
    BY DEF ApplyLifecycle
  <2>2. DOMAIN tick = {"stage", "ready", "batch", "todo", "held", "taken"}
    BY DEF Typed, Ticks
  <2>3. UNCHANGED <<lifecycle, phase, pc>>
    BY DEF ApplyLifecycle, ApplyJoin, ApplyDisconnect, Added, Duplicate, Reply
  <2> QED
    BY <2>1, <2>2, <2>3 DEF ApplyLifecycle, Drained, At
<1> HIDE DEF i
<1>3. /\ \A x : Has(tick.batch, x) <=> x = i \/ Has(tick'.batch, x)
      /\ \A x : Once(tick.batch, x) => Once(tick'.batch, x) /\ (i = x => ~Has(tick'.batch, x))
      /\ \A c : Followed(tick.batch, c) =>
           /\ Followed(tick'.batch, c)
           /\ i = JoinOf(c) => Has(tick'.batch, DisconnectOf(Owner[c]))
  BY <1>1, <1>2, TailKeeps DEF i
<1>4. InTurn'
  BY <1>2 DEF Watched, InTurn
<1>5. ASSUME NEW d \in BedrockConns PROVE Chased(d)'
  BY <1>2, <1>3, KindsDiffer DEF Watched, Chased
<1>6. CASE i.kind = "join"
  <2> DEFINE c == i.conn
  <2>1. c \in BedrockConns /\ i = JoinOf(c) /\ ApplyJoin(c)
    BY <1>1, <1>6, IntentKinds DEF ApplyLifecycle, i
  <2> HIDE DEF c
  <2>2. c \in Conns /\ c \notin JavaConns /\ Owner[c] \in UUIDs /\ NoConn \notin Conns
    BY <2>1, SessionsAssumption DEF Conns
  <2>3. \A d \in Conns : d # c => answer'[d] = answer[d]
    BY <2>1, <2>2 DEF ApplyJoin, Added, Duplicate, Reply, Typed, ConnTyped
  <2>4. answer[c] = "none" /\ pc[c] \in {"waiting", "leaving", "gone"} /\ ~Has(lifecycle, JoinOf(c))
        /\ ~Has(tick'.batch, JoinOf(c))
    BY <1>3, <2>1 DEF Watched, AsksOnce, Asked
  <2>5. ASSUME NEW d \in BedrockConns PROVE AsksOnce(d)'
    <3>1. AsksOnce(d) /\ Once(tick'.batch, JoinOf(d)) /\ (Has(tick'.batch, JoinOf(d)) => Has(tick.batch, JoinOf(d)))
      BY <1>3 DEF Watched, AsksOnce
    <3>2. CASE d = c
      BY <1>2, <2>4, <3>1, <3>2 DEF AsksOnce, Asked
    <3>3. CASE d # c
      BY <1>2, <2>3, <3>1, <3>3, OwnersArePeople DEF AsksOnce, Asked
    <3> QED
      BY <3>2, <3>3
  <2>6. \A u \in UUIDs : online'[u] = online[u] \/ (u = Owner[c] /\ online'[u] = c /\ answer'[c] = "joined")
    BY <2>1, <2>2 DEF ApplyJoin, Added, Duplicate, Reply, Typed, GameTyped, ConnTyped
  <2>7. ASSUME NEW u \in UUIDs PROVE Holds(u)'
    <3>1. CASE online'[u] # online[u]
      <4>1. u = Owner[c] /\ online'[u] = c /\ answer'[c] = "joined"
        BY <2>6, <3>1
      <4>2. phase = "up" /\ pc[c] = "gone" =>
              Has(lifecycle, DisconnectOf(u)) \/ Has(tick'.batch, DisconnectOf(u))
        BY <1>3, <2>1, <4>1 DEF Watched, Chased
      <4> QED
        BY <1>2, <2>2, <2>4, <4>1, <4>2 DEF Holds
    <3>2. CASE online'[u] = online[u] /\ online[u] # NoConn
      <4>1. online[u] \in Conns
        BY <3>2 DEF Typed, GameTyped
      <4>2. Holds(u)
        BY DEF Watched
      <4>3. online[u] # c
        BY <2>1, <2>4, <3>2, <4>2 DEF Holds
      <4>4. Has(tick.batch, DisconnectOf(u)) => Has(tick'.batch, DisconnectOf(u))
        BY <1>3, <2>1, KindsDiffer
      <4> QED
        BY <1>2, <2>3, <3>2, <4>1, <4>2, <4>3, <4>4 DEF Holds
    <3>3. CASE online'[u] = NoConn
      BY <3>3 DEF Holds
    <3> QED
      BY <3>1, <3>2, <3>3
  <2> QED
    BY <1>4, <1>5, <2>5, <2>7 DEF Watched
<1>7. CASE i.kind # "join"
  <2> DEFINE v == i.uuid
  <2>1. v \in UUIDs /\ i = DisconnectOf(v) /\ ApplyDisconnect(v)
    BY <1>1, <1>7, IntentKinds DEF ApplyLifecycle, i
  <2> HIDE DEF v
  <2>2. answer' = answer /\ online' = [online EXCEPT ![v] = NoConn]
    BY <2>1 DEF ApplyDisconnect, Unregister
  <2>3. ASSUME NEW d \in BedrockConns PROVE AsksOnce(d)'
    BY <1>2, <1>3, <2>1, <2>2, KindsDiffer DEF Watched, AsksOnce, Asked
  <2>4. ASSUME NEW u \in UUIDs PROVE Holds(u)'
    <3>1. CASE u = v
      BY <2>2, <3>1 DEF Holds, Typed, GameTyped
    <3>2. CASE u # v
      <4>1. Has(tick.batch, DisconnectOf(u)) => Has(tick'.batch, DisconnectOf(u))
        BY <1>3, <2>1, <3>2, KindsDiffer
      <4>2. online'[u] = online[u]
        BY <2>2, <3>2 DEF Typed, GameTyped
      <4> QED
        BY <1>2, <2>2, <4>1, <4>2 DEF Watched, Holds
    <3> QED
      BY <3>1, <3>2
  <2> QED
    BY <1>4, <1>5, <2>3, <2>4 DEF Watched
<1>8. QED
  BY <1>6, <1>7

LEMMA FreshTick ==
  \A t \in {IdleTick, SaveEveryone} : t.batch = <<>> /\ t.ready = {} /\ t.taken = [u \in UUIDs |-> 0]
<1>1. IdleTick.batch = <<>> /\ IdleTick.ready = {} /\ IdleTick.taken = [u \in UUIDs |-> 0]
  BY DEF IdleTick
<1>2. DOMAIN IdleTick = {"stage", "ready", "batch", "todo", "held", "taken"}
  BY DEF IdleTick
<1>3. /\ SaveEveryone.batch = IdleTick.batch /\ SaveEveryone.ready = IdleTick.ready
      /\ SaveEveryone.taken = IdleTick.taken
  <2> DEFINE t == IdleTick
  <2>1. DOMAIN t = {"stage", "ready", "batch", "todo", "held", "taken"}
    BY <1>2
  <2>2. SaveEveryone = [t EXCEPT !.stage = "save", !.todo = Online]
    BY DEF SaveEveryone
  <2> HIDE DEF t
  <2>3. SaveEveryone.batch = t.batch /\ SaveEveryone.ready = t.ready /\ SaveEveryone.taken = t.taken
    BY <2>1, <2>2
  <2> QED
    BY <2>3 DEF t
<1> QED
  BY <1>1, <1>3

\* The rest of the tick takes the channel over as its batch, once the last is done with.
LEMMA TickWatched == ASSUME Typed, Watched, TickStep PROVE Watched'
<1>0. DOMAIN tick = {"stage", "ready", "batch", "todo", "held", "taken"}
  BY DEF Typed, Ticks
<1>1. CASE ApplyLifecycle
  BY <1>1, ApplyWatched
<1>2. CASE DrainLifecycle
  <2>1. /\ lifecycle' = <<>> /\ tick'.batch = lifecycle /\ tick'.stage = "drain" /\ tick'.ready = {}
        /\ tick.batch = <<>>
        /\ UNCHANGED <<pc, answer, online, phase>>
    BY <1>0, <1>2 DEF DrainLifecycle, Watched, InTurn, At
  <2>2. \A x : ~Has(<<>>, x) /\ Once(<<>>, x)
    BY EmptyKeeps
  <2>3. InTurn'
    BY <2>1 DEF InTurn
  <2>4. ASSUME NEW d \in BedrockConns PROVE AsksOnce(d)' /\ Chased(d)'
    <3>1. AsksOnce(d)'
      BY <2>1, <2>2 DEF Watched, AsksOnce, Asked
    <3>2. Chased(d)'
      BY <2>1, <2>2, NoJoinNoChase DEF Watched, Chased
    <3> QED
      BY <3>1, <3>2
  <2>5. ASSUME NEW u \in UUIDs PROVE Holds(u)'
    BY <2>1, <2>2 DEF Watched, Holds
  <2> QED
    BY <2>3, <2>4, <2>5 DEF Watched
<1>3. ASSUME UNCHANGED <<lifecycle, pc, answer, online>>, phase' = "up" => phase = "up",
             tick'.batch = tick.batch, InTurn'
      PROVE  Watched'
  <2>1. ASSUME NEW d \in BedrockConns PROVE AsksOnce(d)' /\ Chased(d)'
    BY <1>3 DEF Watched, AsksOnce, Chased, Asked
  <2>2. ASSUME NEW u \in UUIDs PROVE Holds(u)'
    BY <1>3 DEF Watched, Holds
  <2> QED
    BY <1>3, <2>1, <2>2 DEF Watched
<1>4. CASE AnnounceReachable
  <2>1. tick.batch = <<>> /\ tick'.batch = tick.batch /\ tick'.stage = "announce" /\ tick'.taken = tick.taken
        /\ tick.taken = [u \in UUIDs |-> 0]
    BY <1>0, <1>4 DEF AnnounceReachable, At, Watched, InTurn
  <2> QED
    BY <1>3, <1>4, <2>1 DEF AnnounceReachable, InTurn
<1>5. ASSUME NEW c \in Conns, EmitJoin(c) PROVE Watched'
  <2>1. tick.batch = <<>> /\ tick'.batch = tick.batch /\ tick'.stage = "announce" /\ tick'.taken = tick.taken
        /\ tick.taken = [u \in UUIDs |-> 0]
    BY <1>0, <1>5 DEF EmitJoin, At, Watched, InTurn
  <2> QED
    BY <1>3, <1>5, <2>1 DEF EmitJoin, InTurn
<1>6. ASSUME NEW u \in UUIDs, RangeReads(u) PROVE Watched'
  <2>1. tick'.batch = tick.batch /\ tick'.stage = "drain" /\ tick'.ready = tick.ready /\ tick.stage = "drain"
    BY <1>0, <1>6 DEF RangeReads, At
  <2> QED
    BY <1>3, <1>6, <2>1 DEF RangeReads, Watched, InTurn
<1>7. CASE RangeDeletes
  <2>1. tick'.batch = tick.batch /\ tick'.stage = "drain" /\ tick'.ready = tick.ready /\ tick.stage = "drain"
    BY <1>0, <1>7 DEF RangeDeletes, At
  <2> QED
    BY <1>3, <1>7, <2>1 DEF RangeDeletes, Watched, InTurn
<1>8. CASE ApplyMoves \/ Saved \/ ShutdownSave
  <2>1. tick.batch = <<>>
    BY <1>8 DEF ApplyMoves, Saved, ShutdownSave, Drained, At, Watched, InTurn
  <2>2. tick' \in {IdleTick, SaveEveryone}
    BY <1>8 DEF ApplyMoves, Saved, ShutdownSave
  <2>3. tick'.batch = <<>> /\ InTurn'
    BY <2>2, FreshTick DEF InTurn
  <2>4. phase' = "up" => phase = "up"
    BY <1>8 DEF ApplyMoves, Saved, ShutdownSave
  <2> QED
    BY <1>3, <1>8, <2>1, <2>3, <2>4 DEF ApplyMoves, Saved, ShutdownSave
<1>9. ASSUME NEW u \in UUIDs, SaveSnapshots(u) PROVE Watched'
  <2>1. tick'.batch = tick.batch /\ tick'.stage = tick.stage /\ tick'.ready = tick.ready /\ tick'.taken = tick.taken
    BY <1>0, <1>9 DEF SaveSnapshots
  <2> QED
    BY <1>3, <1>9, <2>1 DEF SaveSnapshots, Watched, InTurn
<1>10. CASE SaveWrites
  <2>1. tick'.batch = tick.batch /\ tick'.stage = tick.stage /\ tick'.ready = tick.ready /\ tick'.taken = tick.taken
    BY <1>0, <1>10 DEF SaveWrites
  <2> QED
    BY <1>3, <1>10, <2>1 DEF SaveWrites, Watched, InTurn
<1>11. QED
  BY <1>1, <1>2, <1>4, <1>5, <1>6, <1>7, <1>8, <1>9, <1>10 DEF TickStep

LEMMA AlwaysWatched == Spec => []Watched
<1>1. Init => Watched
  <2> SUFFICES ASSUME Init PROVE Watched
    OBVIOUS
  <2>1. InTurn
    BY DEF Init, IdleTick, InTurn
  <2>2. \A c \in BedrockConns : answer[c] = "none" /\ pc[c] \in {"out", "absent"}
    BY OwnersArePeople DEF Init
  <2>3. tick.batch = <<>> /\ lifecycle = <<>>
    BY DEF Init, IdleTick
  <2> QED
    BY <2>1, <2>2, <2>3, EmptyKeeps DEF Init, Watched, AsksOnce, Asked, Chased, Holds
<1>2. Typed /\ Watched /\ [Next]_vars => Watched'
  <2> SUFFICES ASSUME Typed, Watched, [Next]_vars PROVE Watched'
    OBVIOUS
  <2>1. CASE UNCHANGED vars
    BY <2>1 DEF vars, Watched, InTurn, AsksOnce, Asked, Chased, Holds
  <2>2. CASE Stop
    BY <2>2 DEF Stop, Watched, InTurn, AsksOnce, Asked, Chased, Holds
  <2>3. ASSUME NEW c \in BedrockConns,
               \/ PostJoin(c) \/ PostJoinExpires(c) \/ JoinTimesOut(c) \/ UpdateMove(c)
               \/ BedrockLeave(c) \/ BedrockStep(c)
        PROVE  Watched'
    BY <2>3, BedrockAloneWatched, PostWatched DEF BedrockStep
  <2> QED
    BY <2>1, <2>2, <2>3, JavaWatched, TickWatched DEF Next, ClientStep
<1>3. QED
  BY <1>1, <1>2, AlwaysTyped, PTL DEF Spec

\* While the server runs, the game core has no player whose connection has gone and whose
\* removal nobody has asked for: a join that timed out is undone by the disconnect behind it.
THEOREM NoGhostStays == Spec => []NoGhostPlayer
<1>1. Typed /\ Watched => NoGhostPlayer
  <2> SUFFICES ASSUME Typed, Watched, phase = "up", NEW u \in UUIDs, online[u] # NoConn, pc[online[u]] = "gone"
               PROVE  Queued(DisconnectOf(u)) \/ Drawn(DisconnectOf(u))
    BY DEF NoGhostPlayer
  <2>1. online[u] \in BedrockConns
    BY DEF Typed, GameTyped, Conns, Watched, Holds
  <2>2. Has(lifecycle, DisconnectOf(u)) \/ Has(tick.batch, DisconnectOf(u))
    BY <2>1 DEF Watched, Holds
  <2> QED
    BY <2>2 DEF Has, Queued, Drawn
<1>2. QED
  BY <1>1, AlwaysTyped, AlwaysWatched, PTL

---------------------------------------------------------------------------
(* What plugins hear of a Bedrock connection.                              *)

\* Nothing before it is let in, no departure while the game holds it, and the
\* arrival is either still to be told, about to be, or has been told.
Told(c) ==
  LET u == Owner[c] IN
  /\ answer[c] # "joined" => joins[c] = 0 /\ quits[c] = 0
  /\ online[u] = c => quits[c] = 0
  /\ online[u] = c /\ u \in pending => joins[c] = 0 /\ c \notin tick.ready
  /\ c \in tick.ready => online[u] = c /\ joins[c] = 0
  /\ quits[c] <= 1

AllTold == \A c \in BedrockConns : Told(c)

LEMMA NewsLeftAlone ==
  ASSUME AllTold, UNCHANGED <<answer, online, newsVars>>, tick'.ready \subseteq tick.ready
  PROVE  AllTold'
BY DEF AllTold, Told

\* A Java connection has a player of its own.
LEMMA JavaTellsOfItsOwn ==
  ASSUME Typed, Watched, AllTold, NEW j \in JavaConns,
         JavaLoad(j) \/ JavaWalk(j) \/ JavaLeave(j) \/ JavaStep(j)
  PROVE  AllTold'
<1>1. CASE JavaRegister(j)
  <2>1. ASSUME NEW c \in BedrockConns PROVE Told(c)'
    <3>1. Owner[c] # Owner[j] /\ Owner[c] \in UUIDs
      BY SessionsAssumption, OwnersArePeople
    <3>2. online'[Owner[c]] = online[Owner[c]] /\ (Owner[c] \in pending' <=> Owner[c] \in pending)
      BY <1>1, <3>1 DEF JavaRegister, Typed, GameTyped
    <3>3. UNCHANGED <<answer, joins, quits, tick>>
      BY <1>1 DEF JavaRegister
    <3> QED
      BY <3>2, <3>3 DEF AllTold, Told
  <2> QED
    BY <2>1 DEF AllTold
<1>2. CASE JavaUnregister(j)
  <2>1. ASSUME NEW c \in BedrockConns PROVE Told(c)'
    <3>1. Owner[c] # Owner[j] /\ Owner[c] \in UUIDs /\ Owner[j] \in UUIDs /\ c \in Conns
      BY SessionsAssumption, OwnersArePeople
    <3>2. online'[Owner[c]] = online[Owner[c]]
      BY <1>2, <3>1 DEF JavaUnregister, Unregister, Typed, GameTyped
    <3>3. online[Owner[j]] # c
      BY <3>1, SessionsAssumption DEF Watched, Holds, Conns
    <3>4. quits'[c] = quits[c]
      BY <1>2, <3>1, <3>3 DEF JavaUnregister, Unregister, Typed, NewsTyped
    <3>5. UNCHANGED <<answer, joins, pending, tick>>
      BY <1>2 DEF JavaUnregister
    <3> QED
      BY <3>2, <3>4, <3>5 DEF AllTold, Told
  <2> QED
    BY <2>1 DEF AllTold
<1>3. CASE JavaLoad(j) \/ JavaWalk(j) \/ JavaLeave(j) \/ JavaEnter(j) \/ JavaSnapshot(j) \/ JavaWrite(j)
  BY <1>3, NewsLeftAlone DEF JavaLoad, JavaWalk, JavaLeave, JavaEnter, JavaSnapshot, JavaWrite
<1>4. QED
  BY <1>1, <1>2, <1>3 DEF JavaStep

\* The bus changes whom the game holds while nobody is about to be announced.
LEMMA ApplyTells ==
  ASSUME Typed, Watched, AllTold, ApplyLifecycle
  PROVE  AllTold'
<1> DEFINE i == Head(tick.batch)
<1>1. tick.batch # <<>> /\ tick.batch \in Batches /\ i \in Intents
  BY QueueUpdates, TickUpdates DEF ApplyLifecycle, Typed
<1>2. tick.ready = {} /\ tick'.ready = {}
  <2>1. tick' = [tick EXCEPT !.batch = Tail(tick.batch)] /\ tick.stage = "drain"
    BY DEF ApplyLifecycle, Drained, At
  <2>2. DOMAIN tick = {"stage", "ready", "batch", "todo", "held", "taken"}
    BY DEF Typed, Ticks
  <2> QED
    BY <2>1, <2>2 DEF Watched, InTurn
<1>3. Has(tick.batch, i)
  BY <1>1, TailKeeps DEF Batches
<1> HIDE DEF i
<1>4. CASE i.kind = "join"
  <2> DEFINE d == i.conn
  <2>1. d \in BedrockConns /\ i = JoinOf(d) /\ ApplyJoin(d)
    BY <1>1, <1>4, IntentKinds DEF ApplyLifecycle, i
  <2> HIDE DEF d
  <2>2. d \in Conns /\ Owner[d] \in UUIDs /\ NoConn \notin Conns
    BY <2>1, SessionsAssumption DEF Conns
  <2>3. answer[d] = "none" /\ joins[d] = 0 /\ quits[d] = 0
    BY <1>3, <2>1 DEF Watched, AsksOnce, Asked, AllTold, Told
  <2>4. UNCHANGED <<joins, quits>>
    BY <2>1 DEF ApplyJoin
  <2>5. CASE UNCHANGED <<online, pending>>
    <3>1. ASSUME NEW c \in BedrockConns PROVE answer'[c] # "joined" => joins[c] = 0 /\ quits[c] = 0
      <4>1. c = d \/ answer'[c] = answer[c]
        BY <2>1, <2>2, OwnersArePeople DEF ApplyJoin, Added, Duplicate, Reply, Typed, ConnTyped
      <4> QED
        BY <2>3, <4>1 DEF AllTold, Told
    <3> QED
      BY <1>2, <2>4, <2>5, <3>1 DEF AllTold, Told
  <2>6. CASE Added(d)
    <3>1. ASSUME NEW c \in BedrockConns PROVE Told(c)'
      <4>1. c \in Conns /\ Owner[c] \in UUIDs
        BY OwnersArePeople
      <4>2. CASE c = d
        BY <1>2, <2>2, <2>3, <2>4, <4>2 DEF Told
      <4>3. CASE c # d
        <5>1. answer'[c] = answer[c]
          BY <2>2, <2>6, <4>1, <4>3 DEF Added, Reply, Typed, ConnTyped
        <5>2. online'[Owner[c]] = c =>
                online[Owner[c]] = c /\ (Owner[c] \in pending' => Owner[c] \in pending)
          BY <2>2, <2>6, <4>1, <4>3 DEF Added, Typed, GameTyped
        <5> QED
          BY <1>2, <2>4, <5>1, <5>2 DEF AllTold, Told
      <4> QED
        BY <4>2, <4>3
    <3> QED
      BY <3>1 DEF AllTold
  <2> QED
    BY <2>1, <2>5, <2>6 DEF ApplyJoin, Duplicate
<1>5. CASE i.kind # "join"
  <2> DEFINE v == i.uuid
  <2>1. v \in UUIDs /\ ApplyDisconnect(v)
    BY <1>1, <1>5, IntentKinds DEF ApplyLifecycle, i
  <2> HIDE DEF v
  <2>2. UNCHANGED <<answer, joins, pending>> /\ online' = [online EXCEPT ![v] = NoConn]
    BY <2>1 DEF ApplyDisconnect, Unregister
  <2>3. ASSUME NEW c \in BedrockConns PROVE Told(c)'
    <3>1. c \in Conns /\ Owner[c] \in UUIDs /\ c # NoConn
      BY OwnersArePeople, SessionsAssumption DEF Conns
    <3>2. CASE online[v] = c
      <4>1. Owner[c] = v /\ answer[c] = "joined"
        BY <3>1, <3>2, <2>1 DEF Watched, Holds
      <4>2. quits[c] = 0 /\ quits'[c] = quits[c] + 1
        BY <2>1, <3>1, <3>2, <4>1 DEF AllTold, Told, ApplyDisconnect, Unregister, Typed, NewsTyped
      <4>3. online'[Owner[c]] # c
        BY <2>1, <2>2, <3>1, <4>1 DEF Typed, GameTyped
      <4> QED
        BY <1>2, <2>2, <4>1, <4>2, <4>3 DEF Told
    <3>3. CASE online[v] # c
      <4>1. quits'[c] = quits[c]
        BY <2>1, <3>1, <3>3 DEF ApplyDisconnect, Unregister, Typed, NewsTyped
      <4>2. online'[Owner[c]] = c => online[Owner[c]] = c
        BY <2>1, <2>2, <3>1 DEF Typed, GameTyped
      <4> QED
        BY <1>2, <2>2, <4>1, <4>2 DEF AllTold, Told
    <3> QED
      BY <3>2, <3>3
  <2> QED
    BY <2>3 DEF AllTold
<1>6. QED
  BY <1>4, <1>5

\* Arrivals are told of whom the game still holds, once, and then forgotten.
LEMMA TickTells == ASSUME Typed, Watched, AllTold, TickStep PROVE AllTold'
<1>0. DOMAIN tick = {"stage", "ready", "batch", "todo", "held", "taken"}
  BY DEF Typed, Ticks
<1>1. CASE ApplyLifecycle
  BY <1>1, ApplyTells
<1>2. CASE AnnounceReachable
  <2>1. /\ UNCHANGED <<answer, online, joins, quits>>
        /\ \A u \in pending' : u \in pending /\ (online[u] # NoConn => sessions[u] = NoConn)
    BY <1>2 DEF AnnounceReachable
  <2>2. \A c \in tick'.ready : \E u \in pending : c = online[u] /\ c # NoConn /\ sessions[u] # NoConn
    BY <1>0, <1>2 DEF AnnounceReachable
  <2>3. ASSUME NEW c \in BedrockConns PROVE Told(c)'
    <3>1. Owner[c] \in UUIDs /\ c # NoConn
      BY OwnersArePeople, SessionsAssumption DEF Conns
    <3>2. c \in tick'.ready => /\ online[Owner[c]] = c /\ Owner[c] \in pending
                               /\ sessions[Owner[c]] # NoConn
      <4> SUFFICES ASSUME c \in tick'.ready
                   PROVE  online[Owner[c]] = c /\ Owner[c] \in pending /\ sessions[Owner[c]] # NoConn
        OBVIOUS
      <4>1. PICK u \in pending : c = online[u] /\ c # NoConn /\ sessions[u] # NoConn
        BY <2>2
      <4>2. u \in UUIDs
        BY DEF Typed, NewsTyped, People
      <4>3. Owner[c] = u
        BY <4>1, <4>2 DEF Watched, Holds
      <4> QED
        BY <4>1, <4>3
    <3> QED
      BY <2>1, <3>1, <3>2 DEF AllTold, Told
  <2> QED
    BY <2>3 DEF AllTold
<1>3. ASSUME NEW d \in Conns, EmitJoin(d) PROVE AllTold'
  <2>1. /\ tick'.ready = tick.ready \ {d} /\ d \in tick.ready
        /\ joins' = [joins EXCEPT ![d] = @ + 1]
        /\ UNCHANGED <<answer, online, pending, quits>>
    BY <1>0, <1>3 DEF EmitJoin
  <2>2. ASSUME NEW c \in BedrockConns PROVE Told(c)'
    <3>1. CASE c # d
      <4>1. joins'[c] = joins[c]
        BY <2>1, <3>1, OwnersArePeople DEF Typed, NewsTyped
      <4> QED
        BY <2>1, <4>1 DEF AllTold, Told
    <3>2. CASE c = d
      <4>1. online[Owner[c]] = c /\ quits[c] = 0 /\ Owner[c] \notin pending
        BY <2>1, <3>2 DEF AllTold, Told
      <4>2. answer[c] = "joined"
        BY <4>1, OwnersArePeople, SessionsAssumption DEF Watched, Holds, Conns
      <4> QED
        BY <2>1, <3>2, <4>1, <4>2 DEF Told
    <3> QED
      BY <3>1, <3>2
  <2> QED
    BY <2>2 DEF AllTold
<1>4. CASE DrainLifecycle
  BY <1>0, <1>4, NewsLeftAlone DEF DrainLifecycle
<1>5. ASSUME NEW u \in UUIDs, RangeReads(u) PROVE AllTold'
  BY <1>0, <1>5, NewsLeftAlone DEF RangeReads
<1>6. CASE RangeDeletes
  BY <1>0, <1>6, NewsLeftAlone DEF RangeDeletes
<1>7. CASE ApplyMoves \/ Saved \/ ShutdownSave
  <2>1. tick'.ready = {}
    BY <1>7, FreshTick DEF ApplyMoves, Saved, ShutdownSave
  <2> QED
    BY <1>7, <2>1, NewsLeftAlone DEF ApplyMoves, Saved, ShutdownSave
<1>8. ASSUME NEW u \in UUIDs, SaveSnapshots(u) PROVE AllTold'
  BY <1>0, <1>8, NewsLeftAlone DEF SaveSnapshots
<1>9. CASE SaveWrites
  BY <1>0, <1>9, NewsLeftAlone DEF SaveWrites
<1>10. QED
  BY <1>1, <1>2, <1>3, <1>4, <1>5, <1>6, <1>7, <1>8, <1>9 DEF TickStep

LEMMA AlwaysTold == Spec => []AllTold
<1>1. Init => AllTold
  <2> SUFFICES ASSUME Init, NEW c \in BedrockConns PROVE Told(c)
    BY DEF AllTold
  <2>1. c \in Conns /\ Owner[c] \in UUIDs /\ c # NoConn
    BY OwnersArePeople, SessionsAssumption DEF Conns
  <2>2. tick.ready = {} /\ pending = {} /\ joins[c] = 0 /\ quits[c] = 0
    BY <2>1 DEF Init, IdleTick
  <2> QED
    BY <2>2 DEF Told
<1>2. Typed /\ Watched /\ AllTold /\ [Next]_vars => AllTold'
  <2> SUFFICES ASSUME Typed, Watched, AllTold, [Next]_vars PROVE AllTold'
    OBVIOUS
  <2>1. CASE UNCHANGED vars
    BY <2>1, NewsLeftAlone DEF vars
  <2>2. CASE Stop
    BY <2>2, NewsLeftAlone DEF Stop
  <2>3. ASSUME NEW c \in BedrockConns,
               \/ PostJoin(c) \/ PostJoinExpires(c) \/ JoinTimesOut(c) \/ UpdateMove(c)
               \/ BedrockLeave(c) \/ BedrockStep(c)
        PROVE  AllTold'
    BY <2>3, NewsLeftAlone
       DEF PostJoin, PostJoinExpires, JoinTimesOut, UpdateMove, BedrockLeave, BedrockStep, TakeAnswer,
           StartPlay, PostDisconnect, ContextDone
  <2> QED
    BY <2>1, <2>2, <2>3, JavaTellsOfItsOwn, TickTells DEF Next, ClientStep
<1>3. QED
  BY <1>1, <1>2, AlwaysTyped, AlwaysWatched, PTL DEF Spec

\* Plugins are told of a Bedrock player's arrival at most once, and not after its departure.
THEOREM ArrivalBeforeDeparture == Spec => BedrockJoinPrecedesQuit
<1> DEFINE Order == \A c \in BedrockConns :
                      /\ joins'[c] > joins[c] => joins[c] = 0 /\ quits[c] = 0
                      /\ quits'[c] <= 1
<1>1. Typed /\ AllTold /\ AllTold' /\ [Next]_vars => [Order]_vars
  <2> SUFFICES ASSUME Typed, AllTold, AllTold', Next, NEW c \in BedrockConns, joins'[c] > joins[c]
               PROVE  joins[c] = 0 /\ quits[c] = 0
    BY DEF AllTold, Told
  <2>1. c \in Conns /\ joins[c] \in Nat
    BY OwnersArePeople DEF Typed, NewsTyped
  <2>2. joins' # joins
    BY <2>1
  <2>3. \E d \in Conns : EmitJoin(d)
    BY <2>2 DEF Next, ClientStep, TickStep, JavaStep, BedrockStep, Stop, AnnounceReachable, DrainLifecycle,
         RangeReads, RangeDeletes, ApplyLifecycle, ApplyJoin, ApplyDisconnect, ApplyMoves, SaveSnapshots,
         SaveWrites, Saved, ShutdownSave, JavaLoad, JavaWalk, JavaLeave, JavaRegister, JavaEnter,
         JavaSnapshot, JavaWrite, JavaUnregister, PostJoin, PostJoinExpires, JoinTimesOut, UpdateMove,
         BedrockLeave, TakeAnswer, StartPlay, PostDisconnect, ContextDone
  <2>4. c \in tick.ready
    BY <2>1, <2>3 DEF EmitJoin, Typed, NewsTyped
  <2> QED
    BY <2>4 DEF AllTold, Told
<1>2. QED
  BY <1>1, AlwaysTyped, AlwaysTold, PTL DEF Spec, BedrockJoinPrecedesQuit

---------------------------------------------------------------------------
(* A Bedrock player's states on their way to the file.                     *)

BedrockPlayers == {Owner[b] : b \in BedrockConns}

\* No state of u anywhere behind the bus is newer than x.
Newest(u, x) ==
  /\ file[u] <= x /\ tick.taken[u] <= x /\ x <= walked[u]
  /\ online[u] # NoConn => data[online[u]] <= x

Carries(u) == tick.held # NoVisit /\ tick.held.of = u

\* File, player object, drained move, move under way, pending move and client: each
\* at least as new as the one before it.
Ahead(u) ==
  /\ file[u] <= walked[u] /\ tick.taken[u] <= walked[u] /\ moves[u] <= walked[u]
  /\ online[u] # NoConn => file[u] <= data[online[u]] /\ data[online[u]] <= walked[u]
  /\ tick.taken[u] # 0 => Newest(u, tick.taken[u])
  /\ moves[u] # 0 => Newest(u, moves[u])
  /\ tick.stage = "drain" /\ u \in tick.todo => moves[u] # 0
  /\ tick.stage = "drain" /\ Carries(u) =>
       Newest(u, tick.held.value) /\ tick.held.value <= moves[u] /\ u \notin tick.todo
  /\ tick.stage = "save" /\ Carries(u) =>
       /\ online[u] # NoConn
       /\ file[u] <= tick.held.value /\ tick.held.value <= data[online[u]]

Forward ==
  /\ tick.stage \notin {"drain", "save"} => tick.held = NoVisit
  /\ \A u \in BedrockPlayers : ~Faulty(u) => Ahead(u)

LEMMA PlayersArePeople ==
  ASSUME NEW u \in BedrockPlayers
  PROVE  u \in UUIDs /\ \A j \in JavaConns : Owner[j] # u
BY OwnersArePeople, SessionsAssumption DEF BedrockPlayers

LEMMA Numbers ==
  ASSUME Typed, NEW u \in UUIDs
  PROVE  /\ file[u] \in Nat /\ walked[u] \in Nat /\ moves[u] \in Nat /\ tick.taken[u] \in Nat
         /\ faults[u] \in Nat
         /\ online[u] # NoConn => online[u] \in Conns /\ data[online[u]] \in Nat
         /\ tick.held # NoVisit => tick.held.of \in UUIDs /\ tick.held.value \in Nat
<1>1. tick.taken \in [UUIDs -> Walks] /\ tick.held \in Visits
  BY TickUpdates DEF Typed, Takings
<1>2. \A x \in Walks : x \in Nat
  BY OwnersArePeople DEF Walks
<1>3. tick.held # NoVisit => tick.held.of \in UUIDs /\ tick.held.value \in Walks
  BY <1>1 DEF Visits
<1>4. file[u] \in Walks /\ walked[u] \in Walks /\ moves[u] \in Walks /\ tick.taken[u] \in Walks
      /\ (online[u] # NoConn => online[u] \in Conns /\ data[online[u]] \in Walks)
  BY <1>1 DEF Typed, GameTyped, BusTyped
<1>5. faults[u] \in Nat
  BY OwnersArePeople DEF Typed, GameTyped
<1>6. QED
  BY <1>2, <1>3, <1>4, <1>5

\* A step that concerns neither u's file, nor its player, nor its moves.
LEMMA OthersLeaveAlone ==
  ASSUME NEW u, Ahead(u), tick' = tick, file'[u] = file[u], walked'[u] = walked[u],
         moves'[u] = moves[u], online'[u] = online[u],
         online[u] # NoConn => data'[online[u]] = data[online[u]]
  PROVE  Ahead(u)'
BY DEF Ahead, Newest, Carries

LEMMA JavaForward ==
  ASSUME Typed, Watched, Forward, NEW j \in JavaConns,
         JavaLoad(j) \/ JavaWalk(j) \/ JavaLeave(j) \/ JavaStep(j)
  PROVE  Forward' /\ \A u \in BedrockPlayers : file'[u] = file[u]
<1>1. tick' = tick /\ moves' = moves
  BY DEF JavaStep, JavaLoad, JavaWalk, JavaLeave, JavaRegister, JavaEnter, JavaSnapshot, JavaWrite,
         JavaUnregister
<1>2. ASSUME NEW u \in BedrockPlayers
      PROVE  (~Faulty(u) => Ahead(u))' /\ file'[u] = file[u]
  <2>1. u \in UUIDs /\ Owner[j] # u /\ Owner[j] \in UUIDs /\ j \in Conns
    BY PlayersArePeople, OwnersArePeople
  <2>2. /\ file'[u] = file[u] /\ walked'[u] = walked[u] /\ online'[u] = online[u]
        /\ faults'[u] = faults[u] /\ \A x \in Conns : x # j => data'[x] = data[x]
    BY <2>1 DEF JavaStep, JavaLoad, JavaWalk, JavaLeave, JavaRegister, JavaEnter, JavaSnapshot, JavaWrite,
         JavaUnregister, Unregister, LoadPlayer, WritePlayer, Typed, GameTyped
  <2>3. online[u] # NoConn => online[u] \in Conns /\ online[u] # j
    BY <2>1 DEF Typed, GameTyped, Watched, Holds
  <2>4. Ahead(u) => Ahead(u)'
    BY <1>1, <2>2, <2>3, OthersLeaveAlone
  <2> QED
    BY <2>2, <2>4 DEF Forward, Faulty
<1>3. QED
  BY <1>1, <1>2 DEF Forward

\* A walk outruns everything that came before it.
LEMMA BedrockForward ==
  ASSUME Typed, Forward, NEW c \in BedrockConns,
         \/ PostJoin(c) \/ PostJoinExpires(c) \/ JoinTimesOut(c) \/ UpdateMove(c)
         \/ BedrockLeave(c) \/ BedrockStep(c)
  PROVE  Forward' /\ file' = file
<1>1. CASE UpdateMove(c)
  <2>1. UNCHANGED <<tick, file, faults, online, data>> /\ walked' = [walked EXCEPT ![Owner[c]] = @ + 1]
        /\ moves' = [moves EXCEPT ![Owner[c]] = walked'[Owner[c]]]
    BY <1>1 DEF UpdateMove
  <2>2. ASSUME NEW u \in BedrockPlayers, Ahead(u) PROVE Ahead(u)'
    <3>1. u \in UUIDs
      BY PlayersArePeople
    <3>2. CASE u # Owner[c]
      <4>1. walked'[u] = walked[u] /\ moves'[u] = moves[u]
        BY <2>1, <3>1, <3>2 DEF Typed, GameTyped, BusTyped
      <4> QED
        BY <2>1, <2>2, <4>1, OthersLeaveAlone
    <3>3. CASE u = Owner[c]
      <4>1. walked'[u] = walked[u] + 1 /\ moves'[u] = walked[u] + 1
        BY <2>1, <3>1, <3>3 DEF Typed, GameTyped, BusTyped
      <4> QED
        BY <2>1, <2>2, <3>1, <4>1, Numbers DEF Ahead, Newest, Carries
    <3> QED
      BY <3>2, <3>3
  <2> QED
    BY <2>1, <2>2 DEF Forward, Faulty
<1>2. CASE UNCHANGED <<tick, file, faults, online, data, walked, moves>>
  BY <1>2, OthersLeaveAlone DEF Forward, Faulty
<1>3. QED
  BY <1>1, <1>2 DEF PostJoin, PostJoinExpires, JoinTimesOut, BedrockLeave, BedrockStep, TakeAnswer,
                    StartPlay, PostDisconnect, ContextDone

\* A player that joins starts at its file; one that leaves writes where it is.
LEMMA ApplyForward ==
  ASSUME Typed, Watched, Forward, ApplyLifecycle
  PROVE  Forward' /\ \A u \in BedrockPlayers : ~Faulty(u)' => file'[u] >= file[u]
<1> DEFINE i == Head(tick.batch)
<1>1. tick.batch # <<>> /\ tick.batch \in Batches /\ i \in Intents /\ Has(tick.batch, i)
  BY QueueUpdates, TickUpdates, TailKeeps DEF ApplyLifecycle, Typed
<1>2. /\ tick.stage = "drain" /\ tick.held = NoVisit /\ tick.todo = {}
      /\ tick'.stage = tick.stage /\ tick'.held = tick.held /\ tick'.todo = tick.todo
      /\ tick'.taken = tick.taken
      /\ UNCHANGED <<walked, moves>>
  <2>1. tick' = [tick EXCEPT !.batch = Tail(tick.batch)]
    BY DEF ApplyLifecycle
  <2>2. DOMAIN tick = {"stage", "ready", "batch", "todo", "held", "taken"}
    BY DEF Typed, Ticks
  <2> QED
    BY <2>1, <2>2 DEF ApplyLifecycle, Drained, At
<1> HIDE DEF i
<1>3. ASSUME NEW u \in BedrockPlayers, Ahead(u), file'[u] = file[u],
             online'[u] # NoConn => data'[online'[u]] = file[u]
                                     \/ (online[u] # NoConn /\ data'[online'[u]] = data[online[u]])
      PROVE  Ahead(u)'
  <2>1. u \in UUIDs
    BY PlayersArePeople
  <2> QED
    BY <1>2, <1>3, <2>1, Numbers DEF Ahead, Newest, Carries
<1>4. CASE i.kind = "join"
  <2> DEFINE d == i.conn
  <2>1. d \in BedrockConns /\ i = JoinOf(d) /\ ApplyJoin(d)
    BY <1>1, <1>4, IntentKinds DEF ApplyLifecycle, i
  <2> HIDE DEF d
  <2>2. d \in Conns /\ Owner[d] \in UUIDs /\ NoConn \notin Conns
    BY <2>1, SessionsAssumption DEF Conns
  <2>3. answer[d] # "joined"
    BY <1>1, <2>1 DEF Watched, AsksOnce, Asked
  <2>4. \A u \in UUIDs : online[u] # d
    BY <2>1, <2>3, <2>2 DEF Watched, Holds
  <2>5. file' = file /\ \A u \in UUIDs : faults'[u] >= faults[u]
    BY <2>1, <2>2, Numbers DEF ApplyJoin, LoadPlayer, Typed, GameTyped
  <2>6. \A x \in Conns : x # d => data'[x] = data[x]
    BY <2>1, <2>2 DEF ApplyJoin, LoadPlayer, Typed, GameTyped
  <2>7. \A u \in UUIDs : online'[u] = online[u] \/ (u = Owner[d] /\ online'[u] = d /\ Added(d))
    BY <2>1, <2>2 DEF ApplyJoin, Added, Duplicate, Typed, GameTyped
  <2>8. Added(d) /\ faults'[Owner[d]] = faults[Owner[d]] =>
          data'[d] = file[Owner[d]] \/ online'[Owner[d]] = online[Owner[d]]
    <3> SUFFICES ASSUME Added(d), faults'[Owner[d]] = faults[Owner[d]],
                        online'[Owner[d]] # online[Owner[d]]
                 PROVE  data'[d] = file[Owner[d]]
      OBVIOUS
    <3>1. LoadPlayer(d, Owner[d])
      BY <2>1 DEF ApplyJoin
    <3>2. faults[Owner[d]] \in Nat
      BY <2>2, Numbers
    <3> QED
      BY <2>2, <3>1, <3>2 DEF LoadPlayer, Typed, GameTyped
  <2>9. ASSUME NEW u \in BedrockPlayers, ~Faulty(u)' PROVE Ahead(u)'
    <3>1. u \in UUIDs /\ faults'[u] = 0 /\ faults[u] = 0
      <4>1. u \in UUIDs /\ faults[u] \in Nat /\ faults'[u] \in Nat
        BY PlayersArePeople, ApplyTyped DEF Typed, GameTyped
      <4> QED
        BY <2>5, <2>9, <4>1 DEF Faulty
    <3>2. Ahead(u)
      BY <3>1 DEF Forward, Faulty
    <3>3. CASE online'[u] = online[u]
      <4>1. online[u] # NoConn => data'[online[u]] = data[online[u]]
        BY <2>4, <2>6, <3>1 DEF Typed, GameTyped
      <4> QED
        BY <1>3, <2>5, <3>2, <3>3, <4>1
    <3>4. CASE online'[u] # online[u]
      <4>1. u = Owner[d] /\ online'[u] = d /\ data'[d] = file[u]
        BY <2>7, <2>8, <3>1, <3>4
      <4> QED
        BY <1>3, <2>5, <3>2, <4>1
    <3> QED
      BY <3>3, <3>4
  <2>10. \A u \in BedrockPlayers : file'[u] >= file[u]
    BY <2>5, PlayersArePeople, Numbers
  <2> QED
    BY <1>2, <2>9, <2>10 DEF Forward
<1>5. CASE i.kind # "join"
  <2> DEFINE v == i.uuid
  <2>1. v \in UUIDs /\ ApplyDisconnect(v)
    BY <1>1, <1>5, IntentKinds DEF ApplyLifecycle, i
  <2> HIDE DEF v
  <2>2. online' = [online EXCEPT ![v] = NoConn] /\ data' = data
    BY <2>1 DEF ApplyDisconnect, Unregister
  <2>3. \A u \in UUIDs : faults'[u] >= faults[u] /\ (u # v => file'[u] = file[u])
    BY <2>1, Numbers DEF ApplyDisconnect, WritePlayer, Typed, GameTyped
  <2>4. file'[v] = file[v] \/ (online[v] # NoConn /\ file'[v] = data[online[v]])
    BY <2>1 DEF ApplyDisconnect, WritePlayer, Typed, GameTyped
  <2>5. ASSUME NEW u \in BedrockPlayers, ~Faulty(u)' PROVE Ahead(u)' /\ file'[u] >= file[u]
    <3>1. u \in UUIDs /\ faults[u] = 0
      <4>1. u \in UUIDs /\ faults[u] \in Nat /\ faults'[u] \in Nat
        BY PlayersArePeople, ApplyTyped DEF Typed, GameTyped
      <4> QED
        BY <2>3, <2>5, <4>1 DEF Faulty
    <3>2. Ahead(u)
      BY <3>1 DEF Forward, Faulty
    <3>3. CASE u # v
      <4>1. online'[u] = online[u] /\ file'[u] = file[u]
        BY <2>2, <2>3, <3>1, <3>3 DEF Typed, GameTyped
      <4> QED
        BY <1>3, <2>2, <3>1, <3>2, <4>1, Numbers
    <3>4. CASE u = v
      <4>1. online'[u] = NoConn
        BY <2>1, <2>2, <3>4 DEF Typed, GameTyped
      <4>2. file'[u] = file[u] \/ (online[u] # NoConn /\ file'[u] = data[online[u]])
        BY <2>4, <3>4
      <4> QED
        BY <1>2, <3>1, <3>2, <4>1, <4>2, Numbers DEF Ahead, Newest, Carries
    <3> QED
      BY <3>3, <3>4
  <2> QED
    BY <1>2, <2>5 DEF Forward
<1>6. QED
  BY <1>4, <1>5

\* A step of the tick that only changes its own record.
LEMMA TickAlone ==
  ASSUME Forward, UNCHANGED <<file, faults, online, data, walked, moves>>,
         tick'.stage \notin {"drain", "save"} => tick'.held = NoVisit,
         \A u \in BedrockPlayers : Ahead(u) => Ahead(u)'
  PROVE  Forward' /\ file' = file
BY DEF Forward, Faulty

\* A tick that has just begun, or begun to save, carries nothing.
LEMMA FreshCarriesNothing ==
  /\ \A t \in {IdleTick, SaveEveryone} :
       t.held = NoVisit /\ t.taken = [u \in UUIDs |-> 0] /\ t.stage \in {"idle", "save"}
  /\ IdleTick.stage = "idle" /\ IdleTick.todo = {}
  /\ SaveEveryone.stage = "save" /\ SaveEveryone.todo = Online
<1> DEFINE t == IdleTick
<1>1. /\ t.held = NoVisit /\ t.taken = [u \in UUIDs |-> 0] /\ t.stage = "idle" /\ t.todo = {}
      /\ DOMAIN t = {"stage", "ready", "batch", "todo", "held", "taken"}
  BY DEF IdleTick
<1>2. SaveEveryone = [t EXCEPT !.stage = "save", !.todo = Online]
  BY DEF SaveEveryone
<1> HIDE DEF t
<1>3. SaveEveryone.held = t.held /\ SaveEveryone.taken = t.taken /\ SaveEveryone.stage = "save"
      /\ SaveEveryone.todo = Online
  BY <1>1, <1>2
<1>4. QED
  BY <1>1, <1>3 DEF t

\* The moves that were drained reach the players the game holds.
LEMMA MovesForward ==
  ASSUME Typed, Watched, Forward, ApplyMoves
  PROVE  Forward' /\ file' = file
<1>1. tick' \in {IdleTick, SaveEveryone} /\ UNCHANGED <<file, faults, online, walked, moves>>
      /\ data' = [c \in Conns |->
                    IF online[Owner[c]] = c /\ tick.taken[Owner[c]] # 0
                    THEN tick.taken[Owner[c]] ELSE data[c]]
  BY DEF ApplyMoves
<1>2. tick'.held = NoVisit /\ tick'.taken = [u \in UUIDs |-> 0] /\ tick'.stage \in {"idle", "save"}
  BY <1>1, FreshCarriesNothing
<1>3. ASSUME NEW u \in BedrockPlayers, Ahead(u) PROVE Ahead(u)'
  <2>1. u \in UUIDs
    BY PlayersArePeople
  <2>2. tick'.taken[u] = 0 /\ ~Carries(u)' /\ tick'.stage # "drain"
    BY <1>2, <2>1 DEF Carries
  <2>3. online[u] # NoConn =>
          data'[online[u]] = IF tick.taken[u] # 0 THEN tick.taken[u] ELSE data[online[u]]
    BY <1>1, <2>1 DEF Typed, GameTyped, Watched, Holds
  <2> QED
    BY <1>1, <1>3, <2>1, <2>2, <2>3, Numbers DEF Ahead, Newest
<1>4. QED
  BY <1>1, <1>2, <1>3 DEF Forward, Faulty

\* The autosave writes what it holds, which is no newer than the player.
LEMMA SaveForward ==
  ASSUME Typed, Watched, Forward, SaveWrites
  PROVE  Forward' /\ \A u \in BedrockPlayers : ~Faulty(u)' => file'[u] >= file[u]
<1> DEFINE v == tick.held.of
<1>1. tick.held # NoVisit /\ tick.stage = "save" /\ WritePlayer(v, tick.held.value) /\ v \in UUIDs
      /\ tick.held.value \in Nat /\ UNCHANGED <<online, data, walked, moves>>
      /\ tick.taken = [u \in UUIDs |-> 0]
  <2>1. tick.held \in Visits
    BY TickUpdates DEF Typed
  <2>2. tick.held # NoVisit
    BY DEF SaveWrites
  <2>3. v \in UUIDs /\ tick.held.value \in Nat
    BY <2>1, <2>2, OwnersArePeople DEF Visits, Walks
  <2> QED
    BY <2>2, <2>3 DEF SaveWrites, At, Watched, InTurn
<1>2. tick'.held = NoVisit /\ tick'.stage = "save" /\ tick'.taken = tick.taken
  <2>1. tick' = [tick EXCEPT !.held = NoVisit]
    BY DEF SaveWrites
  <2>2. DOMAIN tick = {"stage", "ready", "batch", "todo", "held", "taken"}
    BY DEF Typed, Ticks
  <2> QED
    BY <1>1, <2>1, <2>2
<1> HIDE DEF v
<1>3. \A u \in UUIDs : faults'[u] >= faults[u] /\ (u # v => file'[u] = file[u])
  BY <1>1, Numbers DEF WritePlayer, Typed, GameTyped
<1>4. file'[v] = file[v] \/ file'[v] = tick.held.value
  BY <1>1 DEF WritePlayer, Typed, GameTyped
<1>5. ASSUME NEW u \in BedrockPlayers, ~Faulty(u)' PROVE Ahead(u)' /\ file'[u] >= file[u]
  <2>1. u \in UUIDs /\ faults[u] = 0
    <3>1. TickStep
      BY DEF TickStep
    <3>2. u \in UUIDs /\ faults[u] \in Nat /\ faults'[u] \in Nat
      BY <3>1, PlayersArePeople, TickTyped DEF Typed, GameTyped
    <3> QED
      BY <1>3, <1>5, <3>2 DEF Faulty
  <2>2. Ahead(u)
    BY <2>1 DEF Forward, Faulty
  <2>3. file'[u] = file[u] \/ (Carries(u) /\ file'[u] = tick.held.value)
    BY <1>1, <1>3, <1>4, <2>1 DEF Carries, v
  <2>4. tick.taken[u] = 0
    BY <1>1, <2>1
  <2> QED
    BY <1>1, <1>2, <2>1, <2>2, <2>3, <2>4, Numbers DEF Ahead, Newest, Carries
<1>6. QED
  BY <1>2, <1>5 DEF Forward

LEMMA TickForward ==
  ASSUME Typed, Watched, Forward, TickStep
  PROVE  Forward' /\ \A u \in BedrockPlayers : ~Faulty(u)' => file'[u] >= file[u]
<1>0. DOMAIN tick = {"stage", "ready", "batch", "todo", "held", "taken"} /\ tick.taken \in [UUIDs -> Walks]
  BY DEF Typed, Ticks, Takings
<1>1. file' = file => \A u \in BedrockPlayers : file'[u] >= file[u]
  BY PlayersArePeople, Numbers
<1>2. CASE AnnounceReachable
  <2>1. /\ tick'.stage = "announce" /\ tick'.held = tick.held /\ tick'.taken = tick.taken
        /\ tick.held = NoVisit /\ UNCHANGED <<file, faults, online, data, walked, moves>>
    BY <1>0, <1>2 DEF AnnounceReachable, At, Forward
  <2> QED
    BY <1>1, <2>1, TickAlone DEF Ahead, Newest, Carries
<1>3. ASSUME NEW c \in Conns, EmitJoin(c) PROVE Forward' /\ file' = file
  <2>1. /\ tick'.stage = tick.stage /\ tick'.held = tick.held /\ tick'.taken = tick.taken
        /\ tick.stage = "announce" /\ tick.held = NoVisit
        /\ UNCHANGED <<file, faults, online, data, walked, moves>>
    BY <1>0, <1>3 DEF EmitJoin, At, Forward
  <2> QED
    BY <2>1, TickAlone DEF Ahead, Newest, Carries
<1>4. CASE DrainLifecycle
  <2>1. /\ tick'.stage = "drain" /\ tick'.held = tick.held /\ tick'.taken = tick.taken
        /\ tick.held = NoVisit /\ tick'.todo = {u \in UUIDs : moves[u] # 0}
        /\ UNCHANGED <<file, faults, online, data, walked, moves>>
    BY <1>0, <1>4 DEF DrainLifecycle, At, Forward
  <2> QED
    BY <1>1, <2>1, TickAlone DEF Ahead, Newest, Carries
<1>5. ASSUME NEW v \in UUIDs, RangeReads(v) PROVE Forward' /\ file' = file
  <2>1. /\ tick'.stage = "drain" /\ tick'.held = [of |-> v, value |-> moves[v]]
        /\ tick'.taken = tick.taken /\ tick.stage = "drain" /\ tick.held = NoVisit
        /\ tick'.todo = tick.todo \ {v} /\ v \in tick.todo
        /\ UNCHANGED <<file, faults, online, data, walked, moves>>
    BY <1>0, <1>5 DEF RangeReads, At
  <2>2. ASSUME NEW u \in BedrockPlayers, Ahead(u) PROVE Ahead(u)'
    <3>1. u \in UUIDs
      BY PlayersArePeople
    <3>2. Carries(u)' => u = v /\ tick'.held.value = moves[u] /\ moves[u] # 0
      BY <2>1, <2>2 DEF Carries, Ahead
    <3> QED
      BY <2>1, <2>2, <3>1, <3>2, Numbers DEF Ahead, Newest
  <2> QED
    BY <2>1, <2>2, TickAlone
<1>6. CASE RangeDeletes
  <2> DEFINE v == tick.held.of
  <2>1. /\ tick'.stage = "drain" /\ tick'.held = NoVisit /\ tick.stage = "drain" /\ tick'.todo = tick.todo
        /\ tick'.taken = [tick.taken EXCEPT ![v] = tick.held.value]
        /\ moves' = [moves EXCEPT ![v] = 0] /\ tick.held # NoVisit /\ tick.todo \in People
        /\ UNCHANGED <<file, faults, online, data, walked>>
    BY <1>0, <1>6 DEF RangeDeletes, At, Typed, Ticks
  <2> HIDE DEF v
  <2>2. ASSUME NEW u \in BedrockPlayers, Ahead(u) PROVE Ahead(u)'
    <3>1. u \in UUIDs /\ ~Carries(u)'
      BY <2>1, PlayersArePeople DEF Carries
    <3>2. CASE u = v
      <4>1. Carries(u) /\ v \in UUIDs /\ tick.held.value \in Nat
        BY <2>1, <3>1, <3>2, Numbers DEF Carries, v
      <4>2. tick'.taken[u] = tick.held.value /\ moves'[u] = 0
        BY <1>0, <2>1, <3>1, <3>2 DEF Typed, BusTyped
      <4> QED
        BY <2>1, <2>2, <3>1, <4>1, <4>2, Numbers DEF Ahead, Newest
    <3>3. CASE u # v
      <4>1. tick'.taken[u] = tick.taken[u] /\ moves'[u] = moves[u]
        BY <1>0, <2>1, <3>1, <3>3 DEF Typed, BusTyped
      <4> QED
        BY <2>1, <2>2, <3>1, <4>1 DEF Ahead, Newest
    <3> QED
      BY <3>2, <3>3
  <2>3. \A u \in BedrockPlayers : ~Faulty(u)' => Ahead(u)'
    BY <2>1, <2>2 DEF Forward, Faulty
  <2> QED
    BY <1>1, <2>1, <2>3 DEF Forward
<1>7. CASE ApplyLifecycle
  BY <1>7, ApplyForward
<1>8. CASE ApplyMoves
  BY <1>1, <1>8, MovesForward
<1>9. CASE Saved \/ ShutdownSave
  <2>1. tick' \in {IdleTick, SaveEveryone} /\ UNCHANGED <<file, faults, online, data, walked, moves>>
    BY <1>9 DEF Saved, ShutdownSave
  <2>2. tick'.held = NoVisit /\ tick'.taken = [u \in UUIDs |-> 0] /\ tick'.stage \in {"idle", "save"}
    BY <2>1, FreshCarriesNothing
  <2>3. ASSUME NEW u \in BedrockPlayers, Ahead(u) PROVE Ahead(u)'
    <3>1. u \in UUIDs /\ tick'.taken[u] = 0 /\ ~Carries(u)' /\ tick'.stage # "drain"
      BY <2>2, PlayersArePeople DEF Carries
    <3> QED
      BY <2>1, <2>3, <3>1, Numbers DEF Ahead, Newest
  <2> QED
    BY <1>1, <2>1, <2>2, <2>3, TickAlone
<1>10. ASSUME NEW v \in UUIDs, SaveSnapshots(v) PROVE Forward' /\ file' = file
  <2>1. /\ tick'.stage = "save" /\ tick.stage = "save" /\ tick'.taken = tick.taken
        /\ tick'.held = IF online[v] = NoConn THEN NoVisit ELSE [of |-> v, value |-> data[online[v]]]
        /\ UNCHANGED <<file, faults, online, data, walked, moves>>
    BY <1>0, <1>10 DEF SaveSnapshots, At
  <2>2. ASSUME NEW u \in BedrockPlayers, Ahead(u) PROVE Ahead(u)'
    <3>1. u \in UUIDs
      BY PlayersArePeople
    <3>2. Carries(u)' => online[u] # NoConn /\ tick'.held.value = data[online[u]]
      BY <2>1 DEF Carries
    <3> QED
      BY <2>1, <2>2, <3>1, <3>2, Numbers DEF Ahead, Newest
  <2> QED
    BY <2>1, <2>2, TickAlone
<1>11. CASE SaveWrites
  BY <1>11, SaveForward
<1>12. QED
  BY <1>1, <1>2, <1>3, <1>4, <1>5, <1>6, <1>7, <1>8, <1>9, <1>10, <1>11 DEF TickStep

LEMMA ForwardStep ==
  ASSUME Typed, Watched, Forward, [Next]_vars
  PROVE  Forward' /\ \A u \in BedrockPlayers : ~Faulty(u)' => file'[u] >= file[u]
<1>1. file' = file => \A u \in BedrockPlayers : file'[u] >= file[u]
  BY PlayersArePeople, Numbers
<1>2. CASE UNCHANGED vars \/ Stop
  <2>1. UNCHANGED <<tick, file, faults, online, data, walked, moves>>
    BY <1>2 DEF vars, Stop
  <2> QED
    BY <1>1, <2>1, OthersLeaveAlone DEF Forward, Faulty
<1>3. ASSUME NEW j \in JavaConns, JavaLoad(j) \/ JavaWalk(j) \/ JavaLeave(j) \/ JavaStep(j)
      PROVE  Forward' /\ \A u \in BedrockPlayers : file'[u] >= file[u]
  BY <1>3, JavaForward, PlayersArePeople, Numbers
<1>4. ASSUME NEW c \in BedrockConns,
             \/ PostJoin(c) \/ PostJoinExpires(c) \/ JoinTimesOut(c) \/ UpdateMove(c)
             \/ BedrockLeave(c) \/ BedrockStep(c)
      PROVE  Forward' /\ \A u \in BedrockPlayers : file'[u] >= file[u]
  BY <1>1, <1>4, BedrockForward
<1>5. QED
  BY <1>2, <1>3, <1>4, TickForward DEF Next, ClientStep

LEMMA AlwaysForward == Spec => []Forward
<1>1. Init => Forward
  <2> SUFFICES ASSUME Init PROVE Forward
    OBVIOUS
  <2>1. tick.held = NoVisit /\ tick.stage = "idle" /\ tick.taken = [u \in UUIDs |-> 0]
    BY FreshCarriesNothing DEF Init, IdleTick
  <2>2. ASSUME NEW u \in BedrockPlayers PROVE Ahead(u)
    <3>1. u \in UUIDs
      BY PlayersArePeople
    <3>2. file[u] = 0 /\ walked[u] = 0 /\ moves[u] = 0 /\ online[u] = NoConn /\ tick.taken[u] = 0
      BY <2>1, <3>1 DEF Init
    <3> QED
      BY <2>1, <3>2 DEF Ahead, Carries
  <2> QED
    BY <2>1, <2>2 DEF Forward
<1>2. QED
  BY <1>1, ForwardStep, AlwaysTyped, AlwaysWatched, PTL DEF Spec

\* No autosave, disconnect or rejoin takes a Bedrock player's file back to an older state,
\* as long as no read or write of that file has failed.
THEOREM FilesMoveForward == Spec => BedrockFileMovesForward
<1> DEFINE NeverBack == \A b \in BedrockConns : LET u == Owner[b] IN file'[u] < file[u] => Faulty(u)'
<1>1. Typed /\ Typed' /\ Watched /\ Forward /\ [Next]_vars => [NeverBack]_vars
  <2> SUFFICES ASSUME Typed, Typed', Watched, Forward, [Next]_vars, NEW b \in BedrockConns,
                      ~Faulty(Owner[b])'
               PROVE  ~(file'[Owner[b]] < file[Owner[b]])
    OBVIOUS
  <2>1. Owner[b] \in BedrockPlayers /\ Owner[b] \in UUIDs
    BY OwnersArePeople DEF BedrockPlayers
  <2>2. file'[Owner[b]] >= file[Owner[b]]
    BY <2>1, ForwardStep
  <2>3. file[Owner[b]] \in Nat /\ file'[Owner[b]] \in Nat
    BY <2>1, OwnersArePeople DEF Typed, GameTyped, Walks
  <2> QED
    BY <2>2, <2>3
<1>2. QED
  BY <1>1, AlwaysTyped, AlwaysWatched, AlwaysForward, PTL DEF Spec, BedrockFileMovesForward

---------------------------------------------------------------------------
(* The last save.                                                          *)

JavaPlayers == {Owner[j] : j \in JavaConns}
Entered == {"entering", "playing", "saving", "writing", "unregistering", "gone"}

\* A Java player moves by its own connections only, ahead of whatever is written.
Settled ==
  /\ \A j \in JavaConns : pc[j] = "writing" => snap[j] = data[j]
  /\ \A j \in JavaConns : data[j] <= walked[Owner[j]]
  /\ \A u \in JavaPlayers :
       /\ file[u] <= walked[u] /\ moves[u] = 0 /\ tick.taken[u] = 0
       /\ Carries(u) => tick.held.value <= walked[u]
       /\ tick.stage = "drain" /\ Carries(u) => tick.held.value = 0

\* The tick is joined: all that is left of it is the last save.
Closing ==
  /\ phase = "saving" => tick.stage = "save"
  /\ phase = "down" => tick.stage = "idle" /\ tick.todo = {} /\ tick.held = NoVisit

\* What was due is in the file, about to be written, or still to be looked at.
InHand(u) == due[u] <= file[u] \/ Carries(u) \/ u \in tick.todo

\* Whoever had something due is still there, or was there and is in nobody's way.
Secured(u) ==
  phase \in {"saving", "down"} =>
    /\ due[u] # 0 => \/ u \in BedrockPlayers /\ online[u] # NoConn
                     \/ \E j \in JavaConns : Owner[j] = u /\ pc[j] \in Entered
    /\ online[u] # NoConn /\ ~Faulty(u) /\ ~SecondJava(u) =>
         /\ due[u] <= data[online[u]] /\ InHand(u)
         /\ Carries(u) => due[u] <= tick.held.value

LastSave == Closing /\ \A u \in UUIDs : Secured(u)

LEMMA JavaPlayersArePeople ==
  ASSUME NEW u \in JavaPlayers
  PROVE  u \in UUIDs /\ u \notin BedrockPlayers /\ \A b \in BedrockConns : Owner[b] # u
BY OwnersArePeople, SessionsAssumption DEF JavaPlayers, BedrockPlayers

\* Whom the game holds of a Java player is a Java connection.
LEMMA JavaHoldsJava ==
  ASSUME Typed, Watched, NEW u \in JavaPlayers, online[u] # NoConn
  PROVE  online[u] \in JavaConns /\ Owner[online[u]] = u
BY JavaPlayersArePeople DEF Typed, GameTyped, Watched, Holds, Conns

LEMMA JavaNumbers ==
  ASSUME Typed, NEW j \in JavaConns
  PROVE  j \in Conns /\ Owner[j] \in UUIDs /\ data[j] \in Nat /\ snap[j] \in Nat
<1>1. j \in Conns /\ Owner[j] \in UUIDs /\ data[j] \in Walks /\ snap[j] \in Walks
  BY OwnersArePeople DEF Typed, ConnTyped, GameTyped
<1>2. QED
  BY <1>1, OwnersArePeople DEF Walks

LEMMA JavaSettled ==
  ASSUME Typed, Settled, NEW j \in JavaConns,
         JavaLoad(j) \/ JavaWalk(j) \/ JavaLeave(j) \/ JavaStep(j)
  PROVE  Settled'
<1> DEFINE u == Owner[j]
<1>0. u \in JavaPlayers /\ u \in UUIDs /\ j \in Conns
  BY OwnersArePeople DEF JavaPlayers
<1>1. tick' = tick /\ moves' = moves /\ \A k \in JavaConns : k # j => snap'[k] = snap[k] /\ data'[k] = data[k]
      /\ (pc'[k] = pc[k])
  BY <1>0, OwnersArePeople
     DEF JavaStep, JavaLoad, JavaWalk, JavaLeave, JavaRegister, JavaEnter, JavaSnapshot, JavaWrite,
         JavaUnregister, LoadPlayer, Go, Typed, ConnTyped, GameTyped
<1>2. \A v \in UUIDs : walked'[v] >= walked[v] /\ (v # u => file'[v] = file[v])
  <2>1. \A v \in UUIDs : walked[v] \in Nat
    BY Numbers
  <2> QED
    BY <1>0, <2>1
       DEF JavaStep, JavaLoad, JavaWalk, JavaLeave, JavaRegister, JavaEnter, JavaSnapshot, JavaWrite,
           JavaUnregister, WritePlayer, Typed, GameTyped
<1>3. data[j] \in Nat /\ snap[j] \in Nat /\ file[u] \in Nat /\ walked[u] \in Nat /\ data[j] <= walked[u]
      /\ file[u] <= walked[u] /\ (pc[j] = "writing" => snap[j] = data[j])
  BY <1>0, JavaNumbers, Numbers DEF Settled
<1>4. data'[j] <= walked'[u] /\ file'[u] <= walked'[u] /\ (pc'[j] = "writing" => snap'[j] = data'[j])
  BY <1>0, <1>3
     DEF JavaStep, JavaLoad, JavaWalk, JavaLeave, JavaRegister, JavaEnter, JavaSnapshot, JavaWrite,
         JavaUnregister, LoadPlayer, WritePlayer, Go, Typed, ConnTyped, GameTyped
<1> HIDE DEF u
<1>5. ASSUME NEW k \in JavaConns PROVE data'[k] <= walked'[Owner[k]]
  <2>1. data[k] <= walked[Owner[k]] /\ data[k] \in Nat /\ Owner[k] \in UUIDs
    BY JavaNumbers DEF Settled
  <2>2. walked[Owner[k]] \in Nat /\ walked'[Owner[k]] \in Nat
    BY <2>1, JavaTyped, Numbers, OwnersArePeople DEF Typed, GameTyped, Walks
  <2> QED
    BY <1>1, <1>2, <1>4, <2>1, <2>2 DEF u
<1>6. ASSUME NEW v \in JavaPlayers
      PROVE  file'[v] <= walked'[v] /\ (Carries(v) => tick.held.value <= walked'[v])
  <2>1. v \in UUIDs /\ file[v] <= walked[v] /\ (Carries(v) => tick.held.value <= walked[v])
    BY JavaPlayersArePeople DEF Settled
  <2>2. walked[v] \in Nat /\ walked'[v] \in Nat /\ file[v] \in Nat /\ (Carries(v) => tick.held.value \in Nat)
    BY <2>1, JavaTyped, Numbers, OwnersArePeople DEF Typed, GameTyped, Walks, Carries
  <2> QED
    BY <1>2, <1>4, <2>1, <2>2
<1>7. QED
  BY <1>1, <1>4, <1>5, <1>6 DEF Settled, Carries

LEMMA BedrockSettled ==
  ASSUME Typed, Settled, NEW c \in BedrockConns,
         \/ PostJoin(c) \/ PostJoinExpires(c) \/ JoinTimesOut(c) \/ UpdateMove(c)
         \/ BedrockLeave(c) \/ BedrockStep(c)
  PROVE  Settled'
<1>1. /\ UNCHANGED <<tick, file, data, snap>>
      /\ \A j \in JavaConns : pc'[j] = pc[j] /\ walked'[Owner[j]] = walked[Owner[j]]
                              /\ moves'[Owner[j]] = moves[Owner[j]]
  <2>1. \A j \in JavaConns : j # c /\ Owner[j] # Owner[c] /\ j \in Conns /\ Owner[j] \in UUIDs
    BY SessionsAssumption, OwnersArePeople
  <2> QED
    BY <2>1 DEF PostJoin, PostJoinExpires, JoinTimesOut, UpdateMove, BedrockLeave, BedrockStep, TakeAnswer,
             StartPlay, PostDisconnect, ContextDone, Go, Typed, ConnTyped, GameTyped, BusTyped
<1>2. QED
  BY <1>1 DEF Settled, Carries, JavaPlayers

\* Bedrock's joins and moves are not Java's; a disconnect writes the player's state.
LEMMA ApplySettled ==
  ASSUME Typed, Watched, Settled, ApplyLifecycle
  PROVE  Settled'
<1> DEFINE i == Head(tick.batch)
<1>1. tick.batch # <<>> /\ i \in Intents
  BY QueueUpdates, TickUpdates DEF ApplyLifecycle, Typed
<1>2. /\ tick'.stage = tick.stage /\ tick'.held = tick.held /\ tick'.taken = tick.taken
      /\ UNCHANGED <<walked, moves, pc, snap>>
  <2>1. tick' = [tick EXCEPT !.batch = Tail(tick.batch)]
    BY DEF ApplyLifecycle
  <2>2. DOMAIN tick = {"stage", "ready", "batch", "todo", "held", "taken"}
    BY DEF Typed, Ticks
  <2>3. UNCHANGED <<walked, moves, pc, snap>>
    BY DEF ApplyLifecycle, ApplyJoin, ApplyDisconnect, Added, Duplicate, Reply
  <2> QED
    BY <2>1, <2>2, <2>3
<1> HIDE DEF i
<1>3. CASE i.kind = "join"
  <2> DEFINE d == i.conn
  <2>1. d \in BedrockConns /\ ApplyJoin(d)
    BY <1>1, <1>3, IntentKinds DEF ApplyLifecycle, i
  <2> HIDE DEF d
  <2>2. file' = file
    BY <2>1 DEF ApplyJoin
  <2>3. \A j \in JavaConns : data'[j] = data[j]
    <3>1. \A j \in JavaConns : j # d /\ j \in Conns
      BY <2>1, SessionsAssumption, OwnersArePeople
    <3> QED
      BY <2>1, <3>1, OwnersArePeople DEF ApplyJoin, LoadPlayer, Typed, GameTyped
  <2> QED
    BY <1>2, <2>2, <2>3 DEF Settled, Carries
<1>4. CASE i.kind # "join"
  <2> DEFINE v == i.uuid
  <2>1. v \in UUIDs /\ ApplyDisconnect(v)
    BY <1>1, <1>4, IntentKinds DEF ApplyLifecycle, i
  <2> HIDE DEF v
  <2>2. data' = data
    BY <2>1 DEF ApplyDisconnect
  <2>3. ASSUME NEW u \in JavaPlayers PROVE file'[u] <= walked[u]
    <3>1. u \in UUIDs /\ file[u] <= walked[u]
      BY JavaPlayersArePeople DEF Settled
    <3>2. file'[u] = file[u] \/ (online[u] # NoConn /\ file'[u] = data[online[u]])
      BY <2>1, <3>1 DEF ApplyDisconnect, WritePlayer, Typed, GameTyped
    <3>3. online[u] # NoConn => data[online[u]] <= walked[u]
      BY JavaHoldsJava DEF Settled
    <3> QED
      BY <3>1, <3>2, <3>3
  <2> QED
    BY <1>2, <2>2, <2>3 DEF Settled, Carries
<1>5. QED
  BY <1>3, <1>4

LEMMA TickSettled ==
  ASSUME Typed, Watched, Forward, Settled, TickStep
  PROVE  Settled'
<1>0. DOMAIN tick = {"stage", "ready", "batch", "todo", "held", "taken"} /\ tick.taken \in [UUIDs -> Walks]
  BY DEF Typed, Ticks, Takings
<1>1. CASE ApplyLifecycle
  BY <1>1, ApplySettled
<1>2. ASSUME UNCHANGED <<pc, snap, data, walked, file, moves>>, tick'.taken = tick.taken,
             tick'.held = tick.held \/ tick'.held = NoVisit, tick'.stage = tick.stage \/ tick'.held = NoVisit
      PROVE  Settled'
  BY <1>2 DEF Settled, Carries
<1>3. CASE AnnounceReachable \/ DrainLifecycle \/ \E c \in Conns : EmitJoin(c)
  <2>1. tick.held = NoVisit /\ tick'.held = tick.held /\ tick'.taken = tick.taken
        /\ UNCHANGED <<pc, snap, data, walked, file, moves>>
    BY <1>0, <1>3 DEF AnnounceReachable, DrainLifecycle, EmitJoin, At, Forward
  <2> QED
    BY <1>2, <2>1
<1>4. ASSUME NEW v \in UUIDs, RangeReads(v) PROVE Settled'
  <2>1. /\ tick'.held = [of |-> v, value |-> moves[v]] /\ tick'.taken = tick.taken
        /\ UNCHANGED <<pc, snap, data, walked, file, moves>>
    BY <1>0, <1>4 DEF RangeReads, At
  <2>2. ASSUME NEW u \in JavaPlayers
        PROVE  Carries(u)' => tick'.held.value <= walked[u] /\ tick'.held.value = 0
    <3>1. u \in UUIDs /\ moves[u] = 0 /\ walked[u] \in Nat
      BY JavaPlayersArePeople, Numbers DEF Settled
    <3> QED
      BY <2>1, <3>1 DEF Carries
  <2> QED
    BY <2>1, <2>2 DEF Settled
<1>5. CASE RangeDeletes
  <2> DEFINE v == tick.held.of
  <2>1. /\ tick'.held = NoVisit /\ tick.stage = "drain" /\ tick.held # NoVisit
        /\ tick'.taken = [tick.taken EXCEPT ![v] = tick.held.value]
        /\ moves' = [moves EXCEPT ![v] = 0]
        /\ UNCHANGED <<pc, snap, data, walked, file>>
    BY <1>0, <1>5 DEF RangeDeletes, At
  <2>2. ASSUME NEW u \in JavaPlayers PROVE tick'.taken[u] = 0 /\ moves'[u] = 0
    <3>1. u \in UUIDs /\ moves[u] = 0 /\ tick.taken[u] = 0
      BY JavaPlayersArePeople DEF Settled
    <3>2. u = v => tick.held.value = 0
      BY <2>1 DEF Settled, Carries
    <3> QED
      BY <1>0, <2>1, <3>1, <3>2 DEF Typed, BusTyped
  <2> QED
    BY <2>1, <2>2 DEF Settled, Carries
<1>6. CASE ApplyMoves
  <2>1. tick' \in {IdleTick, SaveEveryone} /\ UNCHANGED <<pc, snap, walked, file, moves>>
    BY <1>6 DEF ApplyMoves
  <2>2. tick'.held = NoVisit /\ tick'.taken = [u \in UUIDs |-> 0]
    BY <2>1, FreshCarriesNothing
  <2>3. ASSUME NEW j \in JavaConns PROVE data'[j] = data[j]
    <3>1. j \in Conns /\ tick.taken[Owner[j]] = 0
      BY OwnersArePeople DEF Settled, JavaPlayers
    <3> QED
      BY <1>6, <3>1 DEF ApplyMoves
  <2>4. \A u \in JavaPlayers : tick'.taken[u] = 0 /\ ~Carries(u)'
    BY <2>2, JavaPlayersArePeople DEF Carries
  <2> QED
    BY <2>1, <2>3, <2>4 DEF Settled
<1>7. CASE Saved \/ ShutdownSave
  <2>1. tick' \in {IdleTick, SaveEveryone} /\ UNCHANGED <<pc, snap, data, walked, file, moves>>
    BY <1>7 DEF Saved, ShutdownSave
  <2>2. tick'.held = NoVisit /\ tick'.taken = [u \in UUIDs |-> 0]
    BY <2>1, FreshCarriesNothing
  <2>3. \A u \in JavaPlayers : tick'.taken[u] = 0 /\ ~Carries(u)'
    BY <2>2, JavaPlayersArePeople DEF Carries
  <2> QED
    BY <2>1, <2>3 DEF Settled
<1>8. ASSUME NEW v \in UUIDs, SaveSnapshots(v) PROVE Settled'
  <2>1. /\ tick'.stage = "save" /\ tick'.taken = tick.taken
        /\ tick'.held = IF online[v] = NoConn THEN NoVisit ELSE [of |-> v, value |-> data[online[v]]]
        /\ UNCHANGED <<pc, snap, data, walked, file, moves>>
    BY <1>0, <1>8 DEF SaveSnapshots, At
  <2>2. ASSUME NEW u \in JavaPlayers PROVE Carries(u)' => tick'.held.value <= walked[u]
    BY <2>1, JavaHoldsJava DEF Carries, Settled
  <2> QED
    BY <2>1, <2>2 DEF Settled
<1>9. CASE SaveWrites
  <2>1. /\ tick'.held = NoVisit /\ tick'.taken = tick.taken /\ tick.held # NoVisit
        /\ WritePlayer(tick.held.of, tick.held.value)
        /\ UNCHANGED <<pc, snap, data, walked, moves>>
    BY <1>0, <1>9 DEF SaveWrites
  <2>2. ASSUME NEW u \in JavaPlayers PROVE file'[u] <= walked[u]
    <3>1. u \in UUIDs /\ file[u] <= walked[u] /\ (Carries(u) => tick.held.value <= walked[u])
      BY JavaPlayersArePeople DEF Settled
    <3>2. file'[u] = file[u] \/ (Carries(u) /\ file'[u] = tick.held.value)
      BY <2>1, <3>1 DEF WritePlayer, Carries, Typed, GameTyped
    <3> QED
      BY <3>1, <3>2
  <2> QED
    BY <2>1, <2>2 DEF Settled, Carries
<1>10. QED
  BY <1>1, <1>3, <1>4, <1>5, <1>6, <1>7, <1>8, <1>9 DEF TickStep

LEMMA AlwaysSettled == Spec => []Settled
<1>1. Init => Settled
  <2> SUFFICES ASSUME Init PROVE Settled
    OBVIOUS
  <2>1. tick.held = NoVisit /\ tick.taken = [u \in UUIDs |-> 0]
    BY FreshCarriesNothing DEF Init
  <2>2. \A j \in JavaConns : pc[j] # "writing" /\ data[j] = 0 /\ walked[Owner[j]] = 0
    BY OwnersArePeople DEF Init
  <2>3. \A u \in JavaPlayers : file[u] = 0 /\ walked[u] = 0 /\ moves[u] = 0 /\ tick.taken[u] = 0
    BY <2>1, JavaPlayersArePeople DEF Init
  <2> QED
    BY <2>1, <2>2, <2>3 DEF Settled, Carries
<1>2. Typed /\ Watched /\ Forward /\ Settled /\ [Next]_vars => Settled'
  <2> SUFFICES ASSUME Typed, Watched, Forward, Settled, [Next]_vars PROVE Settled'
    OBVIOUS
  <2>1. CASE UNCHANGED vars \/ Stop
    BY <2>1 DEF vars, Stop, Settled, Carries
  <2> QED
    BY <2>1, JavaSettled, BedrockSettled, TickSettled DEF Next, ClientStep
<1>3. QED
  BY <1>1, <1>2, AlwaysTyped, AlwaysWatched, AlwaysForward, PTL DEF Spec

\* A step that leaves u, its file and what the last save holds of it where they were.
LEMMA StaysSecured ==
  ASSUME NEW u, Secured(u), phase' = phase, due'[u] = due[u], file'[u] = file[u], faults'[u] = faults[u],
         tick'.held = tick.held, tick'.todo = tick.todo, online'[u] = online[u],
         online[u] # NoConn => data'[online[u]] = data[online[u]],
         \A j \in JavaConns : Owner[j] = u =>
            /\ pc[j] \in Entered => pc'[j] \in Entered
            /\ pc[j] \notin {"absent", "out"} => pc'[j] \notin {"absent", "out"}
  PROVE  Secured(u)'
BY DEF Secured, InHand, Carries, SecondJava, Faulty

\* Nobody but the connection in the game, or one that makes a second, comes near its file.
LEMMA JavaSecured ==
  ASSUME Typed, Watched, Settled, LastSave, NEW j \in JavaConns,
         JavaLoad(j) \/ JavaWalk(j) \/ JavaLeave(j) \/ JavaStep(j)
  PROVE  LastSave'
<1>0. j \in Conns /\ Owner[j] \in UUIDs /\ NoConn \notin Conns /\ Owner[j] \in JavaPlayers
  BY SessionsAssumption, OwnersArePeople DEF Conns, JavaPlayers
<1>1. UNCHANGED <<tick, phase, due>> /\ \A k \in Conns : k # j => pc'[k] = pc[k] /\ data'[k] = data[k]
  BY <1>0 DEF JavaStep, JavaLoad, JavaWalk, JavaLeave, JavaRegister, JavaEnter, JavaSnapshot, JavaWrite,
     JavaUnregister, LoadPlayer, Go, Typed, ConnTyped, GameTyped
<1>2. \A u \in UUIDs : u # Owner[j] =>
        file'[u] = file[u] /\ faults'[u] = faults[u] /\ online'[u] = online[u]
  BY <1>0 DEF JavaStep, JavaLoad, JavaWalk, JavaLeave, JavaRegister, JavaEnter, JavaSnapshot, JavaWrite,
     JavaUnregister, Unregister, LoadPlayer, WritePlayer, Typed, GameTyped
<1>3. phase \in {"saving", "down"} =>
        /\ pc[j] \in Entered => pc'[j] \in Entered
        /\ pc[j] \notin {"absent", "out"} => pc'[j] \notin {"absent", "out"}
  BY <1>0 DEF JavaStep, JavaLoad, JavaWalk, JavaLeave, JavaRegister, JavaEnter, JavaSnapshot, JavaWrite,
     JavaUnregister, Go, Entered, Typed, ConnTyped
<1>4. ASSUME NEW u \in UUIDs, phase \in {"saving", "down"} PROVE Secured(u)'
  <2>0. Secured(u) /\ due[u] \in Nat /\ file[u] \in Nat
    BY OwnersArePeople DEF LastSave, Typed, GameTyped, Walks
  <2>1. CASE u # Owner[j]
    <3>1. online[u] # NoConn => online[u] \in Conns /\ online[u] # j
      BY <2>1 DEF Typed, GameTyped, Watched, Holds
    <3>2. \A k \in JavaConns : Owner[k] = u => pc'[k] = pc[k]
      BY <1>1, <2>1, OwnersArePeople
    <3> QED
      BY <1>1, <1>2, <2>0, <2>1, <3>1, <3>2, StaysSecured
  <2>2. CASE u = Owner[j] /\ (JavaEnter(j) \/ JavaLeave(j) \/ JavaSnapshot(j))
    <3>1. UNCHANGED <<file, faults, online, data>>
      BY <2>2 DEF JavaEnter, JavaLeave, JavaSnapshot
    <3>2. \A k \in JavaConns :
            /\ pc[k] \in Entered => pc'[k] \in Entered
            /\ pc[k] \notin {"absent", "out"} => pc'[k] \notin {"absent", "out"}
      BY <1>1, <1>3, <1>4, OwnersArePeople
    <3> QED
      BY <1>1, <2>0, <3>1, <3>2, StaysSecured
  <2>3. CASE u = Owner[j] /\ JavaWalk(j)
    <3>1. UNCHANGED <<file, faults, online, pc>> /\ data'[j] = walked[u] + 1
      BY <1>0, <2>3 DEF JavaWalk, Typed, GameTyped
    <3>2. online[u] # NoConn /\ due[u] <= data[online[u]] => due[u] <= data'[online[u]]
      <4>1. online[u] \in Conns /\ online[u] # j => data'[online[u]] = data[online[u]]
        BY <1>1
      <4>2. data[j] \in Nat /\ walked[u] \in Nat /\ data[j] <= walked[u]
        BY <1>0, <2>3, JavaNumbers, Numbers DEF Settled
      <4> QED
        BY <2>0, <3>1, <4>1, <4>2 DEF Typed, GameTyped
    <3> QED
      BY <1>1, <2>0, <3>1, <3>2 DEF Secured, InHand, Carries, SecondJava, Faulty
  <2>4. CASE u = Owner[j] /\ JavaRegister(j)
    <3>1. /\ UNCHANGED <<file, faults, data>> /\ pc[j] = "loaded" /\ pc'[j] = "entering"
          /\ online'[u] = IF online[u] = NoConn THEN j ELSE online[u]
      BY <1>0, <2>4 DEF JavaRegister, Go, Typed, ConnTyped, GameTyped
    <3>2. \A k \in JavaConns : k # j => pc'[k] = pc[k]
      BY <1>1, OwnersArePeople
    <3>3. u \notin BedrockPlayers
      BY <1>0, <2>4, JavaPlayersArePeople
    <3>4. CASE due[u] # 0
      <4>1. PICK k \in JavaConns : Owner[k] = u /\ pc[k] \in Entered
        BY <1>4, <2>0, <3>3, <3>4 DEF Secured
      <4>2. k # j /\ pc'[k] \in Entered
        BY <3>1, <3>2, <4>1 DEF Entered
      <4>3. SecondJava(u)'
        <5>1. CASE online'[u] = j
          BY <4>1, <4>2, <5>1 DEF SecondJava, Entered
        <5>2. CASE online'[u] # j
          BY <2>4, <3>1, <5>2 DEF SecondJava
        <5> QED
          BY <5>1, <5>2
      <4> QED
        BY <4>1, <4>2, <4>3 DEF Secured
    <3>5. CASE due[u] = 0
      <4>1. \A x \in Conns : data[x] \in Nat
        BY OwnersArePeople DEF Typed, GameTyped, Walks
      <4>2. Carries(u) => tick.held.value \in Nat
        BY Numbers DEF Carries
      <4>3. online'[u] # NoConn => online'[u] \in Conns
        BY <1>0, <3>1 DEF Typed, GameTyped
      <4> QED
        BY <1>1, <2>0, <3>1, <3>5, <4>1, <4>2, <4>3 DEF Secured, InHand, Carries
    <3> QED
      BY <3>4, <3>5
  <2>5. CASE u = Owner[j] /\ JavaWrite(j)
    <3>1. /\ UNCHANGED <<online, data>> /\ pc[j] = "writing" /\ pc'[j] = "unregistering"
          /\ WritePlayer(u, data[j])
      BY <1>0, <2>5 DEF JavaWrite, Go, Settled, Typed, ConnTyped
    <3>2. \A k \in JavaConns : k # j => pc'[k] = pc[k]
      BY <1>1, OwnersArePeople
    <3>3. SecondJava(u)' <=> SecondJava(u)
      BY <3>1, <3>2 DEF SecondJava
    <3>4. ~SecondJava(u) /\ online[u] # NoConn => online[u] = j
      BY <2>5, <3>1 DEF SecondJava
    <3>5. Faulty(u)' \/ (file'[u] = data[j] /\ faults'[u] = faults[u])
      BY <2>0, <3>1, Numbers DEF WritePlayer, Faulty, Typed, GameTyped
    <3> QED
      BY <1>1, <1>3, <1>4, <2>0, <3>1, <3>2, <3>3, <3>4, <3>5 DEF Secured, InHand, Carries, Faulty
  <2>6. CASE u = Owner[j] /\ JavaUnregister(j)
    <3>1. online'[u] = NoConn /\ pc'[j] = "gone"
      BY <1>0, <2>6 DEF JavaUnregister, Unregister, Go, Typed, ConnTyped, GameTyped
    <3> QED
      BY <2>6, <3>1 DEF Secured, Entered
  <2> QED
    BY <1>4, <2>1, <2>2, <2>3, <2>4, <2>5, <2>6 DEF JavaStep, JavaLoad
<1>5. \A u \in UUIDs : Secured(u)'
  BY <1>1, <1>4 DEF Secured
<1>6. QED
  BY <1>1, <1>5 DEF LastSave, Closing

LEMMA BedrockSecured ==
  ASSUME Typed, LastSave, NEW c \in BedrockConns,
         \/ PostJoin(c) \/ PostJoinExpires(c) \/ JoinTimesOut(c) \/ UpdateMove(c)
         \/ BedrockLeave(c) \/ BedrockStep(c)
  PROVE  LastSave'
<1>1. /\ UNCHANGED <<tick, phase, due, file, faults, online, data>>
      /\ \A j \in JavaConns : pc'[j] = pc[j]
  <2>1. \A j \in JavaConns : j # c /\ j \in Conns
    BY SessionsAssumption, OwnersArePeople
  <2> QED
    BY <2>1 DEF PostJoin, PostJoinExpires, JoinTimesOut, UpdateMove, BedrockLeave, BedrockStep, TakeAnswer,
             StartPlay, PostDisconnect, ContextDone, Go, Typed, ConnTyped
<1>2. QED
  BY <1>1, StaysSecured DEF LastSave, Closing

\* What was due is taken note of, looked at, written, and then in the file.
LEMMA TickSecured ==
  ASSUME Typed, Watched, LastSave, TickStep
  PROVE  LastSave'
<1>0. DOMAIN tick = {"stage", "ready", "batch", "todo", "held", "taken"}
  BY DEF Typed, Ticks
<1>1. ASSUME phase' = phase, phase \notin {"saving", "down"} PROVE LastSave'
  BY <1>1 DEF LastSave, Closing, Secured
<1>2. CASE AnnounceReachable \/ (\E c \in Conns : EmitJoin(c)) \/ DrainLifecycle
           \/ (\E u \in UUIDs : RangeReads(u)) \/ RangeDeletes \/ ApplyLifecycle \/ ApplyMoves
  <2>1. phase \notin {"saving", "down"}
    BY <1>2 DEF AnnounceReachable, EmitJoin, DrainLifecycle, RangeReads, RangeDeletes, ApplyLifecycle,
         ApplyMoves, Drained, At, LastSave, Closing
  <2>2. phase' = phase
    BY <1>2 DEF AnnounceReachable, EmitJoin, DrainLifecycle, RangeReads, RangeDeletes, ApplyLifecycle,
         ApplyMoves
  <2> QED
    BY <1>1, <2>1, <2>2
<1>3. CASE ShutdownSave
  <2>1. /\ phase' = "saving" /\ UNCHANGED <<file, faults, online, data, pc>> /\ tick' = SaveEveryone
        /\ \A u \in UUIDs : due'[u] = IF online[u] = NoConn THEN 0 ELSE data[online[u]]
    BY <1>3 DEF ShutdownSave
  <2>2. tick'.stage = "save" /\ tick'.todo = Online /\ tick'.held = NoVisit
    BY <2>1, FreshCarriesNothing
  <2>3. ASSUME NEW u \in UUIDs PROVE Secured(u)'
    <3>1. due'[u] # 0 => \/ u \in BedrockPlayers /\ online[u] # NoConn
                         \/ \E j \in JavaConns : Owner[j] = u /\ pc[j] \in Entered
      <4> SUFFICES ASSUME online[u] # NoConn, online[u] \notin BedrockConns
                   PROVE  \E j \in JavaConns : Owner[j] = u /\ pc[j] \in Entered
        BY <2>1 DEF BedrockPlayers, Watched, Holds
      <4>1. online[u] \in JavaConns
        BY DEF Typed, GameTyped, Conns
      <4> QED
        BY <4>1 DEF Watched, Holds, Entered
    <3>2. online[u] # NoConn => due'[u] = data[online[u]] /\ data[online[u]] \in Nat /\ u \in tick'.todo
      BY <2>1, <2>2, Numbers DEF Online
    <3> QED
      BY <2>1, <2>2, <3>1, <3>2 DEF Secured, InHand, Carries
  <2> QED
    BY <2>1, <2>2, <2>3 DEF LastSave, Closing
<1>4. ASSUME NEW v \in UUIDs, SaveSnapshots(v) PROVE LastSave'
  <2>1. /\ tick'.stage = "save" /\ tick'.todo = tick.todo \ {v} /\ tick.held = NoVisit
        /\ tick'.held = IF online[v] = NoConn THEN NoVisit ELSE [of |-> v, value |-> data[online[v]]]
        /\ phase # "down"
        /\ UNCHANGED <<file, faults, online, data, pc, phase, due>>
    BY <1>0, <1>4 DEF SaveSnapshots, At, Running
  <2>2. ASSUME NEW u \in UUIDs PROVE Secured(u)'
    <3>1. Secured(u) /\ ~Carries(u)
      BY <2>1 DEF LastSave, Carries
    <3>2. CASE u = v
      <4>1. online[u] # NoConn => /\ tick'.held = [of |-> u, value |-> data[online[u]]]
                                  /\ data[online[u]] \in Nat
        BY <2>1, <3>2, Numbers
      <4>2. online[u] # NoConn /\ ~Carries(u)' => data[online[u]] = 0
        BY <4>1, <3>2 DEF Carries, NoVisit
      <4>3. online[u] # NoConn /\ Carries(u)' => tick'.held.value = data[online[u]]
        BY <4>1
      <4>4. due[u] \in Nat /\ file[u] \in Nat
        BY OwnersArePeople DEF Typed, GameTyped, Walks
      <4> QED
        BY <2>1, <3>1, <4>1, <4>2, <4>3, <4>4 DEF Secured, InHand, SecondJava, Faulty
    <3>3. CASE u # v
      <4>1. ~Carries(u)' /\ (u \in tick.todo => u \in tick'.todo)
        BY <2>1, <3>3 DEF Carries
      <4> QED
        BY <2>1, <3>1, <4>1 DEF Secured, InHand, SecondJava, Faulty
    <3> QED
      BY <3>2, <3>3
  <2> QED
    BY <2>1, <2>2 DEF LastSave, Closing
<1>5. CASE SaveWrites
  <2> DEFINE v == tick.held.of
  <2>1. /\ tick'.held = NoVisit /\ tick'.stage = "save" /\ tick'.todo = tick.todo /\ tick.held # NoVisit
        /\ WritePlayer(v, tick.held.value) /\ phase # "down"
        /\ UNCHANGED <<online, data, pc, phase, due>>
    BY <1>0, <1>5 DEF SaveWrites, At, Running
  <2>2. v \in UUIDs /\ tick.held.value \in Nat
    <3>1. tick.held \in Visits
      BY TickUpdates DEF Typed
    <3> QED
      BY <2>1, <3>1, OwnersArePeople DEF Visits, Walks
  <2> HIDE DEF v
  <2>3. ASSUME NEW u \in UUIDs PROVE Secured(u)'
    <3>1. Secured(u) /\ ~Carries(u)' /\ (Carries(u) <=> u = v)
      BY <2>1 DEF LastSave, Carries, v
    <3>2. CASE u = v
      <4>1. Faulty(u)' \/ (file'[u] = tick.held.value /\ faults'[u] = faults[u])
        BY <2>1, <3>2, Numbers DEF WritePlayer, Faulty, Typed, GameTyped
      <4> QED
        BY <2>1, <3>1, <3>2, <4>1 DEF Secured, InHand, SecondJava, Faulty
    <3>3. CASE u # v
      <4>1. file'[u] = file[u] /\ faults'[u] = faults[u]
        BY <2>1, <2>2, <3>3 DEF WritePlayer, Typed, GameTyped
      <4> QED
        BY <2>1, <3>1, <3>3, <4>1 DEF Secured, InHand, SecondJava, Faulty
    <3> QED
      BY <3>2, <3>3
  <2> QED
    BY <2>1, <2>3 DEF LastSave, Closing
<1>6. CASE Saved
  <2>1. /\ tick.todo = {} /\ tick.held = NoVisit /\ tick' = IdleTick /\ phase # "down"
        /\ phase' = IF phase = "saving" THEN "down" ELSE phase
        /\ UNCHANGED <<file, faults, online, data, pc, due>>
    BY <1>6 DEF Saved, Running
  <2>2. tick'.stage = "idle" /\ tick'.todo = {} /\ tick'.held = NoVisit
    BY <2>1, FreshCarriesNothing
  <2>3. ASSUME NEW u \in UUIDs PROVE Secured(u)'
    <3>1. Secured(u) /\ ~Carries(u) /\ ~Carries(u)' /\ u \notin tick.todo
      BY <2>1, <2>2 DEF LastSave, Carries
    <3> QED
      BY <2>1, <2>2, <3>1 DEF Secured, InHand, SecondJava, Faulty
  <2>4. phase' # "saving"
    BY <2>1
  <2> QED
    BY <2>2, <2>3, <2>4 DEF LastSave, Closing
<1>7. QED
  BY <1>2, <1>3, <1>4, <1>5, <1>6 DEF TickStep

LEMMA AlwaysLastSave == Spec => []LastSave
<1>1. Init => LastSave
  BY DEF Init, LastSave, Closing, Secured
<1>2. Typed /\ Watched /\ Settled /\ LastSave /\ [Next]_vars => LastSave'
  <2> SUFFICES ASSUME Typed, Watched, Settled, LastSave, [Next]_vars PROVE LastSave'
    OBVIOUS
  <2>1. CASE UNCHANGED vars
    BY <2>1, StaysSecured DEF vars, LastSave, Closing
  <2>2. CASE Stop
    BY <2>2 DEF Stop, LastSave, Closing, Secured
  <2> QED
    BY <2>1, <2>2, JavaSecured, BedrockSecured, TickSecured DEF Next, ClientStep
<1>3. QED
  BY <1>1, <1>2, AlwaysTyped, AlwaysWatched, AlwaysSettled, PTL DEF Spec

\* When the process ends, a player still in the game has all of what shutdown found in the file,
\* unless the file failed or a second Java connection of that player wrote it too.
THEOREM ShutdownKeepsAll == Spec => []ShutdownKeepsProgress
<1>1. Typed /\ LastSave => ShutdownKeepsProgress
  <2> SUFFICES ASSUME Typed, LastSave, phase = "down", NEW u \in UUIDs,
                      online[u] # NoConn, ~Faulty(u), ~SecondJava(u)
               PROVE  file[u] >= due[u]
    BY DEF ShutdownKeepsProgress
  <2>1. InHand(u) /\ u \notin tick.todo /\ ~Carries(u)
    BY DEF LastSave, Closing, Secured, Carries
  <2>2. due[u] \in Nat /\ file[u] \in Nat
    BY OwnersArePeople DEF Typed, GameTyped, Walks
  <2> QED
    BY <2>1, <2>2 DEF InHand
<1>2. QED
  BY <1>1, AlwaysTyped, AlwaysLastSave, PTL

=============================================================================
