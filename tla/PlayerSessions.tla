--------------------------- MODULE PlayerSessions ---------------------------
(***************************************************************************)
(* Who is in the game, and what of them is on disk.  A connection, Java or  *)
(* Bedrock, is a goroutine of its own.  A Bedrock connection asks the tick  *)
(* to add and remove its player through the intent bus; a Java connection   *)
(* does both itself.  The tick drains the bus, applies what it drained,     *)
(* announces arrivals to plugins and autosaves.                             *)
(*                                                                          *)
(* A player's whole persisted state is one number: how far the player has   *)
(* walked.  A UUID's walk only grows, so an older snapshot is a smaller one. *)
(***************************************************************************)
EXTENDS Naturals, Sequences, FiniteSets

CONSTANTS
    JavaConns, BedrockConns,  \* connections, each used once
    UUIDs,                    \* the players' identities
    Owner,                    \* Owner[c]: the identity c logs in with
    NoConn,                   \* no player, no session
    Populations,              \* bound: the sets of connections that may come
    LifecycleCapacity,        \* capacity of the bus's lifecycle channel
    MaxWalk,                  \* bound: moves of one identity
    MaxFaults                 \* bound: failed reads and writes of player files

Conns == JavaConns \cup BedrockConns

ASSUME SessionsAssumption ==
    /\ JavaConns \cap BedrockConns = {}
    /\ Owner \in [Conns -> UUIDs]
    \* offline Bedrock UUIDs are derived so that they meet no Java one
    /\ \A j \in JavaConns, b \in BedrockConns : Owner[j] # Owner[b]
    /\ NoConn \notin Conns
    /\ Populations \subseteq SUBSET Conns
    /\ LifecycleCapacity \in Nat \ {0}
    /\ MaxWalk \in Nat /\ MaxFaults \in Nat

VARIABLES
    pc,         \* pc[c]: where the goroutine of connection c is
    online,     \* online[u]: the connection whose player the game core holds
    data,       \* data[c]: the state of the player object c was given
    walked,     \* walked[u]: the newest step the clients of u have made
    file,       \* file[u]: the player file
    snap,       \* snap[c]: the snapshot c is about to write
    sessions,   \* sessions[u]: the adapter's play session
    lifecycle,  \* the bus's lifecycle channel
    moves,      \* moves[u]: the bus's latest move, 0 when none is pending
    answer,     \* answer[c]: the JoinResult c may read
    pending,    \* identities whose arrival is still to be announced
    tick,       \* the tick goroutine: its stage and what it holds
    phase,      \* the server's life
    due,        \* due[u]: what shutdown found in the game when it began to save
    joins,      \* joins[c]: player.join events emitted for c's player
    quits,      \* quits[c]: player.quit events emitted for c's player
    faults      \* faults[u]: failed reads and writes of u's file

vars == <<pc, online, data, walked, file, snap, sessions, lifecycle, moves, answer,
          pending, tick, phase, due, joins, quits, faults>>

connVars == <<pc, snap, answer>>
gameVars == <<online, data>>
busVars == <<lifecycle, moves>>
newsVars == <<pending, joins, quits>>
diskVars == <<file, faults>>

NoVisit == [of |-> NoConn, value |-> 0]

IdleTick == [stage |-> "idle", ready |-> {}, batch |-> <<>>, todo |-> {},
             held |-> NoVisit, taken |-> [u \in UUIDs |-> 0]]

JoinOf(c) == [kind |-> "join", uuid |-> Owner[c], conn |-> c]
DisconnectOf(u) == [kind |-> "disconnect", uuid |-> u, conn |-> NoConn]

Init ==
    /\ \E coming \in Populations :
          pc = [c \in Conns |-> IF c \in coming THEN "out" ELSE "absent"]
    /\ online = [u \in UUIDs |-> NoConn]
    /\ data = [c \in Conns |-> 0]
    /\ walked = [u \in UUIDs |-> 0]
    /\ file = [u \in UUIDs |-> 0]
    /\ snap = [c \in Conns |-> 0]
    /\ sessions = [u \in UUIDs |-> NoConn]
    /\ lifecycle = <<>>
    /\ moves = [u \in UUIDs |-> 0]
    /\ answer = [c \in Conns |-> "none"]
    /\ pending = {}
    /\ tick = IdleTick
    /\ phase = "up"
    /\ due = [u \in UUIDs |-> 0]
    /\ joins = [c \in Conns |-> 0]
    /\ quits = [c \in Conns |-> 0]
    /\ faults = [u \in UUIDs |-> 0]

Running == phase # "down"
Go(c, where) == pc' = [pc EXCEPT ![c] = where]
At(stage) == tick.stage = stage
Faulty(u) == faults[u] > 0
MayFail(u) == faults[u] < MaxFaults

----------------------------------------------------------------------------
\* The player file.

SpawnDefaults(c, u) == data' = [data EXCEPT ![c] = 0] /\ UNCHANGED faults

\* A file that cannot be read leaves the new player at the spawn defaults.
LoadPlayer(c, u) ==
    \/ data' = [data EXCEPT ![c] = file[u]] /\ UNCHANGED faults
    \/ /\ MayFail(u)
       /\ data' = [data EXCEPT ![c] = 0]
       /\ faults' = [faults EXCEPT ![u] = @ + 1]

\* The rename replaces the whole file; a write that fails is only logged.
WritePlayer(u, value) ==
    \/ file' = [file EXCEPT ![u] = value] /\ UNCHANGED faults
    \/ /\ MayFail(u)
       /\ faults' = [faults EXCEPT ![u] = @ + 1]
       /\ UNCHANGED file

\* Whoever the game core holds under u leaves it, and plugins hear it.
Unregister(u) ==
    /\ online' = [online EXCEPT ![u] = NoConn]
    /\ quits' = IF online[u] = NoConn THEN quits
                ELSE [quits EXCEPT ![online[u]] = @ + 1]

----------------------------------------------------------------------------
\* A Java connection: it loads, registers, plays, saves and unregisters by itself.

JavaLoad(c) ==
    /\ phase = "up" /\ pc[c] = "out"
    /\ LoadPlayer(c, Owner[c])
    /\ Go(c, "loaded")
    /\ UNCHANGED <<online, walked, file, snap, sessions, busVars, answer, newsVars,
                   tick, phase, due>>

\* A second player of one UUID is logged and plays on outside the game core.
JavaRegister(c) ==
    /\ Running /\ pc[c] = "loaded"
    /\ online' = [online EXCEPT ![Owner[c]] = IF @ = NoConn THEN c ELSE @]
    /\ pending' = pending \cup {Owner[c]}
    /\ Go(c, "entering")
    /\ UNCHANGED <<data, walked, diskVars, snap, sessions, busVars, answer, joins, quits,
                   tick, phase, due>>

JavaEnter(c) ==
    /\ Running /\ pc[c] = "entering"
    /\ sessions' = [sessions EXCEPT ![Owner[c]] = c]
    /\ Go(c, "playing")
    /\ UNCHANGED <<gameVars, walked, diskVars, snap, busVars, answer, newsVars, tick, phase, due>>

JavaWalk(c) ==
    /\ Running /\ pc[c] = "playing" /\ walked[Owner[c]] < MaxWalk
    /\ walked' = [walked EXCEPT ![Owner[c]] = @ + 1]
    /\ data' = [data EXCEPT ![c] = walked'[Owner[c]]]
    /\ UNCHANGED <<online, diskVars, connVars, sessions, busVars, newsVars, tick, phase, due>>

\* The session goes first; a connection lost while entering never had one.
JavaLeave(c) ==
    /\ Running /\ pc[c] \in {"entering", "playing"}
    /\ sessions' = IF pc[c] = "playing" THEN [sessions EXCEPT ![Owner[c]] = NoConn]
                   ELSE sessions
    /\ Go(c, "saving")
    /\ UNCHANGED <<gameVars, walked, diskVars, snap, busVars, answer, newsVars, tick, phase, due>>

JavaSnapshot(c) ==
    /\ Running /\ pc[c] = "saving"
    /\ snap' = [snap EXCEPT ![c] = data[c]]
    /\ Go(c, "writing")
    /\ UNCHANGED <<gameVars, walked, diskVars, sessions, busVars, answer, newsVars, tick, phase, due>>

JavaWrite(c) ==
    /\ Running /\ pc[c] = "writing"
    /\ WritePlayer(Owner[c], snap[c])
    /\ Go(c, "unregistering")
    /\ UNCHANGED <<gameVars, walked, snap, sessions, busVars, answer, newsVars, tick, phase, due>>

JavaUnregister(c) ==
    /\ Running /\ pc[c] = "unregistering"
    /\ Unregister(Owner[c])
    /\ Go(c, "gone")
    /\ UNCHANGED <<data, walked, diskVars, snap, sessions, busVars, answer, pending, joins,
                   tick, phase, due>>

----------------------------------------------------------------------------
\* A Bedrock connection: it posts its join and waits, at most ten seconds each.

PostJoin(c) ==
    /\ phase = "up" /\ pc[c] = "out" /\ Len(lifecycle) < LifecycleCapacity
    /\ lifecycle' = Append(lifecycle, JoinOf(c))
    /\ Go(c, "waiting")
    /\ UNCHANGED <<gameVars, walked, diskVars, snap, sessions, moves, answer, newsVars,
                   tick, phase, due>>

PostJoinExpires(c) ==
    /\ Running /\ pc[c] = "out" /\ Len(lifecycle) = LifecycleCapacity
    /\ Go(c, "gone")
    /\ UNCHANGED <<gameVars, walked, diskVars, snap, sessions, busVars, answer, newsVars,
                   tick, phase, due>>

TakeAnswer(c) ==
    /\ Running /\ pc[c] = "waiting" /\ answer[c] # "none"
    /\ Go(c, IF answer[c] = "joined" THEN "starting" ELSE "gone")
    /\ UNCHANGED <<gameVars, walked, diskVars, snap, sessions, busVars, answer, newsVars,
                   tick, phase, due>>

TimesOutQuietly(c) ==
    /\ Running /\ pc[c] = "waiting"
    /\ Go(c, "gone")
    /\ UNCHANGED <<gameVars, walked, diskVars, snap, sessions, busVars, answer, newsVars,
                   tick, phase, due>>

\* The answer may be there as well: select picks either.
JoinTimesOut(c) ==
    /\ Running /\ pc[c] = "waiting"
    /\ Go(c, "leaving")
    /\ UNCHANGED <<gameVars, walked, diskVars, snap, sessions, busVars, answer, newsVars,
                   tick, phase, due>>

StartPlay(c) ==
    /\ Running /\ pc[c] = "starting"
    /\ sessions' = [sessions EXCEPT ![Owner[c]] = c]
    /\ Go(c, "playing")
    /\ UNCHANGED <<gameVars, walked, diskVars, snap, busVars, answer, newsVars, tick, phase, due>>

\* The latest move replaces the one pending.
UpdateMove(c) ==
    /\ Running /\ pc[c] = "playing" /\ walked[Owner[c]] < MaxWalk
    /\ walked' = [walked EXCEPT ![Owner[c]] = @ + 1]
    /\ moves' = [moves EXCEPT ![Owner[c]] = walked'[Owner[c]]]
    /\ UNCHANGED <<gameVars, diskVars, connVars, sessions, lifecycle, newsVars, tick, phase, due>>

\* Whatever session the UUID has goes first, also when StartGame fails.
BedrockLeave(c) ==
    /\ Running /\ pc[c] \in {"starting", "playing"}
    /\ sessions' = [sessions EXCEPT ![Owner[c]] = NoConn]
    /\ Go(c, "leaving")
    /\ UNCHANGED <<gameVars, walked, diskVars, snap, busVars, answer, newsVars, tick, phase, due>>

DisconnectDropped(c) ==
    /\ Running /\ pc[c] = "leaving"
    /\ lifecycle' = IF Len(lifecycle) < LifecycleCapacity
                    THEN Append(lifecycle, DisconnectOf(Owner[c])) ELSE lifecycle
    /\ Go(c, "gone")
    /\ UNCHANGED <<gameVars, walked, diskVars, snap, sessions, moves, answer, newsVars,
                   tick, phase, due>>

PostDisconnect(c) ==
    /\ Running /\ pc[c] = "leaving" /\ Len(lifecycle) < LifecycleCapacity
    /\ lifecycle' = Append(lifecycle, DisconnectOf(Owner[c]))
    /\ Go(c, "gone")
    /\ UNCHANGED <<gameVars, walked, diskVars, snap, sessions, moves, answer, newsVars,
                   tick, phase, due>>

\* The server's context ended: nothing waits and nothing is posted any more.
ContextDone(c) ==
    /\ phase \in {"stopping", "saving"} /\ pc[c] \in {"out", "waiting", "leaving"}
    /\ Go(c, "gone")
    /\ UNCHANGED <<gameVars, walked, diskVars, snap, sessions, busVars, answer, newsVars,
                   tick, phase, due>>

----------------------------------------------------------------------------
\* The tick.

\* Who became reachable; a join that waited too long is dropped.
AnnounceReachable ==
    /\ At("idle") /\ phase \in {"up", "stopping"}
    /\ LET here == {u \in pending : online[u] # NoConn}
           reachable == {u \in here : sessions[u] # NoConn}
       IN \E tooLate \in SUBSET (here \ reachable) :
            /\ pending' = here \ (reachable \cup tooLate)
            /\ tick' = [tick EXCEPT !.stage = "announce",
                                    !.ready = {online[u] : u \in reachable}]
    /\ UNCHANGED <<connVars, gameVars, walked, diskVars, sessions, busVars, joins, quits,
                   phase, due>>

\* Emitted after the lock is gone.
EmitJoin(c) ==
    /\ At("announce") /\ c \in tick.ready
    /\ joins' = [joins EXCEPT ![c] = @ + 1]
    /\ tick' = [tick EXCEPT !.ready = @ \ {c}]
    /\ UNCHANGED <<connVars, gameVars, walked, diskVars, sessions, busVars, pending, quits,
                   phase, due>>

DrainLifecycle ==
    /\ At("announce") /\ tick.ready = {}
    /\ lifecycle' = <<>>
    /\ tick' = [tick EXCEPT !.stage = "drain", !.batch = lifecycle,
                            !.todo = {u \in UUIDs : moves[u] # 0}]
    /\ UNCHANGED <<connVars, gameVars, walked, diskVars, sessions, moves, newsVars, phase, due>>

\* sync.Map.Range reads an entry and then calls the function that deletes it.
RangeReads(u) ==
    /\ At("drain") /\ tick.held = NoVisit /\ u \in tick.todo
    /\ tick' = [tick EXCEPT !.todo = @ \ {u}, !.held = [of |-> u, value |-> moves[u]]]
    /\ UNCHANGED <<connVars, gameVars, walked, diskVars, sessions, busVars, newsVars, phase, due>>

RangeDeletes ==
    /\ At("drain") /\ tick.held # NoVisit
    /\ moves' = [moves EXCEPT ![tick.held.of] = 0]
    /\ tick' = [tick EXCEPT !.taken[tick.held.of] = tick.held.value, !.held = NoVisit]
    /\ UNCHANGED <<connVars, gameVars, walked, diskVars, sessions, lifecycle, newsVars, phase, due>>

Drained == At("drain") /\ tick.held = NoVisit /\ tick.todo = {}

Reply(c, result) ==
    /\ answer' = [answer EXCEPT ![c] = result]
    /\ UNCHANGED <<pc, snap>>

DuplicateAnnounced(c) ==
    /\ Reply(c, "refused")
    /\ pending' = pending \cup {Owner[c]}
    /\ UNCHANGED online
Duplicate(c) == Reply(c, "refused") /\ UNCHANGED <<online, pending>>

Added(c) ==
    /\ online' = [online EXCEPT ![Owner[c]] = c]
    /\ pending' = pending \cup {Owner[c]}
    /\ Reply(c, "joined")

\* Refused by the whitelist or a ban, refused as a duplicate, or added.
ApplyJoin(c) ==
    /\ UNCHANGED <<file, quits, joins>>
    /\ \/ Reply(c, "refused") /\ UNCHANGED <<gameVars, pending, faults>>
       \/ /\ LoadPlayer(c, Owner[c])
          /\ IF online[Owner[c]] = NoConn THEN Added(c) ELSE Duplicate(c)

ApplyDisconnect(u) ==
    /\ IF online[u] = NoConn THEN UNCHANGED diskVars ELSE WritePlayer(u, data[online[u]])
    /\ Unregister(u)
    /\ UNCHANGED <<connVars, data, pending, joins>>

ApplyLifecycle ==
    /\ Drained /\ tick.batch # <<>>
    /\ tick' = [tick EXCEPT !.batch = Tail(@)]
    /\ LET i == Head(tick.batch)
       IN IF i.kind = "join" THEN ApplyJoin(i.conn) ELSE ApplyDisconnect(i.uuid)
    /\ UNCHANGED <<walked, sessions, busVars, phase, due>>

WithSession == {u \in UUIDs : sessions[u] # NoConn}
Online == {u \in UUIDs : online[u] # NoConn}

SaveEveryone == [IdleTick EXCEPT !.stage = "save", !.todo = Online]

\* After every lifecycle intent of the drain, whoever is online under u moves.
\* One tick in six hundred goes on to save everyone online.
ApplyMoves ==
    /\ Drained /\ tick.batch = <<>>
    /\ data' = [c \in Conns |->
                  IF online[Owner[c]] = c /\ tick.taken[Owner[c]] # 0
                  THEN tick.taken[Owner[c]] ELSE data[c]]
    /\ tick' \in {IdleTick, SaveEveryone}
    /\ UNCHANGED <<connVars, online, walked, diskVars, sessions, busVars, newsVars, phase, due>>

SaveSnapshots(u) ==
    /\ At("save") /\ Running /\ tick.held = NoVisit /\ u \in tick.todo
    /\ tick' = [tick EXCEPT !.todo = @ \ {u},
                            !.held = IF online[u] = NoConn THEN NoVisit
                                     ELSE [of |-> u, value |-> data[online[u]]]]
    /\ UNCHANGED <<connVars, gameVars, walked, diskVars, sessions, busVars, newsVars, phase, due>>

SaveWrites ==
    /\ At("save") /\ Running /\ tick.held # NoVisit
    /\ WritePlayer(tick.held.of, tick.held.value)
    /\ tick' = [tick EXCEPT !.held = NoVisit]
    /\ UNCHANGED <<connVars, gameVars, walked, sessions, busVars, newsVars, phase, due>>

Saved ==
    /\ At("save") /\ Running /\ tick.todo = {} /\ tick.held = NoVisit
    /\ tick' = IdleTick
    /\ phase' = IF phase = "saving" THEN "down" ELSE phase
    /\ UNCHANGED <<connVars, gameVars, walked, diskVars, sessions, busVars, newsVars, due>>

----------------------------------------------------------------------------
\* Shutdown: the tick is joined, Java connections are not; then everyone is saved.

Stop ==
    /\ phase = "up"
    /\ phase' = "stopping"
    /\ UNCHANGED <<connVars, gameVars, walked, diskVars, sessions, busVars, newsVars, tick, due>>

ShutdownSave ==
    /\ phase = "stopping" /\ At("idle")
    /\ phase' = "saving"
    /\ due' = [u \in UUIDs |-> IF online[u] = NoConn THEN 0 ELSE data[online[u]]]
    /\ tick' = SaveEveryone
    /\ UNCHANGED <<connVars, gameVars, walked, diskVars, sessions, busVars, newsVars>>

JavaStep(c) ==
    \/ JavaRegister(c) \/ JavaEnter(c) \/ JavaSnapshot(c) \/ JavaWrite(c) \/ JavaUnregister(c)

BedrockStep(c) ==
    TakeAnswer(c) \/ StartPlay(c) \/ PostDisconnect(c) \/ ContextDone(c)

TickStep ==
    \/ AnnounceReachable \/ (\E c \in Conns : EmitJoin(c)) \/ DrainLifecycle
    \/ (\E u \in UUIDs : RangeReads(u)) \/ RangeDeletes
    \/ ApplyLifecycle \/ ApplyMoves
    \/ (\E u \in UUIDs : SaveSnapshots(u)) \/ SaveWrites \/ Saved \/ ShutdownSave

\* What clients do, when they like.
ClientStep ==
    \/ \E c \in JavaConns : JavaLoad(c) \/ JavaWalk(c) \/ JavaLeave(c)
    \/ \E c \in BedrockConns :
          PostJoin(c) \/ PostJoinExpires(c) \/ JoinTimesOut(c) \/ UpdateMove(c) \/ BedrockLeave(c)

Next ==
    \/ TickStep \/ Stop \/ ClientStep
    \/ \E c \in JavaConns : JavaStep(c)
    \/ \E c \in BedrockConns : BedrockStep(c)

\* The tick runs at 20 Hz and no goroutine is starved; clients may do nothing.
Spec ==
    /\ Init /\ [][Next]_vars
    /\ WF_vars(TickStep)
    /\ \A c \in JavaConns : WF_vars(JavaStep(c))
    /\ \A c \in BedrockConns : WF_vars(BedrockStep(c))

----------------------------------------------------------------------------
\* Properties.

(* Every variable stays in its type: in particular the lifecycle channel     *)
(* within its capacity, and at most one player per UUID.                     *)
TypeOK ==
    /\ pc \in [Conns -> {"absent", "out", "loaded", "entering", "waiting", "starting", "playing",
                         "leaving", "saving", "writing", "unregistering", "gone"}]
    /\ online \in [UUIDs -> Conns \cup {NoConn}]
    /\ data \in [Conns -> 0..MaxWalk] /\ snap \in [Conns -> 0..MaxWalk]
    /\ walked \in [UUIDs -> 0..MaxWalk] /\ file \in [UUIDs -> 0..MaxWalk]
    /\ sessions \in [UUIDs -> Conns \cup {NoConn}]
    /\ lifecycle \in Seq({JoinOf(c) : c \in BedrockConns} \cup {DisconnectOf(u) : u \in UUIDs})
    /\ Len(lifecycle) <= LifecycleCapacity
    /\ moves \in [UUIDs -> 0..MaxWalk] /\ due \in [UUIDs -> 0..MaxWalk]
    /\ answer \in [Conns -> {"none", "joined", "refused"}]
    /\ pending \subseteq UUIDs
    /\ tick.ready \subseteq Conns /\ tick.todo \subseteq UUIDs
    /\ phase \in {"up", "stopping", "saving", "down"}
    /\ joins \in [Conns -> Nat] /\ quits \in [Conns -> Nat] /\ faults \in [UUIDs -> 0..MaxFaults]

\* Another Java connection of u came than the one in the game.
SecondJava(u) ==
    \E c \in JavaConns : Owner[c] = u /\ c # online[u] /\ pc[c] \notin {"absent", "out"}

Queued(i) == \E k \in DOMAIN lifecycle : lifecycle[k] = i
Drawn(i) == \E k \in DOMAIN tick.batch : tick.batch[k] = i

(* The game core never keeps a player nobody will remove (a "ghost"): while   *)
(* the server runs, a player's connection is alive or its disconnect is in    *)
(* the bus.  A join whose answer timed out is the hard case.                  *)
NoGhostPlayer ==
    phase = "up" =>
        \A u \in UUIDs : online[u] # NoConn =>
            \/ pc[online[u]] # "gone"
            \/ Queued(DisconnectOf(u)) \/ Drawn(DisconnectOf(u))

(* A Bedrock player's file never goes back to an older state: autosave,        *)
(* disconnect and rejoin, through whatever order of connections, only move it  *)
(* forward, unless a read or a write of the file failed.                       *)
BedrockFileMovesForward ==
    [][\A b \in BedrockConns : LET u == Owner[b] IN
            file'[u] < file[u] => Faulty(u)']_vars

(* Shutdown loses nothing the game holds: when the process ends, every player    *)
(* still in the game has a file at least as new as when shutdown began to save,   *)
(* whoever else was writing, except a second Java connection of the same UUID.    *)
ShutdownKeepsProgress ==
    phase = "down" =>
        \A u \in UUIDs :
            online[u] = NoConn \/ Faulty(u) \/ SecondJava(u) \/ file[u] >= due[u]

(* Plugins hear of a Bedrock player's arrival at most once, and never after     *)
(* they heard of the departure.                                                *)
BedrockJoinPrecedesQuit ==
    [][\A c \in BedrockConns :
            /\ joins'[c] > joins[c] => joins[c] = 0 /\ quits[c] = 0
            /\ quits'[c] <= 1]_vars

(* A connection that ended has no player in the game from some moment on, unless *)
(* the server stops, even when its join is still to be applied.                  *)
LeaversAreRemoved ==
    \A c \in Conns :
        pc[c] \in {"leaving", "saving"} ~> [](online[Owner[c]] # c \/ phase # "up")

(* intent.go:464: "new moves posted after this point are picked up on the next   *)
(* tick, never lost".  Drain removes from the bus only a move it returns.        *)
DrainLosesNoMove ==
    [][\A u \in UUIDs : moves[u] # 0 /\ moves'[u] = 0 => tick'.taken[u] = moves[u]]_vars
=============================================================================
