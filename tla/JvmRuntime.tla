------------------------------ MODULE JvmRuntime ------------------------------
(***************************************************************************)
(* runtime/jvm over runtime/link: the Runtime that hosts every Java plugin *)
(* in one process, its watcher that brings a dead process back, and the    *)
(* Supervisor, Child and Watch of each process it has started.             *)
(*                                                                         *)
(* Time is the order of things, and one clock: whether StableAfter has     *)
(* passed since the watcher last noted a start.  The host is the goroutine *)
(* that boots and shuts down the server.                                   *)
(***************************************************************************)
EXTENDS Integers, FiniteSets

CONSTANTS
  Plugins,
  Attempts,          \* Respawn.Attempts
  MaxSpawns,         \* bound: processes started; the last of them lives on
  MaxFailedStarts,   \* bound: respawns whose process does not come up
  DiesUnrecorded,    \* TRUE: a process may die before the host has recorded what it loaded
  OutlivesConn       \* TRUE: a process may lose its connection and live on

ASSUME BoundsAssumption ==
  /\ Attempts \in Nat \ {0} /\ MaxSpawns \in Nat \ {0} /\ MaxFailedStarts \in Nat
ASSUME SwitchesAssumption == DiesUnrecorded \in BOOLEAN /\ OutlivesConn \in BOOLEAN

Spawns == 1 .. MaxSpawns

VARIABLES
  sup,      \* [Spawns -> supervisor and process of each spawn]
  spawned,  \* spawns so far
  rt,       \* the Runtime: its supervisor (0: nil), stopping (done is closed with it), loaded
  w,        \* the watcher
  h,        \* the host
  aged,     \* StableAfter has passed since startedAt
  flaps,    \* respawns since a process last lived that long
  failures  \* respawns that installed no process

vars == <<sup, spawned, rt, w, h, aged, flaps, failures>>

\* watch: Supervisor.watch; failed: Failed() is closed.
NoSupervisor == [proc |-> "none", conn |-> "open", watch |-> "off", stopping |-> FALSE,
                 failed |-> FALSE, plugins |-> {}, refused |-> {}]
Up == [NoSupervisor EXCEPT !.proc = "up", !.watch = "watching"]

Init ==
  /\ sup = [i \in Spawns |-> NoSupervisor] /\ spawned = 0
  /\ rt = [supervisor |-> 0, stopping |-> FALSE, loaded |-> {}]
  /\ w = [pc |-> "off", cur |-> 0, new |-> 0, failure |-> 0, todo |-> {}]
  /\ h = [pc |-> "new", plugin |-> {}, tried |-> {}, stops |-> 0]
  /\ aged = FALSE /\ flaps = 0 /\ failures = 0

Serving(i) == i # 0 /\ sup[i].proc = "up" /\ sup[i].conn = "open"

---------------------------------------------------------------------------
(* The processes and their supervisors. *)

Recorded == h.pc # "remember"

Dead(s) == [s EXCEPT !.proc = "dead", !.plugins = {}, !.refused = {}]

ProcessDies(i) ==
  /\ sup[i].proc = "up" /\ (DiesUnrecorded \/ Recorded) /\ i < MaxSpawns
  /\ sup' = [sup EXCEPT ![i] = Dead(@)]
  /\ UNCHANGED <<spawned, rt, w, h, aged, flaps, failures>>

\* The socket closes, or a ping is answered with something else.
ConnectionFails(i) ==
  /\ OutlivesConn /\ Serving(i) /\ (DiesUnrecorded \/ Recorded) /\ i < MaxSpawns
  /\ sup' = [sup EXCEPT ![i].conn = "lost"]
  /\ UNCHANGED <<spawned, rt, w, h, aged, flaps, failures>>

\* The process stops answering: its socket stays open.
Hangs(i) ==
  /\ Serving(i) /\ (DiesUnrecorded \/ Recorded) /\ i < MaxSpawns
  /\ sup' = [sup EXCEPT ![i].conn = "hung"]
  /\ UNCHANGED <<spawned, rt, w, h, aged, flaps, failures>>

\* After enough missed pings in a row Watch kills the process and waits for its end.
JustReported(s) == [s EXCEPT !.watch = "returned"]
Killed(s) == [Dead(s) EXCEPT !.watch = "returned"]

WatchKills(i) ==
  /\ sup[i].watch = "watching" /\ sup[i].proc = "up" /\ sup[i].conn = "hung"
  /\ sup' = [sup EXCEPT ![i] = Killed(@)]
  /\ UNCHANGED <<spawned, rt, w, h, aged, flaps, failures>>

WatchReturns(i) ==
  /\ sup[i].watch = "watching"
  /\ sup[i].stopping \/ sup[i].proc = "dead" \/ sup[i].conn = "lost"
  /\ sup' = [sup EXCEPT ![i].watch = "returned"]
  /\ UNCHANGED <<spawned, rt, w, h, aged, flaps, failures>>

\* Watch lost a race with Stop when the process was asked to leave meanwhile.
OwnEnd(i) == ~sup[i].stopping

WatchReports(i) ==
  /\ sup[i].watch = "returned"
  /\ sup' = [sup EXCEPT ![i].watch = "off", ![i].failed = OwnEnd(i)]
  /\ UNCHANGED <<spawned, rt, w, h, aged, flaps, failures>>

\* Supervisor.Stop marks the stop; Child.Stop returns when the process is gone, killing
\* it when it does not leave.
MarkStopping(i) == [sup EXCEPT ![i].stopping = TRUE]
Gone(i) == [sup EXCEPT ![i] = Dead([@ EXCEPT !.stopping = TRUE])]

---------------------------------------------------------------------------
(* The host. *)

Start ==
  /\ h.pc = "new" /\ spawned < MaxSpawns
  /\ spawned' = spawned + 1 /\ sup' = [sup EXCEPT ![spawned + 1] = Up]
  /\ rt' = [rt EXCEPT !.supervisor = spawned + 1]
  /\ w' = [w EXCEPT !.pc = "top"] /\ h' = [h EXCEPT !.pc = "loading"]
  /\ UNCHANGED <<aged, flaps, failures>>

Load(p) ==
  /\ h.pc = "loading" /\ p \notin h.tried /\ Serving(rt.supervisor)
  /\ sup' = [sup EXCEPT ![rt.supervisor].plugins = @ \cup {p}]
  /\ h' = [h EXCEPT !.pc = "remember", !.plugin = {p}, !.tried = @ \cup {p}]
  /\ UNCHANGED <<spawned, rt, w, aged, flaps, failures>>

Remember ==
  /\ h.pc = "remember"
  /\ rt' = [rt EXCEPT !.loaded = @ \cup h.plugin]
  /\ h' = [h EXCEPT !.pc = "loading", !.plugin = {}]
  /\ UNCHANGED <<sup, spawned, w, aged, flaps, failures>>

\* A load that fails makes the host roll back; a shutdown may come at any time.
BeginShutdown ==
  /\ h.pc = "loading"
  /\ h' = [h EXCEPT !.pc = "unloading"]
  /\ UNCHANGED <<sup, spawned, rt, w, aged, flaps, failures>>

\* Unload forgets the plugin first, then tells the process of the moment.
Unload(p) ==
  /\ h.pc = "unloading" /\ p \in rt.loaded
  /\ rt' = [rt EXCEPT !.loaded = @ \ {p}]
  /\ h' = [h EXCEPT !.pc = "send unload", !.plugin = {p}]
  /\ UNCHANGED <<sup, spawned, w, aged, flaps, failures>>

SendUnload ==
  /\ h.pc = "send unload"
  /\ sup' = IF Serving(rt.supervisor)
              THEN [sup EXCEPT ![rt.supervisor].plugins = @ \ h.plugin] ELSE sup
  /\ h' = [h EXCEPT !.pc = "unloading", !.plugin = {}]
  /\ UNCHANGED <<spawned, rt, w, aged, flaps, failures>>

\* Runtime.Stop records the intent, then stops the supervisor it found.
Stop ==
  /\ h.pc = "unloading" /\ rt.loaded = {}
  /\ rt' = [supervisor |-> 0, stopping |-> TRUE, loaded |-> {}]
  /\ sup' = IF rt.supervisor = 0 THEN sup ELSE MarkStopping(rt.supervisor)
  /\ h' = IF rt.supervisor = 0 THEN [h EXCEPT !.pc = "stopped"]
          ELSE [h EXCEPT !.pc = "stopping", !.stops = rt.supervisor]
  /\ UNCHANGED <<spawned, w, aged, flaps, failures>>

StopReturns ==
  /\ h.pc = "stopping"
  /\ sup' = Gone(h.stops)
  /\ h' = [h EXCEPT !.pc = "stopped", !.stops = 0]
  /\ UNCHANGED <<spawned, rt, w, aged, flaps, failures>>

---------------------------------------------------------------------------
(* The watcher. *)

Ended == [w EXCEPT !.pc = "ended"]

Watch ==
  /\ w.pc = "top"
  /\ w' = IF rt.supervisor = 0 THEN Ended
          ELSE [w EXCEPT !.pc = "wait", !.cur = rt.supervisor]
  /\ UNCHANGED <<sup, spawned, rt, h, aged, flaps, failures>>

\* done wakes the watcher out of both its waits; a respawn that finds the runtime
\* stopping starts nothing.
WatcherDone ==
  /\ w.pc \in {"wait", "backoff"} /\ rt.stopping
  /\ w' = Ended
  /\ UNCHANGED <<sup, spawned, rt, h, aged, flaps, failures>>

SeesFailure ==
  /\ w.pc = "wait" /\ sup[w.cur].failed
  /\ w' = IF rt.stopping THEN Ended ELSE [w EXCEPT !.pc = "count"]
  /\ UNCHANGED <<sup, spawned, rt, h, aged, flaps, failures>>

\* Which failure of the flapping window this is.
NoWindow == 1
Failure == IF aged THEN 1 ELSE w.failure + 1

\* One more failure than Attempts is one too many.
Backoff ==
  /\ w.pc = "count" /\ Failure <= Attempts
  /\ w' = [w EXCEPT !.pc = "backoff", !.failure = Failure]
  /\ UNCHANGED <<sup, spawned, rt, h, aged, flaps, failures>>

GiveUp ==
  /\ w.pc = "count" /\ Failure > Attempts
  /\ w' = [Ended EXCEPT !.failure = Failure]
  /\ rt' = [rt EXCEPT !.supervisor = 0]
  /\ UNCHANGED <<sup, spawned, h, aged, flaps, failures>>

\* The backoff is over: respawn looks once more, then starts a process.
RespawnFails ==
  /\ w.pc = "backoff" /\ ~rt.stopping /\ failures < MaxFailedStarts
  /\ failures' = failures + 1 /\ flaps' = flaps + 1
  /\ w' = [w EXCEPT !.pc = "respawn failed"]
  /\ UNCHANGED <<sup, spawned, rt, h, aged>>

Respawn ==
  /\ w.pc = "backoff" /\ ~rt.stopping /\ spawned < MaxSpawns
  /\ spawned' = spawned + 1 /\ sup' = [sup EXCEPT ![spawned + 1] = Up]
  /\ w' = [w EXCEPT !.pc = "snapshot", !.new = spawned + 1]
  /\ flaps' = flaps + 1
  /\ UNCHANGED <<rt, h, aged, failures>>

LastKnown == sup[w.cur].plugins
Snapshot == rt.loaded

Remembered ==
  /\ w.pc = "snapshot"
  /\ w' = [w EXCEPT !.pc = "reload", !.todo = Snapshot]
  /\ UNCHANGED <<sup, spawned, rt, h, aged, flaps, failures>>

\* One plugin that refuses to come back does not keep the others down.
Reload(p) ==
  /\ w.pc = "reload" /\ p \in w.todo
  /\ w' = [w EXCEPT !.todo = @ \ {p}]
  /\ \/ Serving(w.new) /\ sup' = [sup EXCEPT ![w.new].plugins = @ \cup {p}]
     \/ sup' = [sup EXCEPT ![w.new].refused = @ \cup {p}]
  /\ UNCHANGED <<spawned, rt, h, aged, flaps, failures>>

\* READY can still be written to a process whose end has not been noticed.
MayInstall == ~rt.stopping

Install ==
  /\ w.pc = "reload" /\ w.todo = {} /\ MayInstall
  /\ rt' = [rt EXCEPT !.supervisor = w.new]
  /\ w' = [w EXCEPT !.pc = "top", !.new = 0]
  /\ aged' = FALSE
  /\ UNCHANGED <<sup, spawned, h, flaps, failures>>

\* READY cannot be written, or the runtime was stopped meanwhile: the deferred Stop.
LeftUp(i) == sup
Discarded(i) == Gone(i)

Discard ==
  /\ w.pc = "reload" /\ w.todo = {} /\ (~Serving(w.new) \/ ~MayInstall)
  /\ sup' = Discarded(w.new)
  /\ w' = [w EXCEPT !.pc = "respawn failed", !.new = 0]
  /\ failures' = failures + 1
  /\ UNCHANGED <<spawned, rt, h, aged, flaps>>

NoNextTry == Ended
NextTry == [w EXCEPT !.pc = "top"]

AfterFailedRespawn ==
  /\ w.pc = "respawn failed"
  /\ w' = IF rt.stopping THEN Ended ELSE NextTry
  /\ UNCHANGED <<sup, spawned, rt, h, aged, flaps, failures>>

\* StableAfter passes; a death is noticed, and counted, long before that.
Age ==
  /\ w.pc \in {"wait", "backoff", "reload"} /\ ~aged
  /\ w.pc = "wait" => Serving(w.cur)
  /\ aged' = TRUE /\ flaps' = IF w.pc = "wait" THEN 0 ELSE flaps
  /\ UNCHANGED <<sup, spawned, rt, w, h, failures>>

SupervisorStep(i) == WatchKills(i) \/ WatchReturns(i) \/ WatchReports(i)
HostStep == Start \/ Remember \/ SendUnload \/ Stop \/ StopReturns \/ \E p \in Plugins : Load(p) \/ Unload(p)
WatcherStep ==
  \/ Watch \/ WatcherDone \/ SeesFailure \/ Backoff \/ GiveUp \/ Respawn
  \/ Remembered \/ Install \/ Discard \/ AfterFailedRespawn
  \/ \E p \in Plugins : Reload(p)

Next ==
  \/ HostStep \/ BeginShutdown \/ WatcherStep \/ RespawnFails \/ Age
  \/ \E i \in Spawns : SupervisorStep(i) \/ ProcessDies(i) \/ Hangs(i) \/ ConnectionFails(i)

Spec == Init /\ [][Next]_vars

\* Every goroutine of the server runs; a process need not die, nor the server stop.
FairSpec ==
  Spec /\ WF_vars(HostStep) /\ WF_vars(WatcherStep) /\ \A i \in Spawns : WF_vars(SupervisorStep(i))

---------------------------------------------------------------------------
(* Properties. *)

Pid == 0 .. MaxSpawns

Supervisors == [proc : {"none", "up", "dead"}, conn : {"open", "hung", "lost"},
                watch : {"off", "watching", "returned"}, stopping : BOOLEAN,
                failed : BOOLEAN, plugins : SUBSET Plugins, refused : SUBSET Plugins]

TypeOK ==
  /\ sup \in [Spawns -> Supervisors]
  /\ spawned \in Pid /\ rt \in [supervisor : Pid, stopping : BOOLEAN, loaded : SUBSET Plugins]
  /\ w \in [pc : {"off", "top", "wait", "count", "backoff", "snapshot", "reload",
                  "respawn failed", "ended"},
            cur : Pid, new : Pid, failure : 0 .. Attempts + 1, todo : SUBSET Plugins]
  /\ h \in [pc : {"new", "loading", "remember", "unloading", "send unload", "stopping", "stopped"},
            plugin : SUBSET Plugins, tried : SUBSET Plugins, stops : Pid]
  /\ aged \in BOOLEAN /\ flaps \in Nat /\ failures \in Nat
  /\ w.pc \in {"snapshot", "reload"} => w.new # 0 /\ sup[w.new].proc # "none"
  /\ w.pc # "ended" => w.failure <= Attempts
  /\ h.pc = "new" => w.pc = "off"

\* runtime.go:353: Stop records its intent so that the watcher does not install what it
\* was respawning: after a Stop the runtime has no supervisor again.
StoppedForGood == rt.stopping => rt.supervisor = 0

\* runtime.go:122: one child process hosts every plugin: however a respawn ends, and
\* whenever the stop comes, one JVM at most is running, but for those that lost their
\* connection and live on.
OneProcess == Cardinality({i \in Spawns : sup[i].proc = "up" /\ sup[i].conn # "lost"}) <= 1

\* runtime.go:135: what the host loaded is back after a respawn, but for what refused.
PluginsComeBack ==
  w.pc = "wait" /\ Serving(w.cur) =>
    rt.loaded \subseteq sup[w.cur].plugins \cup sup[w.cur].refused

\* respawn.go:19: Attempts bounds the consecutive respawns before the runtime gives up.
AttemptsBound == flaps <= Attempts

\* It bounds them while every respawn brings up a process that is installed.
DeathsBound == failures = 0 => AttemptsBound

\* A process that goes on its own is replaced, or given up, or the server stops.
Recovers ==
  \A i \in Spawns :
    (sup[i].failed /\ rt.supervisor = i) ~> (rt.supervisor # i)

\* Once the runtime is stopped no JVM it has a connection to runs on for ever, one being
\* respawned included.
StopEnds == rt.stopping ~> [](\A i \in Spawns : sup[i].proc = "up" => sup[i].conn = "lost")
=============================================================================
