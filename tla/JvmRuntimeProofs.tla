--------------------------- MODULE JvmRuntimeProofs ---------------------------
(***************************************************************************)
(* Types of the JVM runtime; that at most one process runs; that Attempts  *)
(* bounds the deaths in a row; and that what the host loaded comes back.   *)
(***************************************************************************)
EXTENDS JvmRuntime, FiniteSetTheorems, TLAPS

---------------------------------------------------------------------------
(* Types. *)

LEMMA SpawnsAreNumbers ==
  /\ Spawns \subseteq Pid /\ 0 \in Pid /\ 0 \notin Spawns /\ Pid \subseteq Nat
  /\ \A i \in Pid : i # 0 => i \in Spawns
  /\ \A n \in Pid : n < MaxSpawns => n + 1 \in Spawns
BY BoundsAssumption DEF Spawns, Pid

Bunches == SUBSET Plugins
Tries == 0 .. Attempts + 1
Few == 0 .. Attempts

LEMMA SupervisorRecords ==
  Supervisors = [proc : {"none", "up", "dead"}, conn : {"open", "hung", "lost"},
                 watch : {"off", "watching", "returned"}, stopping : BOOLEAN,
                 failed : BOOLEAN, plugins : Bunches, refused : Bunches]
BY DEF Supervisors, Bunches

LEMMA BunchesGrow ==
  /\ {} \in Bunches
  /\ \A s \in Bunches, t \in Bunches : s \cup t \in Bunches /\ s \ t \in Bunches
  /\ \A p \in Plugins : {p} \in Bunches
BY DEF Bunches

LEMMA SupervisorUpdates ==
  /\ NoSupervisor \in Supervisors /\ Up \in Supervisors /\ Up.proc = "up"
  /\ \A s \in Supervisors :
       /\ Dead(s) \in Supervisors /\ Dead(s).proc = "dead"
       /\ Killed(s) \in Supervisors /\ Killed(s).proc = "dead"
       /\ [s EXCEPT !.stopping = TRUE] \in Supervisors /\ [s EXCEPT !.stopping = TRUE].proc = s.proc
       /\ \A c \in {"open", "hung", "lost"} :
            [s EXCEPT !.conn = c] \in Supervisors /\ [s EXCEPT !.conn = c].proc = s.proc
       /\ \A x \in {"off", "watching", "returned"} :
            [s EXCEPT !.watch = x] \in Supervisors /\ [s EXCEPT !.watch = x].proc = s.proc
BY SupervisorRecords, BunchesGrow DEF NoSupervisor, Up, Dead, Killed

LEMMA PluginUpdates ==
  ASSUME NEW s \in Supervisors, NEW b \in Bunches
  PROVE  /\ [s EXCEPT !.plugins = b] \in Supervisors /\ [s EXCEPT !.plugins = b].proc = s.proc
         /\ [s EXCEPT !.refused = b] \in Supervisors /\ [s EXCEPT !.refused = b].proc = s.proc
BY SupervisorRecords

LEMMA OneSupervisor ==
  ASSUME NEW f \in [Spawns -> Supervisors], NEW i \in Spawns
  PROVE  /\ f[i] \in Supervisors /\ f[i].plugins \in Bunches /\ f[i].refused \in Bunches
         /\ f[i].stopping \in BOOLEAN
         /\ \A s \in Supervisors : [f EXCEPT ![i] = s] \in [Spawns -> Supervisors]
<1>1. f[i] \in Supervisors
  OBVIOUS
<1>2. QED
  BY <1>1, SupervisorRecords

\* The same, of the runtime, the watcher and the host, with sets of plugins as values.
Typed ==
  /\ sup \in [Spawns -> Supervisors] /\ spawned \in Pid
  /\ rt \in [supervisor : Pid, stopping : BOOLEAN, loaded : Bunches]
  /\ w \in [pc : {"off", "top", "wait", "count", "backoff", "snapshot", "reload",
                  "respawn failed", "ended"},
            cur : Pid, new : Pid, failure : Tries, todo : Bunches]
  /\ h \in [pc : {"new", "loading", "remember", "unloading", "send unload", "stopping", "stopped"},
            plugin : Bunches, tried : Bunches, stops : Pid]
  /\ aged \in BOOLEAN /\ flaps \in Nat /\ failures \in Nat
  /\ w.pc \in {"snapshot", "reload"} => w.new # 0 /\ sup[w.new].proc # "none"
  /\ w.pc # "ended" => w.failure \in Few
  /\ h.pc = "new" => w.pc = "off"

LEMMA FewTries ==
  /\ \A n \in Tries : n \in Few <=> n <= Attempts
  /\ \A n \in Few : n \in Tries /\ n + 1 \in Tries /\ (n + 1 <= Attempts <=> n + 1 \in Few)
  /\ 0 \in Few /\ 1 \in Few
BY BoundsAssumption DEF Tries, Few

LEMMA TypedIsTypeOK == Typed <=> TypeOK
<1>1. Typed => TypeOK
  <2> SUFFICES ASSUME Typed PROVE TypeOK
    OBVIOUS
  <2>1. w.pc # "ended" => w.failure <= Attempts
    BY FewTries DEF Typed
  <2> QED
    BY <2>1 DEF Typed, TypeOK, Bunches, Tries
<1>2. TypeOK => Typed
  <2> SUFFICES ASSUME TypeOK PROVE Typed
    OBVIOUS
  <2>1. w.failure \in Tries
    BY DEF TypeOK, Tries
  <2>2. w.pc # "ended" => w.failure \in Few
    BY <2>1, FewTries DEF TypeOK
  <2> QED
    BY <2>1, <2>2 DEF Typed, TypeOK, Bunches, Tries
<1>3. QED
  BY <1>1, <1>2

LEMMA SupervisorTypes ==
  ASSUME Typed, NEW i \in Spawns,
         SupervisorStep(i) \/ ProcessDies(i) \/ Hangs(i) \/ ConnectionFails(i)
  PROVE  Typed'
<1> USE DEF Typed
<1>1. PICK s \in Supervisors : sup' = [sup EXCEPT ![i] = s] /\ (sup[i].proc # "none" => s.proc # "none")
  <2>1. sup[i] \in Supervisors
    OBVIOUS
  <2>2. CASE ProcessDies(i)
    BY <2>1, <2>2, SupervisorUpdates DEF ProcessDies
  <2>3. CASE Hangs(i)
    <3> DEFINE s == [sup[i] EXCEPT !.conn = "hung"]
    <3>1. s \in Supervisors /\ s.proc = sup[i].proc
      BY <2>1, SupervisorUpdates
    <3>2. sup' = [sup EXCEPT ![i] = s]
      BY <2>3 DEF Hangs
    <3> HIDE DEF s
    <3> QED
      BY <3>1, <3>2
  <2>4. CASE ConnectionFails(i)
    <3> DEFINE s == [sup[i] EXCEPT !.conn = "lost"]
    <3>1. s \in Supervisors /\ s.proc = sup[i].proc
      BY <2>1, SupervisorUpdates
    <3>2. sup' = [sup EXCEPT ![i] = s]
      BY <2>4 DEF ConnectionFails
    <3> HIDE DEF s
    <3> QED
      BY <3>1, <3>2
  <2>5. CASE WatchKills(i)
    BY <2>1, <2>5, SupervisorUpdates DEF WatchKills
  <2>6. CASE WatchReturns(i)
    <3> DEFINE s == [sup[i] EXCEPT !.watch = "returned"]
    <3>1. s \in Supervisors /\ s.proc = sup[i].proc
      BY <2>1, SupervisorUpdates
    <3>2. sup' = [sup EXCEPT ![i] = s]
      BY <2>6 DEF WatchReturns
    <3> HIDE DEF s
    <3> QED
      BY <3>1, <3>2
  <2>7. CASE WatchReports(i)
    <3>1. OwnEnd(i) \in BOOLEAN
      BY DEF OwnEnd
    <3>2. sup' = [sup EXCEPT ![i] = [sup[i] EXCEPT !.watch = "off", !.failed = OwnEnd(i)]]
      BY <2>7 DEF WatchReports
    <3> DEFINE s == [sup[i] EXCEPT !.watch = "off", !.failed = OwnEnd(i)]
    <3>3. s \in Supervisors /\ s.proc = sup[i].proc
      BY <2>1, <3>1, SupervisorRecords
    <3>4. sup' = [sup EXCEPT ![i] = s]
      BY <3>2
    <3> HIDE DEF s
    <3> QED
      BY <3>3, <3>4
  <2> QED
    BY <2>2, <2>3, <2>4, <2>5, <2>6, <2>7 DEF SupervisorStep
<1>2. UNCHANGED <<spawned, rt, w, h, aged, flaps, failures>>
  BY DEF SupervisorStep, WatchKills, WatchReturns, WatchReports, ProcessDies, Hangs, ConnectionFails
<1>3. sup' \in [Spawns -> Supervisors]
  BY <1>1, OneSupervisor
<1>4. w.pc \in {"snapshot", "reload"} => sup'[w.new].proc # "none"
  BY <1>1, SpawnsAreNumbers
<1>5. QED
  BY <1>2, <1>3, <1>4

LEMMA HostTypes ==
  ASSUME Typed, HostStep \/ BeginShutdown
  PROVE  Typed'
<1> USE DEF Typed
<1>u. \A i \in Spawns : sup[i] \in Supervisors /\ sup[i].plugins \in Bunches
  BY OneSupervisor
<1>v. rt.supervisor # 0 => rt.supervisor \in Spawns
  BY SpawnsAreNumbers
<1>1. CASE Start
  <2>1. spawned + 1 \in Spawns /\ spawned + 1 \in Pid
    BY <1>1, SpawnsAreNumbers DEF Start
  <2>2. sup' \in [Spawns -> Supervisors]
    BY <1>1, <2>1, SupervisorUpdates DEF Start
  <2> QED
    BY <1>1, <2>1, <2>2 DEF Start
<1>2. ASSUME NEW p \in Plugins, Load(p) PROVE Typed'
  <2> DEFINE i == rt.supervisor
             s == [sup[i] EXCEPT !.plugins = sup[i].plugins \cup {p}]
  <2>1. i \in Spawns
    BY <1>2, <1>v DEF Load, Serving
  <2>2. s \in Supervisors /\ s.proc = sup[i].proc
    <3>1. sup[i].plugins \cup {p} \in Bunches
      BY <1>u, <2>1, BunchesGrow
    <3> QED
      BY <1>u, <2>1, <3>1, PluginUpdates
  <2>3. sup' = [sup EXCEPT ![i] = s]
    BY <1>2 DEF Load
  <2> HIDE DEF i, s
  <2>4. sup' \in [Spawns -> Supervisors]
    BY <2>1, <2>2, <2>3
  <2>5. w.pc \in {"snapshot", "reload"} => sup'[w.new].proc # "none"
    BY <2>1, <2>2, <2>3, SpawnsAreNumbers
  <2>6. h' \in [pc : {"new", "loading", "remember", "unloading", "send unload", "stopping", "stopped"},
                plugin : Bunches, tried : Bunches, stops : Pid]
    BY <1>2, BunchesGrow DEF Load
  <2> QED
    BY <1>2, <2>4, <2>5, <2>6 DEF Load
<1>3. CASE Remember
  BY <1>3, BunchesGrow DEF Remember
<1>4. CASE BeginShutdown
  BY <1>4 DEF BeginShutdown
<1>5. ASSUME NEW p \in Plugins, Unload(p) PROVE Typed'
  BY <1>5, BunchesGrow DEF Unload
<1>6. CASE SendUnload
  <2>1. h' \in [pc : {"new", "loading", "remember", "unloading", "send unload", "stopping", "stopped"},
                plugin : Bunches, tried : Bunches, stops : Pid]
    BY <1>6, BunchesGrow DEF SendUnload
  <2>2. CASE ~Serving(rt.supervisor)
    BY <1>6, <2>1, <2>2 DEF SendUnload
  <2>3. CASE Serving(rt.supervisor)
    <3> DEFINE i == rt.supervisor
               s == [sup[i] EXCEPT !.plugins = sup[i].plugins \ h.plugin]
    <3>1. i \in Spawns
      BY <2>3, <1>v DEF Serving
    <3>2. s \in Supervisors /\ s.proc = sup[i].proc
      <4>1. sup[i].plugins \ h.plugin \in Bunches
        BY <1>u, <3>1, BunchesGrow
      <4> QED
        BY <1>u, <3>1, <4>1, PluginUpdates
    <3>3. sup' = [sup EXCEPT ![i] = s]
      BY <1>6, <2>3 DEF SendUnload
    <3> HIDE DEF i, s
    <3>4. sup' \in [Spawns -> Supervisors]
      BY <3>1, <3>2, <3>3
    <3>5. w.pc \in {"snapshot", "reload"} => sup'[w.new].proc # "none"
      BY <3>1, <3>2, <3>3, SpawnsAreNumbers
    <3> QED
      BY <1>6, <2>1, <3>4, <3>5 DEF SendUnload
  <2> QED
    BY <2>2, <2>3
<1>7. CASE Stop
  <2>1. rt' \in [supervisor : Pid, stopping : BOOLEAN, loaded : Bunches]
    BY <1>7, SpawnsAreNumbers, BunchesGrow DEF Stop
  <2>2. h' \in [pc : {"new", "loading", "remember", "unloading", "send unload", "stopping", "stopped"},
                plugin : Bunches, tried : Bunches, stops : Pid]
    BY <1>7 DEF Stop
  <2>3. CASE rt.supervisor = 0
    BY <1>7, <2>1, <2>2, <2>3 DEF Stop
  <2>4. CASE rt.supervisor # 0
    <3> DEFINE i == rt.supervisor
               s == [sup[i] EXCEPT !.stopping = TRUE]
    <3>1. i \in Spawns
      BY <2>4, <1>v
    <3>2. s \in Supervisors /\ s.proc = sup[i].proc
      BY <1>u, <3>1, SupervisorUpdates
    <3>3. sup' = [sup EXCEPT ![i] = s]
      BY <1>7, <2>4 DEF Stop, MarkStopping
    <3> HIDE DEF i, s
    <3>4. sup' \in [Spawns -> Supervisors]
      BY <3>1, <3>2, <3>3
    <3>5. w.pc \in {"snapshot", "reload"} => sup'[w.new].proc # "none"
      BY <3>1, <3>2, <3>3, SpawnsAreNumbers
    <3> QED
      BY <1>7, <2>1, <2>2, <3>4, <3>5 DEF Stop
  <2> QED
    BY <2>3, <2>4
<1>8. CASE StopReturns
  <2>1. h' \in [pc : {"new", "loading", "remember", "unloading", "send unload", "stopping", "stopped"},
                plugin : Bunches, tried : Bunches, stops : Pid]
    BY <1>8, SpawnsAreNumbers DEF StopReturns
  <2> DEFINE s(i) == Dead([sup[i] EXCEPT !.stopping = TRUE])
  <2>2. \A i \in Spawns : s(i) \in Supervisors /\ s(i).proc = "dead"
    BY <1>u, SupervisorUpdates
  <2>3. sup' = [sup EXCEPT ![h.stops] = s(h.stops)]
    BY <1>8 DEF StopReturns, Gone
  <2> HIDE DEF s
  <2>4. sup' \in [Spawns -> Supervisors]
    BY <2>2, <2>3
  <2>5. w.pc \in {"snapshot", "reload"} => sup'[w.new].proc # "none"
    BY <2>2, <2>3, SpawnsAreNumbers
  <2> QED
    BY <1>8, <2>1, <2>4, <2>5 DEF StopReturns
<1>9. QED
  BY <1>1, <1>2, <1>3, <1>4, <1>5, <1>6, <1>7, <1>8 DEF HostStep

LEMMA WatcherTypes ==
  ASSUME Typed, WatcherStep \/ RespawnFails \/ Age
  PROVE  Typed'
<1> USE DEF Typed
<1> DEFINE Watcher == [pc : {"off", "top", "wait", "count", "backoff", "snapshot", "reload",
                             "respawn failed", "ended"},
                       cur : Pid, new : Pid, failure : Tries, todo : Bunches]
<1>e. Ended \in Watcher /\ Ended.pc = "ended"
      /\ NextTry \in Watcher /\ NextTry.pc = "top" /\ NextTry.failure = w.failure
  BY DEF Ended, NextTry
<1>f. w.pc = "count" => Failure \in Tries /\ (Failure <= Attempts => Failure \in Few)
  <2>1. \A n : n = w.failure /\ n \in Few => Failure \in Tries /\ (Failure <= Attempts => Failure \in Few)
    <3> HIDE DEF Typed
    <3> QED
      BY FewTries DEF Failure
  <2> QED
    BY <2>1
<1>n. \A n : n = failures \/ n = flaps => n + 1 \in Nat
  <2>1. failures \in Nat /\ flaps \in Nat
    OBVIOUS
  <2> HIDE DEF Typed
  <2> QED
    BY <2>1
<1>1. CASE Watch
  BY <1>1, <1>e DEF Watch
<1>2. CASE WatcherDone \/ SeesFailure
  BY <1>2, <1>e DEF WatcherDone, SeesFailure
<1>3. CASE Backoff
  BY <1>3, <1>f DEF Backoff
<1>4. CASE GiveUp
  <2>1. Failure \in Tries
    BY <1>4, <1>f DEF GiveUp
  <2> QED
    BY <1>4, <2>1, SpawnsAreNumbers DEF GiveUp, Ended
<1>5. CASE RespawnFails
  <2>1. w' = [w EXCEPT !.pc = "respawn failed"] /\ UNCHANGED <<sup, spawned, rt, h, aged>> /\ w.pc = "backoff"
    BY <1>5 DEF RespawnFails
  <2>2. failures' \in Nat /\ flaps' \in Nat
    BY <1>5, <1>n DEF RespawnFails
  <2> QED
    BY <2>1, <2>2
<1>6. CASE Respawn
  <2>1. spawned + 1 \in Spawns /\ spawned + 1 \in Pid /\ spawned + 1 # 0
    BY <1>6, SpawnsAreNumbers DEF Respawn
  <2>2. sup' \in [Spawns -> Supervisors] /\ sup'[spawned + 1].proc # "none"
    BY <1>6, <2>1, SupervisorUpdates DEF Respawn
  <2>3. flaps' \in Nat
    BY <1>6, <1>n DEF Respawn
  <2>4. w' = [w EXCEPT !.pc = "snapshot", !.new = spawned + 1] /\ spawned' = spawned + 1
        /\ UNCHANGED <<rt, h, aged, failures>> /\ w.pc = "backoff"
    BY <1>6 DEF Respawn
  <2> QED
    BY <2>1, <2>2, <2>3, <2>4
<1>7. CASE Remembered
  BY <1>7 DEF Remembered, Snapshot
<1>8. ASSUME NEW p \in Plugins, Reload(p) PROVE Typed'
  <2> DEFINE i == w.new
  <2>1. i \in Spawns
    BY <1>8, SpawnsAreNumbers DEF Reload
  <2>2. sup[i] \in Supervisors /\ sup[i].plugins \cup {p} \in Bunches /\ sup[i].refused \cup {p} \in Bunches
    BY <2>1, OneSupervisor, BunchesGrow
  <2>3. PICK s \in Supervisors : sup' = [sup EXCEPT ![i] = s] /\ s.proc = sup[i].proc
    <3>1. /\ [sup[i] EXCEPT !.plugins = sup[i].plugins \cup {p}] \in Supervisors
          /\ [sup[i] EXCEPT !.plugins = sup[i].plugins \cup {p}].proc = sup[i].proc
      BY <2>2, PluginUpdates
    <3>2. /\ [sup[i] EXCEPT !.refused = sup[i].refused \cup {p}] \in Supervisors
          /\ [sup[i] EXCEPT !.refused = sup[i].refused \cup {p}].proc = sup[i].proc
      BY <2>2, PluginUpdates
    <3> QED
      BY <1>8, <3>1, <3>2 DEF Reload
  <2> HIDE DEF i
  <2>4. sup' \in [Spawns -> Supervisors] /\ sup'[i].proc # "none"
    BY <1>8, <2>1, <2>2, <2>3 DEF Reload, i
  <2>5. w' \in Watcher /\ w'.new = i
    BY <1>8, BunchesGrow DEF Reload, i
  <2> QED
    BY <1>8, <2>4, <2>5 DEF Reload, i
<1>9. CASE Install
  BY <1>9, SpawnsAreNumbers DEF Install
<1>10. CASE Discard
  <2> DEFINE s(i) == Dead([sup[i] EXCEPT !.stopping = TRUE])
  <2>1. \A i \in Spawns : s(i) \in Supervisors
    BY OneSupervisor, SupervisorUpdates
  <2>2. sup' = [sup EXCEPT ![w.new] = s(w.new)]
    BY <1>10 DEF Discard, Discarded, Gone
  <2> HIDE DEF s
  <2>3. sup' \in [Spawns -> Supervisors]
    BY <2>1, <2>2
  <2>4. failures' \in Nat
    BY <1>10, <1>n DEF Discard
  <2>5. w' = [w EXCEPT !.pc = "respawn failed", !.new = 0] /\ w.pc = "reload"
        /\ UNCHANGED <<spawned, rt, h, aged, flaps>>
    BY <1>10 DEF Discard
  <2> QED
    BY <2>3, <2>4, <2>5, SpawnsAreNumbers
<1>11. CASE AfterFailedRespawn
  BY <1>11, <1>e DEF AfterFailedRespawn
<1>12. CASE Age
  BY <1>12 DEF Age
<1>13. QED
  BY <1>1, <1>2, <1>3, <1>4, <1>5, <1>6, <1>7, <1>8, <1>9, <1>10, <1>11, <1>12 DEF WatcherStep

LEMMA TypedStep == Typed /\ [Next]_vars => Typed'
<1> SUFFICES ASSUME Typed, [Next]_vars PROVE Typed'
  OBVIOUS
<1>1. CASE HostStep \/ BeginShutdown
  BY <1>1, HostTypes
<1>2. CASE WatcherStep \/ RespawnFails \/ Age
  BY <1>2, WatcherTypes
<1>3. ASSUME NEW i \in Spawns, SupervisorStep(i) \/ ProcessDies(i) \/ Hangs(i) \/ ConnectionFails(i)
      PROVE  Typed'
  BY <1>3, SupervisorTypes
<1>4. CASE UNCHANGED vars
  BY <1>4 DEF vars, Typed
<1>5. QED
  BY <1>1, <1>2, <1>3, <1>4 DEF Next

LEMMA AlwaysTyped == Spec => []Typed
<1>1. Init => Typed
  <2> SUFFICES ASSUME Init PROVE Typed
    OBVIOUS
  <2>1. sup \in [Spawns -> Supervisors]
    BY SupervisorUpdates DEF Init
  <2> QED
    BY <2>1, FewTries, BunchesGrow, SpawnsAreNumbers DEF Init, Typed
<1>2. QED
  BY <1>1, TypedStep, PTL DEF Spec

\* Every variable keeps its type, and a watcher that reloads has a process to reload into.
THEOREM JvmTypeCorrect == Spec => []TypeOK
BY AlwaysTyped, TypedIsTypeOK, PTL

---------------------------------------------------------------------------
(* One process.  A process is on its own end, or the host's, once its      *)
(* supervisor has failed; until then it is in the hands of exactly one of  *)
(* the runtime, the respawn that has started it, and the Stop.             *)

Runs(s) == s.proc = "up" /\ s.conn # "lost"
EndIsReal(s) == s.failed \/ (s.watch = "returned" /\ ~s.stopping) => ~Runs(s)

Holders == {rt.supervisor, h.stops}
Replacing == {"count", "backoff", "snapshot", "reload", "respawn failed"}

EndsAreReal == \A i \in Spawns : EndIsReal(sup[i])
AllHeld == \A i \in Spawns : Runs(sup[i]) => i \in Holders \cup {w.new}
OneHolder ==
  /\ rt.stopping => rt.supervisor = 0
  /\ h.stops # 0 => rt.stopping /\ h.pc = "stopping"
  /\ h.pc = "new" => Holders = {0} /\ ~rt.stopping
  /\ w.pc \notin {"snapshot", "reload"} => w.new = 0
  /\ w.pc \in {"wait"} \cup Replacing => w.cur # 0 /\ Holders \subseteq {0, w.cur}
ReplacesTheDead == w.pc \in Replacing => ~Runs(sup[w.cur])

Solitary == EndsAreReal /\ AllHeld /\ OneHolder /\ ReplacesTheDead

LEMMA RecordFields ==
  ASSUME NEW s \in Supervisors
  PROVE  /\ ~Runs(Dead(s)) /\ ~Runs(Killed(s)) /\ s.stopping \in BOOLEAN /\ s.failed \in BOOLEAN
         /\ \A p \in Bunches :
              /\ Runs([s EXCEPT !.plugins = p]) <=> Runs(s)
              /\ EndIsReal([s EXCEPT !.plugins = p]) <=> EndIsReal(s)
              /\ Runs([s EXCEPT !.refused = p]) <=> Runs(s)
              /\ EndIsReal([s EXCEPT !.refused = p]) <=> EndIsReal(s)
BY SupervisorRecords DEF Runs, EndIsReal, Dead, Killed

\* What a change of one supervisor must keep.
LEMMA OneFades ==
  ASSUME Typed, EndsAreReal, NEW i \in Spawns, NEW s \in Supervisors,
         sup' = [sup EXCEPT ![i] = s], EndIsReal(s), Runs(s) => Runs(sup[i])
  PROVE  EndsAreReal' /\ \A j \in Spawns : Runs(sup'[j]) => Runs(sup[j])
<1>1. \A j \in Spawns : sup'[j] = IF j = i THEN s ELSE sup[j]
  BY DEF Typed
<1>2. \A j \in Spawns : EndIsReal(sup'[j])
  BY <1>1 DEF EndsAreReal
<1>3. QED
  BY <1>1, <1>2 DEF EndsAreReal, EndIsReal, Runs

Fading == EndsAreReal' /\ \A j \in Spawns : Runs(sup'[j]) => Runs(sup[j])

LEMMA SupervisorsFade ==
  ASSUME Typed, EndsAreReal, NEW i \in Spawns,
         SupervisorStep(i) \/ ProcessDies(i) \/ Hangs(i) \/ ConnectionFails(i)
  PROVE  Fading
<1>s. sup[i] \in Supervisors /\ EndIsReal(sup[i]) /\ sup[i].stopping \in BOOLEAN
  BY OneSupervisor DEF Typed, EndsAreReal
<1>1. CASE ProcessDies(i)
  <2>1. sup' = [sup EXCEPT ![i] = Dead(sup[i])]
    BY <1>1 DEF ProcessDies
  <2>2. Dead(sup[i]) \in Supervisors /\ ~Runs(Dead(sup[i]))
    BY <1>s, SupervisorUpdates, RecordFields
  <2> QED
    BY <2>1, <2>2, OneFades DEF Fading, EndIsReal
<1>2. CASE WatchKills(i)
  <2>1. sup' = [sup EXCEPT ![i] = Killed(sup[i])]
    BY <1>2 DEF WatchKills
  <2>2. Killed(sup[i]) \in Supervisors /\ ~Runs(Killed(sup[i]))
    BY <1>s, SupervisorUpdates, RecordFields
  <2> QED
    BY <2>1, <2>2, OneFades DEF Fading, EndIsReal
<1>3. CASE Hangs(i) \/ ConnectionFails(i)
  <2>1. PICK c \in {"hung", "lost"} : sup' = [sup EXCEPT ![i] = [sup[i] EXCEPT !.conn = c]]
    BY <1>3 DEF Hangs, ConnectionFails
  <2> DEFINE s == [sup[i] EXCEPT !.conn = c]
  <2>2. sup[i].proc = "up" /\ sup[i].conn = "open"
    BY <1>3 DEF Hangs, ConnectionFails, Serving
  <2>3. Runs(sup[i])
    BY <2>2 DEF Runs
  <2>4. s \in Supervisors /\ s.failed = sup[i].failed /\ s.watch = sup[i].watch /\ s.stopping = sup[i].stopping
    BY <1>s, SupervisorRecords
  <2>5. EndIsReal(s)
    BY <1>s, <2>3, <2>4 DEF EndIsReal
  <2> HIDE DEF s
  <2> QED
    BY <2>1, <2>3, <2>4, <2>5, OneFades DEF Fading, s
<1>4. CASE WatchReturns(i)
  <2> DEFINE s == [sup[i] EXCEPT !.watch = "returned"]
  <2>1. sup' = [sup EXCEPT ![i] = s]
    BY <1>4 DEF WatchReturns
  <2>2. /\ s \in Supervisors /\ s.failed = sup[i].failed /\ s.stopping = sup[i].stopping
        /\ s.proc = sup[i].proc /\ s.conn = sup[i].conn
    BY <1>s, SupervisorRecords
  <2>3. sup[i].stopping \/ ~Runs(sup[i])
    BY <1>4 DEF WatchReturns, Runs
  <2> HIDE DEF s
  <2>4. EndIsReal(s) /\ (Runs(s) <=> Runs(sup[i]))
    BY <1>s, <2>2, <2>3 DEF EndIsReal, Runs
  <2> QED
    BY <2>1, <2>2, <2>4, OneFades DEF Fading
<1>5. CASE WatchReports(i)
  <2> DEFINE s == [sup[i] EXCEPT !.watch = "off", !.failed = OwnEnd(i)]
  <2>1. sup' = [sup EXCEPT ![i] = s]
    BY <1>5 DEF WatchReports
  <2>2. OwnEnd(i) \in BOOLEAN
    BY DEF OwnEnd
  <2>3. /\ s \in Supervisors /\ s.failed = OwnEnd(i) /\ s.watch = "off"
        /\ s.proc = sup[i].proc /\ s.conn = sup[i].conn
    BY <1>s, <2>2, SupervisorRecords
  <2>4. OwnEnd(i) => ~Runs(sup[i])
    BY <1>5, <1>s DEF WatchReports, OwnEnd, EndIsReal
  <2> HIDE DEF s
  <2>5. EndIsReal(s) /\ (Runs(s) <=> Runs(sup[i]))
    BY <2>3, <2>4 DEF EndIsReal, Runs
  <2> QED
    BY <2>1, <2>3, <2>5, OneFades DEF Fading
<1>6. QED
  BY <1>1, <1>2, <1>3, <1>4, <1>5 DEF SupervisorStep

LEMMA NothingFades == ASSUME EndsAreReal, UNCHANGED sup PROVE Fading
BY DEF Fading, EndsAreReal

LEMMA GoneFades ==
  ASSUME Typed, EndsAreReal, NEW i \in Spawns, sup' = Gone(i)
  PROVE  Fading /\ ~Runs(sup'[i])
<1> DEFINE t == [sup[i] EXCEPT !.stopping = TRUE]
<1>1. t \in Supervisors
  BY OneSupervisor, SupervisorUpdates DEF Typed
<1>2. Dead(t) \in Supervisors /\ ~Runs(Dead(t))
  BY <1>1, SupervisorUpdates, RecordFields
<1>3. sup' = [sup EXCEPT ![i] = Dead(t)]
  BY DEF Gone
<1> HIDE DEF t
<1>4. sup'[i] = Dead(t)
  BY <1>3 DEF Typed
<1>5. QED
  BY <1>2, <1>3, <1>4, OneFades DEF Fading, EndIsReal

LEMMA MarkedFades ==
  ASSUME Typed, EndsAreReal, NEW i \in Spawns, sup' = MarkStopping(i)
  PROVE  Fading
<1> DEFINE s == [sup[i] EXCEPT !.stopping = TRUE]
<1>s. sup[i] \in Supervisors /\ EndIsReal(sup[i])
  BY OneSupervisor DEF Typed, EndsAreReal
<1>1. /\ s \in Supervisors /\ s.failed = sup[i].failed /\ s.stopping
      /\ s.proc = sup[i].proc /\ s.conn = sup[i].conn
  BY <1>s, SupervisorRecords
<1>2. sup' = [sup EXCEPT ![i] = s]
  BY DEF MarkStopping
<1> HIDE DEF s
<1>3. EndIsReal(s) /\ (Runs(s) <=> Runs(sup[i]))
  BY <1>s, <1>1 DEF EndIsReal, Runs
<1>4. QED
  BY <1>1, <1>2, <1>3, OneFades DEF Fading

\* Plugins come and go without a change to what runs.
LEMMA PluginsFade ==
  ASSUME Typed, EndsAreReal, NEW i \in Spawns, NEW b \in Bunches,
         \/ sup' = [sup EXCEPT ![i] = [sup[i] EXCEPT !.plugins = b]]
         \/ sup' = [sup EXCEPT ![i] = [sup[i] EXCEPT !.refused = b]]
  PROVE  Fading
<1>s. sup[i] \in Supervisors /\ EndIsReal(sup[i])
  BY OneSupervisor DEF Typed, EndsAreReal
<1>1. PICK s \in Supervisors : EndIsReal(s) /\ (Runs(s) <=> Runs(sup[i])) /\ sup' = [sup EXCEPT ![i] = s]
  BY <1>s, PluginUpdates, RecordFields
<1>2. QED
  BY <1>1, OneFades DEF Fading
\* The numbers in use are those of processes that were started.
UpTo(n) == 0 .. n
Numbered == {rt.supervisor, w.cur, w.new, 0} \subseteq UpTo(spawned)

LEMMA NextNumber ==
  ASSUME NEW n \in Pid
  PROVE  0 \in UpTo(n) /\ n + 1 \in UpTo(n + 1) /\ UpTo(n) \subseteq UpTo(n + 1) /\ n + 1 \notin UpTo(n)
BY SpawnsAreNumbers DEF UpTo

LEMMA NumberedStep == Typed /\ Numbered /\ [Next]_vars => Numbered'
<1> SUFFICES ASSUME Typed, Numbered, [Next]_vars PROVE Numbered'
  OBVIOUS
<1> DEFINE n == spawned + 1
<1>n. 0 \in UpTo(spawned) /\ n \in UpTo(n) /\ UpTo(spawned) \subseteq UpTo(n) /\ 0 \in UpTo(n)
  BY NextNumber DEF Typed
<1>1. CASE Start
  <2>1. spawned' = n /\ w' = [w EXCEPT !.pc = "top"] /\ rt' = [rt EXCEPT !.supervisor = n]
    BY <1>1 DEF Start
  <2> HIDE DEF n
  <2> QED
    BY <1>n, <2>1 DEF Typed, Numbered
<1>2. CASE Respawn
  <2>1. spawned' = n /\ w' = [w EXCEPT !.pc = "snapshot", !.new = n] /\ rt' = rt
    BY <1>2 DEF Respawn
  <2> HIDE DEF n
  <2> QED
    BY <1>n, <2>1 DEF Typed, Numbered
<1> HIDE DEF n
<1>3. CASE Remember \/ SendUnload \/ Stop \/ StopReturns \/ BeginShutdown \/ \E p \in Plugins : Load(p) \/ Unload(p)
  <2>1. UNCHANGED <<spawned, w>>
    BY <1>3 DEF Remember, SendUnload, Stop, StopReturns, BeginShutdown, Load, Unload
  <2>2. rt'.supervisor \in {0, rt.supervisor}
    <3>1. CASE Stop
      BY <3>1 DEF Stop
    <3>2. CASE Remember \/ \E p \in Plugins : Unload(p)
      BY <3>2 DEF Remember, Unload, Typed
    <3>3. CASE SendUnload \/ StopReturns \/ BeginShutdown \/ \E p \in Plugins : Load(p)
      BY <3>3 DEF SendUnload, StopReturns, BeginShutdown, Load
    <3> QED
      BY <1>3, <3>1, <3>2, <3>3
  <2> QED
    BY <2>1, <2>2 DEF Numbered
<1>4. CASE Watch \/ WatcherDone \/ SeesFailure \/ Backoff \/ GiveUp \/ RespawnFails \/ Remembered
  <2>1. UNCHANGED spawned /\ rt'.supervisor \in {0, rt.supervisor} /\ w'.cur \in {rt.supervisor, w.cur}
        /\ w'.new = w.new
    BY <1>4 DEF Watch, WatcherDone, SeesFailure, Backoff, GiveUp, RespawnFails, Remembered, Ended, Typed
  <2> QED
    BY <2>1 DEF Numbered
<1>5. CASE Install \/ Discard \/ AfterFailedRespawn \/ Age \/ \E p \in Plugins : Reload(p)
  <2>1. UNCHANGED spawned /\ rt'.supervisor \in {w.new, rt.supervisor} /\ w'.cur = w.cur
        /\ w'.new \in {0, w.new}
    BY <1>5 DEF Install, Discard, AfterFailedRespawn, Age, Reload, Ended, NextTry, Typed
  <2> QED
    BY <2>1 DEF Numbered
<1>6. ASSUME NEW i \in Spawns, SupervisorStep(i) \/ ProcessDies(i) \/ Hangs(i) \/ ConnectionFails(i)
      PROVE  Numbered'
  BY <1>6 DEF SupervisorStep, WatchKills, WatchReturns, WatchReports, ProcessDies, Hangs, ConnectionFails, Numbered
<1>7. CASE UNCHANGED vars
  BY <1>7 DEF vars, Numbered
<1>8. QED
  BY <1>1, <1>2, <1>3, <1>4, <1>5, <1>6, <1>7 DEF Next, HostStep, WatcherStep

LEMMA AlwaysNumbered == Spec => []Numbered
<1>1. Init => Numbered
  <2>1. 0 \in UpTo(0)
    BY DEF UpTo
  <2> QED
    BY <2>1 DEF Init, Numbered
<1>2. QED
  BY <1>1, AlwaysTyped, NumberedStep, PTL DEF Spec

\* What the hands a process is in must keep, when none begins to run.
LEMMA Handover ==
  ASSUME Typed, Solitary, Fading, OneHolder',
         \A i \in Spawns : Runs(sup'[i]) => i \in {rt'.supervisor, h'.stops, w'.new},
         w'.pc \in Replacing => w'.cur \in Spawns /\ ~Runs(sup[w'.cur])
  PROVE  Solitary'
<1>1. AllHeld'
  BY DEF AllHeld, Holders
<1>2. ReplacesTheDead'
  BY DEF ReplacesTheDead, Fading, Replacing
<1>3. QED
  BY <1>1, <1>2 DEF Solitary, Fading

InHand ==
  /\ \A i \in Spawns : Runs(sup[i]) => i \in {rt.supervisor, h.stops, w.new}
  /\ w.pc \in Replacing => w.cur \in Spawns /\ ~Runs(sup[w.cur])
  /\ w.pc \in {"snapshot", "reload"} => w.new \in Spawns
  /\ rt.supervisor # 0 => rt.supervisor \in Spawns
  /\ h.stops # 0 => h.stops \in Spawns

LEMMA HandsKeepThem == ASSUME Typed, Solitary PROVE InHand /\ EndsAreReal /\ OneHolder
BY SpawnsAreNumbers DEF Typed, Solitary, AllHeld, Holders, OneHolder, ReplacesTheDead, Replacing, InHand

\* A process that starts is the only one that runs.
LEMMA FirstOfItsKind ==
  ASSUME Typed, EndsAreReal, NEW n \in Spawns, sup' = [sup EXCEPT ![n] = Up],
         \A i \in Spawns : ~Runs(sup[i])
  PROVE  EndsAreReal' /\ \A i \in Spawns : Runs(sup'[i]) => i = n
<1>1. \A i \in Spawns : sup'[i] = IF i = n THEN Up ELSE sup[i]
  BY DEF Typed
<1>2. EndIsReal(Up)
  BY DEF EndIsReal, Up, NoSupervisor
<1>3. QED
  BY <1>1, <1>2 DEF EndsAreReal, EndIsReal, Runs

LEMMA HostSolitary ==
  ASSUME Typed, Solitary, HostStep \/ BeginShutdown
  PROVE  Solitary'
<1>k. InHand /\ EndsAreReal /\ OneHolder
  BY HandsKeepThem
<1>t. /\ DOMAIN sup = Spawns /\ \A i \in Spawns : sup[i] \in Supervisors /\ sup[i].plugins \in Bunches
  BY OneSupervisor DEF Typed
<1>1. CASE Start
  <2> DEFINE n == spawned + 1
  <2>1. n \in Spawns
    BY <1>1, SpawnsAreNumbers DEF Start, Typed
  <2>2. /\ sup' = [sup EXCEPT ![n] = Up] /\ rt' = [rt EXCEPT !.supervisor = n]
        /\ w' = [w EXCEPT !.pc = "top"] /\ h' = [h EXCEPT !.pc = "loading"] /\ h.pc = "new"
    BY <1>1 DEF Start
  <2> HIDE DEF n
  <2>3. rt.supervisor = 0 /\ h.stops = 0 /\ w.new = 0 /\ w.pc = "off" /\ ~rt.stopping
    BY <1>k, <2>2 DEF Typed, OneHolder, Holders
  <2>4. \A i \in Spawns : ~Runs(sup[i])
    BY <1>k, <2>3, SpawnsAreNumbers DEF InHand
  <2>5. EndsAreReal' /\ \A i \in Spawns : Runs(sup'[i]) => i = n
    BY <1>k, <2>1, <2>2, <2>4, FirstOfItsKind
  <2>6. OneHolder' /\ w'.pc \notin Replacing /\ rt'.supervisor = n
    BY <2>2, <2>3 DEF Typed, OneHolder, Holders, Replacing
  <2> QED
    BY <2>5, <2>6 DEF Solitary, AllHeld, Holders, ReplacesTheDead
<1>2. ASSUME NEW p \in Plugins, Load(p) PROVE Solitary'
  <2>1. rt.supervisor \in Spawns
    BY <1>2, <1>k DEF Load, Serving, InHand
  <2>2. sup[rt.supervisor].plugins \cup {p} \in Bunches
    BY <1>t, <2>1, BunchesGrow
  <2>3. sup' = [sup EXCEPT ![rt.supervisor] = [sup[rt.supervisor] EXCEPT !.plugins = sup[rt.supervisor].plugins \cup {p}]]
    BY <1>2 DEF Load
  <2>4. Fading
    BY <1>k, <2>1, <2>2, <2>3, PluginsFade
  <2>5. UNCHANGED <<rt, w>> /\ h.pc = "loading" /\ h'.pc = "remember" /\ h'.stops = h.stops
    BY <1>2 DEF Load, Typed
  <2>6. OneHolder'
    BY <1>k, <2>5 DEF OneHolder, Holders
  <2> QED
    BY <1>k, <2>4, <2>5, <2>6, Handover DEF InHand, Fading
<1>3. CASE Remember \/ BeginShutdown \/ \E p \in Plugins : Unload(p)
  <2>1. /\ UNCHANGED <<sup, w>> /\ h.pc \in {"loading", "remember", "unloading"}
        /\ h'.pc \in {"loading", "unloading", "send unload"} /\ h'.stops = h.stops
        /\ rt'.supervisor = rt.supervisor /\ rt'.stopping = rt.stopping
    BY <1>3 DEF Remember, BeginShutdown, Unload, Typed
  <2>2. Fading
    BY <1>k, <2>1, NothingFades
  <2>3. OneHolder'
    BY <1>k, <2>1 DEF OneHolder, Holders
  <2> QED
    BY <1>k, <2>1, <2>2, <2>3, Handover DEF InHand, Fading
<1>4. CASE SendUnload
  <2>1. UNCHANGED <<rt, w>> /\ h.pc = "send unload" /\ h'.pc = "unloading" /\ h'.stops = h.stops
    BY <1>4 DEF SendUnload, Typed
  <2>2. Fading
    <3>1. CASE ~Serving(rt.supervisor)
      BY <1>4, <1>k, <3>1, NothingFades DEF SendUnload
    <3>2. CASE Serving(rt.supervisor)
      <4>1. rt.supervisor \in Spawns
        BY <3>2, <1>k DEF Serving, InHand
      <4>2. sup[rt.supervisor].plugins \ h.plugin \in Bunches
        BY <1>t, <4>1, BunchesGrow DEF Typed
      <4>3. sup' = [sup EXCEPT ![rt.supervisor] = [sup[rt.supervisor] EXCEPT !.plugins = sup[rt.supervisor].plugins \ h.plugin]]
        BY <1>4, <3>2 DEF SendUnload
      <4> QED
        BY <1>k, <4>1, <4>2, <4>3, PluginsFade
    <3> QED
      BY <3>1, <3>2
  <2>3. OneHolder'
    BY <1>k, <2>1 DEF OneHolder, Holders
  <2> QED
    BY <1>k, <2>1, <2>2, <2>3, Handover DEF InHand, Fading
<1>5. CASE Stop
  <2>1. /\ UNCHANGED w /\ rt'.supervisor = 0 /\ rt'.stopping
        /\ h.pc = "unloading" /\ h'.pc \in {"stopped", "stopping"}
        /\ h'.stops = IF rt.supervisor = 0 THEN h.stops ELSE rt.supervisor
        /\ rt.supervisor # 0 => h'.pc = "stopping"
    BY <1>5 DEF Stop, Typed
  <2>2. Fading
    BY <1>5, <1>k, NothingFades, MarkedFades DEF Stop, InHand
  <2>3. h.stops = 0
    BY <1>k, <2>1 DEF OneHolder
  <2>4. OneHolder'
    BY <1>k, <2>1, <2>3 DEF OneHolder, Holders
  <2> QED
    BY <1>k, <2>1, <2>2, <2>3, <2>4, Handover DEF InHand, Fading
<1>6. CASE StopReturns
  <2>1. UNCHANGED <<w, rt>> /\ h'.pc = "stopped" /\ h'.stops = 0 /\ sup' = Gone(h.stops)
    BY <1>6, SpawnsAreNumbers DEF StopReturns, Typed
  <2>2. Fading /\ \A i \in Spawns : Runs(sup'[i]) => i # h.stops
    <3>1. CASE h.stops = 0
      <4> DEFINE t == Dead([sup[0] EXCEPT !.stopping = TRUE])
      <4>0. sup' = [sup EXCEPT ![0] = t]
        BY <2>1, <3>1 DEF Gone
      <4>1. sup' = sup
        <5> HIDE DEF t
        <5>1. 0 \notin Spawns /\ sup \in [Spawns -> Supervisors]
          BY SpawnsAreNumbers DEF Typed
        <5> QED
          BY <4>0, <5>1
      <4> QED
        BY <1>k, <3>1, <4>1, NothingFades, SpawnsAreNumbers
    <3>2. CASE h.stops # 0
      BY <1>k, <2>1, <3>2, GoneFades DEF InHand
    <3> QED
      BY <3>1, <3>2
  <2>3. OneHolder'
    BY <1>k, <2>1 DEF OneHolder, Holders
  <2> QED
    BY <1>k, <2>1, <2>2, <2>3, Handover DEF InHand, Fading
<1>7. QED
  BY <1>1, <1>2, <1>3, <1>4, <1>5, <1>6 DEF HostStep
LEMMA WatcherSolitary ==
  ASSUME Typed, Numbered, Solitary, WatcherStep \/ RespawnFails \/ Age
  PROVE  Solitary'
<1>k. InHand /\ EndsAreReal /\ OneHolder
  BY HandsKeepThem
<1>t. \A i \in Spawns : /\ sup[i] \in Supervisors /\ sup[i].plugins \in Bunches /\ sup[i].refused \in Bunches
  BY OneSupervisor DEF Typed
<1>1. CASE Watch
  <2>1. UNCHANGED <<sup, rt, h>> /\ w.pc = "top" /\ w'.new = w.new
        /\ \/ w'.pc = "ended"
           \/ w'.pc = "wait" /\ w'.cur = rt.supervisor /\ rt.supervisor # 0
    BY <1>1 DEF Watch, Ended, Typed
  <2>2. Fading
    BY <1>k, <2>1, NothingFades
  <2>3. OneHolder'
    BY <1>k, <2>1, SpawnsAreNumbers DEF OneHolder, Holders, Replacing
  <2> QED
    BY <1>k, <2>1, <2>2, <2>3, Handover DEF InHand, Fading, Replacing
<1>2. CASE WatcherDone \/ AfterFailedRespawn
  <2>1. UNCHANGED <<sup, rt, h>> /\ w.pc \notin {"snapshot", "reload"} /\ w'.new = w.new
        /\ w'.pc \in {"ended", "top"} /\ w.pc # "off"
    BY <1>2 DEF WatcherDone, AfterFailedRespawn, Ended, NextTry, Typed
  <2>2. Fading
    BY <1>k, <2>1, NothingFades
  <2>3. OneHolder'
    BY <1>k, <2>1 DEF OneHolder, Holders, Replacing
  <2> QED
    BY <1>k, <2>1, <2>2, <2>3, Handover DEF InHand, Fading, Replacing
<1>3. CASE SeesFailure
  <2>1. UNCHANGED <<sup, rt, h>> /\ w.pc = "wait" /\ w'.new = w.new /\ w'.cur = w.cur
        /\ w'.pc \in {"ended", "count"} /\ sup[w.cur].failed
    BY <1>3 DEF SeesFailure, Ended, Typed
  <2>2. Fading
    BY <1>k, <2>1, NothingFades
  <2>3. OneHolder' /\ w.cur \in Spawns
    BY <1>k, <2>1, SpawnsAreNumbers DEF OneHolder, Holders, Replacing, Typed
  <2>4. ~Runs(sup[w.cur])
    BY <1>k, <2>1, <2>3 DEF EndsAreReal, EndIsReal
  <2> QED
    BY <1>k, <2>1, <2>2, <2>3, <2>4, Handover DEF InHand, Fading
<1>4. CASE Backoff \/ RespawnFails \/ Remembered \/ Age
  <2>1. /\ UNCHANGED <<sup, rt, h>> /\ w'.new = w.new /\ w'.cur = w.cur
        /\ w'.pc \in Replacing <=> w.pc \in Replacing
        /\ w'.pc = "wait" <=> w.pc = "wait"
        /\ w'.pc \in {"snapshot", "reload"} <=> w.pc \in {"snapshot", "reload"}
    BY <1>4 DEF Backoff, RespawnFails, Remembered, Age, Typed, Replacing
  <2>2. Fading
    BY <1>k, <2>1, NothingFades
  <2>3. OneHolder'
    BY <1>k, <2>1 DEF OneHolder, Holders
  <2> QED
    BY <1>k, <2>1, <2>2, <2>3, Handover DEF InHand, Fading
<1>5. CASE GiveUp
  <2>1. /\ UNCHANGED <<sup, h>> /\ w.pc = "count" /\ w'.pc = "ended" /\ w'.new = w.new
        /\ rt'.supervisor = 0 /\ rt'.stopping = rt.stopping
    BY <1>5 DEF GiveUp, Ended, Typed
  <2>2. Fading
    BY <1>k, <2>1, NothingFades
  <2>3. OneHolder' /\ Holders \subseteq {0, w.cur} /\ w.new = 0 /\ ~Runs(sup[w.cur])
    BY <1>k, <2>1 DEF OneHolder, Holders, Replacing, InHand
  <2>4. \A i \in Spawns : ~Runs(sup[i])
    BY <1>k, <2>3, SpawnsAreNumbers DEF InHand, Holders
  <2> QED
    BY <1>k, <2>1, <2>2, <2>3, <2>4, Handover DEF Fading, Replacing
<1>6. CASE Respawn
  <2> DEFINE n == spawned + 1
  <2>1. n \in Spawns
    BY <1>6, SpawnsAreNumbers DEF Respawn, Typed
  <2>n. w.cur # n
    <3>1. w.cur \in UpTo(spawned) /\ spawned \in Pid
      BY DEF Numbered, Typed
    <3> QED
      BY <3>1, NextNumber
  <2>2. /\ sup' = [sup EXCEPT ![n] = Up] /\ w' = [w EXCEPT !.pc = "snapshot", !.new = n]
        /\ UNCHANGED <<rt, h>> /\ w.pc = "backoff"
    BY <1>6 DEF Respawn
  <2> HIDE DEF n
  <2>3. w.pc \in Replacing /\ w.new = 0 /\ Holders \subseteq {0, w.cur} /\ w.cur # 0
    BY <1>k, <2>2 DEF OneHolder, Replacing
  <2>4. \A i \in Spawns : ~Runs(sup[i])
    BY <1>k, <2>3, SpawnsAreNumbers DEF InHand, Holders
  <2>5. EndsAreReal' /\ \A i \in Spawns : Runs(sup'[i]) => i = n
    BY <1>k, <2>1, <2>2, <2>4, FirstOfItsKind
  <2>6. w'.pc = "snapshot" /\ w'.new = n /\ w'.cur = w.cur
    BY <2>2 DEF Typed
  <2>7. OneHolder'
    BY <1>k, <2>2, <2>3, <2>6 DEF OneHolder, Holders
  <2>8. AllHeld'
    BY <2>5, <2>6 DEF AllHeld
  <2>9. ~Runs(sup'[w.cur])
    BY <1>k, <2>3, <2>5, <2>n DEF InHand
  <2> QED
    BY <2>5, <2>6, <2>7, <2>8, <2>9 DEF Solitary, ReplacesTheDead
<1>7. ASSUME NEW p \in Plugins, Reload(p) PROVE Solitary'
  <2>1. /\ UNCHANGED <<rt, h>> /\ w'.new = w.new /\ w'.cur = w.cur /\ w'.pc = w.pc /\ w.pc = "reload"
    BY <1>7 DEF Reload, Typed
  <2>2. w.new \in Spawns
    BY <1>k, <2>1 DEF InHand
  <2>3. /\ sup[w.new].plugins \cup {p} \in Bunches /\ sup[w.new].refused \cup {p} \in Bunches
    BY <1>t, <2>2, BunchesGrow
  <2>4. \/ sup' = [sup EXCEPT ![w.new] = [sup[w.new] EXCEPT !.plugins = sup[w.new].plugins \cup {p}]]
        \/ sup' = [sup EXCEPT ![w.new] = [sup[w.new] EXCEPT !.refused = sup[w.new].refused \cup {p}]]
    BY <1>7 DEF Reload
  <2>5. Fading
    BY <1>k, <2>2, <2>3, <2>4, PluginsFade
  <2>6. OneHolder'
    BY <1>k, <2>1 DEF OneHolder, Holders
  <2> QED
    BY <1>k, <2>1, <2>5, <2>6, Handover DEF InHand, Fading
<1>8. CASE Install
  <2>1. /\ UNCHANGED <<sup, h>> /\ w.pc = "reload" /\ w'.pc = "top" /\ w'.new = 0
        /\ rt'.supervisor = w.new /\ rt'.stopping = rt.stopping /\ ~rt.stopping
    BY <1>8 DEF Install, MayInstall, Typed
  <2>2. Fading
    BY <1>k, <2>1, NothingFades
  <2>3. h.stops = 0 /\ h.pc # "new" /\ Holders \subseteq {0, w.cur} /\ w.pc \in Replacing
    BY <1>k, <2>1 DEF OneHolder, Replacing, Typed
  <2>4. OneHolder'
    BY <1>k, <2>1, <2>3 DEF OneHolder, Holders, Replacing
  <2>5. \A i \in Spawns : Runs(sup[i]) => i = w.new
    BY <1>k, <2>3, SpawnsAreNumbers DEF InHand, Holders
  <2> QED
    BY <1>k, <2>1, <2>2, <2>4, <2>5, Handover DEF Fading, Replacing
<1>9. CASE Discard
  <2>1. /\ UNCHANGED <<rt, h>> /\ w.pc = "reload" /\ w'.pc = "respawn failed" /\ w'.new = 0
        /\ w'.cur = w.cur /\ sup' = Gone(w.new)
    BY <1>9, SpawnsAreNumbers DEF Discard, Discarded, Typed
  <2>2. Fading /\ ~Runs(sup'[w.new])
    BY <1>k, <2>1, GoneFades DEF InHand
  <2>3. OneHolder'
    BY <1>k, <2>1 DEF OneHolder, Holders, Replacing
  <2> QED
    BY <1>k, <2>1, <2>2, <2>3, Handover DEF InHand, Fading, Replacing
<1>10. QED
  BY <1>1, <1>2, <1>3, <1>4, <1>5, <1>6, <1>7, <1>8, <1>9 DEF WatcherStep

LEMMA SolitaryStep == Typed /\ Numbered /\ Solitary /\ [Next]_vars => Solitary'
<1> SUFFICES ASSUME Typed, Numbered, Solitary, [Next]_vars PROVE Solitary'
  OBVIOUS
<1>1. CASE HostStep \/ BeginShutdown
  BY <1>1, HostSolitary
<1>2. CASE WatcherStep \/ RespawnFails \/ Age
  BY <1>2, WatcherSolitary
<1>3. ASSUME NEW i \in Spawns, SupervisorStep(i) \/ ProcessDies(i) \/ Hangs(i) \/ ConnectionFails(i)
      PROVE  Solitary'
  <2>1. InHand /\ EndsAreReal /\ OneHolder
    BY HandsKeepThem
  <2>2. Fading
    BY <1>3, <2>1, SupervisorsFade
  <2>3. UNCHANGED <<rt, w, h>>
    BY <1>3 DEF SupervisorStep, WatchKills, WatchReturns, WatchReports, ProcessDies, Hangs, ConnectionFails
  <2>4. OneHolder'
    BY <2>1, <2>3 DEF OneHolder, Holders
  <2> QED
    BY <2>1, <2>2, <2>3, <2>4, Handover DEF InHand, Fading
<1>4. CASE UNCHANGED vars
  BY <1>4 DEF vars, Solitary, EndsAreReal, AllHeld, OneHolder, ReplacesTheDead, Holders
<1>5. QED
  BY <1>1, <1>2, <1>3, <1>4 DEF Next

LEMMA AlwaysSolitary == Spec => []Solitary
<1>1. Init => Solitary
  <2> SUFFICES ASSUME Init PROVE Solitary
    OBVIOUS
  <2>1. \A i \in Spawns : ~Runs(sup[i]) /\ EndIsReal(sup[i])
    BY DEF Init, NoSupervisor, Runs, EndIsReal
  <2>2. OneHolder /\ w.pc \notin Replacing
    BY DEF Init, OneHolder, Holders, Replacing
  <2> QED
    BY <2>1, <2>2 DEF Solitary, EndsAreReal, AllHeld, ReplacesTheDead
<1>2. QED
  BY <1>1, AlwaysTyped, AlwaysNumbered, SolitaryStep, PTL DEF Spec

\* Of the processes that run, the runtime's, the respawn's and the Stop's are one: while
\* a respawn has its own, the runtime's is dead, and a Stop takes the runtime's over.
LEMMA OnlyOne ==
  ASSUME Typed, Solitary
  PROVE  \A i, j \in Spawns : Runs(sup[i]) /\ Runs(sup[j]) => i = j
<1>k. InHand /\ OneHolder
  BY HandsKeepThem
<1>1. CASE w.pc \in {"snapshot", "reload"}
  <2>1. w.pc \in Replacing /\ Holders \subseteq {0, w.cur}
    BY <1>1, <1>k DEF OneHolder, Replacing
  <2> QED
    BY <1>k, <2>1, SpawnsAreNumbers DEF InHand, Holders
<1>2. CASE w.pc \notin {"snapshot", "reload"}
  <2>1. w.new = 0 /\ (h.stops # 0 => rt.supervisor = 0)
    BY <1>2, <1>k DEF OneHolder
  <2> QED
    BY <1>k, <2>1, SpawnsAreNumbers DEF InHand
<1>3. QED
  BY <1>1, <1>2

\* At most one JVM is running, however a respawn ends and whenever the stop comes: the
\* process of the runtime, of a respawn or of a Stop is the only one, but for those that
\* lost their connection.
THEOREM JvmOneProcess == Spec => []OneProcess
<1>1. Typed /\ Solitary => OneProcess
  <2> SUFFICES ASSUME Typed, Solitary PROVE OneProcess
    OBVIOUS
  <2> DEFINE R == {i \in Spawns : sup[i].proc = "up" /\ sup[i].conn # "lost"}
  <2>1. \A i, j \in R : i = j
    BY OnlyOne DEF Runs
  <2>2. CASE R = {}
    BY <2>2, FS_EmptySet DEF OneProcess
  <2>3. CASE R # {}
    <3>1. PICK i \in R : R = {i}
      BY <2>1, <2>3
    <3>2. Cardinality(R) = 1
      BY <3>1, FS_Singleton
    <3> HIDE DEF R
    <3>3. Cardinality(R) <= 1
      BY <3>2
    <3> QED
      BY <3>3 DEF OneProcess, R
  <2> QED
    BY <2>2, <2>3
<1>2. QED
  BY <1>1, AlwaysTyped, AlwaysSolitary, PTL

\* A stopped runtime has no supervisor: what a respawn brings up while the server stops
\* is never installed.
THEOREM JvmStoppedForGood == Spec => []StoppedForGood
<1>1. Solitary => StoppedForGood
  BY DEF Solitary, OneHolder, StoppedForGood
<1>2. QED
  BY <1>1, AlwaysSolitary, PTL
---------------------------------------------------------------------------
(* Attempts.  While every respawn installs what it started, the respawns   *)
(* since a process last lived long are at most the failures the watcher    *)
(* has counted in its window, and one less while the next is being made.   *)

Within(pc, failure, old, respawns) ==
  /\ pc \in {"off", "top"} => ~old /\ respawns <= failure
  /\ pc \in {"wait", "count"} => IF old THEN respawns = 0 ELSE respawns <= failure
  /\ pc = "backoff" => respawns < failure
  /\ pc \in {"snapshot", "reload"} => respawns <= failure
  /\ pc # "respawn failed"
  /\ respawns <= Attempts

Counted == failures = 0 => Within(w.pc, w.failure, aged, flaps)

LEMMA CountedStep == Typed /\ Counted /\ [Next]_vars => Counted'
<1> SUFFICES ASSUME Typed, Counted, [Next]_vars PROVE Counted'
  OBVIOUS
<1>n. /\ failures \in Nat /\ flaps \in Nat /\ aged \in BOOLEAN /\ Attempts \in Nat \ {0} /\ w.failure \in Nat
      /\ w.pc # "ended" => w.failure <= Attempts
  <2>1. w.failure \in Tries /\ (w.pc # "ended" => w.failure \in Few) /\ Tries \subseteq Nat
    <3>1. Tries \subseteq Nat
      BY BoundsAssumption DEF Tries
    <3> QED
      BY <3>1 DEF Typed
  <2>2. \A n \in Few : n <= Attempts
    BY BoundsAssumption DEF Few
  <2> QED
    BY <2>1, <2>2, BoundsAssumption DEF Typed
<1>1. CASE Start
  <2>1. w.pc = "off" /\ w'.pc = "top" /\ w'.failure = w.failure /\ UNCHANGED <<aged, flaps, failures>>
    BY <1>1 DEF Start, Typed
  <2> QED
    BY <2>1 DEF Counted, Within
<1>2. CASE \/ Remember \/ SendUnload \/ Stop \/ StopReturns \/ BeginShutdown
           \/ (\E p \in Plugins : Load(p) \/ Unload(p)) \/ UNCHANGED vars
           \/ \E i \in Spawns : SupervisorStep(i) \/ ProcessDies(i) \/ Hangs(i) \/ ConnectionFails(i)
  <2>1. UNCHANGED <<w, aged, flaps, failures>>
    BY <1>2 DEF Remember, SendUnload, Stop, StopReturns, BeginShutdown, Load, Unload, vars,
                SupervisorStep, WatchKills, WatchReturns, WatchReports, ProcessDies, Hangs, ConnectionFails
  <2> QED
    BY <2>1 DEF Counted, Within
<1>3. CASE Watch
  <2>1. w.pc = "top" /\ w'.pc \in {"ended", "wait"} /\ w'.failure = w.failure /\ UNCHANGED <<aged, flaps, failures>>
    BY <1>3 DEF Watch, Ended, Typed
  <2> QED
    BY <2>1 DEF Counted, Within
<1>4. CASE WatcherDone
  <2>1. w'.pc = "ended" /\ UNCHANGED <<aged, flaps, failures>>
    BY <1>4 DEF WatcherDone, Ended, Typed
  <2> QED
    BY <2>1 DEF Counted, Within
<1>5. CASE SeesFailure
  <2>1. w.pc = "wait" /\ w'.pc \in {"ended", "count"} /\ w'.failure = w.failure /\ UNCHANGED <<aged, flaps, failures>>
    BY <1>5 DEF SeesFailure, Ended, Typed
  <2> QED
    BY <2>1 DEF Counted, Within
<1>6. CASE Backoff
  <2>1. w.pc = "count" /\ w'.pc = "backoff" /\ w'.failure = Failure /\ UNCHANGED <<aged, flaps, failures>>
    BY <1>6 DEF Backoff, Typed
  <2>2. failures = 0 => IF aged THEN flaps = 0 ELSE flaps <= w.failure
    BY <2>1 DEF Counted, Within
  <2>3. failures = 0 => flaps <= Attempts
    BY DEF Counted, Within
  <2>4. failures = 0 => flaps < Failure
    BY <1>n, <2>2 DEF Failure
  <2> QED
    BY <2>1, <2>3, <2>4 DEF Counted, Within
<1>7. CASE GiveUp
  <2>1. w'.pc = "ended" /\ UNCHANGED <<aged, flaps, failures>>
    BY <1>7 DEF GiveUp, Ended, Typed
  <2> QED
    BY <2>1 DEF Counted, Within
<1>8. CASE RespawnFails \/ Discard
  <2>1. failures' = failures + 1
    BY <1>8 DEF RespawnFails, Discard
  <2> QED
    BY <1>n, <2>1 DEF Counted
<1>9. CASE Respawn
  <2>1. w.pc = "backoff" /\ w'.pc = "snapshot" /\ w'.failure = w.failure /\ UNCHANGED failures
    BY <1>9 DEF Respawn, Typed
  <2>2. flaps' = flaps + 1
    BY <1>9 DEF Respawn
  <2>3. failures = 0 => flaps < w.failure /\ w.failure <= Attempts
    BY <1>n, <2>1 DEF Counted, Within
  <2>4. failures = 0 => flaps' <= w.failure /\ flaps' <= Attempts
    BY <1>n, <2>2, <2>3
  <2> QED
    BY <2>1, <2>4 DEF Counted, Within
<1>10. CASE Remembered \/ \E p \in Plugins : Reload(p)
  <2>1. w.pc \in {"snapshot", "reload"} /\ w'.pc = "reload" /\ w'.failure = w.failure /\ UNCHANGED <<aged, flaps, failures>>
    BY <1>10 DEF Remembered, Reload, Typed
  <2> QED
    BY <2>1 DEF Counted, Within
<1>11. CASE Install
  <2>1. w.pc = "reload" /\ w'.pc = "top" /\ w'.failure = w.failure /\ ~aged' /\ UNCHANGED <<flaps, failures>>
    BY <1>11 DEF Install, Typed
  <2> QED
    BY <2>1 DEF Counted, Within
<1>12. CASE AfterFailedRespawn
  <2>1. w.pc = "respawn failed" /\ UNCHANGED failures
    BY <1>12 DEF AfterFailedRespawn
  <2> QED
    BY <2>1 DEF Counted, Within
<1>13. CASE Age
  <2>1. w.pc \in {"wait", "backoff", "reload"} /\ UNCHANGED <<w, failures>>
        /\ aged' /\ flaps' = IF w.pc = "wait" THEN 0 ELSE flaps
    BY <1>13 DEF Age
  <2>2. failures = 0 => flaps <= Attempts
    BY DEF Counted, Within
  <2>3. flaps' = 0 \/ flaps' = flaps
    BY <2>1
  <2>4. failures = 0 => flaps' <= Attempts
    BY <1>n, <2>2, <2>3
  <2> QED
    BY <2>1, <2>4 DEF Counted, Within
<1>14. QED
  BY <1>1, <1>2, <1>3, <1>4, <1>5, <1>6, <1>7, <1>8, <1>9, <1>10, <1>11, <1>12, <1>13
  DEF Next, HostStep, WatcherStep

\* While every respawn installs the process it started, the runtime is respawned at most
\* Attempts times in a row before a process lives long or the watcher gives up.
THEOREM JvmDeathsBound == Spec => []DeathsBound
<1>1. Init => Counted
  BY BoundsAssumption DEF Init, Counted, Within
<1>2. Counted => DeathsBound
  BY DEF Counted, Within, DeathsBound, AttemptsBound
<1>3. QED
  BY <1>1, <1>2, AlwaysTyped, CountedStep, PTL DEF Spec
---------------------------------------------------------------------------
(* What comes back.  What the host has loaded is in the process of the     *)
(* runtime, or refused there, or still to be loaded into the process of    *)
(* the respawn.                                                            *)

Serves(s) == s.proc = "up" /\ s.conn = "open"
Brought(s) == s.plugins \cup s.refused
Answers == rt.supervisor # 0 /\ Serves(sup[rt.supervisor])

Restored ==
  /\ h.pc = "remember" => Answers /\ h.plugin \subseteq sup[rt.supervisor].plugins
  /\ Answers => rt.loaded \subseteq Brought(sup[rt.supervisor])
  /\ h.pc = "send unload" => h.plugin \cap rt.loaded = {}
  /\ rt.stopping \/ h.pc = "new" => rt.loaded = {}
  /\ w.pc = "reload" /\ Serves(sup[w.new]) => rt.loaded \subseteq w.todo \cup Brought(sup[w.new])
  /\ w.pc = "wait" => rt.supervisor # 0 \/ rt.stopping

\* No process begins to serve, and those that serve keep what they have.
Steady ==
  \A j \in Spawns : Serves(sup'[j]) =>
    Serves(sup[j]) /\ sup'[j].plugins = sup[j].plugins /\ sup'[j].refused = sup[j].refused

LEMMA OneSteady ==
  ASSUME Typed, NEW i \in Spawns, NEW s, sup' = [sup EXCEPT ![i] = s],
         Serves(s) => Serves(sup[i]) /\ s.plugins = sup[i].plugins /\ s.refused = sup[i].refused
  PROVE  Steady /\ \A j \in Spawns : j # i => sup'[j] = sup[j]
<1>1. \A j \in Spawns : sup'[j] = IF j = i THEN s ELSE sup[j]
  BY DEF Typed
<1>2. QED
  BY <1>1 DEF Steady

LEMMA DeadServesNot == \A s \in Supervisors : ~Serves(Dead(s)) /\ ~Serves(Killed(s))
BY SupervisorRecords DEF Dead, Killed, Serves

\* While a respawn is under way the runtime's own process serves nobody.
LEMMA NobodyAnswers ==
  ASSUME Typed, Solitary
  PROVE  /\ w.pc \in Replacing => ~Answers
         /\ w.pc \in {"snapshot", "reload"} => w.new \in Spawns
         /\ rt.supervisor # 0 => rt.supervisor \in Spawns
<1>1. InHand /\ OneHolder
  BY HandsKeepThem
<1>2. QED
  BY <1>1 DEF InHand, OneHolder, Holders, Replacing, Answers, Serves, Runs

LEMMA SupervisorsSteady ==
  ASSUME Typed, Restored, Solitary, DiesUnrecorded = FALSE, NEW i \in Spawns,
         SupervisorStep(i) \/ ProcessDies(i) \/ Hangs(i) \/ ConnectionFails(i)
  PROVE  Steady /\ (h.pc = "remember" => sup'[rt.supervisor].plugins = sup[rt.supervisor].plugins
                                         /\ Serves(sup'[rt.supervisor]))
<1>s. sup[i] \in Supervisors /\ DOMAIN sup = Spawns /\ (rt.supervisor # 0 => rt.supervisor \in Spawns)
  BY OneSupervisor, NobodyAnswers DEF Typed
<1>r. h.pc = "remember" => rt.supervisor \in Spawns /\ Serves(sup[rt.supervisor])
  BY <1>s DEF Restored, Answers
<1>1. CASE ProcessDies(i)
  <2>1. sup' = [sup EXCEPT ![i] = Dead(sup[i])] /\ h.pc # "remember"
    BY <1>1 DEF ProcessDies, Recorded
  <2> QED
    BY <1>s, <2>1, DeadServesNot, OneSteady
<1>2. CASE WatchKills(i)
  <2>1. sup' = [sup EXCEPT ![i] = Killed(sup[i])] /\ ~Serves(sup[i])
    BY <1>2 DEF WatchKills, Serves
  <2>2. Steady /\ \A j \in Spawns : j # i => sup'[j] = sup[j]
    BY <1>s, <2>1, DeadServesNot, OneSteady
  <2> QED
    BY <1>r, <2>1, <2>2
<1>3. CASE Hangs(i) \/ ConnectionFails(i)
  <2>1. PICK c \in {"hung", "lost"} : sup' = [sup EXCEPT ![i] = [sup[i] EXCEPT !.conn = c]]
    BY <1>3 DEF Hangs, ConnectionFails
  <2> DEFINE s == [sup[i] EXCEPT !.conn = c]
  <2>2. ~Serves(s) /\ h.pc # "remember"
    BY <1>3, <1>s, SupervisorRecords DEF Hangs, ConnectionFails, Recorded, Serves
  <2> HIDE DEF s
  <2> QED
    BY <2>1, <2>2, OneSteady DEF s
<1>4. CASE WatchReturns(i) \/ WatchReports(i)
  <2>1. PICK s : sup' = [sup EXCEPT ![i] = s] /\ (Serves(s) <=> Serves(sup[i]))
                 /\ s.plugins = sup[i].plugins /\ s.refused = sup[i].refused
    <3>1. CASE WatchReturns(i)
      <4> DEFINE s == [sup[i] EXCEPT !.watch = "returned"]
      <4>1. sup' = [sup EXCEPT ![i] = s]
        BY <3>1 DEF WatchReturns
      <4>2. (Serves(s) <=> Serves(sup[i])) /\ s.plugins = sup[i].plugins /\ s.refused = sup[i].refused
        BY <1>s, SupervisorRecords DEF Serves
      <4> HIDE DEF s
      <4> QED
        BY <4>1, <4>2
    <3>2. CASE WatchReports(i)
      <4> DEFINE s == [sup[i] EXCEPT !.watch = "off", !.failed = OwnEnd(i)]
      <4>1. sup' = [sup EXCEPT ![i] = s]
        BY <3>2 DEF WatchReports
      <4>2. (Serves(s) <=> Serves(sup[i])) /\ s.plugins = sup[i].plugins /\ s.refused = sup[i].refused
        BY <1>s, SupervisorRecords DEF Serves
      <4> HIDE DEF s
      <4> QED
        BY <4>1, <4>2
    <3> QED
      BY <1>4, <3>1, <3>2
  <2>2. Steady /\ \A j \in Spawns : j # i => sup'[j] = sup[j]
    BY <2>1, OneSteady
  <2>3. sup'[i] = s
    BY <1>s, <2>1
  <2> QED
    BY <1>r, <2>1, <2>2, <2>3
<1>5. QED
  BY <1>1, <1>2, <1>3, <1>4 DEF SupervisorStep
LEMMA HostRestores ==
  ASSUME Typed, Restored, Solitary, HostStep \/ BeginShutdown
  PROVE  Restored'
<1>k. /\ w.pc \in Replacing => ~Answers
      /\ rt.supervisor # 0 => rt.supervisor \in Spawns
      /\ w.pc \in {"snapshot", "reload"} => w.new \in Spawns
  BY NobodyAnswers
<1>t. \A i \in Spawns : sup[i] \in Supervisors /\ sup[i].plugins \in Bunches /\ sup[i].refused \in Bunches
  BY OneSupervisor DEF Typed
<1>a. Serving(rt.supervisor) <=> Answers
  BY DEF Serving, Answers, Serves
<1>1. CASE Start
  <2> DEFINE n == spawned + 1
  <2>1. /\ rt' = [rt EXCEPT !.supervisor = n]
        /\ w' = [w EXCEPT !.pc = "top"] /\ h' = [h EXCEPT !.pc = "loading"] /\ h.pc = "new"
    BY <1>1 DEF Start
  <2> HIDE DEF n
  <2>2. w'.pc = "top" /\ h'.pc = "loading" /\ rt'.loaded = {}
    BY <2>1 DEF Typed, Restored
  <2> QED
    BY <2>2 DEF Restored
<1>2. ASSUME NEW p \in Plugins, Load(p) PROVE Restored'
  <2> DEFINE i == rt.supervisor
             s == [sup[i] EXCEPT !.plugins = sup[i].plugins \cup {p}]
  <2>1. UNCHANGED <<rt, w>> /\ h.pc = "loading" /\ h'.pc = "remember" /\ h'.plugin = {p} /\ Answers
    BY <1>2, <1>a DEF Load, Typed
  <2>2. i \in Spawns /\ w.pc \notin Replacing
    BY <1>k, <2>1 DEF Answers
  <2>3. sup' = [sup EXCEPT ![i] = s]
    BY <1>2 DEF Load
  <2>4. s.plugins = sup[i].plugins \cup {p} /\ s.refused = sup[i].refused /\ (Serves(s) <=> Serves(sup[i]))
    BY <1>t, <2>2, SupervisorRecords DEF Serves
  <2> HIDE DEF s
  <2>5. sup'[i] = s
    BY <2>2, <2>3 DEF Typed
  <2>6. Answers' /\ rt.loaded \subseteq Brought(sup'[rt.supervisor])
    BY <2>1, <2>4, <2>5 DEF Restored, Answers, Brought
  <2> QED
    BY <2>1, <2>2, <2>4, <2>5, <2>6 DEF Restored, Replacing
<1>3. CASE Remember
  <2>1. UNCHANGED <<sup, w>> /\ h.pc = "remember" /\ h'.pc = "loading" /\ rt'.supervisor = rt.supervisor
        /\ rt'.stopping = rt.stopping /\ rt'.loaded = rt.loaded \cup h.plugin
    BY <1>3 DEF Remember, Typed
  <2>2. Answers /\ ~rt.stopping /\ w.pc \notin Replacing
    BY <1>k, <2>1 DEF Restored, Answers, Solitary, OneHolder
  <2>3. rt'.loaded \subseteq Brought(sup[rt.supervisor])
    BY <2>1, <2>2 DEF Restored, Brought
  <2> QED
    BY <2>1, <2>2, <2>3 DEF Restored, Replacing, Answers
<1>4. CASE BeginShutdown
  <2>1. UNCHANGED <<sup, w, rt>> /\ h'.pc = "unloading"
    BY <1>4 DEF BeginShutdown, Typed
  <2> QED
    BY <2>1 DEF Restored, Answers
<1>5. ASSUME NEW p \in Plugins, Unload(p) PROVE Restored'
  <2>1. UNCHANGED <<sup, w>> /\ h'.pc = "send unload" /\ h'.plugin = {p} /\ rt'.supervisor = rt.supervisor
        /\ rt'.stopping = rt.stopping /\ rt'.loaded = rt.loaded \ {p}
    BY <1>5 DEF Unload, Typed
  <2> QED
    BY <2>1 DEF Restored, Answers
<1>6. CASE SendUnload
  <2>1. UNCHANGED <<rt, w>> /\ h.pc = "send unload" /\ h'.pc = "unloading"
    BY <1>6 DEF SendUnload, Typed
  <2>2. CASE ~Answers
    <3>1. sup' = sup
      BY <1>6, <1>a, <2>2 DEF SendUnload
    <3> QED
      BY <2>1, <3>1 DEF Restored, Answers
  <2>3. CASE Answers
    <3> DEFINE i == rt.supervisor
               s == [sup[i] EXCEPT !.plugins = sup[i].plugins \ h.plugin]
    <3>1. i \in Spawns /\ w.pc \notin Replacing
      BY <1>k, <2>3 DEF Answers
    <3>2. sup' = [sup EXCEPT ![i] = s]
      BY <1>6, <1>a, <2>3 DEF SendUnload
    <3>3. s.plugins = sup[i].plugins \ h.plugin /\ s.refused = sup[i].refused
      BY <1>t, <3>1, SupervisorRecords
    <3> HIDE DEF s
    <3>4. sup'[i] = s
      BY <3>1, <3>2 DEF Typed
    <3>5. rt.loaded \subseteq Brought(sup'[rt.supervisor])
      BY <2>1, <2>3, <3>3, <3>4 DEF Restored, Brought
    <3> QED
      BY <2>1, <3>1, <3>5 DEF Restored, Replacing
  <2> QED
    BY <2>2, <2>3
<1>7. CASE Stop
  <2>1. UNCHANGED w /\ rt'.loaded = {} /\ rt'.stopping /\ h'.pc \in {"stopped", "stopping"}
    BY <1>7 DEF Stop, Typed
  <2> QED
    BY <2>1 DEF Restored
<1>8. CASE StopReturns
  <2> DEFINE s == Dead([sup[h.stops] EXCEPT !.stopping = TRUE])
  <2>1. UNCHANGED <<w, rt>> /\ h'.pc = "stopped" /\ sup' = [sup EXCEPT ![h.stops] = s]
    BY <1>8 DEF StopReturns, Gone, Typed
  <2>2. h.stops \in Spawns => ~Serves(s)
    BY <1>t, SupervisorUpdates, DeadServesNot
  <2> HIDE DEF s
  <2>3. Steady
    <3>1. CASE h.stops \in Spawns
      BY <2>1, <2>2, <3>1, OneSteady
    <3>2. CASE h.stops \notin Spawns
      BY <2>1, <3>2 DEF Typed, Steady
    <3> QED
      BY <3>1, <3>2
  <2> QED
    BY <1>k, <2>1, <2>3 DEF Restored, Steady, Answers, Brought
<1>9. QED
  BY <1>1, <1>2, <1>3, <1>4, <1>5, <1>6, <1>7, <1>8 DEF HostStep

LEMMA WatcherRestores ==
  ASSUME Typed, Numbered, Restored, Solitary, WatcherStep \/ RespawnFails \/ Age
  PROVE  Restored'
<1>k. /\ w.pc \in Replacing => ~Answers /\ h.pc # "remember"
      /\ rt.supervisor # 0 => rt.supervisor \in Spawns
      /\ w.pc \in {"snapshot", "reload"} => w.new \in Spawns
  BY NobodyAnswers DEF Restored
<1>t. \A i \in Spawns : sup[i] \in Supervisors /\ sup[i].plugins \in Bunches /\ sup[i].refused \in Bunches
  BY OneSupervisor DEF Typed
<1>1. CASE Watch
  <2>1. UNCHANGED <<sup, rt, h>> /\ (w'.pc = "ended" \/ (w'.pc = "wait" /\ rt.supervisor # 0))
    BY <1>1 DEF Watch, Ended, Typed
  <2> QED
    BY <2>1 DEF Restored, Answers
<1>2. CASE WatcherDone \/ SeesFailure \/ Backoff \/ RespawnFails \/ AfterFailedRespawn
  <2>1. UNCHANGED <<sup, rt, h>> /\ w'.pc \in {"ended", "count", "backoff", "respawn failed", "top"}
    BY <1>2 DEF WatcherDone, SeesFailure, Backoff, RespawnFails, AfterFailedRespawn, NextTry, Ended, Typed
  <2> QED
    BY <2>1 DEF Restored, Answers
<1>3. CASE GiveUp
  <2>1. UNCHANGED <<sup, h>> /\ w.pc = "count" /\ w'.pc = "ended" /\ rt'.supervisor = 0
        /\ rt'.loaded = rt.loaded /\ rt'.stopping = rt.stopping
    BY <1>3 DEF GiveUp, Ended, Typed
  <2> QED
    BY <1>k, <2>1 DEF Restored, Answers, Replacing
<1>4. CASE Respawn
  <2> DEFINE n == spawned + 1
  <2>1. rt.supervisor # n
    <3>1. rt.supervisor \in UpTo(spawned) /\ spawned \in Pid
      BY DEF Numbered, Typed
    <3> QED
      BY <3>1, NextNumber
  <2>2. /\ sup' = [sup EXCEPT ![n] = Up] /\ w' = [w EXCEPT !.pc = "snapshot", !.new = n]
        /\ UNCHANGED <<rt, h>> /\ w.pc = "backoff"
    BY <1>4 DEF Respawn
  <2> HIDE DEF n
  <2>3. w'.pc = "snapshot" /\ (rt.supervisor # 0 => sup'[rt.supervisor] = sup[rt.supervisor])
    BY <1>k, <2>1, <2>2 DEF Typed
  <2> QED
    BY <1>k, <2>2, <2>3 DEF Restored, Answers, Replacing
<1>5. CASE Remembered
  <2>1. UNCHANGED <<sup, rt, h>> /\ w'.pc = "reload" /\ w'.todo = rt.loaded /\ w'.new = w.new
    BY <1>5 DEF Remembered, Snapshot, Typed
  <2> QED
    BY <2>1 DEF Restored, Answers
<1>6. ASSUME NEW p \in Plugins, Reload(p) PROVE Restored'
  <2> DEFINE i == w.new
  <2>1. UNCHANGED <<rt, h>> /\ w.pc = "reload" /\ w'.pc = "reload" /\ w'.new = i /\ w'.todo = w.todo \ {p}
    BY <1>6 DEF Reload, Typed
  <2>2. i \in Spawns /\ ~Answers /\ h.pc # "remember"
    BY <1>k, <2>1 DEF Replacing
  <2>3. PICK s : /\ sup' = [sup EXCEPT ![i] = s] /\ (Serves(s) <=> Serves(sup[i]))
                 /\ Brought(s) = Brought(sup[i]) \cup {p}
    <3>1. CASE sup' = [sup EXCEPT ![i].plugins = @ \cup {p}]
      <4> DEFINE s == [sup[i] EXCEPT !.plugins = sup[i].plugins \cup {p}]
      <4>1. s.plugins = sup[i].plugins \cup {p} /\ s.refused = sup[i].refused /\ (Serves(s) <=> Serves(sup[i]))
        BY <1>t, <2>2, SupervisorRecords DEF Serves
      <4>2. sup' = [sup EXCEPT ![i] = s]
        BY <3>1
      <4> HIDE DEF s
      <4>3. Brought(s) = Brought(sup[i]) \cup {p}
        BY <4>1 DEF Brought
      <4> QED
        BY <4>1, <4>2, <4>3
    <3>2. CASE sup' = [sup EXCEPT ![i].refused = @ \cup {p}]
      <4> DEFINE s == [sup[i] EXCEPT !.refused = sup[i].refused \cup {p}]
      <4>1. s.refused = sup[i].refused \cup {p} /\ s.plugins = sup[i].plugins /\ (Serves(s) <=> Serves(sup[i]))
        BY <1>t, <2>2, SupervisorRecords DEF Serves
      <4>2. sup' = [sup EXCEPT ![i] = s]
        BY <3>2
      <4> HIDE DEF s
      <4>3. Brought(s) = Brought(sup[i]) \cup {p}
        BY <4>1 DEF Brought
      <4> QED
        BY <4>1, <4>2, <4>3
    <3> QED
      BY <1>6, <3>1, <3>2 DEF Reload
  <2> HIDE DEF i
  <2>4. sup'[i] = s /\ \A j \in Spawns : j # i => sup'[j] = sup[j]
    BY <2>2, <2>3 DEF Typed
  <2>5. ~Answers'
    <3>1. CASE rt.supervisor = 0
      BY <2>1, <3>1 DEF Answers
    <3>2. CASE rt.supervisor # 0
      BY <1>k, <2>1, <2>2, <2>3, <2>4, <3>2 DEF Answers
    <3> QED
      BY <3>1, <3>2
  <2>6. Serves(sup'[i]) => rt.loaded \subseteq w'.todo \cup Brought(sup'[i])
    BY <2>1, <2>3, <2>4 DEF Restored, i
  <2> QED
    BY <2>1, <2>2, <2>5, <2>6 DEF Restored
<1>7. CASE Install
  <2>1. /\ UNCHANGED <<sup, h>> /\ w.pc = "reload" /\ w.todo = {} /\ w'.pc = "top" /\ rt'.supervisor = w.new
        /\ rt'.stopping = rt.stopping /\ rt'.loaded = rt.loaded
    BY <1>7 DEF Install, Typed
  <2>2. h.pc # "remember"
    BY <1>k, <2>1 DEF Replacing
  <2>3. Answers' => rt.loaded \subseteq Brought(sup[w.new])
    BY <2>1 DEF Restored, Answers
  <2> QED
    BY <2>1, <2>2, <2>3 DEF Restored
<1>8. CASE Discard
  <2> DEFINE s == Dead([sup[w.new] EXCEPT !.stopping = TRUE])
  <2>1. UNCHANGED <<rt, h>> /\ w.pc = "reload" /\ w'.pc = "respawn failed" /\ sup' = [sup EXCEPT ![w.new] = s]
    BY <1>8 DEF Discard, Discarded, Gone, Typed
  <2>2. ~Serves(s) /\ w.new \in Spawns /\ h.pc # "remember"
    BY <1>k, <1>t, <2>1, SupervisorUpdates, DeadServesNot DEF Replacing
  <2> HIDE DEF s
  <2>3. Steady
    BY <2>1, <2>2, OneSteady
  <2> QED
    BY <1>k, <2>1, <2>2, <2>3 DEF Restored, Steady, Answers, Brought
<1>9. CASE Age
  <2>1. UNCHANGED <<sup, rt, h, w>>
    BY <1>9 DEF Age
  <2> QED
    BY <2>1 DEF Restored, Answers
<1>10. QED
  BY <1>1, <1>2, <1>3, <1>4, <1>5, <1>6, <1>7, <1>8, <1>9 DEF WatcherStep

\* A process that dies before the host has recorded what it loaded loses it; no other
\* death does.
THEOREM JvmPluginsComeBack == ASSUME DiesUnrecorded = FALSE PROVE Spec => []PluginsComeBack
<1>1. Init => Restored
  BY DEF Init, Restored, Answers
<1>2. Typed /\ Numbered /\ Solitary /\ Restored /\ [Next]_vars => Restored'
  <2> SUFFICES ASSUME Typed, Numbered, Solitary, Restored, [Next]_vars PROVE Restored'
    OBVIOUS
  <2>1. CASE HostStep \/ BeginShutdown
    BY <2>1, HostRestores
  <2>2. CASE WatcherStep \/ RespawnFails \/ Age
    BY <2>2, WatcherRestores
  <2>3. ASSUME NEW i \in Spawns, SupervisorStep(i) \/ ProcessDies(i) \/ Hangs(i) \/ ConnectionFails(i)
        PROVE  Restored'
    <3>1. Steady /\ (h.pc = "remember" => sup'[rt.supervisor].plugins = sup[rt.supervisor].plugins
                                          /\ Serves(sup'[rt.supervisor]))
      BY <2>3, SupervisorsSteady
    <3>2. UNCHANGED <<rt, w, h>>
      BY <2>3 DEF SupervisorStep, WatchKills, WatchReturns, WatchReports, ProcessDies, Hangs, ConnectionFails
    <3>3. /\ rt.supervisor # 0 => rt.supervisor \in Spawns
          /\ w.pc = "reload" => w.new \in Spawns
      BY NobodyAnswers
    <3> QED
      BY <3>1, <3>2, <3>3 DEF Restored, Steady, Answers, Brought
  <2>4. CASE UNCHANGED vars
    BY <2>4 DEF vars, Restored, Answers
  <2> QED
    BY <2>1, <2>2, <2>3, <2>4 DEF Next
<1>3. Typed /\ Solitary /\ Restored => PluginsComeBack
  <2> SUFFICES ASSUME Typed, Solitary, Restored, w.pc = "wait", Serving(w.cur)
               PROVE  rt.loaded \subseteq sup[w.cur].plugins \cup sup[w.cur].refused
    BY DEF PluginsComeBack
  <2>1. rt.supervisor \in {0, w.cur}
    BY DEF Solitary, OneHolder, Holders
  <2> QED
    BY <2>1 DEF Restored, Serving, Answers, Serves, Brought
<1>4. QED
  BY <1>1, <1>2, <1>3, AlwaysTyped, AlwaysNumbered, AlwaysSolitary, PTL DEF Spec
=============================================================================
