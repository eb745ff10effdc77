--------------------------- MODULE PluginBusProofs ---------------------------
(***************************************************************************)
(* The queue between plugins and tick, what the bus does to it, and the    *)
(* vetoes, for any plugins, events, verdicts, calls and bounds.            *)
(***************************************************************************)
EXTENDS PluginBus, SequenceTheorems, FiniteSetTheorems, WellFoundedInduction, TLAPS

\* The queue holds sequences of host calls, whatever is enqueued and drained.
THEOREM QueueTypeCorrect == QueueSpec => []QueueTypeOK
<1>1. QueueInit => QueueTypeOK
  BY EmptySeq DEF QueueInit, QueueTypeOK
<1>2. QueueTypeOK /\ [QueueNext]_queueVars => QueueTypeOK'
  <2> SUFFICES ASSUME QueueTypeOK, [QueueNext]_queueVars PROVE QueueTypeOK'
    OBVIOUS
  <2> USE DEF QueueTypeOK
  <2>1. CASE \E c \in Calls : Enqueue(c)
    <3>1. PICK c \in Calls : Enqueue(c)
      BY <2>1
    <3>2. Append(calls, c) \in Seq(Calls) /\ Append(accepted, c) \in Seq(Calls)
      BY AppendProperties
    <3> QED
      BY <3>1, <3>2 DEF Enqueue
  <2>2. CASE Take
    BY <2>2 DEF Take
  <2>3. CASE Apply
    <3>1. Head(batch) \in Calls /\ Tail(batch) \in Seq(Calls)
      BY <2>3, HeadTailProperties DEF Apply
    <3> QED
      BY <2>3, <3>1 DEF Apply
  <2>4. CASE Close
    BY <2>4 DEF Close
  <2>5. CASE UNCHANGED queueVars
    BY <2>5 DEF queueVars
  <2> QED
    BY <2>1, <2>2, <2>3, <2>4, <2>5 DEF QueueNext, Drain
<1> QED
  BY <1>1, <1>2, PTL DEF QueueSpec

\* Applying a call leaves the order of all calls as it was.
LEMMA MoveHead ==
  ASSUME NEW S, NEW s \in Seq(S), NEW t \in Seq(S), t # <<>>
  PROVE  Append(s, Head(t)) \o Tail(t) = s \o t
<1>1. Head(t) \in S /\ Tail(t) \in Seq(S) /\ t = <<Head(t)>> \o Tail(t)
  BY HeadTailProperties
<1>2. Append(s, Head(t)) = s \o <<Head(t)>>
  BY <1>1, AppendIsConcat
<1> QED
  BY <1>1, <1>2, ConcatAssociative

\* No call the queue accepted is lost, applied twice or overtaken by another.
THEOREM QueueConserves == QueueSpec => []Conserved
<1> DEFINE IInv == QueueTypeOK /\ Conserved
<1>1. QueueInit => IInv
  BY ConcatEmptySeq, EmptySeq DEF QueueInit, QueueTypeOK, Conserved
<1>2. QueueTypeOK /\ Conserved /\ [QueueNext]_queueVars => Conserved'
  <2> SUFFICES ASSUME QueueTypeOK, Conserved, [QueueNext]_queueVars PROVE Conserved'
    OBVIOUS
  <2>0. /\ calls \in Seq(Calls) /\ batch \in Seq(Calls) /\ applied \in Seq(Calls)
        /\ applied \o batch \in Seq(Calls)
    BY ConcatProperties DEF QueueTypeOK
  <2>1. CASE \E c \in Calls : Enqueue(c)
    <3>1. PICK c \in Calls : Enqueue(c)
      BY <2>1
    <3>2. Append((applied \o batch) \o calls, c) = (applied \o batch) \o Append(calls, c)
      <4>1. <<c>> \in Seq(Calls) /\ (applied \o batch) \o calls \in Seq(Calls)
        BY <2>0, ConcatProperties
      <4>2. Append((applied \o batch) \o calls, c) = ((applied \o batch) \o calls) \o <<c>>
        BY <4>1, AppendIsConcat
      <4>3. Append(calls, c) = calls \o <<c>>
        BY <2>0, AppendIsConcat
      <4> QED
        BY <2>0, <4>1, <4>2, <4>3, ConcatAssociative
    <3> QED
      BY <2>0, <3>1, <3>2 DEF Enqueue, Conserved
  <2>2. CASE Take
    <3>1. applied \o <<>> = applied /\ (applied \o calls) \o <<>> = applied \o calls
      BY <2>0, ConcatEmptySeq, ConcatProperties
    <3> QED
      BY <2>2, <3>1 DEF Take, Conserved
  <2>3. CASE Apply
    <3>1. Append(applied, Head(batch)) \o Tail(batch) = applied \o batch
      BY <2>0, <2>3, MoveHead DEF Apply
    <3> QED
      BY <2>3, <3>1 DEF Apply, Conserved
  <2>4. CASE Close
    BY <2>4 DEF Close, Conserved
  <2>5. CASE UNCHANGED queueVars
    BY <2>5 DEF queueVars, Conserved
  <2> QED
    BY <2>1, <2>2, <2>3, <2>4, <2>5 DEF QueueNext, Drain
<1>3. QueueInit => Conserved
  BY <1>1
<1> QED
  BY <1>2, <1>3, QueueTypeCorrect, PTL DEF QueueSpec

---------------------------------------------------------------------------
(* The bus. *)

\* The bus and the tick use the queue only through its operations: a step of an emission
\* enqueues a call of a verdict or leaves the queue alone, the tick drains it.
THEOREM BusUsesQueue == Spec => QueueSpec
<1>1. Init => QueueInit
  BY DEF Init
<1>2. [Next]_vars => [QueueNext]_queueVars
  <2> SUFFICES ASSUME [Next]_vars PROVE [QueueNext]_queueVars
    OBVIOUS
  <2>1. CASE RegistryStep
    BY <2>1 DEF RegistryStep
  <2>2. CASE Tick
    BY <2>2 DEF Tick, QueueNext
  <2>3. ASSUME NEW e \in Emissions, Emit(e) \/ Expire(e) \/ BusStep(e)
        PROVE  UNCHANGED queueVars
    BY <2>3 DEF Emit, Expire, BusStep, AllRan, PassOver, Starve, Call, DeadlineExceeded
  <2>4. ASSUME NEW e \in Emissions, Answer(e)
        PROVE  [QueueNext]_queueVars
    <3>1. PICK v \in Verdicts : IF v.effect = None THEN UNCHANGED queueVars ELSE Enqueue(v.effect)
      BY <2>4 DEF Answer
    <3>2. v.effect \in Calls \cup {None}
      BY <3>1, EventsAssumption
    <3> QED
      BY <3>1, <3>2 DEF QueueNext
  <2>5. ASSUME NEW e \in Emissions, Fails(e)
        PROVE  UNCHANGED queueVars
    BY <2>5 DEF Fails
  <2>6. CASE UNCHANGED vars
    BY <2>6 DEF vars
  <2> QED
    BY <2>1, <2>2, <2>3, <2>4, <2>5, <2>6 DEF Next, PluginStep
<1> QED
  BY <1>1, <1>2, PTL DEF Spec, QueueSpec

\* Whatever the plugins answer and whenever the tick drains, every call accepted from a
\* plugin is applied once and in the order of acceptance, or still waits its turn.
THEOREM BusConserves == Spec => []Conserved
BY BusUsesQueue, QueueConserves, PTL

---------------------------------------------------------------------------
(* Loading and unloading. *)

Loading == {"loading", "attaching", "discarding", "revoking", "up", "stopping"}
Before == {"scanned", "starting", "unstarting"}

RegistryTyped ==
  /\ boot \in [at : Loading \cup Before \cup {"detaching", "unloading", "down"},
               left : 0 .. Len(LoadOrder), opened : BOOLEAN]
  /\ loaded \in 0 .. Len(LoadOrder) /\ started \in 0 .. Len(RuntimeOrder)
  /\ held \subseteq Plugins /\ commands \subseteq Commanding

\* What runs runs in a runtime that was started, and the bus asks only what runs.
Carried ==
  /\ subscribed \subseteq held
  /\ \A p \in held : \E i \in 1 .. started : RuntimeOf[p] = RuntimeOrder[i]

\* While loading, the bus has the plugins loaded so far; while stopping, those still to go.
InStep ==
  /\ boot.at \in Before \cup {"down"} => held = {} /\ loaded = 0 /\ boot.left = 0
  /\ boot.at \in {"scanned", "down"} => started = 0
  /\ boot.at \in Loading =>
       started = Len(RuntimeOrder) /\ subscribed = First(loaded) /\ boot.left = 0
  /\ boot.at = "attaching" => NextPlugin \in held
  /\ boot.at \in {"attaching", "discarding"} => ~AllLoaded
  /\ boot.at = "up" => AllLoaded
  /\ boot.at \in {"detaching", "unloading"} => loaded = 0
  /\ boot.at = "detaching" => subscribed = First(boot.left)
  /\ boot.at = "unloading" => boot.left > 0 /\ subscribed = First(boot.left - 1)

Commanded ==
  /\ boot.at \in {"scanned", "stopping", "down"} => commands = {}
  /\ boot.at \in {"starting", "loading", "attaching", "up"} => commands = Commanding
  /\ boot.at = "detaching" => commands \subseteq First(boot.left)
  /\ boot.at = "unloading" => commands \subseteq First(boot.left - 1)

RegistryInv == RegistryTyped /\ Carried /\ InStep /\ Commanded

LEMMA OneMore ==
  ASSUME NEW n \in 0 .. Len(LoadOrder), n < Len(LoadOrder)
  PROVE  First(n + 1) = First(n) \cup {LoadOrder[n + 1]} /\ LoadOrder[n + 1] \notin First(n)
         /\ LoadOrder[n + 1] \in Plugins
<1>1. 1 .. n + 1 = 1 .. n \cup {n + 1} /\ n + 1 \in 1 .. Len(LoadOrder) /\ Len(LoadOrder) \in Nat
  BY OrderAssumption, LenProperties
<1>2. \A i \in 1 .. n : LoadOrder[i] # LoadOrder[n + 1]
  BY <1>1, OrderAssumption, LenProperties DEF IsInjective
<1>3. LoadOrder[n + 1] \in Plugins
  BY <1>1, OrderAssumption, ElementOfSeq
<1> QED
  BY <1>1, <1>2, <1>3 DEF First

LEMMA AllOfThem == First(Len(LoadOrder)) = Plugins /\ First(0) = {}
BY OrderAssumption, LenProperties DEF First, ToSet

LEMMA RegistryStepKeeps == RegistryInv /\ [RegistryNext]_registryVars => RegistryInv'
<1> SUFFICES ASSUME RegistryInv, [RegistryNext]_registryVars PROVE RegistryInv'
  OBVIOUS
<1>l. /\ Len(LoadOrder) \in Nat /\ Len(RuntimeOrder) \in Nat
      /\ \A p \in Plugins : \E i \in 1 .. Len(RuntimeOrder) : RuntimeOf[p] = RuntimeOrder[i]
  BY OrderAssumption, LenProperties DEF ToSet
<1>n. ASSUME ~AllLoaded
      PROVE  /\ loaded + 1 \in 0 .. Len(LoadOrder) /\ NextPlugin \in Plugins
             /\ First(loaded + 1) = First(loaded) \cup {NextPlugin} /\ NextPlugin \notin First(loaded)
  BY <1>n, <1>l, OneMore DEF RegistryInv, RegistryTyped, AllLoaded, NextPlugin
<1>g. ASSUME boot.left > 0
      PROVE  /\ boot.left - 1 \in 0 .. Len(LoadOrder) /\ Leaving \in Plugins
             /\ First(boot.left) = First(boot.left - 1) \cup {Leaving} /\ Leaving \notin First(boot.left - 1)
  <2>1. boot.left - 1 \in 0 .. Len(LoadOrder) /\ boot.left - 1 < Len(LoadOrder) /\ (boot.left - 1) + 1 = boot.left
    BY <1>g, <1>l DEF RegistryInv, RegistryTyped
  <2> QED
    BY <2>1, OneMore DEF Leaving
<1> USE DEF RegistryInv, RegistryTyped, Carried, InStep, Commanded, Loading, Before, Goes
<1>1. CASE RegisterCommands
  BY <1>1 DEF RegisterCommands
<1>2. CASE StartRuntime
  <2>1. boot.at = "starting" /\ held = {} /\ subscribed = {} /\ loaded = 0 /\ boot.left = 0
    BY <1>2 DEF StartRuntime
  <2>2. UNCHANGED <<subscribed, commands, loaded, held>>
    BY <1>2 DEF StartRuntime
  <2>3. CASE ~AllStarted /\ started' = started + 1 /\ UNCHANGED boot
    BY <2>1, <2>2, <2>3, <1>l DEF AllStarted
  <2>4. CASE boot' = [boot EXCEPT !.at = "unstarting"] /\ UNCHANGED started
    BY <2>1, <2>2, <2>4
  <2>5. CASE AllStarted /\ boot' = [boot EXCEPT !.at = "loading"] /\ UNCHANGED started
    BY <2>1, <2>2, <2>5, AllOfThem DEF AllStarted
  <2> QED
    BY <1>2, <2>3, <2>4, <2>5 DEF StartRuntime
<1>3. CASE LoadPlugin
  <2>1. ~AllLoaded /\ held \subseteq held' /\ held' \subseteq held \cup {NextPlugin}
        /\ UNCHANGED <<subscribed, commands, loaded, started>> /\ NextPlugin' = NextPlugin
    BY <1>3 DEF LoadPlugin, IfShared, NextPlugin
  <2>2. \A p \in held' : \E i \in 1 .. started' : RuntimeOf[p] = RuntimeOrder[i]
    BY <1>3, <2>1, <1>l, <1>n DEF LoadPlugin
  <2>3. AllLoaded' = AllLoaded
    BY <2>1 DEF AllLoaded
  <2>4. CASE boot.at = "loading" /\ boot' = [boot EXCEPT !.at = "attaching"] /\ held' = held \cup {NextPlugin}
    BY <2>1, <2>2, <2>3, <2>4, <1>n
  <2>5. CASE boot.at = "loading" /\ boot' = [boot EXCEPT !.at = "revoking"]
    BY <2>1, <2>2, <2>3, <2>5, <1>n
  <2> QED
    BY <1>3, <2>4, <2>5 DEF LoadPlugin
<1>4. CASE AttachPlugin
  <2>1. boot.at = "attaching" /\ NextPlugin \in held /\ ~AllLoaded
    BY <1>4 DEF AttachPlugin
  <2>2. CASE boot' = [boot EXCEPT !.at = "loading"] /\ subscribed' = subscribed \cup {NextPlugin} /\ loaded' = loaded + 1
    BY <1>4, <2>1, <2>2, <1>n DEF AttachPlugin
  <2>3. CASE boot' = [boot EXCEPT !.at = "discarding"] /\ UNCHANGED <<subscribed, loaded>>
    BY <1>4, <2>1, <2>3, <1>n DEF AttachPlugin, AllLoaded
  <2> QED
    BY <1>4, <2>2, <2>3 DEF AttachPlugin
<1>5. CASE ReadyRuntimes
  BY <1>5 DEF ReadyRuntimes, AllLoaded
<1>6. CASE Discard
  <2>1. ~AllLoaded /\ held' \subseteq held /\ held \ {NextPlugin} \subseteq held'
    BY <1>6 DEF Discard, Unload, IfShared
  <2> QED
    BY <1>6, <2>1, <1>n DEF Discard
<1>7. CASE RevokeBundles
  BY <1>7 DEF RevokeBundles, ToRevoke
<1>8. CASE BeginStop
  <2>1. commands \subseteq First(loaded) /\ boot.left' = loaded
    BY <1>8, AllOfThem, OrderAssumption DEF BeginStop, AllLoaded
  <2> QED
    BY <1>8, <2>1, <1>l DEF BeginStop
<1>9. CASE Detach
  BY <1>9, <1>g DEF Detach
<1>10. CASE UnloadOne
  <2>1. held' \subseteq held /\ held \ {Leaving} \subseteq held' /\ boot.left > 0
    BY <1>10 DEF UnloadOne, Unload, IfShared
  <2> QED
    BY <1>10, <2>1, <1>g DEF UnloadOne
<1>11. CASE StopRuntime
  <2>1. subscribed = {} /\ held' \subseteq held /\ UNCHANGED <<subscribed, commands, loaded, boot>>
    BY <1>11, AllOfThem DEF StopRuntime
  <2>2. started' = started - 1 /\ started' \in 0 .. Len(RuntimeOrder)
    BY <1>11, <1>l DEF StopRuntime
  <2>3. \A p \in held' : \E i \in 1 .. started' : RuntimeOf[p] = RuntimeOrder[i]
    BY <1>11, <2>2 DEF StopRuntime
  <2>4. boot.at \in {"unstarting", "detaching"}
    BY <1>11 DEF StopRuntime
  <2> QED
    BY <2>1, <2>2, <2>3, <2>4
<1>12. CASE Finish
  BY <1>12, <1>l, AllOfThem DEF Finish
<1>13. CASE UNCHANGED registryVars
  BY <1>13 DEF registryVars, NextPlugin, AllLoaded
<1> QED
  BY <1>1, <1>2, <1>3, <1>4, <1>5, <1>6, <1>7, <1>8, <1>9, <1>10, <1>11, <1>12, <1>13
  DEF RegistryNext

\* Every step of bus and registry is a step of the registry or leaves it alone.
THEOREM BusUsesRegistry == Spec => RegistrySpec
<1>1. Init => RegistryInit
  BY DEF Init
<1>2. [Next]_vars => [RegistryNext]_registryVars
  BY DEF Next, RegistryStep, Tick, BusStep, PluginStep, Emit, Expire, AllRan, PassOver, Starve, Call,
         DeadlineExceeded, Answer, Fails, vars, busVars
<1> QED
  BY <1>1, <1>2, PTL DEF Spec, RegistrySpec

\* Wherever loading fails, whichever runtime answers an unload, an event is put only to
\* plugins that run, and what is taken back is taken back entirely.
THEOREM BootAllOrNothing == Spec => []AllOrNothing
<1>1. RegistryInit => RegistryInv
  BY OrderAssumption, LenProperties, AllOfThem
  DEF RegistryInit, RegistryInv, RegistryTyped, Carried, InStep, Commanded, Loading, Before, First
<1>2. RegistryInv => AllOrNothing
  BY OrderAssumption, AllOfThem
  DEF RegistryInv, RegistryTyped, Carried, InStep, Commanded, Loading, Before, AllOrNothing, AllLoaded, Instances
<1>3. RegistrySpec => []AllOrNothing
  BY <1>1, <1>2, RegistryStepKeeps, PTL DEF RegistrySpec
<1> QED
  BY <1>3, BusUsesRegistry, PTL

---------------------------------------------------------------------------
(* A veto that was heard ends its emission there and then.                 *)

Fields == {"pc", "event", "list", "i", "ended", "fields", "mutations", "cancelled",
           "heard", "answered", "passed", "vetoed"}

\* An emission nobody has vetoed, and one that at most ended with a veto.
Open(r) == DOMAIN r = Fields /\ r.vetoed = FALSE
Sealed(r) == DOMAIN r = Fields /\ (Open(r) \/ (r.vetoed = TRUE /\ r.pc = "done" /\ r.cancelled = TRUE))

VetoSealed == DOMAIN em = Emissions /\ \A e \in Emissions : Sealed(em[e])

LEMMA StaysOpen ==
  ASSUME NEW r, Open(r), NEW x, NEW y
  PROVE  /\ Open([r EXCEPT !.pc = x]) /\ Open([r EXCEPT !.ended = x]) /\ Open([r EXCEPT !.answered = x])
         /\ Open([r EXCEPT !.pc = x, !.heard = y]) /\ Open([r EXCEPT !.pc = x, !.cancelled = y])
         /\ Open([r EXCEPT !.fields = x, !.mutations = y]) /\ Open([r EXCEPT !.passed = x])
         /\ Open([r EXCEPT !.i = x, !.pc = y])
BY DEF Open, Fields

LEMMA WritesStayOpen ==
  ASSUME NEW r, Open(r), NEW p, NEW x, NEW v
  PROVE  /\ Open(Next1(r)) /\ Open(ApplyMutations(r, p, x))
         /\ Sealed(Judged(r, v))
<1>1. Open(Next1(r))
  BY DEF Open, Fields, Next1
<1>2. Open(Written(r, p, x))
  BY DEF Open, Fields, Written
<1>3. Sealed([r EXCEPT !.pc = "done", !.cancelled = TRUE, !.vetoed = TRUE])
  BY DEF Open, Fields, Sealed
<1>4. QED
  BY <1>1, <1>2, <1>3 DEF ApplyMutations, Judged, Sealed, Open

LEMMA OneSealed ==
  ASSUME VetoSealed, NEW e \in Emissions, NEW r, Sealed(r), em' = [em EXCEPT ![e] = r]
  PROVE  VetoSealed'
BY DEF VetoSealed

LEMMA CutSealed ==
  ASSUME VetoSealed, NEW e \in Emissions, Open(em[e]), NEW hs, NEW i, CutShort(e, hs, i)
  PROVE  VetoSealed'
<1> DEFINE s == em[e].passed \cup {p \in Behind(e, i) : hs[p].disabled}
           r == [em[e] EXCEPT !.pc = "done", !.cancelled = Denied(e), !.passed = s]
<1>1. em' = [em EXCEPT ![e] = r]
  BY DEF CutShort
<1>2. Open(r)
  BY DEF Open, Fields
<1> HIDE DEF r
<1>3. QED
  BY <1>1, <1>2, OneSealed DEF Sealed, Open

LEMMA SealStep == VetoSealed /\ [Next]_vars => VetoSealed'
<1> SUFFICES ASSUME VetoSealed, [Next]_vars PROVE VetoSealed'
  OBVIOUS
<1>o. \A e \in Emissions : em[e].pc # "done" => Open(em[e])
  BY DEF VetoSealed, Sealed
<1>s. \A r : Open(r) => Sealed(r)
  BY DEF Open, Sealed
<1>1. ASSUME NEW e \in Emissions, Emit(e) PROVE VetoSealed'
  <2>1. PICK event \in Events[e] :
          em' = [em EXCEPT ![e].event = event, ![e].list = Subscribers(event), ![e].i = 1, ![e].pc = "next"]
    BY <1>1 DEF Emit
  <2> DEFINE r == [em[e] EXCEPT !.event = event, !.list = Subscribers(event), !.i = 1, !.pc = "next"]
  <2>2. em' = [em EXCEPT ![e] = r]
    BY <2>1
  <2>3. Open(em[e])
    BY <1>1, <1>o DEF Emit
  <2>4. Open(r)
    BY <2>3 DEF Open, Fields
  <2> HIDE DEF r
  <2> QED
    BY <2>2, <2>4, <1>s, OneSealed
<1>2. ASSUME NEW e \in Emissions, Expire(e) \/ AllRan(e) PROVE VetoSealed'
  <2>1. Open(em[e])
    BY <1>2, <1>o DEF Expire, AllRan
  <2>2. \/ em' = [em EXCEPT ![e] = [em[e] EXCEPT !.ended = TRUE]]
        \/ em' = [em EXCEPT ![e] = [em[e] EXCEPT !.pc = "done"]]
    BY <1>2 DEF Expire, AllRan
  <2>3. Open([em[e] EXCEPT !.ended = TRUE]) /\ Open([em[e] EXCEPT !.pc = "done"])
    BY <2>1, StaysOpen
  <2> QED
    BY <2>2, <2>3, <1>s, OneSealed
<1>3. ASSUME NEW e \in Emissions, PassOver(e) PROVE VetoSealed'
  <2> DEFINE r == [em[e] EXCEPT !.passed = em[e].passed \cup {Turn(e)}]
  <2>1. Open(r)
    BY <1>3, <1>o, StaysOpen DEF PassOver
  <2>2. em' = [em EXCEPT ![e] = Next1(r)]
    BY <1>3 DEF PassOver
  <2> HIDE DEF r
  <2> QED
    BY <2>1, <2>2, <1>s, WritesStayOpen, OneSealed
<1>4. ASSUME NEW e \in Emissions, Starve(e) \/ DeadlineExceeded(e) PROVE VetoSealed'
  <2>1. Open(em[e])
    BY <1>4, <1>o DEF Starve, DeadlineExceeded
  <2>2. \E hs, i : CutShort(e, hs, i)
    BY <1>4 DEF Starve, DeadlineExceeded
  <2> QED
    BY <2>1, <2>2, CutSealed
<1>5. ASSUME NEW e \in Emissions, Call(e) PROVE VetoSealed'
  <2> DEFINE y == Append(em[e].heard, Turn(e))
             r == [em[e] EXCEPT !.pc = "call", !.heard = y]
  <2>1. em' = [em EXCEPT ![e] = r]
    BY <1>5 DEF Call
  <2>2. Open(em[e])
    BY <1>5, <1>o DEF Call
  <2>3. Open(r)
    BY <2>2, StaysOpen
  <2> HIDE DEF r
  <2> QED
    BY <2>1, <2>3, <1>s, OneSealed
<1>6. ASSUME NEW e \in Emissions, Answer(e) PROVE VetoSealed'
  <2> DEFINE p == Called(e)
             r == [em[e] EXCEPT !.answered = em[e].answered \cup {p}]
  <2>1. Open(r)
    BY <1>6, <1>o, StaysOpen DEF Answer
  <2>2. PICK v : \/ em' = [em EXCEPT ![e] = Next1(r)]
                 \/ em' = [em EXCEPT ![e] = Judged(ApplyMutations(r, p, v.path), v)]
    BY <1>6 DEF Answer, Counts
  <2> HIDE DEF r
  <2>3. Sealed(Next1(r)) /\ Sealed(Judged(ApplyMutations(r, p, v.path), v))
    BY <2>1, <1>s, WritesStayOpen
  <2> QED
    BY <2>2, <2>3, OneSealed
<1>7. ASSUME NEW e \in Emissions, Fails(e) PROVE VetoSealed'
  <2>1. Open(em[e])
    BY <1>7, <1>o DEF Fails
  <2>2. \/ em' = [em EXCEPT ![e] = [em[e] EXCEPT !.pc = "done", !.cancelled = TRUE]]
        \/ em' = [em EXCEPT ![e] = Next1(em[e])]
    BY <1>7 DEF Fails
  <2>3. Open([em[e] EXCEPT !.pc = "done", !.cancelled = TRUE]) /\ Open(Next1(em[e]))
    BY <2>1, StaysOpen, WritesStayOpen
  <2> QED
    BY <2>2, <2>3, <1>s, OneSealed
<1>8. CASE UNCHANGED em
  BY <1>8 DEF VetoSealed
<1>9. (RegistryStep \/ Tick \/ UNCHANGED vars) => UNCHANGED em
  BY DEF RegistryStep, Tick, vars, busVars
<1>10. QED
  BY <1>1, <1>2, <1>3, <1>4, <1>5, <1>6, <1>7, <1>8, <1>9 DEF Next, BusStep, PluginStep

\* A cancelling verdict that arrives cancels its event, however late, whoever subscribes
\* and whatever other emissions do meanwhile.
THEOREM BusVetoHolds == Spec => []VetoHolds
<1>1. Init => VetoSealed
  BY DEF Init, VetoSealed, Sealed, Open, NotEmitted, Fields
<1>2. VetoSealed => VetoHolds
  BY DEF VetoSealed, Sealed, Open, VetoHolds
<1>3. QED
  BY <1>1, <1>2, SealStep, PTL DEF Spec
---------------------------------------------------------------------------
(* Induction is on a least counterexample. *)

LEMMA LeastNat ==
  ASSUME NEW T \in SUBSET Nat, T # {}
  PROVE  \E m \in T : \A n \in T : m <= n
<1> DEFINE R == {r \in Nat \X Nat : r[1] < r[2]}
<1>1. IsWellFoundedOn(R, Nat)
  BY NatLessThanWellFounded DEF OpToRel
<1>2. PICK m \in T : \A n \in T : <<n, m>> \notin R
  BY <1>1, WFMin
<1>3. ASSUME NEW n \in T PROVE m <= n
  <2>1. <<n, m>> \notin R
    BY <1>2
  <2>2. n \in Nat /\ m \in Nat
    OBVIOUS
  <2> QED
    BY <2>1, <2>2
<1> QED
  BY <1>3

\* A set of numbers that has 0 and with every number the next has them all.
LEMMA NatInduct ==
  ASSUME NEW P, 0 \in P, \A n \in Nat : n \in P => n + 1 \in P
  PROVE  Nat \subseteq P
<1> SUFFICES ASSUME NEW k \in Nat, k \notin P PROVE FALSE
  OBVIOUS
<1> DEFINE bad == {n \in Nat : n \notin P}
<1>1. bad \in SUBSET Nat /\ bad # {}
  OBVIOUS
<1>2. PICK n \in bad : \A m \in bad : n <= m
  BY <1>1, LeastNat
<1>3. n # 0 /\ n \in Nat
  BY <1>2
<1>4. n - 1 \in Nat /\ n - 1 \notin bad
  BY <1>2, <1>3
<1>5. n - 1 \in P /\ (n - 1) + 1 = n
  BY <1>3, <1>4
<1> QED
  BY <1>2, <1>4, <1>5

---------------------------------------------------------------------------
(* The list an event is put to: sorted, whoever is in it. *)

LEMMA RankIs == \A i \in DOMAIN Order : Rank(Order[i]) = i
BY OrderAssumption DEF Rank, IsInjective

LEMMA RankedExists ==
  ASSUME NEW S \in SUBSET Plugins
  PROVE  \E s \in [1 .. Cardinality(S) -> S] : Ascending(s)
<1> DEFINE upTo(n) == {T \in SUBSET Plugins : \A p \in T : Rank(p) <= n}
           good(T) == IsFiniteSet(T) /\ \E s \in [1 .. Cardinality(T) -> T] : Ascending(s)
           P == {n \in Nat : \A T \in upTo(n) : good(T)}
<1>o. /\ Len(Order) \in Nat /\ DOMAIN Order = 1 .. Len(Order)
      /\ \A p \in Plugins : Rank(p) \in 1 .. Len(Order) /\ Order[Rank(p)] = p
  <2>1. Len(Order) \in Nat /\ DOMAIN Order = 1 .. Len(Order)
    BY OrderAssumption, LenProperties
  <2>2. \A p \in Plugins : \E i \in DOMAIN Order : p = Order[i]
    BY DEF Plugins, ToSet
  <2> QED
    BY <2>1, <2>2, RankIs
<1>1. 0 \in P
  <2> SUFFICES ASSUME NEW T \in upTo(0) PROVE good(T)
    OBVIOUS
  <2>1. T = {}
    <3> SUFFICES ASSUME NEW p \in T PROVE FALSE
      OBVIOUS
    <3>1. p \in Plugins /\ Rank(p) <= 0
      OBVIOUS
    <3> QED
      BY <3>1, <1>o
  <2>2. IsFiniteSet(T) /\ Cardinality(T) = 0
    BY <2>1, FS_EmptySet
  <2>3. <<>> \in [1 .. 0 -> T] /\ Ascending(<<>>)
    BY DEF Ascending
  <2> QED
    BY <2>2, <2>3
<1>2. ASSUME NEW n \in Nat, n \in P PROVE n + 1 \in P
  <2>0. n + 1 \in Nat
    OBVIOUS
  <2> HIDE DEF good
  <2> SUFFICES ASSUME NEW T \in upTo(n + 1) PROVE good(T)
    BY <2>0
  <2> USE DEF good
  <2>1. CASE \A p \in T : Rank(p) # n + 1
    <3>1. T \in upTo(n)
      BY <2>1, <1>o
    <3> QED
      BY <3>1, <1>2
  <2>2. CASE \E p \in T : Rank(p) = n + 1
    <3>1. PICK p \in T : Rank(p) = n + 1
      BY <2>2
    <3> DEFINE U == T \ {p}
    <3>2. \A q \in U : Rank(q) < n + 1 /\ Rank(q) <= n
      <4> SUFFICES ASSUME NEW q \in U PROVE Rank(q) < n + 1 /\ Rank(q) <= n
        OBVIOUS
      <4>1. Rank(q) <= n + 1 /\ q # p /\ q \in Plugins /\ p \in Plugins
        OBVIOUS
      <4>2. Rank(q) # Rank(p) /\ Rank(q) \in Nat
        BY <4>1, <1>o
      <4> QED
        BY <3>1, <4>1, <4>2
    <3>3. U \in upTo(n)
      BY <3>2
    <3>4. IsFiniteSet(U)
      BY <3>3, <1>2
    <3>5. PICK s \in [1 .. Cardinality(U) -> U] : Ascending(s)
      BY <3>3, <1>2
    <3>u. T = U \cup {p} /\ p \notin U
      BY <3>1
    <3>r. \A q \in U : Rank(q) < n + 1
      BY <3>2
    <3> HIDE DEF U
    <3>6. IsFiniteSet(T) /\ Cardinality(T) = Cardinality(U) + 1 /\ Cardinality(U) \in Nat
      BY <3>4, <3>u, FS_AddElement, FS_CardinalityType
    <3> DEFINE c == Cardinality(U)
               t == [i \in 1 .. c + 1 |-> IF i = c + 1 THEN p ELSE s[i]]
    <3>7. c \in Nat /\ Cardinality(T) = c + 1 /\ s \in [1 .. c -> U]
      BY <3>5, <3>6
    <3> HIDE DEF c
    <3>10. \A i \in 1 .. c : s[i] \in U /\ Rank(s[i]) < n + 1
      BY <3>7, <3>r
    <3>8. t \in [1 .. c + 1 -> T]
      <4> SUFFICES ASSUME NEW i \in 1 .. c + 1, i # c + 1 PROVE s[i] \in T
        BY <3>u
      <4>1. i \in 1 .. c
        BY <3>7
      <4> QED
        BY <4>1, <3>7, <3>u
    <3>9. Ascending(t)
      <4> SUFFICES ASSUME NEW i \in 1 .. c + 1, NEW j \in 1 .. c + 1, i < j
                   PROVE  Rank(t[i]) < Rank(t[j])
        BY DEF Ascending
      <4>1. i \in 1 .. c /\ t[i] = s[i]
        BY <3>7
      <4>2. CASE j = c + 1
        BY <3>1, <3>10, <4>1, <4>2
      <4>3. CASE j # c + 1
        <5>1. j \in 1 .. c /\ t[j] = s[j]
          BY <3>7, <4>3
        <5>2. DOMAIN s = 1 .. c
          BY <3>7
        <5>3. Rank(s[i]) < Rank(s[j])
          BY <3>5, <4>1, <5>1, <5>2 DEF Ascending
        <5> QED
          BY <4>1, <5>1, <5>3
      <4> QED
        BY <4>2, <4>3
    <3> QED
      BY <3>6, <3>7, <3>8, <3>9
  <2> QED
    BY <2>1, <2>2
<1> HIDE DEF P
<1>3. Nat \subseteq P
  BY <1>1, <1>2, NatInduct
<1>4. S \in upTo(Len(Order))
  BY <1>o
<1> QED
  BY <1>o, <1>3, <1>4 DEF P

LEMMA RankedIs ==
  ASSUME NEW S \in SUBSET Plugins
  PROVE  Ranked(S) \in Seq(Plugins) /\ Ascending(Ranked(S)) /\ ToSet(Ranked(S)) \subseteq S
<1>1. Ranked(S) \in [1 .. Cardinality(S) -> S] /\ Ascending(Ranked(S))
  BY RankedExists DEF Ranked
<1>2. IsFiniteSet(S)
  <2>1. IsFiniteSet(Plugins)
    <3>1. Len(Order) \in Nat /\ DOMAIN Order = 1 .. Len(Order)
      BY OrderAssumption, LenProperties
    <3>2. IsFiniteSet(1 .. Len(Order))
      BY <3>1, FS_Interval
    <3>3. [i \in 1 .. Len(Order) |-> Order[i]] \in Surjection(1 .. Len(Order), Plugins)
      BY <3>1 DEF Surjection, Plugins, ToSet
    <3> QED
      BY <3>2, <3>3, FS_Surjection
  <2> QED
    BY <2>1, FS_Subset
<1>3. Cardinality(S) \in Nat
  BY <1>2, FS_CardinalityType
<1>4. Ranked(S) \in Seq(Plugins)
  BY <1>1, <1>3
<1> QED
  BY <1>1, <1>4 DEF ToSet
---------------------------------------------------------------------------
(* Replaying mutations. *)

Wrote(object, m) == [object EXCEPT ![m.path] = m.by]
After(g, ms, n) == IF n = 0 THEN Unwritten ELSE Wrote(g[n - 1], ms[n])
Runs(g, ms) == g = [n \in 0 .. Len(ms) |-> After(g, ms, n)]

LEMMA ReplayUnfolds ==
  ASSUME NEW ms
  PROVE  Replayed(ms) = (CHOOSE g : Runs(g, ms))[Len(ms)]
BY DEF Replayed, Runs, After, Wrote

LEMMA RunsExist ==
  ASSUME NEW ms, Len(ms) \in Nat
  PROVE  \E g : Runs(g, ms)
<1> DEFINE good(n) == \E g : g = [k \in 0 .. n |-> After(g, ms, k)]
           P == {n \in Nat : good(n)}
<1>1. good(0)
  <2> DEFINE h == [k \in 0 .. 0 |-> Unwritten]
  <2>1. h = [k \in 0 .. 0 |-> After(h, ms, k)]
    BY SMT DEF After
  <2> QED
    BY <2>1
<1>2. ASSUME NEW n \in Nat, good(n) PROVE good(n + 1)
  <2>1. PICK g : g = [k \in 0 .. n |-> After(g, ms, k)]
    BY <1>2
  <2> DEFINE h == [k \in 0 .. n + 1 |-> IF k <= n THEN g[k] ELSE After(g, ms, k)]
  <2>2. \A j \in 0 .. n : h[j] = g[j] /\ g[j] = After(g, ms, j)
    <3>1. \A j \in 0 .. n : g[j] = After(g, ms, j)
      BY <2>1
    <3>2. \A j \in 0 .. n : j \in 0 .. n + 1 /\ j <= n
      OBVIOUS
    <3> QED
      BY <3>1, <3>2
  <2>3. ASSUME NEW k \in 0 .. n + 1 PROVE h[k] = After(h, ms, k)
    <3>1. k # 0 => k - 1 \in 0 .. n
      OBVIOUS
    <3>2. h[k] = After(g, ms, k)
      <4>1. k <= n => k \in 0 .. n
        OBVIOUS
      <4>2. h[k] = IF k <= n THEN g[k] ELSE After(g, ms, k)
        OBVIOUS
      <4> HIDE DEF h
      <4> QED
        BY <4>1, <4>2, <2>2
    <3> HIDE DEF h
    <3>3. k # 0 => h[k - 1] = g[k - 1]
      BY <2>2, <3>1
    <3>4. After(h, ms, k) = After(g, ms, k)
      BY <3>3 DEF After
    <3> QED
      BY <3>2, <3>4
  <2>4. h = [k \in 0 .. n + 1 |-> h[k]]
    OBVIOUS
  <2> HIDE DEF h
  <2>5. h = [k \in 0 .. n + 1 |-> After(h, ms, k)]
    BY <2>3, <2>4
  <2> QED
    BY <2>5
<1> HIDE DEF good
<1>3. 0 \in P /\ \A n \in Nat : n \in P => n + 1 \in P
  BY <1>1, <1>2
<1> HIDE DEF P
<1>4. Nat \subseteq P
  BY <1>3, NatInduct
<1>5. good(Len(ms))
  BY <1>4 DEF P
<1> QED
  BY <1>5 DEF good, Runs

\* Two replays that begin with the same mutations agree as far as these go.
LEMMA RunsAgree ==
  ASSUME NEW ms, NEW ns, Len(ms) \in Nat, Len(ns) \in Nat, Len(ms) <= Len(ns),
         \A i \in 1 .. Len(ms) : ms[i] = ns[i],
         NEW g, Runs(g, ms), NEW h, Runs(h, ns)
  PROVE  \A n \in 0 .. Len(ms) : g[n] = h[n]
<1> DEFINE bad == {n \in 0 .. Len(ms) : g[n] # h[n]}
<1> SUFFICES ASSUME bad # {} PROVE FALSE
  OBVIOUS
<1>0. bad \in SUBSET Nat
  OBVIOUS
<1>1. PICK n \in bad : \A m \in bad : n <= m
  BY <1>0, LeastNat
<1>2. n \in 0 .. Len(ms) /\ n \in 0 .. Len(ns) /\ g[n] # h[n]
  BY <1>1
<1>3. /\ g[n] = IF n = 0 THEN Unwritten ELSE Wrote(g[n - 1], ms[n])
      /\ h[n] = IF n = 0 THEN Unwritten ELSE Wrote(h[n - 1], ns[n])
  BY <1>2 DEF Runs, After
<1>4. n # 0
  BY <1>2, <1>3
<1>5. n - 1 \in 0 .. Len(ms) /\ n - 1 \notin bad /\ n \in 1 .. Len(ms)
  BY <1>1, <1>2, <1>4
<1>6. g[n - 1] = h[n - 1] /\ ms[n] = ns[n]
  BY <1>5
<1> QED
  BY <1>2, <1>3, <1>4, <1>6

LEMMA ReplayEmpty == Replayed(<<>>) = Unwritten
<1>1. Len(<<>>) = 0 /\ 0 \in Nat
  OBVIOUS
<1>2. Runs(CHOOSE g : Runs(g, <<>>), <<>>)
  BY <1>1, RunsExist
<1> QED
  BY <1>1, <1>2, ReplayUnfolds DEF Runs, After

\* One more mutation is written last.
LEMMA ReplayAppends ==
  ASSUME NEW M, NEW ms \in Seq(M), NEW m \in M
  PROVE  Replayed(Append(ms, m)) = Wrote(Replayed(ms), m)
<1> DEFINE ns == Append(ms, m)
           g == CHOOSE x : Runs(x, ms)
           h == CHOOSE x : Runs(x, ns)
<1>1. /\ Len(ms) \in Nat /\ Len(ns) = Len(ms) + 1 /\ ns[Len(ms) + 1] = m
      /\ \A i \in 1 .. Len(ms) : ms[i] = ns[i]
  BY LenProperties, AppendProperties
<1> HIDE DEF ns
<1>2. Runs(g, ms) /\ Runs(h, ns)
  BY <1>1, RunsExist
<1>3. Replayed(ms) = g[Len(ms)] /\ Replayed(ns) = h[Len(ms) + 1]
  BY <1>1, ReplayUnfolds
<1> HIDE DEF g, h
<1>4. g[Len(ms)] = h[Len(ms)]
  BY <1>1, <1>2, RunsAgree
<1>5. Len(ms) + 1 \in 0 .. Len(ns) /\ Len(ms) + 1 # 0 /\ (Len(ms) + 1) - 1 = Len(ms)
  BY <1>1
<1>6. h[Len(ms) + 1] = Wrote(h[Len(ms)], m)
  BY <1>1, <1>2, <1>5 DEF Runs, After
<1> QED
  BY <1>3, <1>4, <1>6 DEF ns
---------------------------------------------------------------------------
(* One emission: whom it is put to, who has heard it, and what came of it. *)

Waits(r) == r.event.failClosed /\ r.event.kind \in {"native", "custom"}
Met(r) == r.answered \cup r.passed

\* Its list is sorted, and leaves the emitter out.
Listed(r) ==
  /\ DOMAIN r = Fields /\ r.pc \in {"new", "next", "call", "done"} /\ (r.pc = "new" => r = NotEmitted)
  /\ r.event.failClosed \in BOOLEAN /\ r.list \in Seq(Plugins) /\ Ascending(r.list)
  /\ r.event.kind # "command" => r.event.emitter \notin ToSet(r.list)
  /\ r.i \in Nat /\ (r.pc = "call" => r.i \in DOMAIN r.list) /\ (r.pc = "next" => r.i # 0)

\* Those who have heard it come before whoever is next.
HeardSoFar(r) ==
  /\ r.heard \in Seq(Plugins) /\ Ascending(r.heard)
  /\ \A j \in DOMAIN r.heard : \E k \in DOMAIN r.list :
       r.heard[j] = r.list[k] /\ (r.pc = "next" => k < r.i)
  /\ r.pc = "call" => r.heard # <<>> /\ r.heard[Len(r.heard)] = r.list[r.i]

\* While it may still go through, nobody it has come to is without an answer.
Settled(r) ==
  /\ Met(r) \subseteq ToSet(r.list)
  /\ Waits(r) /\ (r.pc = "done" => r.cancelled = FALSE) =>
       \A k \in DOMAIN r.list : (r.pc = "done" \/ k < r.i) => r.list[k] \in Met(r)

Replays(r) ==
  r.mutations \in Seq([path : Mutable, by : Plugins]) /\ r.fields = Replayed(r.mutations)

Good(r) == Listed(r) /\ HeardSoFar(r) /\ Settled(r) /\ Replays(r)

LEMMA RankNat == \A p \in Plugins : Rank(p) \in Nat
<1>1. \A p \in Plugins : \E i \in DOMAIN Order : p = Order[i]
  BY DEF Plugins, ToSet
<1>2. DOMAIN Order = 1 .. Len(Order) /\ Len(Order) \in Nat
  BY OrderAssumption, LenProperties
<1> QED
  BY <1>1, <1>2, RankIs

LEMMA GoodAt ==
  ASSUME NEW r, Good(r), r.i \in DOMAIN r.list
  PROVE  /\ r.list[r.i] \in Plugins /\ r.list[r.i] \in ToSet(r.list) /\ r.i <= Len(r.list)
BY ElementOfSeq, LenProperties DEF Good, Listed, ToSet

LEMMA GoodUnmoved ==
  ASSUME NEW r, Good(r), r.pc # "new", NEW x
  PROVE  Good([r EXCEPT !.ended = x])
<1> DEFINE s == [r EXCEPT !.ended = x]
<1>1. /\ DOMAIN s = Fields /\ s.pc = r.pc /\ s.event = r.event /\ s.list = r.list /\ s.i = r.i
      /\ s.heard = r.heard /\ s.answered = r.answered /\ s.passed = r.passed
      /\ s.cancelled = r.cancelled /\ s.mutations = r.mutations /\ s.fields = r.fields
  BY DEF Good, Listed, Fields
<1> HIDE DEF s
<1> QED
  BY <1>1 DEF Good, Listed, HeardSoFar, Settled, Met, Waits, Replays

\* It ends: with everyone settled, or cancelled if it was to wait for them.
LEMMA GoodEnds ==
  ASSUME NEW r, Good(r), r.pc # "new", NEW c, NEW ps, ps \subseteq ToSet(r.list), NEW v,
         Waits(r) => c = TRUE \/ (c = r.cancelled /\ r.pc = "next" /\ r.i > Len(r.list))
  PROVE  /\ Good([r EXCEPT !.pc = "done", !.cancelled = c, !.passed = r.passed \cup ps])
         /\ Good([r EXCEPT !.pc = "done", !.cancelled = c, !.vetoed = v])
         /\ Good([r EXCEPT !.pc = "done", !.cancelled = c])
         /\ c = r.cancelled => Good([r EXCEPT !.pc = "done"])
<1>1. ASSUME NEW s, DOMAIN s = Fields, s.pc = "done", s.event = r.event, s.list = r.list, s.i = r.i,
             s.heard = r.heard, s.answered = r.answered, s.passed \in {r.passed, r.passed \cup ps},
             s.cancelled = c, s.mutations = r.mutations, s.fields = r.fields
      PROVE  Good(s)
  <2>1. Listed(s)
    BY <1>1 DEF Good, Listed
  <2>2. HeardSoFar(s)
    BY <1>1 DEF Good, HeardSoFar
  <2>3. Replays(s)
    BY <1>1 DEF Good, Replays
  <2>4. Settled(s)
    <3>1. Met(s) \subseteq ToSet(s.list) /\ Met(r) \subseteq Met(s) /\ (Waits(s) <=> Waits(r))
      BY <1>1 DEF Good, Settled, Met, Waits
    <3> SUFFICES ASSUME Waits(r), c = FALSE, NEW k \in DOMAIN r.list PROVE r.list[k] \in Met(s)
      BY <1>1, <3>1 DEF Settled
    <3>2. r.pc = "next" /\ r.i > Len(r.list)
      OBVIOUS
    <3>3. k < r.i
      BY <3>2, LenProperties DEF Good, Listed
    <3>4. r.list[k] \in Met(r)
      BY <3>2, <3>3 DEF Good, Settled
    <3> QED
      BY <3>1, <3>4
  <2> QED
    BY <2>1, <2>2, <2>3, <2>4 DEF Good
<1> DEFINE s1 == [r EXCEPT !.pc = "done", !.cancelled = c, !.passed = r.passed \cup ps]
           s2 == [r EXCEPT !.pc = "done", !.cancelled = c, !.vetoed = v]
           s3 == [r EXCEPT !.pc = "done", !.cancelled = c]
           s4 == [r EXCEPT !.pc = "done"]
<1>2. Good(s1)
  <2>1. /\ DOMAIN s1 = Fields /\ s1.pc = "done" /\ s1.event = r.event /\ s1.list = r.list
        /\ s1.i = r.i /\ s1.heard = r.heard /\ s1.answered = r.answered
        /\ s1.passed = r.passed \cup ps /\ s1.cancelled = c
        /\ s1.mutations = r.mutations /\ s1.fields = r.fields
    BY DEF Good, Listed, Fields
  <2> HIDE DEF s1
  <2> QED
    BY <1>1, <2>1
<1>3. Good(s2)
  <2>1. /\ DOMAIN s2 = Fields /\ s2.pc = "done" /\ s2.event = r.event /\ s2.list = r.list
        /\ s2.i = r.i /\ s2.heard = r.heard /\ s2.answered = r.answered
        /\ s2.passed = r.passed /\ s2.cancelled = c
        /\ s2.mutations = r.mutations /\ s2.fields = r.fields
    BY DEF Good, Listed, Fields
  <2> HIDE DEF s2
  <2> QED
    BY <1>1, <2>1
<1>4. Good(s3)
  <2>1. /\ DOMAIN s3 = Fields /\ s3.pc = "done" /\ s3.event = r.event /\ s3.list = r.list
        /\ s3.i = r.i /\ s3.heard = r.heard /\ s3.answered = r.answered
        /\ s3.passed = r.passed /\ s3.cancelled = c
        /\ s3.mutations = r.mutations /\ s3.fields = r.fields
    BY DEF Good, Listed, Fields
  <2> HIDE DEF s3
  <2> QED
    BY <1>1, <2>1
<1>5. ASSUME c = r.cancelled PROVE Good(s4)
  <2>1. /\ DOMAIN s4 = Fields /\ s4.pc = "done" /\ s4.event = r.event /\ s4.list = r.list
        /\ s4.i = r.i /\ s4.heard = r.heard /\ s4.answered = r.answered
        /\ s4.passed = r.passed /\ s4.cancelled = r.cancelled
        /\ s4.mutations = r.mutations /\ s4.fields = r.fields
    BY DEF Good, Listed, Fields
  <2> HIDE DEF s4
  <2> QED
    BY <1>1, <1>5, <2>1
<1> QED
  BY <1>2, <1>3, <1>4, <1>5

\* It goes on to the next once this one is settled, or it does not wait for it.
LEMMA GoodNext ==
  ASSUME NEW r, Good(r), r.pc \in {"next", "call"}, r.i \in DOMAIN r.list,
         NEW an, NEW pa, an \cup pa \subseteq ToSet(r.list), Met(r) \subseteq an \cup pa,
         Waits(r) => r.list[r.i] \in an \cup pa,
         NEW s, DOMAIN s = Fields, s.pc = "next", s.event = r.event, s.list = r.list, s.i = r.i + 1,
         s.heard = r.heard, s.answered = an, s.passed = pa,
         s.cancelled = r.cancelled, s.mutations = r.mutations, s.fields = r.fields
  PROVE  Good(s)
<1>0. Met(s) = an \cup pa /\ (Waits(s) <=> Waits(r))
  BY DEF Met, Waits
<1>1. Listed(s)
  BY DEF Good, Listed
<1>2. HeardSoFar(s)
  <2>0. r.i \in Nat /\ DOMAIN r.list = 1 .. Len(r.list) /\ DOMAIN r.heard = 1 .. Len(r.heard)
    BY LenProperties DEF Good, Listed, HeardSoFar
  <2> SUFFICES ASSUME NEW j \in DOMAIN r.heard
               PROVE  \E k \in DOMAIN r.list : r.heard[j] = r.list[k] /\ k < r.i + 1
    BY DEF Good, HeardSoFar
  <2>1. PICK k \in DOMAIN r.list : r.heard[j] = r.list[k] /\ (r.pc = "next" => k < r.i)
    BY DEF Good, HeardSoFar
  <2>2. CASE r.pc = "next"
    BY <2>0, <2>1, <2>2
  <2>3. CASE r.pc = "call"
    <3>1. Len(r.heard) \in Nat /\ j <= Len(r.heard) /\ r.heard[Len(r.heard)] = r.list[r.i]
      BY <2>0, <2>3, LenProperties DEF Good, HeardSoFar
    <3>2. CASE j = Len(r.heard)
      BY <2>0, <3>1, <3>2
    <3>3. CASE j # Len(r.heard)
      <4>1. j \in Nat /\ j < Len(r.heard) /\ Len(r.heard) \in DOMAIN r.heard
        BY <2>0, <3>1, <3>3
      <4>2. Rank(r.list[k]) < Rank(r.list[r.i])
        BY <2>1, <3>1, <4>1 DEF Good, HeardSoFar, Ascending
      <4>3. r.i < k => Rank(r.list[r.i]) < Rank(r.list[k])
        BY <2>1 DEF Good, Listed, Ascending
      <4>4. Rank(r.list[k]) \in Nat /\ Rank(r.list[r.i]) \in Nat /\ k \in Nat
        BY <2>0, RankNat, ElementOfSeq DEF Good, Listed
      <4> QED
        BY <2>0, <2>1, <4>2, <4>3, <4>4
    <3> QED
      BY <3>2, <3>3
  <2> QED
    BY <2>2, <2>3
<1>3. Settled(s)
  <2> SUFFICES ASSUME Waits(r), NEW k \in DOMAIN r.list, k < r.i + 1 PROVE r.list[k] \in an \cup pa
    BY <1>0 DEF Settled
  <2>1. k \in Nat /\ r.i \in Nat
    BY LenProperties DEF Good, Listed
  <2>2. k < r.i => r.list[k] \in Met(r)
    BY DEF Good, Settled
  <2> QED
    BY <2>1, <2>2
<1>4. Replays(s)
  BY DEF Good, Replays
<1> QED
  BY <1>1, <1>2, <1>3, <1>4 DEF Good
\* A plugin is passed over, or has answered, or has failed where nobody waits for it.
LEMMA GoodPassed ==
  ASSUME NEW r, Good(r), r.pc = "next", r.i \in DOMAIN r.list
  PROVE  Good(Next1([r EXCEPT !.passed = r.passed \cup {r.list[r.i]}]))
<1> DEFINE s == Next1([r EXCEPT !.passed = r.passed \cup {r.list[r.i]}])
<1>1. /\ DOMAIN s = Fields /\ s.pc = "next" /\ s.event = r.event /\ s.list = r.list /\ s.i = r.i + 1
      /\ s.heard = r.heard /\ s.answered = r.answered /\ s.passed = r.passed \cup {r.list[r.i]}
      /\ s.cancelled = r.cancelled /\ s.mutations = r.mutations /\ s.fields = r.fields
  BY DEF Good, Listed, Fields, Next1
<1>2. r.answered \cup (r.passed \cup {r.list[r.i]}) \subseteq ToSet(r.list)
  BY GoodAt DEF Good, Settled, Met
<1>3. Met(r) \subseteq r.answered \cup (r.passed \cup {r.list[r.i]})
  BY DEF Met
<1> HIDE DEF s
<1>4. Good(s)
  BY <1>1, <1>2, <1>3, GoodNext
<1> QED
  BY <1>4 DEF s

LEMMA GoodMoves ==
  ASSUME NEW r, Good(r), r.pc = "call", Waits(r) => r.list[r.i] \in Met(r)
  PROVE  Good(Next1(r))
<1> DEFINE s == Next1(r)
<1>1. /\ DOMAIN s = Fields /\ s.pc = "next" /\ s.event = r.event /\ s.list = r.list /\ s.i = r.i + 1
      /\ s.heard = r.heard /\ s.answered = r.answered /\ s.passed = r.passed
      /\ s.cancelled = r.cancelled /\ s.mutations = r.mutations /\ s.fields = r.fields
  BY DEF Good, Listed, Fields, Next1
<1>2. Met(r) \subseteq ToSet(r.list) /\ r.i \in DOMAIN r.list
  BY DEF Good, Settled, Listed
<1>3. Met(r) = r.answered \cup r.passed
  BY DEF Met
<1> HIDE DEF s
<1>4. Good(s)
  BY <1>1, <1>2, <1>3, GoodNext
<1> QED
  BY <1>4 DEF s

\* What comes next on the list ranks behind all who have heard the event.
LEMMA GoodCalled ==
  ASSUME NEW r, Good(r), r.pc = "next", r.i \in DOMAIN r.list
  PROVE  Good([r EXCEPT !.pc = "call", !.heard = Append(r.heard, r.list[r.i])])
<1> DEFINE y == Append(r.heard, r.list[r.i])
           s == [r EXCEPT !.pc = "call", !.heard = y]
<1>1. /\ DOMAIN s = Fields /\ s.pc = "call" /\ s.event = r.event /\ s.list = r.list /\ s.i = r.i
      /\ s.heard = y /\ s.answered = r.answered /\ s.passed = r.passed
      /\ s.cancelled = r.cancelled /\ s.mutations = r.mutations /\ s.fields = r.fields
  BY DEF Good, Listed, Fields
<1>2. /\ y \in Seq(Plugins) /\ Len(y) = Len(r.heard) + 1 /\ y[Len(y)] = r.list[r.i]
      /\ DOMAIN y = 1 .. Len(r.heard) + 1 /\ Len(r.heard) \in Nat
      /\ \A j \in 1 .. Len(r.heard) : y[j] = r.heard[j] /\ j \in DOMAIN r.heard
  BY GoodAt, AppendProperties, LenProperties DEF Good, HeardSoFar
<1> HIDE DEF s, y
<1>3. \A j \in 1 .. Len(r.heard) : Rank(y[j]) < Rank(r.list[r.i]) /\ \E k \in DOMAIN r.list : y[j] = r.list[k]
  <2> SUFFICES ASSUME NEW j \in 1 .. Len(r.heard)
               PROVE  Rank(y[j]) < Rank(r.list[r.i]) /\ \E k \in DOMAIN r.list : y[j] = r.list[k]
    OBVIOUS
  <2>1. PICK k \in DOMAIN r.list : r.heard[j] = r.list[k] /\ k < r.i
    BY <1>2 DEF Good, HeardSoFar
  <2>2. Rank(r.list[k]) < Rank(r.list[r.i])
    BY <2>1 DEF Good, Listed, Ascending
  <2> QED
    BY <1>2, <2>1, <2>2
<1>4. Listed(s) /\ Replays(s)
  BY <1>1 DEF Good, Listed, Replays
<1>5. HeardSoFar(s)
  <2>1. Ascending(y)
    <3> SUFFICES ASSUME NEW i \in DOMAIN y, NEW j \in DOMAIN y, i < j PROVE Rank(y[i]) < Rank(y[j])
      BY DEF Ascending
    <3>1. i \in 1 .. Len(r.heard)
      BY <1>2
    <3>2. CASE j = Len(y)
      BY <1>2, <1>3, <3>1, <3>2
    <3>3. CASE j # Len(y)
      <4>1. j \in 1 .. Len(r.heard)
        BY <1>2, <3>3
      <4> QED
        BY <1>2, <3>1, <4>1 DEF Good, HeardSoFar, Ascending
    <3> QED
      BY <3>2, <3>3
  <2>2. \A j \in DOMAIN y : \E k \in DOMAIN r.list : y[j] = r.list[k]
    <3> SUFFICES ASSUME NEW j \in DOMAIN y PROVE \E k \in DOMAIN r.list : y[j] = r.list[k]
      OBVIOUS
    <3>1. CASE j = Len(y)
      BY <1>2, <3>1
    <3>2. CASE j # Len(y)
      <4>1. j \in 1 .. Len(r.heard)
        BY <1>2, <3>2
      <4> QED
        BY <1>3, <4>1
    <3> QED
      BY <3>1, <3>2
  <2>3. y # <<>>
    BY <1>2
  <2> QED
    BY <1>1, <1>2, <2>1, <2>2, <2>3 DEF HeardSoFar
<1>6. Settled(s)
  BY <1>1 DEF Good, Settled, Met, Waits
<1> QED
  BY <1>4, <1>5, <1>6 DEF Good, s, y

\* Whoever is called is whose turn it is.
LEMMA GoodAnswered ==
  ASSUME NEW r, Good(r), r.pc = "call"
  PROVE  LET s == [r EXCEPT !.answered = r.answered \cup {r.list[r.i]}]
         IN  Good(s) /\ s.pc = "call" /\ s.list[s.i] \in Met(s) /\ s.event = r.event /\ s.vetoed = r.vetoed
<1> DEFINE s == [r EXCEPT !.answered = r.answered \cup {r.list[r.i]}]
<1>1. /\ DOMAIN s = Fields /\ s.pc = "call" /\ s.event = r.event /\ s.list = r.list /\ s.i = r.i
      /\ s.heard = r.heard /\ s.answered = r.answered \cup {r.list[r.i]} /\ s.passed = r.passed
      /\ s.cancelled = r.cancelled /\ s.mutations = r.mutations /\ s.fields = r.fields
      /\ s.vetoed = r.vetoed
  BY DEF Good, Listed, Fields
<1>2. r.list[r.i] \in ToSet(r.list)
  BY GoodAt DEF Good, Listed
<1> HIDE DEF s
<1>3. Listed(s) /\ HeardSoFar(s) /\ Replays(s)
  BY <1>1 DEF Good, Listed, HeardSoFar, Replays
<1>4. Settled(s)
  BY <1>1, <1>2 DEF Good, Settled, Met, Waits
<1>5. s.list[s.i] \in Met(s)
  BY <1>1 DEF Met
<1> QED
  BY <1>1, <1>3, <1>4, <1>5 DEF Good, s

LEMMA GoodWritten ==
  ASSUME NEW r, Good(r), r.pc = "call", r.list[r.i] \in Met(r), NEW p \in Plugins, NEW x
  PROVE  LET s == ApplyMutations(r, p, x)
         IN  Good(s) /\ s.pc = "call" /\ s.list[s.i] \in Met(s)
<1> DEFINE m == [path |-> x, by |-> p]
           s == Written(r, p, x)
<1>1. /\ DOMAIN s = Fields /\ s.pc = "call" /\ s.event = r.event /\ s.list = r.list /\ s.i = r.i
      /\ s.heard = r.heard /\ s.answered = r.answered /\ s.passed = r.passed
      /\ s.cancelled = r.cancelled /\ s.mutations = Append(r.mutations, m)
      /\ s.fields = [r.fields EXCEPT ![x] = p]
  BY DEF Good, Listed, Fields, Written
<1> HIDE DEF s
<1>2. ASSUME x \in Mutable PROVE Good(s) /\ s.pc = "call" /\ s.list[s.i] \in Met(s)
  <2>1. m \in [path : Mutable, by : Plugins] /\ m.path = x /\ m.by = p
    BY <1>2
  <2> HIDE DEF m
  <2>2. Replays(s)
    <3>1. s.mutations \in Seq([path : Mutable, by : Plugins])
      BY <1>1, <2>1, AppendProperties DEF Good, Replays
    <3>2. Replayed(s.mutations) = [Replayed(r.mutations) EXCEPT ![x] = p]
      <4>1. r.mutations \in Seq([path : Mutable, by : Plugins])
        BY DEF Good, Replays
      <4>2. Replayed(Append(r.mutations, m)) = Wrote(Replayed(r.mutations), m)
        BY <2>1, <4>1, ReplayAppends
      <4> QED
        BY <1>1, <2>1, <4>2 DEF Wrote
    <3> QED
      BY <1>1, <3>1, <3>2 DEF Good, Replays
  <2>3. Listed(s) /\ HeardSoFar(s) /\ Settled(s) /\ s.list[s.i] \in Met(s)
    BY <1>1 DEF Good, Listed, HeardSoFar, Settled, Met, Waits
  <2> QED
    BY <1>1, <2>2, <2>3 DEF Good
<1> QED
  BY <1>2 DEF ApplyMutations, s

LEMMA GoodJudged ==
  ASSUME NEW r, Good(r), r.pc = "call", r.list[r.i] \in Met(r), NEW v
  PROVE  Good(Judged(r, v))
<1>1. Good(Next1(r))
  BY GoodMoves
<1>2. Good([r EXCEPT !.pc = "done", !.cancelled = TRUE, !.vetoed = TRUE])
  BY GoodEnds
<1> QED
  BY <1>1, <1>2 DEF Judged

LEMMA GoodEmitted ==
  ASSUME RegistryInv, NEW e \in Emissions, em[e] = NotEmitted, NEW event \in Events[e]
  PROVE  Good([em[e] EXCEPT !.event = event, !.list = Subscribers(event), !.i = 1, !.pc = "next"])
<1> DEFINE l == Subscribers(event)
           s == [em[e] EXCEPT !.event = event, !.list = l, !.i = 1, !.pc = "next"]
<1>1. /\ DOMAIN s = Fields /\ s.pc = "next" /\ s.event = event /\ s.list = l /\ s.i = 1
      /\ s.heard = <<>> /\ s.answered = {} /\ s.passed = {}
      /\ s.cancelled = FALSE /\ s.mutations = <<>> /\ s.fields = Unwritten
  BY DEF NotEmitted, Fields
<1>2. /\ l \in Seq(Plugins) /\ Ascending(l) /\ event.failClosed \in BOOLEAN
      /\ event.kind # "command" => event.emitter \notin ToSet(l)
  <2>1. event \in [kind : {"native", "custom", "observational", "command"},
                   failClosed : BOOLEAN, cancellable : BOOLEAN,
                   emitter : Plugins \cup {None}, to : SUBSET Plugins]
    BY EventsAssumption
  <2> DEFINE S == IF event.kind = "command" THEN {event.emitter} \cap Instances
                  ELSE (subscribed \cap event.to) \ {event.emitter}
  <2>2. Instances \subseteq Plugins
    BY OrderAssumption, ElementOfSeq, LenProperties DEF Instances, First, RegistryInv, RegistryTyped
  <2>3. S \in SUBSET Plugins /\ (event.kind # "command" => event.emitter \notin S)
    BY <2>1, <2>2
  <2>4. l = Ranked(S)
    BY DEF Subscribers
  <2> HIDE DEF S, l
  <2> QED
    BY <2>1, <2>3, <2>4, RankedIs
<1> HIDE DEF s, l
<1>3. Listed(s)
  BY <1>1, <1>2 DEF Listed
<1>4. HeardSoFar(s)
  <2>1. <<>> \in Seq(Plugins) /\ Ascending(<<>>)
    BY EmptySeq DEF Ascending
  <2> QED
    BY <1>1, <2>1 DEF HeardSoFar
<1>5. Settled(s)
  BY <1>1, <1>2, LenProperties DEF Settled, Met
<1>6. Replays(s)
  BY <1>1, ReplayEmpty, EmptySeq DEF Replays
<1> QED
  BY <1>3, <1>4, <1>5, <1>6 DEF Good, s, l

---------------------------------------------------------------------------
(* The steps of the bus. *)

AllGood == DOMAIN em = Emissions /\ \A e \in Emissions : Good(em[e])

LEMMA OneGood ==
  ASSUME AllGood, NEW e \in Emissions, NEW r, Good(r), em' = [em EXCEPT ![e] = r]
  PROVE  AllGood'
BY DEF AllGood

LEMMA AtTurn ==
  ASSUME AllGood, NEW e \in Emissions
  PROVE  /\ Good(em[e]) /\ (em[e].pc = "new" => em[e] = NotEmitted)
         /\ Turn(e) = em[e].list[em[e].i] /\ (More(e) <=> em[e].i <= Len(em[e].list))
         /\ em[e].pc = "next" /\ More(e) => em[e].i \in DOMAIN em[e].list
         /\ em[e].pc = "call" => Called(e) = em[e].list[em[e].i] /\ em[e].i \in DOMAIN em[e].list
<1>1. Good(em[e])
  BY DEF AllGood
<1>2. em[e].i \in Nat /\ DOMAIN em[e].list = 1 .. Len(em[e].list) /\ Len(em[e].list) \in Nat
  BY <1>1, LenProperties DEF Good, Listed
<1> QED
  BY <1>1, <1>2 DEF Good, Listed, HeardSoFar, Turn, List, More, Called

LEMMA CutGood ==
  ASSUME AllGood, NEW e \in Emissions, em[e].pc # "new", NEW hs, NEW i \in Nat, i # 0,
         CutShort(e, hs, i)
  PROVE  AllGood'
<1> DEFINE r == em[e]
           ps == {p \in Behind(e, i) : hs[p].disabled}
           c == r.event.failClosed
<1>1. em' = [em EXCEPT ![e] = [r EXCEPT !.pc = "done", !.cancelled = c, !.passed = r.passed \cup ps]]
  BY DEF CutShort, Denied
<1>2. Good(r) /\ c \in BOOLEAN /\ Len(r.list) \in Nat /\ DOMAIN r.list = 1 .. Len(r.list)
  BY LenProperties DEF AllGood, Good, Listed
<1>3. ps \subseteq ToSet(r.list)
  BY <1>2 DEF Behind, List, ToSet
<1>4. Waits(r) => c = TRUE
  BY <1>2 DEF Waits
<1> HIDE DEF r, ps, c
<1>5. Good([r EXCEPT !.pc = "done", !.cancelled = c, !.passed = r.passed \cup ps])
  BY <1>2, <1>3, <1>4, GoodEnds DEF r
<1> QED
  BY <1>1, <1>5, OneGood
LEMMA GoodStep == AllGood /\ RegistryInv /\ [Next]_vars => AllGood'
<1> SUFFICES ASSUME AllGood, RegistryInv, [Next]_vars PROVE AllGood'
  OBVIOUS
<1>1. ASSUME NEW e \in Emissions, Emit(e) PROVE AllGood'
  <2>1. PICK event \in Events[e] :
          em' = [em EXCEPT ![e].event = event, ![e].list = Subscribers(event), ![e].i = 1, ![e].pc = "next"]
    BY <1>1 DEF Emit
  <2> DEFINE r == [em[e] EXCEPT !.event = event, !.list = Subscribers(event), !.i = 1, !.pc = "next"]
  <2>2. em' = [em EXCEPT ![e] = r]
    BY <2>1
  <2>3. Good(r)
    BY <1>1, AtTurn, GoodEmitted DEF Emit
  <2> HIDE DEF r
  <2> QED
    BY <2>2, <2>3, OneGood
<1>2. ASSUME NEW e \in Emissions, Expire(e) PROVE AllGood'
  <2>1. em' = [em EXCEPT ![e] = [em[e] EXCEPT !.ended = TRUE]] /\ em[e].pc # "new"
    BY <1>2 DEF Expire
  <2>2. Good([em[e] EXCEPT !.ended = TRUE])
    BY <2>1, AtTurn, GoodUnmoved
  <2> QED
    BY <2>1, <2>2, OneGood
<1>3. ASSUME NEW e \in Emissions, AllRan(e) PROVE AllGood'
  <2>1. em' = [em EXCEPT ![e] = [em[e] EXCEPT !.pc = "done"]] /\ em[e].pc = "next" /\ ~More(e)
    BY <1>3 DEF AllRan
  <2>2. Good(em[e]) /\ em[e].i > Len(em[e].list)
    <3>1. em[e].i \in Nat /\ Len(em[e].list) \in Nat
      BY AtTurn, LenProperties DEF Good, Listed
    <3> QED
      BY <2>1, <3>1, AtTurn
  <2>3. Good([em[e] EXCEPT !.pc = "done"])
    BY <2>1, <2>2, GoodEnds
  <2> QED
    BY <2>1, <2>3, OneGood
<1>4. ASSUME NEW e \in Emissions, PassOver(e) PROVE AllGood'
  <2> DEFINE r == Next1([em[e] EXCEPT !.passed = em[e].passed \cup {em[e].list[em[e].i]}])
  <2>1. Turn(e) = em[e].list[em[e].i] /\ em[e].i \in DOMAIN em[e].list /\ em[e].pc = "next" /\ Good(em[e])
    BY <1>4, AtTurn DEF PassOver
  <2>2. em' = [em EXCEPT ![e] = r]
    BY <1>4, <2>1 DEF PassOver
  <2>3. Good(r)
    BY <2>1, GoodPassed
  <2> HIDE DEF r
  <2> QED
    BY <2>2, <2>3, OneGood
<1>5. ASSUME NEW e \in Emissions, Starve(e) \/ DeadlineExceeded(e) PROVE AllGood'
  <2>1. em[e].pc # "new"
    BY <1>5 DEF Starve, DeadlineExceeded
  <2>2. em[e].i \in Nat
    BY AtTurn DEF Good, Listed
  <2>3. \E hs : \E i \in Nat : i # 0 /\ CutShort(e, hs, i)
    <3>1. CASE Starve(e)
      <4>1. em[e].i # 0
        BY <3>1, AtTurn DEF Starve, Good, Listed
      <4> QED
        BY <3>1, <4>1, <2>2 DEF Starve
    <3>2. CASE DeadlineExceeded(e)
      <4>1. \E hs : CutShort(e, hs, em[e].i + 1)
        BY <3>2 DEF DeadlineExceeded
      <4> QED
        BY <4>1, <2>2
    <3> QED
      BY <1>5, <3>1, <3>2
  <2> QED
    BY <2>1, <2>3, CutGood
<1>6. ASSUME NEW e \in Emissions, Call(e) PROVE AllGood'
  <2> DEFINE r == [em[e] EXCEPT !.pc = "call", !.heard = Append(em[e].heard, em[e].list[em[e].i])]
  <2>1. Turn(e) = em[e].list[em[e].i] /\ em[e].i \in DOMAIN em[e].list /\ em[e].pc = "next" /\ Good(em[e])
    BY <1>6, AtTurn DEF Call
  <2>2. em' = [em EXCEPT ![e] = r]
    BY <1>6, <2>1 DEF Call
  <2>3. Good(r)
    BY <2>1, GoodCalled
  <2> HIDE DEF r
  <2> QED
    BY <2>2, <2>3, OneGood
<1>7. ASSUME NEW e \in Emissions, Answer(e) PROVE AllGood'
  <2> DEFINE p == em[e].list[em[e].i]
             r == [em[e] EXCEPT !.answered = em[e].answered \cup {p}]
  <2>1. Good(em[e]) /\ em[e].pc = "call" /\ Called(e) = p /\ em[e].i \in DOMAIN em[e].list
    BY <1>7, AtTurn DEF Answer
  <2>2. Good(r) /\ r.pc = "call" /\ r.list[r.i] \in Met(r)
    BY <2>1, GoodAnswered
  <2>3. PICK v \in Verdicts : \/ em' = [em EXCEPT ![e] = Next1(r)]
                              \/ em' = [em EXCEPT ![e] = Judged(ApplyMutations(r, p, v.path), v)]
    BY <1>7, <2>1 DEF Answer, Counts
  <2>4. p \in Plugins
    BY <2>1, GoodAt
  <2> HIDE DEF r, p
  <2>5. Good(Next1(r)) /\ Good(Judged(ApplyMutations(r, p, v.path), v))
    BY <2>2, <2>4, GoodMoves, GoodWritten, GoodJudged
  <2> QED
    BY <2>3, <2>5, OneGood
<1>8. ASSUME NEW e \in Emissions, Fails(e) PROVE AllGood'
  <2> DEFINE r == [em[e] EXCEPT !.pc = "done", !.cancelled = TRUE]
  <2>1. Good(em[e]) /\ em[e].pc = "call"
    BY <1>8, AtTurn DEF Fails
  <2>2. CASE Waits(em[e])
    <3>1. em' = [em EXCEPT ![e] = r]
      BY <1>8, <2>2 DEF Fails, Waits, Asked
    <3>2. Good(r)
      BY <2>1, GoodEnds
    <3> HIDE DEF r
    <3> QED
      BY <3>1, <3>2, OneGood
  <2>3. CASE ~Waits(em[e])
    <3>1. em' = [em EXCEPT ![e] = Next1(em[e])]
      BY <1>8, <2>3 DEF Fails, Waits, Asked
    <3>2. Good(Next1(em[e]))
      BY <2>1, <2>3, GoodMoves
    <3> QED
      BY <3>1, <3>2, OneGood
  <2> QED
    BY <2>2, <2>3
<1>9. CASE UNCHANGED em
  BY <1>9 DEF AllGood
<1>10. (RegistryStep \/ Tick \/ UNCHANGED vars) => UNCHANGED em
  BY DEF RegistryStep, Tick, vars, busVars
<1> QED
  BY <1>1, <1>2, <1>3, <1>4, <1>5, <1>6, <1>7, <1>8, <1>9, <1>10 DEF Next, BusStep, PluginStep

LEMMA GoodInit == Init => AllGood
<1> DEFINE r == NotEmitted
<1>1. /\ DOMAIN r = Fields /\ r.pc = "new" /\ r.event = NoEvent /\ r.list = <<>> /\ r.i = 0
      /\ r.heard = <<>> /\ r.answered = {} /\ r.passed = {} /\ r.mutations = <<>>
      /\ r.fields = Unwritten
  BY DEF NotEmitted, Fields
<1>2. NoEvent.failClosed \in BOOLEAN /\ NoEvent.failClosed = FALSE /\ NoEvent.kind = "none" /\ NoEvent.emitter = None
  BY DEF NoEvent
<1>3. <<>> \in Seq(Plugins) /\ Ascending(<<>>) /\ ToSet(<<>>) = {}
  BY EmptySeq DEF Ascending, ToSet
<1>4. r = NotEmitted
  OBVIOUS
<1> HIDE DEF r
<1>5. Listed(r)
  <2>1. r.list \in Seq(Plugins) /\ Ascending(r.list) /\ ToSet(r.list) = {}
    BY <1>1, <1>3
  <2>2. r.event.failClosed \in BOOLEAN
    BY <1>1, <1>2
  <2>3. r.i \in Nat /\ r.pc \notin {"call", "next"}
    BY <1>1
  <2> QED
    BY <1>1, <1>4, <2>1, <2>2, <2>3 DEF Listed
<1>6. HeardSoFar(r) /\ Settled(r)
  BY <1>1, <1>2, <1>3 DEF HeardSoFar, Settled, Met, Waits
<1>7. Replays(r)
  BY <1>1, ReplayEmpty, EmptySeq DEF Replays
<1> QED
  BY <1>4, <1>5, <1>6, <1>7 DEF Init, AllGood, Good

LEMMA AlwaysGood == Spec => []AllGood
<1>1. RegistryInit => RegistryInv
  BY OrderAssumption, LenProperties, AllOfThem
  DEF RegistryInit, RegistryInv, RegistryTyped, Carried, InStep, Commanded, Loading, Before, First
<1>2. RegistrySpec => []RegistryInv
  BY <1>1, RegistryStepKeeps, PTL DEF RegistrySpec
<1> QED
  BY <1>2, BusUsesRegistry, GoodInit, GoodStep, PTL DEF Spec

\* A fail-closed event goes through only when everyone who was to hear it has answered
\* or was switched off at its turn, whenever the shared deadline passes and whoever fails.
THEOREM BusFailsClosed == Spec => []AllowedMeansAnswered
<1>1. AllGood => AllowedMeansAnswered
  <2> SUFFICES ASSUME AllGood, NEW e \in Emissions, Done(e), Asked(e), em[e].event.failClosed,
                      ~em[e].cancelled
               PROVE  ToSet(em[e].list) = em[e].answered \cup em[e].passed
    BY DEF AllowedMeansAnswered
  <2> DEFINE r == em[e]
  <2>1. Settled(r) /\ Waits(r) /\ r.pc = "done"
    BY DEF AllGood, Good, Waits, Asked, Done
  <2>2. \A k \in DOMAIN r.list : r.list[k] \in Met(r)
    BY <2>1 DEF Settled
  <2>3. Met(r) \subseteq ToSet(r.list)
    BY <2>1 DEF Settled
  <2> QED
    BY <2>2, <2>3 DEF ToSet, Met
<1> QED
  BY <1>1, AlwaysGood, PTL

\* Nobody hears an event twice, out of order, or as the plugin that emitted it, while
\* other plugins are attached and detached.
THEOREM BusHeardInOrder == Spec => []HeardOnceInOrder
<1>1. AllGood => HeardOnceInOrder
  <2> SUFFICES ASSUME AllGood, NEW e \in Emissions
               PROVE  /\ Ascending(em[e].heard)
                      /\ em[e].event.kind # "command" => em[e].event.emitter \notin ToSet(em[e].heard)
    BY DEF HeardOnceInOrder
  <2>1. Listed(em[e]) /\ HeardSoFar(em[e])
    BY DEF AllGood, Good
  <2>2. ToSet(em[e].heard) \subseteq ToSet(em[e].list)
    BY <2>1 DEF HeardSoFar, ToSet
  <2> QED
    BY <2>1, <2>2 DEF HeardSoFar, Listed
<1> QED
  BY <1>1, AlwaysGood, PTL

\* The mutations a dispatch returns reproduce the object it got to, when they are
\* replayed one after the other, whatever the plugins wrote and were refused.
THEOREM BusReplays == Spec => []ReplayReproduces
<1>1. AllGood => ReplayReproduces
  BY DEF AllGood, Good, Replays, ReplayReproduces
<1> QED
  BY <1>1, AlwaysGood, PTL
=============================================================================
