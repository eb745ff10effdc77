------------------------------ MODULE PluginBus ------------------------------
(***************************************************************************)
(* core/plugin: the Bus that asks the plugins, one after the other and     *)
(* under one shared deadline, what they say to an event, the health it     *)
(* keeps of each, and the queue that carries what they ask for.            *)
(*                                                                         *)
(* Every plugin subscribes to every event.  Emissions run concurrently:    *)
(* native events on the tick and on session goroutines, plugin-defined     *)
(* ones on the goroutines of the runtimes, observational ones each on a    *)
(* goroutine of its own.  How long a budget is does not matter here, only  *)
(* what happens before it ends and what after.  A verdict asks for one     *)
(* mutation and one effect at most.                                        *)
(***************************************************************************)
EXTENDS MutationQueue, PluginRegistry

CONSTANTS
  Emissions,
  Events,      \* [Emissions -> the events it may be of]
  Verdicts,    \* what a plugin may answer: cancelled, a mutation's path, an effect
  Paths, Mutable,
  MinSamples,  \* minimumHealthSamples
  None

ASSUME EventsAssumption ==
  /\ Events \in [Emissions -> SUBSET [kind : {"native", "custom", "observational", "command"},
                                      failClosed : BOOLEAN, cancellable : BOOLEAN,
                                      emitter : Plugins \cup {None}, to : SUBSET Plugins]]
  /\ Verdicts \subseteq [cancelled : BOOLEAN, path : Paths \cup {None},
                    effect : Calls \cup {None}]
  /\ Mutable \subseteq Paths /\ MinSamples \in Nat /\ None \notin Plugins \cup Paths \cup Calls

VARIABLES
  em,       \* [Emissions -> the call of Emit... and what it has seen]
  health    \* [Plugins -> healthTracker]

busVars == <<registryVars, em, health>>
vars == <<busVars, queueVars>>

NoEvent == [kind |-> "none", failClosed |-> FALSE, cancellable |-> FALSE,
            emitter |-> None, to |-> {}]
Unwritten == [x \in Paths |-> None]

\* answered, passed: who answered, and who was passed over while disabled.
NotEmitted == [pc |-> "new", event |-> NoEvent, list |-> <<>>, i |-> 0, ended |-> FALSE,
               fields |-> Unwritten, mutations |-> <<>>, cancelled |-> FALSE,
               heard |-> <<>>, answered |-> {}, passed |-> {}, vetoed |-> FALSE]

Healthy == [samples |-> <<>>, failures |-> 0, starved |-> 0, disabled |-> FALSE]

Init ==
  /\ QueueInit /\ RegistryInit
  /\ em = [e \in Emissions |-> NotEmitted]
  /\ health = [p \in Plugins |-> Healthy]

---------------------------------------------------------------------------
(* The health of a plugin. *)

\* The k oldest samples have left the window.
Prune(h, k) ==
  [h EXCEPT !.samples = SubSeq(@, k + 1, Len(@)),
            !.failures = @ - Cardinality({j \in 1 .. k : h.samples[j]})]

Unhealthy(h) == Len(h.samples) >= MinSamples /\ 10 * h.failures > Len(h.samples)

WithSample(h, failed) ==
  LET n == [h EXCEPT !.samples = Append(@, failed), !.failures = @ + (IF failed THEN 1 ELSE 0)]
  IN  [n EXCEPT !.disabled = @ \/ Unhealthy(n)]

Record(h, failed, k) == WithSample(Prune(h, k), failed)

---------------------------------------------------------------------------
(* One emission. *)

\* Sessions are not waited for at the end; a plugin may emit as soon as it runs, and the
\* console knows a command from before the plugin runs.
MayHappen(event) ==
  \/ event.kind \in {"native", "observational"} /\ boot.opened
  \/ event.kind = "custom" /\ event.emitter \in held
  \/ event.kind = "command" /\ event.emitter \in commands

Ascending(s) == \A i, j \in DOMAIN s : i < j => Rank(s[i]) < Rank(s[j])
Ranked(S) == CHOOSE s \in [1 .. Cardinality(S) -> S] : Ascending(s)

\* Bus.subs, of any event: Attach sorts, Detach keeps the order.
subs == Ranked(subscribed)

\* A copy of the list at the time of the emission, without the emitter; what a restarted
\* runtime has missed is told to its plugins alone; a command is for its own plugin, if
\* that is loaded.
Subscribers(event) ==
  Ranked(IF event.kind = "command" THEN {event.emitter} \cap Instances
         ELSE (subscribed \cap event.to) \ {event.emitter})

Emit(e) ==
  /\ em[e].pc = "new"
  /\ \E event \in Events[e] :
       /\ MayHappen(event)
       /\ em' = [em EXCEPT ![e].event = event, ![e].list = Subscribers(event), ![e].i = 1,
                           ![e].pc = "next"]
  /\ UNCHANGED <<registryVars, health, queueVars>>

\* What sorting and compacting the list in place would do to a reader without a copy.
Aliased(e) ==
  [i \in DOMAIN em[e].list |-> IF i \in DOMAIN subs THEN subs[i] ELSE em[e].list[i]]
List(e) == em[e].list

Turn(e) == List(e)[em[e].i]
More(e) == em[e].i <= Len(em[e].list)
Next1(r) == [r EXCEPT !.i = @ + 1, !.pc = "next"]

\* A plugin that is switched off still has its commands.
Off(e) == health[Turn(e)].disabled /\ em[e].event.kind # "command"

Untimed(e) == FALSE
Asked(e) == em[e].event.kind \in {"native", "custom"}
Timed(e) == Asked(e)

\* The shared deadline passes.
Expire(e) ==
  /\ em[e].pc \in {"next", "call"} /\ Timed(e) /\ ~em[e].ended
  /\ em' = [em EXCEPT ![e].ended = TRUE]
  /\ UNCHANGED <<registryVars, health, queueVars>>

AllRan(e) ==
  /\ em[e].pc = "next" /\ ~More(e)
  /\ em' = [em EXCEPT ![e].pc = "done"]
  /\ UNCHANGED <<registryVars, health, queueVars>>

PassOver(e) ==
  /\ em[e].pc = "next" /\ More(e) /\ Off(e)
  /\ em' = [em EXCEPT ![e] = Next1([em[e] EXCEPT !.passed = @ \cup {Turn(e)}])]
  /\ UNCHANGED <<registryVars, health, queueVars>>

Behind(e, i) == {List(e)[j] : j \in i .. Len(em[e].list)}

RecordStarved(hs, ps) ==
  [p \in Plugins |-> IF p \in ps /\ ~hs[p].disabled THEN [hs[p] EXCEPT !.starved = @ + 1] ELSE hs[p]]

\* failureAllows, starvedResult: what an event that was not put to everyone becomes.
LetsThrough(e) == FALSE
Denied(e) == em[e].event.failClosed

CutShort(e, hs, i) ==
  /\ health' = RecordStarved(hs, Behind(e, i))
  /\ em' = [em EXCEPT ![e].pc = "done", ![e].cancelled = Denied(e),
                      ![e].passed = @ \cup {p \in Behind(e, i) : hs[p].disabled}]

Starve(e) ==
  /\ em[e].pc = "next" /\ More(e) /\ ~Off(e) /\ em[e].ended
  /\ CutShort(e, health, em[e].i)
  /\ UNCHANGED <<registryVars, queueVars>>

Call(e) ==
  /\ em[e].pc = "next" /\ More(e) /\ ~Off(e) /\ ~em[e].ended
  /\ em' = [em EXCEPT ![e].pc = "call", ![e].heard = Append(@, Turn(e))]
  /\ UNCHANGED <<registryVars, health, queueVars>>

Called(e) == em[e].heard[Len(em[e].heard)]

\* applyMutations: a refused write is skipped.
Written(r, p, x) == [r EXCEPT !.fields[x] = p, !.mutations = Append(@, [path |-> x, by |-> p])]
KeepsRefused(r, p, x) ==
  IF x = None THEN r
  ELSE IF x \in Mutable THEN Written(r, p, x)
  ELSE [r EXCEPT !.mutations = Append(@, [path |-> x, by |-> p])]
ApplyMutations(r, p, x) == IF x \in Mutable THEN Written(r, p, x) ELSE r

Judged(r, v) ==
  IF v.cancelled /\ r.event.cancellable
    THEN [r EXCEPT !.pc = "done", !.cancelled = TRUE, !.vetoed = TRUE]
    ELSE Next1(r)

\* budgetEnded asks the error, never the context: an answer that came counts.
AsksContext(e) == ~em[e].ended
Counts(e) == TRUE

Records(e, failed) ==
  IF em[e].event.kind = "command" THEN UNCHANGED health
  ELSE \E k \in 0 .. Len(health[Called(e)].samples) :
         health' = [health EXCEPT ![Called(e)] = Record(@, failed, k)]

Answer(e) ==
  /\ em[e].pc = "call"
  /\ LET p == Called(e)
         r == [em[e] EXCEPT !.answered = @ \cup {p}]
     IN \E v \in Verdicts :
          /\ Records(e, FALSE)
          /\ em' = [em EXCEPT ![e] =
               IF ~Asked(e) THEN Next1(r)
               ELSE IF Counts(e) THEN Judged(ApplyMutations(r, p, v.path), v)
               ELSE Next1([r EXCEPT !.vetoed = v.cancelled /\ r.event.cancellable])]
          /\ IF v.effect = None THEN UNCHANGED queueVars ELSE Enqueue(v.effect)
  /\ UNCHANGED registryVars

\* Dispatch came back with nothing because the deadline passed during it.
DeadlineExceeded(e) ==
  /\ em[e].pc = "call" /\ em[e].ended
  /\ LET p == Called(e)
     IN \E k \in 0 .. Len(health[p].samples) :
          CutShort(e, [health EXCEPT ![p] = Record(@, TRUE, k)], em[e].i + 1)
  /\ UNCHANGED <<registryVars, queueVars>>

\* Any other error: a fail-closed event stops here, another goes on.
Fails(e) ==
  /\ em[e].pc = "call"
  /\ Records(e, TRUE)
  /\ em' = [em EXCEPT ![e] = IF em[e].event.failClosed /\ Asked(e)
                               THEN [@ EXCEPT !.pc = "done", !.cancelled = TRUE]
                               ELSE Next1(@)]
  /\ UNCHANGED <<registryVars, queueVars>>

BusStep(e) == AllRan(e) \/ PassOver(e) \/ Starve(e) \/ Call(e) \/ DeadlineExceeded(e)
PluginStep(e) == Answer(e) \/ Fails(e)

\* The tick runs between the two; what is enqueued later waits for ever.
Tick == boot.at = "up" /\ Drain /\ UNCHANGED busVars

\* The tick has ended before plugins are unloaded.
RegistryStep ==
  /\ boot.at = "up" => batch = <<>>
  /\ RegistryNext /\ UNCHANGED <<em, health, queueVars>>

Next ==
  \/ RegistryStep \/ Tick
  \/ \E e \in Emissions : Emit(e) \/ Expire(e) \/ BusStep(e) \/ PluginStep(e)

Spec == Init /\ [][Next]_vars

\* Timers fire, a dispatch returns when its context ends; a plugin need never answer.
FairSpec == Spec /\ \A e \in Emissions : WF_vars(Expire(e)) /\ WF_vars(BusStep(e))

---------------------------------------------------------------------------
(* Properties. *)

Done(e) == em[e].pc = "done"
TypeOK ==
  /\ calls \in Seq(Calls) /\ batch \in Seq(Calls) /\ closed \in BOOLEAN
  /\ subscribed \subseteq Plugins /\ commands \subseteq Plugins /\ held \subseteq Plugins
  /\ loaded \in 0 .. Len(LoadOrder) /\ started \in 0 .. Len(RuntimeOrder)
  /\ \A e \in Emissions :
       /\ em[e].pc \in {"new", "next", "call", "done"} /\ em[e].i \in 0 .. Len(em[e].list) + 1
       /\ em[e].fields \in [Paths -> Plugins \cup {None}]
       /\ em[e].pc = "call" => Called(e) = Turn(e)
  /\ \A p \in Plugins :
       /\ health[p].samples \in Seq(BOOLEAN) /\ health[p].starved \in 0 .. Cardinality(Emissions)
       /\ health[p].disabled \in BOOLEAN

\* emit.go:136, dispatch.go failureAllows: a fail-closed event goes through only when
\* everyone who was to hear it has answered.
AllowedMeansAnswered ==
  \A e \in Emissions :
    Done(e) /\ Asked(e) /\ em[e].event.failClosed /\ ~em[e].cancelled =>
      ToSet(em[e].list) = em[e].answered \cup em[e].passed

\* dispatch.go:67: a cancelling verdict that arrives counts, even as the deadline fires.
VetoHolds == \A e \in Emissions : Done(e) /\ em[e].vetoed => em[e].cancelled

\* registry.go, emit.go:104: no plugin hears an event twice or before one that ranks
\* ahead of it, and none hears its own, while others come and go.
HeardOnceInOrder ==
  \A e \in Emissions :
    /\ Ascending(em[e].heard)
    /\ em[e].event.kind # "command" => em[e].event.emitter \notin ToSet(em[e].heard)

Replayed(ms) ==
  LET after[n \in 0 .. Len(ms)] ==
        IF n = 0 THEN Unwritten ELSE [after[n - 1] EXCEPT ![ms[n].path] = ms[n].by]
  IN  after[Len(ms)]

\* emit.go:22: replaying the mutations into the emitter's own object reproduces the
\* state the dispatch got to.
ReplayReproduces == \A e \in Emissions : em[e].fields = Replayed(em[e].mutations)

\* One shared budget bounds every event the host waits for, whatever the plugins do.
EmissionsReturn == \A e \in Emissions : (em[e].pc # "new" /\ Asked(e)) ~> Done(e)
=============================================================================
