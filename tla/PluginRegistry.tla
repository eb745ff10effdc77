---------------------------- MODULE PluginRegistry ----------------------------
(***************************************************************************)
(* core/plugin: the Registry, which starts the runtimes and loads every    *)
(* plugin before the server opens, takes all of it back when one of them   *)
(* fails, and unloads in reverse at the end; with the runtimes as far as   *)
(* it sees them: runtime/goplugin has a process per plugin, runtime/jvm    *)
(* one for all of its plugins.                                             *)
(*                                                                         *)
(* One goroutine loads and unloads; events and the console's commands come *)
(* in between.  The console reads before the plugins are loaded and is not *)
(* waited for at the end.  A process that dies by itself is JvmRuntime's.  *)
(***************************************************************************)
EXTENDS Naturals, FiniteSets, SequencesExt

CONSTANTS
  Order,        \* the plugins, by priority and then by id
  LoadOrder,    \* the plugins, by id
  RuntimeOrder, \* the runtimes their manifests name, by name
  RuntimeOf,    \* [plugins -> runtimes]
  Shared,       \* the runtimes that keep their plugins in one process
  Commanding    \* the plugins whose bundles have commands

Plugins == ToSet(Order)
Rank(p) == CHOOSE i \in DOMAIN Order : Order[i] = p

ASSUME OrderAssumption ==
  /\ Order \in Seq(Plugins) /\ IsInjective(Order) /\ LoadOrder \in Seq(Plugins) /\ IsInjective(LoadOrder)
  /\ ToSet(LoadOrder) = Plugins /\ RuntimeOrder \in Seq(ToSet(RuntimeOrder))
  /\ RuntimeOf \in [Plugins -> ToSet(RuntimeOrder)] /\ Commanding \subseteq Plugins

VARIABLES
  subscribed, \* whose subscriptions Bus.subs has
  commands,   \* whose commands dispatch.Registry has
  loaded,     \* how many of LoadOrder are in loadOrder and instances
  started,    \* how many of RuntimeOrder are in Registry.started
  held,       \* the plugins that some process has loaded
  boot        \* LoadAll or Stop: where it is, how many are left to unload, whether players came in

registryVars == <<subscribed, commands, loaded, started, held, boot>>

First(n) == {LoadOrder[i] : i \in 1 .. n}
Instances == First(loaded)

RegistryInit ==
  /\ subscribed = {} /\ commands = {} /\ held = {} /\ loaded = 0 /\ started = 0
  /\ boot = [at |-> "scanned", left |-> 0, opened |-> FALSE]

Goes(from, to) == boot.at = from /\ boot' = [boot EXCEPT !.at = to]

---------------------------------------------------------------------------
(* LoadAll. *)

\* Commands first: a conflict costs no process, and revokes those that came before it.
RegisterCommands ==
  /\ \/ Goes("scanned", "starting") /\ commands' = Commanding
     \/ Goes("scanned", "down") /\ UNCHANGED commands
  /\ UNCHANGED <<subscribed, loaded, started, held>>

AllStarted == started = Len(RuntimeOrder)

StartRuntime ==
  /\ \/ boot.at = "starting" /\ ~AllStarted /\ started' = started + 1 /\ UNCHANGED boot
     \/ ~AllStarted /\ Goes("starting", "unstarting") /\ UNCHANGED started
     \/ AllStarted /\ Goes("starting", "loading") /\ UNCHANGED started
  /\ UNCHANGED <<subscribed, commands, loaded, held>>

AllLoaded == loaded = Len(LoadOrder)
NextPlugin == LoadOrder[loaded + 1]
IfShared(p, s) == IF RuntimeOf[p] \in Shared THEN {s} ELSE {}

\* A refused load ends the plugin's own process; a shared one may have the plugin still.
LoadPlugin ==
  /\ ~AllLoaded
  /\ \/ Goes("loading", "attaching") /\ held' = held \cup {NextPlugin}
     \/ Goes("loading", "revoking") /\ held' \in {held} \cup IfShared(NextPlugin, held \cup {NextPlugin})
  /\ UNCHANGED <<subscribed, commands, loaded, started>>

\* An instance of another id, without the commands it declares, or that subscribes twice
\* is not attached.
AttachPlugin ==
  /\ \/ Goes("attaching", "loading") /\ subscribed' = subscribed \cup {NextPlugin} /\ loaded' = loaded + 1
     \/ Goes("attaching", "discarding") /\ UNCHANGED <<subscribed, loaded>>
  /\ UNCHANGED <<commands, started, held>>

\* Warming changes nothing; players come in when every runtime has been told to be ready.
ReadyRuntimes ==
  /\ AllLoaded
  /\ \/ boot.at = "loading" /\ boot' = [boot EXCEPT !.at = "up", !.opened = TRUE]
     \/ Goes("loading", "revoking")
  /\ UNCHANGED <<subscribed, commands, loaded, started, held>>

---------------------------------------------------------------------------
(* What is taken back, after a failure or at the end. *)

\* Instance.Unload: a plugin's own process is stopped; a shared one is sent a message.
Unload(p) == held' \in {held \ {p}} \cup IfShared(p, held)

Discard ==
  /\ Goes("discarding", "revoking") /\ Unload(NextPlugin)
  /\ UNCHANGED <<subscribed, commands, loaded, started>>

OfTheLoaded == Commanding \cap Instances
ToRevoke == Commanding

RevokeBundles ==
  /\ Goes("revoking", "stopping") /\ commands' = commands \ ToRevoke
  /\ UNCHANGED <<subscribed, loaded, started, held>>

BeginStop ==
  /\ boot.at \in {"stopping", "up"}
  /\ boot' = [boot EXCEPT !.at = "detaching", !.left = loaded] /\ loaded' = 0
  /\ UNCHANGED <<subscribed, commands, started, held>>

Leaving == LoadOrder[boot.left]

\* A command that is still found has lost its instance by now: revoking it needs no step
\* of its own.
Detach ==
  /\ boot.left > 0 /\ Goes("detaching", "unloading")
  /\ subscribed' = subscribed \ {Leaving} /\ commands' = commands \ {Leaving}
  /\ UNCHANGED <<loaded, started, held>>

UnloadOne ==
  /\ boot.at = "unloading" /\ Unload(Leaving)
  /\ boot' = [boot EXCEPT !.at = "detaching", !.left = @ - 1]
  /\ UNCHANGED <<subscribed, commands, loaded, started>>

\* Whatever a runtime's process still has goes with it: it is killed when time is up.
StopRuntime ==
  /\ boot.at \in {"unstarting", "detaching"} /\ boot.left = 0 /\ started > 0
  /\ started' = started - 1
  /\ held' = {p \in held : RuntimeOf[p] # RuntimeOrder[started]}
  /\ UNCHANGED <<subscribed, commands, loaded, boot>>

Finish ==
  /\ started = 0 /\ boot.left = 0
  /\ \/ Goes("unstarting", "down") /\ commands' = commands \ Commanding
     \/ Goes("detaching", "down") /\ UNCHANGED commands
  /\ UNCHANGED <<subscribed, loaded, started, held>>

RegistryNext ==
  \/ RegisterCommands \/ StartRuntime \/ LoadPlugin \/ AttachPlugin \/ ReadyRuntimes
  \/ Discard \/ RevokeBundles \/ BeginStop \/ Detach \/ UnloadOne \/ StopRuntime \/ Finish

RegistrySpec == RegistryInit /\ [][RegistryNext]_registryVars

---------------------------------------------------------------------------
(* load.go rollback, shutdown.go: an event is put only to plugins that a process runs; *)
(* a boot that fails, or a stop, leaves no subscription, command, plugin or runtime;   *)
(* and players come in only when every plugin is there with its commands.              *)
AllOrNothing ==
  /\ subscribed \subseteq held
  /\ boot.at = "down" => subscribed \cup commands \cup Instances \cup held = {} /\ started = 0
  /\ boot.at = "up" => subscribed = Plugins /\ commands = Commanding
=============================================================================
