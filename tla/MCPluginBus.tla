----------------------------- MODULE MCPluginBus -----------------------------
EXTENDS PluginBus
CONSTANTS a, b, c, e1, e2, go, jvm, open, sealed, x1

ByPriority == <<c, a, b>>
ById == <<a, b, c>>
ByName == <<go, jvm>>
RunBy == (a :> jvm) @@ (b :> jvm) @@ (c :> go)
Event(kind, failClosed, cancellable, emitter, to) ==
  [kind |-> kind, failClosed |-> failClosed, cancellable |-> cancellable, emitter |-> emitter,
   to |-> to]

\* A native event, and with it one of a plugin, the replay of a join to the plugins of a
\* runtime that was restarted, or a command.
TwoEvents ==
  (e1 :> {Event("native", TRUE, TRUE, None, Plugins)})
  @@ (e2 :> {Event("custom", FALSE, FALSE, a, Plugins), Event("command", FALSE, FALSE, a, {a}),
             Event("observational", FALSE, FALSE, None, {a, b})})

Verdict(cancelled, path, effect) == [cancelled |-> cancelled, path |-> path, effect |-> effect]
FewVerdicts == {Verdict(FALSE, open, None), Verdict(TRUE, sealed, x1)}
=============================================================================
