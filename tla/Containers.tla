----------------------------- MODULE Containers -----------------------------
(***************************************************************************)
(* Items in chests, hoppers and the storage of a chest boat or donkey.  A    *)
(* screen on a block container is a private copy the session goroutine       *)
(* clicks on and then writes back whole; the tick moves items between        *)
(* containers with a load and a save of each, and reloads the open screens.  *)
(* A vehicle's storage is clicked under its own lock instead.                *)
(*                                                                          *)
(* Items are all of one kind and every container has one slot: a stack is a  *)
(* number.  A double chest is two containers on one screen.                  *)
(***************************************************************************)
EXTENDS Naturals, Sequences, FiniteSets, SequencesExt, FiniteSetsExt

CONSTANTS
    Players,
    Blocks,        \* positions of block containers
    Hoppers,       \* those among them that are hoppers
    NoBlock,       \* a position that holds no container
    Into,          \* Into[h]: the position hopper h faces
    Above,         \* Above[h]: the position above hopper h
    Y, X,          \* Y[h], X[h]: the height hopper h stands at, its place among those of a height
    NearDrops,     \* hoppers that dropped items lie on
    Screens,       \* what a block screen shows: one position, or a chest's two halves
    Vehicle,       \* the place of the vehicle's storage
    Starts,        \* bound: the blocks and the vehicle there may be at first, and their items
    Breakable,     \* bound: the blocks that may be broken
    MaxStack       \* bound: the stack limit, 64 in the game

Places == Blocks \cup {Vehicle}

ASSUME ContainersAssumption ==
    /\ Hoppers \subseteq Blocks /\ NearDrops \subseteq Hoppers
    /\ NoBlock \notin Blocks /\ Vehicle \notin Blocks
    /\ Into \in [Hoppers -> Blocks \cup {NoBlock}] /\ Above \in [Hoppers -> Blocks \cup {NoBlock}]
    /\ Y \in [Hoppers -> Nat] /\ X \in [Hoppers -> Nat]
    /\ \A g, h \in Hoppers : g # h => <<Y[g], X[g]>> # <<Y[h], X[h]>>
    \* A hopper takes from what is on top of it, and does not face up.
    /\ \A h \in Hoppers : Above[h] \in Hoppers => Y[Above[h]] = Y[h] + 1
    /\ \A h \in Hoppers : Into[h] \in Hoppers => Into[h] # h /\ Y[Into[h]] <= Y[h]
    /\ Screens \subseteq Seq(Blocks) \ {<<>>}
    /\ \A s \in Screens : Len(s) <= 2 /\ (Len(s) = 2 => s[1] # s[2])
    /\ IsFiniteSet(Blocks) /\ IsFiniteSet(Players)
    /\ MaxStack \in Nat \ {0}
    /\ Starts \subseteq [items : [Places -> 0..MaxStack], blocks : SUBSET Blocks, vehicle : BOOLEAN]
    /\ Breakable \subseteq Blocks

VARIABLES
    store,      \* store[b]: the stack the world keeps for container b
    present,    \* the blocks not broken yet
    vehicle,    \* the vehicle's StorageInventory, and whether the entity lives
    ground,     \* dropped items
    thrown,     \* items clicked out of a window: they are gone
    bag,        \* bag[p]: the stack in p's inventory
    carried,    \* carried[p]: the stack on p's cursor
    screen,     \* screen[p]: the places p's open screen shows, <<>> when none is open
    copy,       \* copy[p]: ContainerSlots, p's copy of what the screen shows
    doing,      \* doing[p]: the packet p's session handles, and what it has still to save
    tick,       \* the automation of one tick
    disturbed,  \* history: two actors were at one block container at once
    total       \* history: the items there were at first

vars == <<store, present, vehicle, ground, thrown, bag, carried, screen, copy, doing, tick,
          disturbed, total>>

sessionVars == <<bag, carried, screen, copy, doing>>
history == <<disturbed, total>>

Idle == [at |-> "idle", left |-> <<>>]

NoMove == [src |-> NoBlock, dst |-> NoBlock]

IdleTick == [stage |-> "idle", left |-> {}, move |-> NoMove, src |-> 0, dst |-> 0,
             viewers |-> {}, received |-> {}, begun |-> [h \in Hoppers |-> 0],
             gave |-> [h \in Hoppers |-> 0]]

Sum(f, S) == FoldSet(LAMBDA x, sum : f[x] + sum, 0, S)

Init ==
    /\ \E start \in Starts :
          /\ present = start.blocks
          /\ store = [b \in Blocks |-> start.items[b]]
          /\ vehicle = [items |-> start.items[Vehicle], removed |-> ~start.vehicle,
                        alive |-> start.vehicle]
          /\ total = Sum(start.items, Places)
    /\ ground = 0 /\ thrown = 0
    /\ bag = [p \in Players |-> 0]
    /\ carried = [p \in Players |-> 0]
    /\ screen = [p \in Players |-> <<>>]
    /\ copy = [p \in Players |-> [x \in Places |-> 0]]
    /\ doing = [p \in Players |-> Idle]
    /\ tick = IdleTick
    /\ disturbed = FALSE

Shows(p, x) == Contains(screen[p], x)
Viewers(b) == {p \in Players : Shows(p, b)}
OnVehicle(p) == Shows(p, Vehicle)
IdleAt(p) == doing[p] = Idle

\* The tick has loaded container b and has not yet told its viewers.
InTransfer(b) ==
    /\ tick.stage \in {"loaded", "saving", "half", "telling"}
    /\ b \in {tick.move.src, tick.move.dst}

----------------------------------------------------------------------------
\* One click: what it makes of the stack under the cursor and the stack clicked.

\* Left: take all, put all, top up, or swap.
ClickLeft(c, s) ==
    IF c = 0 \/ s = 0 \/ s = MaxStack THEN <<s, c>>
    ELSE LET add == Min({MaxStack - s, c}) IN <<c - add, s + add>>

\* Right: take the larger half, or put one.
ClickRight(c, s) ==
    IF c = 0 THEN LET take == (s + 1) \div 2 IN <<take, s - take>>
    ELSE IF s < MaxStack THEN <<c - 1, s + 1>> ELSE <<c, s>>

\* addStackToContainer: all of n, over the slots in order, or nothing.
AddStack(slots, shown, n) ==
    LET room(x) == MaxStack - slots[x]
        before(i) == Sum([k \in DOMAIN shown |-> room(shown[k])], 1..(i - 1))
        at(x) == CHOOSE i \in DOMAIN shown : shown[i] = x
        got(x) == IF n <= before(at(x)) THEN 0 ELSE Min({n - before(at(x)), room(x)})
    IN [x \in Places |-> IF Contains(shown, x) THEN slots[x] + got(x) ELSE slots[x]]

Fits(slots, shown, n) == Sum([x \in Range(shown) |-> MaxStack - slots[x]], Range(shown)) >= n

\* What a click may leave in the hands of p and on a screen that shows slots.
Clicks(p, slots) ==
    LET hands(b, c, s, t) == [bag |-> b, carried |-> c, slots |-> s, thrown |-> t]
        at(x, pair) == hands(bag[p], pair[1], [slots EXCEPT ![x] = pair[2]], 0)
        inBag(pair) == hands(pair[2], pair[1], slots, 0)
    IN UNION {
        {at(x, ClickLeft(carried[p], slots[x])) : x \in Range(screen[p])},
        {at(x, ClickRight(carried[p], slots[x])) : x \in Range(screen[p])},
        {inBag(ClickLeft(carried[p], bag[p])), inBag(ClickRight(carried[p], bag[p]))},
        \* outside the window: all of the cursor's stack, or one
        {hands(bag[p], 0, slots, carried[p])},
        {hands(bag[p], carried[p] - one, slots, one) : one \in {1} \cap 1..carried[p]},
        \* shift: the whole stack to the other side, if it fits
        {hands(bag[p] + slots[x], carried[p], [slots EXCEPT ![x] = 0], 0) :
            x \in {y \in Range(screen[p]) : bag[p] + slots[y] <= MaxStack}},
        IF Fits(slots, screen[p], bag[p])
        THEN {hands(0, carried[p], AddStack(slots, screen[p], bag[p]), 0)} ELSE {}}

Handle(p, click) ==
    /\ bag' = [bag EXCEPT ![p] = click.bag]
    /\ carried' = [carried EXCEPT ![p] = click.carried]
    /\ copy' = [copy EXCEPT ![p] = click.slots]
    /\ thrown' = thrown + click.thrown

----------------------------------------------------------------------------
\* A session with a block container's screen.

\* A second screen on one container is where copies may part.
OpenBlocks(p, shown) ==
    /\ IdleAt(p) /\ screen[p] = <<>> /\ Range(shown) \subseteq present
    /\ screen' = [screen EXCEPT ![p] = shown]
    /\ copy' = [copy EXCEPT ![p] = [x \in Places |-> IF Contains(shown, x) THEN store[x] ELSE 0]]
    /\ disturbed' = (disturbed \/ \E x \in Range(shown) : Viewers(x) # {})
    /\ UNCHANGED <<store, present, vehicle, ground, thrown, bag, carried, doing, tick, total>>

Meets(p) == \E x \in Range(screen[p]) : InTransfer(x)

\* The click changes p's copy; what is saved is the copy, slot for slot.
ClickBlocks(p) ==
    /\ IdleAt(p) /\ screen[p] # <<>> /\ ~OnVehicle(p)
    /\ \E click \in Clicks(p, copy[p]) : Handle(p, click)
    /\ doing' = [doing EXCEPT ![p] = [at |-> "click", left |-> screen[p]]]
    /\ disturbed' = (disturbed \/ Meets(p))
    /\ UNCHANGED <<store, present, vehicle, ground, screen, tick, total>>

\* Closing a screen saves the copy once more.
CloseBlocks(p) ==
    /\ IdleAt(p) /\ screen[p] # <<>> /\ ~OnVehicle(p)
    /\ doing' = [doing EXCEPT ![p] = [at |-> "close", left |-> screen[p]]]
    /\ disturbed' = (disturbed \/ Meets(p))
    /\ UNCHANGED <<store, present, vehicle, ground, thrown, bag, carried, screen, copy, tick, total>>

SaveCopy(p, x) == store' = [store EXCEPT ![x] = copy[p][x]]

\* One SetContainerItems for each half of a double chest.
PersistContents(p) ==
    /\ doing[p].left # <<>>
    /\ SaveCopy(p, Head(doing[p].left))
    /\ doing' = [doing EXCEPT ![p].left = Tail(@)]
    /\ UNCHANGED <<present, vehicle, ground, thrown, bag, carried, screen, copy, tick, history>>

Handled(p) ==
    /\ doing[p].at \in {"click", "close"} /\ doing[p].left = <<>>
    /\ doing' = [doing EXCEPT ![p] = Idle]
    /\ IF doing[p].at = "close"
       THEN /\ screen' = [screen EXCEPT ![p] = <<>>]
            /\ copy' = [copy EXCEPT ![p] = [x \in Places |-> 0]]
       ELSE UNCHANGED <<screen, copy>>
    /\ UNCHANGED <<store, present, vehicle, ground, thrown, bag, carried, tick, history>>

\* Whoever breaks a container makes its contents drop; screens stay open.
BreakBlock(b) ==
    /\ b \in present
    /\ present' = present \ {b}
    /\ ground' = ground + store[b]
    /\ store' = [store EXCEPT ![b] = 0]
    /\ disturbed' = (disturbed \/ Viewers(b) # {} \/ InTransfer(b))
    /\ UNCHANGED <<vehicle, thrown, sessionVars, tick, total>>

----------------------------------------------------------------------------
\* A session with a vehicle's screen.

ValidVehicle == vehicle.alive

OpenVehicle(p) ==
    /\ IdleAt(p) /\ screen[p] = <<>> /\ ValidVehicle
    /\ screen' = [screen EXCEPT ![p] = <<Vehicle>>]
    /\ copy' = [copy EXCEPT ![p][Vehicle] = vehicle.items]
    /\ UNCHANGED <<store, present, vehicle, ground, thrown, bag, carried, doing, tick, history>>

\* The vehicle is looked up first, and may die before the click takes the lock.
CheckVehicle(p) ==
    /\ IdleAt(p) /\ OnVehicle(p) /\ ValidVehicle
    /\ doing' = [doing EXCEPT ![p].at = "checked"]
    /\ UNCHANGED <<store, present, vehicle, ground, thrown, bag, carried, screen, copy, tick, history>>

Latest(p) == [copy[p] EXCEPT ![Vehicle] = vehicle.items]

Refused == vehicle.removed

ClickVehicle(p) ==
    /\ doing[p].at = "checked"
    /\ doing' = [doing EXCEPT ![p] = Idle]
    /\ IF Refused THEN UNCHANGED <<vehicle, bag, carried, copy, thrown>>
       ELSE /\ \E click \in Clicks(p, Latest(p)) : Handle(p, click)
            /\ vehicle' = [vehicle EXCEPT !.items = copy'[p][Vehicle]]
    /\ UNCHANGED <<store, present, ground, screen, tick, history>>

\* On the player's wish, or because the vehicle is gone.  Nothing is saved.
CloseVehicle(p) ==
    /\ IdleAt(p) /\ OnVehicle(p)
    /\ screen' = [screen EXCEPT ![p] = <<>>]
    /\ copy' = [copy EXCEPT ![p][Vehicle] = 0]
    /\ UNCHANGED <<store, present, vehicle, ground, thrown, bag, carried, doing, tick, history>>

VehicleDies ==
    /\ vehicle.alive
    /\ vehicle' = [vehicle EXCEPT !.alive = FALSE]
    /\ UNCHANGED <<store, present, ground, thrown, sessionVars, tick, history>>

\* Its death drops the contents; a second call finds nothing.
Drain ==
    /\ ~vehicle.alive
    /\ vehicle' = [vehicle EXCEPT !.items = 0, !.removed = TRUE]
    /\ ground' = ground + vehicle.items
    /\ UNCHANGED <<store, present, thrown, sessionVars, tick, history>>

----------------------------------------------------------------------------
\* The tick: every eighth one visits the hoppers, lowest first.

ByPlace(g, h) == X[g] < X[h] \/ (X[g] = X[h] /\ Y[g] > Y[h])
Lower(g, h) == Y[g] < Y[h] \/ (Y[g] = Y[h] /\ X[g] < X[h])

AutomationBegins ==
    /\ tick.stage = "idle"
    /\ tick' = [IdleTick EXCEPT !.stage = "visit", !.left = Hoppers,
                                !.begun = [h \in Hoppers |-> store[h]]]
    /\ UNCHANGED <<store, present, vehicle, ground, thrown, sessionVars, history>>

AutomationEnds ==
    /\ tick.stage = "visit" /\ tick.left = {}
    /\ tick' = IdleTick
    /\ UNCHANGED <<store, present, vehicle, ground, thrown, sessionVars, history>>

Visiting == CHOOSE h \in tick.left : \A g \in tick.left \ {h} : Lower(h, g)
Transfer(from, to) == [tick EXCEPT !.stage = "load", !.move = [src |-> from, dst |-> to]]
Visited == [tick EXCEPT !.stage = "visit", !.left = @ \ {Visiting}, !.move = NoMove, !.src = 0, !.dst = 0]

Received(h) == h \in tick.received

\* A hopper that received this tick, is powered, or is gone does nothing.
SkipHopper ==
    /\ tick.stage = "visit" /\ tick.left # {}
    /\ tick' = Visited
    /\ UNCHANGED <<store, present, vehicle, ground, thrown, sessionVars, history>>

\* It pushes first.
VisitHopper ==
    /\ tick.stage = "visit" /\ tick.left # {}
    /\ Visiting \in present /\ ~Received(Visiting)
    /\ tick' = Transfer(Visiting, Into[Visiting])
    /\ UNCHANGED <<store, present, vehicle, ground, thrown, sessionVars, history>>

AtWork(b) == \E p \in Viewers(b) : doing[p].at \in {"click", "close"}

LoadSource ==
    /\ tick.stage = "load" /\ {tick.move.src, tick.move.dst} \subseteq present
    /\ tick' = [tick EXCEPT !.stage = "loaded", !.src = store[tick.move.src]]
    /\ disturbed' = (disturbed \/ AtWork(tick.move.src) \/ AtWork(tick.move.dst))
    /\ UNCHANGED <<store, present, vehicle, ground, thrown, sessionVars, total>>

LoadDestination ==
    /\ tick.stage = "loaded"
    /\ LET there == store[tick.move.dst]
       IN tick' = IF tick.src > 0 /\ there < MaxStack
                  THEN [tick EXCEPT !.stage = "saving", !.src = @ - 1, !.dst = there + 1]
                  ELSE [tick EXCEPT !.stage = "failed"]
    /\ UNCHANGED <<store, present, vehicle, ground, thrown, sessionVars, history>>

NoContainer ==
    /\ tick.stage = "load" /\ ~({tick.move.src, tick.move.dst} \subseteq present)
    /\ tick' = [tick EXCEPT !.stage = "failed"]
    /\ UNCHANGED <<store, present, vehicle, ground, thrown, sessionVars, history>>

SaveSource ==
    /\ tick.stage = "saving"
    /\ store' = [store EXCEPT ![tick.move.src] = tick.src]
    /\ tick' = [tick EXCEPT !.stage = "half",
                            !.gave = [h \in Hoppers |-> IF h = tick.move.src THEN @[h] + 1 ELSE @[h]]]
    /\ UNCHANGED <<present, vehicle, ground, thrown, sessionVars, history>>

MarkReceived(h) == tick.received \cup ({h} \cap Hoppers)

NobodyToTell(S) == {}
HopperViewers(S) == UNION {Viewers(b) : b \in S \cap Hoppers}
ToTell(S) == UNION {Viewers(b) : b \in S}

SaveDestination ==
    /\ tick.stage = "half"
    /\ store' = [store EXCEPT ![tick.move.dst] = tick.dst]
    /\ tick' = [tick EXCEPT !.stage = "telling", !.received = MarkReceived(tick.move.dst),
                            !.viewers = ToTell({tick.move.src, tick.move.dst})]
    /\ UNCHANGED <<present, vehicle, ground, thrown, sessionVars, history>>

\* Then the push becomes a pull, and a pull that failed looks for dropped items.
PullInstead ==
    /\ tick.stage = "failed" /\ tick.move.src = Visiting
    /\ tick' = Transfer(Above[Visiting], Visiting)
    /\ UNCHANGED <<store, present, vehicle, ground, thrown, sessionVars, history>>

CollectDropped ==
    /\ tick.stage = "failed" /\ tick.move.src # Visiting
    /\ IF Visiting \in NearDrops \cap present /\ ground > 0 /\ store[Visiting] < MaxStack
       THEN /\ store' = [store EXCEPT ![Visiting] = @ + 1]
            /\ ground' = ground - 1
            /\ tick' = [tick EXCEPT !.stage = "telling", !.received = MarkReceived(Visiting),
                                    !.move = [src |-> Visiting, dst |-> Visiting],
                                    !.viewers = ToTell({Visiting})]
            /\ disturbed' = (disturbed \/ AtWork(Visiting))
       ELSE tick' = Visited /\ UNCHANGED <<store, ground, disturbed>>
    /\ UNCHANGED <<present, vehicle, thrown, sessionVars, total>>

\* An open screen on either container is loaded anew.
RefreshScreen(p) ==
    /\ tick.stage = "telling" /\ p \in tick.viewers
    /\ tick' = [tick EXCEPT !.viewers = @ \ {p}]
    /\ copy' = [copy EXCEPT ![p] = [x \in Places |->
                  IF x \in Blocks /\ Shows(p, x) THEN store[x] ELSE @[x]]]
    /\ UNCHANGED <<store, present, vehicle, ground, thrown, bag, carried, screen, doing, history>>

Told ==
    /\ tick.stage = "telling" /\ tick.viewers = {}
    /\ tick' = Visited
    /\ UNCHANGED <<store, present, vehicle, ground, thrown, sessionVars, history>>

SessionStep(p) ==
    \/ \E shown \in Screens : OpenBlocks(p, shown)
    \/ ClickBlocks(p) \/ CloseBlocks(p) \/ PersistContents(p) \/ Handled(p)
    \/ OpenVehicle(p) \/ CheckVehicle(p) \/ ClickVehicle(p) \/ CloseVehicle(p)

TickStep ==
    \/ AutomationBegins \/ AutomationEnds \/ SkipHopper \/ VisitHopper
    \/ LoadSource \/ LoadDestination \/ NoContainer \/ SaveSource \/ SaveDestination
    \/ PullInstead \/ CollectDropped \/ (\E p \in Players : RefreshScreen(p)) \/ Told

\* Containers are followed up to the first disturbance of a block container.
Next ==
    /\ ~disturbed
    /\ \/ \E p \in Players : SessionStep(p)
       \/ TickStep
       \/ \E b \in Breakable : BreakBlock(b)
       \/ VehicleDies \/ Drain

Spec == Init /\ [][Next]_vars

----------------------------------------------------------------------------
\* Properties.

InHand(p) == bag[p] + carried[p]

\* Items in the game.  A click still being saved has its block's items on the screen.
Owed(b) == \E p \in Viewers(b) : doing[p].at = "click" /\ Contains(doing[p].left, b)
Held(b) ==
    IF Owed(b) THEN copy[CHOOSE p \in Viewers(b) : Contains(doing[p].left, b)][b] ELSE store[b]
OnTheWay == IF tick.stage = "half" THEN 1 ELSE 0
InGame ==
    Sum([b \in Blocks |-> Held(b)], Blocks) + vehicle.items + ground + OnTheWay
      + Sum([p \in Players |-> InHand(p)], Players)

(* No item is duplicated or lost: whatever clicks, hoppers, breaking and the     *)
(* death of a vehicle do.  A vehicle's storage may have any number of viewers    *)
(* (storage_inventory.go:5: no stale screen duplicates items under its lock);    *)
(* a block container one at a time, and no click in the middle of a transfer.    *)
ItemsConserved == disturbed \/ InGame + thrown = total

(* Between two packets and outside a transfer, a block container's only screen   *)
(* shows what the container holds: the tick never leaves a stale copy behind.    *)
ScreensCurrent ==
    \A p \in Players, b \in Blocks :
        Shows(p, b) /\ IdleAt(p) /\ ~InTransfer(b) /\ ~disturbed => copy[p][b] = store[b]

\* No screen shows hopper h, so only the tick fills it.
Unattended(h) == \A shown \in Screens : ~Contains(shown, h)

(* An item moves through one hopper in a tick at most: a hopper gives away no    *)
(* more than it held when the tick came to the first hopper.                     *)
OneHopperPerTick ==
    \A h \in Hoppers : Unattended(h) => tick.gave[h] <= tick.begun[h]
=============================================================================
