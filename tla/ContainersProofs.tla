-------------------------- MODULE ContainersProofs --------------------------
(***************************************************************************)
(* What an open screen shows, how far items get in one tick, and that none  *)
(* is doubled or lost, for any players, containers, hoppers and sizes.     *)
(***************************************************************************)
EXTENDS Containers, SequenceTheorems, FiniteSetTheorems, WellFoundedInduction, TLAPS

\* A session is at one packet, and a click saves what its screen shows.
SessionType ==
    /\ DOMAIN store = Blocks /\ DOMAIN copy = Players
    /\ screen \in [Players -> Screens \cup {<<>>, <<Vehicle>>}]
    /\ doing \in [Players -> [at : {"idle", "click", "close", "checked"}, left : Seq(Blocks)]]
    /\ \A p \in Players : doing[p].at \in {"idle", "checked"} => doing[p].left = <<>>
    /\ \A p \in Players : doing[p].at = "checked" => screen[p] = <<Vehicle>>
    /\ \A p \in Players : doing[p].at \in {"click", "close"} => screen[p] \in Screens
    /\ \A p \in Players, b \in Blocks : Contains(doing[p].left, b) => Shows(p, b)

Fields == {"stage", "left", "move", "src", "dst", "viewers", "received", "begun", "gave"}

TickType == DOMAIN tick = Fields

\* Nobody shares a block container's screen, and nobody is at one during a transfer.
Apart ==
    /\ \A p, q \in Players, b \in Blocks : Shows(p, b) /\ Shows(q, b) => p = q
    /\ \A p \in Players, b \in Blocks : Shows(p, b) /\ InTransfer(b) => doing[p].at = "idle"

Fresh(p, b) == copy[p][b] = store[b]

\* A copy is what the container holds, unless it is being saved or its viewer about to be told.
Current ==
    \A p \in Players, b \in Blocks : Shows(p, b) =>
        \/ Fresh(p, b)
        \/ Contains(doing[p].left, b)
        \/ (InTransfer(b) /\ tick.stage = "half")
        \/ (InTransfer(b) /\ tick.stage = "telling" /\ p \in tick.viewers)

Shown == SessionType /\ TickType /\ (disturbed \/ (Apart /\ Current))

----------------------------------------------------------------------------
(* Induction: a set of numbers has a least one. *)

LEMMA LeastNat ==
    ASSUME NEW T \in SUBSET Nat, T # {}
    PROVE  \E m \in T : \A n \in T : m <= n
<1> DEFINE R == {r \in Nat \X Nat : r[1] < r[2]}
<1>1. IsWellFoundedOn(R, Nat) BY NatLessThanWellFounded DEF OpToRel
<1>2. PICK m \in T : \A n \in T : <<n, m>> \notin R BY <1>1, WFMin
<1>3. ASSUME NEW n \in T PROVE m <= n
    <2>1. <<n, m>> \notin R BY <1>2
    <2>2. n \in Nat /\ m \in Nat OBVIOUS
    <2> QED BY <2>1, <2>2
<1> QED BY <1>3

----------------------------------------------------------------------------
(* Sums over finite sets.  Induction is on the size of a least counterexample. *)

\* A family of subsets that grows by any element has them all.
LEMMA SubsetInduction ==
    ASSUME NEW S, IsFiniteSet(S), NEW P, {} \in P,
           \A T \in SUBSET S, x \in S : T \in P /\ x \notin T => T \cup {x} \in P
    PROVE  SUBSET S \subseteq P
<1> SUFFICES ASSUME NEW U \in SUBSET S, U \notin P PROVE FALSE
    OBVIOUS
<1> DEFINE bad == {T \in SUBSET S : T \notin P}
           sizes == {Cardinality(T) : T \in bad}
<1>1. \A T \in SUBSET S : IsFiniteSet(T) /\ Cardinality(T) \in Nat BY FS_Subset, FS_CardinalityType
<1>2. sizes \in SUBSET Nat /\ sizes # {} BY <1>1
<1>3. PICK n \in sizes : \A k \in sizes : n <= k BY <1>2, LeastNat
<1>4. PICK T \in bad : Cardinality(T) = n BY <1>3
<1>5. T # {} BY <1>4
<1>6. PICK x \in T : TRUE BY <1>5
<1>7. Cardinality(T \ {x}) = Cardinality(T) - 1 BY <1>1, <1>4, <1>6, FS_RemoveElement
<1>8. T \ {x} \in P
    <2>1. T \ {x} \in bad => n <= Cardinality(T \ {x}) BY <1>3
    <2> QED BY <1>1, <1>4, <1>7, <2>1
<1>9. (T \ {x}) \cup {x} = T BY <1>6
<1>10. T \ {x} \in SUBSET S /\ x \in S /\ x \notin T \ {x} BY <1>4, <1>6
<1> QED BY <1>4, <1>8, <1>9, <1>10

First(s) == CHOOSE x \in s : TRUE
Sums(g, f, S) == g = [s \in SUBSET S |-> IF s = {} THEN 0 ELSE f[First(s)] + g[s \ {First(s)}]]

LEMMA SumUnfolds ==
    ASSUME NEW S, NEW f
    PROVE  Sum(f, S) = (CHOOSE g : Sums(g, f, S))[S]
BY DEF Sum, FoldSet, MapThenFoldSet, Sums, First

LEMMA SumsExist ==
    ASSUME NEW S, IsFiniteSet(S), NEW f, \A x \in S : f[x] \in Nat
    PROVE  \E g : Sums(g, f, S) /\ g \in [SUBSET S -> Nat]
<1> DEFINE upTo(n) == {s \in SUBSET S : Cardinality(s) <= n}
           rec(g, s) == IF s = {} THEN 0 ELSE f[First(s)] + g[s \ {First(s)}]
           good(n) == \E g \in [upTo(n) -> Nat] : \A s \in upTo(n) : g[s] = rec(g, s)
<1>1. \A T \in SUBSET S : IsFiniteSet(T) /\ Cardinality(T) \in Nat BY FS_Subset, FS_CardinalityType
<1>2. \A s \in SUBSET S : s # {} => First(s) \in s BY DEF First
<1>3. \A s \in SUBSET S : s # {} => Cardinality(s \ {First(s)}) = Cardinality(s) - 1 BY <1>1, <1>2, FS_RemoveElement
<1>4. good(0)
    <2>1. \A s \in upTo(0) : s = {} BY <1>1, FS_EmptySet
    <2>2. [s \in upTo(0) |-> 0] \in [upTo(0) -> Nat] OBVIOUS
    <2> QED BY <2>1, <2>2
<1>5. ASSUME NEW n \in Nat, good(n) PROVE good(n + 1)
    <2>1. PICK g \in [upTo(n) -> Nat] : \A s \in upTo(n) : g[s] = rec(g, s) BY <1>5
    <2> DEFINE h == [s \in upTo(n + 1) |-> IF s \in upTo(n) THEN g[s] ELSE rec(g, s)]
    <2>2. \A s \in upTo(n + 1) : s # {} => s \ {First(s)} \in upTo(n) BY <1>1, <1>3
    <2>3. upTo(n) \subseteq upTo(n + 1) BY <1>1
    <2>4. ASSUME NEW s \in upTo(n + 1) PROVE h[s] \in Nat /\ h[s] = rec(h, s)
        <3>1. CASE s = {}
            <4>1. s \in upTo(n) BY <3>1, <1>1, FS_EmptySet
            <4> QED BY <2>1, <3>1, <4>1
        <3>2. CASE s # {}
            <4>1. s \ {First(s)} \in upTo(n) /\ s \ {First(s)} \in upTo(n + 1) BY <2>2, <2>3, <3>2
            <4>2. h[s \ {First(s)}] = g[s \ {First(s)}] /\ g[s \ {First(s)}] \in Nat BY <4>1
            <4>3. f[First(s)] \in Nat BY <1>2, <3>2
            <4>4. h[s] = rec(g, s) BY <2>1
            <4> QED BY <3>2, <4>2, <4>3, <4>4
        <3> QED BY <3>1, <3>2
    <2>5. h \in [upTo(n + 1) -> Nat] BY <2>4
    <2> QED BY <2>4, <2>5
<1>6. \A n \in Nat : good(n)
    <2> SUFFICES ASSUME NEW k \in Nat, ~good(k) PROVE FALSE
        OBVIOUS
    <2> DEFINE bad == {n \in Nat : ~good(n)}
    <2> HIDE DEF good
    <2>1. bad \in SUBSET Nat /\ bad # {} OBVIOUS
    <2>2. PICK n \in bad : \A m \in bad : n <= m BY <2>1, LeastNat
    <2>3. n # 0 BY <1>4, <2>2
    <2>4. n - 1 \in Nat /\ n - 1 \notin bad BY <2>2, <2>3
    <2>5. good((n - 1) + 1) BY <1>5, <2>4
    <2> QED BY <2>2, <2>5
<1>7. upTo(Cardinality(S)) = SUBSET S BY FS_Subset
<1>8. PICK g \in [upTo(Cardinality(S)) -> Nat] : \A s \in upTo(Cardinality(S)) : g[s] = rec(g, s)
    BY <1>1, <1>6
<1>9. g \in [SUBSET S -> Nat] /\ \A s \in SUBSET S : g[s] = rec(g, s) BY <1>7, <1>8
<1>10. Sums(g, f, S) BY <1>9 DEF Sums
<1> QED BY <1>9, <1>10

\* Of a set and a part of it, with functions that agree there.
LEMMA SumsAgree ==
    ASSUME NEW S, IsFiniteSet(S), NEW T \in SUBSET S, NEW f, NEW h, \A x \in T : f[x] = h[x],
           NEW g, Sums(g, f, S), NEW k, Sums(k, h, T)
    PROVE  g[T] = k[T]
<1> DEFINE bad == {s \in SUBSET T : g[s] # k[s]}
           sizes == {Cardinality(s) : s \in bad}
<1> SUFFICES ASSUME bad # {} PROVE FALSE
    OBVIOUS
<1>1. \A s \in SUBSET T : IsFiniteSet(s) /\ Cardinality(s) \in Nat BY FS_Subset, FS_CardinalityType
<1>2. PICK n \in sizes : \A m \in sizes : n <= m
    <2>1. sizes \in SUBSET Nat /\ sizes # {} BY <1>1
    <2> QED BY <2>1, LeastNat
<1>3. PICK s \in bad : Cardinality(s) = n BY <1>2
<1>4. /\ g[s] = IF s = {} THEN 0 ELSE f[First(s)] + g[s \ {First(s)}]
      /\ k[s] = IF s = {} THEN 0 ELSE h[First(s)] + k[s \ {First(s)}]
    BY <1>3 DEF Sums
<1>5. s # {} /\ First(s) \in s BY <1>3, <1>4 DEF First
<1>6. Cardinality(s \ {First(s)}) = n - 1 /\ n \in Nat BY <1>1, <1>3, <1>5, FS_RemoveElement
<1>7. s \ {First(s)} \notin bad BY <1>2, <1>6
<1> QED BY <1>3, <1>4, <1>5, <1>7

LEMMA SumRecurs ==
    ASSUME NEW S, IsFiniteSet(S), NEW f, \A x \in S : f[x] \in Nat
    PROVE  /\ \A T \in SUBSET S : Sum(f, T) \in Nat
           /\ \A T \in SUBSET S :
                Sum(f, T) = IF T = {} THEN 0 ELSE f[First(T)] + Sum(f, T \ {First(T)})
<1>1. PICK g : Sums(g, f, S) /\ g \in [SUBSET S -> Nat] BY SumsExist
<1>2. ASSUME NEW T \in SUBSET S PROVE Sum(f, T) = g[T]
    <2>1. IsFiniteSet(T) BY FS_Subset
    <2>2. \E k : Sums(k, f, T) BY <2>1, SumsExist
    <2>3. Sums(CHOOSE k : Sums(k, f, T), f, T) BY <2>2
    <2> QED BY <1>1, <2>3, SumsAgree, SumUnfolds
<1>3. ASSUME NEW T \in SUBSET S
      PROVE  Sum(f, T) = IF T = {} THEN 0 ELSE f[First(T)] + Sum(f, T \ {First(T)})
    <2>1. g[T] = IF T = {} THEN 0 ELSE f[First(T)] + g[T \ {First(T)}] BY <1>1 DEF Sums
    <2>2. T \ {First(T)} \in SUBSET S OBVIOUS
    <2> QED BY <1>2, <2>1, <2>2
<1> QED BY <1>1, <1>2, <1>3

LEMMA SumEmpty == \A f : Sum(f, {}) = 0
<1> SUFFICES ASSUME NEW f PROVE Sum(f, {}) = 0
    OBVIOUS
<1>1. IsFiniteSet({}) /\ {} \in SUBSET {} /\ \A x \in {} : f[x] \in Nat BY FS_EmptySet
<1> QED BY <1>1, SumRecurs

LEMMA SumNat ==
    ASSUME NEW S, IsFiniteSet(S), NEW f, \A x \in S : f[x] \in Nat
    PROVE  Sum(f, S) \in Nat
BY SumRecurs

LEMMA SumSame ==
    ASSUME NEW S, IsFiniteSet(S), NEW f, NEW h, \A x \in S : f[x] \in Nat /\ f[x] = h[x]
    PROVE  Sum(f, S) = Sum(h, S)
<1>1. (\E g : Sums(g, f, S)) /\ \E k : Sums(k, h, S)
    <2>1. \A x \in S : h[x] \in Nat OBVIOUS
    <2> QED BY <2>1, SumsExist
<1>2. Sums(CHOOSE g : Sums(g, f, S), f, S) /\ Sums(CHOOSE k : Sums(k, h, S), h, S) BY <1>1
<1> QED BY <1>2, SumsAgree, SumUnfolds

\* Any element may be taken first.
LEMMA SumTakes ==
    ASSUME NEW S, IsFiniteSet(S), NEW f, \A x \in S : f[x] \in Nat, NEW x \in S
    PROVE  Sum(f, S) = f[x] + Sum(f, S \ {x})
<1> DEFINE takes(T) == \A y \in T : Sum(f, T) = f[y] + Sum(f, T \ {y})
           bad == {T \in SUBSET S : ~takes(T)}
           sizes == {Cardinality(T) : T \in bad}
<1> SUFFICES ASSUME bad # {} PROVE FALSE
    OBVIOUS
<1>1. \A T \in SUBSET S : IsFiniteSet(T) /\ Cardinality(T) \in Nat BY FS_Subset, FS_CardinalityType
<1>2. PICK n \in sizes : \A m \in sizes : n <= m
    <2>1. sizes \in SUBSET Nat /\ sizes # {} BY <1>1
    <2> QED BY <2>1, LeastNat
<1>3. PICK T \in bad : Cardinality(T) = n BY <1>2
<1>4. PICK y \in T : Sum(f, T) # f[y] + Sum(f, T \ {y}) BY <1>3
<1>5. \A U \in SUBSET S : Sum(f, U) \in Nat BY SumRecurs
<1> DEFINE z == First(T)
<1>6. z \in T BY <1>4 DEF First
<1>7. Sum(f, T) = f[z] + Sum(f, T \ {z})
    <2>1. T # {} /\ T \in SUBSET S BY <1>3, <1>4
    <2> QED BY <2>1, SumRecurs
<1> HIDE DEF z
<1>8. y # z BY <1>4, <1>7
<1>9. /\ Cardinality(T \ {z}) = n - 1 /\ Cardinality(T \ {y}) = n - 1 /\ n \in Nat
    BY <1>1, <1>3, <1>6, FS_RemoveElement
<1>10. T \ {z} \notin bad /\ T \ {y} \notin bad BY <1>2, <1>9
<1>11. takes(T \ {z}) /\ takes(T \ {y}) BY <1>3, <1>10
<1>12. Sum(f, T \ {z}) = f[y] + Sum(f, (T \ {z}) \ {y}) BY <1>8, <1>11
<1>13. Sum(f, T \ {y}) = f[z] + Sum(f, (T \ {y}) \ {z}) BY <1>6, <1>8, <1>11
<1>14. (T \ {z}) \ {y} = (T \ {y}) \ {z} OBVIOUS
<1>15. /\ f[y] \in Nat /\ f[z] \in Nat
       /\ Sum(f, (T \ {z}) \ {y}) \in Nat
    <2>1. (T \ {z}) \ {y} \in SUBSET S BY <1>3
    <2> QED BY <1>3, <1>5, <1>6, <2>1
<1>16. \A a, b, c \in Nat : a + (b + c) = b + (a + c) OBVIOUS
<1>17. Sum(f, T) = f[y] + Sum(f, T \ {y}) BY <1>7, <1>12, <1>13, <1>14, <1>15, <1>16
<1> QED BY <1>4, <1>17

\* One summand changes.
LEMMA SumChanges ==
    ASSUME NEW S, IsFiniteSet(S), NEW f, NEW h, NEW x \in S,
           \A y \in S : f[y] \in Nat /\ h[y] \in Nat, \A y \in S : y # x => f[y] = h[y]
    PROVE  Sum(h, S) + f[x] = Sum(f, S) + h[x]
<1>1. Sum(f, S) = f[x] + Sum(f, S \ {x}) /\ Sum(h, S) = h[x] + Sum(h, S \ {x}) BY SumTakes
<1>2. IsFiniteSet(S \ {x}) BY FS_RemoveElement
<1>3. Sum(f, S \ {x}) = Sum(h, S \ {x}) /\ Sum(f, S \ {x}) \in Nat BY <1>2, SumSame, SumNat
<1> QED BY <1>1, <1>3

----------------------------------------------------------------------------
(* Screens and sequences. *)

LEMMA ContainsIsRange ==
    ASSUME NEW S, NEW s \in Seq(S), NEW x
    PROVE  Contains(s, x) <=> x \in Range(s)
BY DEF Contains, Range

LEMMA EmptyContainsNothing == \A x : ~Contains(<<>>, x)
BY DEF Contains

LEMMA ContainsTail ==
    ASSUME NEW S, NEW s \in Seq(S), s # <<>>, NEW x
    PROVE  /\ Contains(s, x) => x = Head(s) \/ Contains(Tail(s), x)
           /\ Contains(Tail(s), x) => Contains(s, x)
           /\ Contains(s, Head(s))
           /\ Tail(s) \in Seq(S)
<1>1. Tail(s) \in Seq(S) /\ Len(Tail(s)) = Len(s) - 1 /\ Len(s) \in Nat \ {0}
      /\ \A i \in 1..Len(s) - 1 : Tail(s)[i] = s[i + 1]
    BY HeadTailProperties, EmptySeq, LenProperties
<1>2. Head(s) = s[1] BY HeadTailProperties
<1>3. ASSUME Contains(s, x) PROVE x = Head(s) \/ Contains(Tail(s), x)
    <2>1. PICK i \in 1..Len(s) : s[i] = x BY <1>3 DEF Contains
    <2>2. CASE i = 1 BY <2>1, <2>2, <1>2
    <2>3. CASE i # 1
        <3>1. i - 1 \in 1..Len(s) - 1 /\ Tail(s)[i - 1] = x BY <1>1, <2>1, <2>3
        <3> QED BY <1>1, <3>1 DEF Contains
    <2> QED BY <2>2, <2>3
<1>4. ASSUME Contains(Tail(s), x) PROVE Contains(s, x)
    <2>1. PICK i \in 1..Len(s) - 1 : Tail(s)[i] = x BY <1>1, <1>4 DEF Contains
    <2>2. i + 1 \in 1..Len(s) /\ s[i + 1] = x BY <1>1, <2>1
    <2> QED BY <2>2 DEF Contains
<1>5. Contains(s, Head(s)) BY <1>1, <1>2 DEF Contains
<1> QED BY <1>1, <1>3, <1>4, <1>5

LEMMA VehicleIsNoBlock ==
    \A b \in Blocks : ~Contains(<<Vehicle>>, b)
BY ContainersAssumption DEF Contains

\* A chest's screen, as a set of blocks.
LEMMA ScreenOfBlocks ==
    ASSUME NEW s \in Screens
    PROVE  /\ s \in Seq(Blocks) /\ s # <<>>
           /\ \A x : Contains(s, x) <=> x \in Range(s)
           /\ ~Contains(s, Vehicle)
<1>1. s \in Seq(Blocks) /\ s # <<>> BY ContainersAssumption
<1>2. \A x : Contains(s, x) <=> x \in Range(s) BY <1>1, ContainsIsRange
<1>3. ~Contains(s, Vehicle) BY <1>1, ContainersAssumption DEF Contains
<1> QED BY <1>1, <1>2, <1>3

----------------------------------------------------------------------------
(* Sessions. *)

\* A session step that leaves the tick and everyone else alone.
LEMMA OnlyOwn ==
    ASSUME Shown, ~disturbed, NEW p \in Players, UNCHANGED <<store, tick>>,
           SessionType', ~disturbed',
           \A q \in Players : q # p => UNCHANGED <<screen[q], copy[q], doing[q]>>,
           \A b \in Blocks : Shows(p, b)' =>
              /\ Shows(p, b) \/ Viewers(b) = {}
              /\ InTransfer(b) => doing'[p].at = "idle"
              /\ Fresh(p, b)' \/ Contains(doing'[p].left, b) \/ (copy'[p] = copy[p] /\ doing'[p].left = doing[p].left /\ Shows(p, b))
    PROVE  Shown'
<1>1. \A b \in Blocks : InTransfer(b)' = InTransfer(b) BY DEF InTransfer
<1>2. \A q \in Players, b \in Blocks : q # p => Shows(q, b)' = Shows(q, b) BY DEF Shows
<1>3. Apart'
    BY <1>1, <1>2 DEF Shown, Apart, Viewers
<1>4. Current'
    BY <1>1, <1>2 DEF Shown, Current, Fresh
<1> QED BY <1>3, <1>4 DEF Shown, TickType

\* What happens after a disturbance is not followed.
LEMMA ShownDisturbed ==
    ASSUME Shown, UNCHANGED tick, SessionType', disturbed'
    PROVE  Shown'
<1>1. TickType' BY DEF Shown, TickType
<1>2. disturbed' \/ (Apart /\ Current)' OBVIOUS
<1> QED BY <1>1, <1>2 DEF Shown

LEMMA ShownOpenBlocks ==
    ASSUME Shown, ~disturbed, NEW p \in Players, NEW shown \in Screens, OpenBlocks(p, shown)
    PROVE  Shown'
<1>1. SessionType'
    <2>1. screen' \in [Players -> Screens \cup {<<>>, <<Vehicle>>}] BY DEF OpenBlocks, Shown, SessionType
    <2>2. \A q \in Players, b \in Blocks : Contains(doing'[q].left, b) => Shows(q, b)'
        <3>1. doing[p].left = <<>> BY DEF OpenBlocks, IdleAt, Idle
        <3>2. \A q \in Players : q # p => screen'[q] = screen[q] BY DEF OpenBlocks, Shown, SessionType
        <3> QED BY <3>1, <3>2, EmptyContainsNothing DEF OpenBlocks, Shown, SessionType, Shows
    <2>3. \A q \in Players : doing[q].at \in {"click", "close", "checked"} => screen'[q] = screen[q]
        BY DEF OpenBlocks, IdleAt, Idle, Shown, SessionType
    <2> QED BY <2>1, <2>2, <2>3 DEF OpenBlocks, Shown, SessionType
<1>2. CASE disturbed' BY <1>1, <1>2, ShownDisturbed DEF OpenBlocks
<1>3. CASE ~disturbed'
    <2>1. \A q \in Players : q # p => UNCHANGED <<screen[q], copy[q], doing[q]>>
        BY DEF OpenBlocks, Shown, SessionType
    <2>2. ASSUME NEW b \in Blocks, Shows(p, b)'
          PROVE  /\ Viewers(b) = {} /\ Fresh(p, b)' /\ doing'[p].at = "idle"
        <3>1. screen'[p] = shown BY DEF OpenBlocks, Shown, SessionType
        <3>2. Contains(shown, b) /\ b \in Range(shown) BY <2>2, <3>1, ScreenOfBlocks DEF Shows
        <3>3. copy'[p][b] = store[b] BY <3>2 DEF OpenBlocks, Places, Shown, SessionType
        <3>4. Viewers(b) = {} BY <1>3, <3>2 DEF OpenBlocks
        <3>5. doing'[p].at = "idle" /\ store' = store BY DEF OpenBlocks, IdleAt, Idle
        <3> QED BY <3>3, <3>4, <3>5 DEF Fresh
    <2> QED BY <1>1, <1>3, <2>1, <2>2, OnlyOwn DEF OpenBlocks
<1> QED BY <1>2, <1>3

LEMMA ShownAtWork ==
    ASSUME Shown, ~disturbed, NEW p \in Players, ClickBlocks(p) \/ CloseBlocks(p)
    PROVE  Shown'
<1>0. screen[p] \in Screens /\ doing[p].at = "idle" /\ doing[p].left = <<>>
    <2>1. screen[p] # <<>> /\ ~OnVehicle(p) /\ IdleAt(p) BY DEF ClickBlocks, CloseBlocks
    <2>2. Contains(<<Vehicle>>, Vehicle) BY DEF Contains
    <2> QED BY <2>1, <2>2 DEF OnVehicle, Shows, IdleAt, Idle, Shown, SessionType
<1>1. /\ UNCHANGED <<store, screen, tick>> /\ disturbed' = (disturbed \/ Meets(p))
      /\ \E at \in {"click", "close"} : doing' = [doing EXCEPT ![p] = [at |-> at, left |-> screen[p]]]
    BY DEF ClickBlocks, CloseBlocks
<1>2. \A q \in Players : q # p => UNCHANGED <<screen[q], copy[q], doing[q]>>
    BY <1>1 DEF ClickBlocks, CloseBlocks, Handle, Shown, SessionType
<1>3. DOMAIN copy' = Players BY DEF ClickBlocks, CloseBlocks, Handle, Shown, SessionType
<1>4. doing'[p].at \in {"click", "close"} /\ doing'[p].left = screen[p] BY <1>1 DEF Shown, SessionType
<1>5. SessionType'
    <2>1. screen[p] \in Seq(Blocks) BY <1>0, ScreenOfBlocks
    <2>2. doing' \in [Players -> [at : {"idle", "click", "close", "checked"}, left : Seq(Blocks)]]
        BY <1>1, <2>1 DEF Shown, SessionType
    <2> QED BY <1>0, <1>1, <1>2, <1>3, <1>4, <2>2 DEF Shown, SessionType, Shows
<1>6. CASE disturbed' BY <1>1, <1>5, <1>6, ShownDisturbed
<1>7. CASE ~disturbed'
    <2>1. ASSUME NEW b \in Blocks, Shows(p, b)'
          PROVE  Shows(p, b) /\ ~InTransfer(b) /\ Contains(doing'[p].left, b)
        <3>1. Contains(screen[p], b) /\ b \in Range(screen[p]) BY <1>0, <1>1, <2>1, ScreenOfBlocks DEF Shows
        <3> QED BY <1>1, <1>4, <1>7, <3>1 DEF Meets, Shows
    <2> QED BY <1>1, <1>2, <1>5, <1>7, <2>1, OnlyOwn
<1> QED BY <1>6, <1>7

LEMMA ShownHandled ==
    ASSUME Shown, ~disturbed, NEW p \in Players, Handled(p)
    PROVE  Shown'
<1>1. doing[p].left = <<>> /\ doing' = [doing EXCEPT ![p] = Idle] /\ UNCHANGED <<store, tick, disturbed>>
    BY DEF Handled, history
<1>2. \A q \in Players : q # p => UNCHANGED <<screen[q], copy[q], doing[q]>>
    BY DEF Handled, Shown, SessionType
<1>3. \/ UNCHANGED <<screen, copy>>
      \/ screen' = [screen EXCEPT ![p] = <<>>] /\ DOMAIN copy' = Players
    BY DEF Handled, Shown, SessionType
<1>4. doing'[p].at = "idle" /\ doing'[p].left = <<>> BY <1>1 DEF Idle, Shown, SessionType
<1>5. SessionType'
    <2>1. doing' \in [Players -> [at : {"idle", "click", "close", "checked"}, left : Seq(Blocks)]]
        BY <1>1, EmptySeq DEF Idle, Shown, SessionType
    <2>2. screen' \in [Players -> Screens \cup {<<>>, <<Vehicle>>}] /\ DOMAIN copy' = Players
        BY <1>3 DEF Shown, SessionType
    <2> QED BY <1>1, <1>2, <1>4, <2>1, <2>2, EmptyContainsNothing DEF Shown, SessionType, Shows
<1>6. \A b \in Blocks : Shows(p, b)' => Shows(p, b) /\ copy'[p] = copy[p]
    BY <1>3, EmptyContainsNothing DEF Shows, Shown, SessionType
<1> QED BY <1>1, <1>2, <1>4, <1>5, <1>6, OnlyOwn

LEMMA ShownVehicle ==
    ASSUME Shown, ~disturbed, NEW p \in Players,
           OpenVehicle(p) \/ CheckVehicle(p) \/ ClickVehicle(p) \/ CloseVehicle(p)
    PROVE  Shown'
<1>0. UNCHANGED <<store, tick, disturbed>>
    BY DEF OpenVehicle, CheckVehicle, ClickVehicle, CloseVehicle, history
<1>1. \A q \in Players : q # p => UNCHANGED <<screen[q], copy[q], doing[q]>>
    BY DEF OpenVehicle, CheckVehicle, ClickVehicle, CloseVehicle, Handle, Shown, SessionType
<1>2. doing[p].at \in {"idle", "checked"} /\ doing[p].left = <<>>
    BY DEF OpenVehicle, CheckVehicle, ClickVehicle, CloseVehicle, IdleAt, Idle, Shown, SessionType
<1>3. screen' \in [Players -> Screens \cup {<<>>, <<Vehicle>>}] /\ screen'[p] \in {<<>>, <<Vehicle>>}
    <2>1. ASSUME OnVehicle(p) PROVE screen[p] = <<Vehicle>>
        BY <2>1, ScreenOfBlocks, EmptyContainsNothing DEF OnVehicle, Shows, Shown, SessionType
    <2> QED BY <2>1 DEF OpenVehicle, CheckVehicle, ClickVehicle, CloseVehicle, Shown, SessionType
<1>4. DOMAIN copy' = Players
    BY DEF OpenVehicle, CheckVehicle, ClickVehicle, CloseVehicle, Handle, Shown, SessionType
<1>5. /\ doing'[p].left = <<>> /\ doing'[p].at \in {"idle", "checked"}
      /\ doing'[p].at = "checked" => screen'[p] = <<Vehicle>>
      /\ doing' \in [Players -> [at : {"idle", "click", "close", "checked"}, left : Seq(Blocks)]]
    <2>1. CASE OpenVehicle(p) \/ CloseVehicle(p)
        BY <1>2, <2>1 DEF OpenVehicle, CloseVehicle, IdleAt, Idle, Shown, SessionType
    <2>2. CASE CheckVehicle(p)
        <3>1. screen[p] = <<Vehicle>>
            BY <2>2, ScreenOfBlocks, EmptyContainsNothing DEF CheckVehicle, OnVehicle, Shows, Shown, SessionType
        <3> QED BY <1>2, <2>2, <3>1 DEF CheckVehicle, Shown, SessionType
    <2>3. CASE ClickVehicle(p)
        BY <2>3, EmptySeq DEF ClickVehicle, Idle, Shown, SessionType
    <2> QED BY <2>1, <2>2, <2>3
<1>6. \A b \in Blocks : ~Shows(p, b)'
    BY <1>3, VehicleIsNoBlock, EmptyContainsNothing DEF Shows
<1>7. SessionType'
    <2>1. \A q \in Players : doing'[q].at \in {"idle", "checked"} => doing'[q].left = <<>>
        BY <1>1, <1>5 DEF Shown, SessionType
    <2>2. \A q \in Players : doing'[q].at = "checked" => screen'[q] = <<Vehicle>>
        BY <1>1, <1>5 DEF Shown, SessionType
    <2>3. \A q \in Players : doing'[q].at \in {"click", "close"} => screen'[q] \in Screens
        BY <1>1, <1>5 DEF Shown, SessionType
    <2>4. \A q \in Players, b \in Blocks : Contains(doing'[q].left, b) => Shows(q, b)'
        <3> SUFFICES ASSUME NEW q \in Players, NEW b \in Blocks, Contains(doing'[q].left, b) PROVE Shows(q, b)'
            OBVIOUS
        <3>1. q # p BY <1>5, EmptyContainsNothing
        <3> QED BY <1>1, <3>1 DEF Shown, SessionType, Shows
    <2> QED BY <1>0, <1>3, <1>4, <1>5, <2>1, <2>2, <2>3, <2>4 DEF Shown, SessionType
<1> QED BY <1>0, <1>1, <1>6, <1>7, OnlyOwn

\* One half of the copy is put back.
LEMMA ShownPersist ==
    ASSUME Shown, ~disturbed, NEW p \in Players, PersistContents(p)
    PROVE  Shown'
<1> DEFINE left == doing[p].left
           x == Head(left)
<1>1. /\ left # <<>> /\ store' = [store EXCEPT ![x] = copy[p][x]]
      /\ doing' = [doing EXCEPT ![p].left = Tail(left)] /\ UNCHANGED <<screen, copy, tick, disturbed>>
    BY DEF PersistContents, SaveCopy, history
<1>2. left \in Seq(Blocks) BY DEF Shown, SessionType
<1>3. x \in Blocks /\ Tail(left) \in Seq(Blocks) BY <1>1, <1>2, HeadTailProperties
<1>4. /\ \A b : Contains(left, b) => b = x \/ Contains(Tail(left), b)
      /\ \A b : Contains(Tail(left), b) => Contains(left, b)
      /\ Contains(left, x)
    BY <1>1, <1>2, ContainsTail
<1> HIDE DEF x
<1>5. doing[p].at \in {"click", "close"} BY <1>1 DEF Shown, SessionType
<1>6. doing'[p].left = Tail(left) /\ doing'[p].at = doing[p].at
      /\ \A q \in Players : q # p => doing'[q] = doing[q]
    BY <1>1 DEF Shown, SessionType
<1>7. SessionType'
    <2>1. doing' \in [Players -> [at : {"idle", "click", "close", "checked"}, left : Seq(Blocks)]]
        BY <1>1, <1>3 DEF Shown, SessionType
    <2> QED BY <1>1, <1>4, <1>5, <1>6, <2>1 DEF Shown, SessionType, Shows
<1>8. Shows(p, x) /\ ~InTransfer(x) BY <1>3, <1>4, <1>5 DEF Shown, SessionType, Apart
<1>9. \A b \in Blocks, q \in Players : InTransfer(b)' = InTransfer(b) /\ Shows(q, b)' = Shows(q, b)
    BY <1>1 DEF InTransfer, Shows
<1>10. Apart' BY <1>6, <1>9 DEF Shown, Apart
<1>11. ASSUME NEW q \in Players, NEW b \in Blocks, Shows(q, b)
       PROVE  \/ Fresh(q, b)' \/ Contains(doing'[q].left, b) \/ (InTransfer(b) /\ tick.stage = "half")
              \/ (InTransfer(b) /\ tick.stage = "telling" /\ q \in tick.viewers)
    <2>1. CASE b = x
        <3>1. q = p BY <1>8, <1>11, <2>1 DEF Shown, Apart
        <3>2. store'[b] = copy[p][b] BY <1>1, <1>3, <2>1 DEF Shown, SessionType
        <3>3. copy'[p][b] = copy[p][b] BY <1>1
        <3>4. Fresh(q, b)' BY <3>1, <3>2, <3>3 DEF Fresh
        <3> QED BY <3>4
    <2>2. CASE b # x
        <3>1. store'[b] = store[b] BY <1>1, <2>2 DEF Shown, SessionType
        <3>2. Contains(doing[q].left, b) => Contains(doing'[q].left, b) BY <1>4, <1>6, <2>2
        <3>3. Fresh(q, b) => Fresh(q, b)' BY <1>1, <3>1 DEF Fresh
        <3>4. Current BY DEF Shown
        <3>5. \/ Fresh(q, b) \/ Contains(doing[q].left, b)
              \/ (InTransfer(b) /\ tick.stage = "half")
              \/ (InTransfer(b) /\ tick.stage = "telling" /\ q \in tick.viewers)
            BY <1>11, <3>4 DEF Current
        <3> QED BY <3>2, <3>3, <3>5
    <2> QED BY <2>1, <2>2
<1>12. Current' BY <1>1, <1>9, <1>11 DEF Current
<1> QED BY <1>1, <1>7, <1>10, <1>12 DEF Shown, TickType

LEMMA ShownBreak ==
    ASSUME Shown, ~disturbed, NEW b \in Blocks, BreakBlock(b)
    PROVE  Shown'
<1>1. /\ store' = [store EXCEPT ![b] = 0] /\ UNCHANGED <<screen, copy, doing, tick>>
      /\ disturbed' = (disturbed \/ Viewers(b) # {} \/ InTransfer(b))
    BY DEF BreakBlock, sessionVars
<1>2. SessionType' BY <1>1 DEF Shown, SessionType, Shows
<1>3. CASE disturbed' BY <1>1, <1>2, <1>3, ShownDisturbed
<1>4. CASE ~disturbed'
    <2>1. \A q \in Players : ~Shows(q, b) BY <1>1, <1>4 DEF Viewers
    <2>2. \A c \in Blocks : c # b => store'[c] = store[c] BY <1>1 DEF Shown, SessionType
    <2>3. Apart' BY <1>1, <1>4 DEF Shown, Apart, Shows, InTransfer
    <2>4. Current' BY <1>1, <1>4, <2>1, <2>2 DEF Shown, Current, Shows, InTransfer, Fresh
    <2> QED BY <1>1, <1>2, <2>3, <2>4 DEF Shown, TickType
<1> QED BY <1>3, <1>4

----------------------------------------------------------------------------
(* The tick. *)

LEMMA TickTyped == Shown /\ TickStep => TickType'
<1>1. DOMAIN IdleTick = Fields BY DEF IdleTick, Fields
<1>2. ASSUME Shown, TickStep PROVE TickType'
    <2> DOMAIN tick = Fields BY <1>2 DEF Shown, TickType
    <2>1. \A f, t : DOMAIN Transfer(f, t) = Fields BY DEF Transfer
    <2>2. DOMAIN Visited = Fields BY DEF Visited
    <2>3. CASE AutomationBegins \/ AutomationEnds \/ SkipHopper \/ VisitHopper
        BY <1>1, <2>1, <2>2, <2>3 DEF AutomationBegins, AutomationEnds, SkipHopper, VisitHopper, TickType
    <2>4. CASE LoadSource \/ LoadDestination \/ NoContainer \/ SaveSource \/ SaveDestination
        BY <2>4 DEF LoadSource, LoadDestination, NoContainer, SaveSource, SaveDestination, TickType
    <2>5. CASE PullInstead \/ CollectDropped \/ Told
        BY <2>1, <2>2, <2>5 DEF PullInstead, CollectDropped, Told, TickType
    <2>6. CASE \E p \in Players : RefreshScreen(p) BY <2>6 DEF RefreshScreen, TickType
    <2> QED BY <1>2, <2>3, <2>4, <2>5, <2>6 DEF TickStep
<1> QED BY <1>2

\* A step of the tick that saves nothing and tells nobody.
LEMMA ShownQuiet ==
    ASSUME Shown, ~disturbed, UNCHANGED <<store, screen, copy, doing>>, TickType',
           tick.stage # "half", tick.stage = "telling" => tick.viewers = {},
           disturbed' \/ \A b \in Blocks, p \in Players : InTransfer(b)' /\ Shows(p, b) => doing[p].at = "idle"
    PROVE  Shown'
<1>1. SessionType' BY DEF Shown, SessionType, Shows
<1>2. \A p \in Players, b \in Blocks : Shows(p, b)' = Shows(p, b) /\ Fresh(p, b)' = Fresh(p, b)
    BY DEF Shows, Fresh
<1>3. Current' BY <1>2 DEF Shown, Current
<1>4. disturbed' \/ Apart' BY <1>2 DEF Shown, Apart
<1> QED BY <1>1, <1>3, <1>4 DEF Shown

LEMMA ShownLoad ==
    ASSUME Shown, ~disturbed, LoadSource
    PROVE  Shown'
<1>1. TickType' BY TickTyped DEF TickStep
<1>2. /\ UNCHANGED <<store, screen, copy, doing>> /\ tick.stage = "load" /\ tick'.move = tick.move
      /\ disturbed' = (disturbed \/ AtWork(tick.move.src) \/ AtWork(tick.move.dst))
    BY DEF LoadSource, sessionVars, Shown, TickType, Fields
<1>3. ASSUME ~disturbed', NEW b \in Blocks, NEW p \in Players, InTransfer(b)', Shows(p, b)
      PROVE  doing[p].at = "idle"
    <2>1. b = tick.move.src \/ b = tick.move.dst BY <1>2, <1>3 DEF InTransfer
    <2>2. ~AtWork(b) BY <1>2, <1>3, <2>1
    <2>3. doing[p].at \notin {"click", "close"} BY <1>3, <2>2 DEF AtWork, Viewers
    <2>4. doing[p].at # "checked" BY <1>3, VehicleIsNoBlock DEF Shown, SessionType, Shows
    <2>5. doing[p].at \in {"idle", "click", "close", "checked"} BY DEF Shown, SessionType
    <2> QED BY <2>3, <2>4, <2>5
<1>4. CASE disturbed' BY <1>1, <1>2, <1>4, ShownQuiet
<1>5. CASE ~disturbed' BY <1>1, <1>2, <1>3, <1>5, ShownQuiet
<1> QED BY <1>4, <1>5

LEMMA ShownMoves ==
    ASSUME Shown, ~disturbed,
           \/ AutomationBegins \/ AutomationEnds \/ SkipHopper \/ VisitHopper
           \/ LoadDestination \/ NoContainer \/ PullInstead \/ Told
           \/ CollectDropped /\ UNCHANGED <<store, disturbed>> /\ tick' = Visited
    PROVE  Shown'
<1>1. TickType' BY TickTyped DEF TickStep
<1>2. UNCHANGED <<store, screen, copy, doing, disturbed>>
    BY DEF AutomationBegins, AutomationEnds, SkipHopper, VisitHopper, LoadDestination, NoContainer, PullInstead,
       Told, CollectDropped, sessionVars, history
<1>3. tick.stage # "half" /\ (tick.stage = "telling" => tick.viewers = {})
    BY DEF AutomationBegins, AutomationEnds, SkipHopper, VisitHopper, LoadDestination, NoContainer, PullInstead,
       Told, CollectDropped
<1>4. DOMAIN tick = Fields BY DEF Shown, TickType
<1>5. /\ \A f, t : Transfer(f, t).stage = "load" /\ Visited.stage = "visit" /\ IdleTick.stage = "idle"
      /\ [IdleTick EXCEPT !.stage = "visit", !.left = Hoppers, !.begun = [h \in Hoppers |-> store[h]]].stage = "visit"
      /\ [tick EXCEPT !.stage = "failed"].stage = "failed"
    BY <1>4 DEF Transfer, Visited, IdleTick, Fields
<1>6. ASSUME NEW b \in Blocks, InTransfer(b)' PROVE InTransfer(b)
    <2>1. tick'.stage \in {"loaded", "saving", "half", "telling"} /\ b \in {tick'.move.src, tick'.move.dst}
        BY <1>6 DEF InTransfer
    <2>2. LoadDestination
        <3>1. ~AutomationBegins /\ ~AutomationEnds BY <1>5, <2>1 DEF AutomationBegins, AutomationEnds
        <3>2. ~SkipHopper /\ ~Told /\ tick' # Visited BY <1>5, <2>1 DEF SkipHopper, Told
        <3>3. ~VisitHopper /\ ~PullInstead BY <1>5, <2>1 DEF VisitHopper, PullInstead
        <3>4. ~NoContainer BY <1>5, <2>1 DEF NoContainer
        <3> QED BY <3>1, <3>2, <3>3, <3>4
    <2>3. tick.stage = "loaded" /\ tick'.move = tick.move BY <1>4, <2>2 DEF LoadDestination, Fields
    <2> QED BY <2>1, <2>3 DEF InTransfer
<1>7. \A b \in Blocks, p \in Players : InTransfer(b)' /\ Shows(p, b) => doing[p].at = "idle"
    BY <1>6 DEF Shown, Apart
<1> QED BY <1>1, <1>2, <1>3, <1>7, ShownQuiet

LEMMA ShownSaves ==
    ASSUME Shown, ~disturbed, SaveSource \/ SaveDestination
    PROVE  Shown'
<1>1. TickType' BY TickTyped DEF TickStep
<1>2. UNCHANGED <<screen, copy, doing, disturbed>> BY DEF SaveSource, SaveDestination, sessionVars, history
<1>3. DOMAIN tick = Fields BY DEF Shown, TickType
<1>4. /\ tick.stage \in {"saving", "half"} /\ tick'.stage \in {"half", "telling"} /\ tick'.move = tick.move
      /\ \A b \in Blocks : b \notin {tick.move.src, tick.move.dst} => store'[b] = store[b]
    BY <1>3 DEF SaveSource, SaveDestination, Fields, Shown, SessionType
<1>5. SessionType' BY <1>2 DEF SaveSource, SaveDestination, Shown, SessionType, Shows
<1>6. \A b \in Blocks, p \in Players : InTransfer(b)' = InTransfer(b) /\ Shows(p, b)' = Shows(p, b)
    BY <1>2, <1>4 DEF InTransfer, Shows
<1>7. Apart' BY <1>2, <1>6 DEF Shown, Apart
<1>8. Current'
    <2> SUFFICES ASSUME NEW p \in Players, NEW b \in Blocks, Shows(p, b)'
                 PROVE  \/ Fresh(p, b)'
                        \/ Contains(doing'[p].left, b)
                        \/ InTransfer(b)' /\ tick'.stage = "half"
                        \/ InTransfer(b)' /\ tick'.stage = "telling" /\ p \in tick'.viewers
        BY DEF Current
    <2>1. CASE b \in {tick.move.src, tick.move.dst}
        <3>1. InTransfer(b)' BY <1>4, <1>6, <2>1 DEF InTransfer
        <3>2. CASE tick'.stage = "half" BY <3>1, <3>2
        <3>3. CASE tick'.stage = "telling"
            <4>1. tick'.viewers = ToTell({tick.move.src, tick.move.dst})
                BY <1>3, <3>3 DEF SaveSource, SaveDestination, Fields
            <4>2. p \in Viewers(b) BY <1>6 DEF Viewers
            <4> QED BY <2>1, <3>1, <3>3, <4>1, <4>2 DEF ToTell
        <3> QED BY <1>4, <3>2, <3>3
    <2>2. CASE b \notin {tick.move.src, tick.move.dst}
        <3>1. ~InTransfer(b) BY <2>2 DEF InTransfer
        <3>2. Fresh(p, b) \/ Contains(doing[p].left, b) BY <1>6, <3>1 DEF Shown, Current
        <3>3. Fresh(p, b) => Fresh(p, b)' BY <1>2, <1>4, <2>2 DEF Fresh
        <3> QED BY <1>2, <3>2, <3>3
    <2> QED BY <2>1, <2>2
<1> QED BY <1>1, <1>5, <1>7, <1>8 DEF Shown

LEMMA ShownCollect ==
    ASSUME Shown, ~disturbed, CollectDropped
    PROVE  Shown'
<1>1. CASE tick' = Visited /\ UNCHANGED <<store, disturbed>> BY <1>1, ShownMoves
<1>2. CASE ~(tick' = Visited /\ UNCHANGED <<store, disturbed>>)
    <2> DEFINE v == Visiting
    <2>1. /\ tick.stage = "failed" /\ v \in NearDrops /\ store' = [store EXCEPT ![v] = @ + 1]
          /\ tick' = [tick EXCEPT !.stage = "telling", !.received = MarkReceived(v),
                                  !.move = [src |-> v, dst |-> v], !.viewers = ToTell({v})]
          /\ disturbed' = (disturbed \/ AtWork(v)) /\ UNCHANGED <<screen, copy, doing>>
        BY <1>2 DEF CollectDropped, sessionVars
    <2> HIDE DEF v
    <2>2. v \in Blocks BY <2>1, ContainersAssumption
    <2>3. tick'.stage = "telling" /\ tick'.move.src = v /\ tick'.move.dst = v /\ tick'.viewers = ToTell({v})
        BY <2>1 DEF Fields, Shown, TickType
    <2>4. SessionType' BY <2>1 DEF Shown, SessionType, Shows
    <2>5. \A b \in Blocks, p \in Players :
             ~InTransfer(b) /\ (InTransfer(b)' <=> b = v) /\ Shows(p, b)' = Shows(p, b)
        BY <2>1, <2>3 DEF InTransfer, Shows
    <2>6. TickType' BY TickTyped DEF TickStep
    <2>7. disturbed' \/ Apart'
        <3> SUFFICES ASSUME ~disturbed' PROVE Apart'
            OBVIOUS
        <3>1. ~AtWork(v) BY <2>1
        <3>2. ASSUME NEW p \in Players, Shows(p, v) PROVE doing[p].at = "idle"
            <4>1. doing[p].at \notin {"click", "close"} BY <3>1, <3>2 DEF AtWork, Viewers
            <4>2. doing[p].at # "checked" BY <2>2, <3>2, VehicleIsNoBlock DEF Shown, SessionType, Shows
            <4>3. doing[p].at \in {"idle", "click", "close", "checked"} BY DEF Shown, SessionType
            <4> QED BY <4>1, <4>2, <4>3
        <3> QED BY <2>1, <2>5, <3>2 DEF Shown, Apart
    <2>8. Current'
        <3> SUFFICES ASSUME NEW p \in Players, NEW b \in Blocks, Shows(p, b)'
                     PROVE  \/ Fresh(p, b)'
                            \/ Contains(doing'[p].left, b)
                            \/ InTransfer(b)' /\ tick'.stage = "telling" /\ p \in tick'.viewers
            BY DEF Current
        <3>1. CASE b = v
            <4>1. p \in Viewers(v) BY <2>5, <3>1 DEF Viewers
            <4> QED BY <2>3, <2>5, <3>1, <4>1 DEF ToTell
        <3>2. CASE b # v
            <4>1. Fresh(p, b) \/ Contains(doing[p].left, b) BY <2>5 DEF Shown, Current
            <4>2. store'[b] = store[b] BY <2>1, <3>2 DEF Shown, SessionType
            <4>3. Fresh(p, b) => Fresh(p, b)' BY <2>1, <4>2 DEF Fresh
            <4> QED BY <2>1, <4>1, <4>3
        <3> QED BY <3>1, <3>2
    <2> QED BY <2>4, <2>6, <2>7, <2>8 DEF Shown
<1> QED BY <1>1, <1>2

LEMMA ShownRefresh ==
    ASSUME Shown, ~disturbed, NEW p \in Players, RefreshScreen(p)
    PROVE  Shown'
<1>1. /\ UNCHANGED <<store, screen, doing, disturbed>> /\ tick.stage = "telling" /\ tick'.stage = "telling"
      /\ tick'.move = tick.move /\ tick'.viewers = tick.viewers \ {p}
    BY DEF RefreshScreen, history, Fields, Shown, TickType
<1>2. TickType' BY TickTyped DEF TickStep
<1>3. /\ DOMAIN copy' = Players /\ \A q \in Players : q # p => copy'[q] = copy[q]
      /\ \A b \in Blocks : Shows(p, b) => copy'[p][b] = store[b]
    BY DEF RefreshScreen, Shown, SessionType, Places
<1>4. SessionType' BY <1>1, <1>3 DEF Shown, SessionType, Shows
<1>5. \A b \in Blocks, q \in Players : InTransfer(b)' = InTransfer(b) /\ Shows(q, b)' = Shows(q, b)
    BY <1>1 DEF InTransfer, Shows
<1>6. Apart' BY <1>1, <1>5 DEF Shown, Apart
<1>7. Current'
    <2> SUFFICES ASSUME NEW q \in Players, NEW b \in Blocks, Shows(q, b)'
                 PROVE  \/ Fresh(q, b)'
                        \/ Contains(doing'[q].left, b)
                        \/ InTransfer(b)' /\ tick'.stage = "telling" /\ q \in tick'.viewers
        BY DEF Current
    <2>1. CASE q = p BY <1>1, <1>3, <1>5, <2>1 DEF Fresh
    <2>2. CASE q # p
        <3>1. \/ Fresh(q, b) \/ Contains(doing[q].left, b)
              \/ (InTransfer(b) /\ tick.stage = "telling" /\ q \in tick.viewers)
            BY <1>1, <1>5 DEF Shown, Current
        <3>2. Fresh(q, b) => Fresh(q, b)' BY <1>1, <1>3, <2>2 DEF Fresh
        <3> QED BY <1>1, <1>5, <2>2, <3>1, <3>2
    <2> QED BY <2>1, <2>2
<1> QED BY <1>1, <1>2, <1>4, <1>6, <1>7 DEF Shown

----------------------------------------------------------------------------

LEMMA ShownInit == Init => Shown
<1> SUFFICES ASSUME Init PROVE Shown
    OBVIOUS
<1>1. TickType BY DEF Init, IdleTick, TickType, Fields
<1>2. \A p \in Players, b \in Blocks : ~Shows(p, b) BY EmptyContainsNothing DEF Init, Shows
<1>3. SessionType BY EmptySeq, EmptyContainsNothing DEF Init, Idle, SessionType
<1> QED BY <1>1, <1>2, <1>3 DEF Shown, Apart, Current

LEMMA ShownStep == Shown /\ [Next]_vars => Shown'
<1> SUFFICES ASSUME Shown, [Next]_vars PROVE Shown'
    OBVIOUS
<1>1. CASE UNCHANGED vars
    <2>1. SessionType' /\ TickType' BY <1>1 DEF vars, Shown, SessionType, TickType, Shows
    <2>2. (disturbed \/ (Apart /\ Current))' BY <1>1 DEF vars, Shown, Apart, Current, Shows, InTransfer, Fresh
    <2> QED BY <2>1, <2>2 DEF Shown
<1>2. CASE Next
    <2>0. ~disturbed BY <1>2 DEF Next
    <2>1. ASSUME NEW p \in Players, SessionStep(p) PROVE Shown'
        BY <2>0, <2>1, ShownOpenBlocks, ShownAtWork, ShownPersist, ShownHandled, ShownVehicle DEF SessionStep
    <2>2. CASE TickStep
        BY <2>0, <2>2, ShownLoad, ShownMoves, ShownSaves, ShownCollect, ShownRefresh DEF TickStep
    <2>3. ASSUME NEW b \in Breakable, BreakBlock(b) PROVE Shown'
        BY <2>0, <2>3, ShownBreak, ContainersAssumption
    <2>4. CASE VehicleDies \/ Drain
        <3>1. UNCHANGED <<store, screen, copy, doing, tick, disturbed>>
            BY <2>4 DEF VehicleDies, Drain, sessionVars, history
        <3>2. SessionType' /\ TickType' BY <3>1 DEF Shown, SessionType, TickType, Shows
        <3>3. (disturbed \/ (Apart /\ Current))' BY <3>1 DEF Shown, Apart, Current, Shows, InTransfer, Fresh
        <3> QED BY <3>2, <3>3 DEF Shown
    <2> QED BY <1>2, <2>1, <2>2, <2>3, <2>4 DEF Next
<1> QED BY <1>1, <1>2

\* Whatever is clicked, opened, closed, broken and moved by hoppers: between two packets and
\* outside a transfer, the only screen on a block container shows what the world keeps
\* (container_automation.go:332), so that the next click writes no stale stack back.
THEOREM ScreensAlwaysCurrent == Spec => []ScreensCurrent
<1>1. Shown => ScreensCurrent
    <2> SUFFICES ASSUME Shown, ~disturbed, NEW p \in Players, NEW b \in Blocks,
                        Shows(p, b), IdleAt(p), ~InTransfer(b)
                 PROVE  copy[p][b] = store[b]
        BY DEF ScreensCurrent
    <2>1. ~Contains(doing[p].left, b) BY EmptyContainsNothing DEF IdleAt, Idle
    <2> QED BY <2>1 DEF Shown, Current, Fresh
<1> QED BY <1>1, ShownInit, ShownStep, PTL DEF Spec
----------------------------------------------------------------------------
(* Hoppers.  A hopper that has received may still be taken from only by one *)
(* below it, and those are visited before anything can reach it.            *)

\* Visiting's transfer is under way; once it is told of, the hopper is left.
Working == tick.stage \in {"load", "loaded", "saving", "half", "failed"}

\* Hoppers only the tick fills and empties, but for their being broken.
Quiet == {h \in Hoppers : Unattended(h)}

HopperType ==
    /\ tick.stage \in {"idle", "visit", "load", "loaded", "saving", "half", "failed", "telling"}
    /\ tick.left \subseteq Hoppers /\ tick.received \subseteq Hoppers
    /\ DOMAIN tick.gave = Hoppers
    /\ \A h \in Quiet : store[h] \in Nat /\ tick.gave[h] \in Nat /\ tick.begun[h] \in Nat

\* A push or a pull of a hopper that has received nothing, itself to be left afterwards.
InOrder ==
    /\ tick.stage \in {"idle", "visit"} \/ tick.left # {}
    /\ Working => /\ Visiting \notin tick.received
                  /\ \/ tick.move = [src |-> Visiting, dst |-> Into[Visiting]]
                     \/ tick.move = [src |-> Above[Visiting], dst |-> Visiting]
    /\ \A h \in tick.received, g \in tick.left : Above[g] # h

\* What a transfer has loaded is what the containers hold.
Loaded ==
    /\ tick.stage = "loaded" /\ tick.move.src \in Quiet => tick.src = store[tick.move.src]
    /\ tick.stage = "saving" /\ tick.move.src \in Quiet =>
          tick.src \in Nat /\ tick.src + 1 = store[tick.move.src]
    /\ tick.stage \in {"saving", "half"} /\ tick.move.dst \in Quiet => tick.dst \in Nat

\* Until it receives, a hopper holds and has given away what it began with, or has lost some.
GivesItsOwn ==
    tick.stage # "idle" => \A h \in Quiet \ tick.received : tick.gave[h] + store[h] <= tick.begun[h]

Hops ==
    /\ HopperType /\ \A h \in Quiet : tick.gave[h] <= tick.begun[h]
    /\ disturbed \/ (InOrder /\ Loaded /\ GivesItsOwn)
\* The hopper that is visited is one of those left, and the others stand no lower.
LEMMA LowestFirst ==
    ASSUME tick.left \subseteq Hoppers, tick.left # {}
    PROVE  Visiting \in tick.left /\ \A g \in tick.left : Y[Visiting] <= Y[g]
<1> DEFINE heights == {Y[h] : h \in tick.left}
           low(y) == {h \in tick.left : Y[h] = y}
           places(y) == {X[h] : h \in low(y)}
<1>1. \A h \in tick.left : Y[h] \in Nat /\ X[h] \in Nat BY ContainersAssumption
<1>2. heights \in SUBSET Nat /\ heights # {} BY <1>1
<1>3. PICK y \in heights : \A z \in heights : y <= z BY <1>2, LeastNat
<1>4. places(y) \in SUBSET Nat /\ places(y) # {} BY <1>1, <1>3
<1>5. PICK x \in places(y) : \A z \in places(y) : x <= z BY <1>4, LeastNat
<1>6. PICK h \in low(y) : X[h] = x BY <1>5
<1>7. ASSUME NEW g \in tick.left \ {h} PROVE Lower(h, g)
    <2>1. Y[h] = y /\ y <= Y[g] /\ Y[g] \in Nat /\ y \in Nat BY <1>1, <1>3, <1>6
    <2>2. CASE Y[g] # y BY <2>1, <2>2 DEF Lower
    <2>3. CASE Y[g] = y
        <3>1. g \in low(y) /\ X[g] \in places(y) BY <2>3
        <3>2. X[h] <= X[g] /\ X[h] \in Nat /\ X[g] \in Nat BY <1>1, <1>5, <1>6, <3>1
        <3>3. X[h] # X[g]
            <4>1. h \in Hoppers /\ g \in Hoppers /\ g # h BY <1>6
            <4> QED BY <2>1, <2>3, <4>1, ContainersAssumption
        <3> QED BY <2>1, <2>3, <3>2, <3>3 DEF Lower
    <2> QED BY <2>2, <2>3
<1>8. Visiting \in tick.left /\ \A g \in tick.left \ {Visiting} : Lower(Visiting, g)
    BY <1>6, <1>7 DEF Visiting
<1> QED BY <1>1, <1>8 DEF Lower

\* The tick alone fills and empties a quiet hopper.
LEMMA HopsElsewhere ==
    ASSUME Hops, ~disturbed, UNCHANGED tick,
           \A h \in Quiet : store'[h] \in Nat /\ store'[h] <= store[h],
           \A h \in Quiet : InTransfer(h) => disturbed' \/ store'[h] = store[h]
    PROVE  Hops'
<1>1. HopperType' BY DEF Hops, HopperType, Quiet, Unattended
<1>2. InOrder' BY DEF Hops, InOrder, Working, Visiting
<1>3. ASSUME ~disturbed' PROVE Loaded'
    <2>1. \A h \in Quiet : InTransfer(h) => store'[h] = store[h] BY <1>3
    <2>2. Quiet \subseteq Blocks BY ContainersAssumption DEF Quiet
    <2>3. tick.stage \in {"loaded", "saving"} /\ tick.move.src \in Quiet => store'[tick.move.src] = store[tick.move.src]
        BY <2>1, <2>2 DEF InTransfer
    <2> QED BY <2>3 DEF Hops, Loaded, Quiet, Unattended
<1>4. GivesItsOwn'
    <2> SUFFICES ASSUME tick.stage # "idle", NEW h \in Quiet \ tick.received
                 PROVE  tick.gave[h] + store'[h] <= tick.begun[h]
        BY DEF GivesItsOwn, Quiet, Unattended
    <2>1. tick.gave[h] + store[h] <= tick.begun[h] BY DEF Hops, GivesItsOwn
    <2> QED BY <2>1 DEF Hops, HopperType
<1>5. \A h \in Quiet : tick.gave'[h] <= tick.begun'[h] BY DEF Hops
<1> QED BY <1>1, <1>2, <1>3, <1>4, <1>5 DEF Hops, Quiet, Unattended
LEMMA HopsSession ==
    ASSUME Shown, Hops, ~disturbed, NEW p \in Players, SessionStep(p)
    PROVE  Hops'
<1>1. UNCHANGED tick
    BY DEF SessionStep, OpenBlocks, ClickBlocks, CloseBlocks, PersistContents, Handled, OpenVehicle, CheckVehicle,
       ClickVehicle, CloseVehicle
<1>2. \A h \in Quiet : store'[h] = store[h]
    <2>1. CASE PersistContents(p)
        <3> DEFINE x == Head(doing[p].left)
        <3>1. doing[p].left \in Seq(Blocks) /\ doing[p].left # <<>> BY <2>1 DEF PersistContents, Shown, SessionType
        <3>2. Contains(doing[p].left, x) /\ x \in Blocks BY <3>1, ContainsTail, HeadTailProperties
        <3>3. Contains(screen[p], x) BY <3>2 DEF Shown, SessionType, Shows
        <3>4. screen[p] \in Screens BY <3>2, <3>3, EmptyContainsNothing, VehicleIsNoBlock DEF Shown, SessionType
        <3>5. x \notin Quiet BY <3>3, <3>4 DEF Quiet, Unattended
        <3>6. store' = [store EXCEPT ![x] = copy[p][x]] BY <2>1 DEF PersistContents, SaveCopy
        <3> QED BY <3>5, <3>6, ContainersAssumption DEF Shown, SessionType, Quiet
    <2>2. CASE ~PersistContents(p)
        BY <2>2 DEF SessionStep, OpenBlocks, ClickBlocks, CloseBlocks, Handled, OpenVehicle, CheckVehicle,
           ClickVehicle, CloseVehicle
    <2> QED BY <2>1, <2>2
<1> QED BY <1>1, <1>2, HopsElsewhere DEF Hops, HopperType

LEMMA HopsBreak ==
    ASSUME Shown, Hops, ~disturbed, NEW b \in Breakable, BreakBlock(b)
    PROVE  Hops'
<1>1. UNCHANGED tick /\ b \in Blocks /\ store' = [store EXCEPT ![b] = 0] /\ (InTransfer(b) => disturbed')
    BY ContainersAssumption DEF BreakBlock
<1>2. Quiet \subseteq Blocks /\ DOMAIN store = Blocks BY ContainersAssumption DEF Quiet, Shown, SessionType
<1>3. \A h \in Quiet : store'[h] = IF h = b THEN 0 ELSE store[h] BY <1>1, <1>2
<1>4. \A h \in Quiet : store[h] \in Nat BY DEF Hops, HopperType
<1> QED BY <1>1, <1>3, <1>4, HopsElsewhere

\* Visits, which move no item.
LEMMA HopsVisits ==
    ASSUME Shown, Hops, ~disturbed,
           \/ AutomationBegins \/ AutomationEnds \/ SkipHopper \/ VisitHopper \/ NoContainer \/ PullInstead \/ Told
           \/ CollectDropped /\ UNCHANGED <<store, disturbed>> /\ tick' = Visited
    PROVE  Hops'
<1>0. DOMAIN tick = Fields /\ UNCHANGED <<store, disturbed>> /\ HopperType /\ InOrder /\ GivesItsOwn
    BY DEF Shown, TickType, Hops, AutomationBegins, AutomationEnds, SkipHopper, VisitHopper, NoContainer, PullInstead,
       Told, sessionVars, history
<1>1. CASE AutomationBegins
    <2>1. /\ tick'.stage = "visit" /\ tick'.left = Hoppers /\ tick'.received = {}
          /\ tick'.gave = [h \in Hoppers |-> 0] /\ tick'.begun = [h \in Hoppers |-> store[h]]
        BY <1>1 DEF AutomationBegins, IdleTick
    <2>2. Quiet \subseteq Hoppers /\ \A h \in Quiet : store[h] \in Nat BY <1>0 DEF Quiet, HopperType
    <2>3. HopperType' BY <1>0, <2>1, <2>2 DEF HopperType, Quiet, Unattended
    <2>4. InOrder' /\ Loaded' BY <2>1 DEF InOrder, Loaded, Working
    <2>5. GivesItsOwn' /\ \A h \in Quiet : tick'.gave[h] <= tick'.begun[h]
        BY <1>0, <2>1, <2>2 DEF GivesItsOwn, Quiet, Unattended
    <2> QED BY <2>3, <2>4, <2>5 DEF Hops, Quiet, Unattended
<1>2. CASE AutomationEnds
    <2>1. /\ tick'.stage = "idle" /\ tick'.left = {} /\ tick'.received = {}
          /\ tick'.gave = [h \in Hoppers |-> 0] /\ tick'.begun = [h \in Hoppers |-> 0]
        BY <1>2 DEF AutomationEnds, IdleTick
    <2>2. Quiet \subseteq Hoppers BY DEF Quiet
    <2>3. HopperType' BY <1>0, <2>1, <2>2 DEF HopperType, Quiet, Unattended
    <2>4. InOrder' /\ Loaded' /\ GivesItsOwn' BY <2>1 DEF InOrder, Loaded, Working, GivesItsOwn
    <2>5. \A h \in Quiet : tick'.gave[h] <= tick'.begun[h] BY <2>1, <2>2
    <2> QED BY <2>3, <2>4, <2>5 DEF Hops, Quiet, Unattended
<1>3. CASE tick.stage # "idle" /\ tick' = Visited
    <2>1. /\ tick'.stage = "visit" /\ tick'.left \subseteq tick.left
          /\ UNCHANGED <<tick.received, tick.gave, tick.begun>>
        BY <1>0, <1>3 DEF Visited, Fields
    <2>2. HopperType' BY <1>0, <2>1 DEF HopperType, Quiet, Unattended
    <2>3. InOrder' BY <1>0, <2>1 DEF InOrder, Working
    <2>4. Loaded' /\ GivesItsOwn' BY <1>0, <1>3, <2>1 DEF Loaded, GivesItsOwn, Quiet, Unattended
    <2> QED BY <2>1, <2>2, <2>3, <2>4 DEF Hops, Quiet, Unattended
<1>4. CASE NoContainer \/ VisitHopper \/ PullInstead
    <2>1. /\ tick'.stage \in {"load", "failed"} /\ tick.stage # "idle" /\ tick.left # {}
          /\ UNCHANGED <<tick.left, tick.received, tick.gave, tick.begun>>
        BY <1>0, <1>4 DEF NoContainer, VisitHopper, PullInstead, Transfer, Fields, InOrder
    <2>2. /\ Visiting \notin tick.received
          /\ \/ tick'.move = [src |-> Visiting, dst |-> Into[Visiting]]
             \/ tick'.move = [src |-> Above[Visiting], dst |-> Visiting]
        BY <1>0, <1>4 DEF NoContainer, VisitHopper, PullInstead, Transfer, Fields, InOrder, Working, Received
    <2>3. HopperType' BY <1>0, <2>1 DEF HopperType, Quiet, Unattended
    <2>4. Visiting' = Visiting BY <2>1 DEF Visiting
    <2>5. InOrder' BY <1>0, <2>1, <2>2, <2>4 DEF InOrder
    <2>6. Loaded' /\ GivesItsOwn' BY <1>0, <2>1 DEF Loaded, GivesItsOwn, Quiet, Unattended
    <2> QED BY <2>1, <2>3, <2>5, <2>6 DEF Hops, Quiet, Unattended
<1> QED BY <1>1, <1>2, <1>3, <1>4 DEF SkipHopper, Told, CollectDropped
\* What a hopper that is visited takes from has not received: it is itself, or above it.
LEMMA SourceNotReceived ==
    ASSUME HopperType, InOrder, Working
    PROVE  /\ Visiting \in tick.left
           /\ tick.move.src \notin tick.received
           /\ tick.move.dst \in Hoppers => \A g \in tick.left : Above[g] # tick.move.dst
<1>1. tick.left \subseteq Hoppers /\ tick.left # {} BY DEF HopperType, InOrder, Working
<1>2. Visiting \in tick.left /\ \A g \in tick.left : Y[Visiting] <= Y[g] BY <1>1, LowestFirst
<1>3. Above[Visiting] \notin tick.received BY <1>2 DEF InOrder
<1>4. tick.move.src \notin tick.received BY <1>3 DEF InOrder
<1>5. ASSUME tick.move.dst \in Hoppers, NEW g \in tick.left PROVE Above[g] # tick.move.dst
    <2>1. Y[tick.move.dst] <= Y[Visiting]
        BY <1>1, <1>2, <1>5, ContainersAssumption DEF InOrder
    <2>2. Above[g] = tick.move.dst => Y[tick.move.dst] = Y[g] + 1 BY <1>1, <1>5, ContainersAssumption
    <2>3. Y[tick.move.dst] \in Nat /\ Y[g] \in Nat /\ Y[Visiting] \in Nat BY <1>1, <1>2, <1>5, ContainersAssumption
    <2> QED BY <1>2, <2>1, <2>2, <2>3
<1> QED BY <1>2, <1>4, <1>5

LEMMA HopsLoad ==
    ASSUME Shown, Hops, ~disturbed, LoadSource \/ LoadDestination
    PROVE  Hops'
<1>1. DOMAIN tick = Fields /\ HopperType /\ InOrder /\ Loaded /\ GivesItsOwn BY DEF Shown, TickType, Hops
<1>2. /\ UNCHANGED <<store, tick.left, tick.move, tick.received, tick.gave, tick.begun>>
      /\ tick.stage \in {"load", "loaded"} /\ tick'.stage \in {"loaded", "saving", "failed"}
    BY <1>1 DEF LoadSource, LoadDestination, Fields
<1>3. HopperType' BY <1>1, <1>2 DEF HopperType, Quiet, Unattended
<1>4. InOrder' BY <1>1, <1>2 DEF InOrder, Working, Visiting
<1>5. GivesItsOwn' BY <1>1, <1>2 DEF GivesItsOwn, Quiet, Unattended
<1>6. Loaded'
    <2>1. CASE LoadSource
        <3>1. tick'.stage = "loaded" /\ tick'.src = store[tick.move.src] BY <1>1, <2>1 DEF LoadSource, Fields
        <3> QED BY <1>2, <3>1 DEF Loaded, Quiet, Unattended
    <2>2. CASE LoadDestination
        <3>1. \/ tick'.stage = "failed"
              \/ /\ tick'.stage = "saving" /\ tick.stage = "loaded" /\ tick.src > 0
                 /\ tick'.src = tick.src - 1 /\ tick'.dst = store[tick.move.dst] + 1
            BY <1>1, <2>2 DEF LoadDestination, Fields
        <3>2. \A h \in Quiet : store[h] \in Nat BY <1>1 DEF HopperType
        <3> QED BY <1>1, <1>2, <3>1, <3>2 DEF Loaded, Quiet, Unattended
    <2> QED BY <2>1, <2>2
<1>7. \A h \in Quiet : tick'.gave[h] <= tick'.begun[h] BY <1>2 DEF Hops
<1> QED BY <1>3, <1>4, <1>5, <1>6, <1>7 DEF Hops, Quiet, Unattended

\* A hopper that gives has not received, and holds what it gives.
LEMMA HopsSaveSource ==
    ASSUME Shown, Hops, ~disturbed, SaveSource
    PROVE  Hops'
<1> DEFINE s == tick.move.src
<1>1. DOMAIN tick = Fields /\ HopperType /\ InOrder /\ Loaded /\ GivesItsOwn /\ DOMAIN store = Blocks
    BY DEF Shown, TickType, Hops, SessionType
<1>2. /\ tick.stage = "saving" /\ tick'.stage = "half" /\ store' = [store EXCEPT ![s] = tick.src]
      /\ tick'.gave = [h \in Hoppers |-> IF h = s THEN tick.gave[h] + 1 ELSE tick.gave[h]]
      /\ UNCHANGED <<tick.left, tick.move, tick.received, tick.begun, tick.dst>>
    BY <1>1 DEF SaveSource, Fields
<1>3. Quiet \subseteq Hoppers /\ Quiet \subseteq Blocks BY ContainersAssumption DEF Quiet
<1>4. \A h \in Quiet : h # s => store'[h] = store[h] /\ tick'.gave[h] = tick.gave[h] BY <1>1, <1>2, <1>3
<1>5. s \in Quiet => /\ store'[s] = tick.src /\ tick.src \in Nat /\ tick.src + 1 = store[s]
                     /\ tick'.gave[s] = tick.gave[s] + 1
    BY <1>1, <1>2, <1>3 DEF Loaded
<1>6. \A h \in Quiet : store[h] \in Nat /\ tick.gave[h] \in Nat /\ tick.begun[h] \in Nat BY <1>1 DEF HopperType
<1>7. HopperType' BY <1>1, <1>2, <1>4, <1>5, <1>6 DEF HopperType, Quiet, Unattended
<1>8. InOrder' BY <1>1, <1>2 DEF InOrder, Working, Visiting
<1>9. Loaded' BY <1>1, <1>2 DEF Loaded, Quiet, Unattended
<1>10. s \notin tick.received BY <1>1, <1>2, SourceNotReceived DEF Working
<1>11. \A h \in Quiet \ tick.received : tick'.gave[h] + store'[h] <= tick'.begun[h]
    <2> SUFFICES ASSUME NEW h \in Quiet \ tick.received PROVE tick'.gave[h] + store'[h] <= tick'.begun[h]
        OBVIOUS
    <2>1. tick.gave[h] + store[h] <= tick.begun[h] BY <1>1, <1>2 DEF GivesItsOwn
    <2> QED BY <1>2, <1>4, <1>5, <1>6, <2>1
<1>12. \A h \in Quiet : tick'.gave[h] <= tick'.begun[h]
    <2> SUFFICES ASSUME NEW h \in Quiet PROVE tick'.gave[h] <= tick'.begun[h]
        OBVIOUS
    <2>1. CASE h = s
        <3>1. tick'.gave[h] + store'[h] <= tick'.begun[h] BY <1>10, <1>11, <2>1
        <3> QED BY <1>2, <1>5, <1>6, <2>1, <3>1
    <2>2. CASE h # s BY <1>2, <1>4, <2>2 DEF Hops
    <2> QED BY <2>1, <2>2
<1>13. GivesItsOwn' BY <1>2, <1>11 DEF GivesItsOwn, Quiet, Unattended
<1> QED BY <1>7, <1>8, <1>9, <1>12, <1>13 DEF Hops, Quiet, Unattended

\* Whoever receives is left alone by those still to come.
LEMMA HopsReceive ==
    ASSUME Shown, Hops, ~disturbed, NEW x, x \in Hoppers => \A g \in tick.left : Above[g] # x,
           \A h \in Quiet : store'[h] = IF h = x THEN store'[h] ELSE store[h],
           x \in Quiet => store'[x] \in Nat,
           tick.left # {}, tick.stage # "idle", tick'.stage = "telling",
           UNCHANGED <<tick.left, tick.gave, tick.begun>>, tick'.received = MarkReceived(x)
    PROVE  Hops'
<1>1. HopperType /\ InOrder /\ GivesItsOwn BY DEF Hops
<1>2. HopperType' BY <1>1 DEF HopperType, MarkReceived, Quiet, Unattended
<1>3. InOrder' BY <1>1 DEF InOrder, Working, MarkReceived
<1>4. Loaded' BY DEF Loaded
<1>5. GivesItsOwn'
    <2> SUFFICES ASSUME NEW h \in Quiet \ tick'.received PROVE tick.gave[h] + store'[h] <= tick.begun[h]
        BY DEF GivesItsOwn, Quiet, Unattended
    <2>1. h # x /\ h \notin tick.received BY DEF MarkReceived, Quiet
    <2>2. store'[h] = store[h] BY <2>1
    <2> QED BY <1>1, <2>1, <2>2 DEF GivesItsOwn
<1>6. \A h \in Quiet : tick'.gave[h] <= tick'.begun[h] BY DEF Hops
<1> QED BY <1>2, <1>3, <1>4, <1>5, <1>6 DEF Hops, Quiet, Unattended

LEMMA HopsSaveDestination ==
    ASSUME Shown, Hops, ~disturbed, SaveDestination
    PROVE  Hops'
<1> DEFINE x == tick.move.dst
<1>1. DOMAIN tick = Fields /\ HopperType /\ InOrder /\ Loaded /\ DOMAIN store = Blocks
    BY DEF Shown, TickType, Hops, SessionType
<1>2. /\ tick.stage = "half" /\ tick'.stage = "telling" /\ store' = [store EXCEPT ![x] = tick.dst]
      /\ UNCHANGED <<tick.left, tick.gave, tick.begun>> /\ tick'.received = MarkReceived(x)
    BY <1>1 DEF SaveDestination, Fields
<1>3. Quiet \subseteq Blocks BY ContainersAssumption DEF Quiet
<1>4. x \in Hoppers => \A g \in tick.left : Above[g] # x BY <1>1, <1>2, SourceNotReceived DEF Working
<1>5. tick.left # {} BY <1>1, <1>2 DEF InOrder
<1>6. x \in Quiet => store'[x] \in Nat BY <1>1, <1>2, <1>3 DEF Loaded
<1>7. \A h \in Quiet : store'[h] = IF h = x THEN store'[h] ELSE store[h] BY <1>1, <1>2, <1>3
<1> QED BY <1>2, <1>4, <1>5, <1>6, <1>7, HopsReceive

LEMMA HopsCollect ==
    ASSUME Shown, Hops, ~disturbed, CollectDropped
    PROVE  Hops'
<1>1. CASE tick' = Visited /\ UNCHANGED <<store, disturbed>> BY <1>1, HopsVisits
<1>2. CASE ~(tick' = Visited /\ UNCHANGED <<store, disturbed>>)
    <2> DEFINE v == Visiting
    <2>1. DOMAIN tick = Fields /\ HopperType /\ InOrder /\ Loaded /\ DOMAIN store = Blocks
        BY DEF Shown, TickType, Hops, SessionType
    <2>2. /\ tick.stage = "failed" /\ store' = [store EXCEPT ![v] = @ + 1] /\ tick.move.src # v
          /\ tick' = [tick EXCEPT !.stage = "telling", !.received = MarkReceived(v),
                                  !.move = [src |-> v, dst |-> v], !.viewers = ToTell({v})]
        BY <1>2 DEF CollectDropped
    <2>3. /\ tick'.stage = "telling" /\ UNCHANGED <<tick.left, tick.gave, tick.begun>>
          /\ tick'.received = MarkReceived(v)
        BY <2>1, <2>2 DEF Fields
    <2>4. tick.left # {} /\ \A g \in tick.left : Above[g] # v
        <3>1. tick.move.dst = v BY <2>1, <2>2 DEF InOrder, Working
        <3>2. v \in Hoppers BY <2>1, <2>2, SourceNotReceived DEF Working, HopperType
        <3> QED BY <2>1, <2>2, <3>1, <3>2, SourceNotReceived DEF Working, InOrder
    <2>5. Quiet \subseteq Blocks /\ \A h \in Quiet : store[h] \in Nat BY <2>1, ContainersAssumption DEF Quiet, HopperType
    <2>6. v \in Quiet => store'[v] \in Nat BY <2>1, <2>2, <2>5
    <2>7. \A h \in Quiet : store'[h] = IF h = v THEN store'[h] ELSE store[h] BY <2>1, <2>2, <2>5
    <2> HIDE DEF v
    <2> QED BY <2>2, <2>3, <2>4, <2>6, <2>7, HopsReceive
<1> QED BY <1>1, <1>2
LEMMA HopsInit == Init => Hops
<1> SUFFICES ASSUME Init PROVE Hops
    OBVIOUS
<1>1. tick = IdleTick /\ store \in [Blocks -> Nat]
    <2>1. PICK start \in Starts : store = [b \in Blocks |-> start.items[b]] BY DEF Init
    <2>2. start.items \in [Places -> 0..MaxStack] /\ Blocks \subseteq Places BY ContainersAssumption DEF Places
    <2>3. \A n \in 0..MaxStack : n \in Nat BY ContainersAssumption
    <2> QED BY <2>1, <2>2, <2>3 DEF Init
<1>2. Quiet \subseteq Hoppers /\ Hoppers \subseteq Blocks BY ContainersAssumption DEF Quiet
<1>3. HopperType BY <1>1, <1>2 DEF HopperType, IdleTick
<1>4. InOrder /\ Loaded /\ GivesItsOwn BY <1>1 DEF InOrder, Loaded, GivesItsOwn, Working, IdleTick
<1>5. \A h \in Quiet : tick.gave[h] <= tick.begun[h] BY <1>1, <1>2 DEF IdleTick
<1> QED BY <1>3, <1>4, <1>5 DEF Hops

LEMMA HopsStep == Shown /\ Hops /\ [Next]_vars => Hops'
<1> SUFFICES ASSUME Shown, Hops, [Next]_vars PROVE Hops'
    OBVIOUS
<1>1. CASE UNCHANGED vars
    BY <1>1 DEF vars, Hops, HopperType, InOrder, Loaded, GivesItsOwn, Working, Visiting, Quiet, Unattended
<1>2. CASE Next
    <2>0. ~disturbed BY <1>2 DEF Next
    <2>1. ASSUME NEW p \in Players, SessionStep(p) PROVE Hops' BY <2>0, <2>1, HopsSession
    <2>2. CASE TickStep
        <3>1. ASSUME NEW p \in Players, RefreshScreen(p) PROVE Hops'
            <4>1. DOMAIN tick = Fields BY DEF Shown, TickType
            <4>2. /\ UNCHANGED <<store, disturbed, tick.left, tick.received, tick.gave, tick.begun>>
                  /\ tick.stage = "telling" /\ tick'.stage = "telling"
                BY <3>1, <4>1 DEF RefreshScreen, history, Fields
            <4>3. HopperType' BY <4>2 DEF Hops, HopperType, Quiet, Unattended
            <4>4. InOrder' /\ Loaded' /\ GivesItsOwn'
                BY <2>0, <4>2 DEF Hops, InOrder, Loaded, GivesItsOwn, Working, Quiet, Unattended
            <4>5. \A h \in Quiet : tick'.gave[h] <= tick'.begun[h] BY <4>2 DEF Hops
            <4> QED BY <4>3, <4>4, <4>5 DEF Hops, Quiet, Unattended
        <3>2. CASE ~\E p \in Players : RefreshScreen(p)
            BY <2>0, <2>2, <3>2, HopsVisits, HopsLoad, HopsSaveSource, HopsSaveDestination, HopsCollect DEF TickStep
        <3> QED BY <3>1, <3>2
    <2>3. ASSUME NEW b \in Breakable, BreakBlock(b) PROVE Hops' BY <2>0, <2>3, HopsBreak
    <2>4. CASE VehicleDies \/ Drain
        <3>1. UNCHANGED <<store, tick>> BY <2>4 DEF VehicleDies, Drain, sessionVars, history
        <3> QED BY <2>0, <3>1, HopsElsewhere DEF Hops, HopperType
    <2> QED BY <1>2, <2>1, <2>2, <2>3, <2>4 DEF Next
<1> QED BY <1>1, <1>2

\* However many hoppers there are, pushing and pulling among each other, beside players and
\* blocks that are broken: no hopper gives away more in a tick than it held when the tick
\* came to the first of them, so no item passes through two (container_automation.go:91, the
\* order of the visits, and :113, receivedThisTick).
THEOREM HoppersAlwaysOne == Spec => []OneHopperPerTick
<1>1. Hops => OneHopperPerTick BY DEF Hops, OneHopperPerTick, Quiet
<1>2. Shown /\ Hops /\ [Next]_vars => (Shown /\ Hops)' BY ShownStep, HopsStep
<1> QED BY <1>1, <1>2, ShownInit, HopsInit, PTL DEF Spec

----------------------------------------------------------------------------
(* Items. *)

Slot == 0..MaxStack

ItemsTyped ==
    /\ store \in [Blocks -> Slot] /\ bag \in [Players -> Slot] /\ carried \in [Players -> Slot]
    /\ copy \in [Players -> [Places -> Slot]]
    /\ vehicle \in [items : Slot, removed : BOOLEAN, alive : BOOLEAN]
    /\ ground \in Nat /\ thrown \in Nat /\ present \subseteq Blocks

\* A transfer is of what its containers hold, and one item is on its way between the saves.
Carrying ==
    LET src == tick.move.src dst == tick.move.dst
    IN /\ tick.stage \in {"loaded", "saving", "half"} => src \in Blocks /\ dst \in Blocks /\ src # dst
       /\ tick.stage = "loaded" => tick.src = store[src]
       /\ tick.stage = "saving" => tick.src \in Slot /\ tick.src + 1 = store[src]
       /\ tick.stage \in {"saving", "half"} => tick.dst \in Slot /\ tick.dst = store[dst] + 1

\* Closing a screen saves what the container holds already.
Closing == \A p \in Players, b \in Blocks : Shows(p, b) /\ doing[p].at = "close" => Fresh(p, b)

\* Whoever is to be told has a container of the transfer on the screen.
Telling ==
    tick.stage = "telling" =>
        /\ tick.viewers \subseteq Players
        /\ \A p \in tick.viewers : \E b \in Blocks : b \in {tick.move.src, tick.move.dst} /\ Shows(p, b)

Books == InGame + thrown = total

Accounts == ItemsTyped /\ Carrying /\ Closing /\ Telling /\ Books

Balanced == disturbed \/ Accounts

LEMMA MinOfTwo ==
    ASSUME NEW a \in Nat, NEW b \in Nat
    PROVE  Min({a, b}) = IF a <= b THEN a ELSE b
<1>1. \A x \in {a, b} : (\A y \in {a, b} : x <= y) <=> x = IF a <= b THEN a ELSE b OBVIOUS
<1> QED BY <1>1 DEF Min

\* A click on one stack.
LEMMA ClickPairs ==
    ASSUME NEW c \in Slot, NEW s \in Slot
    PROVE  \A pair \in {ClickLeft(c, s), ClickRight(c, s)} :
              pair[1] \in Slot /\ pair[2] \in Slot /\ pair[1] + pair[2] = c + s
<1>0. MaxStack \in Nat /\ c \in Nat /\ s \in Nat /\ c <= MaxStack /\ s <= MaxStack BY ContainersAssumption DEF Slot
<1>1. ASSUME NEW pair, pair = ClickLeft(c, s)
      PROVE  pair[1] \in Slot /\ pair[2] \in Slot /\ pair[1] + pair[2] = c + s
    <2>1. CASE c = 0 \/ s = 0 \/ s = MaxStack BY <1>0, <1>1, <2>1 DEF ClickLeft, Slot
    <2>2. CASE ~(c = 0 \/ s = 0 \/ s = MaxStack)
        <3> DEFINE add == Min({MaxStack - s, c})
        <3>1. MaxStack - s \in Nat BY <1>0
        <3>2. add = IF MaxStack - s <= c THEN MaxStack - s ELSE c BY <1>0, <3>1, MinOfTwo
        <3>3. pair = <<c - add, s + add>> BY <1>1, <2>2 DEF ClickLeft
        <3> HIDE DEF add
        <3>4. add \in Nat /\ add <= c /\ s + add <= MaxStack BY <1>0, <3>1, <3>2
        <3> QED BY <1>0, <3>3, <3>4 DEF Slot
    <2> QED BY <2>1, <2>2
<1>2. ASSUME NEW pair, pair = ClickRight(c, s)
      PROVE  pair[1] \in Slot /\ pair[2] \in Slot /\ pair[1] + pair[2] = c + s
    <2>1. CASE c = 0
        <3> DEFINE take == (s + 1) \div 2
        <3>1. take \in Nat /\ take <= s BY <1>0
        <3>2. pair = <<take, s - take>> BY <1>2, <2>1 DEF ClickRight
        <3> HIDE DEF take
        <3> QED BY <1>0, <2>1, <3>1, <3>2 DEF Slot
    <2>2. CASE c # 0 BY <1>0, <1>2, <2>2 DEF ClickRight, Slot
    <2> QED BY <2>1, <2>2
<1> QED BY <1>1, <1>2

\* A screen shows one place, or two.
OneOrTwo(s) ==
    \/ Len(s) = 1 /\ Range(s) = {s[1]}
    \/ Len(s) = 2 /\ Range(s) = {s[1], s[2]} /\ s[1] # s[2]

LEMMA ScreenOfTwo ==
    ASSUME NEW s \in Screens \cup {<<Vehicle>>}
    PROVE  /\ OneOrTwo(s) /\ s \in Seq(Places) /\ Range(s) \subseteq Places /\ IsFiniteSet(Range(s))
           /\ DOMAIN s = 1..Len(s) /\ \A x : Contains(s, x) <=> x \in Range(s)
<1>1. s \in Seq(Places)
    <2>1. CASE s \in Screens BY <2>1, ContainersAssumption DEF Places
    <2>2. CASE s = <<Vehicle>> BY <2>2 DEF Places
    <2> QED BY <2>1, <2>2
<1>2. Len(s) \in {1, 2} /\ (Len(s) = 2 => s[1] # s[2])
    <2>1. CASE s \in Screens
        <3>1. s \in Seq(Blocks) /\ s # <<>> /\ Len(s) <= 2 /\ (Len(s) = 2 => s[1] # s[2]) BY <2>1, ContainersAssumption
        <3>2. Len(s) \in Nat /\ Len(s) # 0 BY <3>1, LenProperties, EmptySeq
        <3>3. \A n \in Nat : n # 0 /\ n <= 2 => n \in {1, 2} OBVIOUS
        <3>4. Len(s) \in {1, 2} BY <3>1, <3>2, <3>3
        <3> QED BY <3>1, <3>4
    <2>2. CASE s = <<Vehicle>> BY <2>2
    <2> QED BY <2>1, <2>2
<1>3. DOMAIN s = 1..Len(s) /\ \A i \in 1..Len(s) : s[i] \in Places BY <1>1, LenProperties, ElementOfSeq
<1>4. Range(s) = {s[i] : i \in 1..Len(s)} BY <1>3 DEF Range
<1>5. OneOrTwo(s)
    <2>1. CASE Len(s) = 1 BY <1>4, <2>1 DEF OneOrTwo
    <2>2. CASE Len(s) = 2
        <3>1. 1..Len(s) = {1, 2} BY <2>2
        <3>2. Range(s) = {s[1], s[2]} BY <1>4, <3>1
        <3> QED BY <1>2, <2>2, <3>2 DEF OneOrTwo
    <2> QED BY <1>2, <2>1, <2>2
<1>6. Range(s) \subseteq Places BY <1>3, <1>4
<1>7. IsFiniteSet(Range(s))
    <2>1. IsFiniteSet({s[1]}) /\ IsFiniteSet({s[1]} \cup {s[2]}) BY FS_Singleton, FS_AddElement
    <2>2. {s[1], s[2]} = {s[1]} \cup {s[2]} OBVIOUS
    <2>3. CASE Range(s) = {s[1]} BY <2>1, <2>3
    <2>4. CASE Range(s) = {s[1], s[2]}
        <3>1. IsFiniteSet({s[1], s[2]}) BY <2>1, <2>2
        <3> QED BY <2>4, <3>1
    <2> QED BY <1>5, <2>3, <2>4 DEF OneOrTwo
<1>8. \A x : Contains(s, x) <=> x \in Range(s) BY <1>1, ContainsIsRange
<1> QED BY <1>1, <1>3, <1>5, <1>6, <1>7, <1>8

LEMMA SumOfOne ==
    ASSUME NEW f, NEW a, f[a] \in Nat
    PROVE  Sum(f, {a}) = f[a]
<1>1. IsFiniteSet({a}) BY FS_Singleton
<1>2. Sum(f, {a}) = f[a] + Sum(f, {a} \ {a}) BY <1>1, SumTakes
<1>3. {a} \ {a} = {} OBVIOUS
<1> QED BY <1>2, <1>3, SumEmpty

LEMMA SumOfTwo ==
    ASSUME NEW f, NEW a, NEW b, a # b, f[a] \in Nat, f[b] \in Nat
    PROVE  Sum(f, {a, b}) = f[a] + f[b]
<1>1. IsFiniteSet({a, b})
    <2>1. IsFiniteSet({a} \cup {b}) BY FS_Singleton, FS_AddElement
    <2>2. {a, b} = {a} \cup {b} OBVIOUS
    <2> QED BY <2>1, <2>2
<1>2. Sum(f, {a, b}) = f[a] + Sum(f, {a, b} \ {a}) BY <1>1, SumTakes
<1>3. {a, b} \ {a} = {b} OBVIOUS
<1> QED BY <1>2, <1>3, SumOfOne

\* A stack that fits is spread over the screen, none of it lost.
LEMMA StackIsAdded ==
    ASSUME NEW slots \in [Places -> Slot], NEW s \in Screens \cup {<<Vehicle>>}, NEW n \in Slot, Fits(slots, s, n)
    PROVE  /\ AddStack(slots, s, n) \in [Places -> Slot]
           /\ Sum(AddStack(slots, s, n), Range(s)) = Sum(slots, Range(s)) + n
<1> DEFINE room(x) == MaxStack - slots[x]
           before(i) == Sum([k \in DOMAIN s |-> room(s[k])], 1..(i - 1))
           at(x) == CHOOSE i \in DOMAIN s : s[i] = x
           got(x) == IF n <= before(at(x)) THEN 0 ELSE Min({n - before(at(x)), room(x)})
           after == AddStack(slots, s, n)
<1>0. /\ OneOrTwo(s) /\ Range(s) \subseteq Places /\ DOMAIN s = 1..Len(s)
      /\ \A x : Contains(s, x) <=> x \in Range(s)
    BY ScreenOfTwo
<1>1. \A x \in Places : slots[x] \in Nat /\ slots[x] <= MaxStack /\ room(x) \in Nat /\ slots[x] + room(x) = MaxStack
    BY ContainersAssumption DEF Slot
<1>2. n \in Nat /\ n <= MaxStack /\ MaxStack \in Nat BY ContainersAssumption DEF Slot
<1>3. after = [x \in Places |-> IF x \in Range(s) THEN slots[x] + got(x) ELSE slots[x]]
    BY <1>0 DEF AddStack
<1>4. before(1) = 0
    <2>1. 1..(1 - 1) = {} OBVIOUS
    <2> QED BY <2>1, SumEmpty
<1>5. CASE Len(s) = 1
    <2> DEFINE a == s[1]
    <2>1. a \in Places /\ Range(s) = {a} BY <1>0, <1>5 DEF OneOrTwo
    <2>2. at(a) = 1 BY <1>0, <1>5
    <2>3. n <= room(a)
        <3>1. Sum([x \in Range(s) |-> MaxStack - slots[x]], {a}) = room(a) BY <1>1, <2>1, SumOfOne
        <3> QED BY <2>1, <3>1 DEF Fits
    <2>4. got(a) = n
        <3>1. Min({n, room(a)}) = n BY <1>1, <1>2, <2>1, <2>3, MinOfTwo
        <3>2. n - 0 = n BY <1>2
        <3>3. before(at(a)) = 0 BY <1>4, <2>2
        <3>4. n <= 0 => n = 0 BY <1>2
        <3> HIDE DEF before, at, room
        <3> QED BY <3>1, <3>2, <3>3, <3>4
    <2> HIDE DEF a, got, after
    <2>5. after[a] = slots[a] + n /\ \A x \in Places \ {a} : after[x] = slots[x] BY <1>3, <2>1, <2>4
    <2>6. slots[a] + n \in Slot /\ slots[a] + n \in Nat BY <1>1, <1>2, <2>1, <2>3 DEF Slot
    <2>7. after \in [Places -> Slot] BY <1>3, <2>5, <2>6
    <2>8. Sum(after, {a}) = slots[a] + n /\ Sum(slots, {a}) = slots[a]
        <3>1. after[a] \in Nat /\ slots[a] \in Nat BY <1>1, <2>1, <2>5, <2>6
        <3>2. Sum(after, {a}) = after[a] /\ Sum(slots, {a}) = slots[a] BY <3>1, SumOfOne
        <3> QED BY <2>5, <3>2
    <2> QED BY <2>1, <2>7, <2>8 DEF after
<1>6. CASE Len(s) = 2
    <2> DEFINE a == s[1]
               b == s[2]
    <2>1. a \in Places /\ b \in Places /\ Range(s) = {a, b} /\ a # b BY <1>0, <1>6 DEF OneOrTwo
    <2>2. at(a) = 1 /\ at(b) = 2
        <3>1. DOMAIN s = {1, 2} BY <1>0, <1>6
        <3> QED BY <2>1, <3>1
    <2>3. before(2) = room(a)
        <3>1. 1..(2 - 1) = {1} /\ 1 \in DOMAIN s BY <1>0, <1>6
        <3> QED BY <1>1, <2>1, <3>1, SumOfOne
    <2>4. n <= room(a) + room(b)
        <3>1. Sum([x \in Range(s) |-> MaxStack - slots[x]], {a, b}) = room(a) + room(b) BY <1>1, <2>1, SumOfTwo
        <3> QED BY <2>1, <3>1 DEF Fits
    <2>5. got(a) = IF n <= room(a) THEN n ELSE room(a)
        <3>1. Min({n, room(a)}) = IF n <= room(a) THEN n ELSE room(a) BY <1>1, <1>2, <2>1, MinOfTwo
        <3>2. n - 0 = n /\ (n <= 0 => n = 0) /\ 0 <= room(a) BY <1>1, <1>2, <2>1
        <3>3. before(at(a)) = 0 BY <1>4, <2>2
        <3> HIDE DEF before, at, room
        <3> QED BY <3>1, <3>2, <3>3
    <2>6. got(b) = IF n <= room(a) THEN 0 ELSE n - room(a)
        <3>1. n > room(a) => n - room(a) \in Nat /\ n - room(a) <= room(b) BY <1>1, <1>2, <2>1, <2>4
        <3>2. n > room(a) => Min({n - room(a), room(b)}) = n - room(a) BY <1>1, <2>1, <3>1, MinOfTwo
        <3>3. before(at(b)) = room(a) BY <2>2, <2>3
        <3>4. n > room(a) <=> ~(n <= room(a)) BY <1>1, <1>2, <2>1
        <3> HIDE DEF before, at, room
        <3> QED BY <3>2, <3>3, <3>4
    <2>7. room(a) \in Nat /\ room(b) \in Nat /\ slots[a] \in Nat /\ slots[b] \in Nat
          /\ slots[a] + room(a) = MaxStack /\ slots[b] + room(b) = MaxStack BY <1>1, <2>1
    <2> HIDE DEF a, b, got, room, after
    <2>8. after[a] = slots[a] + got(a) /\ after[b] = slots[b] + got(b) /\ \A x \in Places \ {a, b} : after[x] = slots[x]
        BY <1>3, <2>1
    <2>9. /\ got(a) \in Nat /\ got(b) \in Nat /\ got(a) + got(b) = n
          /\ slots[a] + got(a) \in Slot /\ slots[b] + got(b) \in Slot
        BY <1>2, <2>4, <2>5, <2>6, <2>7 DEF Slot
    <2>10. after \in [Places -> Slot] BY <1>3, <2>8, <2>9
    <2>11. after[a] \in Nat /\ after[b] \in Nat BY <2>7, <2>8, <2>9
    <2>12. Sum(after, {a, b}) = after[a] + after[b] /\ Sum(slots, {a, b}) = slots[a] + slots[b]
        BY <2>1, <2>7, <2>11, SumOfTwo
    <2>13. Sum(after, Range(s)) = Sum(slots, Range(s)) + n
        BY <1>2, <2>1, <2>7, <2>8, <2>9, <2>12
    <2> QED BY <2>10, <2>13 DEF after
<1> QED BY <1>0, <1>5, <1>6 DEF OneOrTwo
Keeps(p, slots, click) ==
    LET shown == Range(screen[p])
    IN /\ click.bag \in Slot /\ click.carried \in Slot /\ click.slots \in [Places -> Slot] /\ click.thrown \in Nat
       /\ \A x \in Places \ shown : click.slots[x] = slots[x]
       /\ click.bag + click.carried + click.thrown + Sum(click.slots, shown) = bag[p] + carried[p] + Sum(slots, shown)

\* A click moves items between the hands, the screen and the window.
LEMMA ClickKeeps ==
    ASSUME NEW p, screen[p] \in Screens \cup {<<Vehicle>>}, bag[p] \in Slot, carried[p] \in Slot,
           NEW slots \in [Places -> Slot], NEW click \in Clicks(p, slots)
    PROVE  Keeps(p, slots, click)
<1> DEFINE shown == Range(screen[p])
           hands(b, c, s, t) == [bag |-> b, carried |-> c, slots |-> s, thrown |-> t]
<1>1. shown \subseteq Places /\ IsFiniteSet(shown) BY ScreenOfTwo
<1>2. Slot \subseteq Nat /\ 0 \in Slot BY ContainersAssumption DEF Slot
<1>3. \A x \in shown : slots[x] \in Slot /\ slots[x] \in Nat BY <1>1, <1>2
<1>4. Sum(slots, shown) \in Nat BY <1>1, <1>3, SumNat
<1>5. ASSUME NEW x \in shown, NEW v \in Slot
      PROVE  LET after == [slots EXCEPT ![x] = v]
             IN /\ after \in [Places -> Slot] /\ \A y \in Places \ shown : after[y] = slots[y]
                /\ Sum(after, shown) \in Nat /\ Sum(after, shown) + slots[x] = Sum(slots, shown) + v
    <2> DEFINE after == [slots EXCEPT ![x] = v]
    <2>1. after \in [Places -> Slot] /\ after[x] = v /\ \A y \in Places : y # x => after[y] = slots[y] BY <1>1
    <2> HIDE DEF after
    <2>2. \A y \in shown : slots[y] \in Nat /\ after[y] \in Nat BY <1>1, <1>2, <2>1
    <2>3. \A y \in shown : y # x => slots[y] = after[y] BY <1>1, <2>1
    <2>4. Sum(after, shown) + slots[x] = Sum(slots, shown) + after[x] BY <1>1, <2>2, <2>3, SumChanges
    <2>5. Sum(after, shown) \in Nat BY <1>1, <2>2, SumNat
    <2> QED BY <2>1, <2>4, <2>5 DEF after
<1>6. bag[p] \in Nat /\ carried[p] \in Nat BY <1>2
<1> USE DEF Keeps
<1>7. ASSUME NEW x \in shown, NEW pair \in {ClickLeft(carried[p], slots[x]), ClickRight(carried[p], slots[x])},
             click = hands(bag[p], pair[1], [slots EXCEPT ![x] = pair[2]], 0)
      PROVE  Keeps(p, slots, click)
    <2>1. pair[1] \in Slot /\ pair[2] \in Slot /\ pair[1] + pair[2] = carried[p] + slots[x] BY <1>3, <1>7, ClickPairs
    <2> DEFINE after == [slots EXCEPT ![x] = pair[2]]
    <2>2. /\ after \in [Places -> Slot] /\ \A y \in Places \ shown : after[y] = slots[y]
          /\ Sum(after, shown) \in Nat /\ Sum(after, shown) + slots[x] = Sum(slots, shown) + pair[2]
        BY <1>5, <2>1
    <2>3. click = hands(bag[p], pair[1], after, 0) BY <1>7
    <2> HIDE DEF after
    <2>4. pair[1] \in Nat /\ pair[2] \in Nat /\ slots[x] \in Nat BY <1>2, <1>3, <2>1
    <2>5. bag[p] + pair[1] + 0 + Sum(after, shown) = bag[p] + carried[p] + Sum(slots, shown)
        BY <1>4, <1>6, <2>1, <2>2, <2>4
    <2> QED BY <1>2, <2>1, <2>2, <2>3, <2>5
<1>8. ASSUME NEW pair \in {ClickLeft(carried[p], bag[p]), ClickRight(carried[p], bag[p])},
             click = hands(pair[2], pair[1], slots, 0)
      PROVE  Keeps(p, slots, click)
    <2>1. pair[1] \in Slot /\ pair[2] \in Slot /\ pair[1] + pair[2] = carried[p] + bag[p] BY <1>8, ClickPairs
    <2>2. pair[2] + pair[1] + 0 + Sum(slots, shown) = bag[p] + carried[p] + Sum(slots, shown)
        <3>1. pair[1] \in Nat /\ pair[2] \in Nat BY <1>2, <2>1
        <3>2. pair[2] + pair[1] = bag[p] + carried[p] BY <1>6, <2>1, <3>1
        <3> QED BY <1>4, <1>6, <3>1, <3>2
    <2> QED BY <1>2, <1>8, <2>1, <2>2
<1>9. ASSUME click = hands(bag[p], 0, slots, carried[p])
      PROVE  Keeps(p, slots, click)
    <2>1. bag[p] + 0 + carried[p] + Sum(slots, shown) = bag[p] + carried[p] + Sum(slots, shown) BY <1>4, <1>6
    <2> QED BY <1>2, <1>6, <1>9, <2>1
<1>10. ASSUME NEW one \in {1} \cap 1..carried[p], click = hands(bag[p], carried[p] - one, slots, one)
       PROVE  Keeps(p, slots, click)
    <2>1. one = 1 /\ carried[p] - 1 \in Slot BY <1>6, ContainersAssumption DEF Slot
    <2>2. bag[p] + (carried[p] - 1) + 1 + Sum(slots, shown) = bag[p] + carried[p] + Sum(slots, shown) BY <1>4, <1>6
    <2> QED BY <1>10, <2>1, <2>2
<1>11. ASSUME NEW x \in shown, bag[p] + slots[x] <= MaxStack,
              click = hands(bag[p] + slots[x], carried[p], [slots EXCEPT ![x] = 0], 0)
       PROVE  Keeps(p, slots, click)
    <2> DEFINE after == [slots EXCEPT ![x] = 0]
    <2>1. /\ after \in [Places -> Slot] /\ \A y \in Places \ shown : after[y] = slots[y]
          /\ Sum(after, shown) \in Nat /\ Sum(after, shown) + slots[x] = Sum(slots, shown) + 0
        BY <1>2, <1>5
    <2>2. click = hands(bag[p] + slots[x], carried[p], after, 0) BY <1>11
    <2> HIDE DEF after
    <2>3. slots[x] \in Nat /\ bag[p] + slots[x] \in Slot BY <1>3, <1>6, <1>11, ContainersAssumption DEF Slot
    <2>4. (bag[p] + slots[x]) + carried[p] + 0 + Sum(after, shown) = bag[p] + carried[p] + Sum(slots, shown)
        BY <1>4, <1>6, <2>1, <2>3
    <2> QED BY <1>2, <2>1, <2>2, <2>3, <2>4
<1>12. ASSUME Fits(slots, screen[p], bag[p]), click = hands(0, carried[p], AddStack(slots, screen[p], bag[p]), 0)
       PROVE  Keeps(p, slots, click)
    <2> DEFINE after == AddStack(slots, screen[p], bag[p])
    <2>1. after \in [Places -> Slot] /\ Sum(after, shown) = Sum(slots, shown) + bag[p] BY <1>12, StackIsAdded
    <2>2. \A y \in Places \ shown : after[y] = slots[y]
        <3>1. \A y : Contains(screen[p], y) <=> y \in shown BY ScreenOfTwo
        <3> QED BY <3>1 DEF AddStack
    <2>3. click = hands(0, carried[p], after, 0) BY <1>12
    <2> HIDE DEF after
    <2>4. 0 + carried[p] + 0 + Sum(after, shown) = bag[p] + carried[p] + Sum(slots, shown) BY <1>4, <1>6, <2>1
    <2> QED BY <1>2, <2>1, <2>2, <2>3, <2>4
<1> QED BY <1>7, <1>8, <1>9, <1>10, <1>11, <1>12 DEF Clicks
\* A sum splits.
LEMMA SumSplit ==
    ASSUME NEW S, IsFiniteSet(S), NEW f, \A x \in S : f[x] \in Nat, NEW T \in SUBSET S
    PROVE  Sum(f, S) = Sum(f, T) + Sum(f, S \ T)
<1> DEFINE P == {U \in SUBSET T : Sum(f, S) = Sum(f, U) + Sum(f, S \ U)}
<1>1. IsFiniteSet(T) /\ \A U \in SUBSET S : IsFiniteSet(U) /\ IsFiniteSet(S \ U) BY FS_Subset
<1>2. {} \in P
    <2>1. S \ {} = S /\ Sum(f, S) \in Nat BY SumNat
    <2>2. Sum(f, S) = 0 + Sum(f, S) BY <2>1
    <2> QED BY <2>1, <2>2, SumEmpty
<1>3. ASSUME NEW U \in SUBSET T, NEW x \in T, U \in P, x \notin U PROVE U \cup {x} \in P
    <2> DEFINE V == U \cup {x}
    <2>1. V \in SUBSET S /\ U \in SUBSET S /\ x \in S OBVIOUS
    <2>2. Sum(f, V) = f[x] + Sum(f, U)
        <3>1. V \ {x} = U /\ x \in V /\ \A y \in V : f[y] \in Nat BY <1>3
        <3>2. Sum(f, V) = f[x] + Sum(f, V \ {x}) BY <1>1, <2>1, <3>1, SumTakes
        <3> QED BY <3>1, <3>2
    <2>3. Sum(f, S \ U) = f[x] + Sum(f, S \ V)
        <3>1. (S \ U) \ {x} = S \ V /\ x \in S \ U /\ \A y \in S \ U : f[y] \in Nat BY <1>3
        <3>2. Sum(f, S \ U) = f[x] + Sum(f, (S \ U) \ {x}) BY <1>1, <2>1, <3>1, SumTakes
        <3> QED BY <3>1, <3>2
    <2>4. Sum(f, U) \in Nat /\ Sum(f, S \ V) \in Nat /\ f[x] \in Nat
        <3>1. (\A y \in U : f[y] \in Nat) /\ \A y \in S \ V : f[y] \in Nat OBVIOUS
        <3> QED BY <1>1, <2>1, <3>1, SumNat
    <2>5. Sum(f, S) = Sum(f, U) + Sum(f, S \ U) BY <1>3
    <2> HIDE DEF V
    <2>6. Sum(f, S) = Sum(f, V) + Sum(f, S \ V) BY <2>2, <2>3, <2>4, <2>5
    <2> QED BY <2>6 DEF V
<1> HIDE DEF P
<1>4. SUBSET T \subseteq P BY <1>1, <1>2, <1>3, SubsetInduction
<1> QED BY <1>4 DEF P

LEMMA SumZero ==
    ASSUME NEW S, IsFiniteSet(S), NEW f, \A x \in S : f[x] = 0
    PROVE  Sum(f, S) = 0
<1> DEFINE P == {U \in SUBSET S : Sum(f, U) = 0}
<1>1. ASSUME NEW U \in SUBSET S, NEW x \in S, U \in P, x \notin U PROVE U \cup {x} \in P
    <2> DEFINE V == U \cup {x}
    <2>1. IsFiniteSet(V) /\ x \in V /\ V \ {x} = U /\ \A y \in V : f[y] \in Nat BY <1>1, FS_Subset
    <2>2. Sum(f, V) = f[x] + Sum(f, V \ {x}) BY <2>1, SumTakes
    <2>3. V \in SUBSET S /\ f[x] = 0 /\ Sum(f, U) = 0 BY <1>1
    <2> HIDE DEF V
    <2>4. Sum(f, V \ {x}) = 0 BY <2>1, <2>3
    <2>5. Sum(f, V) = 0 + 0 BY <2>2, <2>3, <2>4
    <2>6. Sum(f, V) = 0 BY <2>5
    <2> QED BY <2>3, <2>6 DEF V
<1>2. {} \in P BY SumEmpty
<1> HIDE DEF P
<1>3. SUBSET S \subseteq P BY <1>1, <1>2, SubsetInduction
<1> QED BY <1>3 DEF P

----------------------------------------------------------------------------
(* What is held, and by whom.  Every lemma is of a step nobody disturbs. *)

AllHeld == Sum([b \in Blocks |-> Held(b)], Blocks)
AllHands == Sum([p \in Players |-> InHand(p)], Players)

\* Player p's session has still to save block b.
Saving(p, b) == doing[p].at = "click" /\ Contains(doing[p].left, b)

\* Only one session can be saving to a block, and it shows the block.
OneSaves ==
    /\ \A p \in Players, b \in Blocks : Saving(p, b) => Shows(p, b)
    /\ \A p, q \in Players, b \in Blocks : Shows(p, b) /\ Shows(q, b) => p = q

LEMMA ShownOneSaves == Shown /\ ~disturbed => OneSaves
BY DEF Shown, SessionType, Apart, OneSaves, Saving

LEMMA HeldIs ==
    ASSUME OneSaves, NEW b \in Blocks
    PROVE  /\ \A p \in Players : Saving(p, b) => Held(b) = copy[p][b]
           /\ (\A p \in Players : ~Saving(p, b)) => Held(b) = store[b]
<1>1. ASSUME NEW p \in Players, Saving(p, b) PROVE Held(b) = copy[p][b]
    <2>1. p \in Viewers(b) /\ \A q \in Viewers(b) : q = p BY <1>1 DEF OneSaves, Viewers
    <2>2. Owed(b) BY <1>1, <2>1 DEF Owed, Saving
    <2>3. (CHOOSE q \in Viewers(b) : Contains(doing[q].left, b)) = p BY <1>1, <2>1 DEF Saving
    <2> QED BY <2>2, <2>3 DEF Held
<1>2. ASSUME \A p \in Players : ~Saving(p, b) PROVE Held(b) = store[b]
    <2>1. ~Owed(b) BY <1>2 DEF Owed, Saving, Viewers
    <2> QED BY <2>1 DEF Held
<1> QED BY <1>1, <1>2

\* The same of the next state.
LEMMA HeldIsNext ==
    ASSUME OneSaves', NEW b \in Blocks
    PROVE  /\ \A p \in Players : Saving(p, b)' => Held(b)' = copy'[p][b]
           /\ (\A p \in Players : ~Saving(p, b)') => Held(b)' = store'[b]
<1>1. ASSUME NEW p \in Players, Saving(p, b)' PROVE Held(b)' = copy'[p][b]
    <2>1. p \in Viewers(b)' /\ \A q \in Viewers(b)' : q = p BY <1>1 DEF OneSaves, Viewers
    <2>2. Owed(b)' BY <1>1, <2>1 DEF Owed, Saving
    <2>3. (CHOOSE q \in Viewers(b)' : Contains(doing'[q].left, b)) = p BY <1>1, <2>1 DEF Saving
    <2> QED BY <2>2, <2>3 DEF Held
<1>2. ASSUME \A p \in Players : ~Saving(p, b)' PROVE Held(b)' = store'[b]
    <2>1. ~Owed(b)' BY <1>2 DEF Owed, Saving, Viewers
    <2> QED BY <2>1 DEF Held
<1> QED BY <1>1, <1>2

LEMMA HeldIsStack ==
    ASSUME OneSaves, ItemsTyped
    PROVE  \A b \in Blocks : Held(b) \in Slot /\ Held(b) \in Nat
<1> SUFFICES ASSUME NEW b \in Blocks PROVE Held(b) \in Slot
    BY ContainersAssumption DEF Slot
<1>1. store[b] \in Slot /\ \A p \in Players : copy[p][b] \in Slot BY DEF ItemsTyped, Places
<1> QED BY <1>1, HeldIs

LEMMA HeldIsStackNext ==
    ASSUME OneSaves', ItemsTyped'
    PROVE  \A b \in Blocks : Held(b)' \in Slot /\ Held(b)' \in Nat
<1> SUFFICES ASSUME NEW b \in Blocks PROVE Held(b)' \in Slot
    BY ContainersAssumption DEF Slot
<1>1. store'[b] \in Slot /\ \A p \in Players : copy'[p][b] \in Slot BY DEF ItemsTyped, Places
<1> QED BY <1>1, HeldIsNext

LEMMA TotalsAreNat ==
    ASSUME OneSaves, ItemsTyped
    PROVE  AllHeld \in Nat /\ AllHands \in Nat
<1>1. IsFiniteSet(Blocks) /\ IsFiniteSet(Players) BY ContainersAssumption
<1>2. \A b \in Blocks : [c \in Blocks |-> Held(c)][b] \in Nat BY HeldIsStack
<1>3. \A p \in Players : [q \in Players |-> InHand(q)][p] \in Nat
    BY ContainersAssumption DEF ItemsTyped, InHand, Slot
<1> QED BY <1>1, <1>2, <1>3, SumNat DEF AllHeld, AllHands

\* Nothing saved, and no copy that is being saved changed.
LEMMA HeldStays ==
    ASSUME OneSaves, OneSaves', UNCHANGED store,
           \A p \in Players, b \in Blocks : Saving(p, b)' = Saving(p, b),
           \A p \in Players, b \in Blocks : Saving(p, b) => copy'[p][b] = copy[p][b]
    PROVE  AllHeld' = AllHeld
<1>1. \A b \in Blocks : Held(b)' = Held(b) BY HeldIs, HeldIsNext
<1> QED BY <1>1 DEF AllHeld

\* One block's items change.
LEMMA HeldChanges ==
    ASSUME OneSaves, OneSaves', ItemsTyped, ItemsTyped', NEW b \in Blocks,
           \A c \in Blocks : c # b => Held(c)' = Held(c)
    PROVE  AllHeld' + Held(b) = AllHeld + Held(b)'
<1> DEFINE f == [c \in Blocks |-> Held(c)]
           h == [c \in Blocks |-> Held(c)']
<1>1. \A c \in Blocks : f[c] \in Nat /\ h[c] \in Nat BY HeldIsStack, HeldIsStackNext
<1>2. (\A c \in Blocks : c # b => f[c] = h[c]) /\ f[b] = Held(b) /\ h[b] = Held(b)' OBVIOUS
<1>3. AllHeld = Sum(f, Blocks) /\ AllHeld' = Sum(h, Blocks) BY DEF AllHeld
<1> HIDE DEF f, h
<1>4. IsFiniteSet(Blocks) BY ContainersAssumption
<1>5. Sum(h, Blocks) + f[b] = Sum(f, Blocks) + h[b] BY <1>1, <1>2, <1>4, SumChanges
<1> QED BY <1>2, <1>3, <1>5

\* One player's hands change.
LEMMA HandsChange ==
    ASSUME ItemsTyped, ItemsTyped', NEW p \in Players,
           \A q \in Players : q # p => UNCHANGED <<bag[q], carried[q]>>
    PROVE  AllHands' + InHand(p) = AllHands + InHand(p)'
<1> DEFINE f == [q \in Players |-> InHand(q)]
           h == [q \in Players |-> InHand(q)']
<1>1. \A q \in Players : f[q] \in Nat /\ h[q] \in Nat BY ContainersAssumption DEF ItemsTyped, InHand, Slot
<1>2. (\A q \in Players : q # p => f[q] = h[q]) /\ f[p] = InHand(p) /\ h[p] = InHand(p)' BY DEF InHand
<1>3. AllHands = Sum(f, Players) /\ AllHands' = Sum(h, Players) BY DEF AllHands
<1> HIDE DEF f, h
<1>4. IsFiniteSet(Players) BY ContainersAssumption
<1>5. Sum(h, Players) + f[p] = Sum(f, Players) + h[p] BY <1>1, <1>2, <1>4, SumChanges
<1> QED BY <1>2, <1>3, <1>5

LEMMA HandsStay ==
    ASSUME UNCHANGED <<bag, carried>>
    PROVE  AllHands' = AllHands
BY DEF AllHands, InHand
LEMMA TotalsAreNatNext ==
    ASSUME OneSaves', ItemsTyped'
    PROVE  AllHeld' \in Nat /\ AllHands' \in Nat
<1>1. IsFiniteSet(Blocks) /\ IsFiniteSet(Players) BY ContainersAssumption
<1>2. \A b \in Blocks : [c \in Blocks |-> Held(c)'][b] \in Nat BY HeldIsStackNext
<1>3. \A p \in Players : [q \in Players |-> InHand(q)'][p] \in Nat
    BY ContainersAssumption DEF ItemsTyped, InHand, Slot
<1>4. AllHeld' \in Nat BY <1>1, <1>2, SumNat DEF AllHeld
<1>5. AllHands' \in Nat BY <1>1, <1>3, SumNat DEF AllHands
<1> QED BY <1>4, <1>5

\* The books balance still when what has come in equals what has gone out.
Worth == AllHeld + vehicle.items + ground + OnTheWay + AllHands + thrown

LEMMA BooksKept ==
    ASSUME Books, UNCHANGED total, Worth' = Worth
    PROVE  Books'
<1>1. Worth = InGame + thrown BY DEF Worth, InGame, AllHeld, AllHands
<1>2. Worth' = (InGame + thrown)' BY DEF Worth, InGame, AllHeld, AllHands
<1> QED BY <1>1, <1>2 DEF Books

\* Every part of it is a number.
LEMMA WorthIsOfNats ==
    ASSUME OneSaves, OneSaves', ItemsTyped, ItemsTyped'
    PROVE  /\ AllHeld \in Nat /\ AllHands \in Nat /\ vehicle.items \in Nat /\ ground \in Nat /\ OnTheWay \in Nat
           /\ thrown \in Nat
           /\ AllHeld' \in Nat /\ AllHands' \in Nat /\ vehicle'.items \in Nat /\ ground' \in Nat /\ OnTheWay' \in Nat
           /\ thrown' \in Nat
<1>1. Slot \subseteq Nat BY ContainersAssumption DEF Slot
<1>2. OnTheWay \in Nat /\ OnTheWay' \in Nat BY DEF OnTheWay
<1> QED BY <1>1, <1>2, TotalsAreNat, TotalsAreNatNext DEF ItemsTyped

\* A session step that saves nothing.
LEMMA OwnAccounts ==
    ASSUME OneSaves, OneSaves', Accounts, NEW p \in Players, UNCHANGED <<store, tick, total, ground>>, ItemsTyped',
           \A q \in Players : q # p => UNCHANGED <<screen[q], copy[q], doing[q]>>,
           \A b \in Blocks : Shows(p, b)' /\ doing'[p].at = "close" => Fresh(p, b)',
           \A b \in Blocks : tick.stage = "telling" /\ p \in tick.viewers /\ Shows(p, b) => Shows(p, b)',
           AllHeld' + vehicle'.items + AllHands' + thrown' = AllHeld + vehicle.items + AllHands + thrown
    PROVE  Accounts'
<1>1. Carrying' BY DEF Accounts, Carrying
<1>2. Closing' BY DEF Accounts, Closing, Shows, Fresh
<1>3. Telling'
    <2>1. \A q \in Players, b \in Blocks : q # p => Shows(q, b)' = Shows(q, b) BY DEF Shows
    <2>2. Telling BY DEF Accounts
    <2> QED BY <2>1, <2>2 DEF Telling
<1>4. Worth' = Worth
    <2>1. OnTheWay' = OnTheWay BY DEF OnTheWay
    <2>2. \A a, b, c, d, e, f, i, j, k, l \in Nat :
             a + b + e + f = i + j + k + l => a + b + c + d + e + f = i + j + c + d + k + l
        OBVIOUS
    <2>3. ItemsTyped BY DEF Accounts
    <2> QED BY <2>1, <2>2, <2>3, WorthIsOfNats DEF Worth
<1>5. Books' BY <1>4, BooksKept DEF Accounts
<1> QED BY <1>1, <1>2, <1>3, <1>5 DEF Accounts
\* Players' steps that move no item.
LEMMA AccountsStill ==
    ASSUME Shown, Shown', ~disturbed, ~disturbed', Accounts, NEW p \in Players,
           UNCHANGED <<store, present, vehicle, ground, thrown, bag, carried, tick, total>>,
           copy' = [q \in Players |-> copy'[q]], copy'[p] \in [Places -> Slot],
           \A q \in Players : q # p => UNCHANGED <<screen[q], copy[q], doing[q]>>,
           \A b \in Blocks : ~Saving(p, b) /\ ~Saving(p, b)',
           \A b \in Blocks : Shows(p, b)' /\ doing'[p].at = "close" => Fresh(p, b)',
           \A b \in Blocks : tick.stage = "telling" /\ p \in tick.viewers /\ Shows(p, b) => Shows(p, b)'
    PROVE  Accounts'
<1>1. OneSaves /\ OneSaves'
    <2>1. Shown' /\ ~disturbed' => OneSaves' BY DEF Shown, SessionType, Apart, OneSaves, Saving
    <2> QED BY <2>1, ShownOneSaves
<1>2. ItemsTyped'
    <2>1. copy' \in [Players -> [Places -> Slot]] BY DEF Accounts, ItemsTyped
    <2> QED BY <2>1 DEF Accounts, ItemsTyped
<1>3. \A q \in Players, b \in Blocks : Saving(q, b)' = Saving(q, b) BY DEF Saving
<1>4. \A q \in Players, b \in Blocks : Saving(q, b) => copy'[q][b] = copy[q][b] OBVIOUS
<1>5. AllHeld' = AllHeld BY <1>1, <1>3, <1>4, HeldStays
<1>6. AllHands' = AllHands BY HandsStay
<1> QED BY <1>1, <1>2, <1>5, <1>6, OwnAccounts
\* An idle session's screen is current, outside a transfer.
LEMMA IdleFresh ==
    ASSUME Shown, ~disturbed, NEW p \in Players, NEW b \in Blocks, Shows(p, b), doing[p].left = <<>>, ~InTransfer(b)
    PROVE  Fresh(p, b)
BY EmptyContainsNothing DEF Shown, Current

\* Nobody who is told closes the screen meanwhile.
LEMMA ToldStay ==
    ASSUME Shown, ~disturbed, Telling, tick.stage = "telling", NEW p \in tick.viewers
    PROVE  p \in Players /\ doing[p].at = "idle" /\ \E b \in Blocks : Shows(p, b) /\ InTransfer(b)
<1>1. p \in Players BY DEF Telling
<1>2. PICK b \in Blocks : b \in {tick.move.src, tick.move.dst} /\ Shows(p, b) BY DEF Telling
<1>3. InTransfer(b) BY <1>2 DEF InTransfer
<1> QED BY <1>1, <1>2, <1>3 DEF Shown, Apart

LEMMA AccountsOpenBlocks ==
    ASSUME Shown, Shown', ~disturbed, ~disturbed', Accounts, NEW p \in Players, NEW shown \in Screens,
           OpenBlocks(p, shown)
    PROVE  Accounts'
<1>1. /\ doing[p] = Idle /\ screen[p] = <<>> /\ doing' = doing
      /\ UNCHANGED <<store, present, vehicle, ground, thrown, bag, carried, tick, total>>
    BY DEF OpenBlocks, IdleAt
<1>2. \A q \in Players : q # p => UNCHANGED <<screen[q], copy[q], doing[q]>>
    BY DEF OpenBlocks, Shown, SessionType
<1>3. copy' = [q \in Players |-> copy'[q]] BY DEF OpenBlocks, Shown, SessionType
<1>4. copy'[p] \in [Places -> Slot]
    <2>1. \A x \in Places : Contains(shown, x) => x \in Blocks BY ScreenOfBlocks DEF Places
    <2>2. \A b \in Blocks : store[b] \in Slot BY DEF Accounts, ItemsTyped
    <2>3. 0 \in Slot BY ContainersAssumption DEF Slot
    <2>4. copy'[p] = [x \in Places |-> IF Contains(shown, x) THEN store[x] ELSE 0]
        BY DEF OpenBlocks, Shown, SessionType
    <2> QED BY <2>1, <2>2, <2>3, <2>4
<1>5. \A b \in Blocks : ~Saving(p, b) /\ ~Saving(p, b)' BY <1>1 DEF Saving, Idle
<1>6. doing'[p].at # "close" BY <1>1 DEF Idle
<1>7. \A b \in Blocks : ~Shows(p, b) BY <1>1, EmptyContainsNothing DEF Shows
<1> QED BY <1>1, <1>2, <1>3, <1>4, <1>5, <1>6, <1>7, AccountsStill

LEMMA AccountsCloseBlocks ==
    ASSUME Shown, Shown', ~disturbed, ~disturbed', Accounts, NEW p \in Players, CloseBlocks(p)
    PROVE  Accounts'
<1>1. /\ doing[p] = Idle /\ screen[p] \in Screens /\ ~Meets(p)
      /\ doing' = [doing EXCEPT ![p] = [at |-> "close", left |-> screen[p]]]
      /\ UNCHANGED <<store, present, vehicle, ground, thrown, bag, carried, screen, copy, tick, total>>
    <2>1. Contains(<<Vehicle>>, Vehicle) BY DEF Contains
    <2> QED BY <2>1 DEF CloseBlocks, IdleAt, OnVehicle, Shows, Shown, SessionType
<1>2. \A q \in Players : q # p => UNCHANGED <<screen[q], copy[q], doing[q]>> BY <1>1 DEF Shown, SessionType
<1>3. copy' = [q \in Players |-> copy'[q]] /\ copy'[p] \in [Places -> Slot] BY <1>1 DEF Accounts, ItemsTyped
<1>4. \A b \in Blocks : ~Saving(p, b) /\ ~Saving(p, b)' BY <1>1 DEF Saving, Idle, Shown, SessionType
<1>5. ASSUME NEW b \in Blocks, Shows(p, b)' PROVE Fresh(p, b)'
    <2>1. Shows(p, b) /\ b \in Range(screen[p]) BY <1>1, <1>5, ScreenOfBlocks DEF Shows
    <2>2. ~InTransfer(b) BY <1>1, <2>1 DEF Meets
    <2>3. Fresh(p, b) BY <1>1, <2>1, <2>2, IdleFresh DEF Idle
    <2> QED BY <1>1, <2>3 DEF Fresh
<1>6. \A b \in Blocks : Shows(p, b) => Shows(p, b)' BY <1>1 DEF Shows
<1> QED BY <1>1, <1>2, <1>3, <1>4, <1>5, <1>6, AccountsStill

LEMMA AccountsHandled ==
    ASSUME Shown, Shown', ~disturbed, ~disturbed', Accounts, NEW p \in Players, Handled(p)
    PROVE  Accounts'
<1>1. /\ doing[p].at \in {"click", "close"} /\ doing[p].left = <<>> /\ doing' = [doing EXCEPT ![p] = Idle]
      /\ UNCHANGED <<store, present, vehicle, ground, thrown, bag, carried, tick, total>>
    BY DEF Handled, history
<1>2. \A q \in Players : q # p => UNCHANGED <<screen[q], copy[q], doing[q]>> BY DEF Handled, Shown, SessionType
<1>3. copy' = [q \in Players |-> copy'[q]] /\ copy'[p] \in [Places -> Slot]
    <2>1. copy \in [Players -> [Places -> Slot]] /\ 0 \in Slot
        BY ContainersAssumption DEF Accounts, ItemsTyped, Slot
    <2> QED BY <2>1 DEF Handled
<1>4. doing'[p] = Idle BY <1>1 DEF Shown, SessionType
<1>5. \A b \in Blocks : ~Saving(p, b) /\ ~Saving(p, b)' BY <1>1, <1>4, EmptyContainsNothing DEF Saving, Idle
<1>6. tick.stage = "telling" => p \notin tick.viewers BY <1>1, ToldStay DEF Accounts
<1>7. doing'[p].at # "close" BY <1>4 DEF Idle
<1> QED BY <1>1, <1>2, <1>3, <1>5, <1>6, <1>7, AccountsStill

\* No block is on a vehicle's screen.
LEMMA VehicleScreen ==
    ASSUME Shown, NEW p \in Players, OnVehicle(p)
    PROVE  screen[p] = <<Vehicle>> /\ \A b \in Blocks : ~Shows(p, b)
<1>1. screen[p] = <<Vehicle>> BY ScreenOfBlocks, EmptyContainsNothing DEF OnVehicle, Shows, Shown, SessionType
<1> QED BY <1>1, VehicleIsNoBlock DEF Shows

LEMMA AccountsVehicleStill ==
    ASSUME Shown, Shown', ~disturbed, ~disturbed', Accounts, NEW p \in Players,
           OpenVehicle(p) \/ CheckVehicle(p) \/ CloseVehicle(p)
    PROVE  Accounts'
<1>1. /\ doing[p] = Idle /\ doing'[p].at \in {"idle", "checked"}
      /\ UNCHANGED <<store, present, vehicle, ground, thrown, bag, carried, tick, total>>
    BY DEF OpenVehicle, CheckVehicle, CloseVehicle, IdleAt, Idle, history, Shown, SessionType
<1>2. \A q \in Players : q # p => UNCHANGED <<screen[q], copy[q], doing[q]>>
    BY DEF OpenVehicle, CheckVehicle, CloseVehicle, Shown, SessionType
<1>3. copy' = [q \in Players |-> copy'[q]] /\ copy'[p] \in [Places -> Slot]
    <2>1. copy \in [Players -> [Places -> Slot]] /\ 0 \in Slot /\ vehicle.items \in Slot
        BY ContainersAssumption DEF Accounts, ItemsTyped, Slot
    <2> QED BY <2>1 DEF OpenVehicle, CheckVehicle, CloseVehicle
<1>4. \A b \in Blocks : ~Saving(p, b) /\ ~Saving(p, b)' BY <1>1 DEF Saving, Idle
<1>5. \A b \in Blocks : ~Shows(p, b)
    <2>1. CASE OpenVehicle(p) BY <2>1, EmptyContainsNothing DEF OpenVehicle, Shows
    <2>2. CASE CheckVehicle(p) \/ CloseVehicle(p) BY <2>2, VehicleScreen DEF CheckVehicle, CloseVehicle
    <2> QED BY <2>1, <2>2
<1> QED BY <1>1, <1>2, <1>3, <1>4, <1>5, AccountsStill
\* What a click does to the session that makes it.
LEMMA HandleKeeps ==
    ASSUME ItemsTyped, NEW p \in Players, screen[p] \in Screens \cup {<<Vehicle>>}, NEW slots \in [Places -> Slot],
           NEW click \in Clicks(p, slots), Handle(p, click)
    PROVE  /\ bag' \in [Players -> Slot] /\ carried' \in [Players -> Slot] /\ copy' \in [Players -> [Places -> Slot]]
           /\ copy'[p] = click.slots /\ click.thrown \in Nat /\ thrown' = thrown + click.thrown /\ thrown' \in Nat
           /\ click.slots \in [Places -> Slot] /\ \A x \in Places \ Range(screen[p]) : click.slots[x] = slots[x]
           /\ \A q \in Players : q # p => UNCHANGED <<bag[q], carried[q], copy[q]>>
           /\ InHand(p)' + click.thrown + Sum(click.slots, Range(screen[p])) = InHand(p) + Sum(slots, Range(screen[p]))
           /\ InHand(p) \in Nat /\ InHand(p)' \in Nat
<1>1. Keeps(p, slots, click) BY ClickKeeps DEF ItemsTyped
<1>2. bag'[p] = click.bag /\ carried'[p] = click.carried /\ copy'[p] = click.slots BY DEF Handle, ItemsTyped
<1>3. InHand(p)' = click.bag + click.carried /\ InHand(p) = bag[p] + carried[p] BY <1>2 DEF InHand
<1>4. Slot \subseteq Nat BY ContainersAssumption DEF Slot
<1>5. bag' \in [Players -> Slot] /\ carried' \in [Players -> Slot] /\ copy' \in [Players -> [Places -> Slot]]
    BY <1>1 DEF Handle, ItemsTyped, Keeps
<1>6. \A q \in Players : q # p => UNCHANGED <<bag[q], carried[q], copy[q]>> BY DEF Handle, ItemsTyped
<1>7. thrown' = thrown + click.thrown /\ thrown' \in Nat /\ click.thrown \in Nat
    BY <1>1 DEF Handle, ItemsTyped, Keeps
<1>8. InHand(p) \in Nat /\ InHand(p)' \in Nat
    <2>1. click.bag \in Nat /\ click.carried \in Nat /\ bag[p] \in Nat /\ carried[p] \in Nat
        BY <1>1, <1>4 DEF Keeps, ItemsTyped
    <2> QED BY <1>3, <2>1
<1> QED BY <1>1, <1>2, <1>3, <1>5, <1>6, <1>7, <1>8 DEF Keeps

\* What is on the screen is what the click worked on, and is saved from now on.
LEMMA AccountsClickBlocks ==
    ASSUME Shown, Shown', ~disturbed, ~disturbed', Accounts, NEW p \in Players, ClickBlocks(p)
    PROVE  Accounts'
<1> DEFINE shown == Range(screen[p])
<1>1. /\ doing[p] = Idle /\ screen[p] \in Screens /\ ~Meets(p)
      /\ doing' = [doing EXCEPT ![p] = [at |-> "click", left |-> screen[p]]]
      /\ UNCHANGED <<store, present, vehicle, ground, screen, tick, total>>
    <2>1. Contains(<<Vehicle>>, Vehicle) BY DEF Contains
    <2> QED BY <2>1 DEF ClickBlocks, IdleAt, OnVehicle, Shows, Shown, SessionType
<1>2. ItemsTyped /\ copy[p] \in [Places -> Slot] BY DEF Accounts, ItemsTyped
<1>3. PICK click \in Clicks(p, copy[p]) : Handle(p, click) BY DEF ClickBlocks
<1>4. /\ bag' \in [Players -> Slot] /\ carried' \in [Players -> Slot] /\ copy' \in [Players -> [Places -> Slot]]
      /\ copy'[p] = click.slots /\ click.thrown \in Nat /\ thrown' = thrown + click.thrown /\ thrown' \in Nat
      /\ click.slots \in [Places -> Slot] /\ \A x \in Places \ shown : click.slots[x] = copy[p][x]
      /\ \A q \in Players : q # p => UNCHANGED <<bag[q], carried[q], copy[q]>>
      /\ InHand(p)' + click.thrown + Sum(click.slots, shown) = InHand(p) + Sum(copy[p], shown)
      /\ InHand(p) \in Nat /\ InHand(p)' \in Nat
    BY <1>1, <1>2, <1>3, HandleKeeps
<1>5. ItemsTyped' BY <1>1, <1>2, <1>4 DEF ItemsTyped
<1>6. \A q \in Players : q # p => UNCHANGED <<screen[q], copy[q], doing[q]>> BY <1>1, <1>4 DEF Shown, SessionType
<1>7. doing'[p] = [at |-> "click", left |-> screen[p]] BY <1>1 DEF Shown, SessionType
<1>8. OneSaves /\ OneSaves'
    <2>1. Shown' /\ ~disturbed' => OneSaves' BY DEF Shown, SessionType, Apart, OneSaves, Saving
    <2> QED BY <2>1, ShownOneSaves
<1>9. /\ shown \in SUBSET Blocks /\ \A b : Contains(screen[p], b) <=> b \in shown
    <2>1. screen[p] \in Seq(Blocks) /\ \A b : Contains(screen[p], b) <=> b \in shown BY <1>1, ScreenOfBlocks
    <2>2. \A b : Contains(screen[p], b) => b \in Blocks BY <2>1 DEF Contains
    <2> QED BY <2>1, <2>2
<1> HIDE DEF shown
<1>10. ASSUME NEW b \in shown PROVE Held(b) = copy[p][b] /\ Held(b)' = click.slots[b]
    <2>1. Shows(p, b) /\ b \in Blocks BY <1>9 DEF Shows
    <2>2. ~InTransfer(b) BY <1>1, <1>10 DEF Meets, shown
    <2>3. Fresh(p, b) BY <1>1, <2>1, <2>2, IdleFresh DEF Idle
    <2>4. \A q \in Players : ~Saving(q, b)
        BY <1>1, <1>8, <2>1 DEF OneSaves, Saving, Idle
    <2>5. Held(b) = store[b] BY <1>8, <2>1, <2>4, HeldIs
    <2>6. Saving(p, b)' BY <1>7, <1>9 DEF Saving
    <2>7. Held(b)' = copy'[p][b] BY <1>8, <2>1, <2>6, HeldIsNext
    <2> QED BY <1>4, <2>3, <2>5, <2>7 DEF Fresh
<1>11. ASSUME NEW b \in Blocks \ shown PROVE Held(b)' = Held(b)
    <2>1. \A q \in Players : Saving(q, b)' = Saving(q, b)
        <3>1. ~Saving(p, b) /\ ~Saving(p, b)' BY <1>1, <1>7, <1>9 DEF Saving, Idle
        <3>2. \A q \in Players : q # p => Saving(q, b)' = Saving(q, b) BY <1>6 DEF Saving
        <3> QED BY <3>1, <3>2 DEF Saving
    <2>2. ~Saving(p, b) BY <1>1 DEF Saving, Idle
    <2> QED BY <1>1, <1>6, <1>8, <2>1, <2>2, HeldIs, HeldIsNext
<1>12. AllHeld' + Sum(copy[p], shown) = AllHeld + Sum(click.slots, shown)
    <2> DEFINE f == [b \in Blocks |-> Held(b)]
               h == [b \in Blocks |-> Held(b)']
    <2>1. \A b \in Blocks : f[b] \in Nat /\ h[b] \in Nat BY <1>2, <1>5, <1>8, HeldIsStack, HeldIsStackNext
    <2>2. AllHeld = Sum(f, Blocks) /\ AllHeld' = Sum(h, Blocks) BY DEF AllHeld
    <2>3. \A b \in shown : f[b] = copy[p][b] /\ h[b] = click.slots[b] BY <1>9, <1>10
    <2>4. \A b \in Blocks \ shown : f[b] = h[b] BY <1>11
    <2> HIDE DEF f, h
    <2>5. IsFiniteSet(Blocks) BY ContainersAssumption
    <2>6. IsFiniteSet(shown) /\ IsFiniteSet(Blocks \ shown) BY <1>9, <2>5, FS_Subset
    <2>7. Sum(f, Blocks) = Sum(f, shown) + Sum(f, Blocks \ shown) BY <1>9, <2>1, <2>5, SumSplit
    <2>8. Sum(h, Blocks) = Sum(h, shown) + Sum(h, Blocks \ shown) BY <1>9, <2>1, <2>5, SumSplit
    <2>9. \A b \in shown : f[b] \in Nat /\ h[b] \in Nat BY <1>9, <2>1
    <2>10. Sum(f, shown) = Sum(copy[p], shown) BY <2>3, <2>6, <2>9, SumSame
    <2>11. Sum(h, shown) = Sum(click.slots, shown) BY <2>3, <2>6, <2>9, SumSame
    <2>12. Sum(f, Blocks \ shown) = Sum(h, Blocks \ shown) /\ Sum(f, Blocks \ shown) \in Nat
        BY <2>1, <2>4, <2>6, SumSame, SumNat
    <2>13. Sum(f, shown) \in Nat /\ Sum(h, shown) \in Nat BY <2>6, <2>9, SumNat
    <2> QED BY <2>2, <2>7, <2>8, <2>10, <2>11, <2>12, <2>13
<1>13. AllHands' + InHand(p) = AllHands + InHand(p)' BY <1>2, <1>4, <1>5, HandsChange
<1>14. Sum(copy[p], shown) \in Nat /\ Sum(click.slots, shown) \in Nat
    <2>1. IsFiniteSet(shown) BY <1>9, ContainersAssumption, FS_Subset
    <2>2. \A b \in shown : copy[p][b] \in Nat /\ click.slots[b] \in Nat
        BY <1>2, <1>4, <1>9, ContainersAssumption DEF Slot, Places
    <2> QED BY <2>1, <2>2, SumNat
<1>15. AllHeld' + vehicle'.items + AllHands' + thrown' = AllHeld + vehicle.items + AllHands + thrown
    <2>1. \A a, b, c, d, g, h, i, j, k, l, t \in Nat :
             /\ a + b = c + d          \* held, on the screen
             /\ g + h = i + j          \* in hand
             /\ j + k + d = h + b      \* the click
             => a + l + g + (t + k) = c + l + i + t
        OBVIOUS
    <2>2. /\ AllHeld \in Nat /\ AllHands \in Nat /\ vehicle.items \in Nat /\ thrown \in Nat
          /\ AllHeld' \in Nat /\ AllHands' \in Nat
        BY <1>2, <1>5, <1>8, WorthIsOfNats
    <2>3. InHand(p) \in Nat /\ InHand(p)' \in Nat /\ click.thrown \in Nat /\ thrown' = thrown + click.thrown
          /\ InHand(p)' + click.thrown + Sum(click.slots, shown) = InHand(p) + Sum(copy[p], shown)
        BY <1>4
    <2>4. AllHeld' + vehicle.items + AllHands' + (thrown + click.thrown) = AllHeld + vehicle.items + AllHands + thrown
        BY <1>12, <1>13, <1>14, <2>1, <2>2, <2>3
    <2> QED BY <1>1, <2>3, <2>4
<1>16. doing'[p].at # "close" /\ \A b \in Blocks : Shows(p, b)' = Shows(p, b) BY <1>1, <1>7 DEF Shows
<1> QED BY <1>1, <1>5, <1>6, <1>8, <1>15, <1>16, OwnAccounts
\* Under the lock the click works on what the storage holds then.
LEMMA AccountsClickVehicle ==
    ASSUME Shown, Shown', ~disturbed, ~disturbed', Accounts, NEW p \in Players, ClickVehicle(p)
    PROVE  Accounts'
<1>1. /\ doing[p].at = "checked" /\ doing[p].left = <<>> /\ screen[p] = <<Vehicle>>
      /\ doing' = [doing EXCEPT ![p] = Idle] /\ UNCHANGED <<store, present, ground, screen, tick, total>>
    BY DEF ClickVehicle, history, Shown, SessionType
<1>2. ItemsTyped /\ copy[p] \in [Places -> Slot] /\ vehicle \in [items : Slot, removed : BOOLEAN, alive : BOOLEAN]
    BY DEF Accounts, ItemsTyped
<1>3. doing'[p] = Idle /\ \A q \in Players : q # p => UNCHANGED <<screen[q], doing[q]>> BY <1>1 DEF Shown, SessionType
<1>4. \A b \in Blocks : ~Saving(p, b) /\ ~Saving(p, b)' BY <1>1, <1>3 DEF Saving, Idle
<1>5. doing'[p].at # "close" /\ \A b \in Blocks : Shows(p, b)' = Shows(p, b) BY <1>1, <1>3 DEF Idle, Shows
<1>6. CASE Refused
    <2>1. UNCHANGED <<vehicle, bag, carried, copy, thrown>> BY <1>6 DEF ClickVehicle
    <2>2. copy' = [q \in Players |-> copy'[q]] /\ copy'[p] \in [Places -> Slot] BY <2>1 DEF Accounts, ItemsTyped
    <2> QED BY <1>1, <1>3, <1>4, <1>5, <2>1, <2>2, AccountsStill
<1>7. CASE ~Refused
    <2>1. PICK click \in Clicks(p, Latest(p)) : Handle(p, click) BY <1>7 DEF ClickVehicle
    <2>2. Latest(p) \in [Places -> Slot] /\ Latest(p)[Vehicle] = vehicle.items BY <1>2 DEF Latest, Places
    <2>3. Range(screen[p]) = {Vehicle}
        <3>1. Len(screen[p]) = 1 /\ screen[p][1] = Vehicle BY <1>1
        <3>2. OneOrTwo(screen[p]) BY <1>1, ScreenOfTwo
        <3> QED BY <3>1, <3>2 DEF OneOrTwo
    <2>4. /\ bag' \in [Players -> Slot] /\ carried' \in [Players -> Slot] /\ copy' \in [Players -> [Places -> Slot]]
          /\ copy'[p] = click.slots /\ click.thrown \in Nat /\ thrown' = thrown + click.thrown /\ thrown' \in Nat
          /\ click.slots \in [Places -> Slot]
          /\ \A q \in Players : q # p => UNCHANGED <<bag[q], carried[q], copy[q]>>
          /\ InHand(p)' + click.thrown + Sum(click.slots, {Vehicle}) = InHand(p) + Sum(Latest(p), {Vehicle})
          /\ InHand(p) \in Nat /\ InHand(p)' \in Nat
        <3>1. screen[p] \in Screens \cup {<<Vehicle>>} BY <1>1
        <3> DEFINE shown == Range(screen[p])
        <3> HIDE DEF shown
        <3>2. shown = {Vehicle} BY <2>3 DEF shown
        <3>3. InHand(p)' + click.thrown + Sum(click.slots, shown) = InHand(p) + Sum(Latest(p), shown)
            BY <1>2, <2>1, <2>2, <3>1, HandleKeeps DEF shown
        <3>4. InHand(p)' + click.thrown + Sum(click.slots, {Vehicle}) = InHand(p) + Sum(Latest(p), {Vehicle})
            BY <3>2, <3>3
        <3> QED BY <1>2, <2>1, <2>2, <3>1, <3>4, HandleKeeps
    <2>5. vehicle' = [vehicle EXCEPT !.items = click.slots[Vehicle]] BY <1>7, <2>4 DEF ClickVehicle
    <2>6. vehicle'.items = click.slots[Vehicle] /\ vehicle' \in [items : Slot, removed : BOOLEAN, alive : BOOLEAN]
        BY <1>2, <2>4, <2>5 DEF Places
    <2>7. ItemsTyped' BY <1>1, <1>2, <2>4, <2>6 DEF ItemsTyped
    <2>8. Sum(click.slots, {Vehicle}) = vehicle'.items /\ Sum(Latest(p), {Vehicle}) = vehicle.items
          /\ vehicle.items \in Nat /\ vehicle'.items \in Nat
        <3>1. vehicle.items \in Nat /\ vehicle'.items \in Nat BY <1>2, <2>6, ContainersAssumption DEF Slot
        <3> QED BY <2>2, <2>6, <3>1, SumOfOne
    <2>9. OneSaves /\ OneSaves'
        <3>1. Shown' /\ ~disturbed' => OneSaves' BY DEF Shown, SessionType, Apart, OneSaves, Saving
        <3> QED BY <3>1, ShownOneSaves
    <2>10. AllHeld' = AllHeld
        <3>1. \A q \in Players, b \in Blocks : Saving(q, b)' = Saving(q, b) BY <1>3, <1>4 DEF Saving
        <3>2. \A q \in Players, b \in Blocks : Saving(q, b) => copy'[q][b] = copy[q][b] BY <1>4, <2>4
        <3> QED BY <1>1, <2>9, <3>1, <3>2, HeldStays
    <2>11. AllHands' + InHand(p) = AllHands + InHand(p)' BY <1>2, <2>4, <2>7, HandsChange
    <2>12. /\ AllHeld \in Nat /\ AllHands \in Nat /\ thrown \in Nat /\ AllHands' \in Nat
        BY <1>2, <2>7, <2>9, WorthIsOfNats
    <2>13. InHand(p) \in Nat /\ InHand(p)' \in Nat /\ click.thrown \in Nat /\ thrown' = thrown + click.thrown
           /\ InHand(p)' + click.thrown + vehicle'.items = InHand(p) + vehicle.items
        BY <2>4, <2>8
    <2>14. AllHeld + vehicle'.items + AllHands' + (thrown + click.thrown) = AllHeld + vehicle.items + AllHands + thrown
        <3>1. \A g, h, i, j, k, l, m \in Nat : g + h = i + j /\ j + k + l = h + m => g + k + l = i + m
            OBVIOUS
        <3>2. vehicle.items \in Nat /\ vehicle'.items \in Nat BY <2>8
        <3>3. AllHands' + click.thrown + vehicle'.items = AllHands + vehicle.items
            BY <2>11, <2>12, <2>13, <3>1, <3>2
        <3>4. \A a, g, i, k, l, m, t \in Nat : g + k + l = i + m => a + l + g + (t + k) = a + m + i + t
            OBVIOUS
        <3>5. click.thrown \in Nat BY <2>13
        <3> QED BY <2>12, <3>2, <3>3, <3>4, <3>5
    <2>15. \A q \in Players : q # p => UNCHANGED <<screen[q], copy[q], doing[q]>> BY <1>3, <2>4
    <2>16. AllHeld' + vehicle'.items + AllHands' + thrown' = AllHeld + vehicle.items + AllHands + thrown
        BY <2>10, <2>13, <2>14
    <2> QED BY <1>1, <1>5, <2>7, <2>9, <2>15, <2>16, OwnAccounts
<1> QED BY <1>6, <1>7

\* A stack that is saved was being saved, or is what the container held.
LEMMA AccountsPersist ==
    ASSUME Shown, Shown', ~disturbed, ~disturbed', Accounts, NEW p \in Players, PersistContents(p)
    PROVE  Accounts'
<1> DEFINE left == doing[p].left
           x == Head(left)
<1>1. /\ left # <<>> /\ store' = [store EXCEPT ![x] = copy[p][x]] /\ doing' = [doing EXCEPT ![p].left = Tail(left)]
      /\ UNCHANGED <<present, vehicle, ground, thrown, bag, carried, screen, copy, tick, disturbed, total>>
    BY DEF PersistContents, SaveCopy, history
<1>2. left \in Seq(Blocks) BY DEF Shown, SessionType
<1>3. x \in Blocks BY <1>1, <1>2, HeadTailProperties
<1>4. /\ \A b : Contains(left, b) => b = x \/ Contains(Tail(left), b)
      /\ \A b : Contains(Tail(left), b) => Contains(left, b)
      /\ Contains(left, x)
    BY <1>1, <1>2, ContainsTail
<1> HIDE DEF x
<1>5. doing[p].at \in {"click", "close"} BY <1>1 DEF Shown, SessionType
<1>6. /\ doing'[p].left = Tail(left) /\ doing'[p].at = doing[p].at
      /\ \A q \in Players : q # p => doing'[q] = doing[q]
    BY <1>1 DEF Shown, SessionType
<1>7. Shows(p, x) /\ ~InTransfer(x) BY <1>3, <1>4, <1>5 DEF Shown, SessionType, Apart
<1>8. ItemsTyped /\ Carrying /\ Closing /\ Telling BY DEF Accounts
<1>9. store' \in [Blocks -> Slot] /\ store'[x] = copy[p][x] /\ \A b \in Blocks : b # x => store'[b] = store[b]
    BY <1>1, <1>3, <1>8 DEF ItemsTyped, Places
<1>10. ItemsTyped' BY <1>1, <1>8, <1>9 DEF ItemsTyped
<1>11. Carrying'
    <2>1. tick.stage \in {"loaded", "saving", "half"} => x # tick.move.src /\ x # tick.move.dst
        BY <1>7 DEF InTransfer
    <2> QED BY <1>1, <1>8, <1>9, <2>1 DEF Carrying
<1>12. Closing'
    <2> SUFFICES ASSUME NEW q \in Players, NEW b \in Blocks, Shows(q, b), doing'[q].at = "close"
                 PROVE  copy[q][b] = store'[b]
        BY <1>1 DEF Closing, Shows, Fresh
    <2>1. copy[q][b] = store[b] BY <1>6, <1>8 DEF Closing, Fresh
    <2>2. b = x => q = p BY <1>7 DEF Shown, Apart
    <2> QED BY <1>9, <2>1, <2>2
<1>13. Telling' BY <1>1, <1>8 DEF Telling, Shows
<1>14. OneSaves /\ OneSaves'
    <2>1. Shown' /\ ~disturbed' => OneSaves' BY DEF Shown, SessionType, Apart, OneSaves, Saving
    <2> QED BY <2>1, ShownOneSaves
<1>15. ASSUME NEW b \in Blocks PROVE Held(b)' = Held(b)
    <2>1. CASE b # x
        <3>1. \A q \in Players : Saving(q, b)' = Saving(q, b) BY <1>4, <1>6, <2>1 DEF Saving
        <3>2. store'[b] = store[b] /\ copy' = copy BY <1>1, <1>9, <2>1
        <3> QED BY <1>14, <3>1, <3>2, HeldIs, HeldIsNext
    <2>2. CASE b = x
        <3>1. Held(b) = copy[p][b]
            <4>1. CASE doing[p].at = "click"
                <5>1. Saving(p, b) BY <1>4, <2>2, <4>1 DEF Saving
                <5> QED BY <1>14, <5>1, HeldIs
            <4>2. CASE doing[p].at = "close"
                <5>1. \A q \in Players : ~Saving(q, b) BY <1>7, <1>14, <2>2, <4>2 DEF Saving, OneSaves
                <5>2. Fresh(p, b) BY <1>7, <1>8, <2>2, <4>2 DEF Closing
                <5> QED BY <1>14, <5>1, <5>2, HeldIs DEF Fresh
            <4> QED BY <1>5, <4>1, <4>2
        <3>2. Held(b)' = copy[p][b]
            <4>1. \A q \in Players : Saving(q, b)' => q = p
                <5>1. Shows(p, b)' BY <1>1, <1>7, <2>2 DEF Shows
                <5> QED BY <1>14, <5>1 DEF OneSaves
            <4>2. CASE Saving(p, b)' BY <1>1, <1>14, <4>2, HeldIsNext
            <4>3. CASE ~Saving(p, b)'
                <5>1. \A q \in Players : ~Saving(q, b)' BY <4>1, <4>3
                <5> QED BY <1>9, <1>14, <2>2, <5>1, HeldIsNext
            <4> QED BY <4>2, <4>3
        <3> QED BY <3>1, <3>2
    <2> QED BY <2>1, <2>2
<1>16. AllHeld' = AllHeld BY <1>15 DEF AllHeld
<1>17. AllHands' = AllHands BY <1>1, HandsStay
<1>18. Worth' = Worth BY <1>1, <1>16, <1>17 DEF Worth, OnTheWay
<1>19. Books' BY <1>1, <1>18, BooksKept DEF Accounts
<1> QED BY <1>10, <1>11, <1>12, <1>13, <1>19 DEF Accounts
LEMMA AccountsBreak ==
    ASSUME Shown, Shown', ~disturbed, ~disturbed', Accounts, NEW b \in Blocks, BreakBlock(b)
    PROVE  Accounts'
<1>1. /\ store' = [store EXCEPT ![b] = 0] /\ ground' = ground + store[b] /\ present' \subseteq present
      /\ Viewers(b) = {} /\ ~InTransfer(b)
      /\ UNCHANGED <<vehicle, thrown, bag, carried, screen, copy, doing, tick, total>>
    BY DEF BreakBlock, sessionVars
<1>2. ItemsTyped /\ Carrying /\ Closing /\ Telling BY DEF Accounts
<1>3. store[b] \in Nat /\ 0 \in Slot BY <1>2, ContainersAssumption DEF ItemsTyped, Slot
<1>4. store' \in [Blocks -> Slot] /\ store'[b] = 0 /\ \A c \in Blocks : c # b => store'[c] = store[c]
    BY <1>1, <1>2, <1>3 DEF ItemsTyped
<1>5. ItemsTyped' BY <1>1, <1>2, <1>3, <1>4 DEF ItemsTyped
<1>6. Carrying'
    <2>1. tick.stage \in {"loaded", "saving", "half"} => b # tick.move.src /\ b # tick.move.dst
        BY <1>1 DEF InTransfer
    <2> QED BY <1>1, <1>2, <1>4, <2>1 DEF Carrying
<1>7. \A p \in Players : ~Shows(p, b) BY <1>1 DEF Viewers
<1>8. Closing' BY <1>1, <1>2, <1>4, <1>7 DEF Closing, Shows, Fresh
<1>9. Telling' BY <1>1, <1>2 DEF Telling, Shows
<1>10. OneSaves /\ OneSaves'
    <2>1. Shown' /\ ~disturbed' => OneSaves' BY DEF Shown, SessionType, Apart, OneSaves, Saving
    <2> QED BY <2>1, ShownOneSaves
<1>11. \A p \in Players, c \in Blocks : Saving(p, c)' = Saving(p, c) BY <1>1 DEF Saving
<1>12. \A c \in Blocks : c # b => Held(c)' = Held(c)
    <2> SUFFICES ASSUME NEW c \in Blocks, c # b PROVE Held(c)' = Held(c)
        OBVIOUS
    <2>1. store'[c] = store[c] /\ copy' = copy BY <1>1, <1>4
    <2> QED BY <1>10, <1>11, <2>1, HeldIs, HeldIsNext
<1>13. Held(b) = store[b] /\ Held(b)' = 0
    <2>1. \A p \in Players : ~Saving(p, b) /\ ~Saving(p, b)' BY <1>7, <1>10, <1>11 DEF OneSaves
    <2> QED BY <1>4, <1>10, <2>1, HeldIs, HeldIsNext
<1>14. AllHeld' + Held(b) = AllHeld + Held(b)' BY <1>2, <1>5, <1>10, <1>12, HeldChanges
<1>15. AllHands' = AllHands BY <1>1, HandsStay
<1>16. Worth' = Worth
    <2>1. OnTheWay' = OnTheWay BY <1>1 DEF OnTheWay
    <2>2. AllHeld' + store[b] = AllHeld
        BY <1>2, <1>5, <1>10, <1>13, <1>14, WorthIsOfNats
    <2>3. \A a, d, s, v, g, w, h, t \in Nat : a + s = d => a + v + (g + s) + w + h + t = d + v + g + w + h + t
        OBVIOUS
    <2> QED BY <1>1, <1>2, <1>3, <1>5, <1>10, <1>15, <2>1, <2>2, <2>3, WorthIsOfNats DEF Worth
<1>17. Books' BY <1>1, <1>16, BooksKept DEF Accounts
<1> QED BY <1>5, <1>6, <1>8, <1>9, <1>17 DEF Accounts

LEMMA AccountsVehicleDies ==
    ASSUME Shown, Shown', ~disturbed, ~disturbed', Accounts, VehicleDies \/ Drain
    PROVE  Accounts'
<1>1. /\ UNCHANGED <<store, present, thrown, bag, carried, screen, copy, doing, tick, total>>
      /\ ItemsTyped /\ Carrying /\ Closing /\ Telling
    BY DEF VehicleDies, Drain, sessionVars, history, Accounts
<1>2. Carrying' /\ Closing' /\ Telling' BY <1>1 DEF Carrying, Closing, Telling, Shows, Fresh
<1>3. vehicle.items \in Nat /\ 0 \in Slot BY <1>1, ContainersAssumption DEF ItemsTyped, Slot
<1>4. ItemsTyped' /\ vehicle'.items + ground' = vehicle.items + ground
    <2>1. CASE VehicleDies
        <3>1. vehicle' = [vehicle EXCEPT !.alive = FALSE] /\ ground' = ground BY <2>1 DEF VehicleDies
        <3>2. vehicle' \in [items : Slot, removed : BOOLEAN, alive : BOOLEAN] /\ vehicle'.items = vehicle.items
            BY <1>1, <3>1 DEF ItemsTyped
        <3> QED BY <1>1, <3>1, <3>2 DEF ItemsTyped
    <2>2. CASE Drain
        <3>1. vehicle' = [vehicle EXCEPT !.items = 0, !.removed = TRUE] /\ ground' = ground + vehicle.items
            BY <2>2 DEF Drain
        <3>2. vehicle' \in [items : Slot, removed : BOOLEAN, alive : BOOLEAN] /\ vehicle'.items = 0
            BY <1>1, <1>3, <3>1 DEF ItemsTyped
        <3>3. ground \in Nat BY <1>1 DEF ItemsTyped
        <3>4. ground' \in Nat /\ vehicle'.items + ground' = vehicle.items + ground BY <1>3, <3>1, <3>2, <3>3
        <3> QED BY <1>1, <3>2, <3>4 DEF ItemsTyped
    <2> QED BY <2>1, <2>2
<1>5. OneSaves /\ OneSaves'
    <2>1. Shown' /\ ~disturbed' => OneSaves' BY DEF Shown, SessionType, Apart, OneSaves, Saving
    <2> QED BY <2>1, ShownOneSaves
<1>6. AllHeld' = AllHeld
    <2>1. \A q \in Players, b \in Blocks : Saving(q, b)' = Saving(q, b) BY <1>1 DEF Saving
    <2> QED BY <1>1, <1>5, <2>1, HeldStays
<1>7. AllHands' = AllHands /\ OnTheWay' = OnTheWay BY <1>1, HandsStay DEF OnTheWay
<1>8. Worth' = Worth
    <2>1. \A a, v, u, g, f, w, h, t \in Nat : v + g = u + f => a + v + g + w + h + t = a + u + f + w + h + t
        OBVIOUS
    <2> QED BY <1>1, <1>4, <1>5, <1>6, <1>7, <2>1, WorthIsOfNats DEF Worth
<1>9. Books' BY <1>1, <1>8, BooksKept DEF Accounts
<1> QED BY <1>2, <1>4, <1>9 DEF Accounts
\* Steps of the tick that move nothing.
LEMMA AccountsMoves ==
    ASSUME Shown, Shown', ~disturbed, ~disturbed', Accounts,
           UNCHANGED <<store, present, vehicle, ground, thrown, sessionVars, total>>,
           tick.stage # "half",
           tick'.stage \in {"idle", "visit", "load", "loaded", "saving", "failed"}, Carrying'
    PROVE  Accounts'
<1>1. ItemsTyped' /\ Closing' /\ Telling'
    BY DEF Accounts, ItemsTyped, Closing, Telling, Shows, Fresh, sessionVars
<1>2. OneSaves /\ OneSaves'
    <2>1. Shown' /\ ~disturbed' => OneSaves' BY DEF Shown, SessionType, Apart, OneSaves, Saving
    <2> QED BY <2>1, ShownOneSaves
<1>3. AllHeld' = AllHeld
    <2>1. UNCHANGED <<doing, copy>> BY DEF sessionVars
    <2>2. \A q \in Players, b \in Blocks : Saving(q, b)' = Saving(q, b) BY <2>1 DEF Saving
    <2> QED BY <1>2, <2>1, <2>2, HeldStays
<1>4. AllHands' = AllHands BY HandsStay DEF sessionVars
<1>5. Worth' = Worth
    <2>1. OnTheWay' = OnTheWay BY DEF OnTheWay
    <2> QED BY <1>3, <1>4, <2>1 DEF Worth
<1>6. Books' BY <1>5, BooksKept DEF Accounts
<1> QED BY <1>1, <1>6 DEF Accounts

LEMMA AccountsVisits ==
    ASSUME Shown, Shown', ~disturbed, ~disturbed', Accounts,
           \/ AutomationBegins \/ AutomationEnds \/ SkipHopper \/ VisitHopper \/ NoContainer \/ PullInstead \/ Told
           \/ CollectDropped /\ UNCHANGED <<store, ground, disturbed>> /\ tick' = Visited
    PROVE  Accounts'
<1>1. DOMAIN tick = Fields BY DEF Shown, TickType
<1>2. /\ \A f, t : Transfer(f, t).stage = "load" /\ Visited.stage = "visit" /\ IdleTick.stage = "idle"
      /\ [IdleTick EXCEPT !.stage = "visit", !.left = Hoppers, !.begun = [h \in Hoppers |-> store[h]]].stage = "visit"
      /\ [tick EXCEPT !.stage = "failed"].stage = "failed"
    BY <1>1 DEF Transfer, Visited, IdleTick, Fields
<1>3. tick'.stage \in {"idle", "visit", "load", "failed"}
    <2>1. CASE AutomationBegins \/ AutomationEnds BY <1>2, <2>1 DEF AutomationBegins, AutomationEnds
    <2>2. CASE SkipHopper \/ Told \/ tick' = Visited BY <1>2, <2>2 DEF SkipHopper, Told
    <2>3. CASE VisitHopper \/ PullInstead BY <1>2, <2>3 DEF VisitHopper, PullInstead
    <2>4. CASE NoContainer BY <1>2, <2>4 DEF NoContainer
    <2> QED BY <2>1, <2>2, <2>3, <2>4
<1>4. tick.stage # "half" /\ UNCHANGED <<store, present, vehicle, ground, thrown, sessionVars, total>>
    BY DEF AutomationBegins, AutomationEnds, SkipHopper, VisitHopper, NoContainer, PullInstead, Told, CollectDropped,
       history
<1>5. Carrying' BY <1>3 DEF Carrying
<1> QED BY <1>3, <1>4, <1>5, AccountsMoves

\* No transfer is of a hopper to itself.
LEMMA TransferApart ==
    ASSUME Hops, ~disturbed, Working
    PROVE  tick.move.src # tick.move.dst
<1>1. HopperType /\ InOrder BY DEF Hops
<1>2. tick.left \subseteq Hoppers /\ tick.left # {} BY <1>1 DEF HopperType, InOrder, Working
<1>3. Visiting \in Hoppers BY <1>2, LowestFirst
<1>4. Into[Visiting] # Visiting BY <1>3, ContainersAssumption
<1>5. Above[Visiting] # Visiting
    <2>1. Y[Visiting] \in Nat BY <1>3, ContainersAssumption
    <2>2. Y[Visiting] # Y[Visiting] + 1 BY <2>1
    <2> QED BY <1>3, <2>2, ContainersAssumption
<1> QED BY <1>1, <1>4, <1>5 DEF InOrder

LEMMA AccountsLoads ==
    ASSUME Shown, Shown', Hops, ~disturbed, ~disturbed', Accounts, LoadSource \/ LoadDestination
    PROVE  Accounts'
<1>1. DOMAIN tick = Fields /\ ItemsTyped /\ Carrying BY DEF Shown, TickType, Accounts
<1>2. UNCHANGED <<store, present, vehicle, ground, thrown, sessionVars, total>> /\ tick'.move = tick.move
    BY <1>1 DEF LoadSource, LoadDestination, history, Fields
<1>3. CASE LoadSource
    <2>1. /\ tick.stage = "load" /\ tick'.stage = "loaded" /\ tick'.src = store[tick.move.src]
          /\ tick.move.src \in present /\ tick.move.dst \in present
        BY <1>1, <1>3 DEF LoadSource, Fields
    <2>2. tick.move.src # tick.move.dst BY <2>1, TransferApart DEF Working
    <2>3. Carrying' BY <1>1, <1>2, <2>1, <2>2 DEF Carrying, ItemsTyped
    <2> QED BY <1>2, <2>1, <2>3, AccountsMoves
<1>4. CASE LoadDestination
    <2>1. tick.stage = "loaded" BY <1>4 DEF LoadDestination
    <2>2. /\ tick.move.src \in Blocks /\ tick.move.dst \in Blocks /\ tick.move.src # tick.move.dst
          /\ tick.src = store[tick.move.src]
        BY <1>1, <2>1 DEF Carrying
    <2>3. store[tick.move.dst] \in Slot /\ tick.src \in Slot BY <1>1, <2>2 DEF ItemsTyped
    <2>4. CASE tick.src > 0 /\ store[tick.move.dst] < MaxStack
        <3>1. tick'.stage = "saving" /\ tick'.src = tick.src - 1 /\ tick'.dst = store[tick.move.dst] + 1
            BY <1>1, <1>4, <2>4 DEF LoadDestination, Fields
        <3>2. /\ tick.src - 1 \in Slot /\ (tick.src - 1) + 1 = tick.src
              /\ store[tick.move.dst] + 1 \in Slot
            BY <2>3, <2>4, ContainersAssumption DEF Slot
        <3>3. Carrying' BY <1>2, <2>2, <3>1, <3>2 DEF Carrying
        <3> QED BY <1>2, <2>1, <3>1, <3>3, AccountsMoves
    <2>5. CASE ~(tick.src > 0 /\ store[tick.move.dst] < MaxStack)
        <3>1. tick'.stage = "failed" BY <1>1, <1>4, <2>5 DEF LoadDestination, Fields
        <3>2. Carrying' BY <3>1 DEF Carrying
        <3> QED BY <1>2, <2>1, <3>1, <3>2, AccountsMoves
    <2> QED BY <2>4, <2>5
<1> QED BY <1>3, <1>4

\* What a container's slot gains or loses by a write, the ground and the tick's hands lose or gain.
LEMMA SaveSums ==
    ASSUME NEW b \in Blocks, NEW v \in Nat, store[b] \in Nat, AllHeld \in Nat, ground \in Nat, OnTheWay \in Nat,
           AllHeld' \in Nat, ground' \in Nat, OnTheWay' \in Nat, AllHeld' + store[b] = AllHeld + v,
           v + ground' + OnTheWay' = store[b] + ground + OnTheWay
    PROVE  AllHeld' + ground' + OnTheWay' = AllHeld + ground + OnTheWay
<1>1. PICK h, k, s : h = AllHeld /\ k = AllHeld' /\ s = store[b] OBVIOUS
<1>2. PICK g, f : g = ground /\ f = ground' OBVIOUS
<1>3. PICK o, n : o = OnTheWay /\ n = OnTheWay' OBVIOUS
<1>4. h \in Nat /\ k \in Nat /\ s \in Nat BY <1>1
<1>5. g \in Nat /\ f \in Nat BY <1>2
<1>6. o \in Nat /\ n \in Nat BY <1>3
<1>7. k + s = h + v BY <1>1
<1>8. v + f + n = s + g + o BY <1>1, <1>2, <1>3
<1>9. k + f + n = h + g + o BY <1>4, <1>5, <1>6, <1>7, <1>8
<1> QED BY <1>1, <1>2, <1>3, <1>9

\* The tick writes a container whose viewers, if any, are idle.
LEMMA AccountsSaves ==
    ASSUME Shown, Shown', ~disturbed, ~disturbed', Accounts, NEW b \in Blocks, NEW v \in Slot,
           store' = [store EXCEPT ![b] = v], UNCHANGED <<present, vehicle, thrown, sessionVars, total>>,
           ground' \in Nat, \A p \in Players : Shows(p, b) => doing[p].at = "idle",
           Carrying', Telling', v + ground' + OnTheWay' = store[b] + ground + OnTheWay
    PROVE  Accounts'
<1>1. UNCHANGED <<bag, carried, screen, copy, doing>> BY DEF sessionVars
<1>2. ItemsTyped /\ Closing BY DEF Accounts
<1>3. ItemsTyped' BY <1>1, <1>2 DEF ItemsTyped
<1>4. \A c \in Blocks : c # b => store'[c] = store[c] BY <1>2 DEF ItemsTyped
<1>5. Closing'
    <2> SUFFICES ASSUME NEW p \in Players, NEW c \in Blocks, Shows(p, c), doing[p].at = "close"
                 PROVE  copy[p][c] = store'[c]
        BY <1>1 DEF Closing, Shows, Fresh
    <2>1. c # b OBVIOUS
    <2>2. copy[p][c] = store[c] BY <1>2 DEF Closing, Fresh
    <2> QED BY <1>4, <2>1, <2>2
<1>6. OneSaves /\ OneSaves'
    <2>1. Shown' /\ ~disturbed' => OneSaves' BY DEF Shown, SessionType, Apart, OneSaves, Saving
    <2> QED BY <2>1, ShownOneSaves
<1>7. \A p \in Players, c \in Blocks : Saving(p, c)' = Saving(p, c) BY <1>1 DEF Saving
<1>8. \A c \in Blocks : c # b => Held(c)' = Held(c)
    <2> SUFFICES ASSUME NEW c \in Blocks, c # b PROVE Held(c)' = Held(c)
        OBVIOUS
    <2>1. store'[c] = store[c] /\ copy' = copy BY <1>1, <1>4
    <2> QED BY <1>6, <1>7, <2>1, HeldIs, HeldIsNext
<1>9. Held(b) = store[b] /\ Held(b)' = v
    <2>1. \A p \in Players : ~Saving(p, b) /\ ~Saving(p, b)' BY <1>6, <1>7 DEF OneSaves, Saving
    <2>2. store'[b] = v BY <1>2 DEF ItemsTyped
    <2> QED BY <1>6, <2>1, <2>2, HeldIs, HeldIsNext
<1>10. AllHeld' + store[b] = AllHeld + v BY <1>2, <1>3, <1>6, <1>8, <1>9, HeldChanges
<1>11. AllHands' = AllHands BY <1>1, HandsStay
<1>12. Worth' = Worth
    <2>1. store[b] \in Nat /\ v \in Nat BY <1>2, ContainersAssumption DEF ItemsTyped, Slot
    <2>6. /\ AllHeld \in Nat /\ vehicle.items \in Nat /\ ground \in Nat /\ OnTheWay \in Nat /\ AllHands \in Nat
          /\ thrown \in Nat /\ AllHeld' \in Nat /\ ground' \in Nat /\ OnTheWay' \in Nat
        BY <1>2, <1>3, <1>6, WorthIsOfNats
    <2>3. AllHeld' + ground' + OnTheWay' = AllHeld + ground + OnTheWay BY <1>10, <2>1, <2>6, SaveSums
    <2>4. \A a, f, i, n, w, t \in Nat : a + i + f + n + w + t = (a + f + n) + i + w + t OBVIOUS
    <2>5. Worth' = AllHeld' + vehicle.items + ground' + OnTheWay' + AllHands + thrown BY <1>11 DEF Worth
    <2>7. Worth' = (AllHeld' + ground' + OnTheWay') + vehicle.items + AllHands + thrown BY <2>4, <2>5, <2>6
    <2>8. Worth = (AllHeld + ground + OnTheWay) + vehicle.items + AllHands + thrown BY <2>4, <2>6 DEF Worth
    <2> QED BY <2>3, <2>7, <2>8
<1>13. Books' BY <1>12, BooksKept DEF Accounts
<1> QED BY <1>3, <1>5, <1>13 DEF Accounts

LEMMA AccountsTransfers ==
    ASSUME Shown, Shown', ~disturbed, ~disturbed', Accounts, SaveSource \/ SaveDestination
    PROVE  Accounts'
<1> DEFINE src == tick.move.src
           dst == tick.move.dst
<1>1. DOMAIN tick = Fields /\ ItemsTyped /\ Carrying BY DEF Shown, TickType, Accounts
<1>2. UNCHANGED <<present, vehicle, ground, thrown, sessionVars, total>> /\ tick'.move = tick.move
    BY <1>1 DEF SaveSource, SaveDestination, history, Fields
<1>3. tick.stage \in {"saving", "half"} BY DEF SaveSource, SaveDestination
<1>4. src \in Blocks /\ dst \in Blocks /\ src # dst /\ tick.dst \in Slot /\ tick.dst = store[dst] + 1
    BY <1>1, <1>3 DEF Carrying
<1>5. \A b \in {src, dst} : \A p \in Players : Shows(p, b) => doing[p].at = "idle"
    BY <1>3, <1>4 DEF Shown, Apart, InTransfer
<1>6. store[src] \in Nat /\ store[dst] \in Nat /\ ground \in Nat BY <1>1, <1>4, ContainersAssumption DEF ItemsTyped, Slot
<1>7. CASE SaveSource
    <2>1. tick.stage = "saving" /\ tick'.stage = "half" /\ tick'.dst = tick.dst /\ store' = [store EXCEPT ![src] = tick.src]
        BY <1>1, <1>7 DEF SaveSource, Fields
    <2>2. tick.src \in Slot /\ tick.src + 1 = store[src] /\ tick.src \in Nat
        BY <1>1, <2>1, ContainersAssumption DEF Carrying, Slot
    <2>3. store'[dst] = store[dst] BY <1>4, <2>1
    <2>4. Carrying' BY <1>2, <1>4, <2>1, <2>3 DEF Carrying
    <2>5. Telling' BY <2>1 DEF Telling
    <2>6. OnTheWay = 0 /\ OnTheWay' = 1 BY <2>1 DEF OnTheWay
    <2>7. tick.src + ground' + OnTheWay' = store[src] + ground + OnTheWay BY <1>2, <1>6, <2>2, <2>6
    <2> HIDE DEF src, dst
    <2> QED BY <1>2, <1>4, <1>5, <1>6, <2>1, <2>2, <2>4, <2>5, <2>7, AccountsSaves
<1>8. CASE SaveDestination
    <2>1. /\ tick.stage = "half" /\ tick'.stage = "telling" /\ store' = [store EXCEPT ![dst] = tick.dst]
          /\ tick'.viewers = ToTell({src, dst})
        BY <1>1, <1>8 DEF SaveDestination, Fields
    <2>2. Carrying' BY <2>1 DEF Carrying
    <2>3. Telling'
        <3> SUFFICES ASSUME NEW p \in tick'.viewers
                     PROVE  p \in Players /\ \E b \in Blocks : b \in {src, dst} /\ Shows(p, b)'
            BY <1>2 DEF Telling
        <3>1. PICK b \in {src, dst} : p \in Viewers(b) BY <2>1 DEF ToTell
        <3>2. p \in Players /\ Shows(p, b)' BY <1>2, <3>1 DEF Viewers, Shows, sessionVars
        <3> QED BY <1>4, <3>1, <3>2
    <2>4. OnTheWay = 1 /\ OnTheWay' = 0 BY <2>1 DEF OnTheWay
    <2>5. tick.dst + ground' + OnTheWay' = store[dst] + ground + OnTheWay BY <1>2, <1>4, <1>6, <2>4
    <2> HIDE DEF src, dst
    <2> QED BY <1>2, <1>4, <1>5, <1>6, <2>1, <2>2, <2>3, <2>5, AccountsSaves
<1> QED BY <1>7, <1>8

LEMMA AccountsCollect ==
    ASSUME Shown, Shown', ~disturbed, ~disturbed', Accounts, CollectDropped
    PROVE  Accounts'
<1>0. PICK v : v = Visiting OBVIOUS
<1>1. CASE UNCHANGED <<store, ground, disturbed>> /\ tick' = Visited BY <1>1, AccountsVisits
<1>2. CASE ~(UNCHANGED <<store, ground, disturbed>> /\ tick' = Visited)
    <2>1. /\ tick.stage = "failed" /\ v \in NearDrops /\ ground > 0 /\ store[v] < MaxStack
          /\ store' = [store EXCEPT ![v] = @ + 1] /\ ground' = ground - 1
          /\ tick' = [tick EXCEPT !.stage = "telling", !.received = MarkReceived(v),
                                  !.move = [src |-> v, dst |-> v], !.viewers = ToTell({v})]
          /\ disturbed' = (disturbed \/ AtWork(v))
          /\ UNCHANGED <<present, vehicle, thrown, sessionVars, total>>
        BY <1>0, <1>2 DEF CollectDropped
    <2>2. v \in Blocks BY <2>1, ContainersAssumption
    <2>3. tick'.stage = "telling" /\ tick'.move.src = v /\ tick'.move.dst = v /\ tick'.viewers = ToTell({v})
        BY <2>1 DEF Fields, Shown, TickType
    <2>4. ASSUME NEW p \in Players, Shows(p, v) PROVE doing[p].at = "idle"
        <3>1. doing[p].at \notin {"click", "close"} BY <2>1, <2>4 DEF AtWork, Viewers
        <3>2. doing[p].at # "checked" BY <2>2, <2>4, VehicleIsNoBlock DEF Shown, SessionType, Shows
        <3>3. doing[p].at \in {"idle", "click", "close", "checked"} BY DEF Shown, SessionType
        <3> QED BY <3>1, <3>2, <3>3
    <2>5. Carrying' BY <2>3 DEF Carrying
    <2>6. Telling'
        <3>1. \A p \in tick'.viewers : p \in Players /\ Shows(p, v) BY <2>3 DEF ToTell, Viewers
        <3>2. \A p \in Players : Shows(p, v)' = Shows(p, v) BY <2>1 DEF Shows, sessionVars
        <3> QED BY <2>2, <2>3, <3>1, <3>2 DEF Telling
    <2>7. store[v] \in Slot /\ ground \in Nat BY <2>2 DEF Accounts, ItemsTyped
    <2>8. store[v] + 1 \in Slot /\ ground' \in Nat BY <2>1, <2>7, ContainersAssumption DEF Slot
    <2>9. store' = [store EXCEPT ![v] = store[v] + 1] BY <2>1
    <2>10. OnTheWay = 0 /\ OnTheWay' = 0 BY <2>1, <2>3 DEF OnTheWay
    <2>11. (store[v] + 1) + ground' + OnTheWay' = store[v] + ground + OnTheWay
        BY <2>1, <2>7, <2>10, ContainersAssumption DEF Slot
    <2> QED BY <2>1, <2>2, <2>4, <2>5, <2>6, <2>8, <2>9, <2>11, AccountsSaves
<1> QED BY <1>1, <1>2

LEMMA AccountsRefresh ==
    ASSUME Shown, Shown', ~disturbed, ~disturbed', Accounts, NEW p \in Players, RefreshScreen(p)
    PROVE  Accounts'
<1>1. /\ UNCHANGED <<store, present, vehicle, ground, thrown, bag, carried, screen, doing, total>>
      /\ tick.stage = "telling" /\ tick'.stage = "telling" /\ tick'.move = tick.move
      /\ p \in tick.viewers /\ tick'.viewers = tick.viewers \ {p}
      /\ copy' = [copy EXCEPT ![p] = [x \in Places |-> IF x \in Blocks /\ Shows(p, x) THEN store[x] ELSE @[x]]]
    BY DEF RefreshScreen, history, Fields, Shown, TickType
<1>2. ItemsTyped /\ Closing /\ Telling BY DEF Accounts
<1>3. copy' \in [Players -> [Places -> Slot]] /\ \A q \in Players : q # p => copy'[q] = copy[q]
    BY <1>1, <1>2 DEF ItemsTyped
<1>4. ItemsTyped' BY <1>1, <1>2, <1>3 DEF ItemsTyped
<1>5. doing[p].at = "idle" BY <1>1, <1>2, ToldStay
<1>6. Closing' BY <1>1, <1>2, <1>3, <1>5 DEF Closing, Shows, Fresh
<1>7. Telling' BY <1>1, <1>2 DEF Telling, Shows
<1>8. Carrying' BY <1>1 DEF Carrying
<1>9. OneSaves /\ OneSaves'
    <2>1. Shown' /\ ~disturbed' => OneSaves' BY DEF Shown, SessionType, Apart, OneSaves, Saving
    <2> QED BY <2>1, ShownOneSaves
<1>10. \A q \in Players, b \in Blocks : Saving(q, b)' = Saving(q, b) BY <1>1 DEF Saving
<1>11. \A q \in Players, b \in Blocks : Saving(q, b) => copy'[q][b] = copy[q][b] BY <1>3, <1>5 DEF Saving
<1>12. AllHeld' = AllHeld /\ AllHands' = AllHands BY <1>1, <1>9, <1>10, <1>11, HeldStays, HandsStay
<1>13. Worth' = Worth
    <2>1. OnTheWay' = OnTheWay BY <1>1 DEF OnTheWay
    <2> QED BY <1>1, <1>12, <2>1 DEF Worth
<1>14. Books' BY <1>1, <1>13, BooksKept DEF Accounts
<1> QED BY <1>4, <1>6, <1>7, <1>8, <1>14 DEF Accounts

----------------------------------------------------------------------------

LEMMA BalancedInit == Init => Balanced
<1> SUFFICES ASSUME Init PROVE Accounts
    BY DEF Balanced
<1>1. PICK start \in Starts :
          /\ present = start.blocks /\ store = [b \in Blocks |-> start.items[b]]
          /\ vehicle = [items |-> start.items[Vehicle], removed |-> ~start.vehicle, alive |-> start.vehicle]
          /\ total = Sum(start.items, Places)
    BY DEF Init
<1>2. start.items \in [Places -> Slot] /\ start.blocks \subseteq Blocks /\ start.vehicle \in BOOLEAN
    BY ContainersAssumption DEF Slot
<1>3. ItemsTyped
    <2>1. 0 \in Slot BY ContainersAssumption DEF Slot
    <2>2. store \in [Blocks -> Slot] BY <1>1, <1>2 DEF Places
    <2>3. vehicle \in [items : Slot, removed : BOOLEAN, alive : BOOLEAN] BY <1>1, <1>2 DEF Places
    <2> QED BY <1>1, <1>2, <2>1, <2>2, <2>3 DEF ItemsTyped, Init
<1>4. tick.stage = "idle" BY DEF Init, IdleTick
<1>5. \A p \in Players, b \in Blocks : ~Shows(p, b) BY EmptyContainsNothing DEF Init, Shows
<1>6. Carrying /\ Closing /\ Telling BY <1>4, <1>5 DEF Carrying, Closing, Telling
<1>7. OneSaves
    <2>1. \A p \in Players, b \in Blocks : ~Saving(p, b) BY EmptyContainsNothing DEF Init, Idle, Saving
    <2> QED BY <1>5, <2>1 DEF OneSaves
<1>8. \A b \in Blocks : Held(b) = start.items[b]
    <2>1. \A p \in Players, b \in Blocks : ~Saving(p, b) BY EmptyContainsNothing DEF Init, Idle, Saving
    <2> QED BY <1>1, <1>7, <2>1, HeldIs
<1>9. AllHeld + vehicle.items = total
    <2>1. \A x \in Places : start.items[x] \in Nat BY <1>2, ContainersAssumption DEF Slot
    <2>2. IsFiniteSet(Places) BY ContainersAssumption, FS_AddElement DEF Places
    <2>3. Vehicle \in Places /\ Places \ {Vehicle} = Blocks BY ContainersAssumption DEF Places
    <2>4. Sum(start.items, Places) = start.items[Vehicle] + Sum(start.items, Places \ {Vehicle})
        BY <2>1, <2>2, <2>3, SumTakes
    <2> DEFINE f == [b \in Blocks |-> Held(b)]
    <2>5. IsFiniteSet(Blocks) BY ContainersAssumption
    <2>6. \A b \in Blocks : f[b] \in Nat /\ f[b] = start.items[b] BY <1>8, <2>1 DEF Places
    <2>7. Sum(f, Blocks) = Sum(start.items, Blocks) /\ Sum(f, Blocks) \in Nat
        <3> HIDE DEF f
        <3> QED BY <2>5, <2>6, SumSame, SumNat
    <2>8. AllHeld = Sum(start.items, Blocks) /\ AllHeld \in Nat BY <2>7 DEF AllHeld
    <2>9. total = start.items[Vehicle] + AllHeld BY <1>1, <2>3, <2>4, <2>8
    <2>10. vehicle.items = start.items[Vehicle] /\ start.items[Vehicle] \in Nat BY <1>1, <2>1, <2>3
    <2> QED BY <2>8, <2>9, <2>10
<1>10. AllHands = 0
    <2>1. \A p \in Players : [q \in Players |-> InHand(q)][p] = 0 BY DEF Init, InHand
    <2>2. IsFiniteSet(Players) BY ContainersAssumption
    <2> QED BY <2>1, <2>2, SumZero DEF AllHands
<1>11. OnTheWay = 0 /\ ground = 0 /\ thrown = 0 BY <1>4 DEF OnTheWay, Init
<1>12. Books
    <2>1. InGame = AllHeld + vehicle.items + ground + OnTheWay + AllHands BY DEF InGame, AllHeld, AllHands
    <2>2. AllHeld \in Nat /\ vehicle.items \in Nat BY <1>3, <1>7, TotalsAreNat, ContainersAssumption DEF ItemsTyped, Slot
    <2>3. InGame + thrown = AllHeld + vehicle.items BY <1>10, <1>11, <2>1, <2>2
    <2> QED BY <1>9, <2>3 DEF Books
<1> QED BY <1>3, <1>6, <1>12 DEF Accounts

LEMMA BalancedStep == Shown /\ Hops /\ Balanced /\ [Next]_vars => Balanced'
<1> SUFFICES ASSUME Shown, Hops, Balanced, [Next]_vars PROVE Balanced'
    OBVIOUS
<1>0. Shown' BY ShownStep
<1>1. CASE UNCHANGED vars
    <2>1. CASE disturbed BY <1>1, <2>1 DEF Balanced, vars
    <2>2. CASE ~disturbed
        <3>1. ItemsTyped' /\ Carrying' /\ Closing' /\ Telling'
            BY <1>1, <2>2 DEF Balanced, Accounts, vars, ItemsTyped, Carrying, Closing, Telling, Shows, Fresh
        <3>2. Worth' = Worth
            BY <1>1 DEF Worth, AllHeld, AllHands, Held, Owed, Viewers, Shows, InHand, OnTheWay, vars
        <3>3. Books' BY <1>1, <2>2, <3>2, BooksKept DEF Balanced, Accounts, vars
        <3> QED BY <3>1, <3>3 DEF Balanced, Accounts
    <2> QED BY <2>1, <2>2
<1>2. CASE Next
    <2>0. ~disturbed /\ Accounts BY <1>2 DEF Next, Balanced
    <2> SUFFICES ASSUME ~disturbed' PROVE Accounts'
        BY DEF Balanced
    <2>1. ASSUME NEW p \in Players, SessionStep(p) PROVE Accounts'
        BY <1>0, <2>0, <2>1, AccountsOpenBlocks, AccountsClickBlocks, AccountsCloseBlocks, AccountsPersist,
           AccountsHandled, AccountsVehicleStill, AccountsClickVehicle DEF SessionStep
    <2>2. CASE TickStep
        BY <1>0, <2>0, <2>2, AccountsVisits, AccountsLoads, AccountsTransfers, AccountsCollect, AccountsRefresh
           DEF TickStep
    <2>3. ASSUME NEW b \in Breakable, BreakBlock(b) PROVE Accounts'
        BY <1>0, <2>0, <2>3, AccountsBreak, ContainersAssumption
    <2>4. CASE VehicleDies \/ Drain BY <1>0, <2>0, <2>4, AccountsVehicleDies
    <2> QED BY <1>2, <2>1, <2>2, <2>3, <2>4 DEF Next
<1> QED BY <1>1, <1>2

\* However many players click on however many chests, hoppers and vehicles, in any order with
\* the tick's transfers, blocks broken and a vehicle's death: no item is doubled or lost, until
\* two actors are at one block container at once.  A vehicle's storage may have any number of
\* viewers (storage_inventory.go:5).
THEOREM ItemsNeverLost == Spec => []ItemsConserved
<1>1. Balanced => ItemsConserved BY DEF Balanced, Accounts, Books, ItemsConserved
<1>2. Shown /\ Hops /\ Balanced /\ [Next]_vars => (Shown /\ Hops /\ Balanced)' BY ShownStep, HopsStep, BalancedStep
<1> QED BY <1>1, <1>2, ShownInit, HopsInit, BalancedInit, PTL DEF Spec
=============================================================================
