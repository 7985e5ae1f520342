------------------------- MODULE TimerEngineProofs -------------------------
(***************************************************************************)
(* The events of the timers come in time and not too often, for all        *)
(* intervals, repeat counts, granularities, leads and numbers of timers.   *)
(*                                                                         *)
(* The argument is about one item: how often it has fired and what is left *)
(* add up to what was asked (Counting), and its due time is a function of  *)
(* the time it was set and of how often it has fired (Timely).  The scan   *)
(* carries such facts from the items to the events it posts and to the     *)
(* items it keeps (ScanLemma), whatever their number.  The facts about     *)
(* times assume that GetTickCount does not wrap (NoWrap); those about the  *)
(* number of events do not.                                                *)
(***************************************************************************)
EXTENDS TimerEngine, WellFoundedInduction, TLAPS

\* GetTickCount and the due times stay below Width.
NoWrap == \A e \in Elapses : MaxTime + e + TIMER_SPACE < Width

Items == [timer : Timers, elapse : Nat, repeat : Nat, dest : Nat,
          setAt : Nat, asked : Nat, fired : Nat]

Events == [timer : Timers, at : Nat, nth : Nat, setAt : Nat, elapse : Nat, asked : Nat]

\* Items whose repeats that are left and events so far add up.
Counting ==
  {i \in Items : /\ i.asked \in 1 .. TIMES_INFINITY
                 /\ i.repeat > 0
                 /\ i.repeat = IF Counted(i) THEN i.asked - i.fired ELSE TIMES_INFINITY}

CountedEvents ==
  {e \in Events : e.nth > 0 /\ (Counted(e) => e.nth <= e.asked)}

\* Items whose next event is due a whole number of intervals after SetTimer,
\* the last one TIMER_LEAD earlier.
Timely ==
  {i \in Counting : /\ i.dest = i.setAt + i.fired * i.elapse + Interval(i.elapse, i.repeat)
                    /\ \E e \in Elapses : i.elapse <= e}

TimelyEvents ==
  {e \in CountedEvents :
     LET due == e.setAt + e.nth * e.elapse
     IN e.at + TIMER_LEAD >= due /\ (e.nth # e.asked => e.at >= due)}

Clock == now \in 0 .. MaxTime

CountInv == Clock /\ active \in Seq(Counting) /\ pending \in Seq(CountedEvents)

TimeInv == Clock /\ active \in Seq(Timely) /\ pending \in Seq(TimelyEvents)

-----------------------------------------------------------------------------
(* The scan.                                                               *)

\* Every set of natural numbers has a least element: induction, for sets.
LEMMA Least ==
  ASSUME NEW T, T \subseteq Nat, T # {}
  PROVE  \E x \in T : \A y \in T : x <= y
<1>1. PICK x \in T : \A y \in T : ~(<<y, x>> \in OpToRel(<, Nat))
  BY WFMin, NatLessThanWellFounded
<1>2. \A y \in T : ~(y < x)
  BY <1>1 DEF OpToRel
<1> QED BY <1>2

\* The body of the loop, after which g has the results for k items.
Pass(items, g, k) ==
  LET i == items[Len(items) + 1 - k]
  IN IF k = 0 THEN [posted |-> <<>>, kept |-> <<>>]
     ELSE [posted |-> IF Due(i) THEN Append(g[k - 1].posted, Event(i)) ELSE g[k - 1].posted,
           kept   |-> IF Stays(i) THEN <<IF Due(i) THEN Fired(i) ELSE i>> \o g[k - 1].kept
                      ELSE g[k - 1].kept]

Passes(items) == CHOOSE g : g = [k \in 0 .. Len(items) |-> Pass(items, g, k)]

\* The recursion of the loop has a solution up to any number of items.
LEMMA PassesExist ==
  ASSUME NEW items, NEW m \in Nat
  PROVE  \E g : g = [k \in 0 .. m |-> Pass(items, g, k)]
<1> DEFINE T == {n \in Nat : ~ \E g : g = [k \in 0 .. n |-> Pass(items, g, k)]}
<1>1. SUFFICES ASSUME T # {} PROVE FALSE
  OBVIOUS
<1>2. PICK x \in T : \A y \in T : x <= y
  BY <1>1, Least
<1>3. x # 0
  <2> DEFINE g == [k \in 0 .. 0 |-> [posted |-> <<>>, kept |-> <<>>]]
  <2>1. g = [k \in 0 .. 0 |-> Pass(items, g, k)]
    BY DEF Pass
  <2> QED BY <2>1
<1>4. x - 1 \in Nat /\ x - 1 \notin T
  BY <1>2, <1>3
<1>5. PICK g : g = [k \in 0 .. (x - 1) |-> Pass(items, g, k)]
  BY <1>4
<1> DEFINE h == [k \in 0 .. x |-> IF k = x THEN Pass(items, g, x) ELSE g[k]]
<1>6. ASSUME NEW k \in 0 .. x PROVE h[k] = Pass(items, h, k)
  <2>1. k # 0 => h[k - 1] = g[k - 1]
    BY <1>3
  <2>2. Pass(items, h, k) = Pass(items, g, k)
    BY <2>1 DEF Pass
  <2>3. k # x => g[k] = Pass(items, g, k)
    BY <1>3, <1>5
  <2> QED BY <2>2, <2>3
<1>7. h = [k \in 0 .. x |-> Pass(items, h, k)]
  BY <1>6
<1> QED BY <1>7

\* Scan is the last value of a function that the loop describes.
LEMMA ScanPasses ==
  ASSUME NEW items, Len(items) \in Nat
  PROVE  /\ Scan(items) = Passes(items)[Len(items)]
         /\ \A k \in 0 .. Len(items) : Passes(items)[k] = Pass(items, Passes(items), k)
<1>1. Scan(items) = Passes(items)[Len(items)]
  BY DEF Scan, Passes, Pass
<1>2. Passes(items) = [k \in 0 .. Len(items) |-> Pass(items, Passes(items), k)]
  BY PassesExist DEF Passes
<1> QED BY <1>1, <1>2

\* What a due item gives to its event, and to itself if it stays, the scan gives
\* to all it posts and keeps.
LEMMA ScanLemma ==
  ASSUME NEW G, NEW E, NEW items \in Seq(G),
         \A i \in G : Due(i) => Event(i) \in E,
         \A i \in G : Due(i) /\ Stays(i) => Fired(i) \in G
  PROVE  Scan(items).posted \in Seq(E) /\ Scan(items).kept \in Seq(G)
<1> DEFINE g == Passes(items)
           OK(k) == g[k].posted \in Seq(E) /\ g[k].kept \in Seq(G)
           T == {k \in 0 .. Len(items) : ~ OK(k)}
<1>0. Len(items) \in Nat
  OBVIOUS
<1>1. \A k \in 0 .. Len(items) : g[k] = Pass(items, g, k)
  BY <1>0, ScanPasses
<1> HIDE DEF g
<1>2. SUFFICES ASSUME T # {} PROVE FALSE
  <2>1. OK(Len(items))
    BY <1>0, <1>2
  <2> QED BY <1>0, <2>1, ScanPasses DEF g
<1>t. T \subseteq Nat /\ \A y : y \in T <=> y \in 0 .. Len(items) /\ ~ OK(y)
  BY <1>0
<1> HIDE DEF T
<1>3. PICK x \in T : \A y \in T : x <= y
  BY <1>2, <1>t, Least
<1>a. x \in 0 .. Len(items) /\ ~ OK(x)
  BY <1>t
<1>b. g[x] = Pass(items, g, x)
  BY <1>1, <1>a
<1>c. ASSUME NEW y \in 0 .. Len(items), y < x PROVE OK(y)
  <2>1. y \notin T
    BY <1>3, <1>a, <1>c, <1>0
  <2> QED BY <2>1, <1>t
<1>4. x # 0
  <2> SUFFICES ASSUME x = 0 PROVE FALSE
    OBVIOUS
  <2>1. g[x] = [posted |-> <<>>, kept |-> <<>>]
    BY <1>b DEF Pass
  <2> QED BY <2>1, <1>a
<1>5. x - 1 \in 0 .. Len(items) /\ OK(x - 1)
  <2>1. x - 1 \in 0 .. Len(items) /\ x - 1 < x
    BY <1>4, <1>a, <1>0
  <2> QED BY <2>1, <1>c
<1> DEFINE i == items[Len(items) + 1 - x]
<1>6. i \in G
  BY <1>4, <1>a, <1>0
<1>7. g[x].posted = IF Due(i) THEN Append(g[x - 1].posted, Event(i)) ELSE g[x - 1].posted
  BY <1>b, <1>4 DEF Pass
<1>8. g[x].kept = IF Stays(i) THEN <<IF Due(i) THEN Fired(i) ELSE i>> \o g[x - 1].kept
                  ELSE g[x - 1].kept
  BY <1>b, <1>4 DEF Pass
<1>9. g[x].posted \in Seq(E)
  BY <1>5, <1>6, <1>7
<1>10. g[x].kept \in Seq(G)
  <2>1. CASE Stays(i)
    <3> DEFINE j == IF Due(i) THEN Fired(i) ELSE i
    <3>1. j \in G
      BY <2>1, <1>6
    <3> HIDE DEF j
    <3>2. <<j>> \in Seq(G)
      BY <3>1
    <3>3. g[x].kept = <<j>> \o g[x - 1].kept
      BY <1>8, <2>1 DEF j
    <3> QED BY <3>2, <3>3, <1>5
  <2>2. CASE ~Stays(i)
    BY <2>2, <1>8, <1>5
  <2> QED BY <2>1, <2>2
<1> QED BY <1>9, <1>10, <1>a

-----------------------------------------------------------------------------
(* One item.                                                               *)

\* The interval is the one asked for, and at the end at most TIMER_LEAD less.
LEMMA IntervalLemma ==
  ASSUME NEW elapse \in Nat, NEW repeat \in Nat
  PROVE  /\ Interval(elapse, repeat) \in Nat
         /\ Interval(elapse, repeat) + TIMER_LEAD >= elapse
         /\ Interval(elapse, repeat) <= elapse + TIMER_SPACE
         /\ repeat # 1 => Interval(elapse, repeat) = elapse
BY SpaceAssumption DEF Interval

\* SetTimer rounds the interval down.
LEMMA RoundLemma ==
  ASSUME NEW e \in Nat
  PROVE  e - (e % TIMER_SPACE) \in 0 .. e
BY SpaceAssumption

\* An item with another count and due time is an item.
LEMMA EditLemma ==
  ASSUME NEW i \in Items, NEW r \in Nat, NEW f \in Nat, NEW d \in Nat
  PROVE  [i EXCEPT !.repeat = r, !.fired = f, !.dest = d] \in Items
BY DEF Items

\* What is due fires once more, and stays only if something is left.
LEMMA CountLemma ==
  ASSUME Clock, NEW i \in Counting
  PROVE  /\ Event(i) \in CountedEvents
         /\ Stays(i) /\ Due(i) => Fired(i) \in Counting
<1>1. /\ i \in Items /\ i.asked \in 1 .. TIMES_INFINITY /\ i.repeat > 0
      /\ i.repeat = IF i.asked # TIMES_INFINITY THEN i.asked - i.fired ELSE TIMES_INFINITY
  BY DEF Counting, Counted
<1>2. /\ i.timer \in Timers /\ i.elapse \in Nat /\ i.repeat \in Nat /\ i.dest \in Nat
      /\ i.setAt \in Nat /\ i.asked \in Nat /\ i.fired \in Nat
  BY <1>1 DEF Items
<1>3. Event(i) \in CountedEvents
  <2>1. Event(i) \in Events
    BY <1>2, WidthAssumption DEF Event, Events, Clock
  <2>2. Event(i).nth = i.fired + 1 /\ Event(i).asked = i.asked
    BY DEF Event
  <2>3. i.asked # TIMES_INFINITY => i.fired + 1 <= i.asked
    BY <1>1, <1>2
  <2> QED BY <2>1, <2>2, <2>3, <1>2 DEF CountedEvents, Counted
<1>4. ASSUME Stays(i), Due(i) PROVE Fired(i) \in Counting
  <2>1. Left(i) > 0 /\ Left(i) \in Nat
    BY <1>4, <1>1, <1>2, SetAssumption DEF Stays, Left
  <2>2. Interval(i.elapse, Left(i)) \in Nat
    BY <2>1, <1>2, IntervalLemma
  <2> DEFINE d == (i.dest + Interval(i.elapse, Left(i))) % Width
  <2>3. d \in Nat
    BY <2>2, <1>2, WidthAssumption
  <2>4. Fired(i) = [i EXCEPT !.repeat = Left(i), !.fired = i.fired + 1, !.dest = d]
    BY DEF Fired
  <2> HIDE DEF d
  <2>5. Fired(i) \in Items
    <3>1. i.fired + 1 \in Nat
      BY <1>2
    <3>2. i \in Items /\ d \in Nat /\ Left(i) \in Nat
      BY <1>1, <2>1, <2>3
    <3> HIDE DEF Left
    <3>3. [i EXCEPT !.repeat = Left(i), !.fired = i.fired + 1, !.dest = d] \in Items
      BY ONLY <3>1, <3>2, EditLemma, Zenon
    <3> QED BY ONLY <3>3, <2>4
  <2>6. Fired(i).repeat = Left(i) /\ Fired(i).fired = i.fired + 1 /\ Fired(i).asked = i.asked
    BY <2>4, <1>1 DEF Items
  <2>7. Left(i) = IF i.asked # TIMES_INFINITY THEN i.asked - (i.fired + 1) ELSE TIMES_INFINITY
    <3>1. CASE i.asked # TIMES_INFINITY
      <4>1. i.repeat = i.asked - i.fired /\ i.repeat # TIMES_INFINITY
        BY <3>1, <1>1, <1>2, SetAssumption
      <4> QED BY <3>1, <4>1, <1>2 DEF Left
    <3>2. CASE i.asked = TIMES_INFINITY
      BY <3>2, <1>1 DEF Left
    <3> QED BY <3>1, <3>2
  <2> QED BY <2>1, <2>5, <2>6, <2>7, <1>1 DEF Counting, Counted
<1> QED BY <1>3, <1>4

\* A product with one more factor.
LEMMA OneMore ==
  ASSUME NEW n \in Nat, NEW e \in Nat
  PROVE  n * e \in Nat /\ (n + 1) * e = n * e + e
OBVIOUS

\* A due item has reached its due time, and the next one is an interval later.
LEMMA TimeLemma ==
  ASSUME NoWrap, Clock, NEW i \in Timely, Due(i)
  PROVE  /\ Event(i) \in TimelyEvents
         /\ Stays(i) => Fired(i) \in Timely
<1> DEFINE I == Interval(i.elapse, i.repeat)
<1>1. i \in Counting /\ i.dest = i.setAt + i.fired * i.elapse + I
  BY DEF Timely
<1>2. PICK e \in Elapses : i.elapse <= e
  BY DEF Timely
<1>3. /\ i.timer \in Timers /\ i.elapse \in Nat /\ i.repeat \in Nat /\ i.dest \in Nat
      /\ i.setAt \in Nat /\ i.asked \in Nat /\ i.fired \in Nat /\ i \in Items
  BY <1>1 DEF Counting, Items
<1>4. i.repeat = IF i.asked # TIMES_INFINITY THEN i.asked - i.fired ELSE TIMES_INFINITY
  BY <1>1 DEF Counting, Counted
<1>5. now \in Nat /\ now <= MaxTime /\ e \in Nat /\ now % Width = now
  <2>1. now \in Nat /\ now <= MaxTime /\ e \in Nat /\ now < Width
    BY <1>2, WidthAssumption, SetAssumption, SpaceAssumption DEF Clock, NoWrap
  <2> QED BY <2>1, WidthAssumption
<1>6. i.dest <= now
  BY <1>5, <1>3 DEF Due, GetTickCount
<1>7. /\ I \in Nat /\ I + TIMER_LEAD >= i.elapse /\ (i.repeat # 1 => I = i.elapse)
  BY <1>3, IntervalLemma
<1>8. i.fired * i.elapse \in Nat /\ (i.fired + 1) * i.elapse = i.fired * i.elapse + i.elapse
  BY <1>3, OneMore
<1> HIDE DEF I
<1>9. Event(i) \in TimelyEvents
  <2>1. Event(i) \in CountedEvents
    BY <1>1, CountLemma
  <2>2. /\ Event(i).setAt = i.setAt /\ Event(i).nth = i.fired + 1 /\ Event(i).at = now
        /\ Event(i).elapse = i.elapse /\ Event(i).asked = i.asked
    BY DEF Event
  <2>3. now + TIMER_LEAD >= i.setAt + (i.fired + 1) * i.elapse
    BY <1>1, <1>3, <1>5, <1>6, <1>7, <1>8, SpaceAssumption
  <2>4. i.fired + 1 # i.asked => i.repeat # 1
    BY <1>3, <1>4, SetAssumption
  <2>5. i.fired + 1 # i.asked => now >= i.setAt + (i.fired + 1) * i.elapse
    BY <2>4, <1>1, <1>3, <1>5, <1>6, <1>7, <1>8
  <2> QED BY <2>1, <2>2, <2>3, <2>5 DEF TimelyEvents
<1>10. ASSUME Stays(i) PROVE Fired(i) \in Timely
  <2>1. Fired(i) \in Counting
    BY <1>1, <1>10, CountLemma
  <2>2. Left(i) \in Nat /\ i.repeat # 1
    BY <1>10, <1>3, <1>4, SetAssumption DEF Stays, Left
  <2> DEFINE J == Interval(i.elapse, Left(i))
  <2>3. J \in Nat /\ J <= i.elapse + TIMER_SPACE
    BY <2>2, <1>3, IntervalLemma
  <2>4. Fired(i) = [i EXCEPT !.repeat = Left(i), !.fired = i.fired + 1, !.dest = (i.dest + J) % Width]
    BY DEF Fired
  <2> HIDE DEF J
  <2>5. i.dest + J < Width
    BY <2>3, <1>2, <1>3, <1>5, <1>6, SpaceAssumption, WidthAssumption DEF NoWrap
  <2>6. (i.dest + J) % Width = i.dest + J
    BY <2>3, <2>5, <1>3, WidthAssumption
  <2>7. i.dest + J = i.setAt + (i.fired + 1) * i.elapse + J
    BY <2>2, <2>3, <1>1, <1>3, <1>7, <1>8
  <2>8. /\ Fired(i).repeat = Left(i) /\ Fired(i).fired = i.fired + 1 /\ Fired(i).elapse = i.elapse
        /\ Fired(i).setAt = i.setAt /\ Fired(i).dest = i.dest + J
    BY <2>4, <2>6, <1>3 DEF Items
  <2> QED BY <2>1, <2>7, <2>8, <1>2 DEF Timely, J
<1> QED BY <1>9, <1>10

-----------------------------------------------------------------------------
(* The operations on the list.                                             *)

\* A new or renewed item, or a removed one, leaves the others as they are.
LEMMA ListLemma ==
  ASSUME NEW G, NEW t, active \in Seq(G)
  PROVE  /\ \A item \in G : SetItem(t, item) => active' \in Seq(G)
         /\ \A n \in Places(t) : RemoveAt(active, n) \in Seq(G)
<1>1. ASSUME NEW item \in G, SetItem(t, item) PROVE active' \in Seq(G)
  <2>1. CASE Places(t) = {}
    BY <1>1, <2>1 DEF SetItem
  <2>2. CASE Places(t) # {}
    <3> DEFINE n == CHOOSE m \in Places(t) : TRUE
    <3>1. n \in Places(t)
      BY <2>2
    <3>2. active' = [active EXCEPT ![n] = item]
      BY <1>1, <2>2 DEF SetItem
    <3> HIDE DEF n
    <3> QED BY <3>1, <3>2 DEF Places
  <2> QED BY <2>1, <2>2
<1>2. ASSUME NEW n \in Places(t) PROVE RemoveAt(active, n) \in Seq(G)
  BY DEF RemoveAt, Places
<1> QED BY <1>1, <1>2

\* The item that SetTimer makes.
NewItem(t, e, r) ==
  LET elapse == e - (e % TIMER_SPACE)
  IN [timer |-> t, elapse |-> elapse, repeat |-> r,
      dest |-> (GetTickCount + Interval(elapse, r)) % Width,
      setAt |-> now, asked |-> r, fired |-> 0]

\* A new item has fired never, and its first event is an interval ahead.
LEMMA NewLemma ==
  ASSUME Clock, NEW t \in Timers, NEW e \in Elapses, NEW r \in Repeats, r > 0
  PROVE  /\ NewItem(t, e, r) \in Counting
         /\ NoWrap => NewItem(t, e, r) \in Timely
<1> DEFINE elapse == e - (e % TIMER_SPACE)
           I == Interval(elapse, r)
           i == NewItem(t, e, r)
<1>1. e \in Nat /\ r \in Nat /\ r <= TIMES_INFINITY /\ now \in Nat /\ now <= MaxTime
  BY SetAssumption, WidthAssumption DEF Clock
<1>2. elapse \in Nat /\ elapse <= e
  BY <1>1, RoundLemma
<1>3. i = [timer |-> t, elapse |-> elapse, repeat |-> r, dest |-> ((now % Width) + I) % Width,
           setAt |-> now, asked |-> r, fired |-> 0]
  BY DEF NewItem, GetTickCount
<1> HIDE DEF elapse
<1>4. I \in Nat /\ I <= elapse + TIMER_SPACE
  BY <1>1, <1>2, IntervalLemma
<1> HIDE DEF I, i
<1>5. ((now % Width) + I) % Width \in Nat
  BY <1>1, <1>4, WidthAssumption
<1>6. /\ i \in Items /\ i.asked = r /\ i.repeat = r /\ i.fired = 0 /\ i.elapse = elapse
      /\ i.setAt = now /\ i.dest = ((now % Width) + I) % Width
  BY <1>1, <1>2, <1>3, <1>5 DEF Items
<1>7. i \in Counting
  BY <1>1, <1>6 DEF Counting, Counted
<1>8. ASSUME NoWrap PROVE i \in Timely
  <2>1. now + I < Width /\ now < Width
    BY <1>1, <1>2, <1>4, <1>8, SpaceAssumption, WidthAssumption DEF NoWrap
  <2>2. now % Width = now
    BY <1>1, <2>1, WidthAssumption
  <2>3. (now + I) % Width = now + I
    BY <1>1, <1>4, <2>1, WidthAssumption
  <2>4. i.dest = i.setAt + i.fired * i.elapse + I
    BY <1>1, <1>2, <1>4, <1>6, <2>2, <2>3
  <2> QED BY <1>2, <1>6, <1>7, <2>4 DEF Timely, I
<1> QED BY <1>7, <1>8 DEF i

\* The clock is within its bound and never goes back.
LEMMA ClockStep ==
  ASSUME Clock, [Next]_vars PROVE Clock'
<1>1. CASE Tick
  BY <1>1, WidthAssumption DEF Tick, Clock
<1>2. ASSUME now' = now PROVE Clock'
  BY <1>2 DEF Clock
<1>3. ASSUME NEW t, NEW e, NEW r, SetTimer(t, e, r) PROVE now' = now
  BY <1>3 DEF SetTimer
<1>4. ASSUME NEW t, KillTimer(t) PROVE now' = now
  BY <1>4 DEF KillTimer
<1>5. KillAllTimer \/ OnTimerThreadSink \/ Deliver \/ SetTimerEngineEvent => now' = now
  BY DEF KillAllTimer, OnTimerThreadSink, Deliver, SetTimerEngineEvent
<1>6. StartService \/ ConcludeService \/ ClearItems \/ QueueConcluded \/ UNCHANGED vars => now' = now
  BY DEF StartService, ConcludeService, ClearItems, QueueConcluded, vars
<1> QED BY <1>1, <1>2, <1>3, <1>4, <1>5, <1>6 DEF Next

\* If new items are in G and a scan takes items in G to items in G and events in
\* E, all items stay in G and all events in E.
LEMMA ListStep ==
  ASSUME NEW G, NEW E, active \in Seq(G), pending \in Seq(E), [Next]_vars,
         \A t \in Timers, e \in Elapses, r \in Repeats : r > 0 => NewItem(t, e, r) \in G,
         \A i \in G : Due(i) => Event(i) \in E,
         \A i \in G : Due(i) /\ Stays(i) => Fired(i) \in G
  PROVE  active' \in Seq(G) /\ pending' \in Seq(E)
<1>1. ASSUME NEW t \in Timers, NEW e \in Elapses, NEW r \in Repeats, SetTimer(t, e, r)
      PROVE  active' \in Seq(G) /\ pending' \in Seq(E)
  <2>1. SetItem(t, NewItem(t, e, r)) /\ r > 0 /\ pending' = pending
    BY <1>1 DEF SetTimer, NewItem
  <2> QED BY <2>1, ListLemma
<1>2. ASSUME NEW t \in Timers, KillTimer(t)
      PROVE  active' \in Seq(G) /\ pending' \in Seq(E)
  BY <1>2, ListLemma DEF KillTimer
<1>3. CASE OnTimerThreadSink
  <2>1. Scan(active).posted \in Seq(E) /\ Scan(active).kept \in Seq(G)
    BY ScanLemma
  <2> QED BY <2>1, <1>3 DEF OnTimerThreadSink
<1>4. CASE Deliver
  <2>1. pending # <<>> /\ pending' = Tail(pending) /\ active' = active
    BY <1>4 DEF Deliver
  <2> QED BY <2>1
<1>5. CASE KillAllTimer \/ ClearItems
  <2>1. active' = <<>> /\ pending' = pending
    BY <1>5 DEF KillAllTimer, ClearItems
  <2> QED BY <2>1
<1>6. CASE UNCHANGED <<active, pending>>
  BY <1>6
<1>7. CASE Tick \/ SetTimerEngineEvent \/ StartService \/ ConcludeService \/ QueueConcluded
  BY <1>7, <1>6 DEF Tick, SetTimerEngineEvent, StartService, ConcludeService, QueueConcluded
<1>8. CASE UNCHANGED vars
  BY <1>8, <1>6 DEF vars
<1> QED BY <1>1, <1>2, <1>3, <1>4, <1>5, <1>7, <1>8 DEF Next

-----------------------------------------------------------------------------
(* The theorems.                                                           *)

\* The counts of items and events agree in every reachable state.
LEMMA Counts == Spec => []CountInv
<1>1. Init => CountInv
  BY WidthAssumption DEF Init, CountInv, Clock
<1>2. ASSUME CountInv, [Next]_vars PROVE CountInv'
  <2>1. Clock
    BY <1>2 DEF CountInv
  <2>2. active' \in Seq(Counting) /\ pending' \in Seq(CountedEvents)
    BY <1>2, <2>1, ListStep, NewLemma, CountLemma DEF CountInv
  <2> QED BY <2>1, <2>2, <1>2, ClockStep DEF CountInv
<1> QED BY <1>1, <1>2, PTL DEF Spec

\* RepeatBound (OnTimerThreadSink): whatever is set, killed and scanned, and also
\* when the tick counter wraps, a timer that was set for n events has at most n.
THEOREM RepeatTheorem == Spec => []RepeatBound
<1>1. CountInv => RepeatBound
  BY DEF CountInv, CountedEvents, RepeatBound
<1> QED BY <1>1, Counts, PTL

\* As long as the tick counter does not wrap, due times follow from the counts.
LEMMA Times == ASSUME NoWrap PROVE Spec => []TimeInv
<1>1. Init => TimeInv
  BY WidthAssumption DEF Init, TimeInv, Clock
<1>2. ASSUME TimeInv, [Next]_vars PROVE TimeInv'
  <2>1. Clock
    BY <1>2 DEF TimeInv
  <2>2. active' \in Seq(Timely) /\ pending' \in Seq(TimelyEvents)
    BY <1>2, <2>1, ListStep, NewLemma, TimeLemma DEF TimeInv
  <2> QED BY <2>1, <2>2, <1>2, ClockStep DEF TimeInv
<1> QED BY <1>1, <1>2, PTL DEF Spec

\* NoDrift (OnTimerThreadSink adds the interval to the due time and not to the
\* time of the scan): for all intervals, leads and granularities, however late
\* the scans come.
THEOREM DriftTheorem == ASSUME NoWrap PROVE Spec => []NoDrift
<1>1. ASSUME TimeInv, NEW n \in DOMAIN active
      PROVE  LET i == active[n]
                 due == i.setAt + (i.fired + 1) * i.elapse
             IN IF i.repeat = 1 THEN i.dest + TIMER_LEAD >= due ELSE i.dest = due
  <2> DEFINE i == active[n]
             I == Interval(i.elapse, i.repeat)
  <2>1. i \in Timely
    BY <1>1 DEF TimeInv
  <2> HIDE DEF i
  <2>2. /\ i.elapse \in Nat /\ i.repeat \in Nat /\ i.setAt \in Nat /\ i.fired \in Nat /\ i.dest \in Nat
        /\ i.dest = i.setAt + i.fired * i.elapse + I
    BY <2>1 DEF Timely, Counting, Items
  <2>3. I \in Nat /\ I + TIMER_LEAD >= i.elapse /\ (i.repeat # 1 => I = i.elapse)
    BY <2>2, IntervalLemma
  <2>4. i.fired * i.elapse \in Nat /\ (i.fired + 1) * i.elapse = i.fired * i.elapse + i.elapse
    BY <2>2, OneMore
  <2> HIDE DEF I
  <2> QED BY <2>2, <2>3, <2>4, SpaceAssumption DEF i
<1>2. TimeInv => NoDrift
  BY <1>1 DEF NoDrift
<1> QED BY <1>2, Times, PTL

\* NotEarly ("notify 20 granules ahead"): no event comes more than TIMER_LEAD
\* before its time, and only the last one of a timer early at all, for all
\* intervals, repeat counts and numbers of timers.
THEOREM EarlyTheorem == ASSUME NoWrap PROVE Spec => []NotEarly
<1>1. TimeInv => NotEarly
  BY DEF TimeInv, TimelyEvents, NotEarly
<1> QED BY <1>1, Times, PTL
=============================================================================
