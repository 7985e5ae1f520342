------------------------- MODULE TableFrameProofs -------------------------
(***************************************************************************)
(* Proofs about the tables of a room: seats and users agree                *)
(* (SeatsTheorem), a game has players (GamePlayedTheorem), no start is     *)
(* missed (NoMissedStartTheorem).                                          *)
(*                                                                         *)
(* The operations of TableFrame are operators on rooms, so the invariants  *)
(* are sets of rooms: Good, where the records of chairs, lookers-on and    *)
(* users agree, and Games, where in addition nobody plays without a game,  *)
(* every game has its players and none waits to be started.  A set that is *)
(* Closed under the operations is never left (NextStays), and both are     *)
(* (GoodClosed, GamesClosed).  An operation on one table leaves the others *)
(* alone (Local), so what it does is looked at on that table only.         *)
(*                                                                         *)
(* ConcludeGame is two loops over the chairs.  ConcludeLoop is their rule: *)
(* a family of sets G[n], of rooms as they are after n rounds of the first, *)
(* into which each round leads, and a set K that no round of the second    *)
(* leaves.                                                                 *)
(***************************************************************************)
EXTENDS TableFrame, FiniteSetTheorems, WellFoundedInduction, TLAPS

Sitting == {"SIT", "READY", "PLAYING", "OFFLINE"}

Persons == [status : {"NULL", "FREE", "LOOKON"} \union Sitting, table : Tables \union {NoTable},
            chair : Chairs \union {NoChair}, ready : BOOLEAN]

Rooms == [seat : [Tables -> [Chairs -> Users \union {NoUser}]],
          lookon : [Tables -> SUBSET Users], user : [Users -> Persons],
          game : [Tables -> BOOLEAN], draw : [Tables -> BOOLEAN], open : [Tables -> BOOLEAN]]

Sits(m, t, c) == m.table = t /\ m.chair = c /\ m.status \in Sitting
Looks(m, t) == m.table = t /\ m.status = "LOOKON"

\* Who is at no table has left it or not yet asked for one, who sits has a chair.
Placed(m) ==
  /\ m.table = NoTable <=> m.status \in {"NULL", "FREE"}
  /\ m.status \in Sitting => m.chair \in Chairs

Agree(r) ==
  /\ \A u \in Users : Placed(r.user[u])
  /\ \A t \in Tables, c \in Chairs, u \in Users : r.seat[t][c] = u <=> Sits(r.user[u], t, c)
  /\ \A t \in Tables, u \in Users : u \in r.lookon[t] <=> Looks(r.user[u], t)

Good == {r \in Rooms : Agree(r)}

-----------------------------------------------------------------------------
(* What the operations do to the room.                                     *)

\* The members of a user item have their types.
LEMMA PersonFacts ==
  ASSUME NEW r \in Rooms, NEW u \in Users
  PROVE  /\ r.user[u] \in Persons
         /\ r.user[u].status \in {"NULL", "FREE", "LOOKON"} \union Sitting
         /\ r.user[u].table \in Tables \union {NoTable}
         /\ r.user[u].chair \in Chairs \union {NoChair} /\ r.user[u].ready \in BOOLEAN
<1>1. r.user[u] \in Persons
  BY DEF Rooms
<1> QED BY <1>1 DEF Persons

\* Nobody but u has changed; and: of those at t, none who is offline, or elsewhere.
Others(r, s, u) == \A v \in Users : v # u => s.user[v] = r.user[v]

Untouched(r, s, t, u) ==
  /\ \A v \in Users : v # u /\ r.user[v].status = "OFFLINE" => s.user[v] = r.user[v]
  /\ \A v \in Users : v # u /\ r.user[v].table # t => s.user[v] = r.user[v]

\* The room after user u alone has changed the place or the status.
Moved(r, s, u) ==
  /\ \A v \in Users : v # u => s.user[v] = r.user[v]
  /\ \A t \in Tables, c \in Chairs :
       /\ Sits(s.user[u], t, c) => s.seat[t][c] = u /\ r.seat[t][c] \in {u, NoUser}
       /\ ~Sits(s.user[u], t, c) => IF r.seat[t][c] = u THEN s.seat[t][c] = NoUser
                                    ELSE s.seat[t][c] = r.seat[t][c]
  /\ \A t \in Tables :
       s.lookon[t] = IF Looks(s.user[u], t) THEN r.lookon[t] \union {u} ELSE r.lookon[t] \ {u}

\* A move of one user keeps seats and users in agreement.
LEMMA MovedGood ==
  ASSUME config \in Configs, NEW r \in Good, NEW s \in Rooms, NEW u \in Users,
         Placed(s.user[u]), Moved(r, s, u)
  PROVE  s \in Good
<1>1. NoUser \notin Users
  BY TableAssumption
<1>2. Agree(r)
  BY DEF Good
<1>3. ASSUME NEW v \in Users PROVE Placed(s.user[v])
  BY <1>2 DEF Agree, Moved
<1>4. ASSUME NEW t \in Tables, NEW c \in Chairs, NEW v \in Users
      PROVE  s.seat[t][c] = v <=> Sits(s.user[v], t, c)
  <2>1. r.seat[t][c] = v <=> Sits(r.user[v], t, c)
    BY <1>2 DEF Agree
  <2>2. CASE v = u
    BY <1>1, <2>2 DEF Moved
  <2>3. CASE v # u
    <3>1. s.user[v] = r.user[v]
      BY <2>3 DEF Moved
    <3>2. CASE Sits(s.user[u], t, c)
      <4>1. s.seat[t][c] = u /\ r.seat[t][c] \in {u, NoUser}
        BY <3>2 DEF Moved
      <4> QED BY <1>1, <2>1, <2>3, <3>1, <4>1
    <3>3. CASE ~Sits(s.user[u], t, c)
      <4>1. IF r.seat[t][c] = u THEN s.seat[t][c] = NoUser ELSE s.seat[t][c] = r.seat[t][c]
        BY <3>3 DEF Moved
      <4> QED BY <1>1, <2>1, <2>3, <3>1, <4>1
    <3> QED BY <3>2, <3>3
  <2> QED BY <2>2, <2>3
<1>5. ASSUME NEW t \in Tables, NEW v \in Users
      PROVE  v \in s.lookon[t] <=> Looks(s.user[v], t)
  <2>1. v \in r.lookon[t] <=> Looks(r.user[v], t)
    BY <1>2 DEF Agree
  <2>2. s.lookon[t] = IF Looks(s.user[u], t) THEN r.lookon[t] \union {u} ELSE r.lookon[t] \ {u}
    BY DEF Moved
  <2>3. v # u => s.user[v] = r.user[v]
    BY DEF Moved
  <2> QED BY <2>1, <2>2, <2>3
<1>6. Agree(s)
  BY <1>3, <1>4, <1>5 DEF Agree
<1> QED BY <1>6 DEF Good

\* Users who only change their status between those of people who sit stay where they are.
LEMMA StatusGood ==
  ASSUME config \in Configs, NEW r \in Good, NEW s \in Rooms,
         s.seat = r.seat, s.lookon = r.lookon,
         \A v \in Users : \/ s.user[v] = r.user[v]
                          \/ /\ s.user[v].table = r.user[v].table
                             /\ s.user[v].chair = r.user[v].chair
                             /\ r.user[v].status \in Sitting /\ s.user[v].status \in Sitting
  PROVE  s \in Good
<1>2. Agree(r)
  BY DEF Good
<1>3. ASSUME NEW v \in Users PROVE Placed(s.user[v])
  <2>1. Placed(r.user[v])
    BY <1>2 DEF Agree
  <2> QED BY <2>1 DEF Placed, Sitting
<1>4. ASSUME NEW t \in Tables, NEW c \in Chairs, NEW v \in Users
      PROVE  s.seat[t][c] = v <=> Sits(s.user[v], t, c)
  <2>1. r.seat[t][c] = v <=> Sits(r.user[v], t, c)
    BY <1>2 DEF Agree
  <2>2. Sits(r.user[v], t, c) <=> Sits(s.user[v], t, c)
    BY DEF Sits
  <2> QED BY <2>1, <2>2
<1>5. ASSUME NEW t \in Tables, NEW v \in Users
      PROVE  v \in s.lookon[t] <=> Looks(s.user[v], t)
  <2>1. v \in r.lookon[t] <=> Looks(r.user[v], t)
    BY <1>2 DEF Agree
  <2>2. Looks(r.user[v], t) <=> Looks(s.user[v], t)
    BY DEF Looks, Sitting
  <2> QED BY <2>1, <2>2
<1>6. Agree(s)
  BY <1>3, <1>4, <1>5 DEF Agree
<1> QED BY <1>6 DEF Good

\* Rooms differ in game, draw and open only.
LEMMA FlagsGood ==
  ASSUME config \in Configs, NEW r \in Good, NEW s \in Rooms,
         s.seat = r.seat, s.lookon = r.lookon, s.user = r.user
  PROVE  s \in Good
BY StatusGood

\* ConcludeTable only closes the table.
LEMMA ConcludeTableLemma ==
  ASSUME config \in Configs, NEW r \in Rooms, NEW t \in Tables
  PROVE  /\ ConcludeTable(r, t) \in Rooms
         /\ ConcludeTable(r, t).seat = r.seat /\ ConcludeTable(r, t).lookon = r.lookon
         /\ ConcludeTable(r, t).user = r.user
         /\ ConcludeTable(r, t).game = r.game /\ ConcludeTable(r, t).draw = r.draw
<1> DEFINE s == [r EXCEPT !.open[t] = FALSE]
<1>1. /\ s \in Rooms /\ s.seat = r.seat /\ s.lookon = r.lookon /\ s.user = r.user
      /\ s.game = r.game /\ s.draw = r.draw
  BY DEF Rooms
<1>2. ConcludeTable(r, t) \in {r, s}
  BY DEF ConcludeTable
<1> QED BY <1>1, <1>2

\* The person u after StartGame has taken everyone into the game.
Joined(r, t, u) ==
  IF ~r.game[t] /\ u \in Seated(r, t) /\ r.user[u].status \notin {"OFFLINE", "PLAYING"}
    THEN [r.user[u] EXCEPT !.status = "PLAYING"] ELSE r.user[u]

\* In a good room those on the chairs of a table are those who believe it.
LEMMA SeatedLemma ==
  ASSUME config \in Configs, NEW r \in Good, NEW t \in Tables, NEW u \in Users
  PROVE  u \in Seated(r, t) <=> r.user[u].table = t /\ r.user[u].status \in Sitting
<1>1. Agree(r) /\ NoUser \notin Users
  BY TableAssumption DEF Good
<1>2. ASSUME u \in Seated(r, t) PROVE r.user[u].table = t /\ r.user[u].status \in Sitting
  <2>1. PICK c \in Chairs : r.seat[t][c] = u
    BY <1>2 DEF Seated, Taken
  <2> QED BY <1>1, <2>1 DEF Agree, Sits
<1>3. ASSUME r.user[u].table = t, r.user[u].status \in Sitting PROVE u \in Seated(r, t)
  <2>1. r.user[u].chair \in Chairs
    BY <1>1, <1>3 DEF Agree, Placed
  <2>2. r.seat[t][r.user[u].chair] = u
    BY <1>1, <1>3, <2>1 DEF Agree, Sits
  <2> QED BY <1>1, <2>1, <2>2 DEF Seated, Taken
<1> QED BY <1>2, <1>3

\* StartGame keeps everyone on the chair and lets those who sit play.
LEMMA StartLemma ==
  ASSUME config \in Configs, NEW r \in Good, NEW t \in Tables
  PROVE  LET s == StartGame(r, t)
         IN /\ s \in Good /\ s.seat = r.seat /\ s.lookon = r.lookon
            /\ r.draw[t] => s = r
            /\ ~r.draw[t] => /\ \A u \in Users : s.user[u] = Joined(r, t, u)
                             /\ s.game = [r.game EXCEPT ![t] = TRUE]
                             /\ s.draw = [r.draw EXCEPT ![t] = TRUE]
<1> DEFINE s == StartGame(r, t)
           at(u) == Min({c \in Chairs : r.seat[t][c] = u})
           joins(u) == /\ ~r.game[t] /\ u \in Seated(r, t)
                       /\ r.user[u].status \notin {"OFFLINE", "PLAYING"}
           f == [u \in Users |-> IF joins(u)
                   THEN [r.user[u] EXCEPT !.status = "PLAYING", !.table = t, !.chair = at(u)]
                   ELSE r.user[u]]
<1>1. CASE r.draw[t]
  BY <1>1 DEF StartGame
<1>2. CASE ~r.draw[t]
  <2>0. r \in Rooms /\ Agree(r)
    BY DEF Good
  <2>1. s = [r EXCEPT !.game[t] = TRUE, !.draw[t] = TRUE, !.open[t] = TRUE, !.user = f]
    BY <1>2 DEF StartGame
  <2> HIDE DEF s
  <2>2. ASSUME NEW u \in Users PROVE f[u] = Joined(r, t, u) /\ f[u] \in Persons
    <3>1. r.user[u] \in Persons
      BY <2>0, PersonFacts
    <3>2. CASE joins(u)
      <4>1. r.user[u].table = t /\ r.user[u].status \in Sitting
        BY <3>2, SeatedLemma
      <4>2. r.user[u].chair \in Chairs
        BY <2>0, <4>1 DEF Agree, Placed
      <4>3. {c \in Chairs : r.seat[t][c] = u} = {r.user[u].chair}
        BY <2>0, <4>1, <4>2 DEF Agree, Sits
      <4>4. at(u) = r.user[u].chair
        <5>1. \A c \in Chairs : c <= c
          BY TableAssumption DEF Chairs, ChairCount
        <5> QED BY <4>2, <4>3, <5>1 DEF Min
      <4>5. f[u] = [r.user[u] EXCEPT !.status = "PLAYING", !.table = t, !.chair = at(u)]
        BY <3>2
      <4> HIDE DEF at, f
      <4>6. f[u] = [r.user[u] EXCEPT !.status = "PLAYING"]
        BY <3>1, <4>1, <4>4, <4>5 DEF Persons
      <4>7. f[u] \in Persons
        BY <3>1, <4>6 DEF Persons, Sitting
      <4> QED BY <3>2, <4>6, <4>7 DEF Joined
    <3>3. CASE ~joins(u)
      BY <3>1, <3>3 DEF Joined
    <3> QED BY <3>2, <3>3
  <2> HIDE DEF f
  <2>3. f \in [Users -> Persons]
    BY <2>2 DEF f
  <2>4. /\ s \in Rooms /\ s.seat = r.seat /\ s.lookon = r.lookon /\ s.user = f
        /\ s.game = [r.game EXCEPT ![t] = TRUE] /\ s.draw = [r.draw EXCEPT ![t] = TRUE]
    BY <2>0, <2>1, <2>3 DEF Rooms
  <2>5. ASSUME NEW u \in Users
        PROVE  \/ s.user[u] = r.user[u]
               \/ /\ s.user[u].table = r.user[u].table
                  /\ s.user[u].chair = r.user[u].chair
                  /\ r.user[u].status \in Sitting /\ s.user[u].status \in Sitting
    <3>1. r.user[u] \in Persons
      BY <2>0, PersonFacts
    <3>2. s.user[u] = Joined(r, t, u)
      BY <2>2, <2>4
    <3>3. u \in Seated(r, t) => r.user[u].status \in Sitting
      BY SeatedLemma
    <3> QED BY <3>1, <3>2, <3>3 DEF Joined, Persons, Sitting
  <2>6. s \in Good
    BY <2>4, <2>5, StatusGood
  <2> QED BY <1>2, <2>2, <2>4, <2>6 DEF s
<1> QED BY <1>1, <1>2

\* The room once u has given the chair back.
LeftRoom(r, t, u, status) ==
  ConcludeTable([r EXCEPT !.seat[t][r.user[u].chair] = NoUser, !.user[u] = Away(status)], t)

\* A user who is away is nowhere.
LEMMA AwayLemma ==
  ASSUME NEW x \in {"NULL", "FREE"}
  PROVE  /\ Away(x) \in Persons /\ Placed(Away(x)) /\ Away(x).table = NoTable
         /\ \A t \in Tables : ~Looks(Away(x), t)
         /\ \A t \in Tables, c \in Chairs : ~Sits(Away(x), t, c)
BY TableAssumption DEF Away, Persons, Placed, Looks, Sits, Sitting

\* The chair is freed and the user is away.
LEMMA LeftLemma ==
  ASSUME config \in Configs, NEW r \in Good, NEW t \in Tables, NEW u \in Users,
         r.user[u].table = t, r.user[u].status \in Sitting, NEW x \in {"NULL", "FREE"}
  PROVE  LET l == LeftRoom(r, t, u, x)
         IN /\ l \in Good /\ l.user[u] = Away(x) /\ r.user[u].chair \in Chairs
            /\ Others(r, l, u)
            /\ l.game = r.game /\ l.draw = r.draw /\ l.lookon = r.lookon
            /\ \A d \in Tables : d # t => l.seat[d] = r.seat[d]
            /\ \A c \in Chairs : l.seat[t][c] = IF c = r.user[u].chair THEN NoUser
                                                ELSE r.seat[t][c]
<1> DEFINE a == r.user[u].chair
           m == [r EXCEPT !.seat[t][a] = NoUser, !.user[u] = Away(x)]
           l == LeftRoom(r, t, u, x)
<1>0. r \in Rooms /\ Agree(r)
  BY DEF Good
<1>1. a \in Chairs
  BY <1>0 DEF Agree, Placed
<1>2. \A d \in Tables, c \in Chairs : r.seat[d][c] = u <=> d = t /\ c = a
  BY <1>0, <1>1 DEF Agree, Sits
<1>3. \A d \in Tables : u \notin r.lookon[d]
  BY <1>0 DEF Agree, Looks, Sitting
<1>m. m.seat = [r.seat EXCEPT ![t][a] = NoUser] /\ m.user = [r.user EXCEPT ![u] = Away(x)]
  BY <1>0 DEF Rooms
<1>n. m.game = r.game /\ m.draw = r.draw /\ m.lookon = r.lookon /\ m.open = r.open
  BY <1>0 DEF Rooms
<1>4. m \in Rooms
  BY <1>0, <1>1, AwayLemma DEF Rooms
<1> HIDE DEF a
<1>5. /\ m.user[u] = Away(x) /\ \A v \in Users : v # u => m.user[v] = r.user[v]
      /\ \A d \in Tables : d # t => m.seat[d] = r.seat[d]
      /\ \A c \in Chairs : m.seat[t][c] = IF c = a THEN NoUser ELSE r.seat[t][c]
  BY <1>0, <1>1, <1>m DEF Rooms
<1>l. LeftRoom(r, t, u, x) = ConcludeTable(m, t)
  BY DEF LeftRoom, a
<1> HIDE DEF m
<1>6. /\ l \in Rooms /\ l.seat = m.seat /\ l.lookon = m.lookon /\ l.user = m.user
      /\ l.game = m.game /\ l.draw = m.draw
  BY <1>4, <1>l, ConcludeTableLemma
<1> HIDE DEF l
<1>7. Moved(r, l, u)
  <2>1. \A d \in Tables : l.lookon[d] = IF Looks(l.user[u], d) THEN r.lookon[d] \union {u}
                                       ELSE r.lookon[d] \ {u}
    <3> SUFFICES ASSUME NEW d \in Tables PROVE r.lookon[d] = r.lookon[d] \ {u}
      BY <1>5, <1>6, <1>n, AwayLemma
    <3> QED BY <1>3
  <2>2. \A d \in Tables, c \in Chairs :
          ~Sits(l.user[u], d, c) /\ IF r.seat[d][c] = u THEN l.seat[d][c] = NoUser
                                    ELSE l.seat[d][c] = r.seat[d][c]
    BY <1>2, <1>5, <1>6, AwayLemma
  <2> QED BY <1>5, <1>6, <2>1, <2>2 DEF Moved
<1>8. l \in Good
  BY <1>5, <1>6, <1>7, AwayLemma, MovedGood
<1> QED BY <1>1, <1>5, <1>6, <1>8, <1>n DEF l, a, Others

GoneTo(gone) == IF gone THEN "NULL" ELSE "FREE"

\* LeaveSeat: u is away, and whoever stays may have been taken into a new game.
LEMMA LeaveLemma ==
  ASSUME config \in Configs, NEW r \in Good, NEW t \in Tables, NEW u \in Users,
         r.user[u].table = t, r.user[u].status \in Sitting, NEW gone \in BOOLEAN,
         NEW s \in LeaveSeat(r, t, u, gone)
  PROVE  /\ s = LET l == LeftRoom(r, t, u, GoneTo(gone))
                IN IF EfficacyStartGame(l, t, NoChair) THEN StartGame(l, t) ELSE l
         /\ s \in Good /\ s.user[u] = Away(GoneTo(gone))
         /\ Untouched(r, s, t, u)
<1> DEFINE x == GoneTo(gone)
           l == LeftRoom(r, t, u, x)
<1>0. x \in {"NULL", "FREE"}
  BY DEF GoneTo
<1>1. s = IF EfficacyStartGame(l, t, NoChair) THEN StartGame(l, t) ELSE l
  BY DEF LeaveSeat, LeftRoom, GoneTo
<1> HIDE DEF x
<1>2. l \in Good /\ l.user[u] = Away(x) /\ \A v \in Users : v # u => l.user[v] = r.user[v]
  <2>1. l \in Good /\ l.user[u] = Away(x) /\ Others(r, l, u)
    BY <1>0, LeftLemma
  <2> QED BY <2>1 DEF Others
<1> HIDE DEF l
<1>3. ASSUME NEW v \in Users, v = u \/ r.user[v].status = "OFFLINE" \/ r.user[v].table # t
      PROVE  s.user[v] = l.user[v]
  <2>1. Joined(l, t, v) = l.user[v]
    <3>1. v \in Seated(l, t) => l.user[v].table = t
      BY <1>2, SeatedLemma
    <3>2. v = u => l.user[v].table # t
      BY <1>0, <1>2, AwayLemma, TableAssumption
    <3> QED BY <1>2, <1>3, <3>1, <3>2 DEF Joined
  <2>2. StartGame(l, t).user[v] = l.user[v]
    <3>1. CASE l.draw[t]
      <4>1. StartGame(l, t) = l
        BY <3>1 DEF StartGame
      <4> QED BY <4>1
    <3>2. CASE ~l.draw[t]
      <4>1. \A w \in Users : StartGame(l, t).user[w] = Joined(l, t, w)
        BY <1>2, <3>2, StartLemma
      <4> QED BY <2>1, <4>1
    <3> QED BY <3>1, <3>2
  <2> QED BY <1>1, <2>2
<1>4. s \in Good
  BY <1>1, <1>2, StartLemma
<1>5. s.user[u] = Away(x)
  BY <1>2, <1>3
<1>6. ASSUME NEW v \in Users, v # u, r.user[v].status = "OFFLINE" \/ r.user[v].table # t
      PROVE  s.user[v] = r.user[v]
  BY <1>2, <1>3, <1>6
<1> QED BY <1>1, <1>4, <1>5, <1>6 DEF l, x, Untouched

\* PerformLookonAction for a user who is at no table.
LEMMA LookonLemma ==
  ASSUME config \in Configs, NEW r \in Good, NEW t \in Tables, NEW u \in Users,
         r.user[u].table = NoTable, NEW c \in Chairs \union {NoChair}
  PROVE  LET s == PerformLookonAction(r, t, c, u)
         IN /\ s \in Good /\ s.game = r.game /\ s.draw = r.draw
            /\ s.user[u] = [status |-> "LOOKON", table |-> t, chair |-> c, ready |-> TRUE]
            /\ Others(r, s, u)
<1> DEFINE m == [status |-> "LOOKON", table |-> t, chair |-> c, ready |-> TRUE]
           s == PerformLookonAction(r, t, c, u)
<1>0. r \in Rooms /\ Agree(r) /\ NoTable \notin Tables
  BY TableAssumption DEF Good
<1>1. m \in Persons /\ Placed(m) /\ \A d \in Tables, e \in Chairs : ~Sits(m, d, e)
  BY <1>0 DEF Persons, Placed, Sits, Sitting
<1>2. \A d \in Tables : Looks(m, d) <=> d = t
  BY DEF Looks
<1>3. s = [r EXCEPT !.lookon[t] = @ \union {u}, !.user[u] = m]
  BY DEF PerformLookonAction
<1> HIDE DEF m, s
<1>4. /\ s.seat = r.seat /\ s.game = r.game /\ s.draw = r.draw /\ s.open = r.open
      /\ s.lookon = [r.lookon EXCEPT ![t] = @ \union {u}] /\ s.user = [r.user EXCEPT ![u] = m]
  BY <1>0, <1>3 DEF Rooms
<1>5. s \in Rooms
  BY <1>0, <1>1, <1>3 DEF Rooms
<1>6. \A d \in Tables : u \notin r.lookon[d] /\ \A e \in Chairs : r.seat[d][e] # u
  BY <1>0 DEF Agree, Looks, Sits
<1>7. /\ s.user[u] = m /\ \A v \in Users : v # u => s.user[v] = r.user[v]
      /\ \A d \in Tables : s.lookon[d] = IF d = t THEN r.lookon[d] \union {u} ELSE r.lookon[d]
  BY <1>0, <1>4 DEF Rooms
<1>8. Moved(r, s, u)
  <2>1. ASSUME NEW d \in Tables
        PROVE  s.lookon[d] = IF Looks(m, d) THEN r.lookon[d] \union {u} ELSE r.lookon[d] \ {u}
    BY <1>2, <1>6, <1>7
  <2> QED BY <1>1, <1>4, <1>6, <1>7, <2>1 DEF Moved
<1>9. s \in Good
  BY <1>1, <1>5, <1>7, <1>8, MovedGood
<1> QED BY <1>4, <1>7, <1>9 DEF s, m, Others

\* The status of one who sits down.
Entry(r, t) == IF r.game[t] /\ config.mode = "TIME_CONTROL" THEN "PLAYING" ELSE "SIT"

\* PerformSitDownAction for a user who is at no table and a free chair.
LEMMA SitDownLemma ==
  ASSUME config \in Configs, NEW r \in Good, NEW t \in Tables, NEW u \in Users,
         r.user[u].table = NoTable, NEW c \in Chairs, r.seat[t][c] = NoUser
  PROVE  LET s == PerformSitDownAction(r, t, c, u)
         IN /\ s \in Good /\ s.game = r.game /\ s.draw = r.draw
            /\ s.user[u] = [status |-> Entry(r, t), table |-> t, chair |-> c, ready |-> FALSE]
            /\ Others(r, s, u)
<1> DEFINE x == Entry(r, t)
           m == [status |-> x, table |-> t, chair |-> c, ready |-> FALSE]
           s == PerformSitDownAction(r, t, c, u)
<1>0. r \in Rooms /\ Agree(r) /\ NoTable \notin Tables
  BY TableAssumption DEF Good
<1>x. x \in {"PLAYING", "SIT"}
  BY DEF Entry
<1>3. s = [r EXCEPT !.seat[t][c] = u, !.user[u] = m]
  BY DEF PerformSitDownAction, Entry
<1> HIDE DEF x, s
<1>1. m \in Persons /\ Placed(m) /\ \A d \in Tables, e \in Chairs : Sits(m, d, e) <=> d = t /\ e = c
  BY <1>0, <1>x DEF Persons, Placed, Sits, Sitting
<1>2. \A d \in Tables : ~Looks(m, d)
  BY <1>x DEF Looks
<1> HIDE DEF m
<1>4. /\ s.lookon = r.lookon /\ s.game = r.game /\ s.draw = r.draw /\ s.open = r.open
      /\ s.seat = [r.seat EXCEPT ![t][c] = u] /\ s.user = [r.user EXCEPT ![u] = m]
  BY <1>0, <1>3 DEF Rooms
<1>5. s \in Rooms
  BY <1>0, <1>1, <1>3 DEF Rooms
<1>6. \A d \in Tables : u \notin r.lookon[d] /\ \A e \in Chairs : r.seat[d][e] # u
  BY <1>0 DEF Agree, Looks, Sits
<1>7. /\ s.user[u] = m /\ \A v \in Users : v # u => s.user[v] = r.user[v]
      /\ \A d \in Tables, e \in Chairs :
           s.seat[d][e] = IF d = t /\ e = c THEN u ELSE r.seat[d][e]
  BY <1>0, <1>4 DEF Rooms
<1>8. Moved(r, s, u)
  <2>1. \A d \in Tables : r.lookon[d] = r.lookon[d] \ {u}
    BY <1>6
  <2> QED BY <1>1, <1>2, <1>4, <1>6, <1>7, <2>1 DEF Moved
<1>9. s \in Good
  BY <1>1, <1>5, <1>7, <1>8, MovedGood
<1> QED BY <1>4, <1>7, <1>9 DEF s, m, x, Others

-----------------------------------------------------------------------------
(* The loops of ConcludeGame.                                              *)

\* Every set of natural numbers has a least element: induction, for sets.
LEMMA LeastNumber ==
  ASSUME NEW T, T \subseteq Nat, T # {}
  PROVE  \E x \in T : \A y \in T : x <= y
<1>1. PICK x \in T : \A y \in T : ~(<<y, x>> \in OpToRel(<, Nat))
  BY WFMin, NatLessThanWellFounded
<1>2. \A y \in T : ~(y < x)
  BY <1>1 DEF OpToRel
<1> QED BY <1>2

\* The room before the loops.
Stopped(r, t) == [r EXCEPT !.draw[t] = FALSE, !.game[t] = FALSE]

\* The rooms after n chairs of the first loop and of the second, out of those of
\* A, when g has those after fewer.
SitPass(A, t, g, n) ==
  IF n = 0 THEN A ELSE UNION {SitOrLeave(s, t, n - 1) : s \in g[n - 1]}
KickPass(A, t, g, n) ==
  IF n = 0 THEN A ELSE UNION {Kick(s, t, n - 1) : s \in g[n - 1]}

SitPasses(A, t) == CHOOSE g : g = [n \in 0..ChairCount |-> SitPass(A, t, g, n)]
KickPasses(A, t) == CHOOSE g : g = [n \in 0..ChairCount |-> KickPass(A, t, g, n)]

\* The recursion of the first loop has a solution up to any number of chairs.
LEMMA SitPassExists ==
  ASSUME NEW A, NEW t, NEW m \in Nat
  PROVE  \E g : g = [n \in 0..m |-> SitPass(A, t, g, n)]
<1> DEFINE T == {n \in Nat : ~ \E g : g = [k \in 0..n |-> SitPass(A, t, g, k)]}
<1>1. SUFFICES ASSUME T # {} PROVE FALSE
  OBVIOUS
<1>2. PICK x \in T : \A y \in T : x <= y
  BY <1>1, LeastNumber
<1>3. x # 0
  <2> DEFINE g == [k \in 0..0 |-> A]
  <2>1. g = [k \in 0..0 |-> SitPass(A, t, g, k)]
    BY DEF SitPass
  <2> QED BY <2>1
<1>4. x - 1 \in Nat /\ x - 1 \notin T
  BY <1>2, <1>3
<1>5. PICK g : g = [k \in 0..(x - 1) |-> SitPass(A, t, g, k)]
  BY <1>4
<1> DEFINE h == [k \in 0..x |-> IF k = x THEN SitPass(A, t, g, x) ELSE g[k]]
<1>6. ASSUME NEW k \in 0..x PROVE h[k] = SitPass(A, t, h, k)
  <2>1. k # 0 => h[k - 1] = g[k - 1]
    BY <1>3
  <2>2. SitPass(A, t, h, k) = SitPass(A, t, g, k)
    BY <2>1 DEF SitPass
  <2>3. k # x => g[k] = SitPass(A, t, g, k)
    BY <1>3, <1>5
  <2> QED BY <2>2, <2>3
<1>7. h = [k \in 0..x |-> SitPass(A, t, h, k)]
  BY <1>6
<1> QED BY <1>7

\* The recursion of the second loop has a solution up to any number of chairs.
LEMMA KickPassExists ==
  ASSUME NEW A, NEW t, NEW m \in Nat
  PROVE  \E g : g = [n \in 0..m |-> KickPass(A, t, g, n)]
<1> DEFINE T == {n \in Nat : ~ \E g : g = [k \in 0..n |-> KickPass(A, t, g, k)]}
<1>1. SUFFICES ASSUME T # {} PROVE FALSE
  OBVIOUS
<1>2. PICK x \in T : \A y \in T : x <= y
  BY <1>1, LeastNumber
<1>3. x # 0
  <2> DEFINE g == [k \in 0..0 |-> A]
  <2>1. g = [k \in 0..0 |-> KickPass(A, t, g, k)]
    BY DEF KickPass
  <2> QED BY <2>1
<1>4. x - 1 \in Nat /\ x - 1 \notin T
  BY <1>2, <1>3
<1>5. PICK g : g = [k \in 0..(x - 1) |-> KickPass(A, t, g, k)]
  BY <1>4
<1> DEFINE h == [k \in 0..x |-> IF k = x THEN KickPass(A, t, g, x) ELSE g[k]]
<1>6. ASSUME NEW k \in 0..x PROVE h[k] = KickPass(A, t, h, k)
  <2>1. k # 0 => h[k - 1] = g[k - 1]
    BY <1>3
  <2>2. KickPass(A, t, h, k) = KickPass(A, t, g, k)
    BY <2>1 DEF KickPass
  <2>3. k # x => g[k] = KickPass(A, t, g, k)
    BY <1>3, <1>5
  <2> QED BY <2>2, <2>3
<1>7. h = [k \in 0..x |-> KickPass(A, t, h, k)]
  BY <1>6
<1> QED BY <1>7

\* What holds before the first loop and is carried from chair to chair holds after it.
LEMMA SitLoop ==
  ASSUME config \in Configs, NEW A, NEW t, NEW G, A \subseteq G[0],
         \A n \in 0..(ChairCount - 1) : \A p \in G[n] : SitOrLeave(p, t, n) \subseteq G[n + 1]
  PROVE  SitPasses(A, t)[ChairCount] \subseteq G[ChairCount]
<1>0. ChairCount \in Nat /\ ChairCount > 0
  BY TableAssumption DEF ChairCount
<1> DEFINE g == SitPasses(A, t)
           T == {n \in 0..ChairCount : ~(g[n] \subseteq G[n])}
<1>2. g = [n \in 0..ChairCount |-> SitPass(A, t, g, n)]
  BY <1>0, SitPassExists DEF SitPasses
<1> HIDE DEF g
<1>4. SUFFICES ASSUME T # {} PROVE FALSE
  BY <1>0 DEF g
<1>t. T \subseteq Nat /\ \A y : y \in T <=> y \in 0..ChairCount /\ ~(g[y] \subseteq G[y])
  BY <1>0
<1> HIDE DEF T
<1>5. PICK x \in T : \A y \in T : x <= y
  BY <1>4, <1>t, LeastNumber
<1>6. x \in 0..ChairCount /\ x \in Nat /\ ~(g[x] \subseteq G[x])
  BY <1>t
<1>7. g[x] = SitPass(A, t, g, x)
  BY <1>2, <1>6
<1>8. CASE x = 0
  BY <1>6, <1>7, <1>8 DEF SitPass
<1>9. CASE x # 0
  <2>1. x - 1 \in Nat /\ x - 1 \in 0..(ChairCount - 1) /\ x - 1 \in 0..ChairCount
        /\ (x - 1) + 1 = x
    BY <1>0, <1>6, <1>9
  <2>2. g[x - 1] \subseteq G[x - 1]
    <3>1. x - 1 \notin T
      BY <1>5, <1>6, <2>1
    <3> QED BY <1>t, <2>1, <3>1
  <2>3. g[x] = UNION {SitOrLeave(p, t, x - 1) : p \in g[x - 1]}
    BY <1>7, <1>9 DEF SitPass
  <2>4. \A p \in G[x - 1] : SitOrLeave(p, t, x - 1) \subseteq G[x]
    <3>1. \A p \in G[x - 1] : SitOrLeave(p, t, x - 1) \subseteq G[(x - 1) + 1]
      BY <2>1
    <3> QED BY <2>1, <3>1
  <2> QED BY <1>6, <2>2, <2>3, <2>4
<1> QED BY <1>8, <1>9

\* What holds before the second loop and is carried from chair to chair holds after it.
LEMMA KickLoop ==
  ASSUME config \in Configs, NEW A, NEW t, NEW G, A \subseteq G[0],
         \A n \in 0..(ChairCount - 1) : \A p \in G[n] : Kick(p, t, n) \subseteq G[n + 1]
  PROVE  KickPasses(A, t)[ChairCount] \subseteq G[ChairCount]
<1>0. ChairCount \in Nat /\ ChairCount > 0
  BY TableAssumption DEF ChairCount
<1> DEFINE g == KickPasses(A, t)
           T == {n \in 0..ChairCount : ~(g[n] \subseteq G[n])}
<1>2. g = [n \in 0..ChairCount |-> KickPass(A, t, g, n)]
  BY <1>0, KickPassExists DEF KickPasses
<1> HIDE DEF g
<1>4. SUFFICES ASSUME T # {} PROVE FALSE
  BY <1>0 DEF g
<1>t. T \subseteq Nat /\ \A y : y \in T <=> y \in 0..ChairCount /\ ~(g[y] \subseteq G[y])
  BY <1>0
<1> HIDE DEF T
<1>5. PICK x \in T : \A y \in T : x <= y
  BY <1>4, <1>t, LeastNumber
<1>6. x \in 0..ChairCount /\ x \in Nat /\ ~(g[x] \subseteq G[x])
  BY <1>t
<1>7. g[x] = KickPass(A, t, g, x)
  BY <1>2, <1>6
<1>8. CASE x = 0
  BY <1>6, <1>7, <1>8 DEF KickPass
<1>9. CASE x # 0
  <2>1. x - 1 \in Nat /\ x - 1 \in 0..(ChairCount - 1) /\ x - 1 \in 0..ChairCount
        /\ (x - 1) + 1 = x
    BY <1>0, <1>6, <1>9
  <2>2. g[x - 1] \subseteq G[x - 1]
    <3>1. x - 1 \notin T
      BY <1>5, <1>6, <2>1
    <3> QED BY <1>t, <2>1, <3>1
  <2>3. g[x] = UNION {Kick(p, t, x - 1) : p \in g[x - 1]}
    BY <1>7, <1>9 DEF KickPass
  <2>4. \A p \in G[x - 1] : Kick(p, t, x - 1) \subseteq G[x]
    <3>1. \A p \in G[x - 1] : Kick(p, t, x - 1) \subseteq G[(x - 1) + 1]
      BY <2>1
    <3> QED BY <2>1, <3>1
  <2> QED BY <1>6, <2>2, <2>3, <2>4
<1> QED BY <1>8, <1>9

(* What is to be shown of the two loops: G[n] holds before chair n of the  *)
(* first, and K, which a table that did not start again has then, is kept  *)
(* by the second.                                                          *)
ThroughChairs(r, t, G, K) ==
  /\ Stopped(r, t) \in G[0]
  /\ \A n \in 0..(ChairCount - 1) : \A p \in G[n] : SitOrLeave(p, t, n) \subseteq G[n + 1]
  /\ \A p \in G[ChairCount] : ~p.game[t] => p \in K
  /\ \A p \in K, c \in Chairs : Kick(p, t, c) \subseteq K

\* What holds before the first chair and is carried from chair to chair holds at
\* the end of the game; the second loop, which keeps to K, is for rooms where no
\* game has started.
LEMMA ConcludeLoop ==
  ASSUME config \in Configs, NEW r, NEW t, NEW G, NEW K, ThroughChairs(r, t, G, K),
         NEW s \in ConcludeGame(r, t)
  PROVE  \E p : (p \in K \/ (p \in G[ChairCount] /\ p.game[t])) /\ s = ConcludeTable(p, t)
<1> USE DEF ThroughChairs
<1> DEFINE A == {Stopped(r, t)}
           sat == SitPasses(A, t)[ChairCount]
           B == {q \in sat : ~q.game[t]}
           H == [n \in 0..ChairCount |-> K]
           kicked == KickPasses(B, t)[ChairCount]
<1>0. ChairCount \in Nat /\ Chairs = 0..(ChairCount - 1)
  BY TableAssumption DEF ChairCount, Chairs
<1>1. ConcludeGame(r, t) = {ConcludeTable(p, t) : p \in kicked \union {q \in sat : q.game[t]}}
  BY DEF ConcludeGame, SitPasses, KickPasses, SitPass, KickPass, Stopped
<1>2. A \subseteq G[0]
  OBVIOUS
<1> HIDE DEF A
<1>3. sat \subseteq G[ChairCount]
  BY <1>2, SitLoop
<1> HIDE DEF sat
<1>4. B \subseteq K
  BY <1>3
<1>5. B \subseteq H[0] /\ H[ChairCount] = K
  BY <1>0, <1>4
<1>6. \A n \in 0..(ChairCount - 1) : \A p \in H[n] : Kick(p, t, n) \subseteq H[n + 1]
  BY <1>0
<1> HIDE DEF B, H
<1>7. kicked \subseteq H[ChairCount]
  BY <1>5, <1>6, KickLoop
<1> HIDE DEF kicked
<1> QED BY <1>1, <1>3, <1>5, <1>7

-----------------------------------------------------------------------------
(* Operations on one table leave the others alone.                         *)

\* The users at table d, and its game, are the same in two rooms.
SameAt(r, s, d) ==
  /\ s.game[d] = r.game[d] /\ s.draw[d] = r.draw[d]
  /\ \A v \in Users : r.user[v].table = d \/ s.user[v].table = d => s.user[v] = r.user[v]

Local(r, s, t) == \A d \in Tables : d # t => SameAt(r, s, d)

\* What two steps leave alone, both together do.
LEMMA LocalTrans ==
  ASSUME NEW r, NEW p, NEW s, NEW t, Local(r, p, t), Local(p, s, t)
  PROVE  Local(r, s, t)
<1> SUFFICES ASSUME NEW d \in Tables, d # t PROVE SameAt(r, s, d)
  BY DEF Local
<1>1. SameAt(r, p, d) /\ SameAt(p, s, d)
  BY DEF Local
<1> QED BY <1>1 DEF SameAt

\* StartGame leaves the other tables alone.
LEMMA StartLocal ==
  ASSUME config \in Configs, NEW r \in Good, NEW t \in Tables
  PROVE  Local(r, StartGame(r, t), t)
<1> DEFINE s == StartGame(r, t)
<1>1. CASE r.draw[t]
  <2>1. s = r
    BY <1>1 DEF StartGame
  <2> QED BY <2>1 DEF Local, SameAt
<1>2. CASE ~r.draw[t]
  <2>0. r \in Rooms
    BY DEF Good
  <2>1. /\ \A u \in Users : s.user[u] = Joined(r, t, u)
        /\ s.game = [r.game EXCEPT ![t] = TRUE] /\ s.draw = [r.draw EXCEPT ![t] = TRUE]
    BY <1>2, StartLemma
  <2> HIDE DEF s
  <2>2. \A d \in Tables : d # t => s.game[d] = r.game[d] /\ s.draw[d] = r.draw[d]
    BY <2>0, <2>1 DEF Rooms
  <2>3. ASSUME NEW u \in Users PROVE s.user[u] = r.user[u] \/ (r.user[u].table = t /\ s.user[u].table = t)
    <3>1. r.user[u] \in Persons
      BY <2>0, PersonFacts
    <3>2. u \in Seated(r, t) => r.user[u].table = t
      BY SeatedLemma
    <3> QED BY <2>1, <3>1, <3>2 DEF Joined, Persons
  <2>4. ASSUME NEW d \in Tables, d # t PROVE SameAt(r, s, d)
    BY <2>2, <2>3, <2>4 DEF SameAt
  <2> QED BY <2>4 DEF Local, s
<1> QED BY <1>1, <1>2

\* LeaveSeat, with the start it may cause, leaves the other tables alone.
LEMMA LeaveLocal ==
  ASSUME config \in Configs, NEW r \in Good, NEW t \in Tables, NEW u \in Users,
         r.user[u].table = t, r.user[u].status \in Sitting, NEW gone \in BOOLEAN,
         NEW s \in LeaveSeat(r, t, u, gone)
  PROVE  Local(r, s, t)
<1> DEFINE x == GoneTo(gone)
           l == LeftRoom(r, t, u, x)
<1>1. s = IF EfficacyStartGame(l, t, NoChair) THEN StartGame(l, t) ELSE l
  BY LeaveLemma
<1>0. x \in {"NULL", "FREE"}
  BY DEF GoneTo
<1> HIDE DEF x
<1>2. /\ l \in Good /\ l.user[u] = Away(x) /\ Others(r, l, u)
      /\ l.game = r.game /\ l.draw = r.draw
  BY <1>0, LeftLemma
<1> HIDE DEF l
<1>3. Local(r, l, t)
  <2>1. l.user[u].table \notin Tables
    BY <1>0, <1>2, AwayLemma, TableAssumption
  <2> QED BY <1>2, <2>1 DEF Local, SameAt, Others
<1>4. Local(l, StartGame(l, t), t)
  BY <1>2, StartLocal
<1>5. Local(r, StartGame(l, t), t)
  BY <1>3, <1>4, LocalTrans
<1> QED BY <1>1, <1>3, <1>5

\* PerformLookonAction leaves the other tables alone.
LEMMA LookonLocal ==
  ASSUME config \in Configs, NEW r \in Good, NEW t \in Tables, NEW u \in Users,
         r.user[u].table = NoTable, NEW c \in Chairs \union {NoChair}
  PROVE  Local(r, PerformLookonAction(r, t, c, u), t)
<1> DEFINE s == PerformLookonAction(r, t, c, u)
<1>1. s.game = r.game /\ s.draw = r.draw
  BY LookonLemma
<1>2. s.user[u].table = t /\ Others(r, s, u)
  <2>1. s.user[u] = [status |-> "LOOKON", table |-> t, chair |-> c, ready |-> TRUE]
    BY LookonLemma
  <2>2. Others(r, s, u)
    BY LookonLemma
  <2> HIDE DEF s
  <2> QED BY <2>1, <2>2
<1> HIDE DEF s
<1> QED BY <1>1, <1>2, TableAssumption DEF Local, SameAt, Others, s

\* PerformSitDownAction leaves the other tables alone.
LEMMA SitDownLocal ==
  ASSUME config \in Configs, NEW r \in Good, NEW t \in Tables, NEW u \in Users,
         r.user[u].table = NoTable, NEW c \in Chairs, r.seat[t][c] = NoUser
  PROVE  Local(r, PerformSitDownAction(r, t, c, u), t)
<1> DEFINE s == PerformSitDownAction(r, t, c, u)
<1>1. s.game = r.game /\ s.draw = r.draw
  BY SitDownLemma
<1>2. s.user[u].table = t /\ Others(r, s, u)
  <2>1. s.user[u] = [status |-> Entry(r, t), table |-> t, chair |-> c, ready |-> FALSE]
    BY SitDownLemma
  <2>2. Others(r, s, u)
    BY SitDownLemma
  <2> HIDE DEF s
  <2> QED BY <2>1, <2>2
<1> HIDE DEF s
<1> QED BY <1>1, <1>2, TableAssumption DEF Local, SameAt, Others, s

-----------------------------------------------------------------------------
(* ConcludeGame.                                                           *)

\* Who sits on chair c of table t.
LEMMA OnChair ==
  ASSUME config \in Configs, NEW r \in Good, NEW t \in Tables, NEW c \in Chairs
  PROVE  \/ r.seat[t][c] = NoUser
         \/ r.seat[t][c] \in Users /\ Sits(r.user[r.seat[t][c]], t, c)
<1>1. r.seat[t][c] \in Users \union {NoUser} /\ Agree(r)
  BY DEF Good, Rooms
<1> QED BY <1>1 DEF Agree

\* One round of the first loop of ConcludeGame.
LEMMA SitOrLeaveLemma ==
  ASSUME config \in Configs, NEW r \in Good, NEW t \in Tables, NEW c \in Chairs,
         NEW s \in SitOrLeave(r, t, c)
  PROVE  /\ s \in Good /\ Local(r, s, t)
         /\ \A v \in Users : r.user[v].table = t /\ r.user[v].status = "OFFLINE"
              => s.user[v] = IF r.user[v].chair = c THEN Away("NULL") ELSE r.user[v]
         /\ \A v \in Users : r.user[v].table # t => s.user[v] = r.user[v]
<1> DEFINE u == r.seat[t][c]
<1>0. r \in Rooms /\ Agree(r)
  BY DEF Good
<1>1. CASE u = NoUser
  <2>1. s = r
    BY <1>1 DEF SitOrLeave
  <2>2. \A v \in Users : r.user[v].table = t /\ r.user[v].status = "OFFLINE" => r.user[v].chair # c
    BY <1>0, <1>1, TableAssumption DEF Agree, Sits, Sitting
  <2>3. Local(r, r, t)
    BY DEF Local, SameAt
  <2> QED BY <2>1, <2>2, <2>3
<1>2. CASE u # NoUser
  <2>1. u \in Users /\ r.user[u].table = t /\ r.user[u].chair = c /\ r.user[u].status \in Sitting
    BY <1>2, OnChair DEF Sits
  <2>2. \A v \in Users : r.user[v].table = t /\ r.user[v].status \in Sitting /\ r.user[v].chair = c
                           => v = u
    BY <1>0 DEF Agree, Sits
  <2>3. CASE r.user[u].status = "OFFLINE"
    <3>1. s \in LeaveSeat(r, t, u, TRUE)
      BY <1>2, <2>3 DEF SitOrLeave
    <3> HIDE DEF u
    <3>g. PICK gone \in BOOLEAN : gone = TRUE
      OBVIOUS
    <3>l. s \in LeaveSeat(r, t, u, gone)
      BY <3>1, <3>g
    <3>2. /\ s \in Good /\ s.user[u] = Away("NULL")
          /\ Untouched(r, s, t, u)
      <4>1. GoneTo(gone) = "NULL"
        BY <3>g DEF GoneTo
      <4>2. s \in Good /\ s.user[u] = Away(GoneTo(gone)) /\ Untouched(r, s, t, u)
        BY <2>1, <3>l, LeaveLemma
      <4> QED BY <4>1, <4>2
    <3>3. Local(r, s, t)
      BY <2>1, <3>l, LeaveLocal
    <3> QED BY <2>1, <2>2, <3>2, <3>3 DEF Sitting, Untouched
  <2>4. CASE r.user[u].status # "OFFLINE"
    <3>1. s = [r EXCEPT !.user[u] = [@ EXCEPT !.status = "SIT", !.table = t, !.chair = c]]
      BY <1>2, <2>4 DEF SitOrLeave
    <3> HIDE DEF u
    <3> DEFINE m == [r.user[u] EXCEPT !.status = "SIT", !.table = t, !.chair = c]
    <3>2. r.user[u] \in Persons
      BY <1>0, <2>1, PersonFacts
    <3>3. m \in Persons /\ m.table = t /\ m.chair = c /\ m.status = "SIT"
      BY <3>2 DEF Persons, Sitting
    <3>4. s = [r EXCEPT !.user[u] = m]
      BY <3>1
    <3> HIDE DEF m
    <3>5. /\ s \in Rooms /\ s.seat = r.seat /\ s.lookon = r.lookon /\ s.game = r.game
          /\ s.draw = r.draw /\ s.user = [r.user EXCEPT ![u] = m]
      BY <1>0, <3>3, <3>4 DEF Rooms
    <3>6. s.user[u] = m /\ \A v \in Users : v # u => s.user[v] = r.user[v]
      BY <1>0, <2>1, <3>5 DEF Rooms
    <3>7. s \in Good
      <4>1. \A v \in Users : \/ s.user[v] = r.user[v]
                              \/ /\ s.user[v].table = r.user[v].table
                                 /\ s.user[v].chair = r.user[v].chair
                                 /\ r.user[v].status \in Sitting /\ s.user[v].status \in Sitting
        BY <2>1, <3>3, <3>6 DEF Sitting
      <4> QED BY <3>5, <4>1, StatusGood
    <3>8. Local(r, s, t)
      BY <2>1, <3>3, <3>5, <3>6 DEF Local, SameAt
    <3> QED BY <2>1, <2>2, <2>4, <3>6, <3>7, <3>8 DEF Sitting
  <2> QED BY <2>3, <2>4
<1> QED BY <1>1, <1>2

\* One round of the second loop.
LEMMA KickLemma ==
  ASSUME config \in Configs, NEW r \in Good, NEW t \in Tables, NEW c \in Chairs,
         NEW s \in Kick(r, t, c)
  PROVE  /\ s \in Good /\ Local(r, s, t)
         /\ \A v \in Users : r.user[v].table # t => s.user[v] = r.user[v]
<1> DEFINE u == r.seat[t][c]
<1>0. r \in Rooms /\ Agree(r) /\ Local(r, r, t)
  BY DEF Good, Local, SameAt
<1>1. CASE s = r
  BY <1>0, <1>1
<1>2. CASE s # r
  <2>1. u # NoUser /\ \E up \in LeaveSeat(r, t, u, FALSE) : s = PerformLookonAction(up, t, c, u)
    BY <1>2 DEF Kick
  <2>2. PICK up : up \in LeaveSeat(r, t, u, FALSE) /\ s = PerformLookonAction(up, t, c, u)
    BY <2>1
  <2>3. u \in Users /\ r.user[u].table = t /\ r.user[u].status \in Sitting
    BY <2>1, OnChair DEF Sits
  <2> HIDE DEF u
  <2>4. /\ up \in Good /\ up.user[u] = Away("FREE")
        /\ Untouched(r, up, t, u)
    <3>0. PICK gone \in BOOLEAN : gone = FALSE
      OBVIOUS
    <3>1. GoneTo(gone) = "FREE" /\ up \in LeaveSeat(r, t, u, gone)
      BY <2>2, <3>0 DEF GoneTo
    <3>2. up \in Good /\ up.user[u] = Away(GoneTo(gone))
      BY <2>3, <3>1, LeaveLemma
    <3>3. Untouched(r, up, t, u)
      BY <2>3, <3>1, LeaveLemma
    <3> QED BY <3>1, <3>2, <3>3
  <2>5. Local(r, up, t)
    BY <2>2, <2>3, LeaveLocal
  <2>6. up.user[u].table = NoTable
    BY <2>4, AwayLemma
  <2>7. s \in Good /\ Local(up, s, t)
    BY <2>2, <2>3, <2>4, <2>6, LookonLemma, LookonLocal
  <2>8. Others(up, s, u)
    BY <2>2, <2>3, <2>4, <2>6, LookonLemma
  <2>9. Local(r, s, t)
    BY <2>5, <2>7, LocalTrans
  <2> QED BY <2>3, <2>4, <2>7, <2>8, <2>9 DEF Others, Untouched
<1> QED BY <1>1, <1>2

\* ConcludeGame: the seats stay right, the other tables are left alone, and whoever
\* was offline has left the room.
LEMMA ConcludeLemma ==
  ASSUME config \in Configs, NEW r \in Good, NEW t \in Tables, NEW s \in ConcludeGame(r, t)
  PROVE  /\ s \in Good /\ Local(r, s, t)
         /\ \A v \in Users : r.user[v].table = t /\ r.user[v].status = "OFFLINE"
                               => s.user[v] = Away("NULL")
<1> DEFINE Kept(p, n) ==
             \A v \in Users : r.user[v].table = t /\ r.user[v].status = "OFFLINE"
                => \/ p.user[v] = Away("NULL")
                   \/ n <= r.user[v].chair /\ p.user[v] = r.user[v]
           OK(p, n) == Local(r, p, t) /\ Kept(p, n)
           G == [n \in 0..ChairCount |-> {p \in Good : OK(p, n)}]
           K == {p \in Good : OK(p, ChairCount)}
           r0 == Stopped(r, t)
<1>0. r \in Rooms /\ Agree(r) /\ ChairCount \in Nat /\ Chairs = 0..(ChairCount - 1) /\ ChairCount > 0
  BY TableAssumption DEF Good, ChairCount, Chairs
<1>c. \A v \in Users : r.user[v].table = t /\ r.user[v].status = "OFFLINE" => r.user[v].chair \in Chairs
  BY <1>0 DEF Agree, Placed, Sitting
<1>a. Away("NULL").table # t
  BY AwayLemma, TableAssumption
<1>1. r0 \in G[0]
  <2>1. /\ r0 \in Rooms /\ r0.seat = r.seat /\ r0.lookon = r.lookon /\ r0.user = r.user
        /\ r0.game = [r.game EXCEPT ![t] = FALSE] /\ r0.draw = [r.draw EXCEPT ![t] = FALSE]
    BY <1>0 DEF Rooms, Stopped
  <2>2. r0 \in Good
    BY <2>1, FlagsGood
  <2>3. Local(r, r0, t)
    BY <1>0, <2>1 DEF Local, SameAt, Rooms
  <2>4. Kept(r0, 0)
    BY <1>0, <1>c, <2>1
  <2> HIDE DEF Kept, r0
  <2>5. 0 \in 0..ChairCount
    BY <1>0
  <2> QED BY <2>2, <2>3, <2>4, <2>5
<1>2. ASSUME NEW n \in 0..(ChairCount - 1), NEW p \in G[n], NEW q \in SitOrLeave(p, t, n)
      PROVE  q \in G[n + 1]
  <2>0. n \in Nat /\ n + 1 \in 0..ChairCount /\ n \in 0..ChairCount /\ n \in Chairs
    BY <1>0
  <2>1. p \in Good /\ Local(r, p, t) /\ Kept(p, n)
    BY <2>0
  <2> HIDE DEF Kept
  <2>2. SUFFICES q \in Good /\ Local(p, q, t) /\ Kept(q, n + 1)
    <3>1. Local(r, q, t)
      BY <2>1, <2>2, LocalTrans
    <3> QED BY <2>0, <2>2, <3>1
  <2>3. /\ q \in Good /\ Local(p, q, t)
        /\ \A v \in Users : p.user[v].table = t /\ p.user[v].status = "OFFLINE"
            => q.user[v] = IF p.user[v].chair = n THEN Away("NULL") ELSE p.user[v]
        /\ \A v \in Users : p.user[v].table # t => q.user[v] = p.user[v]
    BY <2>0, <2>1, SitOrLeaveLemma
  <2>4. ASSUME NEW v \in Users, r.user[v].table = t, r.user[v].status = "OFFLINE"
        PROVE  \/ q.user[v] = Away("NULL")
               \/ n + 1 <= r.user[v].chair /\ q.user[v] = r.user[v]
    <3>1. CASE p.user[v] = Away("NULL")
      BY <1>a, <2>3, <3>1
    <3>2. CASE p.user[v] = r.user[v] /\ n <= r.user[v].chair
      <4>1. r.user[v].chair \in Nat
        BY <1>0, <1>c, <2>4
      <4> QED BY <2>0, <2>3, <2>4, <3>2, <4>1
    <3> QED BY <2>1, <2>4, <3>1, <3>2 DEF Kept
  <2> QED BY <2>3, <2>4 DEF Kept
<1>k. \A p : Kept(p, ChairCount) <=> \A v \in Users :
        r.user[v].table = t /\ r.user[v].status = "OFFLINE" => p.user[v] = Away("NULL")
  <2>1. \A v \in Users : r.user[v].table = t /\ r.user[v].status = "OFFLINE"
                            => ~(ChairCount <= r.user[v].chair)
    BY <1>0, <1>c
  <2> QED BY <2>1
<1> HIDE DEF Kept
<1>3. ASSUME NEW p \in K, NEW c \in Chairs, NEW q \in Kick(p, t, c)
      PROVE  q \in K
  <2>1. p \in Good /\ Local(r, p, t) /\ Kept(p, ChairCount)
    OBVIOUS
  <2>2. /\ q \in Good /\ Local(p, q, t)
        /\ \A v \in Users : p.user[v].table # t => q.user[v] = p.user[v]
    BY <2>1, KickLemma
  <2>3. Local(r, q, t)
    BY <2>1, <2>2, LocalTrans
  <2>4. Kept(q, ChairCount)
    BY <1>a, <1>k, <2>1, <2>2
  <2> QED BY <2>2, <2>3, <2>4
<1>4. G[ChairCount] = K
  BY <1>0
<1> HIDE DEF G, K, OK
<1>5. PICK p \in K : s = ConcludeTable(p, t)
  <2>1. Stopped(r, t) \in G[0]
    BY <1>1 DEF r0
  <2>2. \A n \in 0..(ChairCount - 1) : \A q \in G[n] : SitOrLeave(q, t, n) \subseteq G[n + 1]
    BY <1>2
  <2>3. \A q \in G[ChairCount] : ~q.game[t] => q \in K
    BY <1>4
  <2>4. \A q \in K, c \in Chairs : Kick(q, t, c) \subseteq K
    BY <1>3
  <2>5. \E q : (q \in K \/ (q \in G[ChairCount] /\ q.game[t])) /\ s = ConcludeTable(q, t)
    <3>1. ThroughChairs(r, t, G, K)
      BY <2>1, <2>2, <2>3, <2>4 DEF ThroughChairs
    <3> QED BY <3>1, ConcludeLoop
  <2> QED BY <1>4, <2>5
<1>6. p \in Good /\ Local(r, p, t) /\ Kept(p, ChairCount)
  BY DEF K, OK
<1>7. /\ s \in Rooms /\ s.seat = p.seat /\ s.lookon = p.lookon /\ s.user = p.user
      /\ s.game = p.game /\ s.draw = p.draw
  BY <1>5, <1>6, ConcludeTableLemma DEF Good
<1>8. s \in Good
  BY <1>6, <1>7, FlagsGood
<1>9. Local(r, s, t)
  BY <1>6, <1>7 DEF Local, SameAt
<1> QED BY <1>6, <1>7, <1>8, <1>9, <1>k

-----------------------------------------------------------------------------
(* Standing up.                                                            *)

\* A looker-on leaves.
LookonLeft(r, t, u) == [r EXCEPT !.lookon[t] = @ \ {u}, !.user[u] = Away("FREE")]

\* A looker-on stands up.
LEMMA LookonLeftLemma ==
  ASSUME config \in Configs, NEW r \in Good, NEW t \in Tables, NEW u \in Users,
         r.user[u].table = t, r.user[u].status = "LOOKON"
  PROVE  LET s == LookonLeft(r, t, u)
         IN /\ s \in Good /\ Local(r, s, t) /\ s.game = r.game /\ s.draw = r.draw
            /\ s.user[u] = Away("FREE") /\ Others(r, s, u)
<1> DEFINE s == LookonLeft(r, t, u)
<1>0. r \in Rooms /\ Agree(r)
  BY DEF Good
<1>1. s = [r EXCEPT !.lookon[t] = @ \ {u}, !.user[u] = Away("FREE")]
  BY DEF LookonLeft
<1>2. Away("FREE") \in Persons /\ Placed(Away("FREE")) /\ Away("FREE").table = NoTable
  BY AwayLemma
<1>3. \A d \in Tables : ~Looks(Away("FREE"), d) /\ \A c \in Chairs : ~Sits(Away("FREE"), d, c)
  BY AwayLemma
<1> HIDE DEF s
<1>4. /\ s.seat = r.seat /\ s.game = r.game /\ s.draw = r.draw /\ s.open = r.open
      /\ s.lookon = [r.lookon EXCEPT ![t] = @ \ {u}]
      /\ s.user = [r.user EXCEPT ![u] = Away("FREE")]
  BY <1>0, <1>1 DEF Rooms
<1>5. s \in Rooms
  BY <1>0, <1>1, <1>2 DEF Rooms
<1>6. s.user[u] = Away("FREE") /\ Others(r, s, u)
  BY <1>0, <1>4 DEF Rooms, Others
<1>7. \A d \in Tables : /\ d # t => u \notin r.lookon[d]
                        /\ \A c \in Chairs : r.seat[d][c] # u
  BY <1>0 DEF Agree, Looks, Sits, Sitting
<1>8. Moved(r, s, u)
  <2>1. ASSUME NEW d \in Tables PROVE s.lookon[d] = r.lookon[d] \ {u}
    <3>1. CASE d = t
      BY <1>0, <1>4, <3>1 DEF Rooms
    <3>2. CASE d # t
      <4>1. s.lookon[d] = r.lookon[d]
        BY <1>0, <1>4, <3>2 DEF Rooms
      <4> QED BY <1>7, <3>2, <4>1
    <3> QED BY <3>1, <3>2
  <2>2. \A d \in Tables :
          s.lookon[d] = IF Looks(s.user[u], d) THEN r.lookon[d] \union {u} ELSE r.lookon[d] \ {u}
    BY <1>3, <1>6, <2>1
  <2>3. \A d \in Tables, c \in Chairs :
          ~Sits(s.user[u], d, c) /\ r.seat[d][c] # u /\ s.seat[d][c] = r.seat[d][c]
    BY <1>3, <1>4, <1>6, <1>7
  <2> QED BY <1>6, <2>2, <2>3 DEF Moved, Others
<1>9. s \in Good
  BY <1>2, <1>5, <1>6, <1>8, MovedGood
<1>10. Local(r, s, t)
  BY <1>2, <1>4, <1>6, TableAssumption DEF Local, SameAt, Others
<1> QED BY <1>4, <1>6, <1>9, <1>10 DEF s

\* The rooms in which the user stands up: the plug-in may have ended the game.
Concluded(r, t, u) ==
  IF ~(r.game[t] /\ r.user[u].status \in {"PLAYING", "OFFLINE"}) THEN {r}
  ELSE UNION {IF ends THEN ConcludeGame(r, t) ELSE {r} : ends \in Ends(r, t, u)}

\* The end of the game inside a stand-up keeps a good room.
LEMMA ConcludedLemma ==
  ASSUME NEW r, NEW t, NEW u, NEW s \in Concluded(r, t, u)
  PROVE  \/ s = r
         \/ /\ s \in ConcludeGame(r, t) /\ r.game[t]
            /\ r.user[u].status \in {"PLAYING", "OFFLINE"}
BY DEF Concluded

\* A stand-up ends in one of two ways.
LEMMA StandUpCases ==
  ASSUME config \in Configs, NEW r \in Good, NEW t \in Tables, NEW u \in Users,
         r.user[u].table = t, NEW s \in PerformStandUpAction(r, t, u)
  PROVE  \/ r.user[u].status = "LOOKON" /\ s = LookonLeft(r, t, u)
         \/ /\ r.user[u].status \in Sitting
            /\ \E p \in Concluded(r, t, u) :
                 IF p.seat[t][r.user[u].chair] = u
                   THEN s \in LeaveSeat(p, t, u, r.user[u].status = "OFFLINE")
                   ELSE s = p
<1>0. r \in Rooms /\ Agree(r)
  BY DEF Good
<1>1. CASE r.user[u].status = "LOOKON"
  <2>1. u \in r.lookon[t]
    BY <1>0, <1>1 DEF Agree, Looks
  <2> QED BY <1>1, <2>1 DEF PerformStandUpAction, LookonLeft
<1>2. CASE r.user[u].status # "LOOKON"
  <2>1. r.user[u].status \in Sitting
    <3>1. Placed(r.user[u]) /\ r.user[u].table # NoTable
      BY <1>0, TableAssumption DEF Agree
    <3>2. r.user[u].status \in {"NULL", "FREE", "LOOKON"} \union Sitting
      BY <1>0, PersonFacts
    <3> QED BY <1>2, <3>1, <3>2 DEF Placed
  <2> QED BY <1>2, <2>1 DEF PerformStandUpAction, Concluded
<1> QED BY <1>1, <1>2

\* PerformStandUpAction keeps a good room and the other tables.
LEMMA StandUpLemma ==
  ASSUME config \in Configs, NEW r \in Good, NEW t \in Tables, NEW u \in Users,
         r.user[u].table = t, NEW s \in PerformStandUpAction(r, t, u)
  PROVE  /\ s \in Good /\ Local(r, s, t)
         /\ r.user[u].status # "PLAYING" => s.user[u].table = NoTable
<1>0. r \in Rooms /\ Agree(r)
  BY DEF Good
<1>1. CASE r.user[u].status = "LOOKON" /\ s = LookonLeft(r, t, u)
  <2>1. s \in Good /\ Local(r, s, t) /\ s.user[u] = Away("FREE")
    BY <1>1, LookonLeftLemma
  <2> QED BY <2>1, AwayLemma
<1>2. CASE /\ r.user[u].status \in Sitting
           /\ \E p \in Concluded(r, t, u) :
                IF p.seat[t][r.user[u].chair] = u
                  THEN s \in LeaveSeat(p, t, u, r.user[u].status = "OFFLINE")
                  ELSE s = p
  <2>1. PICK p : /\ p \in Concluded(r, t, u)
                 /\ IF p.seat[t][r.user[u].chair] = u
                      THEN s \in LeaveSeat(p, t, u, r.user[u].status = "OFFLINE")
                      ELSE s = p
    BY <1>2
  <2>2. r.user[u].chair \in Chairs
    BY <1>0, <1>2 DEF Agree, Placed
  <2>3. /\ p \in Good /\ Local(r, p, t)
        /\ p # r /\ r.user[u].status # "PLAYING" => p.user[u] = Away("NULL")
    <3>1. CASE p = r
      BY <3>1 DEF Local, SameAt
    <3>2. CASE p \in ConcludeGame(r, t) /\ r.user[u].status \in {"PLAYING", "OFFLINE"}
      <4>1. p \in Good /\ Local(r, p, t)
        BY <3>2, ConcludeLemma
      <4>2. r.user[u].status = "OFFLINE" => p.user[u] = Away("NULL")
        BY <3>2, ConcludeLemma
      <4> QED BY <3>2, <4>1, <4>2
    <3> QED BY <2>1, <3>1, <3>2, ConcludedLemma
  <2>4. CASE p.seat[t][r.user[u].chair] = u
    <3>1. PICK gone \in BOOLEAN : gone = (r.user[u].status = "OFFLINE")
      OBVIOUS
    <3>2. s \in LeaveSeat(p, t, u, gone)
      BY <2>1, <2>4, <3>1
    <3>3. p.user[u].table = t /\ p.user[u].status \in Sitting
      <4>1. Agree(p)
        BY <2>3 DEF Good
      <4> QED BY <2>2, <2>4, <4>1 DEF Agree, Sits
    <3>4. s \in Good /\ s.user[u] = Away(GoneTo(gone)) /\ Local(p, s, t)
      BY <2>3, <3>2, <3>3, LeaveLemma, LeaveLocal
    <3>5. Local(r, s, t)
      BY <2>3, <3>4, LocalTrans
    <3>6. GoneTo(gone) \in {"NULL", "FREE"}
      BY DEF GoneTo
    <3>7. s.user[u].table = NoTable
      BY <3>4, <3>6, AwayLemma
    <3> QED BY <3>4, <3>5, <3>7
  <2>5. CASE p.seat[t][r.user[u].chair] # u
    <3>1. s = p
      BY <2>1, <2>5
    <3>2. p # r
      BY <1>0, <1>2, <2>2, <2>5 DEF Agree, Sits
    <3> QED BY <2>3, <3>1, <3>2, AwayLemma
  <2> QED BY <2>4, <2>5
<1> QED BY <1>1, <1>2, StandUpCases

\* What the requests do first: the user is at no table then.
LEMMA StandUpFromLemma ==
  ASSUME config \in Configs, NEW r \in Good, NEW t, NEW u \in Users,
         r.user[u].table \in {t, NoTable}, r.user[u].status # "PLAYING",
         NEW s \in StandUpFrom(r, t, u)
  PROVE  s \in Good /\ s.user[u].table = NoTable
<1>1. CASE r.user[u].table = NoTable
  BY <1>1 DEF StandUpFrom
<1>2. CASE r.user[u].table # NoTable
  <2>1. t \in Tables /\ r.user[u].table = t
    BY <1>2, PersonFacts DEF Good
  <2>2. s \in PerformStandUpAction(r, t, u)
    BY <1>2 DEF StandUpFrom
  <2> QED BY <2>1, <2>2, StandUpLemma
<1> QED BY <1>1, <1>2

-----------------------------------------------------------------------------
(* The seats.                                                              *)

\* The inductive invariant.
SeatInv == config \in Configs /\ Room \in Good

\* An action makes the room one of those its operation leads to.
LEMMA BecomesLemma ==
  ASSUME NEW S, Becomes(S), S \subseteq Rooms
  PROVE  config' = config /\ Room' \in S
<1>1. PICK r \in S : /\ seat' = r.seat /\ lookon' = r.lookon /\ user' = r.user
                     /\ game' = r.game /\ draw' = r.draw /\ open' = r.open
                     /\ UNCHANGED config
  BY DEF Becomes
<1>2. r = [seat |-> r.seat, lookon |-> r.lookon, user |-> r.user,
           game |-> r.game, draw |-> r.draw, open |-> r.open]
  BY DEF Rooms
<1>3. Room' = [seat |-> seat', lookon |-> lookon', user |-> user',
               game |-> game', draw |-> draw', open |-> open']
  BY DEF Room
<1>4. Room' = r
  BY <1>1, <1>2, <1>3
<1> QED BY <1>1, <1>4

\* The good rooms are those of the game, which never changes.
LEMMA SameGood ==
  ASSUME config' = config
  PROVE  Good' = Good
<1>1. Chairs' = Chairs
  BY DEF Chairs, ChairCount
<1>2. Rooms' = Rooms
  BY <1>1 DEF Rooms, Persons
<1>3. \A r : Agree(r)' <=> Agree(r)
  BY <1>1 DEF Agree, Placed
<1> QED BY <1>2, <1>3 DEF Good

-----------------------------------------------------------------------------
(* The actions are made of few operations on rooms.  A set of rooms that   *)
(* is closed under these is never left.                                    *)

LeaveTable(X) ==
  \A r \in X, u \in Users :
    r.user[u].table \in Tables => PerformStandUpAction(r, r.user[u].table, u) \subseteq X
TakeSeat(X) ==
  \A r \in X, t \in Tables, c \in Chairs, u \in Users :
    r.user[u].table = NoTable /\ CanSit(r, t, c) => PerformSitDownAction(r, t, c, u) \in X
LookOn(X) ==
  \A r \in X, t \in Tables, c \in Chairs \union {NoChair}, u \in Users :
    r.user[u].table = NoTable => PerformLookonAction(r, t, c, u) \in X
EndGame(X) == \A r \in X, t \in Tables : r.game[t] => ConcludeGame(r, t) \subseteq X
StartByClock(X) ==
  \A r \in X, t \in Tables :
    config.mode = "TIME_CONTROL" /\ ~r.draw[t] => StartGame(r, t) \in X
CloseTable(X) == \A r \in X, t \in Tables : [r EXCEPT !.open[t] = FALSE] \in X

ComeAndGo(X) ==
  \A r \in X, u \in Users :
    /\ \A x \in {"NULL", "FREE"} :
         r.user[u].table = NoTable => [r EXCEPT !.user[u] = Away(x)] \in X
    /\ r.user[u].status = "OFFLINE" => [r EXCEPT !.user[u].status = "PLAYING"] \in X
    /\ r.user[u].status = "PLAYING"
         => [r EXCEPT !.user[u] = [@ EXCEPT !.status = "OFFLINE", !.ready = FALSE]] \in X

\* The rooms of GameOption and UserReady.
Loaded(r, u) ==
  LET told == [r EXCEPT !.user[u].ready = TRUE]
      t == r.user[u].table
  IN IF r.user[u].status = "READY" /\ EfficacyStartGame(told, t, r.user[u].chair)
       THEN StartGame(told, t) ELSE told
Readied(r, u) ==
  LET t == r.user[u].table
  IN IF EfficacyStartGame(r, t, r.user[u].chair) THEN StartGame(r, t)
     ELSE [r EXCEPT !.user[u].status = "READY"]
GetReady(X) ==
  \A r \in X, u \in Users :
    /\ r.user[u].table \in Tables => Loaded(r, u) \in X
    /\ r.user[u].status = "SIT" => Readied(r, u) \in X

Closed(X) ==
  /\ X \subseteq Good
  /\ LeaveTable(X) /\ TakeSeat(X) /\ LookOn(X) /\ EndGame(X)
  /\ StartByClock(X) /\ CloseTable(X) /\ ComeAndGo(X) /\ GetReady(X)

\* The members of the room are the variables.
LEMMA RoomFields ==
  /\ Room.seat = seat /\ Room.lookon = lookon /\ Room.user = user
  /\ Room.game = game /\ Room.draw = draw /\ Room.open = open
BY DEF Room

\* Who asks for another place has stood up first.
LEMMA UpLemma ==
  ASSUME config \in Configs, NEW X, Closed(X), Room \in X, NEW u \in Users, NEW t,
         user[u].table \in {t, NoTable}, user[u].status # "PLAYING",
         NEW up \in StandUpFrom(Room, t, u)
  PROVE  up \in X /\ up.user[u].table = NoTable
<1>0. Room \in Good /\ Room.user = user
  BY RoomFields DEF Closed
<1>1. up.user[u].table = NoTable
  BY <1>0, StandUpFromLemma
<1>2. CASE user[u].table = NoTable
  BY <1>0, <1>1, <1>2 DEF StandUpFrom
<1>3. CASE user[u].table # NoTable
  <2>1. t \in Tables /\ user[u].table = t
    BY <1>0, <1>3, PersonFacts DEF Good
  <2>2. up \in PerformStandUpAction(Room, t, u)
    BY <1>0, <1>3 DEF StandUpFrom
  <2> QED BY <1>0, <1>1, <2>1, <2>2 DEF Closed, LeaveTable
<1> QED BY <1>2, <1>3

\* An operation that stays in X makes an action that does.
LEMMA BecomesIn ==
  ASSUME NEW X, Closed(X), NEW S, Becomes(S), S \subseteq X
  PROVE  config' = config /\ Room' \in X
<1>1. S \subseteq Rooms
  BY DEF Closed, Good
<1> QED BY <1>1, BecomesLemma

\* What is known of a user in the room.
LEMMA UserFacts ==
  ASSUME config \in Configs, NEW X, Closed(X), Room \in X, NEW u \in Users
  PROVE  /\ Room \in Rooms /\ Room \in Good /\ Placed(user[u])
         /\ user[u].table \in Tables \union {NoTable} /\ user[u].chair \in Chairs \union {NoChair}
         /\ user[u].status \in {"NULL", "FREE", "LOOKON"} \union Sitting
<1>1. Room \in Good /\ Room.user = user
  BY RoomFields DEF Closed
<1>2. Room \in Rooms /\ Agree(Room)
  BY <1>1 DEF Good
<1>3. Placed(user[u])
  BY <1>1, <1>2 DEF Agree
<1> QED BY <1>1, <1>2, <1>3, PersonFacts

\* The requests, one by one: OnEventUserLogon.
LEMMA LogonStep ==
  ASSUME config \in Configs, NEW X, Closed(X), Room \in X, NEW u \in Users, OnEventUserLogon(u)
  PROVE  config' = config /\ Room' \in X
<1> DEFINE S == {IF user[u].status = "NULL" THEN [Room EXCEPT !.user[u] = Away("FREE")]
                 ELSE [Room EXCEPT !.user[u].status = "PLAYING"]}
<1>1. Becomes(S) /\ user[u].status \in {"NULL", "OFFLINE"}
  BY DEF OnEventUserLogon, Online
<1>2. Placed(user[u]) /\ Room.user = user
  BY UserFacts, RoomFields
<1>3. CASE user[u].status = "NULL"
  <2>1. [Room EXCEPT !.user[u] = Away("FREE")] \in X
    BY <1>2, <1>3 DEF Closed, ComeAndGo, Placed
  <2>2. S \subseteq X
    BY <1>3, <2>1
  <2> QED BY <1>1, <2>2, BecomesIn
<1>4. CASE user[u].status = "OFFLINE"
  <2>1. [Room EXCEPT !.user[u].status = "PLAYING"] \in X
    BY <1>2, <1>4 DEF Closed, ComeAndGo
  <2>2. S \subseteq X
    BY <1>4, <2>1
  <2> QED BY <1>1, <2>2, BecomesIn
<1> QED BY <1>1, <1>3, <1>4

\* OnTCPNetworkSubUserSitDown, for a user who stands or asks for a chair here.
LEMMA SitDownStep ==
  ASSUME config \in Configs, ~Moves, NEW X, Closed(X), Room \in X, NEW u \in Users,
         NEW t \in Tables, NEW c \in Chairs, NEW fits, OnTCPNetworkSubUserSitDown(u, t, c, fits)
  PROVE  config' = config /\ Room' \in X
<1> DEFINE me == user[u]
           sat(up) == IF fits /\ CanSit(up, t, c) THEN PerformSitDownAction(up, t, c, u)
                      ELSE IF me.status = "LOOKON" /\ me.chair # NoChair
                        THEN PerformLookonAction(up, me.table, me.chair, u)
                      ELSE up
           S == {sat(up) : up \in StandUpFrom(Room, t, u)}
<1>1. Becomes(S) /\ user[u].status # "PLAYING" /\ user[u].table \in {t, NoTable}
  BY DEF OnTCPNetworkSubUserSitDown
<1>2. Placed(user[u]) /\ user[u].chair \in Chairs \union {NoChair}
  BY UserFacts
<1>3. ASSUME NEW up \in StandUpFrom(Room, t, u) PROVE sat(up) \in X
  <2>1. up \in X /\ up.user[u].table = NoTable
    BY <1>1, UpLemma
  <2>2. CanSit(up, t, c) => PerformSitDownAction(up, t, c, u) \in X
    BY <2>1 DEF Closed, TakeSeat
  <2>3. me.status = "LOOKON" => PerformLookonAction(up, me.table, me.chair, u) \in X
    <3> SUFFICES ASSUME me.status = "LOOKON" PROVE PerformLookonAction(up, me.table, me.chair, u) \in X
      OBVIOUS
    <3>1. me.table = t
      BY <1>1, <1>2 DEF Placed
    <3> QED BY <1>2, <2>1, <3>1 DEF Closed, LookOn
  <2> QED BY <2>1, <2>2, <2>3
<1>4. S \subseteq X
  BY <1>3
<1> QED BY <1>1, <1>4, BecomesIn

\* UserImmediately, for a user who is at no table.
LEMMA ImmediatelyStep ==
  ASSUME config \in Configs, ~Moves, NEW X, Closed(X), Room \in X, NEW u \in Users,
         NEW fits, UserImmediately(u, fits)
  PROVE  config' = config /\ Room' \in X
<1> DEFINE free == {s \in Tables \X Chairs : CanSit(Room, s[1], s[2])}
           social == {s \in free : Taken(Room, s[1]) # {}}
           S == IF fits /\ free # {}
                  THEN {PerformSitDownAction(Room, s[1], s[2], u) :
                          s \in IF social # {} THEN social ELSE free}
                  ELSE {PerformLookonAction(Room, t, c, u) : t \in Tables, c \in Chairs}
<1>1. Becomes(S) /\ user[u].table = NoTable
  BY DEF UserImmediately, AtTable
<1>2. Room.user[u].table = NoTable
  BY <1>1, RoomFields
<1>3. ASSUME NEW s \in free PROVE PerformSitDownAction(Room, s[1], s[2], u) \in X
  <2>1. s[1] \in Tables /\ s[2] \in Chairs /\ CanSit(Room, s[1], s[2])
    OBVIOUS
  <2> QED BY <1>2, <2>1 DEF Closed, TakeSeat
<1>4. ASSUME NEW t \in Tables, NEW c \in Chairs PROVE PerformLookonAction(Room, t, c, u) \in X
  BY <1>2 DEF Closed, LookOn
<1>5. S \subseteq X
  <2> DEFINE pool == IF social # {} THEN social ELSE free
  <2>1. pool \subseteq free
    OBVIOUS
  <2>2. CASE fits /\ free # {}
    <3>1. S = {PerformSitDownAction(Room, s[1], s[2], u) : s \in pool}
      BY <2>2
    <3> HIDE DEF free, social, S, pool
    <3> QED BY <1>3, <2>1, <3>1
  <2>3. CASE ~(fits /\ free # {})
    <3>1. S = {PerformLookonAction(Room, t, c, u) : t \in Tables, c \in Chairs}
      BY <2>3
    <3> HIDE DEF S
    <3>2. ASSUME NEW s \in S PROVE s \in X
      <4>1. PICK t \in Tables, c \in Chairs : s = PerformLookonAction(Room, t, c, u)
        BY <3>1
      <4> QED BY <1>4, <4>1
    <3> QED BY <3>2
  <2> HIDE DEF S, free
  <2> QED BY <2>2, <2>3
<1> HIDE DEF S
<1> QED BY <1>1, <1>5, BecomesIn

\* OnTCPNetworkSubUserChairReq.
LEMMA ChairReqStep ==
  ASSUME config \in Configs, NEW X, Closed(X), Room \in X, NEW u \in Users,
         NEW fits, OnTCPNetworkSubUserChairReq(u, fits)
  PROVE  config' = config /\ Room' \in X
<1> DEFINE mine == user[u].table
           sat(up, s) == IF fits /\ CanSit(up, s[1], s[2])
                           THEN PerformSitDownAction(up, s[1], s[2], u) ELSE up
           S(s) == {sat(up, s) : up \in StandUpFrom(Room, mine, u)}
<1>0. mine \in Tables \union {NoTable}
  BY UserFacts
<1>1. user[u].status # "PLAYING"
  BY DEF OnTCPNetworkSubUserChairReq
<1>2. PICK s \in Tables \X Chairs : Becomes(S(s))
  BY <1>0 DEF OnTCPNetworkSubUserChairReq
<1>3. s[1] \in Tables /\ s[2] \in Chairs
  OBVIOUS
<1>4. ASSUME NEW up \in StandUpFrom(Room, mine, u) PROVE sat(up, s) \in X
  <2>1. up \in X /\ up.user[u].table = NoTable
    BY <1>1, UpLemma
  <2>2. CanSit(up, s[1], s[2]) => PerformSitDownAction(up, s[1], s[2], u) \in X
    BY <1>3, <2>1 DEF Closed, TakeSeat
  <2> QED BY <2>1, <2>2
<1>5. S(s) \subseteq X
  BY <1>4
<1> QED BY <1>2, <1>5, BecomesIn

\* OnTCPNetworkSubUserStandUp.
LEMMA StandUpStep ==
  ASSUME config \in Configs, NEW X, Closed(X), Room \in X, NEW u \in Users,
         OnTCPNetworkSubUserStandUp(u)
  PROVE  config' = config /\ Room' \in X
<1>1. user[u].table \in Tables
  BY UserFacts DEF OnTCPNetworkSubUserStandUp, AtTable
<1>2. PerformStandUpAction(Room, user[u].table, u) \subseteq X
  BY <1>1, RoomFields DEF Closed, LeaveTable
<1>3. Becomes(PerformStandUpAction(Room, user[u].table, u))
  BY DEF OnTCPNetworkSubUserStandUp
<1> QED BY <1>2, <1>3, BecomesIn

\* OnTCPNetworkSubUserLookon.
LEMMA LookonStep ==
  ASSUME config \in Configs, NEW X, Closed(X), Room \in X, NEW u \in Users, NEW t \in Tables,
         OnTCPNetworkSubUserLookon(u, t)
  PROVE  config' = config /\ Room' \in X
<1> DEFINE me == user[u]
           S == {PerformLookonAction(up, t, me.chair, u) : up \in StandUpFrom(Room, me.table, u)}
<1>1. Becomes(S) /\ user[u].status # "PLAYING"
  BY DEF OnTCPNetworkSubUserLookon
<1>2. me.chair \in Chairs \union {NoChair}
  BY UserFacts
<1>3. ASSUME NEW up \in StandUpFrom(Room, me.table, u)
      PROVE  PerformLookonAction(up, t, me.chair, u) \in X
  <2>1. up \in X /\ up.user[u].table = NoTable
    BY <1>1, UpLemma
  <2> QED BY <1>2, <2>1 DEF Closed, LookOn
<1>4. S \subseteq X
  BY <1>3
<1> QED BY <1>1, <1>4, BecomesIn

\* A stand-up by others, after which the user may be deleted.
LEMMA RemovedLemma ==
  ASSUME config \in Configs, NEW X, Closed(X), Room \in X, NEW u \in Users,
         user[u].status # "PLAYING", NEW up \in StandUpFrom(Room, user[u].table, u)
  PROVE  up \in X /\ [up EXCEPT !.user[u] = Away("NULL")] \in X
<1>1. up \in X /\ up.user[u].table = NoTable
  BY UpLemma
<1> QED BY <1>1 DEF Closed, ComeAndGo

\* KickUser.
LEMMA KickStep ==
  ASSUME config \in Configs, NEW X, Closed(X), Room \in X, NEW u \in Users, NEW manager,
         KickUser(u, manager)
  PROVE  config' = config /\ Room' \in X
<1> DEFINE S == {IF manager THEN [up EXCEPT !.user[u] = Away("NULL")] ELSE up :
                   up \in StandUpFrom(Room, user[u].table, u)}
<1>1. Becomes(S) /\ user[u].status # "PLAYING"
  BY DEF KickUser
<1>2. ASSUME NEW up \in StandUpFrom(Room, user[u].table, u)
      PROVE  up \in X /\ [up EXCEPT !.user[u] = Away("NULL")] \in X
  BY <1>1, RemovedLemma
<1>3. S \subseteq X
  BY <1>2
<1> QED BY <1>1, <1>3, BecomesIn

\* GameOption and UserReady.
LEMMA ReadyStep ==
  ASSUME config \in Configs, NEW X, Closed(X), Room \in X, NEW u \in Users,
         GameOption(u) \/ UserReady(u)
  PROVE  config' = config /\ Room' \in X
<1>0. Room.user = user
  BY RoomFields
<1>1. CASE GameOption(u)
  <2>1. user[u].table \in Tables
    BY <1>1, UserFacts DEF GameOption, AtTable
  <2>2. Becomes({Loaded(Room, u)})
    BY <1>0, <1>1 DEF GameOption, Loaded
  <2>3. {Loaded(Room, u)} \subseteq X
    BY <1>0, <2>1 DEF Closed, GetReady
  <2> QED BY <2>2, <2>3, BecomesIn
<1>2. CASE UserReady(u)
  <2>1. user[u].status = "SIT"
    BY <1>2 DEF UserReady
  <2>2. Becomes({Readied(Room, u)})
    BY <1>0, <1>2 DEF UserReady, Readied
  <2>3. {Readied(Room, u)} \subseteq X
    BY <1>0, <2>1 DEF Closed, GetReady
  <2> QED BY <2>2, <2>3, BecomesIn
<1> QED BY <1>1, <1>2

\* OnEventUserOffLine.
LEMMA OffLineStep ==
  ASSUME config \in Configs, NEW X, Closed(X), Room \in X, NEW u \in Users,
         OnEventUserOffLine(u)
  PROVE  config' = config /\ Room' \in X
<1> DEFINE off == [Room EXCEPT !.user[u] = [@ EXCEPT !.status = "OFFLINE", !.ready = FALSE]]
           S == {[up EXCEPT !.user[u] = Away("NULL")] : up \in StandUpFrom(Room, user[u].table, u)}
<1>1. CASE user[u].status = "PLAYING"
  <2>1. Becomes({off})
    BY <1>1 DEF OnEventUserOffLine
  <2>2. off \in X
    BY <1>1, RoomFields DEF Closed, ComeAndGo
  <2> HIDE DEF off
  <2>3. {off} \subseteq X
    BY <2>2
  <2> QED BY <2>1, <2>3, BecomesIn
<1>2. CASE user[u].status # "PLAYING"
  <2>1. Becomes(S)
    BY <1>2 DEF OnEventUserOffLine
  <2>2. S \subseteq X
    BY <1>2, RemovedLemma
  <2> QED BY <2>1, <2>2, BecomesIn
<1> QED BY <1>1, <1>2

\* GameEnds, ClockStarts and DismissGame.
LEMMA TableSteps ==
  ASSUME config \in Configs, NEW X, Closed(X), Room \in X, NEW t \in Tables, TableStep(t)
  PROVE  config' = config /\ Room' \in X
<1>0. Room.game = game /\ Room.draw = draw
  BY RoomFields
<1>c. game[t] => ConcludeGame(Room, t) \subseteq X
  BY <1>0 DEF Closed, EndGame
<1>1. CASE GameEnds(t)
  <2>1. Becomes(ConcludeGame(Room, t)) /\ game[t]
    BY <1>1 DEF GameEnds
  <2> QED BY <1>c, <2>1, BecomesIn
<1>2. CASE ClockStarts(t)
  <2>1. Becomes({StartGame(Room, t)}) /\ config.mode = "TIME_CONTROL" /\ ~draw[t]
    BY <1>2 DEF ClockStarts
  <2>2. {StartGame(Room, t)} \subseteq X
    BY <1>0, <2>1 DEF Closed, StartByClock
  <2> QED BY <2>1, <2>2, BecomesIn
<1>3. CASE DismissGame(t)
  <2> DEFINE shut(over) == IF ~over.game[t] THEN [over EXCEPT !.open[t] = FALSE] ELSE over
             S == {shut(over) : over \in ConcludeGame(Room, t)}
  <2>1. Becomes(S) /\ game[t]
    BY <1>3 DEF DismissGame
  <2>2. ASSUME NEW over \in ConcludeGame(Room, t) PROVE shut(over) \in X
    <3>1. over \in X
      BY <1>c, <2>1
    <3>2. [over EXCEPT !.open[t] = FALSE] \in X
      BY <3>1 DEF Closed, CloseTable
    <3> QED BY <3>1, <3>2
  <2>3. S \subseteq X
    BY <2>2
  <2> QED BY <2>1, <2>3, BecomesIn
<1> QED BY <1>1, <1>2, <1>3 DEF TableStep

\* Whatever happens, the room stays in a closed set.
LEMMA NextStays ==
  ASSUME config \in Configs, ~Moves, NEW X, Closed(X), Room \in X, Next
  PROVE  config' = config /\ Room' \in X
<1>1. ASSUME NEW u \in Users, UserStep(u) PROVE config' = config /\ Room' \in X
  <2>1. CASE OnEventUserLogon(u)
    BY <2>1, LogonStep
  <2>2. CASE OnEventUserOffLine(u)
    BY <2>2, OffLineStep
  <2>3. CASE GameOption(u) \/ UserReady(u)
    BY <2>3, ReadyStep
  <2>4. CASE OnTCPNetworkSubUserStandUp(u)
    BY <2>4, StandUpStep
  <2>5. ASSUME NEW fits \in BOOLEAN, UserImmediately(u, fits)
        PROVE  config' = config /\ Room' \in X
    BY <2>5, ImmediatelyStep
  <2>6. ASSUME NEW fits \in BOOLEAN, OnTCPNetworkSubUserChairReq(u, fits)
        PROVE  config' = config /\ Room' \in X
    BY <2>6, ChairReqStep
  <2>7. ASSUME NEW fits \in BOOLEAN, NEW t \in Tables, NEW c \in Chairs,
               OnTCPNetworkSubUserSitDown(u, t, c, fits)
        PROVE  config' = config /\ Room' \in X
    BY <2>7, SitDownStep
  <2>8. ASSUME NEW t \in Tables, OnTCPNetworkSubUserLookon(u, t)
        PROVE  config' = config /\ Room' \in X
    BY <2>8, LookonStep
  <2>9. ASSUME NEW manager \in BOOLEAN, KickUser(u, manager)
        PROVE  config' = config /\ Room' \in X
    BY <2>9, KickStep
  <2> QED BY <1>1, <2>1, <2>2, <2>3, <2>4, <2>5, <2>6, <2>7, <2>8, <2>9 DEF UserStep
<1>2. ASSUME NEW t \in Tables, TableStep(t) PROVE config' = config /\ Room' \in X
  BY <1>2, TableSteps
<1> QED BY <1>1, <1>2 DEF Next

-----------------------------------------------------------------------------
(* The rooms with right seats are closed.                                  *)

\* One user's record changes and the place does not.
Restated(r, u, m) == [r EXCEPT !.user[u] = m]

\* A new record of a user who stays in place keeps a good room.
LEMMA RestatedLemma ==
  ASSUME config \in Configs, NEW r \in Good, NEW u \in Users, NEW m \in Persons,
         m.table = r.user[u].table, m.chair = r.user[u].chair,
         \/ m.status \in Sitting /\ r.user[u].status \in Sitting
         \/ m.status = r.user[u].status
  PROVE  LET s == Restated(r, u, m)
         IN /\ s \in Good /\ s.seat = r.seat /\ s.game = r.game /\ s.draw = r.draw
            /\ s.user[u] = m /\ Others(r, s, u)
            /\ \A t \in Tables : r.user[u].table \in {t, NoTable} => Local(r, s, t)
<1> DEFINE s == Restated(r, u, m)
<1>0. r \in Rooms /\ Agree(r)
  BY DEF Good
<1>1. /\ s \in Rooms /\ s.seat = r.seat /\ s.lookon = r.lookon /\ s.game = r.game
      /\ s.draw = r.draw /\ s.user = [r.user EXCEPT ![u] = m]
  BY <1>0 DEF Rooms, Restated
<1> HIDE DEF s
<1>2. s.user[u] = m /\ Others(r, s, u)
  BY <1>0, <1>1 DEF Rooms, Others
<1>3. ASSUME NEW v \in Users PROVE Placed(s.user[v])
  <2>1. Placed(r.user[v])
    BY <1>0 DEF Agree
  <2> QED BY <1>2, <2>1 DEF Placed, Others, Sitting
<1>4. ASSUME NEW t \in Tables, NEW c \in Chairs, NEW v \in Users
      PROVE  s.seat[t][c] = v <=> Sits(s.user[v], t, c)
  <2>1. r.seat[t][c] = v <=> Sits(r.user[v], t, c)
    BY <1>0 DEF Agree
  <2>2. Sits(r.user[v], t, c) <=> Sits(s.user[v], t, c)
    BY <1>2 DEF Sits, Others
  <2> QED BY <1>1, <2>1, <2>2
<1>5. ASSUME NEW t \in Tables, NEW v \in Users
      PROVE  v \in s.lookon[t] <=> Looks(s.user[v], t)
  <2>1. v \in r.lookon[t] <=> Looks(r.user[v], t)
    BY <1>0 DEF Agree
  <2>2. Looks(r.user[v], t) <=> Looks(s.user[v], t)
    BY <1>2 DEF Looks, Others, Sitting
  <2> QED BY <1>1, <2>1, <2>2
<1>6. s \in Good
  BY <1>1, <1>3, <1>4, <1>5 DEF Agree, Good
<1>7. ASSUME NEW t \in Tables, r.user[u].table \in {t, NoTable} PROVE Local(r, s, t)
  BY <1>1, <1>2, <1>7, TableAssumption DEF Local, SameAt, Others
<1> QED BY <1>1, <1>2, <1>6, <1>7 DEF s

\* The records that the requests write.
LEMMA RestatedForms ==
  ASSUME config \in Configs, NEW r \in Good, NEW u \in Users
  PROVE  /\ r.user[u] \in Persons
         /\ \A x \in Sitting :
              /\ [r.user[u] EXCEPT !.status = x] \in Persons
              /\ [r EXCEPT !.user[u].status = x] = Restated(r, u, [r.user[u] EXCEPT !.status = x])
         /\ [r.user[u] EXCEPT !.ready = TRUE] \in Persons
         /\ [r EXCEPT !.user[u].ready = TRUE] = Restated(r, u, [r.user[u] EXCEPT !.ready = TRUE])
         /\ [r.user[u] EXCEPT !.status = "OFFLINE", !.ready = FALSE] \in Persons
         /\ [r EXCEPT !.user[u] = [@ EXCEPT !.status = "OFFLINE", !.ready = FALSE]]
              = Restated(r, u, [r.user[u] EXCEPT !.status = "OFFLINE", !.ready = FALSE])
<1>1. r.user[u] \in Persons
  BY PersonFacts DEF Good
<1>2. ASSUME NEW x \in Sitting PROVE [r.user[u] EXCEPT !.status = x] \in Persons
  BY <1>1 DEF Persons
<1>3. ASSUME NEW x \in Sitting
      PROVE  [r EXCEPT !.user[u].status = x] = Restated(r, u, [r.user[u] EXCEPT !.status = x])
  BY DEF Restated
<1>4. [r.user[u] EXCEPT !.ready = TRUE] \in Persons
  BY <1>1 DEF Persons
<1>5. [r EXCEPT !.user[u].ready = TRUE] = Restated(r, u, [r.user[u] EXCEPT !.ready = TRUE])
  BY DEF Restated
<1>6. [r.user[u] EXCEPT !.status = "OFFLINE", !.ready = FALSE] \in Persons
  BY <1>1 DEF Persons, Sitting
<1>7. [r EXCEPT !.user[u] = [@ EXCEPT !.status = "OFFLINE", !.ready = FALSE]]
        = Restated(r, u, [r.user[u] EXCEPT !.status = "OFFLINE", !.ready = FALSE])
  BY DEF Restated
<1> QED BY <1>1, <1>2, <1>3, <1>4, <1>5, <1>6, <1>7

\* A user at no table enters or leaves the room.
LEMMA EnterLemma ==
  ASSUME config \in Configs, NEW r \in Good, NEW u \in Users, r.user[u].table = NoTable,
         NEW x \in {"NULL", "FREE"}
  PROVE  LET s == [r EXCEPT !.user[u] = Away(x)]
         IN /\ s \in Good /\ s.game = r.game /\ s.draw = r.draw
            /\ s.user[u] = Away(x) /\ Others(r, s, u)
<1> DEFINE s == [r EXCEPT !.user[u] = Away(x)]
<1>0. r \in Rooms /\ Agree(r)
  BY DEF Good
<1>1. /\ s.seat = r.seat /\ s.lookon = r.lookon /\ s.game = r.game
      /\ s.draw = r.draw /\ s.user = [r.user EXCEPT ![u] = Away(x)]
  BY <1>0 DEF Rooms
<1>2. s \in Rooms
  BY <1>0, AwayLemma DEF Rooms
<1> HIDE DEF s
<1>3. s.user[u] = Away(x) /\ Others(r, s, u)
  BY <1>0, <1>1 DEF Rooms, Others
<1>4. \A d \in Tables : u \notin r.lookon[d] /\ \A e \in Chairs : r.seat[d][e] # u
  BY <1>0, TableAssumption DEF Agree, Looks, Sits
<1>5. Placed(Away(x)) /\ \A d \in Tables : ~Looks(Away(x), d) /\ \A c \in Chairs : ~Sits(Away(x), d, c)
  BY AwayLemma
<1>6. Moved(r, s, u)
  <2>1. \A d \in Tables :
          s.lookon[d] = IF Looks(s.user[u], d) THEN r.lookon[d] \union {u} ELSE r.lookon[d] \ {u}
    <3>1. \A d \in Tables : r.lookon[d] = r.lookon[d] \ {u}
      BY <1>4
    <3> QED BY <1>1, <1>3, <1>5, <3>1
  <2>2. \A d \in Tables, c \in Chairs :
          ~Sits(s.user[u], d, c) /\ r.seat[d][c] # u /\ s.seat[d][c] = r.seat[d][c]
    BY <1>1, <1>3, <1>4, <1>5
  <2> QED BY <1>3, <2>1, <2>2 DEF Moved, Others
<1>7. s \in Good
  BY <1>2, <1>3, <1>5, <1>6, MovedGood
<1> QED BY <1>1, <1>3, <1>7 DEF s

\* GameOption and UserReady without the start of a game.
LEMMA ReadyGood ==
  ASSUME config \in Configs, NEW r \in Good, NEW u \in Users, r.user[u].table \in Tables
  PROVE  /\ [r EXCEPT !.user[u].ready = TRUE] \in Good
         /\ r.user[u].status \in Sitting => [r EXCEPT !.user[u].status = "READY"] \in Good
<1>1. r.user[u] \in Persons
  BY RestatedForms
<1> DEFINE m == [r.user[u] EXCEPT !.ready = TRUE]
           n == [r.user[u] EXCEPT !.status = "READY"]
<1>2. m \in Persons /\ m.table = r.user[u].table /\ m.chair = r.user[u].chair
      /\ m.status = r.user[u].status
  BY <1>1 DEF Persons
<1>3. n \in Persons /\ n.table = r.user[u].table /\ n.chair = r.user[u].chair
      /\ n.status = "READY" /\ n.status \in Sitting
  BY <1>1 DEF Persons, Sitting
<1>4. [r EXCEPT !.user[u].ready = TRUE] = Restated(r, u, m)
  BY DEF Restated
<1>5. [r EXCEPT !.user[u].status = "READY"] = Restated(r, u, n)
  BY DEF Restated
<1> HIDE DEF m, n
<1>6. Restated(r, u, m) \in Good
  BY <1>2, RestatedLemma
<1>7. r.user[u].status \in Sitting => Restated(r, u, n) \in Good
  BY <1>3, RestatedLemma
<1> QED BY <1>4, <1>5, <1>6, <1>7

\* Seats and users agree whatever happens.
LEMMA GoodClosed ==
  ASSUME config \in Configs
  PROVE  Closed(Good)
<1>1. LeaveTable(Good)
  BY StandUpLemma DEF LeaveTable
<1>2. TakeSeat(Good)
  BY SitDownLemma DEF TakeSeat, CanSit
<1>3. LookOn(Good)
  BY LookonLemma DEF LookOn
<1>4. EndGame(Good)
  BY ConcludeLemma DEF EndGame
<1>5. StartByClock(Good)
  BY StartLemma DEF StartByClock
<1>6. CloseTable(Good)
  <2> SUFFICES ASSUME NEW r \in Good, NEW t \in Tables PROVE [r EXCEPT !.open[t] = FALSE] \in Good
    BY DEF CloseTable
  <2> DEFINE s == [r EXCEPT !.open[t] = FALSE]
  <2>1. s \in Rooms /\ s.seat = r.seat /\ s.lookon = r.lookon /\ s.user = r.user
    BY DEF Good, Rooms
  <2> HIDE DEF s
  <2>2. s \in Good
    BY <2>1, FlagsGood
  <2> QED BY <2>2 DEF s
<1>7. ComeAndGo(Good)
  <2> SUFFICES ASSUME NEW r \in Good, NEW u \in Users
               PROVE  /\ \A x \in {"NULL", "FREE"} :
                           r.user[u].table = NoTable => [r EXCEPT !.user[u] = Away(x)] \in Good
                      /\ r.user[u].status = "OFFLINE" => [r EXCEPT !.user[u].status = "PLAYING"] \in Good
                      /\ r.user[u].status = "PLAYING"
                           => [r EXCEPT !.user[u] = [@ EXCEPT !.status = "OFFLINE", !.ready = FALSE]] \in Good
    BY DEF ComeAndGo
  <2>0. r.user[u] \in Persons
    BY RestatedForms
  <2>1. \A x \in {"NULL", "FREE"} :
          r.user[u].table = NoTable => [r EXCEPT !.user[u] = Away(x)] \in Good
    BY EnterLemma
  <2>2. ASSUME r.user[u].status = "OFFLINE" PROVE [r EXCEPT !.user[u].status = "PLAYING"] \in Good
    <3> DEFINE m == [r.user[u] EXCEPT !.status = "PLAYING"]
    <3>1. /\ m \in Persons /\ m.table = r.user[u].table /\ m.chair = r.user[u].chair
          /\ m.status \in Sitting /\ r.user[u].status \in Sitting
      BY <2>0, <2>2 DEF Persons, Sitting
    <3>2. [r EXCEPT !.user[u].status = "PLAYING"] = Restated(r, u, m)
      BY DEF Restated
    <3> HIDE DEF m
    <3> QED BY <3>1, <3>2, RestatedLemma
  <2>3. ASSUME r.user[u].status = "PLAYING"
        PROVE  [r EXCEPT !.user[u] = [@ EXCEPT !.status = "OFFLINE", !.ready = FALSE]] \in Good
    <3> DEFINE m == [r.user[u] EXCEPT !.status = "OFFLINE", !.ready = FALSE]
    <3>1. /\ m \in Persons /\ m.table = r.user[u].table /\ m.chair = r.user[u].chair
          /\ m.status \in Sitting /\ r.user[u].status \in Sitting
      BY <2>0, <2>3 DEF Persons, Sitting
    <3>2. [r EXCEPT !.user[u] = [@ EXCEPT !.status = "OFFLINE", !.ready = FALSE]] = Restated(r, u, m)
      BY DEF Restated
    <3> HIDE DEF m
    <3> QED BY <3>1, <3>2, RestatedLemma
  <2> QED BY <2>1, <2>2, <2>3
<1>8. GetReady(Good)
  <2> SUFFICES ASSUME NEW r \in Good, NEW u \in Users
               PROVE  /\ r.user[u].table \in Tables => Loaded(r, u) \in Good
                      /\ r.user[u].status = "SIT" => Readied(r, u) \in Good
    BY DEF GetReady
  <2>1. ASSUME r.user[u].table \in Tables PROVE Loaded(r, u) \in Good
    <3> DEFINE told == [r EXCEPT !.user[u].ready = TRUE]
    <3>1. told \in Good
      BY <2>1, ReadyGood
    <3> HIDE DEF told
    <3>2. StartGame(told, r.user[u].table) \in Good
      BY <2>1, <3>1, StartLemma
    <3> QED BY <3>1, <3>2 DEF Loaded, told
  <2>2. ASSUME r.user[u].status = "SIT" PROVE Readied(r, u) \in Good
    <3>1. r.user[u].table \in Tables
      <4>1. r \in Rooms /\ Agree(r)
        BY DEF Good
      <4>2. Placed(r.user[u])
        BY <4>1 DEF Agree
      <4> QED BY <2>2, <4>1, <4>2, PersonFacts DEF Placed
    <3>2. [r EXCEPT !.user[u].status = "READY"] \in Good
      BY <2>2, <3>1, ReadyGood DEF Sitting
    <3>3. StartGame(r, r.user[u].table) \in Good
      BY <3>1, StartLemma
    <3> QED BY <3>2, <3>3 DEF Readied
  <2> QED BY <2>1, <2>2
<1> QED BY <1>1, <1>2, <1>3, <1>4, <1>5, <1>6, <1>7, <1>8 DEF Closed

\* An empty room is good.
LEMMA SeatInit ==
  ASSUME Init
  PROVE  SeatInv
<1>0. config \in Configs
  BY DEF Init
<1>1. Away("NULL") \in Persons /\ Placed(Away("NULL"))
      /\ \A d \in Tables : ~Looks(Away("NULL"), d) /\ \A c \in Chairs : ~Sits(Away("NULL"), d, c)
  BY AwayLemma
<1>2. Room \in Rooms
  BY <1>1 DEF Init, Room, Rooms
<1>3. Agree(Room)
  <2>1. /\ \A u \in Users : Room.user[u] = Away("NULL")
        /\ \A t \in Tables, c \in Chairs : Room.seat[t][c] = NoUser
        /\ \A t \in Tables : Room.lookon[t] = {}
    BY DEF Init, Room
  <2> QED BY <1>1, <2>1, TableAssumption DEF Agree
<1> QED BY <1>0, <1>2, <1>3 DEF SeatInv, Good

\* Every step keeps a good room.
LEMMA SeatStep ==
  ASSUME SeatInv, ~Moves, [Next]_vars
  PROVE  SeatInv'
<1>1. CASE Next
  <2>1. config' = config /\ Room' \in Good
    BY <1>1, GoodClosed, NextStays DEF SeatInv
  <2> QED BY <2>1, SameGood DEF SeatInv
<1>2. CASE UNCHANGED vars
  <2>1. config' = config /\ Room' = Room
    BY <1>2 DEF vars, Room
  <2> QED BY <2>1, SameGood DEF SeatInv
<1> QED BY <1>1, <1>2

\* In a good room the records agree.
LEMMA SeatInvAgrees ==
  ASSUME SeatInv
  PROVE  SeatsAgree
<1>1. Agree(Room)
  BY DEF SeatInv, Good
<1> QED BY <1>1, RoomFields DEF Agree, Sits, Looks, Sitting, SeatsAgree

\* Seats, the list of lookers-on and the users' own records agree, whatever the
\* game, the number of chairs, tables and users, when users stand up before they
\* ask for a seat at another table.
THEOREM SeatsTheorem ==
  ASSUME ~Moves
  PROVE  Spec => []SeatsAgree
<1>1. Init => SeatInv
  BY SeatInit
<1>2. SeatInv /\ [Next]_vars => SeatInv'
  BY SeatStep
<1>3. SeatInv => SeatsAgree
  BY SeatInvAgrees
<1> QED BY <1>1, <1>2, <1>3, PTL DEF Spec

-----------------------------------------------------------------------------
(* The games.                                                              *)

\* Nobody plays alone.
Regular == \A k \in Configs : k.chairs >= 2

SitsAt(r, t, v) == r.user[v].table = t /\ r.user[v].status \in Sitting
PlaysAt(r, t, v) == r.user[v].table = t /\ r.user[v].status \in {"PLAYING", "OFFLINE"}
TwoPlay(r, t) == \E v, w \in Users : v # w /\ PlaysAt(r, t, v) /\ PlaysAt(r, t, w)
TwoSit(r, t) == \E v, w \in Users : v # w /\ SitsAt(r, t, v) /\ SitsAt(r, t, w)

NonePlay(r, t) == \A v \in Users : ~PlaysAt(r, t, v)

\* Nobody plays where no game runs, and where one runs that cannot be joined late
\* everyone who sits does.
InStep(r, t) ==
  /\ r.draw[t] = r.game[t]
  /\ ~r.game[t] => NonePlay(r, t)
  /\ r.game[t] /\ ~config.join => \A v \in Users : SitsAt(r, t, v) => PlaysAt(r, t, v)

Peopled(r, t) == TwoPlay(r, t) \/ (config.join /\ NonePlay(r, t))

TableOK(r, t) ==
  /\ InStep(r, t)
  /\ r.game[t] /\ config.mode # "TIME_CONTROL" => Peopled(r, t)
  /\ ~EfficacyStartGame(r, t, NoChair)

Games == {r \in Good : \A t \in Tables : TableOK(r, t)}

\* EfficacyStartGame in parts.
Enough(S) ==
  LET n == Cardinality(S)
      half == ChairCount \div 2
  IN CASE config.mode = "ALL_READY"  -> n >= 2
       [] config.mode = "FULL_READY" -> n = ChairCount
       [] config.mode = "PAIR_READY" ->
            \/ n = ChairCount
            \/ /\ n >= 2 /\ n % 2 = 0
               /\ \A c \in 0..(half - 1) : c \in S <=> c + half \in S
       [] OTHER -> FALSE
AllReady(r, t, chair) ==
  \A c \in Taken(r, t) : /\ r.user[r.seat[t][c]].ready
                         /\ c = chair \/ r.user[r.seat[t][c]].status = "READY"

\* EfficacyStartGame is no game, everyone ready, and enough of them.
LEMMA EfficacyParts ==
  ASSUME NEW r, NEW t, NEW chair
  PROVE  EfficacyStartGame(r, t, chair)
           <=> ~r.game[t] /\ AllReady(r, t, chair) /\ Enough(Taken(r, t))
BY DEF EfficacyStartGame, AllReady, Enough

\* Chairs can be counted.
LEMMA FiniteChairs ==
  ASSUME config \in Configs, NEW S, S \subseteq Chairs
  PROVE  IsFiniteSet(S) /\ Cardinality(S) \in Nat
<1>1. ChairCount \in Nat
  BY TableAssumption DEF ChairCount
<1>2. IsFiniteSet(0..(ChairCount - 1))
  BY <1>1, FS_Interval
<1>3. IsFiniteSet(S)
  BY <1>2, FS_Subset DEF Chairs
<1> QED BY <1>3, FS_CardinalityType

\* A set of two or more has two.
LEMMA TwoOf ==
  ASSUME NEW S, IsFiniteSet(S), Cardinality(S) >= 2
  PROVE  \E a, b \in S : a # b
<1>1. S # {}
  BY FS_EmptySet
<1>2. PICK a \in S : TRUE
  BY <1>1
<1>3. Cardinality({a}) = 1
  BY FS_Singleton
<1>4. S # {a}
  BY <1>3
<1> QED BY <1>2, <1>4

\* A set with two members has two or more.
LEMMA OfTwo ==
  ASSUME NEW S, IsFiniteSet(S), NEW a \in S, NEW b \in S, a # b
  PROVE  Cardinality(S) >= 2
<1>1. IsFiniteSet({a}) /\ Cardinality({a}) = 1
  BY FS_Singleton
<1>2. Cardinality({a} \union {b}) = 2
  <2> DEFINE A == {a}
  <2>1. IsFiniteSet(A) /\ Cardinality(A) = 1 /\ b \notin A
    BY <1>1
  <2> HIDE DEF A
  <2>2. Cardinality(A \union {b}) = Cardinality(A) + 1
    BY <2>1, FS_AddElement
  <2> QED BY <2>1, <2>2 DEF A
<1>3. {a} \union {b} \subseteq S
  OBVIOUS
<1>4. Cardinality({a} \union {b}) <= Cardinality(S)
  BY <1>3, FS_Subset
<1>5. Cardinality(S) \in Nat
  BY FS_CardinalityType
<1> QED BY <1>2, <1>4, <1>5

\* Players can be counted.
LEMMA FinitePlayers ==
  ASSUME config \in Configs, NEW r, NEW t
  PROVE  IsFiniteSet(Players(r, t))
<1>1. IsFiniteSet(Taken(r, t))
  BY FiniteChairs DEF Taken
<1>2. IsFiniteSet(Seated(r, t))
  <2> DEFINE f == [c \in Taken(r, t) |-> r.seat[t][c]]
  <2>1. f \in [Taken(r, t) -> Seated(r, t)] /\ \A v \in Seated(r, t) : \E c \in Taken(r, t) : f[c] = v
    BY DEF Seated
  <2>2. f \in Surjection(Taken(r, t), Seated(r, t))
    BY <2>1 DEF Surjection
  <2> HIDE DEF f
  <2> QED BY <1>1, <2>2, FS_Surjection
<1>3. Players(r, t) \subseteq Seated(r, t)
  BY DEF Players
<1> QED BY <1>2, <1>3, FS_Subset

\* The players of a table by their own records.
LEMMA PlayersLemma ==
  ASSUME config \in Configs, NEW r \in Good, NEW t \in Tables
  PROVE  \A v : v \in Players(r, t) <=> v \in Users /\ PlaysAt(r, t, v)
<1>1. Seated(r, t) \subseteq Users
  <2>1. \A c \in Chairs : r.seat[t][c] = NoUser \/ r.seat[t][c] \in Users
    BY OnChair
  <2> QED BY <2>1 DEF Seated, Taken
<1>2. \A v \in Users : v \in Seated(r, t) <=> r.user[v].table = t /\ r.user[v].status \in Sitting
  BY SeatedLemma
<1> QED BY <1>1, <1>2 DEF Players, PlaysAt, Sitting

\* Enough users for a start are at least two.
LEMMA EnoughTwo ==
  ASSUME config \in Configs, Regular, NEW r \in Good, NEW t \in Tables, NEW chair,
         EfficacyStartGame(r, t, chair)
  PROVE  ~r.game[t] /\ TwoSit(r, t)
<1>1. ~r.game[t] /\ Enough(Taken(r, t))
  BY EfficacyParts
<1>2. ChairCount \in Nat /\ ChairCount >= 2
  BY TableAssumption DEF ChairCount, Regular
<1>3. Taken(r, t) \subseteq Chairs
  BY DEF Taken
<1>4. IsFiniteSet(Taken(r, t)) /\ Cardinality(Taken(r, t)) \in Nat
  BY <1>3, FiniteChairs
<1>5. Cardinality(Taken(r, t)) >= 2
  <2> DEFINE n == Cardinality(Taken(r, t))
  <2>1. n >= 2 \/ n = ChairCount
    BY <1>1 DEF Enough
  <2> HIDE DEF n
  <2>2. n \in Nat
    BY <1>4 DEF n
  <2>3. n >= 2
    BY <1>2, <2>1, <2>2
  <2> QED BY <2>3 DEF n
<1>6. PICK c, d \in Taken(r, t) : c # d
  BY <1>4, <1>5, TwoOf
<1>7. c \in Chairs /\ d \in Chairs /\ r.seat[t][c] # NoUser /\ r.seat[t][d] # NoUser
  BY DEF Taken
<1>8. /\ r.seat[t][c] \in Users /\ Sits(r.user[r.seat[t][c]], t, c)
      /\ r.seat[t][d] \in Users /\ Sits(r.user[r.seat[t][d]], t, d)
  BY <1>7, OnChair
<1>9. r.seat[t][c] # r.seat[t][d]
  BY <1>6, <1>8 DEF Sits
<1> QED BY <1>1, <1>8, <1>9 DEF TwoSit, SitsAt, Sits

\* No start without users, without readiness or during a game.
LEMMA NoStart ==
  ASSUME config \in Configs, NEW r \in Good, NEW t \in Tables,
         \/ \A v \in Users : SitsAt(r, t, v) => r.user[v].status # "READY"
         \/ \E v \in Users : SitsAt(r, t, v) /\ r.user[v].status # "READY"
         \/ r.game[t]
  PROVE  ~EfficacyStartGame(r, t, NoChair)
<1> SUFFICES ASSUME EfficacyStartGame(r, t, NoChair) PROVE FALSE
  OBVIOUS
<1>1. ~r.game[t] /\ AllReady(r, t, NoChair) /\ Enough(Taken(r, t))
  BY EfficacyParts
<1>2. ChairCount \in Nat /\ ChairCount > 0 /\ NoChair \notin Chairs /\ NoUser \notin Users
  BY TableAssumption DEF ChairCount, Chairs
<1>3. Taken(r, t) # {}
  <2>1. SUFFICES ASSUME Taken(r, t) = {} PROVE FALSE
    OBVIOUS
  <2>2. Cardinality(Taken(r, t)) = 0
    BY <2>1, FS_EmptySet
  <2> QED BY <1>1, <1>2, <2>2 DEF Enough
<1>4. \A c \in Taken(r, t) : r.user[r.seat[t][c]].status = "READY"
  BY <1>1, <1>2 DEF AllReady, Taken
<1>5. ASSUME NEW v \in Users, SitsAt(r, t, v) PROVE r.user[v].status = "READY"
  <2>1. v \in Seated(r, t)
    BY <1>5, SeatedLemma DEF SitsAt
  <2> QED BY <1>4, <2>1 DEF Seated
<1>6. \E v \in Users : SitsAt(r, t, v)
  <2>1. PICK c \in Taken(r, t) : TRUE
    BY <1>3
  <2>2. c \in Chairs /\ r.seat[t][c] # NoUser
    BY DEF Taken
  <2>3. r.seat[t][c] \in Users /\ Sits(r.user[r.seat[t][c]], t, c)
    BY <2>2, OnChair
  <2> QED BY <2>3 DEF SitsAt, Sits
<1> QED BY <1>1, <1>5, <1>6

\* The seats, the sitters and the game of a table are the same in two rooms.
SameSeats(r, s, d) ==
  /\ s.game[d] = r.game[d] /\ s.draw[d] = r.draw[d]
  /\ \A v \in Users : SitsAt(r, d, v) \/ SitsAt(s, d, v) => s.user[v] = r.user[v]

\* A table is as right as it was when nothing of it has changed.
LEMMA SameTableOK ==
  ASSUME config \in Configs, NEW r \in Good, NEW s \in Good, NEW d \in Tables,
         SameSeats(r, s, d), TableOK(r, d)
  PROVE  TableOK(s, d)
<1>1. \A v \in Users : SitsAt(r, d, v) \/ SitsAt(s, d, v) => s.user[v] = r.user[v]
  BY DEF SameSeats
<1>2. s.game[d] = r.game[d] /\ s.draw[d] = r.draw[d]
  BY DEF SameSeats
<1>3. ASSUME NEW v \in Users PROVE /\ SitsAt(s, d, v) <=> SitsAt(r, d, v)
                                   /\ PlaysAt(s, d, v) <=> PlaysAt(r, d, v)
  BY <1>1 DEF SitsAt, PlaysAt, Sitting
<1>4. s.seat[d] = r.seat[d]
  <2>1. ASSUME NEW c \in Chairs PROVE s.seat[d][c] = r.seat[d][c]
    <3>1. Agree(r) /\ Agree(s)
      BY DEF Good
    <3>2. \A v \in Users : Sits(r.user[v], d, c) <=> Sits(s.user[v], d, c)
      BY <1>1 DEF Sits, SitsAt
    <3>3. \A v \in Users : s.seat[d][c] = v <=> r.seat[d][c] = v
      BY <3>1, <3>2 DEF Agree
    <3>4. s.seat[d][c] \in Users \union {NoUser} /\ r.seat[d][c] \in Users \union {NoUser}
      BY DEF Good, Rooms
    <3> QED BY <3>3, <3>4
  <2>2. s.seat[d] \in [Chairs -> Users \union {NoUser}] /\ r.seat[d] \in [Chairs -> Users \union {NoUser}]
    BY DEF Good, Rooms
  <2> QED BY <2>1, <2>2
<1>5. EfficacyStartGame(s, d, NoChair) => EfficacyStartGame(r, d, NoChair)
  <2>1. Taken(s, d) = Taken(r, d)
    BY <1>4 DEF Taken
  <2>2. ASSUME NEW c \in Taken(r, d) PROVE s.user[s.seat[d][c]] = r.user[r.seat[d][c]]
    <3>1. c \in Chairs /\ r.seat[d][c] # NoUser
      BY DEF Taken
    <3>2. r.seat[d][c] \in Users /\ SitsAt(r, d, r.seat[d][c])
      BY <3>1, OnChair DEF Sits, SitsAt
    <3> QED BY <1>1, <1>4, <3>2
  <2>3. AllReady(s, d, NoChair) => AllReady(r, d, NoChair)
    BY <2>1, <2>2 DEF AllReady
  <2> QED BY <1>2, <2>1, <2>3, EfficacyParts
<1>n. NonePlay(s, d) <=> NonePlay(r, d)
  BY <1>3 DEF NonePlay
<1>6. InStep(s, d)
  BY <1>2, <1>3, <1>n DEF TableOK, InStep
<1>t. TwoPlay(r, d) => TwoPlay(s, d)
  BY <1>3 DEF TwoPlay
<1>7. s.game[d] /\ config.mode # "TIME_CONTROL" => Peopled(s, d)
  BY <1>2, <1>n, <1>t DEF TableOK, Peopled
<1> QED BY <1>5, <1>6, <1>7 DEF TableOK

\* An operation on table t need only be looked at there.
LEMMA LocalGames ==
  ASSUME config \in Configs, NEW r \in Games, NEW s \in Good, NEW t \in Tables,
         Local(r, s, t), TableOK(s, t)
  PROVE  s \in Games
<1>1. ASSUME NEW d \in Tables, d # t PROVE TableOK(s, d)
  <2>1. SameSeats(r, s, d)
    BY <1>1 DEF Local, SameAt, SameSeats, SitsAt
  <2> QED BY <2>1, SameTableOK DEF Games
<1> QED BY <1>1 DEF Games

\* The same for all tables.
LEMMA SameGames ==
  ASSUME config \in Configs, NEW r \in Games, NEW s \in Good,
         \A d \in Tables : SameSeats(r, s, d)
  PROVE  s \in Games
BY SameTableOK DEF Games

\* A game starts with everyone who sits at the table.
LEMMA StartOK ==
  ASSUME config \in Configs, NEW r \in Good, NEW t \in Tables, ~r.game[t], ~r.draw[t],
         config.mode = "TIME_CONTROL" \/ TwoSit(r, t)
  PROVE  TableOK(StartGame(r, t), t)
<1> DEFINE s == StartGame(r, t)
<1>0. r \in Rooms
  BY DEF Good
<1>1. s \in Good /\ s.game = [r.game EXCEPT ![t] = TRUE] /\ s.draw = [r.draw EXCEPT ![t] = TRUE]
  BY StartLemma
<1>2. \A v \in Users : s.user[v] = Joined(r, t, v)
  BY StartLemma
<1> HIDE DEF s
<1>3. s.game[t] /\ s.draw[t] /\ s.draw[t] = s.game[t]
  BY <1>0, <1>1 DEF Rooms
<1>4. ASSUME NEW v \in Users PROVE /\ SitsAt(s, t, v) => PlaysAt(s, t, v)
                                   /\ SitsAt(r, t, v) => PlaysAt(s, t, v)
  <2>1. v \in Seated(r, t) <=> SitsAt(r, t, v)
    BY SeatedLemma DEF SitsAt
  <2>2. r.user[v] \in Persons
    BY <1>0, PersonFacts
  <2>3. CASE SitsAt(r, t, v) /\ r.user[v].status \notin {"OFFLINE", "PLAYING"}
    <3>1. s.user[v] = [r.user[v] EXCEPT !.status = "PLAYING"]
      BY <1>2, <2>1, <2>3 DEF Joined
    <3>2. s.user[v].status = "PLAYING" /\ s.user[v].table = r.user[v].table
      BY <2>2, <3>1 DEF Persons
    <3> QED BY <2>3, <3>2 DEF PlaysAt, SitsAt
  <2>4. CASE ~(SitsAt(r, t, v) /\ r.user[v].status \notin {"OFFLINE", "PLAYING"})
    <3>1. s.user[v] = r.user[v]
      BY <1>2, <2>1, <2>4 DEF Joined
    <3> QED BY <2>4, <3>1 DEF PlaysAt, SitsAt
  <2> QED BY <2>3, <2>4
<1>5. InStep(s, t)
  BY <1>3, <1>4 DEF InStep
<1>6. TwoSit(r, t) => TwoPlay(s, t)
  BY <1>4 DEF TwoSit, TwoPlay
<1>7. ~EfficacyStartGame(s, t, NoChair)
  BY <1>1, <1>3, NoStart
<1> QED BY <1>5, <1>6, <1>7 DEF TableOK, Peopled, s

\* Two others than u play.
TwoOthers(r, t, u) ==
  \E v, w \in Users : v # w /\ v # u /\ w # u /\ PlaysAt(r, t, v) /\ PlaysAt(r, t, w)

\* What is left of the players when u leaves.
OthersPlay(r, t, u) == TwoOthers(r, t, u) \/ (config.join /\ NonePlay(r, t))

\* A table is right after LeaveSeat when two others play or no game runs.
LEMMA LeaveOK ==
  ASSUME config \in Configs, Regular, NEW r \in Good, NEW t \in Tables, NEW u \in Users,
         SitsAt(r, t, u), InStep(r, t),
         r.game[t] /\ config.mode # "TIME_CONTROL" => OthersPlay(r, t, u),
         NEW gone \in BOOLEAN, NEW s \in LeaveSeat(r, t, u, gone)
  PROVE  TableOK(s, t)
<1> DEFINE x == GoneTo(gone)
           l == LeftRoom(r, t, u, x)
<1>0. x \in {"NULL", "FREE"} /\ r.user[u].table = t /\ r.user[u].status \in Sitting
  BY DEF GoneTo, SitsAt
<1>1. s = IF EfficacyStartGame(l, t, NoChair) THEN StartGame(l, t) ELSE l
  BY <1>0, LeaveLemma
<1> HIDE DEF x
<1>2. l \in Good /\ l.user[u] = Away(x) /\ Others(r, l, u) /\ l.game = r.game /\ l.draw = r.draw
  BY <1>0, LeftLemma
<1> HIDE DEF l
<1>3. InStep(l, t)
  <2>1. ~SitsAt(l, t, u)
    BY <1>0, <1>2, AwayLemma, TableAssumption DEF SitsAt
  <2>2. ~PlaysAt(l, t, u)
    BY <2>1 DEF SitsAt, PlaysAt, Sitting
  <2>3. \A v \in Users : v # u => (SitsAt(l, t, v) <=> SitsAt(r, t, v)) /\ (PlaysAt(l, t, v) <=> PlaysAt(r, t, v))
    BY <1>2 DEF Others, SitsAt, PlaysAt
  <2>4. NonePlay(r, t) => NonePlay(l, t)
    BY <2>2, <2>3 DEF NonePlay
  <2> QED BY <1>2, <2>1, <2>3, <2>4 DEF InStep
<1>4. CASE EfficacyStartGame(l, t, NoChair)
  <2>1. ~l.game[t] /\ TwoSit(l, t)
    BY <1>2, <1>4, EnoughTwo
  <2>2. ~l.draw[t]
    BY <1>3, <2>1 DEF InStep
  <2>3. TableOK(StartGame(l, t), t)
    BY <1>2, <2>1, <2>2, StartOK
  <2> QED BY <1>1, <1>4, <2>3
<1>5. CASE ~EfficacyStartGame(l, t, NoChair)
  <2>1. TwoOthers(r, t, u) => TwoPlay(l, t)
    BY <1>2 DEF TwoOthers, TwoPlay, PlaysAt, Others
  <2>2. l.user[u].table # t
    BY <1>0, <1>2, AwayLemma, TableAssumption
  <2>3. NonePlay(r, t) => NonePlay(l, t)
    BY <1>2, <2>2 DEF NonePlay, PlaysAt, Others
  <2>4. l.game[t] /\ config.mode # "TIME_CONTROL" => Peopled(l, t)
    BY <1>2, <2>1, <2>3 DEF Peopled, OthersPlay
  <2> QED BY <1>1, <1>3, <1>5, <2>4 DEF TableOK
<1> QED BY <1>4, <1>5

\* While the first loop of ConcludeGame goes over the chairs: those before n sit.
\* The others look as before the end, so they still play, or have got ready in a
\* game that could be joined late; then a game may have started.
Over(p, t, n) ==
  /\ p.draw[t] = p.game[t]
  /\ p.game[t] => config.join
  /\ \A v \in Users : SitsAt(p, t, v) =>
       \/ p.user[v].status = "SIT"
       \/ /\ n <= p.user[v].chair
          /\ config.join \/ PlaysAt(p, t, v)
          /\ p.game[t] => p.user[v].status # "OFFLINE"

\* All who are left sit.
AllSit(p, t) == \A v \in Users : SitsAt(p, t, v) => p.user[v].status = "SIT"

\* A user leaves, and a game starts only if all others at the table are ready.
LEMMA OverLeaves ==
  ASSUME config \in Configs, NEW p \in Good, NEW t \in Tables, ~p.draw[t],
         NEW u \in Users, SitsAt(p, t, u), NEW gone \in BOOLEAN, NEW s \in LeaveSeat(p, t, u, gone)
  PROVE  /\ s \in Good /\ s.user[u] = Away(GoneTo(gone))
         /\ \/ s.game = p.game /\ s.draw = p.draw /\ Others(p, s, u)
            \/ /\ s.game[t] /\ s.draw[t]
               /\ \E v \in Users : v # u /\ SitsAt(p, t, v) /\ p.user[v].status = "READY"
               /\ \A v \in Users : SitsAt(s, t, v) =>
                    /\ v # u /\ SitsAt(p, t, v) /\ p.user[v].status = "READY"
                    /\ s.user[v].status = "PLAYING" /\ s.user[v].chair = p.user[v].chair
<1> DEFINE x == GoneTo(gone)
           l == LeftRoom(p, t, u, x)
<1>0. x \in {"NULL", "FREE"} /\ p.user[u].table = t /\ p.user[u].status \in Sitting
  BY DEF GoneTo, SitsAt
<1>1. s = IF EfficacyStartGame(l, t, NoChair) THEN StartGame(l, t) ELSE l
  BY <1>0, LeaveLemma
<1> HIDE DEF x
<1>2. l \in Good /\ l.user[u] = Away(x) /\ Others(p, l, u) /\ l.game = p.game /\ l.draw = p.draw
  BY <1>0, LeftLemma
<1> HIDE DEF l
<1>3. ~SitsAt(l, t, u)
  BY <1>0, <1>2, AwayLemma, TableAssumption DEF SitsAt
<1>4. \A v \in Users : SitsAt(l, t, v) => v # u /\ l.user[v] = p.user[v] /\ SitsAt(p, t, v)
  BY <1>2, <1>3 DEF Others, SitsAt
<1>5. CASE EfficacyStartGame(l, t, NoChair)
  <2>1. s = StartGame(l, t)
    BY <1>1, <1>5
  <2>2. /\ s \in Good /\ \A v \in Users : s.user[v] = Joined(l, t, v)
        /\ s.game = [l.game EXCEPT ![t] = TRUE] /\ s.draw = [l.draw EXCEPT ![t] = TRUE]
    BY <1>2, <2>1, StartLemma
  <2>3. s.game[t] /\ s.draw[t]
    BY <1>2, <2>2 DEF Good, Rooms
  <2>4. \A v \in Users : SitsAt(l, t, v) => l.user[v].status = "READY"
    BY <1>2, <1>5, NoStart
  <2>5. \E v \in Users : SitsAt(l, t, v) /\ l.user[v].status = "READY"
    BY <1>2, <1>5, NoStart
  <2>6. ASSUME NEW v \in Users
        PROVE  IF SitsAt(l, t, v)
                 THEN s.user[v].status = "PLAYING" /\ s.user[v].chair = l.user[v].chair
                 ELSE s.user[v] = l.user[v]
    <3>1. v \in Seated(l, t) <=> SitsAt(l, t, v)
      BY <1>2, SeatedLemma DEF SitsAt
    <3>2. l.user[v] \in Persons
      BY <1>2, PersonFacts DEF Good
    <3>3. CASE SitsAt(l, t, v)
      <4>1. ~l.game[t]
        BY <1>5, EfficacyParts
      <4>2. s.user[v] = [l.user[v] EXCEPT !.status = "PLAYING"]
        BY <2>2, <2>4, <3>1, <3>3, <4>1 DEF Joined
      <4> QED BY <3>2, <3>3, <4>2 DEF Persons
    <3>4. CASE ~SitsAt(l, t, v)
      BY <2>2, <3>1, <3>4 DEF Joined
    <3> QED BY <3>3, <3>4
  <2>7. s.user[u] = Away(GoneTo(gone))
    BY <1>2, <1>3, <2>6 DEF x
  <2>8. ASSUME NEW v \in Users, SitsAt(s, t, v) PROVE SitsAt(l, t, v)
    BY <2>6, <2>8 DEF SitsAt
  <2>9. \A v \in Users : SitsAt(s, t, v) =>
          /\ v # u /\ SitsAt(p, t, v) /\ p.user[v].status = "READY"
          /\ s.user[v].status = "PLAYING" /\ s.user[v].chair = p.user[v].chair
    BY <1>4, <2>4, <2>6, <2>8
  <2>10. \E v \in Users : v # u /\ SitsAt(p, t, v) /\ p.user[v].status = "READY"
    BY <1>4, <2>5
  <2> QED BY <2>2, <2>3, <2>7, <2>9, <2>10
<1>6. CASE ~EfficacyStartGame(l, t, NoChair)
  BY <1>1, <1>2, <1>6 DEF x
<1> QED BY <1>5, <1>6

\* One round of the first loop.
LEMMA OverSits ==
  ASSUME config \in Configs, NEW p \in Good, NEW t \in Tables, NEW n \in Chairs, Over(p, t, n),
         NEW q \in SitOrLeave(p, t, n)
  PROVE  Over(q, t, n + 1)
<1> DEFINE u == p.seat[t][n]
           Still(r, v) == \/ r.user[v].status = "SIT"
                          \/ /\ n + 1 <= r.user[v].chair
                             /\ config.join \/ PlaysAt(r, t, v)
                             /\ r.game[t] => r.user[v].status # "OFFLINE"
<1>0. p \in Rooms /\ Agree(p) /\ n \in Nat /\ p.draw[t] \in BOOLEAN /\ p.game[t] \in BOOLEAN
  BY TableAssumption DEF Good, Chairs, ChairCount, Rooms
<1>c. \A v \in Users : SitsAt(p, t, v) => p.user[v].chair \in Chairs /\ p.user[v].chair \in Nat
  BY <1>0, TableAssumption DEF Agree, Placed, SitsAt, Chairs, ChairCount
<1>u. \A v \in Users : SitsAt(p, t, v) /\ p.user[v].chair = n => v = u
  BY <1>0 DEF Agree, Sits, SitsAt
<1>m. \A v \in Users : v # u /\ SitsAt(p, t, v) /\ n <= p.user[v].chair => n + 1 <= p.user[v].chair
  BY <1>0, <1>c, <1>u
<1>n. \A v \in Users : v # u /\ SitsAt(p, t, v) => Still(p, v)
  BY <1>m DEF Over
<1>1. CASE u = NoUser
  <2>1. q = p
    BY <1>1 DEF SitOrLeave
  <2>2. \A v \in Users : v # u
    BY <1>1, TableAssumption
  <2> HIDE DEF u
  <2> QED BY <1>n, <2>1, <2>2 DEF Over
<1>2. CASE u # NoUser
  <2>1. u \in Users /\ SitsAt(p, t, u) /\ p.user[u].chair = n
    BY <1>2, OnChair DEF Sits, SitsAt
  <2>2. ASSUME q.game = p.game, q.draw = p.draw, Others(p, q, u),
               SitsAt(q, t, u) => q.user[u].status = "SIT"
        PROVE  Over(q, t, n + 1)
    <3> HIDE DEF u
    <3>1. ASSUME NEW v \in Users, SitsAt(q, t, v) PROVE Still(q, v)
      <4>1. CASE v = u
        BY <2>2, <3>1, <4>1
      <4>2. CASE v # u
        <5>1. q.user[v] = p.user[v]
          BY <2>2, <4>2 DEF Others
        <5>2. SitsAt(p, t, v) /\ (PlaysAt(q, t, v) <=> PlaysAt(p, t, v))
          BY <3>1, <5>1 DEF SitsAt, PlaysAt
        <5> QED BY <1>n, <2>2, <4>2, <5>1, <5>2
      <4> QED BY <4>1, <4>2
    <3> QED BY <2>2, <3>1 DEF Over
  <2>3. CASE p.user[u].status = "OFFLINE"
    <3>0. PICK gone \in BOOLEAN : gone = TRUE
      OBVIOUS
    <3>1. q \in LeaveSeat(p, t, u, gone)
      BY <1>2, <2>3, <3>0 DEF SitOrLeave
    <3> HIDE DEF u
    <3>2. ~p.game[t] /\ ~p.draw[t]
      BY <1>0, <2>1, <2>3 DEF Over
    <3>3. GoneTo(gone) \in {"NULL", "FREE"}
      BY DEF GoneTo
    <3>4. /\ q \in Good /\ q.user[u] = Away(GoneTo(gone))
          /\ \/ q.game = p.game /\ q.draw = p.draw /\ Others(p, q, u)
             \/ /\ q.game[t] /\ q.draw[t]
                /\ \E v \in Users : v # u /\ SitsAt(p, t, v) /\ p.user[v].status = "READY"
                /\ \A v \in Users : SitsAt(q, t, v) =>
                     /\ v # u /\ SitsAt(p, t, v) /\ p.user[v].status = "READY"
                     /\ q.user[v].status = "PLAYING" /\ q.user[v].chair = p.user[v].chair
      BY <2>1, <3>1, <3>2, OverLeaves
    <3>5. ~SitsAt(q, t, u)
      BY <3>3, <3>4, AwayLemma, TableAssumption DEF SitsAt
    <3>6. CASE q.game = p.game /\ q.draw = p.draw /\ Others(p, q, u)
      BY <2>2, <3>5, <3>6
    <3>7. CASE ~(q.game = p.game /\ q.draw = p.draw /\ Others(p, q, u))
      <4>1. PICK w \in Users : w # u /\ SitsAt(p, t, w) /\ p.user[w].status = "READY"
        BY <3>4, <3>7
      <4>2. config.join
        BY <4>1 DEF Over, PlaysAt
      <4>3. ASSUME NEW v \in Users, SitsAt(q, t, v) PROVE Still(q, v)
        <5>1. /\ v # u /\ SitsAt(p, t, v) /\ p.user[v].status = "READY"
              /\ q.user[v].status = "PLAYING" /\ q.user[v].chair = p.user[v].chair
          BY <3>4, <3>7, <4>3
        <5>2. n <= p.user[v].chair
          BY <5>1 DEF Over
        <5> QED BY <1>m, <4>2, <5>1, <5>2
      <4>4. q.game[t] /\ q.draw[t] /\ q.game[t] \in BOOLEAN /\ q.draw[t] \in BOOLEAN
        BY <3>4, <3>7 DEF Good, Rooms
      <4> QED BY <4>2, <4>3, <4>4 DEF Over
    <3> QED BY <3>6, <3>7
  <2>4. CASE p.user[u].status # "OFFLINE"
    <3>1. q = [p EXCEPT !.user[u] = [@ EXCEPT !.status = "SIT", !.table = t, !.chair = n]]
      BY <1>2, <2>4 DEF SitOrLeave
    <3> HIDE DEF u
    <3>2. p.user[u] \in Persons
      BY <1>0, <2>1, PersonFacts
    <3>3. /\ q.game = p.game /\ q.draw = p.draw
          /\ q.user = [p.user EXCEPT ![u] = [p.user[u] EXCEPT !.status = "SIT", !.table = t, !.chair = n]]
      BY <1>0, <3>1 DEF Rooms
    <3>4. q.user[u] = [p.user[u] EXCEPT !.status = "SIT", !.table = t, !.chair = n] /\ Others(p, q, u)
      BY <1>0, <2>1, <3>3 DEF Rooms, Others
    <3>5. q.user[u].status = "SIT"
      BY <3>2, <3>4 DEF Persons
    <3> QED BY <2>2, <3>3, <3>4, <3>5
  <2> QED BY <2>3, <2>4
<1> QED BY <1>1, <1>2

\* One round of the second loop.
LEMMA OverKicks ==
  ASSUME config \in Configs, NEW p \in Good, NEW t \in Tables, NEW c \in Chairs,
         ~p.game[t], ~p.draw[t], AllSit(p, t), NEW q \in Kick(p, t, c)
  PROVE  ~q.game[t] /\ ~q.draw[t] /\ AllSit(q, t)
<1> DEFINE u == p.seat[t][c]
<1>1. CASE q = p
  BY <1>1
<1>2. CASE q # p
  <2>1. u # NoUser /\ \E up \in LeaveSeat(p, t, u, FALSE) : q = PerformLookonAction(up, t, c, u)
    BY <1>2 DEF Kick
  <2>2. PICK up : up \in LeaveSeat(p, t, u, FALSE) /\ q = PerformLookonAction(up, t, c, u)
    BY <2>1
  <2>3. u \in Users /\ SitsAt(p, t, u)
    BY <2>1, OnChair DEF Sits, SitsAt
  <2> HIDE DEF u
  <2>4. PICK gone \in BOOLEAN : gone = FALSE
    OBVIOUS
  <2>5. /\ up \in Good /\ up.game = p.game /\ up.draw = p.draw
        /\ up.user[u] = Away(GoneTo(gone)) /\ Others(p, up, u)
    <3>1. up \in LeaveSeat(p, t, u, gone)
      BY <2>2, <2>4
    <3>2. ~ \E v \in Users : v # u /\ SitsAt(p, t, v) /\ p.user[v].status = "READY"
      BY DEF AllSit
    <3> QED BY <2>3, <3>1, <3>2, OverLeaves
  <2>6. up.user[u].table = NoTable
    <3>1. GoneTo(gone) \in {"NULL", "FREE"}
      BY DEF GoneTo
    <3> QED BY <2>5, <3>1, AwayLemma
  <2>7. /\ q.game = up.game /\ q.draw = up.draw /\ Others(up, q, u)
    BY <2>2, <2>3, <2>5, <2>6, LookonLemma
  <2>8. q.user[u] = [status |-> "LOOKON", table |-> t, chair |-> c, ready |-> TRUE]
    BY <2>2, <2>3, <2>5, <2>6, LookonLemma
  <2>9. ~SitsAt(q, t, u)
    BY <2>8 DEF SitsAt, Sitting
  <2>10. ASSUME NEW v \in Users, SitsAt(q, t, v) PROVE q.user[v].status = "SIT"
    <3>1. q.user[v] = p.user[v]
      BY <2>5, <2>7, <2>9, <2>10 DEF Others
    <3> QED BY <2>10, <3>1 DEF AllSit, SitsAt
  <2> QED BY <2>5, <2>7, <2>10 DEF AllSit
<1> QED BY <1>1, <1>2

\* ConcludeGame: nobody plays, and a game runs only where it may be joined late.
LEMMA ConcludeOK ==
  ASSUME config \in Configs, NEW r \in Good, NEW t \in Tables, InStep(r, t), r.game[t],
         NEW s \in ConcludeGame(r, t)
  PROVE  TableOK(s, t) /\ NonePlay(s, t)
<1> DEFINE G == [n \in 0..ChairCount |-> {p \in Good : Over(p, t, n)}]
           K == {p \in Good : ~p.game[t] /\ ~p.draw[t] /\ AllSit(p, t)}
           r0 == Stopped(r, t)
<1>0. r \in Rooms /\ Agree(r) /\ ChairCount \in Nat /\ Chairs = 0..(ChairCount - 1) /\ ChairCount > 0
  BY TableAssumption DEF Good, ChairCount, Chairs
<1>1. r0 \in G[0]
  <2>1. /\ r0 \in Rooms /\ r0.seat = r.seat /\ r0.lookon = r.lookon /\ r0.user = r.user
        /\ r0.game = [r.game EXCEPT ![t] = FALSE] /\ r0.draw = [r.draw EXCEPT ![t] = FALSE]
    BY <1>0 DEF Rooms, Stopped
  <2> HIDE DEF r0
  <2>2. r0 \in Good
    BY <2>1, FlagsGood
  <2>3. r0.game[t] = FALSE /\ r0.draw[t] = FALSE
    BY <1>0, <2>1 DEF Rooms
  <2>4. ASSUME NEW v \in Users, SitsAt(r0, t, v)
        PROVE  0 <= r0.user[v].chair /\ (config.join \/ PlaysAt(r0, t, v))
    <3>1. SitsAt(r, t, v)
      BY <2>1, <2>4 DEF SitsAt
    <3>2. config.join \/ PlaysAt(r, t, v)
      BY <3>1 DEF InStep
    <3>3. r.user[v].chair \in Chairs
      BY <1>0, <3>1 DEF Agree, Placed, SitsAt
    <3>4. r.user[v].chair \in Nat
      BY <1>0, <3>3
    <3> QED BY <2>1, <3>2, <3>4 DEF PlaysAt
  <2>5. Over(r0, t, 0)
    BY <2>3, <2>4 DEF Over
  <2>6. 0 \in 0..ChairCount
    BY <1>0
  <2> QED BY <2>2, <2>5, <2>6
<1>2. ASSUME NEW n \in 0..(ChairCount - 1), NEW p \in G[n], NEW q \in SitOrLeave(p, t, n)
      PROVE  q \in G[n + 1]
  <2>0. n \in Chairs /\ n + 1 \in 0..ChairCount /\ n \in 0..ChairCount
    BY <1>0
  <2>1. p \in Good /\ Over(p, t, n)
    BY <2>0
  <2>2. q \in Good
    BY <2>0, <2>1, SitOrLeaveLemma
  <2>3. Over(q, t, n + 1)
    BY <2>0, <2>1, OverSits
  <2> QED BY <2>0, <2>2, <2>3
<1>3. ASSUME NEW p \in Good, Over(p, t, ChairCount)
      PROVE  AllSit(p, t) /\ p.draw[t] = p.game[t] /\ (p.game[t] => config.join)
  <2>1. ASSUME NEW v \in Users, SitsAt(p, t, v) PROVE p.user[v].status = "SIT"
    <3>1. p.user[v].chair \in Chairs
      BY <2>1 DEF Good, Agree, Placed, SitsAt
    <3>2. ~(ChairCount <= p.user[v].chair)
      BY <1>0, <3>1
    <3> QED BY <1>3, <2>1, <3>2 DEF Over
  <2> QED BY <1>3, <2>1 DEF Over, AllSit
<1>g. G[ChairCount] = {p \in Good : Over(p, t, ChairCount)}
  BY <1>0
<1>4. \A p \in G[ChairCount] : ~p.game[t] => p \in K
  BY <1>3, <1>g
<1>5. ASSUME NEW p \in K, NEW c \in Chairs, NEW q \in Kick(p, t, c)
      PROVE  q \in K
  <2>1. p \in Good /\ ~p.game[t] /\ ~p.draw[t] /\ AllSit(p, t)
    OBVIOUS
  <2>2. q \in Good
    BY <2>1, KickLemma
  <2>3. ~q.game[t] /\ ~q.draw[t] /\ AllSit(q, t)
    BY <2>1, OverKicks
  <2> QED BY <2>2, <2>3
<1> HIDE DEF G, r0
<1>6. PICK p : (p \in K \/ (p \in G[ChairCount] /\ p.game[t])) /\ s = ConcludeTable(p, t)
  <2>1. Stopped(r, t) \in G[0]
    BY <1>1 DEF r0
  <2> HIDE DEF K
  <2>2. \A n \in 0..(ChairCount - 1) : \A q \in G[n] : SitOrLeave(q, t, n) \subseteq G[n + 1]
    BY <1>2
  <2>3. \A q \in K, c \in Chairs : Kick(q, t, c) \subseteq K
    BY <1>5
  <2>4. \E q : (q \in K \/ (q \in G[ChairCount] /\ q.game[t])) /\ s = ConcludeTable(q, t)
    <3>1. ThroughChairs(r, t, G, K)
      BY <2>1, <2>2, <2>3, <1>4 DEF ThroughChairs
    <3> QED BY <3>1, ConcludeLoop
  <2> QED BY <2>4
<1>7. p \in Good /\ AllSit(p, t) /\ p.draw[t] = p.game[t] /\ (p.game[t] => config.join)
  <2>1. CASE p \in K
    BY <2>1 DEF Good, Rooms
  <2>2. CASE p \in G[ChairCount]
    BY <1>3, <1>g, <2>2
  <2> QED BY <1>6, <2>1, <2>2
<1>8. /\ s \in Rooms /\ s.seat = p.seat /\ s.lookon = p.lookon /\ s.user = p.user
      /\ s.game = p.game /\ s.draw = p.draw
  BY <1>6, <1>7, ConcludeTableLemma DEF Good
<1>9. s \in Good
  BY <1>7, <1>8, FlagsGood
<1>10. \A v \in Users : SitsAt(s, t, v) => s.user[v].status = "SIT"
  BY <1>7, <1>8 DEF AllSit, SitsAt
<1>11. NonePlay(s, t)
  BY <1>10 DEF NonePlay, PlaysAt, SitsAt, Sitting
<1>12. InStep(s, t) /\ (s.game[t] => Peopled(s, t))
  BY <1>7, <1>8, <1>11 DEF InStep, Peopled
<1>13. ~EfficacyStartGame(s, t, NoChair)
  BY <1>9, <1>10, NoStart
<1> QED BY <1>11, <1>12, <1>13 DEF TableOK

-----------------------------------------------------------------------------
(* The rooms with proper games are closed.                                 *)

\* If a player leaves and the game goes on, two others play it.
LEMMA ConcludedCases ==
  ASSUME config \in Configs, NEW r \in Good, NEW t \in Tables, NEW u \in Users,
         SitsAt(r, t, u), TableOK(r, t), NEW p \in Concluded(r, t, u)
  PROVE  \/ p \in ConcludeGame(r, t) /\ r.game[t]
         \/ /\ p = r
            /\ r.game[t] /\ config.mode # "TIME_CONTROL" => OthersPlay(r, t, u)
<1>1. CASE ~r.game[t]
  BY <1>1 DEF Concluded
<1>2. CASE r.game[t] /\ ~PlaysAt(r, t, u)
  <2>1. p = r
    BY <1>2 DEF Concluded, PlaysAt, SitsAt
  <2>2. TwoPlay(r, t) => TwoOthers(r, t, u)
    BY <1>2 DEF TwoPlay, TwoOthers
  <2> QED BY <1>2, <2>1, <2>2 DEF TableOK, Peopled, OthersPlay
<1>3. CASE r.game[t] /\ PlaysAt(r, t, u)
  <2>1. r.user[u].status \in {"PLAYING", "OFFLINE"}
    BY <1>3 DEF PlaysAt
  <2>2. PICK ends \in Ends(r, t, u) : p \in IF ends THEN ConcludeGame(r, t) ELSE {r}
    BY <1>3, <2>1 DEF Concluded
  <2>3. CASE p \in ConcludeGame(r, t)
    BY <1>3, <2>3
  <2>4. CASE p \notin ConcludeGame(r, t)
    <3>1. p = r /\ FALSE \in Ends(r, t, u)
      BY <2>2, <2>4 DEF Ends
    <3>2. ASSUME config.mode # "TIME_CONTROL" PROVE TwoOthers(r, t, u)
      <4>1. IsFiniteSet(Players(r, t) \ {u})
        BY FinitePlayers, FS_Subset
      <4>2. Cardinality(Players(r, t) \ {u}) \in Nat
        BY <4>1, FS_CardinalityType
      <4>3. ~(Cardinality(Players(r, t) \ {u}) < 2)
        BY <3>1, <3>2 DEF Ends
      <4>4. Cardinality(Players(r, t) \ {u}) >= 2
        BY <4>2, <4>3
      <4>5. PICK a, b \in Players(r, t) \ {u} : a # b
        BY <4>1, <4>4, TwoOf
      <4>6. a \in Users /\ PlaysAt(r, t, a) /\ b \in Users /\ PlaysAt(r, t, b)
        BY PlayersLemma
      <4> QED BY <4>5, <4>6 DEF TwoOthers
    <3> QED BY <3>1, <3>2 DEF OthersPlay
  <2> QED BY <2>3, <2>4
<1> QED BY <1>1, <1>2, <1>3

\* A stand-up, with the end and the start of a game it may cause.
LEMMA StandUpGames ==
  ASSUME config \in Configs, Regular, NEW r \in Games, NEW u \in Users,
         r.user[u].table \in Tables, NEW s \in PerformStandUpAction(r, r.user[u].table, u)
  PROVE  s \in Games
<1> DEFINE t == r.user[u].table
<1>0. r \in Good /\ r \in Rooms /\ Agree(r) /\ TableOK(r, t) /\ InStep(r, t)
  BY DEF Games, Good, TableOK
<1>1. s \in Good /\ Local(r, s, t)
  BY <1>0, StandUpLemma
<1>2. SUFFICES TableOK(s, t)
  BY <1>1, LocalGames
<1>3. CASE r.user[u].status = "LOOKON" /\ s = LookonLeft(r, t, u)
  <2>1. /\ s.game = r.game /\ s.draw = r.draw
        /\ s.user[u] = Away("FREE") /\ Others(r, s, u)
    BY <1>0, <1>3, LookonLeftLemma
  <2>2. ~SitsAt(s, t, u) /\ ~SitsAt(r, t, u)
    BY <1>3, <2>1, AwayLemma, TableAssumption DEF SitsAt, Sitting
  <2>3. SameSeats(r, s, t)
    BY <2>1, <2>2 DEF SameSeats, Others
  <2> QED BY <1>0, <1>1, <2>3, SameTableOK
<1>4. CASE /\ r.user[u].status \in Sitting
           /\ \E p \in Concluded(r, t, u) :
                IF p.seat[t][r.user[u].chair] = u
                  THEN s \in LeaveSeat(p, t, u, r.user[u].status = "OFFLINE")
                  ELSE s = p
  <2>1. PICK p : /\ p \in Concluded(r, t, u)
                 /\ IF p.seat[t][r.user[u].chair] = u
                      THEN s \in LeaveSeat(p, t, u, r.user[u].status = "OFFLINE")
                      ELSE s = p
    BY <1>4
  <2>2. r.user[u].chair \in Chairs /\ SitsAt(r, t, u)
    BY <1>0, <1>4 DEF Agree, Placed, SitsAt
  <2>3. PICK gone \in BOOLEAN : gone = (r.user[u].status = "OFFLINE")
    OBVIOUS
  <2> HIDE DEF t
  <2>4. CASE p \in ConcludeGame(r, t) /\ r.game[t]
    <3>1. p \in Good /\ TableOK(p, t) /\ NonePlay(p, t)
      BY <1>0, <2>4, ConcludeLemma, ConcludeOK DEF t
    <3>2. CASE p.seat[t][r.user[u].chair] = u
      <4>1. SitsAt(p, t, u)
        BY <1>0, <2>2, <3>1, <3>2 DEF Good, Agree, Sits, SitsAt, t
      <4>2. s \in LeaveSeat(p, t, u, gone)
        BY <2>1, <2>3, <3>2
      <4>3. InStep(p, t)
        BY <3>1 DEF TableOK
      <4>4. p.game[t] /\ config.mode # "TIME_CONTROL" => OthersPlay(p, t, u)
        BY <3>1 DEF TableOK, Peopled, TwoPlay, NonePlay, OthersPlay
      <4>5. t \in Tables
        BY DEF t
      <4> QED BY <3>1, <4>1, <4>2, <4>3, <4>4, <4>5, LeaveOK
    <3> QED BY <2>1, <3>1, <3>2
  <2>5. CASE p = r /\ (r.game[t] /\ config.mode # "TIME_CONTROL" => OthersPlay(r, t, u))
    <3>1. p.seat[t][r.user[u].chair] = u
      BY <1>0, <2>2, <2>5 DEF Agree, Sits, SitsAt, t
    <3>2. s \in LeaveSeat(r, t, u, gone)
      BY <2>1, <2>3, <2>5, <3>1
    <3> QED BY <1>0, <2>2, <2>5, <3>2, LeaveOK DEF t
  <2>6. t \in Tables
    BY DEF t
  <2> QED BY <1>0, <2>1, <2>2, <2>4, <2>5, <2>6, ConcludedCases
<1> QED BY <1>0, <1>3, <1>4, StandUpCases

\* A user sits down, and plays at once if a game runs on a clock.
LEMMA SitDownGames ==
  ASSUME config \in Configs, NEW r \in Games, NEW t \in Tables, NEW c \in Chairs,
         NEW u \in Users, r.user[u].table = NoTable, CanSit(r, t, c)
  PROVE  PerformSitDownAction(r, t, c, u) \in Games
<1> DEFINE s == PerformSitDownAction(r, t, c, u)
<1>0. r \in Good /\ r \in Rooms /\ TableOK(r, t) /\ InStep(r, t) /\ r.seat[t][c] = NoUser
  BY DEF Games, Good, TableOK, CanSit
<1>1. s \in Good /\ s.game = r.game /\ s.draw = r.draw /\ Others(r, s, u)
  BY <1>0, SitDownLemma
<1>2. s.user[u] = [status |-> Entry(r, t), table |-> t, chair |-> c, ready |-> FALSE]
  BY <1>0, SitDownLemma
<1>3. Local(r, s, t)
  BY <1>0, SitDownLocal
<1>4. SUFFICES TableOK(s, t)
  BY <1>1, <1>3, LocalGames
<1> HIDE DEF s
<1>5. r.game[t] => config.join
  BY DEF CanSit
<1>6. /\ SitsAt(s, t, u) /\ s.user[u].status # "READY"
      /\ PlaysAt(s, t, u) => r.game[t] /\ config.mode = "TIME_CONTROL"
  BY <1>2 DEF SitsAt, PlaysAt, Entry, Sitting
<1>7. ~PlaysAt(r, t, u)
  BY TableAssumption DEF PlaysAt
<1>8. \A v \in Users : PlaysAt(r, t, v) => PlaysAt(s, t, v)
  BY <1>1, <1>7 DEF PlaysAt, Others
<1>9. ~PlaysAt(s, t, u) /\ NonePlay(r, t) => NonePlay(s, t)
  BY <1>1 DEF NonePlay, PlaysAt, Others
<1>10. InStep(s, t)
  BY <1>0, <1>1, <1>5, <1>6, <1>9 DEF InStep
<1>11. TwoPlay(r, t) => TwoPlay(s, t)
  BY <1>8 DEF TwoPlay
<1>12. ~EfficacyStartGame(s, t, NoChair)
  BY <1>1, <1>6, NoStart
<1>13. s.game[t] /\ config.mode # "TIME_CONTROL" => Peopled(s, t)
  BY <1>0, <1>1, <1>6, <1>9, <1>11 DEF TableOK, Peopled
<1> QED BY <1>10, <1>12, <1>13 DEF TableOK

\* A user looks on.
LEMMA LookonGames ==
  ASSUME config \in Configs, NEW r \in Games, NEW t \in Tables, NEW u \in Users,
         NEW c \in Chairs \union {NoChair}, r.user[u].table = NoTable
  PROVE  PerformLookonAction(r, t, c, u) \in Games
<1> DEFINE s == PerformLookonAction(r, t, c, u)
<1>0. r \in Good
  BY DEF Games
<1>1. s \in Good /\ s.game = r.game /\ s.draw = r.draw /\ Others(r, s, u)
  BY <1>0, LookonLemma
<1>2. s.user[u] = [status |-> "LOOKON", table |-> t, chair |-> c, ready |-> TRUE]
  BY <1>0, LookonLemma
<1> HIDE DEF s
<1>3. \A d \in Tables : ~SitsAt(s, d, u) /\ ~SitsAt(r, d, u)
  BY <1>2, TableAssumption DEF SitsAt, Sitting
<1>4. \A d \in Tables : SameSeats(r, s, d)
  BY <1>1, <1>3 DEF SameSeats, Others
<1> QED BY <1>1, <1>4, SameGames DEF s

\* A user enters or leaves the room.
LEMMA EnterGames ==
  ASSUME config \in Configs, NEW r \in Games, NEW u \in Users, NEW x \in {"NULL", "FREE"},
         r.user[u].table = NoTable
  PROVE  [r EXCEPT !.user[u] = Away(x)] \in Games
<1> DEFINE s == [r EXCEPT !.user[u] = Away(x)]
<1>0. r \in Good
  BY DEF Games
<1>1. s \in Good /\ s.game = r.game /\ s.draw = r.draw /\ s.user[u] = Away(x) /\ Others(r, s, u)
  BY <1>0, EnterLemma
<1> HIDE DEF s
<1>3. \A d \in Tables : ~SitsAt(s, d, u) /\ ~SitsAt(r, d, u)
  BY <1>1, AwayLemma, TableAssumption DEF SitsAt
<1>4. \A d \in Tables : SameSeats(r, s, d)
  BY <1>1, <1>3 DEF SameSeats, Others
<1> QED BY <1>1, <1>4, SameGames DEF s

\* A player loses the connection or comes back.
LEMMA ConnectionGames ==
  ASSUME config \in Configs, NEW r \in Games, NEW u \in Users, NEW m \in Persons,
         m.table = r.user[u].table, m.chair = r.user[u].chair,
         m.status \in {"PLAYING", "OFFLINE"}, r.user[u].status \in {"PLAYING", "OFFLINE"}
  PROVE  Restated(r, u, m) \in Games
<1> DEFINE s == Restated(r, u, m)
           t == r.user[u].table
<1>0. r \in Good /\ r \in Rooms /\ Agree(r)
  BY DEF Games, Good
<1>t. t \in Tables
  <2>1. Placed(r.user[u])
    BY <1>0 DEF Agree
  <2> QED BY <1>0, <2>1, PersonFacts DEF Placed
<1>a. m.status \in Sitting /\ r.user[u].status \in Sitting
  BY DEF Sitting
<1>1. /\ s \in Good /\ s.seat = r.seat /\ s.game = r.game /\ s.draw = r.draw
      /\ s.user[u] = m /\ Others(r, s, u)
  BY <1>0, <1>a, RestatedLemma
<1>2. Local(r, s, t)
  BY <1>0, <1>t, <1>a, RestatedLemma
<1> HIDE DEF s
<1>3. SUFFICES TableOK(s, t)
  BY <1>1, <1>2, <1>t, LocalGames DEF s
<1>4. TableOK(r, t) /\ InStep(r, t)
  BY <1>t DEF Games, TableOK
<1>5. \A v \in Users : SitsAt(s, t, v) = SitsAt(r, t, v) /\ PlaysAt(s, t, v) = PlaysAt(r, t, v)
  BY <1>1, <1>a DEF SitsAt, PlaysAt, Others
<1>6. r.game[t]
  BY <1>4, <1>a DEF InStep, NonePlay, PlaysAt
<1>n. NonePlay(s, t) <=> NonePlay(r, t)
  BY <1>5 DEF NonePlay
<1>7. InStep(s, t)
  BY <1>1, <1>4, <1>5, <1>n DEF InStep
<1>8. Peopled(r, t) => Peopled(s, t)
  BY <1>5, <1>n DEF TwoPlay, Peopled
<1>9. ~EfficacyStartGame(s, t, NoChair)
  BY <1>1, <1>6, <1>t, NoStart
<1> QED BY <1>1, <1>4, <1>7, <1>8, <1>9 DEF TableOK

\* A game that starts because someone got ready.
LEMMA StartGames ==
  ASSUME config \in Configs, Regular, NEW r \in Games, NEW p \in Good, NEW t \in Tables,
         Local(r, p, t), InStep(p, t), NEW chair, EfficacyStartGame(p, t, chair)
  PROVE  StartGame(p, t) \in Games
<1>1. ~p.game[t] /\ TwoSit(p, t)
  BY EnoughTwo
<1>2. ~p.draw[t]
  BY <1>1 DEF InStep
<1>3. TableOK(StartGame(p, t), t)
  BY <1>1, <1>2, StartOK
<1>4. StartGame(p, t) \in Good
  BY StartLemma
<1>5. Local(p, StartGame(p, t), t)
  BY StartLocal
<1>6. Local(r, StartGame(p, t), t)
  BY <1>5, LocalTrans
<1> QED BY <1>3, <1>4, <1>6, LocalGames

\* A user who sits, and does not play, gets ready in one respect or the other.
LEMMA PreparedLemma ==
  ASSUME config \in Configs, NEW r \in Games, NEW u \in Users, NEW m \in Persons,
         m.table = r.user[u].table, m.chair = r.user[u].chair,
         m.status \in {"SIT", "READY"}, r.user[u].status \in {"SIT", "READY"}
  PROVE  LET s == Restated(r, u, m)
             t == r.user[u].table
         IN /\ t \in Tables /\ s \in Good /\ s.seat = r.seat /\ s.game = r.game
            /\ s.user[u] = m /\ Others(r, s, u)
            /\ Local(r, s, t) /\ InStep(s, t)
            /\ ~EfficacyStartGame(s, t, NoChair) => s \in Games
<1> DEFINE s == Restated(r, u, m)
           t == r.user[u].table
<1>0. r \in Good /\ r \in Rooms /\ Agree(r)
  BY DEF Games, Good
<1>t. t \in Tables
  <2>1. Placed(r.user[u])
    BY <1>0 DEF Agree
  <2> QED BY <1>0, <2>1, PersonFacts DEF Placed
<1>a. m.status \in Sitting /\ r.user[u].status \in Sitting
  BY DEF Sitting
<1>1. /\ s \in Good /\ s.seat = r.seat /\ s.game = r.game /\ s.draw = r.draw
      /\ s.user[u] = m /\ Others(r, s, u)
  BY <1>0, <1>a, RestatedLemma
<1>2. Local(r, s, t)
  BY <1>0, <1>t, <1>a, RestatedLemma
<1> HIDE DEF s
<1>4. TableOK(r, t) /\ InStep(r, t)
  BY <1>t DEF Games, TableOK
<1>5. \A v \in Users : SitsAt(s, t, v) = SitsAt(r, t, v) /\ PlaysAt(s, t, v) = PlaysAt(r, t, v)
  BY <1>1, <1>a DEF SitsAt, PlaysAt, Others
<1>6. NonePlay(s, t) <=> NonePlay(r, t)
  BY <1>5 DEF NonePlay
<1>7. InStep(s, t)
  BY <1>1, <1>4, <1>5, <1>6 DEF InStep
<1>9. Peopled(r, t) => Peopled(s, t)
  BY <1>5, <1>6 DEF TwoPlay, Peopled
<1>8. ASSUME ~EfficacyStartGame(s, t, NoChair) PROVE s \in Games
  <2>1. TableOK(s, t)
    BY <1>1, <1>4, <1>7, <1>8, <1>9 DEF TableOK
  <2> QED BY <1>1, <1>2, <1>t, <2>1, LocalGames
<1> QED BY <1>t, <1>1, <1>2, <1>7, <1>8 DEF s

\* GameOption: the client has loaded the game, which may be all a start waited for.
LEMMA LoadedGames ==
  ASSUME config \in Configs, Regular, NEW r \in Games, NEW u \in Users,
         r.user[u].table \in Tables
  PROVE  Loaded(r, u) \in Games
<1> DEFINE m == [r.user[u] EXCEPT !.ready = TRUE]
           s == Restated(r, u, m)
           t == r.user[u].table
<1>0. r \in Good /\ r \in Rooms /\ Agree(r)
  BY DEF Games, Good
<1>1. m \in Persons /\ m.table = t /\ m.chair = r.user[u].chair /\ m.status = r.user[u].status
  BY <1>0, PersonFacts DEF Persons
<1>2. [r EXCEPT !.user[u].ready = TRUE] = s
  BY DEF Restated
<1>3. Loaded(r, u) = IF r.user[u].status = "READY" /\ EfficacyStartGame(s, t, r.user[u].chair)
                       THEN StartGame(s, t) ELSE s
  BY <1>2 DEF Loaded
<1> HIDE DEF m, s
<1>4. CASE r.user[u].status \in {"SIT", "READY"}
  <2>1. /\ s \in Good /\ s.user[u] = m /\ Local(r, s, t) /\ InStep(s, t)
        /\ ~EfficacyStartGame(s, t, NoChair) => s \in Games
    BY <1>1, <1>4, PreparedLemma DEF s
  <2>2. CASE EfficacyStartGame(s, t, r.user[u].chair) /\ r.user[u].status = "READY"
    <3>1. StartGame(s, t) \in Games
      BY <2>1, <2>2, StartGames
    <3> QED BY <1>3, <2>2, <3>1
  <2>3. CASE ~EfficacyStartGame(s, t, r.user[u].chair) /\ r.user[u].status = "READY"
    <3>1. NoChair \notin Chairs
      BY TableAssumption DEF Chairs
    <3>2. AllReady(s, t, NoChair) => AllReady(s, t, r.user[u].chair)
      BY <3>1 DEF AllReady, Taken
    <3>3. ~EfficacyStartGame(s, t, NoChair)
      BY <2>3, <3>2, EfficacyParts
    <3> QED BY <1>3, <2>1, <2>3, <3>3
  <2>4. CASE r.user[u].status = "SIT"
    <3>1. SitsAt(s, t, u) /\ s.user[u].status # "READY"
      BY <1>1, <2>1, <2>4 DEF SitsAt, Sitting
    <3>2. ~EfficacyStartGame(s, t, NoChair)
      BY <2>1, <3>1, NoStart
    <3> QED BY <1>3, <2>1, <2>4, <3>2
  <2> QED BY <1>4, <2>2, <2>3, <2>4
<1>5. CASE r.user[u].status \in {"PLAYING", "OFFLINE"}
  <2>1. s \in Games
    BY <1>1, <1>5, ConnectionGames DEF s
  <2> QED BY <1>3, <1>5, <2>1
<1>6. CASE r.user[u].status = "LOOKON"
  <2>1. /\ s \in Good /\ s.game = r.game /\ s.draw = r.draw
        /\ s.user[u] = m /\ Others(r, s, u)
    BY <1>0, <1>1, RestatedLemma DEF s
  <2>2. \A d \in Tables : ~SitsAt(s, d, u) /\ ~SitsAt(r, d, u)
    BY <1>1, <1>6, <2>1 DEF SitsAt, Sitting
  <2>3. \A d \in Tables : SameSeats(r, s, d)
    BY <2>1, <2>2 DEF SameSeats, Others
  <2>4. s \in Games
    BY <2>1, <2>3, SameGames
  <2> QED BY <1>3, <1>6, <2>4
<1>7. r.user[u].status \in {"SIT", "READY", "PLAYING", "OFFLINE", "LOOKON"}
  <2>1. Placed(r.user[u])
    BY <1>0 DEF Agree
  <2> QED BY <1>0, <2>1, PersonFacts, TableAssumption DEF Placed, Sitting
<1> QED BY <1>4, <1>5, <1>6, <1>7

\* UserReady: if that was not all a start waited for, nothing is missed after it.
LEMMA ReadiedGames ==
  ASSUME config \in Configs, Regular, NEW r \in Games, NEW u \in Users,
         r.user[u].status = "SIT"
  PROVE  Readied(r, u) \in Games
<1> DEFINE m == [r.user[u] EXCEPT !.status = "READY"]
           s == Restated(r, u, m)
           t == r.user[u].table
<1>0. r \in Good /\ r \in Rooms /\ Agree(r)
  BY DEF Games, Good
<1>1. /\ m \in Persons /\ m.table = t /\ m.chair = r.user[u].chair
      /\ m.status = "READY" /\ m.ready = r.user[u].ready
  BY <1>0, PersonFacts DEF Persons, Sitting
<1>2. [r EXCEPT !.user[u].status = "READY"] = s
  BY DEF Restated
<1>3. Readied(r, u) = IF EfficacyStartGame(r, t, r.user[u].chair) THEN StartGame(r, t) ELSE s
  BY <1>2 DEF Readied
<1> HIDE DEF m, s
<1>4. /\ t \in Tables /\ s \in Good /\ s.seat = r.seat /\ s.game = r.game
      /\ s.user[u] = m /\ Others(r, s, u)
      /\ ~EfficacyStartGame(s, t, NoChair) => s \in Games
  BY <1>1, PreparedLemma DEF s
<1>5. CASE EfficacyStartGame(r, t, r.user[u].chair)
  <2>1. InStep(r, t)
    BY <1>4 DEF Games, TableOK
  <2>2. Local(r, r, t)
    BY DEF Local, SameAt
  <2>3. StartGame(r, t) \in Games
    BY <1>0, <1>4, <1>5, <2>1, <2>2, StartGames
  <2> QED BY <1>3, <1>5, <2>3
<1>6. CASE ~EfficacyStartGame(r, t, r.user[u].chair)
  <2>1. ASSUME EfficacyStartGame(s, t, NoChair) PROVE FALSE
    <3>1. ~s.game[t] /\ AllReady(s, t, NoChair) /\ Enough(Taken(s, t))
      BY <2>1, EfficacyParts
    <3>2. Taken(s, t) = Taken(r, t)
      BY <1>4 DEF Taken
    <3>3. ASSUME NEW c \in Taken(r, t)
          PROVE  /\ r.user[r.seat[t][c]].ready
                 /\ c = r.user[u].chair \/ r.user[r.seat[t][c]].status = "READY"
      <4>1. c \in Chairs /\ r.seat[t][c] # NoUser
        BY DEF Taken
      <4>2. r.seat[t][c] \in Users /\ Sits(r.user[r.seat[t][c]], t, c)
        BY <1>0, <1>4, <4>1, OnChair
      <4>3. c # NoChair
        BY <4>1, TableAssumption DEF Chairs
      <4>4. s.user[r.seat[t][c]].ready /\ s.user[r.seat[t][c]].status = "READY"
        BY <1>4, <3>1, <3>2, <4>3 DEF AllReady
      <4>5. CASE r.seat[t][c] = u
        BY <1>1, <1>4, <4>2, <4>4, <4>5 DEF Sits
      <4>6. CASE r.seat[t][c] # u
        BY <1>4, <4>2, <4>4, <4>6 DEF Others
      <4> QED BY <4>5, <4>6
    <3>4. AllReady(r, t, r.user[u].chair)
      BY <3>3 DEF AllReady
    <3> QED BY <1>4, <1>6, <3>1, <3>2, <3>4, EfficacyParts
  <2> QED BY <1>3, <1>4, <1>6, <2>1
<1> QED BY <1>5, <1>6

\* Whatever happens, the games are in order at every table.
LEMMA GamesClosed ==
  ASSUME config \in Configs, Regular
  PROVE  Closed(Games)
<1>0. Games \subseteq Good
  BY DEF Games
<1>1. LeaveTable(Games)
  BY StandUpGames DEF LeaveTable
<1>2. TakeSeat(Games)
  BY SitDownGames DEF TakeSeat
<1>3. LookOn(Games)
  BY LookonGames DEF LookOn
<1>4. EndGame(Games)
  <2> SUFFICES ASSUME NEW r \in Games, NEW t \in Tables, r.game[t], NEW s \in ConcludeGame(r, t)
               PROVE  s \in Games
    BY DEF EndGame
  <2>1. r \in Good /\ InStep(r, t)
    BY DEF Games, TableOK
  <2>2. s \in Good /\ Local(r, s, t)
    BY <2>1, ConcludeLemma
  <2>3. TableOK(s, t)
    BY <2>1, ConcludeOK
  <2> QED BY <2>2, <2>3, LocalGames
<1>5. StartByClock(Games)
  <2> SUFFICES ASSUME NEW r \in Games, NEW t \in Tables,
                      config.mode = "TIME_CONTROL", ~r.draw[t]
               PROVE  StartGame(r, t) \in Games
    BY DEF StartByClock
  <2>1. r \in Good /\ InStep(r, t)
    BY DEF Games, TableOK
  <2>2. ~r.game[t]
    BY <2>1 DEF InStep
  <2>3. TableOK(StartGame(r, t), t)
    BY <2>1, <2>2, StartOK
  <2>4. StartGame(r, t) \in Good /\ Local(r, StartGame(r, t), t)
    BY <2>1, StartLemma, StartLocal
  <2> QED BY <2>3, <2>4, LocalGames
<1>6. CloseTable(Games)
  <2> SUFFICES ASSUME NEW r \in Games, NEW t \in Tables
               PROVE  [r EXCEPT !.open[t] = FALSE] \in Games
    BY DEF CloseTable
  <2> DEFINE s == [r EXCEPT !.open[t] = FALSE]
  <2>1. r \in Good /\ r \in Rooms
    BY DEF Games, Good
  <2>2. s \in Good
    BY <2>1, GoodClosed DEF Closed, CloseTable
  <2>3. s.user = r.user /\ s.game = r.game /\ s.draw = r.draw
    BY <2>1 DEF Rooms
  <2> HIDE DEF s
  <2>4. \A d \in Tables : SameSeats(r, s, d)
    BY <2>3 DEF SameSeats
  <2> QED BY <2>2, <2>4, SameGames DEF s
<1>7. ComeAndGo(Games)
  <2> SUFFICES ASSUME NEW r \in Games, NEW u \in Users
               PROVE  /\ \A x \in {"NULL", "FREE"} :
                           r.user[u].table = NoTable => [r EXCEPT !.user[u] = Away(x)] \in Games
                      /\ r.user[u].status = "OFFLINE" => [r EXCEPT !.user[u].status = "PLAYING"] \in Games
                      /\ r.user[u].status = "PLAYING"
                           => [r EXCEPT !.user[u] = [@ EXCEPT !.status = "OFFLINE", !.ready = FALSE]] \in Games
    BY DEF ComeAndGo
  <2>0. r.user[u] \in Persons
    BY RestatedForms DEF Games
  <2>1. \A x \in {"NULL", "FREE"} :
          r.user[u].table = NoTable => [r EXCEPT !.user[u] = Away(x)] \in Games
    BY EnterGames
  <2>2. ASSUME r.user[u].status = "OFFLINE" PROVE [r EXCEPT !.user[u].status = "PLAYING"] \in Games
    <3> DEFINE m == [r.user[u] EXCEPT !.status = "PLAYING"]
    <3>1. /\ m \in Persons /\ m.table = r.user[u].table /\ m.chair = r.user[u].chair
          /\ m.status = "PLAYING"
      BY <2>0, <2>2 DEF Persons, Sitting
    <3>2. [r EXCEPT !.user[u].status = "PLAYING"] = Restated(r, u, m)
      BY DEF Restated
    <3> HIDE DEF m
    <3> QED BY <2>2, <3>1, <3>2, ConnectionGames
  <2>3. ASSUME r.user[u].status = "PLAYING"
        PROVE  [r EXCEPT !.user[u] = [@ EXCEPT !.status = "OFFLINE", !.ready = FALSE]] \in Games
    <3> DEFINE m == [r.user[u] EXCEPT !.status = "OFFLINE", !.ready = FALSE]
    <3>1. /\ m \in Persons /\ m.table = r.user[u].table /\ m.chair = r.user[u].chair
          /\ m.status = "OFFLINE"
      BY <2>0, <2>3 DEF Persons, Sitting
    <3>2. [r EXCEPT !.user[u] = [@ EXCEPT !.status = "OFFLINE", !.ready = FALSE]] = Restated(r, u, m)
      BY DEF Restated
    <3> HIDE DEF m
    <3> QED BY <2>3, <3>1, <3>2, ConnectionGames
  <2> QED BY <2>1, <2>2, <2>3
<1>8. GetReady(Games)
  BY LoadedGames, ReadiedGames DEF GetReady
<1> QED BY <1>0, <1>1, <1>2, <1>3, <1>4, <1>5, <1>6, <1>7, <1>8 DEF Closed

GameInv == config \in Configs /\ Room \in Games

\* The rooms with right games are those of the game, which never changes.
LEMMA SameGamesSet ==
  ASSUME config' = config
  PROVE  Games' = Games
<1>1. Chairs' = Chairs /\ ChairCount' = ChairCount
  BY DEF Chairs, ChairCount
<1>2. \A r, t : EfficacyStartGame(r, t, NoChair)' <=> EfficacyStartGame(r, t, NoChair)
  BY <1>1 DEF EfficacyStartGame, Taken
<1>3. \A r, t : TableOK(r, t)' <=> TableOK(r, t)
  BY <1>2 DEF TableOK, InStep, Peopled, TwoPlay, NonePlay, PlaysAt, SitsAt, Sitting
<1>4. Good' = Good
  BY SameGood
<1> QED BY <1>3, <1>4 DEF Games

\* In an empty room there is no game to start.
LEMMA GameInit ==
  ASSUME Init
  PROVE  GameInv
<1>1. config \in Configs /\ Room \in Good
  BY SeatInit DEF SeatInv
<1>2. ASSUME NEW t \in Tables PROVE TableOK(Room, t)
  <2>1. ~Room.game[t] /\ ~Room.draw[t] /\ Room.draw[t] = Room.game[t]
    BY RoomFields DEF Init
  <2>2. \A v \in Users : Room.user[v] = Away("NULL")
    BY RoomFields DEF Init
  <2>3. \A v \in Users : ~SitsAt(Room, t, v)
    BY <2>2, AwayLemma, TableAssumption DEF SitsAt, Away
  <2>4. ~EfficacyStartGame(Room, t, NoChair)
    BY <1>1, <2>3, NoStart
  <2>5. NonePlay(Room, t)
    BY <2>3 DEF NonePlay, PlaysAt, SitsAt, Sitting
  <2> QED BY <2>1, <2>3, <2>4, <2>5 DEF TableOK, InStep
<1> QED BY <1>1, <1>2 DEF GameInv, Games

\* Every step keeps the games right.
LEMMA GameStep ==
  ASSUME GameInv, ~Moves, Regular, [Next]_vars
  PROVE  GameInv'
<1>1. CASE Next
  <2>1. config' = config /\ Room' \in Games
    BY <1>1, GamesClosed, NextStays DEF GameInv
  <2> QED BY <2>1, SameGamesSet DEF GameInv
<1>2. CASE UNCHANGED vars
  <2>1. config' = config /\ Room' = Room
    BY <1>2 DEF vars, Room
  <2> QED BY <2>1, SameGamesSet DEF GameInv
<1> QED BY <1>1, <1>2

\* Right games have players, and no start is missed.
LEMMA GameInvImplies ==
  ASSUME GameInv
  PROVE  GamePlayed /\ NoMissedStart
<1>0. config \in Configs /\ Room \in Good /\ \A t \in Tables : TableOK(Room, t)
  BY DEF GameInv, Games
<1>1. NoMissedStart
  BY <1>0 DEF NoMissedStart, TableOK
<1>2. ASSUME NEW t \in Tables, NonePlay(Room, t) PROVE Players(Room, t) = {}
  BY <1>0, <1>2, PlayersLemma DEF NonePlay
<1>3. ASSUME NEW t \in Tables, game[t], config.mode # "TIME_CONTROL"
      PROVE  Cardinality(Players(Room, t)) >= 2 \/ (config.join /\ Players(Room, t) = {})
  <2>1. Peopled(Room, t)
    BY <1>0, <1>3, RoomFields DEF TableOK
  <2>2. CASE config.join /\ NonePlay(Room, t)
    BY <1>2, <2>2
  <2>3. CASE TwoPlay(Room, t)
    <3>1. PICK v, w \in Users : v # w /\ PlaysAt(Room, t, v) /\ PlaysAt(Room, t, w)
      BY <2>3 DEF TwoPlay
    <3>2. v \in Players(Room, t) /\ w \in Players(Room, t)
      BY <1>0, <3>1, PlayersLemma
    <3>3. IsFiniteSet(Players(Room, t))
      BY <1>0, FinitePlayers
    <3> QED BY <3>1, <3>2, <3>3, OfTwo
  <2> QED BY <2>1, <2>2, <2>3 DEF Peopled
<1>4. ASSUME NEW t \in Tables, ~game[t] PROVE Players(Room, t) = {}
  BY <1>0, <1>2, <1>4, RoomFields DEF TableOK, InStep
<1> QED BY <1>1, <1>3, <1>4 DEF GamePlayed

\* A game that runs is played by two or more, or, where it may be joined late, by
\* nobody, and nobody is left playing or offline at a table without a game:
\* ConcludeGame, the stand-up in the middle of a game and the start that a stand-up
\* may cause, also inside ConcludeGame, keep it, in every start mode, joined late
\* or not, on any number of tables.
THEOREM GamePlayedTheorem ==
  ASSUME ~Moves, Regular
  PROVE  Spec => []GamePlayed
<1>1. Init => GameInv
  BY GameInit
<1>2. GameInv /\ [Next]_vars => GameInv'
  BY GameStep
<1>3. GameInv => GamePlayed
  BY GameInvImplies
<1> QED BY <1>1, <1>2, <1>3, PTL DEF Spec

\* The room never rests with a table where EfficacyStartGame would let the game
\* start: every way for the last user to become ready, or to leave, looks for it.
THEOREM NoMissedStartTheorem ==
  ASSUME ~Moves, Regular
  PROVE  Spec => []NoMissedStart
<1>1. Init => GameInv
  BY GameInit
<1>2. GameInv /\ [Next]_vars => GameInv'
  BY GameStep
<1>3. GameInv => NoMissedStart
  BY GameInvImplies
<1> QED BY <1>1, <1>2, <1>3, PTL DEF Spec
=============================================================================
