----------------------------- MODULE TableFrame -----------------------------
(***************************************************************************)
(* The tables of a room: CTableFrame and the requests of the attemper sink *)
(* that seat users, for rooms that are neither a match nor private.        *)
(*                                                                         *)
(* Handlers call each other in the middle of their work: standing up may   *)
(* make the game end, ending the game stands users up, and a stand-up may  *)
(* start the next game.  So an operation is an operator from a state of    *)
(* the room (a record, made from the variables by Room) to the set of the  *)
(* states it may lead to, and an action makes the room Become one of them. *)
(*                                                                         *)
(* The game itself is a plug-in: it ends a game on its own timers, and     *)
(* decides whether a game goes on when a player leaves (module OxGame is   *)
(* one).  The fee and the scores are in module UserScore, the connections  *)
(* in Sessions.                                                            *)
(* Passwords, rules that close the room and robots are left out.           *)
(***************************************************************************)
EXTENDS Naturals, FiniteSets, FiniteSetsExt

CONSTANTS
  Users, Tables,
  Configs,      \* chairs, start mode and cbDynamicJoin of the games considered
  Moves,        \* may a user ask for a seat without standing up first
  NoUser, NoTable, NoChair

ASSUME TableAssumption ==
  /\ Configs \subseteq [mode : {"ALL_READY", "FULL_READY", "PAIR_READY", "TIME_CONTROL"},
                        join : BOOLEAN, chairs : Nat \ {0}]
  /\ Moves \in BOOLEAN
  /\ NoUser \notin Users /\ NoTable \notin Tables /\ NoChair \notin Nat

VARIABLES
  config,  \* m_wChairCount, m_cbStartMode and the rule for joining
  seat,    \* table -> chair -> user, m_TableUserItemArray
  lookon,  \* table -> users, m_LookonUserItemArray
  user,    \* user -> [status, table, chair, ready], ready is m_bClientReady
  game,    \* table -> m_bGameStarted
  draw,    \* table -> m_bDrawStarted
  open     \* table -> m_bTableStarted

vars == <<config, seat, lookon, user, game, draw, open>>

ChairCount == config.chairs
Chairs == 0..(ChairCount - 1)

Away(status) == [status |-> status, table |-> NoTable, chair |-> NoChair, ready |-> FALSE]

Init ==
  /\ config \in Configs
  /\ seat = [t \in Tables |-> [c \in Chairs |-> NoUser]]
  /\ lookon = [t \in Tables |-> {}]
  /\ user = [u \in Users |-> Away("NULL")]
  /\ game = [t \in Tables |-> FALSE]
  /\ draw = [t \in Tables |-> FALSE]
  /\ open = [t \in Tables |-> FALSE]

Room == [seat |-> seat, lookon |-> lookon, user |-> user,
         game |-> game, draw |-> draw, open |-> open]

Becomes(rooms) ==
  \E r \in rooms :
    /\ seat' = r.seat /\ lookon' = r.lookon /\ user' = r.user
    /\ game' = r.game /\ draw' = r.draw /\ open' = r.open
    /\ UNCHANGED config

-----------------------------------------------------------------------------
(* CTableFrame.                                                            *)

Taken(r, t) == {c \in Chairs : r.seat[t][c] # NoUser}       \* GetSitUserCount
Seated(r, t) == {r.seat[t][c] : c \in Taken(r, t)}
Players(r, t) == {u \in Seated(r, t) : r.user[u].status \in {"PLAYING", "OFFLINE"}}

\* Faulty variant: one user who is ready is enough.
StartsAlone(r, t, chair) ==
  /\ ~r.game[t] /\ Taken(r, t) # {}
  /\ \A c \in Taken(r, t) : LET u == r.user[r.seat[t][c]]
                            IN u.ready /\ (c = chair \/ u.status = "READY")

\* May the game start?  chair is that of a user who has just become ready.
EfficacyStartGame(r, t, chair) ==
  LET n == Cardinality(Taken(r, t))
      half == ChairCount \div 2
  IN /\ ~r.game[t]
     /\ \A c \in Taken(r, t) : LET u == r.user[r.seat[t][c]]
                               IN u.ready /\ (c = chair \/ u.status = "READY")
     /\ CASE config.mode = "ALL_READY"  -> n >= 2
          [] config.mode = "FULL_READY" -> n = ChairCount
          [] config.mode = "PAIR_READY" ->
               \/ n = ChairCount
               \/ /\ n >= 2 /\ n % 2 = 0
                  /\ \A c \in 0..(half - 1) : c \in Taken(r, t) <=> c + half \in Taken(r, t)
          [] OTHER -> FALSE

\* The first draw of a game takes everyone who sits at the table into it.
StartGame(r, t) ==
  LET joins(u) == /\ ~r.game[t] /\ u \in Seated(r, t)
                  /\ r.user[u].status \notin {"OFFLINE", "PLAYING"}
      at(u) == Min({c \in Chairs : r.seat[t][c] = u})
  IN IF r.draw[t] THEN r
     ELSE [r EXCEPT !.game[t] = TRUE, !.draw[t] = TRUE, !.open[t] = TRUE,
                    !.user = [u \in Users |-> IF joins(u)
                      THEN [r.user[u] EXCEPT !.status = "PLAYING", !.table = t, !.chair = at(u)]
                      ELSE r.user[u]]]

ConcludeTable(r, t) ==
  IF ~r.game[t] /\ (Taken(r, t) = {} \/ config.mode # "TIME_CONTROL")
    THEN [r EXCEPT !.open[t] = FALSE] ELSE r

\* Faulty variant: the others are not looked at when someone has left.
LeaveStartsNothing(r, t, u, gone) ==
  {ConcludeTable([r EXCEPT !.seat[t][r.user[u].chair] = NoUser,
                           !.user[u] = Away(IF gone THEN "NULL" ELSE "FREE")], t)}

\* The second half of PerformStandUpAction: the chair is freed, and if those
\* who stay were only waiting for u the next game starts.
LeaveSeat(r, t, u, gone) ==
  {IF EfficacyStartGame(left, t, NoChair) THEN StartGame(left, t) ELSE left :
     left \in {ConcludeTable([r EXCEPT !.seat[t][r.user[u].chair] = NoUser,
                                       !.user[u] = Away(IF gone THEN "NULL" ELSE "FREE")], t)}}

PerformLookonAction(r, t, c, u) ==
  [r EXCEPT !.lookon[t] = @ \union {u},
            !.user[u] = [status |-> "LOOKON", table |-> t, chair |-> c, ready |-> TRUE]]

\* Faulty variant: users who are offline keep their seats for the next game.
ConcludeKeepsOffline(r, t) ==
  {ConcludeTable([r EXCEPT !.draw[t] = FALSE, !.game[t] = FALSE,
     !.user = [u \in Users |-> IF u \in Seated(r, t) /\ r.user[u].status # "OFFLINE"
                 THEN [r.user[u] EXCEPT !.status = "SIT"] ELSE r.user[u]]], t)}

\* The first loop of ConcludeGame: whoever is offline leaves the room, the others sit.
SitOrLeave(s, t, c) ==
  LET u == s.seat[t][c]
  IN IF u = NoUser THEN {s}
     ELSE IF s.user[u].status = "OFFLINE" THEN LeaveSeat(s, t, u, TRUE)
     ELSE {[s EXCEPT !.user[u] = [@ EXCEPT !.status = "SIT", !.table = t, !.chair = c]]}

\* The second: some, those with too little score, become lookers-on.
Kick(s, t, c) ==
  LET u == s.seat[t][c]
  IN IF u = NoUser THEN {s}
     ELSE {s} \union {PerformLookonAction(up, t, c, u) : up \in LeaveSeat(s, t, u, FALSE)}

\* Both loops go chair by chair.  In a game that may be joined late, the first
\* may start the next game, when all who were to stay had got ready during the
\* last one: it then makes them sit, and the second loop is left out.
ConcludeGame(r, t) ==
  LET sat[n \in 0..ChairCount] ==
        IF n = 0 THEN {[r EXCEPT !.draw[t] = FALSE, !.game[t] = FALSE]}
        ELSE UNION {SitOrLeave(s, t, n - 1) : s \in sat[n - 1]}
      kicked[n \in 0..ChairCount] ==
        IF n = 0 THEN {s \in sat[ChairCount] : ~s.game[t]}
        ELSE UNION {Kick(s, t, n - 1) : s \in kicked[n - 1]}
  IN {ConcludeTable(s, t) : s \in kicked[ChairCount] \union {s \in sat[ChairCount] : s.game[t]}}

\* OnEventGameConclude of the plug-in: does the game end when u leaves
\* it?  Never on a clock, and always when fewer than two others play.
Ends(r, t, u) ==
  IF config.mode = "TIME_CONTROL" THEN {FALSE}
  ELSE IF Cardinality(Players(r, t) \ {u}) < 2 THEN {TRUE} ELSE {TRUE, FALSE}

\* PerformStandUpAction on table t.  When u plays, the plug-in may end the game,
\* and that may already have taken the chair away.
PerformStandUpAction(r, t, u) ==
  LET me == r.user[u]
      plays == r.game[t] /\ me.status \in {"PLAYING", "OFFLINE"}
      concluded == IF ~plays THEN {r}
                   ELSE UNION {IF ends THEN ConcludeGame(r, t) ELSE {r} : ends \in Ends(r, t, u)}
  IN IF me.status = "LOOKON"
       THEN {IF u \in r.lookon[t]
               THEN [r EXCEPT !.lookon[t] = @ \ {u}, !.user[u] = Away("FREE")]
               ELSE r}
       ELSE UNION {IF s.seat[t][me.chair] = u THEN LeaveSeat(s, t, u, me.status = "OFFLINE")
                   ELSE {s} : s \in concluded}

\* What the requests do first with a user who is at table t.
StandUpFrom(r, t, u) ==
  IF r.user[u].table = NoTable THEN {r} ELSE PerformStandUpAction(r, t, u)

CanSit(r, t, c) == (r.game[t] => config.join) /\ r.seat[t][c] = NoUser

\* A user sits down; in a game on a clock it plays at once.
PerformSitDownAction(r, t, c, u) ==
  [r EXCEPT !.seat[t][c] = u,
            !.user[u] = [status |-> IF r.game[t] /\ config.mode = "TIME_CONTROL"
                                      THEN "PLAYING" ELSE "SIT",
                         table |-> t, chair |-> c, ready |-> FALSE]]

-----------------------------------------------------------------------------
(* What the plug-in does on its own timers.                                *)

\* The game ends: whoever does not play in time is played for.
GameEnds(t) == game[t] /\ Becomes(ConcludeGame(Room, t))

\* A game on a clock starts.
ClockStarts(t) == config.mode = "TIME_CONTROL" /\ ~draw[t] /\ Becomes({StartGame(Room, t)})

-----------------------------------------------------------------------------
(* Requests.                                                               *)

Online(u) == user[u].status \notin {"NULL", "OFFLINE"}
AtTable(u) == user[u].table # NoTable

\* A user enters the room, or comes back to the game it plays.
OnEventUserLogon(u) ==
  /\ ~Online(u)
  /\ Becomes({IF user[u].status = "NULL" THEN [Room EXCEPT !.user[u] = Away("FREE")]
              ELSE [Room EXCEPT !.user[u].status = "PLAYING"]})

\* OnTCPNetworkSubUserSitDown for a chair.  The stand-up is asked of the table
\* that was requested; fits are the score, address and plug-in rules.
OnTCPNetworkSubUserSitDown(u, t, c, fits) ==
  LET me == user[u]
  IN /\ Online(u) /\ me.status # "PLAYING" /\ seat[t][c] # u
     /\ Moves \/ me.table \in {NoTable, t}
     /\ Becomes({IF fits /\ CanSit(up, t, c) THEN PerformSitDownAction(up, t, c, u)
                 ELSE IF me.status = "LOOKON" /\ me.chair # NoChair
                   THEN PerformLookonAction(up, me.table, me.chair, u)
                 ELSE up : up \in StandUpFrom(Room, t, u)})

\* UserImmediately: the server chooses a free chair, at a table with users if
\* there is one, and lets the user look on if there is none or the rules refuse.
\* Nobody is asked to stand up.
UserImmediately(u, fits) ==
  LET free == {s \in Tables \X Chairs : CanSit(Room, s[1], s[2])}
      social == {s \in free : Taken(Room, s[1]) # {}}
  IN /\ Online(u) /\ user[u].status # "PLAYING"
     /\ Moves \/ ~AtTable(u)
     /\ Becomes(IF fits /\ free # {}
          THEN {PerformSitDownAction(Room, s[1], s[2], u) :
                  s \in IF social # {} THEN social ELSE free}
          ELSE {PerformLookonAction(Room, t, c, u) : t \in Tables, c \in Chairs})

\* OnTCPNetworkSubUserChairReq: another table, one with users if possible, or
\* another chair at this one as long as no game runs there.
OnTCPNetworkSubUserChairReq(u, fits) ==
  LET mine == user[u].table
      free == {s \in Tables \X Chairs : s[1] # mine /\ CanSit(Room, s[1], s[2])}
      social == {s \in free : Taken(Room, s[1]) # {}}
      same == {s \in {mine} \X Chairs : /\ mine # NoTable /\ ~game[mine]
                                        /\ seat[mine][s[2]] = NoUser}
  IN /\ Online(u) /\ user[u].status # "PLAYING"
     /\ \E s \in IF social # {} THEN social ELSE IF free # {} THEN free ELSE same :
          Becomes({IF fits /\ CanSit(up, s[1], s[2])
                     THEN PerformSitDownAction(up, s[1], s[2], u) ELSE up :
                     up \in StandUpFrom(Room, mine, u)})

\* OnTCPNetworkSubUserStandUp: a player must insist.
OnTCPNetworkSubUserStandUp(u) ==
  /\ Online(u) /\ AtTable(u) /\ user[u].chair # NoChair
  /\ Becomes(PerformStandUpAction(Room, user[u].table, u))

\* Faulty variant: who starts to look on is not stood up first.
LookonKeepsSeat(u, t) ==
  LET me == user[u]
  IN /\ Online(u) /\ me.status # "PLAYING" /\ ~(me.status = "LOOKON" /\ me.table = t)
     /\ Becomes({PerformLookonAction(Room, t, me.chair, u)})

OnTCPNetworkSubUserLookon(u, t) ==
  LET me == user[u]
  IN /\ Online(u) /\ me.status # "PLAYING" /\ ~(me.status = "LOOKON" /\ me.table = t)
     /\ Becomes({PerformLookonAction(up, t, me.chair, u) : up \in StandUpFrom(Room, me.table, u)})

\* OnTCPNetworkSubMemberKickUser and OnTCPNetworkSubManagerKickUser: one who
\* does not play is stood up, one who is offline in a game too; a manager also
\* puts it out of the room.
KickUser(u, manager) ==
  /\ user[u].status \notin {"NULL", "PLAYING"}
  /\ Becomes({IF manager THEN [up EXCEPT !.user[u] = Away("NULL")] ELSE up :
                 up \in StandUpFrom(Room, user[u].table, u)})

\* SUB_GF_GAME_OPTION: the client has loaded the game.
GameOption(u) ==
  LET told == [Room EXCEPT !.user[u].ready = TRUE]
      t == user[u].table
  IN /\ Online(u) /\ AtTable(u) /\ user[u].chair # NoChair
     /\ Becomes({IF user[u].status = "READY" /\ EfficacyStartGame(told, t, user[u].chair)
                   THEN StartGame(told, t) ELSE told})

\* SUB_GF_USER_READY.
UserReady(u) ==
  LET t == user[u].table
  IN /\ user[u].status = "SIT"
     /\ Becomes({IF EfficacyStartGame(Room, t, user[u].chair) THEN StartGame(Room, t)
                 ELSE [Room EXCEPT !.user[u].status = "READY"]})

\* OnEventTCPNetworkShut and OnEventUserOffLine: a player stays, as offline,
\* another user stands up and is deleted.
OnEventUserOffLine(u) ==
  /\ Online(u)
  /\ Becomes(IF user[u].status = "PLAYING"
       THEN {[Room EXCEPT !.user[u] = [@ EXCEPT !.status = "OFFLINE", !.ready = FALSE]]}
       ELSE {[up EXCEPT !.user[u] = Away("NULL")] : up \in StandUpFrom(Room, user[u].table, u)})

\* OnTCPNetworkSubDismissGame: a manager ends a game.
DismissGame(t) ==
  /\ game[t]
  /\ Becomes({IF ~over.game[t] THEN [over EXCEPT !.open[t] = FALSE] ELSE over :
                 over \in ConcludeGame(Room, t)})

UserStep(u) ==
  \/ OnEventUserLogon(u) \/ OnEventUserOffLine(u)
  \/ GameOption(u) \/ UserReady(u) \/ OnTCPNetworkSubUserStandUp(u)
  \/ \E fits \in BOOLEAN : \/ UserImmediately(u, fits) \/ OnTCPNetworkSubUserChairReq(u, fits)
                           \/ \E t \in Tables, c \in Chairs :
                                OnTCPNetworkSubUserSitDown(u, t, c, fits)
  \/ \E t \in Tables : OnTCPNetworkSubUserLookon(u, t)
  \/ \E manager \in BOOLEAN : KickUser(u, manager)

TableStep(t) == GameEnds(t) \/ ClockStarts(t) \/ DismissGame(t)

Next == (\E u \in Users : UserStep(u)) \/ (\E t \in Tables : TableStep(t))

Spec == Init /\ [][Next]_vars

-----------------------------------------------------------------------------
(* Properties.                                                             *)

\* The two records of who sits where agree: a chair holds exactly the users who
\* believe to sit there, and the list of lookers-on exactly those who look on.
SeatsAgree ==
  /\ \A t \in Tables, c \in Chairs, u \in Users :
       seat[t][c] = u <=> /\ user[u].table = t /\ user[u].chair = c
                          /\ user[u].status \in {"SIT", "READY", "PLAYING", "OFFLINE"}
  /\ \A t \in Tables, u \in Users :
       u \in lookon[t] <=> user[u].table = t /\ user[u].status = "LOOKON"

\* Only a game in progress has players, and it has two or more: nobody is left
\* playing or offline at a table where no game runs.  A game that may be joined
\* late can also run without any player, see StartPlayed, but never with one.
GamePlayed ==
  \A t \in Tables :
    /\ ~game[t] => Players(Room, t) = {}
    /\ game[t] /\ config.mode # "TIME_CONTROL" =>
         \/ Cardinality(Players(Room, t)) >= 2
         \/ config.join /\ Players(Room, t) = {}

\* A game that starts at a table at rest has two players or more, so that one
\* without players can only come out of the end of another game.
StartPlayed ==
  [][\A t \in Tables : ~game[t] /\ game'[t] /\ config.mode # "TIME_CONTROL"
                        => Cardinality(Players(Room, t)') >= 2]_vars

\* No start is missed: the room never rests while everyone at a table is ready
\* and the game could start.  The start is looked for when a user becomes ready,
\* has loaded the game or leaves.
NoMissedStart == \A t \in Tables : ~EfficacyStartGame(Room, t, NoChair)

-----------------------------------------------------------------------------
(* What the code says of itself, and does not keep.                        *)

\* A game that runs is played.
GamesHavePlayers ==
  \A t \in Tables : game[t] /\ config.mode # "TIME_CONTROL" => Players(Room, t) # {}
=============================================================================
