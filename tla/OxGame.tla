------------------------------- MODULE OxGame -------------------------------
(***************************************************************************)
(* The game 牛牛: CTableFrameSink, the plug-in of a table of its room.     *)
(*                                                                         *)
(* A game has three phases.  In CALL the players are asked in turn to be   *)
(* the banker, in SCORE the others bet, in PLAYING the cards are dealt and *)
(* everyone opens; then each bet is settled against the banker.  Players   *)
(* may leave at any moment and other users may join for the next game, and *)
(* a timer plays for whoever does not answer.                              *)
(*                                                                         *)
(* Handlers call each other, so an operation is an operator from a state   *)
(* of the object to the set of the states it may lead to.  Cards are       *)
(* abstracted to their type and to whether the highest card beats the      *)
(* banker's.  Amounts are those before the tax, which is taken from them.  *)
(***************************************************************************)
EXTENDS Integers, FiniteSets, FiniteSetsExt, Functions

CONSTANTS
  Players,   \* GAME_PLAYER
  Scores,    \* scores the users come with
  Types,     \* card types that are dealt
  NoChair    \* INVALID_CHAIR

ASSUME OxAssumption ==
  /\ Players \in Nat \ {0, 1} /\ Scores \subseteq Nat
  /\ Types \subseteq (0..10) \union {104, 105} /\ NoChair \notin Nat

Chairs == 0..(Players - 1)

VARIABLES
  sink, \* the members of CTableFrameSink: phase, play (m_cbPlayStatus), current,
        \* first, banker, called (m_bCallStatus), turnMax, table (m_lTableScore),
        \* hand, ox (m_bOxCard), exit (m_lExitScore); and the users' side: score
        \* (GetUserScore), paid (the sum of what was written to the players of
        \* this game), charged (the same for users who joined), late (a player
        \* left after the deal)
  timer \* IDI_SO_OPERATE: "SET" by a start or an answer, "AGAIN" when it has fired, "OUT"

Zero == [c \in Chairs |-> 0]
Cards == [type : Types, high : BOOLEAN]
NoCards == [c \in Chairs |-> [type |-> 0, high |-> FALSE]]
Closed == 255

OxVars == <<sink, timer>>

OxInit ==
  /\ timer = "SET"
  /\ sink = [phase |-> "FREE", play |-> [c \in Chairs |-> "NULL"], current |-> NoChair,
             first |-> NoChair, banker |-> NoChair, called |-> {}, turnMax |-> Zero,
             table |-> Zero, hand |-> NoCards, ox |-> [c \in Chairs |-> Closed], exit |-> 0,
             score |-> Zero, paid |-> 0, charged |-> 0, late |-> FALSE]

Playing(s) == {c \in Chairs : s.play[c] = "PLAYING"}
Idlers(s) == Playing(s) \ {s.banker}

\* The first chair from c on, around the table, whose user plays.
NextPlaying(s, c) ==
  (c + Min({d \in Chairs : s.play[(c + d) % Players] = "PLAYING"})) % Players

\* GetTimes.
GetTimes(type) ==
  CASE type < 7 -> 1 [] type = 7 -> 2 [] type = 8 -> 3 [] type = 9 -> 4 [] OTHER -> 5

\* CompareCard of the cards of c and those of the banker.
CompareCard(s, c) ==
  IF s.ox[c] # s.ox[s.banker] THEN s.ox[c] > s.ox[s.banker]
  ELSE IF s.ox[c] = 1 /\ s.hand[c].type # s.hand[s.banker].type
    THEN s.hand[c].type > s.hand[s.banker].type
  ELSE s.hand[c].high

\* The quotient of C: towards zero.
Quotient(a, b) == IF a >= 0 THEN a \div b ELSE -((-a) \div b)

-----------------------------------------------------------------------------
\* Faulty variant: the bets of those who left stay for the next game.
KeepsExit(s) ==
  [s EXCEPT !.phase = "FREE", !.play = [c \in Chairs |-> "NULL"], !.current = NoChair,
            !.called = {}, !.turnMax = Zero, !.table = Zero, !.hand = NoCards,
            !.ox = [c \in Chairs |-> Closed]]

\* ConcludeGame and RepositionSink: the banker and the first caller are kept.
RepositionSink(s) ==
  [s EXCEPT !.phase = "FREE", !.play = [c \in Chairs |-> "NULL"], !.current = NoChair,
            !.called = {}, !.turnMax = Zero, !.table = Zero, !.hand = NoCards,
            !.ox = [c \in Chairs |-> Closed], !.exit = 0]

\* WriteTableScore of result[c] to whoever sits on the chairs in S now.
WriteTableScore(s, S, result) ==
  [s EXCEPT !.paid = @ + SumFunctionOnSet(result, {c \in S : s.play[c] # "DYNAMIC"}),
            !.charged = @ + SumFunctionOnSet(result, {c \in S : s.play[c] = "DYNAMIC"})]

\* OnEventGameConclude with GER_NORMAL.  A banker who cannot pay gives all it
\* has, and the winners get a share; who left is shown with the bet as its loss.
GameEnd(s) ==
  LET times(c) == IF s.ox[c] = 1 THEN GetTimes(s.hand[c].type) ELSE 1
      gain == [c \in Chairs |->
                 IF c \notin Idlers(s) THEN 0
                 ELSE IF CompareCard(s, c) THEN s.table[c] * times(c)
                 ELSE -(s.table[c] * times(s.banker))]
      net == s.exit - SumFunctionOnSet(gain, Idlers(s))
      lost == -SumFunctionOnSet(gain, {c \in Idlers(s) : gain[c] < 0})
      short == s.score[s.banker] + net < 0
      share(g) == g - Quotient(g * (-net - s.score[s.banker] - lost), -net)
      result == [c \in Chairs |->
                   IF c = s.banker THEN IF short THEN -s.score[c] ELSE net
                   ELSE IF c \notin Playing(s) /\ s.table[c] > 0 THEN -s.table[c]
                   ELSE IF short /\ gain[c] > 0 THEN share(gain[c]) ELSE gain[c]]
  IN RepositionSink(WriteTableScore(s, {c \in Chairs : s.play[c] # "NULL"}, result))

-----------------------------------------------------------------------------
\* Faulty variant: the limit forgets that the banker plays against several.
LimitPerPlayer(s, c, yes) ==
  LET called == s.called \union {c}
      bank == NextPlaying(s, c)
  IN IF s.phase # "CALL" \/ s.current # c THEN s
     ELSE IF yes \/ Playing(s) \subseteq called
       THEN [s EXCEPT !.phase = "SCORE", !.called = called, !.current = NoChair, !.banker = bank,
               !.turnMax = [i \in Chairs |-> IF i \notin Playing(s) \ {bank} THEN @[i]
                              ELSE Min({s.score[bank] \div 5, s.score[i] \div 5})]]
     ELSE [s EXCEPT !.called = called, !.current = NextPlaying(s, (c + 1) % Players)]

\* OnUserCallBanker: the next one is asked, or there is a banker (the last one
\* if nobody wants to) and the limits for the bets are fixed.
OnUserCallBanker(s, c, yes) ==
  LET called == s.called \union {c}
      bank == NextPlaying(s, c)
      others == Cardinality(Playing(s)) - 1
  IN IF s.phase # "CALL" \/ s.current # c THEN s
     ELSE IF yes \/ Playing(s) \subseteq called
       THEN [s EXCEPT !.phase = "SCORE", !.called = called, !.current = NoChair, !.banker = bank,
               !.turnMax = [i \in Chairs |-> IF i \notin Playing(s) \ {bank} THEN @[i]
                              ELSE Min({(s.score[bank] \div others) \div 5, s.score[i] \div 5})]]
     ELSE [s EXCEPT !.called = called, !.current = NextPlaying(s, (c + 1) % Players)]

\* OnUserAddScore: a player bets, or bets again, or l is 0 for one who left.
\* When all have bet the cards are dealt.
OnUserAddScore(s, c, l) ==
  LET fits == IF s.play[c] = "PLAYING" THEN 0 < l /\ l <= s.turnMax[c] ELSE l = 0
      bet == IF l > 0 THEN [s EXCEPT !.table[c] = l] ELSE s
      deals == [Playing(s) -> Cards]
  IN IF s.phase # "SCORE" \/ ~fits THEN {s}
     ELSE IF \A i \in Idlers(s) : bet.table[i] > 0
       THEN {[bet EXCEPT !.phase = "PLAYING",
                !.hand = [i \in Chairs |-> IF i \in Playing(s) THEN h[i] ELSE @[i]]] : h \in deals}
     ELSE {bet}

\* OnUserOpenCard: one without points may not claim them, great cards are
\* always claimed.  When all have opened the game ends.
OnUserOpenCard(s, c, claim) ==
  LET type == s.hand[c].type
      open == [s EXCEPT !.ox[c] = IF claim \/ (s.play[c] = "PLAYING" /\ type >= 102) THEN 1 ELSE 0]
  IN IF s.phase # "PLAYING" \/ s.ox[c] # Closed \/ (claim /\ type = 0) THEN {s}
     ELSE {IF \A i \in Playing(s) : open.ox[i] # Closed THEN GameEnd(open) ELSE open}

-----------------------------------------------------------------------------
(* OnEventGameConclude with GER_USER_LEAVE or GER_NETWORK_ERROR, and the   *)
(* stand-up that follows it.                                               *)

\* The banker leaves: all who bet win.
BankerLeaves(s, c) ==
  LET gain == [i \in Chairs |->
                 s.table[i] * IF s.phase = "PLAYING" THEN GetTimes(s.hand[i].type) ELSE 1]
      won == SumFunctionOnSet(gain, Playing(s))
      net == s.exit - won
      short == s.score[c] + net < 0
      result == [i \in Chairs |->
                   IF i = c THEN IF short THEN -s.score[c] ELSE net
                   ELSE IF short THEN gain[i] - Quotient(gain[i] * (won - s.score[c]), won)
                   ELSE gain[i]]
  IN {RepositionSink(WriteTableScore(s, Playing(s) \union {c}, result))}

\* Another player leaves: its bet is lost to the banker.  If that leaves the
\* banker alone the game ends, otherwise it goes on without this player; after
\* the end of the game there is nobody to write to if the user is offline.
IdlerLeaves(s, c, offline) ==
  LET times == IF s.phase = "SCORE" THEN 1 ELSE GetTimes(s.hand[s.banker].type)
      loss == s.table[c] * times
      left == [s EXCEPT !.exit = @ + times * loss, !.table[c] = times * loss]
      result == [i \in Chairs |-> IF i = c THEN -loss ELSE left.exit]
      write(t) == IF loss > 0 THEN WriteTableScore(t, {c}, result) ELSE t
  IN IF Cardinality(Playing(s)) = 1
       THEN {RepositionSink(WriteTableScore(write(left), {s.banker}, result))}
     ELSE IF s.phase = "SCORE"
       THEN IF left.table[c] = 0 THEN OnUserAddScore(left, c, 0) ELSE {write(left)}
     ELSE IF s.ox[c] = Closed
       THEN {IF t.phase = "FREE" /\ offline THEN t ELSE write(t) : t \in OnUserOpenCard(left, c, FALSE)}
     ELSE {left}

\* Faulty variant: the turn stays with the caller who left.
LeaveKeepsTurn(s, c, offline) ==
  LET gone == [s EXCEPT !.play[c] = "NULL", !.turnMax[c] = 0,
                        !.late = @ \/ s.phase = "PLAYING"]
  IN IF s.phase # "CALL"
       THEN IF c = s.banker THEN BankerLeaves(gone, c) ELSE IdlerLeaves(gone, c, offline)
     ELSE IF Cardinality(Playing(gone)) = 1 THEN {RepositionSink(gone)} ELSE {gone}

UserLeaves(s, c, offline) ==
  LET gone == [s EXCEPT !.play[c] = "NULL", !.turnMax[c] = 0,
                        !.late = @ \/ s.phase = "PLAYING"]
  IN IF s.phase # "CALL"
       THEN IF c = s.banker THEN BankerLeaves(gone, c) ELSE IdlerLeaves(gone, c, offline)
     ELSE IF Cardinality(Playing(gone)) = 1 THEN {RepositionSink(gone)}
     ELSE {IF s.current = c THEN OnUserCallBanker(gone, c, FALSE) ELSE gone}

-----------------------------------------------------------------------------
(* Actions.                                                                *)

\* SetGameTimer: the time begins anew, but if it had run out its event may already
\* be in the queue of the attemper engine, and is handled like any other.
SetGameTimer == timer' = "SET" \/ (timer = "OUT" /\ UNCHANGED timer)

\* OnEventGameStart: those in S sit at the table and play; the first caller is
\* the next one after that of the last game.
OnEventGameStart ==
  /\ sink.phase = "FREE"
  /\ \E S \in SUBSET Chairs, from \in Chairs :
       /\ Cardinality(S) >= 2
       /\ sink.first # NoChair => from = (sink.first + 1) % Players
       /\ \E sc \in [S -> Scores] :
            LET dealt == [sink EXCEPT !.play = [c \in Chairs |-> IF c \in S THEN "PLAYING" ELSE "NULL"]]
                first == NextPlaying(dealt, from)
            IN sink' = [dealt EXCEPT !.phase = "CALL", !.first = first, !.current = first,
                 !.score = [c \in Chairs |-> IF c \in S THEN sc[c] ELSE 0],
                 !.paid = 0, !.charged = 0, !.late = FALSE]
  /\ SetGameTimer

\* The players' answers, for those the table says are playing, without the ones
\* that are refused: a bet out of bounds and points that are not there.
CallBanker(c, yes) == c \in Playing(sink) /\ sink' = OnUserCallBanker(sink, c, yes)
BetScore(c, l) ==
  /\ c \in Playing(sink)
  /\ sink.phase = "SCORE" => 0 < l /\ l <= sink.turnMax[c]
  /\ sink' \in OnUserAddScore(sink, c, l)
OpenCard(c, claim) ==
  /\ c \in Playing(sink)
  /\ sink.phase = "PLAYING" /\ sink.ox[c] = Closed => ~(claim /\ sink.hand[c].type = 0)
  /\ sink' \in OnUserOpenCard(sink, c, claim)

\* OnGameMessage: an answer sets the timer anew, also one that comes too late, out
\* of turn or for the second time and changes nothing.
OnGameMessage ==
  /\ \E c \in Chairs :
       \/ \E b \in BOOLEAN : CallBanker(c, b) \/ OpenCard(c, b)
       \/ \E l \in {1, sink.turnMax[c]} : BetScore(c, l)
  /\ SetGameTimer

\* A player leaves the game, by itself or after the connection broke.
Leave(c, offline) ==
  c \in Playing(sink) /\ sink' \in UserLeaves(sink, c, offline) /\ UNCHANGED timer

\* OnActionUserSitDown and OnActionUserStandUp during a game.
OnActionUserSitDown(c) ==
  /\ sink.phase # "FREE" /\ sink.play[c] = "NULL"
  /\ sink' = [sink EXCEPT !.play[c] = "DYNAMIC"] /\ UNCHANGED timer
OnActionUserStandUp(c) ==
  /\ sink.play[c] = "DYNAMIC"
  /\ sink' = [sink EXCEPT !.play[c] = "NULL"] /\ UNCHANGED timer

\* Faulty variant: the timer does not open the cards of the banker.
SkipsBanker(phase, s, c) ==
  IF c \notin Playing(s) \/ c = s.banker THEN {s}
  ELSE IF phase = "SCORE"
    THEN IF s.table[c] > 0 THEN {s} ELSE OnUserAddScore(s, c, s.turnMax[c] \div 8)
  ELSE OnUserOpenCard(s, c, FALSE)

\* The timer's answer for chair c, in the phase in which it fired.
Answer(phase, s, c) ==
  IF c \notin Playing(s) THEN {s}
  ELSE IF phase = "SCORE"
    THEN IF s.table[c] > 0 \/ c = s.banker THEN {s}
         ELSE OnUserAddScore(s, c, s.turnMax[c] \div 8)
  ELSE OnUserOpenCard(s, c, FALSE)

\* OnTimerMessage: whoever has not answered is answered for, chair by chair.
OnTimerMessage ==
  LET after[n \in 0..Players] ==
        IF n = 0 THEN {sink} ELSE UNION {Answer(sink.phase, s, n - 1) : s \in after[n - 1]}
  IN /\ timer = "OUT" /\ timer' = "AGAIN"
     /\ sink.phase # "FREE"
     /\ IF sink.phase = "CALL" THEN sink' = OnUserCallBanker(sink, sink.current, FALSE)
        ELSE sink' \in after[Players]

\* Forty seconds pass without an answer.
TimeRunsOut ==
  sink.phase # "FREE" /\ timer # "OUT" /\ timer' = "OUT" /\ UNCHANGED sink

OxNext ==
  \/ OnEventGameStart \/ OnGameMessage \/ OnTimerMessage \/ TimeRunsOut
  \/ \E c \in Chairs : \/ OnActionUserSitDown(c) \/ OnActionUserStandUp(c)
                       \/ \E offline \in BOOLEAN : Leave(c, offline)

\* The timer is set when a game starts and whenever it has fired during a game;
\* a message sets it anew, so that it fires once the messages have ceased.
OxSpec == OxInit /\ [][OxNext]_OxVars /\ WF_OxVars(TimeRunsOut) /\ WF_OxVars(OnTimerMessage)

-----------------------------------------------------------------------------
(* Properties.                                                             *)

\* A game never waits for nobody: in every phase there is a player, still in
\* the game, whose answer is missing, and a banker who has not left.  Nothing
\* else would take the game on when the one it waited for has gone.
WaitsForPlayer ==
  CASE sink.phase = "CALL" -> sink.current \in Playing(sink) \ sink.called
    [] sink.phase = "SCORE" -> /\ sink.banker \in Playing(sink)
                               /\ \E c \in Idlers(sink) : sink.table[c] = 0
    [] sink.phase = "PLAYING" -> /\ sink.banker \in Playing(sink)
                                 /\ \E c \in Playing(sink) : sink.ox[c] = Closed
    [] OTHER -> TRUE

\* The bets are covered whatever the cards: the banker can pay every player who
\* still plays five times the bet, and every player the banker.  So the rule
\* for a banker who cannot pay is never needed.
BetsCovered ==
  sink.phase \in {"SCORE", "PLAYING"} =>
    /\ 5 * SumFunctionOnSet(sink.table, Idlers(sink)) <= sink.score[sink.banker]
    /\ \A c \in Idlers(sink) : 5 * sink.table[c] <= sink.score[c]

\* What the players of a game win and lose adds up to nothing, also when some
\* have left before the cards were dealt.
Conserved == sink.phase = "FREE" /\ ~sink.late => sink.paid = 0

\* Every game ends once the messages cease, although players do not answer.
GameEnds ==
  <>[][~OnGameMessage]_OxVars => (sink.phase # "FREE" ~> sink.phase = "FREE")

-----------------------------------------------------------------------------
(* What the code says of itself, and does not keep.                        *)

\* Who leaves after the deal pays, and the banker gets it: what is written to the
\* players of a game adds up to nothing whenever they leave.
LeaversPay == sink.phase = "FREE" => sink.paid = 0

\* Who has joined for the next game neither wins nor loses in this one.
JoinerUntouched == sink.charged = 0
=============================================================================
