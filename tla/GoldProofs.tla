----------------------------- MODULE GoldProofs -----------------------------
(***************************************************************************)
(* Gold is neither lost nor made: that of a user, between the room, the    *)
(* queue and the record (part 1), and that of the players of a game of     *)
(* 牛牛, between each other (part 2).                                      *)
(*                                                                         *)
(* Part 1, for all amounts, limits, fees and ratios, any number of changes *)
(* and requests, and any of them failing.  Two ledgers meet in the         *)
(* argument.  In the room, what the user holds is what the logon has read  *)
(* and everything won since (RoomInv), and of everything won the variation *)
(* is the part not yet posted (LedgerInv).  In the database, the requests  *)
(* that wait are a chain whose running totals link the SQL record, with    *)
(* what it has missed, to everything posted (ChainInv); the copy in Redis  *)
(* with what it has missed is the same sum (CacheInv).  So a logon reads   *)
(* the total of its own request from either of them, less what that store  *)
(* has missed (EntryInv).                                                  *)
(*                                                                         *)
(* Part 2, for any number of chairs, any scores and any cards.  Handlers   *)
(* call each other, so the invariant is a set of states of the object,     *)
(* Games, and every operation is shown to stay in it.  It says which       *)
(* chairs were asked (TurnsTo: counted around the table from the one whose *)
(* turn it is), that each bet keeps to a limit made for at least as many   *)
(* players as there still are (Limits), and that what was written during a *)
(* game is the counterpart of the bets of those who left.  The limits bound *)
(* the sum of all bets, so the banker can always pay, and then what is     *)
(* written at the end adds up to what the leavers have left behind.        *)
(***************************************************************************)
EXTENDS UserScore, OxGame, SequenceTheorems, FiniteSetTheorems, WellFoundedInduction, TLAPS

-----------------------------------------------------------------------------
(* Part 1: the gold of a user.                                             *)

Purses == [score : Int, trustee : Int, frozen : Int, next : Int,
           variation : Int, modified : BOOLEAN]

Requests == [kind : {"LOGON", "WRITE", "LEAVE"}, amount : Int, total : Int]

Entries == [read : Int, earned : Int, total : Int, missing : Int]

TypeInv ==
  /\ immediate \in BOOLEAN /\ on \in BOOLEAN /\ playing \in BOOLEAN
  /\ purse \in Purses /\ held \in Int
  /\ queue \in Seq(Requests)
  /\ gold \in Int /\ cache \in Int \union {NoCache}
  /\ earned \in Int /\ posted \in Int /\ changes \in Int
  /\ entry \in Entries /\ unwritten \in Int /\ uncached \in Int /\ failures \in Int

LedgerInv ==
  /\ earned = posted + purse.variation
  /\ ~purse.modified => purse.variation = 0
  /\ ~on => purse.variation = 0 /\ ~playing

FeeInv ==
  /\ held >= 0
  /\ purse.frozen \in {0, held}
  /\ ~playing => held = 0

\* The requests q lead from the record g to everything posted, t.
Chain(q, g, t) ==
  /\ \A n \in 1..(Len(q) - 1) : q[n + 1].total = q[n].total + q[n + 1].amount
  /\ q # <<>> => /\ q[Len(q)].total = t
                 /\ g = Gold0 + q[1].total - q[1].amount
  /\ q = <<>> => g = Gold0 + t
  /\ \A n \in 1..Len(q) : q[n].kind = "LOGON" => q[n].amount = 0

ChainInv == Chain(queue, gold + unwritten, posted)

CacheInv == cache = NoCache \/ cache + uncached = gold + unwritten

IInv == TypeInv /\ LedgerInv /\ FeeInv /\ ChainInv /\ CacheInv

RoomInv ==
  on => Holding(purse) = entry.read + (Brought(entry.read) * Ratio - Brought(entry.read))
                       + (earned - entry.earned)

EntryInv == on => entry.read = Gold0 + entry.total - entry.missing

-----------------------------------------------------------------------------
(* The purse.                                                              *)

\* The fields of a purse.
LEMMA PurseFields ==
  ASSUME NEW p \in Purses
  PROVE  /\ p.score \in Int /\ p.trustee \in Int /\ p.frozen \in Int /\ p.next \in Int
         /\ p.variation \in Int /\ p.modified \in BOOLEAN
BY DEF Purses

\* A purse with other amounts is a purse.
LEMMA EditLemma ==
  ASSUME NEW p \in Purses, NEW a \in Int, NEW b \in Int, NEW c \in Int
  PROVE  /\ [p EXCEPT !.frozen = a, !.score = b] \in Purses
         /\ [p EXCEPT !.frozen = a, !.trustee = b] \in Purses
         /\ [p EXCEPT !.frozen = a, !.score = b, !.trustee = c] \in Purses
         /\ [p EXCEPT !.score = a, !.variation = b, !.modified = TRUE] \in Purses
         /\ [p EXCEPT !.trustee = a, !.variation = b, !.modified = TRUE] \in Purses
         /\ [p EXCEPT !.variation = a, !.modified = FALSE] \in Purses
<1>1. [p EXCEPT !.frozen = a, !.score = b] \in Purses
  BY DEF Purses
<1>2. [p EXCEPT !.frozen = a, !.trustee = b] \in Purses
  BY DEF Purses
<1>3. [p EXCEPT !.frozen = a, !.score = b, !.trustee = c] \in Purses
  BY DEF Purses
<1>4. [p EXCEPT !.score = a, !.variation = b, !.modified = TRUE] \in Purses
  BY DEF Purses
<1>5. [p EXCEPT !.trustee = a, !.variation = b, !.modified = TRUE] \in Purses
  BY DEF Purses
<1>6. [p EXCEPT !.variation = a, !.modified = FALSE] \in Purses
  BY DEF Purses
<1> QED BY <1>1, <1>2, <1>3, <1>4, <1>5, <1>6

\* The purse of an item without a user.
LEMMA NewPurse ==
  ASSUME NEW a \in Int, NEW b \in Int
  PROVE  [score |-> a, trustee |-> b, frozen |-> b, next |-> b,
          variation |-> b, modified |-> FALSE] \in Purses
BY DEF Purses

\* A new split moves gold between the table and the rest, and touches nothing
\* else.
LEMMA SplitLemma ==
  ASSUME NEW p \in Purses, NEW put \in Int
  PROVE  LET q == Split(p, put) IN
         /\ q \in Purses
         /\ Holding(q) = Holding(p)
         /\ q.frozen = p.frozen /\ q.variation = p.variation /\ q.modified = p.modified
<1> DEFINE total == p.score + p.trustee
           score == IF total > put THEN put ELSE total
           rest == total - score
<1>1. score \in Int /\ rest \in Int
  BY PurseFields
<1>2. Holding(p) = score + rest + p.frozen
  BY <1>1, PurseFields DEF Holding
<1>3. Split(p, put) = [p EXCEPT !.score = score, !.trustee = rest]
  BY DEF Split
<1> HIDE DEF total, score, rest
<1> DEFINE q == [p EXCEPT !.score = score, !.trustee = rest]
<1>4. q \in Purses
  BY <1>1 DEF Purses
<1>5. q.score = score /\ q.trustee = rest /\ q.frozen = p.frozen /\ q.variation = p.variation
  BY <1>1 DEF Purses
<1>6. q.modified = p.modified
  BY <1>1 DEF Purses
<1> HIDE DEF q
<1> QED BY <1>2, <1>3, <1>4, <1>5, <1>6 DEF q, Holding

\* The bring-in after a change does not change what the user holds.
LEMMA AdjustLemma ==
  ASSUME NEW p \in Purses
  PROVE  LET q == Adjust(p) IN
         /\ q \in Purses
         /\ Holding(q) = Holding(p)
         /\ q.frozen = p.frozen /\ q.variation = p.variation /\ q.modified = p.modified
<1>1. CASE p.next > 0
  <2> DEFINE r == Split(p, p.next)
  <2>1. r \in Purses /\ Holding(r) = Holding(p)
        /\ r.frozen = p.frozen /\ r.variation = p.variation /\ r.modified = p.modified
    BY SplitLemma, PurseFields
  <2>2. Adjust(p) = [r EXCEPT !.next = 0]
    BY <1>1 DEF Adjust
  <2> HIDE DEF r
  <2> DEFINE q == [r EXCEPT !.next = 0]
  <2>3. q \in Purses /\ q.frozen = r.frozen /\ q.variation = r.variation
    BY <2>1 DEF Purses
  <2>4. q.modified = r.modified
    BY <2>1 DEF Purses
  <2>5. Holding(q) = Holding(r)
    BY <2>1 DEF Purses, Holding
  <2> QED BY <2>1, <2>2, <2>3, <2>4, <2>5
<1>2. CASE ~(p.next > 0) /\ LowPut > 0 /\ DefPut > 0 /\ p.score < LowPut
  <2>1. Adjust(p) = Split(p, DefPut)
    BY <1>2 DEF Adjust
  <2> QED BY <2>1, SplitLemma, AmountAssumption
<1>3. CASE ~(p.next > 0) /\ ~(LowPut > 0 /\ DefPut > 0 /\ p.score < LowPut)
  BY <1>3 DEF Adjust
<1> QED BY <1>1, <1>2, <1>3

\* Freezing the fee moves it or leaves everything as it is.
LEMMA FrozenedLemma ==
  ASSUME NEW p \in Purses, NEW l \in Nat, p.frozen = 0
  PROVE  LET q == FrozenedUserScore(p, l) IN
         /\ q \in Purses
         /\ Holding(q) = Holding(p)
         /\ q.frozen \in {0, l}
         /\ q.variation = p.variation /\ q.modified = p.modified
<1> DEFINE q == FrozenedUserScore(p, l)
<1>1. CASE p.score + p.trustee < l
  BY <1>1 DEF FrozenedUserScore
<1>2. CASE ~(p.score + p.trustee < l) /\ p.trustee < l
  <2>1. q = [p EXCEPT !.frozen = @ + l, !.score = @ - (l - p.trustee), !.trustee = 0]
    BY <1>2 DEF FrozenedUserScore
  <2>2. q.modified = p.modified
    BY <2>1 DEF Purses
  <2>5. q \in Purses
    <3> DEFINE a == p.frozen + l
               b == p.score - (l - p.trustee)
               c == 0
    <3>1. a \in Int /\ b \in Int /\ c \in Int
      BY PurseFields
    <3>2. q = [p EXCEPT !.frozen = a, !.score = b, !.trustee = c]
      BY <2>1
    <3> HIDE DEF a, b, c, q
    <3> QED BY <3>1, <3>2, EditLemma
  <2>3. q.frozen = l /\ q.variation = p.variation
    BY <2>1 DEF Purses
  <2>4. Holding(q) = Holding(p)
    BY <2>1 DEF Purses, Holding
  <2> QED BY <2>2, <2>3, <2>4, <2>5
<1>3. CASE ~(p.score + p.trustee < l) /\ ~(p.trustee < l)
  <2>1. q = [p EXCEPT !.frozen = @ + l, !.trustee = @ - l]
    BY <1>3 DEF FrozenedUserScore
  <2>2. q.modified = p.modified
    BY <2>1 DEF Purses
  <2>5. q \in Purses
    <3> DEFINE a == p.frozen + l
               b == p.trustee - l
    <3>1. a \in Int /\ b \in Int
      BY PurseFields
    <3>2. q = [p EXCEPT !.frozen = a, !.trustee = b]
      BY <2>1
    <3> HIDE DEF a, b, q
    <3> QED BY <3>1, <3>2, EditLemma
  <2>3. q.frozen = l /\ q.variation = p.variation
    BY <2>1 DEF Purses
  <2>4. Holding(q) = Holding(p)
    BY <2>1 DEF Purses, Holding
  <2> QED BY <2>2, <2>3, <2>4, <2>5
<1> QED BY <1>1, <1>2, <1>3

\* Releasing the fee leaves nothing frozen, whether or not it was frozen.
LEMMA UnFrozenedLemma ==
  ASSUME NEW p \in Purses, NEW l \in Nat, p.frozen \in {0, l}
  PROVE  LET q == UnFrozenedUserScore(p, l) IN
         /\ q \in Purses
         /\ Holding(q) = Holding(p)
         /\ q.frozen = 0
         /\ q.variation = p.variation /\ q.modified = p.modified
<1> DEFINE r == [p EXCEPT !.frozen = @ - l, !.score = @ + l]
<1>6. r \in Purses
  <2> DEFINE a == p.frozen - l
             b == p.score + l
  <2>1. a \in Int /\ b \in Int
    BY PurseFields
  <2>2. r = [p EXCEPT !.frozen = a, !.score = b]
    OBVIOUS
  <2> HIDE DEF a, b, r
  <2> QED BY <2>1, <2>2, EditLemma
<1>1. r.frozen = p.frozen - l /\ r.variation = p.variation
  BY DEF Purses
<1>4. Holding(r) = Holding(p)
  BY DEF Purses, Holding
<1>5. r.modified = p.modified
  BY DEF Purses
<1> HIDE DEF r
<1>2. CASE p.frozen < l
  BY <1>2 DEF UnFrozenedUserScore
<1>3. CASE ~(p.frozen < l)
  <2>1. UnFrozenedUserScore(p, l) = Adjust(r)
    BY <1>3 DEF UnFrozenedUserScore, r
  <2>2. p.frozen = l
    BY <1>3 DEF Purses
  <2> QED BY <2>1, <2>2, <1>1, <1>4, <1>5, <1>6, AdjustLemma
<1> QED BY <1>2, <1>3

\* A result is added to what the user holds and to the variation.
LEMMA AddScoreLemma ==
  ASSUME NEW p \in Purses, NEW l \in Int
  PROVE  LET q == AddScore(p, l) IN
         /\ q \in Purses
         /\ Holding(q) = Holding(p) + l
         /\ q.frozen = p.frozen
         /\ q.variation = p.variation + l /\ q.modified
<1> DEFINE r == [p EXCEPT !.score = @ + l, !.variation = @ + l, !.modified = TRUE]
<1>4. r \in Purses
  <2> DEFINE a == p.score + l
             b == p.variation + l
  <2>1. a \in Int /\ b \in Int
    BY PurseFields
  <2>2. r = [p EXCEPT !.score = a, !.variation = b, !.modified = TRUE]
    OBVIOUS
  <2> HIDE DEF a, b, r
  <2> QED BY <2>1, <2>2, EditLemma
<1>1. r.frozen = p.frozen /\ r.variation = p.variation + l
  BY DEF Purses
<1>2. Holding(r) = Holding(p) + l
  BY DEF Purses, Holding
<1>3. r.modified
  BY DEF Purses
<1> HIDE DEF r
<1> QED BY <1>1, <1>2, <1>3, <1>4, AdjustLemma DEF AddScore, r

\* Paying from the rest.
LEMMA TakeOtherLemma ==
  ASSUME NEW p \in Purses, NEW l \in Int
  PROVE  LET q == TakeOther(p, l) IN
         /\ q \in Purses
         /\ Holding(q) = Holding(p) - l
         /\ q.frozen = p.frozen
         /\ q.variation = p.variation - l /\ q.modified
<1> DEFINE r == TakeOther(p, l)
<1>1. r.frozen = p.frozen /\ r.variation = p.variation - l
  BY DEF Purses, TakeOther
<1>2. Holding(r) = Holding(p) - l
  BY DEF Purses, Holding, TakeOther
<1>3. r.modified
  BY DEF Purses, TakeOther
<1>4. r \in Purses
  <2> DEFINE a == p.trustee - l
             b == p.variation - l
  <2>1. a \in Int /\ b \in Int
    BY PurseFields
  <2>2. r = [p EXCEPT !.trustee = a, !.variation = b, !.modified = TRUE]
    BY DEF TakeOther
  <2> HIDE DEF a, b, r
  <2> QED BY <2>1, <2>2, EditLemma
<1> QED BY <1>1, <1>2, <1>3, <1>4

\* Bringing in moves gold, now or later.
LEMMA TakeGoldLemma ==
  ASSUME NEW p \in Purses, NEW l \in Int, NEW atOnce \in BOOLEAN
  PROVE  LET q == TakeGold(p, l, atOnce) IN
         /\ q \in Purses
         /\ Holding(q) = Holding(p)
         /\ q.frozen = p.frozen /\ q.variation = p.variation /\ q.modified = p.modified
<1>1. CASE atOnce
  <2>1. TakeGold(p, l, atOnce) = Split(p, l)
    BY <1>1 DEF TakeGold
  <2> QED BY <2>1, SplitLemma
<1>2. CASE ~atOnce
  <2> DEFINE r == [p EXCEPT !.next = l]
  <2>1. TakeGold(p, l, atOnce) = r
    BY <1>2 DEF TakeGold
  <2>2. r \in Purses /\ r.frozen = p.frozen /\ r.variation = p.variation
    BY DEF Purses
  <2>3. r.modified = p.modified
    BY DEF Purses
  <2>4. Holding(r) = Holding(p)
    BY DEF Purses, Holding
  <2> HIDE DEF r
  <2> QED BY <2>1, <2>2, <2>3, <2>4
<1> QED BY <1>1, <1>2

\* Taking the variation leaves what the user holds.
LEMMA DistillLemma ==
  ASSUME NEW p \in Purses
  PROVE  LET q == DistillVariation(p) IN
         /\ q \in Purses
         /\ Holding(q) = Holding(p)
         /\ q.frozen = p.frozen /\ q.variation = 0 /\ ~q.modified
<1> DEFINE r == DistillVariation(p)
<1>1. r.frozen = p.frozen /\ r.variation = 0
  BY DEF DistillVariation, Purses
<1>2. Holding(r) = Holding(p)
  BY DEF DistillVariation, Purses, Holding
<1>3. ~r.modified
  BY DEF DistillVariation, Purses
<1>4. r \in Purses
  <2> DEFINE a == 0
  <2>1. a \in Int
    OBVIOUS
  <2>2. r = [p EXCEPT !.variation = a, !.modified = FALSE]
    BY DEF DistillVariation
  <2> HIDE DEF a, r
  <2> QED BY <2>1, <2>2, EditLemma
<1> QED BY <1>1, <1>2, <1>3, <1>4

\* What a logon brings to the table is an amount, with and without the ratio.
LEMMA BroughtLemma ==
  ASSUME NEW amount \in Int
  PROVE  Brought(amount) \in Int /\ Brought(amount) * Ratio \in Int
BY AmountAssumption DEF Brought

\* An item for a user holds the amount that was read, the ratio on the part that
\* is brought to the table.
LEMMA InsertLemma ==
  ASSUME TypeInv, NEW amount \in Int
  PROVE  LET q == InsertUserItem(amount) IN
         /\ q \in Purses
         /\ Holding(q) = amount + (Brought(amount) * Ratio - Brought(amount))
         /\ q.frozen = 0 /\ q.variation = 0 /\ ~q.modified
<1> DEFINE b == Brought(amount)
           c == Brought(amount) * Ratio
           s == IF DefPut * Ratio > 0 THEN c ELSE amount
           t == IF DefPut * Ratio > 0 THEN amount - b ELSE 0
           q == [score |-> s, trustee |-> t, frozen |-> 0, next |-> purse.next,
                 variation |-> 0, modified |-> FALSE]
<1>1. b \in Int /\ c \in Int
  BY BroughtLemma
<1>2. ~(DefPut * Ratio > 0) => b = 0 /\ c = 0
  BY AmountAssumption DEF Brought
<1>3. InsertUserItem(amount) = q
  BY DEF InsertUserItem
<1> HIDE DEF b, c
<1>4. s \in Int /\ t \in Int /\ s + t = amount + (c - b)
  BY <1>1, <1>2
<1> HIDE DEF s, t
<1>5. q \in Purses /\ q.score = s /\ q.trustee = t /\ q.frozen = 0 /\ q.variation = 0
      /\ ~q.modified
  BY <1>4 DEF Purses, TypeInv
<1> HIDE DEF q
<1>6. Holding(q) = amount + (c - b)
  BY <1>4, <1>5 DEF Holding
<1> QED BY <1>3, <1>5, <1>6 DEF b, c

-----------------------------------------------------------------------------
(* The requests that wait.                                                 *)

\* The fields of a request.
LEMMA RequestFields ==
  ASSUME NEW r \in Requests
  PROVE  r.total \in Int /\ r.amount \in Int /\ r.kind \in {"LOGON", "WRITE", "LEAVE"}
BY DEF Requests

\* The requests of a sequence.
LEMMA ChainFields ==
  ASSUME NEW q \in Seq(Requests), NEW n \in 1..Len(q)
  PROVE  q[n] \in Requests /\ q[n].total \in Int /\ q[n].amount \in Int
<1>1. q[n] \in Requests
  BY ElementOfSeq
<1> QED BY <1>1, RequestFields

\* A request posted at the end continues the chain.
LEMMA ChainAppend ==
  ASSUME NEW q \in Seq(Requests), NEW g \in Int, NEW t \in Int, Chain(q, g, t),
         NEW k \in {"LOGON", "WRITE", "LEAVE"}, NEW a \in Int, k = "LOGON" => a = 0
  PROVE  LET r == [kind |-> k, amount |-> a, total |-> t + a] IN
         /\ Append(q, r) \in Seq(Requests)
         /\ Chain(Append(q, r), g, t + a)
<1> DEFINE r == [kind |-> k, amount |-> a, total |-> t + a]
           s == Append(q, r)
<1>1. r \in Requests /\ r.amount = a /\ r.total = t + a /\ r.kind = k
  BY DEF Requests
<1> HIDE DEF r
<1>2. s \in Seq(Requests) /\ Len(s) = Len(q) + 1 /\ s # <<>> /\ s[Len(s)] = r
      /\ \A n \in 1..Len(q) : s[n] = q[n]
  BY <1>1
<1> HIDE DEF s
<1>3. \A n \in 1..Len(q) : q[n] \in Requests /\ q[n].total \in Int /\ q[n].amount \in Int
  BY ChainFields
<1>4. CASE q = <<>>
  BY <1>1, <1>2, <1>4 DEF Chain, s, r
<1>5. CASE q # <<>>
  <2>1. Len(q) \in Nat /\ Len(q) >= 1
    BY <1>5
  <2>2. \A n \in 1..(Len(s) - 1) : s[n + 1].total = s[n].total + s[n + 1].amount
    <3> SUFFICES ASSUME NEW n \in 1..(Len(s) - 1)
                 PROVE  s[n + 1].total = s[n].total + s[n + 1].amount
      OBVIOUS
    <3>1. CASE n = Len(q)
      BY <3>1, <1>1, <1>2, <1>5, <2>1 DEF Chain
    <3>2. CASE n # Len(q)
      <4>1. n \in 1..(Len(q) - 1) /\ n \in 1..Len(q) /\ n + 1 \in 1..Len(q)
        BY <3>2, <1>2, <2>1
      <4> QED BY <4>1, <1>2 DEF Chain
    <3> QED BY <3>1, <3>2
  <2>3. s[Len(s)].total = t + a /\ g = Gold0 + s[1].total - s[1].amount
    BY <1>1, <1>2, <1>5, <2>1 DEF Chain
  <2>4. \A n \in 1..Len(s) : s[n].kind = "LOGON" => s[n].amount = 0
    <3> SUFFICES ASSUME NEW n \in 1..Len(s), s[n].kind = "LOGON"
                 PROVE  s[n].amount = 0
      OBVIOUS
    <3>1. CASE n = Len(s)
      BY <3>1, <1>1, <1>2
    <3>2. CASE n # Len(s)
      <4>1. n \in 1..Len(q)
        BY <3>2, <1>2, <2>1
      <4> QED BY <4>1, <1>2 DEF Chain
    <3> QED BY <3>1, <3>2
  <2> QED BY <1>2, <2>2, <2>3, <2>4 DEF Chain, s, r
<1> QED BY <1>4, <1>5

\* A request that was executed takes its amount from the chain to the record.
LEMMA ChainTail ==
  ASSUME NEW q \in Seq(Requests), NEW g \in Int, NEW t \in Int, Chain(q, g, t), q # <<>>
  PROVE  /\ Tail(q) \in Seq(Requests)
         /\ Head(q) \in Requests /\ Head(q).amount \in Int
         /\ Head(q).kind = "LOGON" => Head(q).amount = 0
         /\ Chain(Tail(q), g + Head(q).amount, t)
<1> DEFINE s == Tail(q)
<1>1. Len(q) \in Nat /\ Len(q) >= 1 /\ Head(q) = q[1]
  OBVIOUS
<1>2. s \in Seq(Requests) /\ Len(s) = Len(q) - 1
      /\ \A n \in 1..Len(s) : s[n] = q[n + 1]
  <2>1. Tail(q) \in Seq(Requests)
    BY HeadTailProperties
  <2>2. Len(Tail(q)) = Len(q) - 1
    BY HeadTailProperties
  <2>3. \A n \in 1..Len(Tail(q)) : Tail(q)[n] = q[n + 1]
    BY HeadTailProperties
  <2> QED BY <2>1, <2>2, <2>3
<1>3. s = <<>> <=> Len(q) = 1
  <2> HIDE DEF s
  <2>1. s # <<>> => Len(s) \in Nat \ {0}
    BY <1>2, EmptySeq
  <2>2. s = <<>> => Len(s) = 0
    BY EmptySeq
  <2> QED BY <2>1, <2>2, <1>1, <1>2
<1> HIDE DEF s
<1>4. \A n \in 1..Len(q) : q[n] \in Requests /\ q[n].total \in Int /\ q[n].amount \in Int
  BY ChainFields
<1>5. Head(q).kind = "LOGON" => Head(q).amount = 0
  BY <1>1 DEF Chain
<1>6. \A n \in 1..(Len(s) - 1) : s[n + 1].total = s[n].total + s[n + 1].amount
  <2> SUFFICES ASSUME NEW n \in 1..(Len(s) - 1)
               PROVE  s[n + 1].total = s[n].total + s[n + 1].amount
    OBVIOUS
  <2>1. n + 1 \in 1..(Len(q) - 1) /\ n \in 1..Len(s) /\ n + 1 \in 1..Len(s)
    BY <1>1, <1>2
  <2>2. q[(n + 1) + 1].total = q[n + 1].total + q[(n + 1) + 1].amount
    BY <2>1 DEF Chain
  <2>3. s[n] = q[n + 1] /\ s[n + 1] = q[(n + 1) + 1]
    BY <2>1, <1>2
  <2> QED BY <2>2, <2>3
<1>7. s # <<>> => s[Len(s)].total = t /\ g + Head(q).amount = Gold0 + s[1].total - s[1].amount
  <2> SUFFICES ASSUME s # <<>>
               PROVE  s[Len(s)].total = t /\ g + Head(q).amount = Gold0 + s[1].total - s[1].amount
    OBVIOUS
  <2>1. Len(q) >= 2 /\ 1 \in 1..Len(s) /\ Len(s) \in 1..Len(s) /\ 1 \in 1..(Len(q) - 1)
    BY <1>1, <1>2, <1>3
  <2>2. s[1] = q[2] /\ s[Len(s)] = q[Len(q)]
    BY <2>1, <1>2
  <2>3. q[2].total = q[1].total + q[2].amount
    BY <2>1 DEF Chain
  <2>4. 2 \in 1..Len(q) /\ 1 \in 1..Len(q)
    BY <2>1, <1>1
  <2>5. q[Len(q)].total = t /\ g = Gold0 + q[1].total - q[1].amount
    BY DEF Chain
  <2>6. q[1].total \in Int /\ q[1].amount \in Int /\ q[2].total \in Int /\ q[2].amount \in Int
    BY <2>4, <1>4
  <2>7. g + q[1].amount = Gold0 + q[2].total - q[2].amount
    BY <2>3, <2>5, <2>6, AmountAssumption
  <2> QED BY <2>2, <2>5, <2>7, <1>1
<1>8. s = <<>> => g + Head(q).amount = Gold0 + t
  <2> SUFFICES ASSUME s = <<>> PROVE g + Head(q).amount = Gold0 + t
    OBVIOUS
  <2>1. Len(q) = 1 /\ 1 \in 1..Len(q)
    BY <1>3
  <2> QED BY <2>1, <1>1, <1>4, AmountAssumption DEF Chain
<1>9. \A n \in 1..Len(s) : s[n].kind = "LOGON" => s[n].amount = 0
  <2> SUFFICES ASSUME NEW n \in 1..Len(s), s[n].kind = "LOGON"
               PROVE  s[n].amount = 0
    OBVIOUS
  <2>1. n + 1 \in 1..Len(q)
    BY <1>1, <1>2
  <2> QED BY <2>1, <1>2 DEF Chain
<1> QED BY <1>1, <1>2, <1>4, <1>5, <1>6, <1>7, <1>8, <1>9 DEF Chain, s

\* What OnEventUserItemScore posts leaves the variation, and nothing else.
LEMMA ItemScoreLemma ==
  ASSUME TypeInv, ChainInv, gold' = gold, unwritten' = unwritten, NEW p \in Purses,
         ~p.modified => p.variation = 0, OnEventUserItemScore(p)
  PROVE  /\ purse' \in Purses /\ queue' \in Seq(Requests) /\ posted' \in Int
         /\ ChainInv'
         /\ Holding(purse') = Holding(p)
         /\ purse'.frozen = p.frozen
         /\ posted' + purse'.variation = posted + p.variation
         /\ ~purse'.modified => purse'.variation = 0
<1> USE DEF TypeInv
<1>1. CASE ~(immediate /\ p.modified)
  <2>1. purse' = p /\ queue' = queue /\ posted' = posted
    BY <1>1 DEF OnEventUserItemScore
  <2> QED BY <2>1 DEF ChainInv
<1>2. CASE immediate /\ p.modified
  <2> DEFINE r == DistillVariation(p)
  <2>1. /\ queue' = Append(queue, [kind |-> "WRITE", amount |-> p.variation,
                                   total |-> posted + p.variation])
        /\ posted' = posted + p.variation
        /\ purse' = r
    BY <1>2 DEF OnEventUserItemScore, Post, Request, Distilled
  <2>2. p.variation \in Int
    BY PurseFields
  <2>3. Chain(queue', gold + unwritten, posted') /\ queue' \in Seq(Requests)
    BY <2>1, <2>2, ChainAppend DEF ChainInv
  <2>4. r \in Purses /\ r.frozen = p.frozen /\ r.variation = 0 /\ Holding(r) = Holding(p)
    BY DistillLemma
  <2> HIDE DEF r
  <2> QED BY <2>1, <2>2, <2>3, <2>4 DEF ChainInv
<1> QED BY <1>1, <1>2

-----------------------------------------------------------------------------
(* The invariant.                                                          *)

\* The invariant holds at the beginning.
LEMMA InitInv == Init => IInv /\ EntryInv /\ RoomInv
<1> SUFFICES ASSUME Init PROVE IInv /\ EntryInv /\ RoomInv
  OBVIOUS
<1>1. purse.variation = 0 /\ purse.frozen = 0 /\ ~purse.modified
  BY DEF Init
<1>2. TypeInv
  <2> DEFINE a == 0
  <2>1. a \in Int
    OBVIOUS
  <2>2. purse = [score |-> a, trustee |-> a, frozen |-> a, next |-> a,
                 variation |-> a, modified |-> FALSE]
    BY DEF Init
  <2> HIDE DEF a
  <2>3. purse \in Purses
    BY <2>1, <2>2, NewPurse
  <2>4. immediate \in BOOLEAN /\ on \in BOOLEAN /\ playing \in BOOLEAN /\ queue \in Seq(Requests)
    BY RuleAssumption, EmptySeq DEF Init
  <2>5. gold \in Int /\ cache \in Int \union {NoCache} /\ held \in Int
        /\ earned \in Int /\ posted \in Int /\ changes \in Int
    BY AmountAssumption DEF Init
  <2>6. entry \in Entries /\ unwritten \in Int /\ uncached \in Int /\ failures \in Int
    BY DEF Init, Entries
  <2> QED BY <2>3, <2>4, <2>5, <2>6 DEF TypeInv
<1>3. LedgerInv /\ FeeInv /\ CacheInv
  BY <1>1, AmountAssumption DEF Init, LedgerInv, FeeInv, CacheInv
<1>4. ChainInv
  BY EmptySeq, AmountAssumption DEF Init, ChainInv, Chain
<1>5. EntryInv /\ RoomInv
  BY DEF Init, EntryInv, RoomInv
<1> QED BY <1>2, <1>3, <1>4, <1>5 DEF IInv

\* A change of the score that OnEventUserItemScore has seen.
LEMMA ChangeLemma ==
  ASSUME IInv, NEW p \in Purses, NEW l \in Int,
         p.modified, p.variation = purse.variation + l, OnEventUserItemScore(p),
         on, earned' = earned + l, changes' = changes + 1,
         held' \in Int, held' >= 0, p.frozen \in {0, held'}, ~playing => held' = 0,
         UNCHANGED <<immediate, on, playing, gold, cache, ledger>>
  PROVE  IInv' /\ Holding(purse') = Holding(p)
<1> USE DEF IInv
<1>1. /\ purse' \in Purses /\ queue' \in Seq(Requests) /\ posted' \in Int
      /\ ChainInv'
      /\ Holding(purse') = Holding(p)
      /\ purse'.frozen = p.frozen
      /\ posted' + purse'.variation = posted + p.variation
      /\ ~purse'.modified => purse'.variation = 0
  BY ItemScoreLemma DEF ledger
<1>2. TypeInv'
  BY <1>1 DEF TypeInv, ledger
<1>3. LedgerInv'
  <2>1. purse.variation \in Int /\ purse'.variation \in Int
    BY <1>1, PurseFields DEF TypeInv
  <2> QED BY <1>1, <2>1 DEF LedgerInv, TypeInv
<1>4. FeeInv' /\ CacheInv'
  BY <1>1 DEF FeeInv, CacheInv, ledger
<1> QED BY <1>1, <1>2, <1>3, <1>4

\* The purse and the fee before a result is added.
LEMMA ResultLemma ==
  ASSUME IInv, NEW l \in Results, NEW charge \in BOOLEAN, WriteUserScore(l, charge)
  PROVE  IInv' /\ Holding(purse') - earned' = Holding(purse) - earned
<1> DEFINE net == IF charge THEN l - held ELSE l
           p == IF charge THEN UnFrozenedUserScore(purse, held) ELSE purse
           r == AddScore(p, net)
<1>1. l \in Int
  BY AmountAssumption DEF Results
<1>2. held \in Nat /\ purse \in Purses /\ earned \in Int
  BY DEF IInv, TypeInv, FeeInv
<1>3. net \in Int
  BY <1>1, <1>2
<1>4. /\ p \in Purses /\ Holding(p) = Holding(purse) /\ p.variation = purse.variation
      /\ p.frozen \in {0, held'}
  <2>1. CASE charge
    BY <2>1, <1>2, UnFrozenedLemma DEF IInv, FeeInv
  <2>2. CASE ~charge
    BY <2>2, <1>2 DEF IInv, FeeInv, WriteUserScore
  <2> QED BY <2>1, <2>2
<1>5. /\ OnEventUserItemScore(r) /\ earned' = earned + net /\ changes' = changes + 1
      /\ on /\ playing /\ held' = (IF charge THEN 0 ELSE held)
      /\ UNCHANGED <<immediate, on, playing, gold, cache, ledger>>
  BY DEF WriteUserScore
<1> HIDE DEF net, p
<1>6. /\ r \in Purses /\ Holding(r) = Holding(p) + net /\ r.frozen = p.frozen
      /\ r.variation = p.variation + net /\ r.modified
  BY <1>3, <1>4, AddScoreLemma
<1> HIDE DEF r
<1>7. held' \in Int /\ held' >= 0
  BY <1>2, <1>5
<1>8. IInv' /\ Holding(purse') = Holding(r)
  BY <1>3, <1>4, <1>5, <1>6, <1>7, ChangeLemma
<1>9. Holding(purse) \in Int
  BY <1>2, PurseFields DEF Holding
<1> QED BY <1>2, <1>3, <1>4, <1>5, <1>6, <1>8, <1>9

\* The purse after a magic expression.
LEMMA OtherLemma ==
  ASSUME IInv, WriteOtherScore
  PROVE  IInv' /\ Holding(purse') - earned' = Holding(purse) - earned
<1> DEFINE p == TakeOther(purse, Magic)
           l == -Magic
<1>1. l \in Int /\ earned \in Int /\ purse \in Purses
  BY AmountAssumption DEF IInv, TypeInv
<1>2. /\ p \in Purses /\ p.frozen = purse.frozen /\ Holding(p) = Holding(purse) + l
      /\ p.variation = purse.variation + l /\ p.modified
  <2>1. Magic \in Int /\ purse.variation - Magic = purse.variation + l
        /\ Holding(purse) - Magic = Holding(purse) + l
    BY <1>1, PurseFields, AmountAssumption DEF Holding
  <2>2. p \in Purses /\ p.frozen = purse.frozen /\ p.variation = purse.variation - Magic
        /\ p.modified /\ Holding(p) = Holding(purse) - Magic
    BY <1>1, <2>1, TakeOtherLemma
  <2> QED BY <2>1, <2>2
<1>3. /\ OnEventUserItemScore(p) /\ earned' = earned + l /\ changes' = changes + 1
      /\ on /\ held' = held /\ UNCHANGED <<immediate, on, playing, gold, cache, ledger>>
  BY <1>1, AmountAssumption DEF WriteOtherScore
<1> HIDE DEF p, l
<1>4. held' \in Int /\ held' >= 0 /\ p.frozen \in {0, held'} /\ (~playing => held' = 0)
  BY <1>2, <1>3 DEF IInv, FeeInv, TypeInv
<1>5. IInv' /\ Holding(purse') = Holding(p)
  BY <1>1, <1>2, <1>3, <1>4, ChangeLemma
<1>6. Holding(purse) \in Int
  BY <1>1, PurseFields DEF Holding
<1> QED BY <1>1, <1>2, <1>3, <1>5, <1>6

\* A logon at the head of the queue finds the total of its own request in the
\* record, with what the record has missed.
LEMMA ReadLemma ==
  ASSUME IInv, queue # <<>>, Head(queue).kind = "LOGON"
  PROVE  /\ Tail(queue) \in Seq(Requests)
         /\ Chain(Tail(queue), gold + unwritten, posted)
         /\ Head(queue).total \in Int
         /\ gold + unwritten = Gold0 + Head(queue).total
<1> USE DEF IInv
<1>1. queue \in Seq(Requests) /\ gold + unwritten \in Int /\ posted \in Int
      /\ Chain(queue, gold + unwritten, posted)
  BY DEF TypeInv, ChainInv
<1>2. /\ Tail(queue) \in Seq(Requests)
      /\ Head(queue) \in Requests /\ Head(queue).amount = 0
      /\ Chain(Tail(queue), (gold + unwritten) + Head(queue).amount, posted)
  BY <1>1, ChainTail
<1>3. (gold + unwritten) + Head(queue).amount = gold + unwritten
  BY <1>1, <1>2
<1>4. Head(queue).total \in Int /\ Head(queue) = queue[1]
  BY <1>1, <1>2, RequestFields
<1>5. gold + unwritten = Gold0 + Head(queue).total
  BY <1>1, <1>2, <1>4, AmountAssumption DEF Chain
<1> QED BY <1>2, <1>3, <1>4, <1>5

\* An answered logon keeps the invariant, and a user it lets in holds and has
\* read what it should.
LEMMA LogonLemma ==
  ASSUME IInv, NEW found \in BOOLEAN, NEW filled \in BOOLEAN,
         OnRequestLogonUserID(found, filled)
  PROVE  /\ IInv'
         /\ IF on THEN UNCHANGED <<on, purse, entry, earned>> ELSE EntryInv' /\ RoomInv'
<1> DEFINE hit == cache # NoCache /\ found
           read == IF hit THEN cache ELSE gold
           missing == IF hit THEN uncached ELSE unwritten
           fill == ~hit /\ filled
<1> USE DEF IInv
<1>1. queue # <<>> /\ Head(queue).kind = "LOGON" /\ posted + 0 = posted
  BY DEF OnRequestLogonUserID, Takes, TypeInv
<1>2. /\ Tail(queue) \in Seq(Requests)
      /\ Chain(Tail(queue), gold + unwritten, posted)
      /\ Head(queue).total \in Int
      /\ gold + unwritten = Gold0 + Head(queue).total
  BY <1>1, ReadLemma
<1>3. /\ cache' = (IF fill THEN gold ELSE cache)
      /\ uncached' = (IF fill THEN unwritten ELSE uncached)
      /\ UNCHANGED <<immediate, held, playing, gold, earned, posted, changes, unwritten>>
  BY DEF OnRequestLogonUserID
<1>4. failures' \in Int
  BY DEF OnRequestLogonUserID, Served, TypeInv
<1>5. cache' \in Int \union {NoCache} /\ uncached' \in Int /\ CacheInv'
  BY <1>3 DEF CacheInv, TypeInv
<1>6. read \in Int /\ missing \in Int /\ read + missing = gold + unwritten
  BY DEF CacheInv, TypeInv
<1>7. CASE on
  <2>1. queue' = Append(Tail(queue), [kind |-> "LEAVE", amount |-> 0, total |-> posted + 0])
        /\ UNCHANGED <<on, purse, entry>>
    BY <1>7 DEF OnRequestLogonUserID, Request
  <2>2. Chain(queue', gold + unwritten, posted + 0) /\ queue' \in Seq(Requests)
    <3>1. Tail(queue) \in Seq(Requests) /\ gold + unwritten \in Int /\ posted \in Int /\ 0 \in Int
      BY <1>2 DEF TypeInv
    <3> QED BY <2>1, <3>1, <1>2, ChainAppend
  <2>3. Chain(queue', gold + unwritten, posted)
    BY <2>2, <1>1
  <2>4. TypeInv' /\ ChainInv'
    BY <1>3, <1>4, <1>5, <2>1, <2>2, <2>3 DEF TypeInv, ChainInv
  <2>5. LedgerInv' /\ FeeInv'
    BY <1>3, <2>1 DEF LedgerInv, FeeInv
  <2> QED BY <1>3, <1>5, <1>7, <2>1, <2>4, <2>5
<1>8. CASE ~on
  <2>1. /\ queue' = Tail(queue) /\ on' = TRUE
        /\ purse' = InsertUserItem(read)
        /\ entry' = Entry(read, Head(queue).total, missing)
    BY <1>8 DEF OnRequestLogonUserID
  <2> HIDE DEF read, missing
  <2>2. purse' \in Purses /\ purse'.frozen = 0 /\ purse'.variation = 0 /\ ~purse'.modified
        /\ Holding(purse') = read + (Brought(read) * Ratio - Brought(read))
    BY <2>1, <1>6, InsertLemma
  <2>3. /\ entry' \in Entries /\ entry'.read = read /\ entry'.earned = earned
        /\ entry'.total = Head(queue).total /\ entry'.missing = missing
    BY <2>1, <1>2, <1>6 DEF Entry, Entries, TypeInv
  <2>4. TypeInv'
    BY <1>2, <1>3, <1>4, <1>5, <2>1, <2>2, <2>3 DEF TypeInv
  <2>5. ChainInv' /\ LedgerInv' /\ FeeInv'
    BY <1>2, <1>3, <1>8, <2>1, <2>2 DEF ChainInv, LedgerInv, FeeInv, TypeInv
  <2>6. EntryInv'
    BY <1>2, <1>6, <2>3, AmountAssumption DEF EntryInv, TypeInv
  <2>7. RoomInv'
    <3> DEFINE sum == read + (Brought(read) * Ratio - Brought(read))
    <3>1. sum \in Int
      BY <1>6, BroughtLemma
    <3>2. earned' - entry'.earned = 0
      BY <1>3, <2>3 DEF TypeInv
    <3>3. sum = sum + 0
      BY <3>1
    <3> HIDE DEF sum
    <3> QED BY <2>2, <2>3, <3>2, <3>3 DEF RoomInv, sum
  <2> QED BY <1>5, <1>8, <2>4, <2>5, <2>6, <2>7
<1> QED BY <1>7, <1>8

\* Every step keeps the ledgers, the fee, the chain and the cache.
LEMMA NextInv == IInv /\ [Next]_vars => IInv'
<1> SUFFICES ASSUME IInv, [Next]_vars PROVE IInv'
  OBVIOUS
<1> USE DEF IInv
<1>1. CASE Logon
  <2>1. queue' = Append(queue, [kind |-> "LOGON", amount |-> 0, total |-> posted + 0])
        /\ posted' = posted + 0
    BY <1>1 DEF Logon, Post, Request
  <2>2. Chain(queue', gold + unwritten, posted') /\ queue' \in Seq(Requests)
    BY <2>1, ChainAppend DEF ChainInv, TypeInv
  <2>3. posted' = posted
    BY <2>1 DEF TypeInv
  <2>4. TypeInv' /\ ChainInv' /\ CacheInv'
    BY <1>1, <2>2, <2>3 DEF Logon, TypeInv, ChainInv, CacheInv, ledger
  <2> QED BY <1>1, <2>3, <2>4 DEF Logon, LedgerInv, FeeInv
<1>2. CASE StartGame
  <2>1. /\ purse' \in Purses /\ purse'.frozen \in {0, Fee}
        /\ purse'.variation = purse.variation /\ purse'.modified = purse.modified
    BY <1>2, FrozenedLemma, AmountAssumption DEF StartGame, TypeInv, FeeInv
  <2>2. TypeInv' /\ ChainInv' /\ CacheInv'
    BY <1>2, <2>1, AmountAssumption DEF StartGame, TypeInv, ChainInv, CacheInv, ledger
  <2> QED BY <1>2, <2>1, <2>2, AmountAssumption DEF StartGame, LedgerInv, FeeInv
<1>3. CASE ConcludeGame
  <2>1. /\ purse' \in Purses /\ purse'.frozen = 0
        /\ purse'.variation = purse.variation /\ purse'.modified = purse.modified
    BY <1>3, UnFrozenedLemma DEF ConcludeGame, TypeInv, FeeInv
  <2>3. /\ playing' \in BOOLEAN /\ held' = 0
        /\ UNCHANGED <<immediate, on, queue, gold, cache, earned, posted, changes, ledger>>
    BY <1>3 DEF ConcludeGame
  <2>2. TypeInv' /\ ChainInv' /\ CacheInv'
    BY <2>1, <2>3 DEF TypeInv, ChainInv, CacheInv, ledger
  <2> QED BY <1>3, <2>1, <2>2 DEF ConcludeGame, LedgerInv, FeeInv
<1>4. CASE WriteOtherScore
  BY <1>4, OtherLemma
<1>5. CASE OnEventUserLogout
  <2>1. Distilled(purse) = purse.variation /\ purse.variation \in Int
    BY PurseFields DEF Distilled, LedgerInv, TypeInv
  <2>2. /\ queue' = Append(queue, [kind |-> "LEAVE", amount |-> purse.variation,
                                   total |-> posted + purse.variation])
        /\ posted' = posted + purse.variation
    BY <1>5, <2>1 DEF OnEventUserLogout, Post, Request
  <2>3. Chain(queue', gold + unwritten, posted') /\ queue' \in Seq(Requests)
    BY <2>1, <2>2, ChainAppend DEF ChainInv, TypeInv
  <2>4. purse' \in Purses /\ purse'.frozen = purse.frozen /\ purse'.variation = 0
    BY <1>5, DistillLemma DEF OnEventUserLogout, TypeInv
  <2>6. /\ on' \in BOOLEAN /\ posted' \in Int
        /\ UNCHANGED <<immediate, held, playing, gold, cache, earned, changes, ledger>>
    <3>1. posted' \in Int
      BY <2>1, <2>2 DEF TypeInv
    <3>2. on' = FALSE /\ UNCHANGED <<immediate, held, playing, gold, cache, earned, changes, ledger>>
      BY <1>5 DEF OnEventUserLogout
    <3> QED BY <3>1, <3>2
  <2>5. TypeInv' /\ ChainInv' /\ CacheInv'
    BY <2>3, <2>4, <2>6 DEF TypeInv, ChainInv, CacheInv, ledger
  <2> QED BY <1>5, <2>1, <2>2, <2>4, <2>5 DEF OnEventUserLogout, LedgerInv, FeeInv, TypeInv
<1>6. ASSUME NEW l \in Results, NEW charge \in BOOLEAN, WriteUserScore(l, charge)
      PROVE  IInv'
  BY <1>6, ResultLemma
<1>7. ASSUME NEW l \in Puts, OnTakeGold(l)
      PROVE  IInv'
  <2>1. l \in Int /\ (~playing) \in BOOLEAN
    BY AmountAssumption
  <2>2. /\ purse' \in Purses /\ purse'.frozen = purse.frozen
        /\ purse'.variation = purse.variation /\ purse'.modified = purse.modified
    BY <1>7, <2>1, TakeGoldLemma DEF OnTakeGold, TypeInv
  <2>3. TypeInv' /\ ChainInv' /\ CacheInv'
    BY <1>7, <2>2 DEF OnTakeGold, TypeInv, ChainInv, CacheInv, ledger
  <2> QED BY <1>7, <2>2, <2>3 DEF OnTakeGold, LedgerInv, FeeInv
<1>8. ASSUME NEW found \in BOOLEAN, NEW filled \in BOOLEAN, OnRequestLogonUserID(found, filled)
      PROVE  IInv'
  BY <1>8, LogonLemma
<1>9. CASE LogonFails
  <2>1. queue # <<>> /\ Head(queue).kind = "LOGON"
    BY <1>9 DEF LogonFails, Takes
  <2>2. Tail(queue) \in Seq(Requests) /\ Chain(Tail(queue), gold + unwritten, posted)
    BY <2>1, ReadLemma
  <2>4. TypeInv' /\ ChainInv' /\ CacheInv'
    BY <1>9, <2>2 DEF LogonFails, TypeInv, ChainInv, CacheInv, ledger
  <2> QED BY <1>9, <2>4 DEF LogonFails, LedgerInv, FeeInv
<1>10. ASSUME NEW done \in BOOLEAN, NEW cached \in BOOLEAN, WriteGold(done, cached)
       PROVE  IInv'
  <2> DEFINE l == Head(queue).amount
  <2>1. queue # <<>>
    BY <1>10 DEF WriteGold
  <2>2. /\ Tail(queue) \in Seq(Requests) /\ l \in Int
        /\ Chain(Tail(queue), (gold + unwritten) + l, posted)
    BY <2>1, ChainTail DEF ChainInv, TypeInv
  <2>3. /\ gold' = (IF done THEN gold + l ELSE gold)
        /\ unwritten' = (IF done THEN unwritten ELSE unwritten + l)
        /\ cache' = (IF cached THEN UpdateCachedData(l) ELSE cache)
        /\ uncached' = (IF cached THEN uncached ELSE uncached + l)
        /\ queue' = Tail(queue)
        /\ UNCHANGED <<immediate, on, purse, held, playing, earned, posted, changes, entry>>
    BY <1>10 DEF WriteGold
  <2>4. failures' \in Int
    BY <1>10 DEF WriteGold, Served, TypeInv
  <2> HIDE DEF l
  <2>5. gold' \in Int /\ unwritten' \in Int /\ uncached' \in Int
        /\ gold' + unwritten' = (gold + unwritten) + l
    BY <2>2, <2>3 DEF TypeInv
  <2>6. cache' \in Int \union {NoCache}
    BY <2>2, <2>3 DEF TypeInv, UpdateCachedData
  <2>7. CacheInv'
    <3>1. CASE cache = NoCache
      BY <3>1, <2>3 DEF CacheInv, UpdateCachedData
    <3>2. CASE cache # NoCache
      <4>1. cache \in Int /\ cache + uncached = gold + unwritten
        BY <3>2 DEF CacheInv, TypeInv
      <4>2. cache' + uncached' = (cache + uncached) + l
        BY <3>2, <4>1, <2>2, <2>3 DEF UpdateCachedData, TypeInv
      <4> QED BY <4>1, <4>2, <2>5 DEF CacheInv
    <3> QED BY <3>1, <3>2
  <2>8. TypeInv' /\ ChainInv'
    BY <2>2, <2>3, <2>4, <2>5, <2>6 DEF TypeInv, ChainInv
  <2> QED BY <2>3, <2>7, <2>8 DEF LedgerInv, FeeInv
<1>11. CASE Evict
  BY <1>11 DEF Evict, TypeInv, LedgerInv, FeeInv, ChainInv, CacheInv, ledger
<1>12. CASE UNCHANGED vars
  BY <1>12 DEF vars, TypeInv, LedgerInv, FeeInv, ChainInv, CacheInv, ledger
<1> QED BY <1>1, <1>2, <1>3, <1>4, <1>5, <1>6, <1>7, <1>8, <1>9, <1>10, <1>11, <1>12 DEF Next

-----------------------------------------------------------------------------
(* What the user holds and has read.                                       *)

\* A step that leaves the entry alone and changes what the user holds by what is
\* won keeps the sum.
LEMMA SumLemma ==
  ASSUME RoomInv, EntryInv, on, purse \in Purses, purse' \in Purses,
         earned \in Int, earned' \in Int, entry \in Entries, entry' = entry,
         Holding(purse') - earned' = Holding(purse) - earned
  PROVE  EntryInv' /\ RoomInv'
<1> DEFINE base == entry.read + (Brought(entry.read) * Ratio - Brought(entry.read))
<1>1. Holding(purse) \in Int /\ Holding(purse') \in Int
  BY PurseFields DEF Holding
<1>2. entry.read \in Int /\ entry.earned \in Int
  BY DEF Entries
<1>3. base \in Int
  BY <1>2, BroughtLemma
<1>4. Holding(purse) = base + (earned - entry.earned)
  BY DEF RoomInv
<1> HIDE DEF base
<1>5. Holding(purse') = base + (earned' - entry.earned)
  BY <1>1, <1>2, <1>3, <1>4
<1>6. RoomInv'
  BY <1>5 DEF RoomInv, base
<1> QED BY <1>6 DEF EntryInv

\* Every step keeps what the user holds in step with what was read and won.
LEMMA RoomStep ==
  ASSUME IInv, EntryInv, RoomInv, [Next]_vars
  PROVE  EntryInv' /\ RoomInv'
<1>0. purse \in Purses /\ Holding(purse) \in Int /\ earned \in Int /\ entry \in Entries
  BY PurseFields DEF IInv, TypeInv, Holding
<1>a. IInv' /\ purse' \in Purses /\ earned' \in Int
  <2>1. IInv'
    BY NextInv
  <2> QED BY <2>1 DEF IInv, TypeInv
<1>b. ASSUME on, entry' = entry, earned' = earned, Holding(purse') = Holding(purse)
      PROVE  EntryInv' /\ RoomInv'
  BY <1>b, <1>0, <1>a, SumLemma
<1>c. ASSUME UNCHANGED <<on, purse, entry, earned>>
      PROVE  EntryInv' /\ RoomInv'
  BY <1>c DEF EntryInv, RoomInv
<1>1. CASE Logon
  BY <1>1, <1>c DEF Logon, ledger
<1>2. CASE StartGame
  <2>1. purse.frozen = 0 /\ Fee \in Nat
    BY <1>2, AmountAssumption DEF StartGame, IInv, FeeInv
  <2>2. Holding(purse') = Holding(purse)
    BY <1>2, <1>0, <2>1, FrozenedLemma DEF StartGame
  <2> QED BY <1>2, <2>2, <1>b DEF StartGame, ledger
<1>3. CASE ConcludeGame
  <2>1. held \in Nat /\ purse.frozen \in {0, held}
    BY DEF IInv, TypeInv, FeeInv
  <2>2. Holding(purse') = Holding(purse)
    BY <1>3, <1>0, <2>1, UnFrozenedLemma DEF ConcludeGame
  <2> QED BY <1>3, <2>2, <1>b DEF ConcludeGame, ledger
<1>4. CASE WriteOtherScore
  <2>1. Holding(purse') - earned' = Holding(purse) - earned
    BY <1>4, OtherLemma
  <2>2. on /\ entry' = entry
    BY <1>4 DEF WriteOtherScore, ledger
  <2> QED BY <2>1, <2>2, <1>0, <1>a, SumLemma
<1>5. CASE OnEventUserLogout
  BY <1>5 DEF OnEventUserLogout, EntryInv, RoomInv
<1>6. ASSUME NEW l \in Results, NEW charge \in BOOLEAN, WriteUserScore(l, charge)
      PROVE  EntryInv' /\ RoomInv'
  <2>1. Holding(purse') - earned' = Holding(purse) - earned
    BY <1>6, ResultLemma
  <2>2. on /\ entry' = entry
    BY <1>6 DEF WriteUserScore, ledger
  <2> QED BY <2>1, <2>2, <1>0, <1>a, SumLemma
<1>7. ASSUME NEW l \in Puts, OnTakeGold(l)
      PROVE  EntryInv' /\ RoomInv'
  <2>1. l \in Int /\ (~playing) \in BOOLEAN
    BY AmountAssumption
  <2>2. Holding(purse') = Holding(purse)
    BY <1>7, <1>0, <2>1, TakeGoldLemma DEF OnTakeGold
  <2> QED BY <1>7, <2>2, <1>b DEF OnTakeGold, ledger
<1>8. ASSUME NEW found \in BOOLEAN, NEW filled \in BOOLEAN, OnRequestLogonUserID(found, filled)
      PROVE  EntryInv' /\ RoomInv'
  BY <1>8, <1>c, LogonLemma
<1>9. CASE LogonFails
  BY <1>9, <1>c DEF LogonFails, ledger
<1>10. ASSUME NEW done \in BOOLEAN, NEW cached \in BOOLEAN, WriteGold(done, cached)
       PROVE  EntryInv' /\ RoomInv'
  BY <1>10, <1>c DEF WriteGold
<1>11. CASE Evict
  BY <1>11, <1>c DEF Evict, ledger
<1>12. CASE UNCHANGED vars
  BY <1>12, <1>c DEF vars, ledger
<1> QED BY <1>1, <1>2, <1>3, <1>4, <1>5, <1>6, <1>7, <1>8, <1>9, <1>10, <1>11, <1>12 DEF Next

-----------------------------------------------------------------------------
(* The theorems.                                                           *)

\* The whole invariant at all times.
LEMMA Invariance == Spec => [](IInv /\ EntryInv /\ RoomInv)
<1> DEFINE J == IInv /\ EntryInv /\ RoomInv
<1>1. Init => J
  BY InitInv
<1>2. J /\ [Next]_vars => J'
  BY NextInv, RoomStep
<1> QED BY <1>1, <1>2, PTL DEF Spec

\* When the user has left and the requests are through, the SQL record has every
\* result exactly once but for those of failed statements, for all amounts and
\* for either rule of writing; a logon may wait at any time.
THEOREM SettledTheorem == Spec => []Settled
<1>1. IInv => Settled
  <2> SUFFICES ASSUME IInv, ~on, queue = <<>> PROVE gold = Gold0 + earned - unwritten
    BY DEF Settled
  <2>1. gold + unwritten = Gold0 + posted
    BY DEF IInv, ChainInv, Chain
  <2>2. earned = posted + 0 /\ gold \in Int /\ unwritten \in Int /\ posted \in Int
    BY DEF IInv, LedgerInv, TypeInv
  <2> QED BY <2>1, <2>2, AmountAssumption
<1> QED BY <1>1, Invariance, PTL

\* The copy in Redis and the SQL record differ exactly by the changes one of them
\* has missed, through any number of failed statements, failed commands,
\* evictions and fills.
THEOREM CacheTheorem == Spec => []CacheAgrees
<1>1. IInv => CacheAgrees
  BY DEF IInv, CacheInv, CacheAgrees
<1> QED BY <1>1, Invariance, PTL

\* Outside a game no fee is frozen, whatever the fee and however little the user
\* holds.
THEOREM FeeTheorem == Spec => []FeeReleased
<1>1. IInv => FeeReleased
  BY DEF IInv, FeeInv, FeeReleased
<1> QED BY <1>1, Invariance, PTL

\* What a user holds in the room is what the logon has read, with the exchange
\* ratio on what was brought to the table, and every result since then counted
\* once; logons may wait and be answered at any time, and any request may fail.
THEOREM BackedTheorem == Spec => []Backed
<1>1. RoomInv => Backed
  BY DEF RoomInv, Backed
<1> QED BY <1>1, Invariance, PTL

\* A logon has read every change that was posted before it and none that was
\* posted later, but for those the store it reads has missed.
THEOREM LogonTheorem == Spec => []LogonReads
<1>1. EntryInv => LogonReads
  BY DEF EntryInv, LogonReads
<1> QED BY <1>1, Invariance, PTL

-----------------------------------------------------------------------------
(* Part 2: the gold in a game of 牛牛.                                     *)
(*                                                                         *)
(* Sums over finite sets.  A fold takes the elements in an order of its    *)
(* own, so it is first shown that any element may come first.              *)

\* Every set of natural numbers has a least element: induction, for sets.
LEMMA LeastNumber ==
  ASSUME NEW T, T \subseteq Nat, T # {}
  PROVE  \E x \in T : \A y \in T : x <= y
<1>1. PICK x \in T : \A y \in T : ~(<<y, x>> \in OpToRel(<, Nat))
  BY WFMin, NatLessThanWellFounded
<1>2. \A y \in T : ~(y < x)
  BY <1>1 DEF OpToRel
<1> QED BY <1>2

\* Subsets of a finite set have a size, and a smaller one without an element.
LEMMA Sizes ==
  ASSUME NEW D, IsFiniteSet(D), NEW S \in SUBSET D
  PROVE  /\ IsFiniteSet(S) /\ Cardinality(S) \in Nat
         /\ S # {} => Cardinality(S) # 0
         /\ \A x \in S : Cardinality(S) = Cardinality(S \ {x}) + 1
<1>1. IsFiniteSet(S)
  BY FS_Subset
<1>2. Cardinality(S) \in Nat
  BY <1>1, FS_CardinalityType
<1>3. S # {} => Cardinality(S) # 0
  BY <1>1, FS_EmptySet
<1>4. ASSUME NEW x \in S PROVE Cardinality(S) = Cardinality(S \ {x}) + 1
  <2>1. Cardinality(S \ {x}) = Cardinality(S) - 1
    BY <1>1, FS_RemoveElement
  <2> QED BY <1>2, <2>1
<1> QED BY <1>1, <1>2, <1>3, <1>4

\* Of the subsets of a finite set in B one is smallest.
LEMMA Smallest ==
  ASSUME NEW D, IsFiniteSet(D), NEW B, B \subseteq SUBSET D, B # {}
  PROVE  \E S \in B : \A R \in B : Cardinality(S) <= Cardinality(R)
<1> DEFINE T == {Cardinality(S) : S \in B}
<1>1. \A S \in B : Cardinality(S) \in Nat
  BY Sizes
<1>2. PICK x \in T : \A y \in T : x <= y
  <2>1. T \subseteq Nat /\ T # {}
    BY <1>1
  <2> HIDE DEF T
  <2> QED BY <2>1, LeastNumber
<1> QED BY <1>2

\* Induction over the subsets of a finite set, for a set P of them.
LEMMA Grown ==
  ASSUME NEW D, IsFiniteSet(D), NEW P, {} \in P,
         \A S \in SUBSET D : \A x \in D : S \in P /\ x \notin S => S \union {x} \in P
  PROVE  \A S \in SUBSET D : S \in P
<1> DEFINE B == {S \in SUBSET D : S \notin P}
<1>1. SUFFICES ASSUME B # {} PROVE FALSE
  OBVIOUS
<1>2. PICK S \in B : \A R \in B : Cardinality(S) <= Cardinality(R)
  BY <1>1, Smallest
<1>3. PICK x \in S : TRUE
  OBVIOUS
<1>4. S \ {x} \in SUBSET D /\ Cardinality(S) = Cardinality(S \ {x}) + 1 /\ Cardinality(S \ {x}) \in Nat
  BY Sizes
<1>5. S \ {x} \in P
  <2>1. SUFFICES ASSUME S \ {x} \in B PROVE FALSE
    BY <1>4
  <2>2. Cardinality(S) <= Cardinality(S \ {x})
    BY <1>2, <2>1
  <2> QED BY <1>4, <2>2
<1>6. S = (S \ {x}) \union {x} /\ x \in D /\ x \notin S \ {x}
  OBVIOUS
<1> QED BY <1>4, <1>5, <1>6

\* The element a fold takes from s, and the sum over s when g has those over
\* smaller sets.
Pick(s) == CHOOSE x \in s : TRUE
SumStep(f, g, s) == IF s = {} THEN 0 ELSE f[Pick(s)] + g[s \ {Pick(s)}]

\* g solves the recursion of the fold over S.
Solves(f, g, S) == g = [s \in SUBSET S |-> SumStep(f, g, s)]

\* What the sum of the library is.
LEMMA SumUnfold ==
  ASSUME NEW f, NEW S
  PROVE  SumFunctionOnSet(f, S) = (CHOOSE g : Solves(f, g, S))[S]
  BY DEF SumFunctionOnSet, FoldFunctionOnSet, MapThenFoldSet, Solves, SumStep, Pick

\* The recursion of a fold over a finite set has a solution.
LEMMA SolutionExists ==
  ASSUME NEW f, NEW S, IsFiniteSet(S)
  PROVE  \E g : Solves(f, g, S)
<1> DEFINE D(n) == {s \in SUBSET S : Cardinality(s) <= n}
           T == {n \in Nat : ~ \E g : g = [s \in D(n) |-> SumStep(f, g, s)]}
<1>0. \A s \in SUBSET S : /\ Cardinality(s) \in Nat /\ (s # {} => Cardinality(s) # 0)
                          /\ \A x \in s : Cardinality(s) = Cardinality(s \ {x}) + 1
  BY Sizes
<1>1. T = {}
  <2> SUFFICES ASSUME T # {} PROVE FALSE
    OBVIOUS
  <2>2. PICK x \in T : \A y \in T : x <= y
    <3>1. T \subseteq Nat
      OBVIOUS
    <3> HIDE DEF T
    <3> QED BY <3>1, LeastNumber
  <2>3. x # 0
    <3> DEFINE g == [s \in D(0) |-> 0]
    <3>1. \A s \in D(0) : s = {}
      BY <1>0
    <3>2. g = [s \in D(0) |-> SumStep(f, g, s)]
      BY <3>1 DEF SumStep
    <3> QED BY <3>2
  <2>4. x - 1 \in Nat /\ x - 1 \notin T
    <3>1. x \in Nat
      OBVIOUS
    <3> HIDE DEF T
    <3> QED BY <2>2, <2>3, <3>1
  <2>5. PICK g : g = [s \in D(x - 1) |-> SumStep(f, g, s)]
    BY <2>4
  <2> DEFINE h == [s \in D(x) |-> SumStep(f, g, s)]
  <2>6. ASSUME NEW s \in D(x) PROVE SumStep(f, g, s) = SumStep(f, h, s)
    <3> DEFINE r == s \ {Pick(s)}
    <3>1. CASE s = {}
      BY <3>1 DEF SumStep
    <3>2. CASE s # {}
      <4>1. Pick(s) \in s
        BY <3>2 DEF Pick
      <4>2. r \in D(x - 1) /\ r \in D(x)
        BY <1>0, <2>4, <4>1
      <4>3. h[r] = SumStep(f, g, r) /\ g[r] = SumStep(f, g, r)
        BY <2>5, <4>2
      <4> QED BY <3>2, <4>3 DEF SumStep
    <3> QED BY <3>1, <3>2
  <2>7. h = [s \in D(x) |-> SumStep(f, h, s)]
    BY <2>6
  <2> QED BY <2>7
<1>2. Cardinality(S) \in Nat /\ D(Cardinality(S)) = SUBSET S
  <2>1. \A s \in SUBSET S : Cardinality(s) <= Cardinality(S)
    BY FS_Subset
  <2> QED BY <1>0, <2>1
<1>3. PICK g : g = [s \in D(Cardinality(S)) |-> SumStep(f, g, s)]
  BY <1>1, <1>2
<1> QED BY <1>2, <1>3 DEF Solves

\* Solutions over two sets agree on what is a subset of both.
LEMMA SolutionsAgree ==
  ASSUME NEW f, NEW S, IsFiniteSet(S), NEW R \in SUBSET S,
         NEW g, Solves(f, g, S), NEW h, Solves(f, h, R)
  PROVE  g[R] = h[R]
<1> DEFINE B == {s \in SUBSET R : g[s] # h[s]}
<1>1. \A s \in SUBSET R : g[s] = SumStep(f, g, s) /\ h[s] = SumStep(f, h, s)
  <2>1. \A s \in SUBSET R : s \in SUBSET S
    OBVIOUS
  <2> QED BY <2>1 DEF Solves
<1>2. SUFFICES ASSUME B # {} PROVE FALSE
  OBVIOUS
<1>3. B \subseteq SUBSET S
  OBVIOUS
<1>4. PICK s \in B : \A r \in B : Cardinality(s) <= Cardinality(r)
  <2> HIDE DEF B
  <2> QED BY <1>2, <1>3, Smallest
<1>5. s \in SUBSET R /\ g[s] # h[s]
  OBVIOUS
<1>6. s # {}
  BY <1>1, <1>5 DEF SumStep
<1> DEFINE p == Pick(s)
<1>7. p \in s
  BY <1>6 DEF Pick
<1>8. g[s \ {p}] # h[s \ {p}]
  BY <1>1, <1>5, <1>6 DEF SumStep
<1>9. s \ {p} \in B
  BY <1>5, <1>8
<1>10. Cardinality(s) = Cardinality(s \ {p}) + 1 /\ Cardinality(s \ {p}) \in Nat
  <2> HIDE DEF p
  <2>1. s \in SUBSET S /\ s \ {p} \in SUBSET S
    BY <1>5
  <2> QED BY <1>7, <2>1, Sizes
<1>11. Cardinality(s) <= Cardinality(s \ {p})
  BY <1>4, <1>9
<1> QED BY <1>10, <1>11

\* The sum over a set is 0, or some element and the sum over the others.
LEMMA SumEquation ==
  ASSUME NEW f, NEW S, IsFiniteSet(S)
  PROVE  /\ S = {} => SumFunctionOnSet(f, S) = 0
         /\ S # {} => /\ Pick(S) \in S
                      /\ SumFunctionOnSet(f, S) = f[Pick(S)] + SumFunctionOnSet(f, S \ {Pick(S)})
<1> DEFINE g == CHOOSE k : Solves(f, k, S)
           R == S \ {Pick(S)}
           h == CHOOSE k : Solves(f, k, R)
<1>1. Solves(f, g, S) /\ SumFunctionOnSet(f, S) = g[S]
  BY SolutionExists, SumUnfold
<1>2. IsFiniteSet(R) /\ R \in SUBSET S
  BY FS_Subset
<1>3. Solves(f, h, R) /\ SumFunctionOnSet(f, R) = h[R]
  <2> HIDE DEF R
  <2> QED BY <1>2, SolutionExists, SumUnfold
<1>4. g[S] = SumStep(f, g, S)
  <2> HIDE DEF g
  <2>1. S \in SUBSET S
    OBVIOUS
  <2> QED BY <1>1, <2>1 DEF Solves
<1>5. g[R] = h[R]
  <2> HIDE DEF g, h, R
  <2> QED BY <1>1, <1>2, <1>3, SolutionsAgree
<1>6. S # {} => Pick(S) \in S
  BY DEF Pick
<1>7. S = {} => g[S] = 0
  <2> HIDE DEF g
  <2> QED BY <1>4 DEF SumStep
<1>8. S # {} => g[S] = f[Pick(S)] + g[R]
  <2> HIDE DEF g
  <2> QED BY <1>4 DEF SumStep
<1> HIDE DEF g, h
<1> QED BY <1>1, <1>3, <1>5, <1>6, <1>7, <1>8

\* The empty sum.
LEMMA SumNone ==
  ASSUME NEW f
  PROVE  SumFunctionOnSet(f, {}) = 0
<1>1. IsFiniteSet({})
  BY FS_EmptySet
<1> DEFINE S == {}
<1>2. IsFiniteSet(S) /\ S = {}
  BY <1>1
<1> HIDE DEF S
<1>3. SumFunctionOnSet(f, S) = 0
  BY <1>2, SumEquation
<1> QED BY <1>2, <1>3

\* The sum of integers is one.
LEMMA SumType ==
  ASSUME NEW D, IsFiniteSet(D), NEW f \in [D -> Int], NEW S \in SUBSET D
  PROVE  SumFunctionOnSet(f, S) \in Int
<1> DEFINE B == {s \in SUBSET D : SumFunctionOnSet(f, s) \notin Int}
<1>1. SUFFICES ASSUME B # {} PROVE FALSE
  OBVIOUS
<1>2. PICK s \in B : \A r \in B : Cardinality(s) <= Cardinality(r)
  BY <1>1, Smallest
<1>3. s \in SUBSET D /\ SumFunctionOnSet(f, s) \notin Int /\ IsFiniteSet(s)
  BY Sizes
<1>4. s # {}
  <2>1. SumFunctionOnSet(f, {}) \in Int
    BY SumNone
  <2> QED BY <1>3, <2>1
<1> DEFINE p == Pick(s)
<1>5. p \in s /\ SumFunctionOnSet(f, s) = f[p] + SumFunctionOnSet(f, s \ {p})
  BY <1>3, <1>4, SumEquation
<1> HIDE DEF p
<1>6. f[p] \in Int /\ s \ {p} \in SUBSET D
  <2>1. p \in D
    BY <1>3, <1>5
  <2> QED BY <1>3, <2>1
<1>7. s \ {p} \in B
  BY <1>3, <1>5, <1>6
<1>8. Cardinality(s) = Cardinality(s \ {p}) + 1 /\ Cardinality(s \ {p}) \in Nat
  BY <1>3, <1>5, <1>6, Sizes
<1>9. Cardinality(s) <= Cardinality(s \ {p})
  BY <1>2, <1>7
<1> QED BY <1>8, <1>9

\* Any element may come first.
SumAdds(D, f, S) ==
  \A x \in D \ S : SumFunctionOnSet(f, S \union {x}) = f[x] + SumFunctionOnSet(f, S)

\* This is so for every set: the element a fold takes first does not matter.
LEMMA SumAdd ==
  ASSUME NEW D, IsFiniteSet(D), NEW f \in [D -> Int], NEW S \in SUBSET D
  PROVE  SumAdds(D, f, S)
<1> DEFINE B == {s \in SUBSET D : ~SumAdds(D, f, s)}
<1>1. SUFFICES ASSUME B # {} PROVE FALSE
  OBVIOUS
<1>2. PICK s \in B : \A r \in B : Cardinality(s) <= Cardinality(r)
  BY <1>1, Smallest
<1>3. s \in SUBSET D /\ ~SumAdds(D, f, s) /\ IsFiniteSet(s)
  BY Sizes
<1>4. PICK x \in D \ s : SumFunctionOnSet(f, s \union {x}) # f[x] + SumFunctionOnSet(f, s)
  BY <1>3 DEF SumAdds
<1> DEFINE u == s \union {x}
           p == Pick(u)
<1>5. u \in SUBSET D /\ u # {} /\ IsFiniteSet(u)
  <2>1. u \in SUBSET D /\ u # {}
    BY <1>3
  <2> HIDE DEF u
  <2> QED BY <2>1, Sizes
<1>6. p \in u /\ SumFunctionOnSet(f, u) = f[p] + SumFunctionOnSet(f, u \ {p})
  <2> HIDE DEF u
  <2> QED BY <1>5, SumEquation
<1> HIDE DEF p
<1>7. CASE p = x
  <2>1. u \ {p} = s
    BY <1>7
  <2> QED BY <1>4, <1>6, <1>7, <2>1
<1>8. CASE p # x
  <2> DEFINE r == s \ {p}
  <2>0. p \in s
    BY <1>6, <1>8
  <2>1. r \in SUBSET D /\ x \in D \ r /\ p \in D \ r /\ r \union {p} = s /\ r \union {x} = u \ {p}
    BY <1>3, <1>8, <2>0
  <2>2. Cardinality(s) = Cardinality(r) + 1 /\ Cardinality(r) \in Nat
    BY <1>3, <2>0, <2>1, Sizes
  <2>3. SumAdds(D, f, r)
    <3>1. SUFFICES ASSUME r \in B PROVE FALSE
      BY <2>1
    <3>2. Cardinality(s) <= Cardinality(r)
      BY <1>2, <3>1
    <3> QED BY <2>2, <3>2
  <2>4. SumFunctionOnSet(f, u \ {p}) = f[x] + SumFunctionOnSet(f, r)
    BY <2>1, <2>3 DEF SumAdds
  <2>5. SumFunctionOnSet(f, s) = f[p] + SumFunctionOnSet(f, r)
    BY <2>1, <2>3 DEF SumAdds
  <2>6. f[x] \in Int /\ f[p] \in Int
    BY <2>1
  <2>7. SumFunctionOnSet(f, r) \in Int
    <3> HIDE DEF r
    <3> QED BY <2>1, SumType
  <2>8. f[p] + (f[x] + SumFunctionOnSet(f, r)) = f[x] + (f[p] + SumFunctionOnSet(f, r))
    BY <2>6, <2>7
  <2> QED BY <1>4, <1>6, <2>4, <2>5, <2>8
<1> QED BY <1>7, <1>8

\* The sum over a set and one more element, in the forms that are used.
LEMMA SumWith ==
  ASSUME NEW D, IsFiniteSet(D), NEW f \in [D -> Int], NEW S \in SUBSET D, NEW x \in D, x \notin S
  PROVE  /\ SumFunctionOnSet(f, S \union {x}) = f[x] + SumFunctionOnSet(f, S)
         /\ f[x] \in Int /\ SumFunctionOnSet(f, S) \in Int
  BY SumAdd, SumType DEF SumAdds

\* The sum over one element is its value.
LEMMA SumOne ==
  ASSUME NEW D, IsFiniteSet(D), NEW f \in [D -> Int], NEW x \in D
  PROVE  SumFunctionOnSet(f, {x}) = f[x]
<1> DEFINE S == {}
<1>1. S \in SUBSET D /\ x \notin S
  OBVIOUS
<1>0. S \union {x} = {x} /\ S = {}
  OBVIOUS
<1> HIDE DEF S
<1>2. SumFunctionOnSet(f, S \union {x}) = f[x] + SumFunctionOnSet(f, S) /\ f[x] \in Int
  BY <1>1, SumWith
<1>3. SumFunctionOnSet(f, S) = 0
  BY <1>0, SumNone
<1>4. f[x] + 0 = f[x]
  BY <1>2
<1> QED BY <1>0, <1>2, <1>3, <1>4

\* Only the values on the set count.
LEMMA SumSame ==
  ASSUME NEW D, IsFiniteSet(D), NEW f \in [D -> Int], NEW g \in [D -> Int],
         NEW S \in SUBSET D, \A c \in S : f[c] = g[c]
  PROVE  SumFunctionOnSet(f, S) = SumFunctionOnSet(g, S)
<1> DEFINE P == {s \in SUBSET D : (\A c \in s : f[c] = g[c]) => SumFunctionOnSet(f, s) = SumFunctionOnSet(g, s)}
<1>1. {} \in P
  BY SumNone
<1>2. ASSUME NEW s \in SUBSET D, NEW x \in D, s \in P, x \notin s PROVE s \union {x} \in P
  <2> SUFFICES ASSUME \A c \in s \union {x} : f[c] = g[c]
               PROVE  SumFunctionOnSet(f, s \union {x}) = SumFunctionOnSet(g, s \union {x})
    OBVIOUS
  <2>1. SumFunctionOnSet(f, s) = SumFunctionOnSet(g, s) /\ f[x] = g[x]
    BY <1>2
  <2>2. SumFunctionOnSet(f, s \union {x}) = f[x] + SumFunctionOnSet(f, s)
    BY <1>2, SumWith
  <2>3. SumFunctionOnSet(g, s \union {x}) = g[x] + SumFunctionOnSet(g, s)
    BY <1>2, SumWith
  <2> QED BY <2>1, <2>2, <2>3
<1>3. \A s \in SUBSET D : s \in P
  <2> HIDE DEF P
  <2> QED BY <1>1, <1>2, Grown
<1> QED BY <1>3

\* What is at most five times as much element by element is so in sum.
LEMMA SumTimes ==
  ASSUME NEW D, IsFiniteSet(D), NEW f \in [D -> Int], NEW g \in [D -> Int],
         NEW S \in SUBSET D, \A c \in S : f[c] <= 5 * g[c]
  PROVE  SumFunctionOnSet(f, S) <= 5 * SumFunctionOnSet(g, S)
<1> DEFINE P == {s \in SUBSET D : (\A c \in s : f[c] <= 5 * g[c]) =>
                                    SumFunctionOnSet(f, s) <= 5 * SumFunctionOnSet(g, s)}
<1>1. {} \in P
  BY SumNone
<1>2. ASSUME NEW s \in SUBSET D, NEW x \in D, s \in P, x \notin s PROVE s \union {x} \in P
  <2> SUFFICES ASSUME \A c \in s \union {x} : f[c] <= 5 * g[c]
               PROVE  SumFunctionOnSet(f, s \union {x}) <= 5 * SumFunctionOnSet(g, s \union {x})
    OBVIOUS
  <2>1. SumFunctionOnSet(f, s) <= 5 * SumFunctionOnSet(g, s) /\ f[x] <= 5 * g[x]
    BY <1>2
  <2>2. /\ SumFunctionOnSet(f, s \union {x}) = f[x] + SumFunctionOnSet(f, s)
        /\ f[x] \in Int /\ SumFunctionOnSet(f, s) \in Int
    BY <1>2, SumWith
  <2>3. /\ SumFunctionOnSet(g, s \union {x}) = g[x] + SumFunctionOnSet(g, s)
        /\ g[x] \in Int /\ SumFunctionOnSet(g, s) \in Int
    BY <1>2, SumWith
  <2> QED BY <2>1, <2>2, <2>3
<1>3. \A s \in SUBSET D : s \in P
  <2> HIDE DEF P
  <2> QED BY <1>1, <1>2, Grown
<1> QED BY <1>3

\* Values of at most b sum to at most b for every element.
LEMMA SumBound ==
  ASSUME NEW D, IsFiniteSet(D), NEW f \in [D -> Int], NEW b \in Nat,
         NEW S \in SUBSET D, \A c \in S : f[c] <= b
  PROVE  SumFunctionOnSet(f, S) <= Cardinality(S) * b
<1> DEFINE P == {s \in SUBSET D : (\A c \in s : f[c] <= b) =>
                                    SumFunctionOnSet(f, s) <= Cardinality(s) * b}
<1>1. {} \in P
  BY SumNone, FS_EmptySet
<1>2. ASSUME NEW s \in SUBSET D, NEW x \in D, s \in P, x \notin s PROVE s \union {x} \in P
  <2> SUFFICES ASSUME \A c \in s \union {x} : f[c] <= b
               PROVE  SumFunctionOnSet(f, s \union {x}) <= Cardinality(s \union {x}) * b
    OBVIOUS
  <2>1. SumFunctionOnSet(f, s) <= Cardinality(s) * b /\ f[x] <= b
    BY <1>2
  <2>2. /\ SumFunctionOnSet(f, s \union {x}) = f[x] + SumFunctionOnSet(f, s)
        /\ f[x] \in Int /\ SumFunctionOnSet(f, s) \in Int
    BY <1>2, SumWith
  <2>3. Cardinality(s \union {x}) = Cardinality(s) + 1 /\ Cardinality(s) \in Nat
    <3>1. IsFiniteSet(s) /\ Cardinality(s) \in Nat
      BY Sizes
    <3> QED BY <1>2, <3>1, FS_AddElement
  <2>4. ASSUME NEW k \in Nat PROVE (k + 1) * b = k * b + b /\ k * b \in Nat
    OBVIOUS
  <2>5. (Cardinality(s) + 1) * b = Cardinality(s) * b + b /\ Cardinality(s) * b \in Nat
    BY <2>3, <2>4
  <2> QED BY <2>1, <2>2, <2>3, <2>5
<1>3. \A s \in SUBSET D : s \in P
  <2> HIDE DEF P
  <2> QED BY <1>1, <1>2, Grown
<1> QED BY <1>3

-----------------------------------------------------------------------------
(* The states of a game.                                                   *)

Hands == [type : Nat, high : BOOLEAN]

Sinks ==
  [phase : {"FREE", "CALL", "SCORE", "PLAYING"},
   play : [Chairs -> {"NULL", "PLAYING", "DYNAMIC"}],
   current : Chairs \union {NoChair}, first : Chairs \union {NoChair},
   banker : Chairs \union {NoChair}, called : SUBSET Chairs,
   turnMax : [Chairs -> Nat], table : [Chairs -> Nat], hand : [Chairs -> Hands],
   ox : [Chairs -> {0, 1, Closed}], exit : Nat, score : [Chairs -> Nat],
   paid : Int, charged : Int, late : BOOLEAN]

AllClosed(s) == \A c \in Chairs : s.ox[c] = Closed

\* From the chair that is asked on, the players who were not yet asked come
\* first: up to m chairs further, when d counts the chairs.
TurnsTo(s, m) ==
  \A d \in Chairs :
    (s.current + d) % Players \in Playing(s) =>
      ((s.current + d) % Players \notin s.called <=> d < m)

Turns(s) == \E m \in 1..Players : TurnsTo(s, m)

\* The bet of c is within the limit for n players against the banker.
Within(s, n, c) ==
  /\ s.table[c] <= s.turnMax[c]
  /\ s.turnMax[c] <= (s.score[s.banker] \div n) \div 5
  /\ s.turnMax[c] <= s.score[c] \div 5

\* The limits were made for at least as many players as there still are.
Limits(s) ==
  \E n \in Nat \ {0} : /\ Cardinality(Idlers(s)) <= n
                       /\ \A c \in Idlers(s) : Within(s, n, c)

\* What holds in each phase.  What was written so far is the counterpart of
\* the bets of those who left.
FreeInv(s) ==
  /\ s.play = [c \in Chairs |-> "NULL"] /\ s.called = {} /\ s.table = Zero
  /\ AllClosed(s) /\ s.exit = 0 /\ (~s.late => s.paid = 0)

CallInv(s) ==
  /\ s.table = Zero /\ AllClosed(s) /\ s.exit = 0 /\ s.paid = 0
  /\ Cardinality(Playing(s)) >= 2 /\ s.current \in Playing(s) /\ Turns(s)

ScoreInv(s) ==
  /\ s.banker \in Playing(s) /\ Limits(s) /\ AllClosed(s) /\ s.paid + s.exit = 0
  /\ \E c \in Idlers(s) : s.table[c] = 0

PlayInv(s) ==
  /\ s.banker \in Playing(s) /\ Limits(s) /\ (~s.late => s.paid + s.exit = 0)
  /\ \E c \in Playing(s) : s.ox[c] = Closed

Games == {s \in Sinks : /\ s.phase = "FREE" => FreeInv(s)
                        /\ s.phase = "CALL" => CallInv(s)
                        /\ s.phase = "SCORE" => ScoreInv(s)
                        /\ s.phase = "PLAYING" => PlayInv(s)}

-----------------------------------------------------------------------------
(* Chairs.                                                                 *)

\* What is known of the chairs: GAME_PLAYER is at least two.
LEMMA ChairFacts ==
  /\ Players \in Nat /\ Players >= 2
  /\ IsFiniteSet(Chairs) /\ Chairs \subseteq Nat /\ 0 \in Chairs /\ NoChair \notin Chairs
  /\ \A c : c \in Chairs <=> c \in Nat /\ c < Players
<1>1. Players \in Nat /\ Players >= 2 /\ NoChair \notin Nat
  BY OxAssumption
<1>2. IsFiniteSet(Chairs)
  <2>1. 0 \in Int /\ Players - 1 \in Int
    BY <1>1
  <2> QED BY <2>1, FS_Interval DEF Chairs
<1>3. Chairs \subseteq Nat /\ 0 \in Chairs /\ \A c : c \in Chairs <=> c \in Nat /\ c < Players
  BY <1>1 DEF Chairs
<1> QED BY <1>1, <1>2, <1>3

\* The remainder of a number below twice the divisor.
LEMMA Remainder ==
  ASSUME NEW n \in Nat, n > 0, NEW x \in Nat, x < 2 * n
  PROVE  x % n = IF x < n THEN x ELSE x - n
<1>1. CASE x < n
  BY <1>1
<1>2. CASE n <= x
  BY <1>2
<1> QED BY <1>1, <1>2

\* Going on from a chair around the table.
LEMMA Around ==
  ASSUME NEW c \in Chairs, NEW d \in Chairs
  PROVE  /\ (c + d) % Players \in Chairs
         /\ (c + d) % Players = IF c + d < Players THEN c + d ELSE c + d - Players
<1>1. c + d \in Nat /\ c + d < 2 * Players
  BY ChairFacts
<1>2. (c + d) % Players = IF c + d < Players THEN c + d ELSE c + d - Players
  BY <1>1, Remainder, ChairFacts
<1> QED BY <1>1, <1>2, ChairFacts

\* Every chair is some way on from every other.
LEMMA Reach ==
  ASSUME NEW c \in Chairs, NEW p \in Chairs
  PROVE  \E d \in Chairs : (c + d) % Players = p
<1> DEFINE d == IF c <= p THEN p - c ELSE p - c + Players
<1>1. d \in Chairs /\ p = IF c + d < Players THEN c + d ELSE c + d - Players
  BY ChairFacts
<1> HIDE DEF d
<1> QED BY <1>1, Around

\* NextPlaying finds a player, and passes none on the way.
LEMMA NextLemma ==
  ASSUME NEW s, NEW c \in Chairs, Playing(s) # {}
  PROVE  \E e \in Chairs :
           /\ NextPlaying(s, c) = (c + e) % Players
           /\ (c + e) % Players \in Playing(s)
           /\ \A d \in Chairs : d < e => (c + d) % Players \notin Playing(s)
<1> DEFINE T == {d \in Chairs : s.play[(c + d) % Players] = "PLAYING"}
<1>1. \A d : d \in T <=> d \in Chairs /\ (c + d) % Players \in Playing(s)
  BY Around DEF Playing
<1>2. T \subseteq Nat
  BY ChairFacts
<1>3. T # {}
  <2>1. PICK p \in Playing(s) : p \in Chairs
    BY DEF Playing
  <2>2. PICK d \in Chairs : (c + d) % Players = p
    BY <2>1, Reach
  <2> HIDE DEF T
  <2> QED BY <1>1, <2>1, <2>2
<1>4. NextPlaying(s, c) = (c + Min(T)) % Players
  BY DEF NextPlaying
<1> HIDE DEF T
<1>5. PICK e \in T : \A y \in T : e <= y
  BY <1>2, <1>3, LeastNumber
<1>6. Min(T) \in T /\ \A y \in T : Min(T) <= y
  BY <1>5 DEF Min
<1>7. \A d \in Chairs : d < Min(T) => (c + d) % Players \notin Playing(s)
  <2>1. ASSUME NEW d \in Chairs, d < Min(T), d \in T PROVE FALSE
    <3>1. Min(T) <= d /\ Min(T) \in Nat /\ d \in Nat
      BY <1>2, <1>6, <2>1
    <3> QED BY <2>1, <3>1
  <2> QED BY <1>1, <2>1
<1> QED BY <1>1, <1>4, <1>6, <1>7

\* The next one to be asked: the turn m moves with the chair.
LEMMA NextTurn ==
  ASSUME NEW s, s.current \in Chairs, NEW m \in 1..Players, TurnsTo(s, m),
         NEW t, Playing(t) = Playing(s), t.called = s.called \union {s.current},
         ~(Playing(s) \subseteq t.called),
         t.current = NextPlaying(s, (s.current + 1) % Players)
  PROVE  t.current \in Playing(s) \ t.called /\ Turns(t)
<1> DEFINE N == Players
           c == s.current
           b == (c + 1) % N
           P == Playing(s)
           At(i, d) == (i + d) % N
<1>0. N \in Nat /\ N >= 2 /\ c \in Chairs /\ 1 \in Chairs /\ m \in Nat /\ m >= 1 /\ m <= N
      /\ \A i : i \in Chairs <=> i \in Nat /\ i < N
  BY ChairFacts
<1>1. b \in Chairs /\ b = IF c + 1 < N THEN c + 1 ELSE c + 1 - N
  BY <1>0, Around
<1>p. P # {} /\ P \subseteq Chairs
  BY DEF Playing
<1>2. PICK e \in Chairs : /\ t.current = At(b, e) /\ At(b, e) \in P
                          /\ \A d \in Chairs : d < e => At(b, d) \notin P
  BY <1>1, <1>p, NextLemma
<1>3. \A i \in Chairs, d \in Chairs : At(i, d) \in Chairs /\ At(i, d) = IF i + d < N THEN i + d ELSE i + d - N
  BY Around
<1>4. \A d \in Chairs : At(c, d) \in P => (At(c, d) \notin s.called <=> d < m)
  BY DEF TurnsTo
<1> HIDE DEF b, At, P
\* Chairs before the new one, counted from the old one.
<1>5. ASSUME NEW d \in Chairs, d >= 1 PROVE d - 1 \in Chairs /\ At(c, d) = At(b, d - 1)
  <2>1. d - 1 \in Chairs
    BY <1>0, <1>5
  <2>2. At(c, d) = IF c + d < N THEN c + d ELSE c + d - N
    BY <1>0, <1>3
  <2>3. At(b, d - 1) = IF b + (d - 1) < N THEN b + (d - 1) ELSE b + (d - 1) - N
    BY <1>1, <1>3, <2>1
  <2>4. c \in Nat /\ c < N /\ d \in Nat /\ d < N /\ d >= 1 /\ N \in Nat
    BY <1>0, <1>5
  <2>5. CASE c + 1 < N
    <3>1. b = c + 1 /\ b + (d - 1) = c + d
      BY <1>1, <2>4, <2>5
    <3>2. CASE c + d < N
      <4>1. At(c, d) = c + d /\ At(b, d - 1) = b + (d - 1)
        BY <2>2, <2>3, <3>1, <3>2
      <4> QED BY <2>1, <3>1, <4>1
    <3>3. CASE ~(c + d < N)
      <4>1. At(c, d) = c + d - N /\ At(b, d - 1) = b + (d - 1) - N
        BY <2>2, <2>3, <3>1, <3>3
      <4>2. c + d - N = b + (d - 1) - N
        BY <2>4, <3>1
      <4> QED BY <2>1, <4>1, <4>2
    <3> QED BY <3>2, <3>3
  <2>6. CASE c + 1 >= N
    <3>1. b = 0 /\ c + 1 = N /\ ~(c + d < N) /\ c + d - N = d - 1
      BY <1>1, <2>4, <2>6
    <3>2. b + (d - 1) < N /\ b + (d - 1) = d - 1
      BY <2>4, <3>1
    <3> QED BY <2>1, <2>2, <2>3, <3>1, <3>2
  <2> QED BY <2>4, <2>5, <2>6
<1>6. ASSUME NEW d \in Chairs, d >= 1, d < e + 1 PROVE At(c, d) \notin P
  <2>1. d - 1 \in Chairs /\ d - 1 < e /\ At(c, d) = At(b, d - 1)
    BY <1>0, <1>5, <1>6
  <2> QED BY <1>2, <2>1
\* One who was not asked is ahead, and so is the new one.
<1>7. PICK q \in P : q \notin t.called
  BY DEF P
<1>8. PICK k \in Chairs : At(c, k) = q
  <2>1. q \in Chairs
    BY <1>p
  <2> QED BY <1>0, <2>1, Reach DEF At
<1>9. At(c, 0) = c
  BY <1>0, <1>3
<1>10. k >= 1 /\ k < m
  <2>1. q # c /\ q \notin s.called
    BY <1>7
  <2>2. k # 0
    BY <1>8, <1>9, <2>1
  <2>3. k < m
    BY <1>4, <1>7, <1>8, <2>1
  <2> QED BY <1>0, <2>2, <2>3
<1>11. e + 1 <= k
  <2>1. SUFFICES ASSUME k < e + 1 PROVE FALSE
    BY <1>0
  <2> QED BY <1>6, <1>7, <1>8, <1>10, <2>1
<1>12. e + 1 \in Chairs /\ e + 1 < m /\ t.current = At(c, e + 1)
  <2>1. e + 1 \in Chairs /\ e + 1 < m /\ e + 1 >= 1 /\ (e + 1) - 1 = e
    BY <1>0, <1>10, <1>11
  <2>2. At(c, e + 1) = At(b, (e + 1) - 1)
    BY <1>5, <2>1
  <2> QED BY <1>2, <2>1, <2>2
<1>13. t.current \in Chairs /\ t.current = IF c + (e + 1) < N THEN c + (e + 1) ELSE c + (e + 1) - N
  BY <1>0, <1>3, <1>12
<1>14. t.current # c
  BY <1>0, <1>12, <1>13
<1>15. t.current \in P \ t.called
  BY <1>2, <1>4, <1>12, <1>14
<1> DEFINE w == m - (e + 1)
<1>16. w \in 1..Players
  BY <1>0, <1>12
<1>17. ASSUME NEW d \in Chairs, At(t.current, d) \in P
       PROVE  At(t.current, d) \notin t.called <=> d < w
  <2>1. At(t.current, d) = IF t.current + d < N THEN t.current + d ELSE t.current + d - N
    BY <1>3, <1>13
  <2> DEFINE D == e + 1 + d
  <2>2. CASE D < N
    <3>1. D \in Chairs /\ D >= 1
      BY <1>0, <2>2
    <3>2. At(c, D) = IF c + D < N THEN c + D ELSE c + D - N
      BY <1>0, <1>3, <3>1
    <3>3. At(t.current, d) = At(c, D)
      BY <1>0, <1>13, <2>1, <2>2, <3>2
    <3>4. At(c, D) # c
      BY <1>0, <2>2, <3>2
    <3>5. At(c, D) \notin s.called <=> D < m
      BY <1>4, <1>17, <3>1, <3>3
    <3>6. D < m <=> d < w
      BY <1>0
    <3> QED BY <3>3, <3>4, <3>5, <3>6
  <2>3. CASE D >= N
    <3> DEFINE E == D - N
    <3>1. E \in Chairs /\ E < e + 1
      BY <1>0, <2>3
    <3>2. At(c, E) = IF c + E < N THEN c + E ELSE c + E - N
      BY <1>0, <1>3, <3>1
    <3>3. At(t.current, d) = At(c, E)
      BY <1>0, <1>13, <2>1, <2>3, <3>2
    <3>4. E = 0
      BY <1>0, <1>6, <1>17, <3>1, <3>3
    <3>5. At(t.current, d) \in t.called
      BY <1>9, <3>3, <3>4
    <3>6. ~(d < w)
      BY <1>0, <3>4
    <3> QED BY <3>5, <3>6
  <2> QED BY <1>0, <2>2, <2>3
<1>18. TurnsTo(t, w)
  <2>1. ASSUME NEW d \in Chairs, (t.current + d) % Players \in Playing(t)
        PROVE  (t.current + d) % Players \notin t.called <=> d < w
    BY <1>17, <2>1 DEF At, P
  <2> QED BY <2>1 DEF TurnsTo
<1>19. Turns(t)
  BY <1>16, <1>18 DEF Turns
<1> QED BY <1>15, <1>19 DEF P

-----------------------------------------------------------------------------
(* The end of a game.                                                      *)

\* The players are finitely many chairs, and so are those who bet.
LEMMA PlayingFacts ==
  ASSUME NEW s
  PROVE  /\ Playing(s) \in SUBSET Chairs /\ Idlers(s) \in SUBSET Chairs
         /\ IsFiniteSet(Playing(s)) /\ IsFiniteSet(Idlers(s))
         /\ Cardinality(Playing(s)) \in Nat /\ Cardinality(Idlers(s)) \in Nat
         /\ \A c : c \in Playing(s) <=> c \in Chairs /\ s.play[c] = "PLAYING"
<1>1. /\ Playing(s) \in SUBSET Chairs /\ Idlers(s) \in SUBSET Chairs
      /\ \A c : c \in Playing(s) <=> c \in Chairs /\ s.play[c] = "PLAYING"
  BY DEF Playing, Idlers
<1>2. /\ IsFiniteSet(Playing(s)) /\ IsFiniteSet(Idlers(s))
      /\ Cardinality(Playing(s)) \in Nat /\ Cardinality(Idlers(s)) \in Nat
  BY <1>1, ChairFacts, Sizes
<1> QED BY <1>1, <1>2

\* The sink is ready for the next game.
LEMMA RepositionLemma ==
  ASSUME NEW s \in Sinks, ~s.late => s.paid = 0
  PROVE  /\ RepositionSink(s) \in Games /\ RepositionSink(s).late = s.late
         /\ RepositionSink(s).phase = "FREE"
<1> DEFINE t == RepositionSink(s)
           nulls == [c \in Chairs |-> "NULL"]
           closed == [c \in Chairs |-> Closed]
<1>1. /\ nulls \in [Chairs -> {"NULL", "PLAYING", "DYNAMIC"}] /\ Zero \in [Chairs -> Nat]
      /\ NoCards \in [Chairs -> Hands] /\ closed \in [Chairs -> {0, 1, Closed}]
  BY DEF Zero, NoCards, Hands
<1>2. t = [s EXCEPT !.phase = "FREE", !.play = nulls, !.current = NoChair,
             !.called = {}, !.turnMax = Zero, !.table = Zero, !.hand = NoCards,
             !.ox = closed, !.exit = 0]
  BY DEF RepositionSink
<1>3. \A c \in Chairs : closed[c] = Closed
  OBVIOUS
<1> HIDE DEF t, nulls, closed
<1>4. t \in Sinks
  BY <1>1, <1>2 DEF Sinks
<1>5. /\ t.phase = "FREE" /\ t.play = nulls /\ t.called = {} /\ t.table = Zero /\ t.ox = closed
      /\ t.exit = 0 /\ t.late = s.late /\ t.paid = s.paid
  BY <1>2 DEF Sinks
<1>6. FreeInv(t)
  BY <1>3, <1>5 DEF FreeInv, AllClosed, nulls
<1>7. t \in Games
  BY <1>4, <1>5, <1>6 DEF Games
<1> QED BY <1>5, <1>7 DEF t

\* Two states that differ in what was written only.
SameGame(s, t) ==
  /\ t.phase = s.phase /\ t.play = s.play /\ t.current = s.current /\ t.first = s.first
  /\ t.banker = s.banker /\ t.called = s.called /\ t.turnMax = s.turnMax /\ t.table = s.table
  /\ t.hand = s.hand /\ t.ox = s.ox /\ t.exit = s.exit /\ t.score = s.score /\ t.late = s.late

\* What is written to the chairs in S that do not just join counts as paid.
LEMMA WriteLemma ==
  ASSUME NEW s \in Sinks, NEW S \in SUBSET Chairs, NEW result \in [Chairs -> Int]
  PROVE  /\ WriteTableScore(s, S, result) \in Sinks
         /\ SameGame(s, WriteTableScore(s, S, result))
         /\ WriteTableScore(s, S, result).paid =
              s.paid + SumFunctionOnSet(result, {c \in S : s.play[c] # "DYNAMIC"})
<1> DEFINE A == {c \in S : s.play[c] # "DYNAMIC"}
           B == {c \in S : s.play[c] = "DYNAMIC"}
           a == SumFunctionOnSet(result, A)
           b == SumFunctionOnSet(result, B)
           t == WriteTableScore(s, S, result)
<1>1. A \in SUBSET Chairs /\ B \in SUBSET Chairs
  OBVIOUS
<1>2. a \in Int /\ b \in Int
  <2> HIDE DEF A, B
  <2> QED BY <1>1, ChairFacts, SumType
<1>3. t = [s EXCEPT !.paid = s.paid + a, !.charged = s.charged + b]
  BY DEF WriteTableScore, Sinks
<1> HIDE DEF a, b, t
<1>4. s.paid \in Int /\ s.charged \in Int
  BY DEF Sinks
<1> DEFINE x == s.paid + a
           y == s.charged + b
<1>5. x \in Int /\ y \in Int
  BY <1>2, <1>4
<1>6. t = [s EXCEPT !.paid = x, !.charged = y]
  BY <1>3
<1> HIDE DEF x, y
<1>7. t \in Sinks
  BY <1>5, <1>6 DEF Sinks
<1>8. SameGame(s, t)
  BY <1>6 DEF Sinks, SameGame
<1>9. t.paid = x
  BY <1>6 DEF Sinks
<1> QED BY <1>7, <1>8, <1>9 DEF t, x, a

\* The limits cover five times the bets: n * ((b \div n) \div 5) * 5 <= b.
LEMMA CoveredLemma ==
  ASSUME NEW s \in Sinks, s.banker \in Chairs, Limits(s)
  PROVE  /\ 5 * SumFunctionOnSet(s.table, Idlers(s)) <= s.score[s.banker]
         /\ \A c \in Idlers(s) : 5 * s.table[c] <= s.score[c]
         /\ SumFunctionOnSet(s.table, Idlers(s)) \in Int
<1> DEFINE I == Idlers(s)
           b == s.score[s.banker]
           sum == SumFunctionOnSet(s.table, I)
           k == Cardinality(I)
<1>1. PICK n \in Nat \ {0} : k <= n /\ \A c \in I : Within(s, n, c)
  BY DEF Limits
<1>2. /\ s.table \in [Chairs -> Nat] /\ s.score \in [Chairs -> Nat] /\ s.turnMax \in [Chairs -> Nat]
      /\ b \in Nat /\ I \in SUBSET Chairs /\ k \in Nat /\ s.table \in [Chairs -> Int]
  <2>1. s.table \in [Chairs -> Nat] /\ s.score \in [Chairs -> Nat] /\ s.turnMax \in [Chairs -> Nat]
    BY DEF Sinks
  <2>2. s.table \in [Chairs -> Int]
    BY <2>1
  <2> QED BY <2>1, <2>2, PlayingFacts
<1> DEFINE q == b \div n
           l == q \div 5
<1>3. q \in Nat /\ n * q <= b
  <2> HIDE DEF b
  <2> QED BY <1>2
<1>4. l \in Nat /\ 5 * l <= q
  <2> HIDE DEF q
  <2> QED BY <1>3
<1>5. \A c \in I : s.table[c] <= l /\ 5 * s.table[c] <= s.score[c]
  <2> SUFFICES ASSUME NEW c \in I PROVE s.table[c] <= l /\ 5 * s.table[c] <= s.score[c]
    OBVIOUS
  <2>1. s.table[c] <= s.turnMax[c] /\ s.turnMax[c] <= l /\ s.turnMax[c] <= s.score[c] \div 5
    BY <1>1 DEF Within
  <2>2. s.table[c] \in Nat /\ s.turnMax[c] \in Nat /\ s.score[c] \in Nat
    BY <1>2
  <2>3. 5 * (s.score[c] \div 5) <= s.score[c] /\ s.score[c] \div 5 \in Nat
    BY <2>2
  <2> HIDE DEF l
  <2> QED BY <1>4, <2>1, <2>2, <2>3
<1> HIDE DEF l, q
<1>6. sum \in Int
  <2> HIDE DEF I
  <2> QED BY <1>2, ChairFacts, SumType
<1>7. sum <= k * l
  <2> HIDE DEF I
  <2> QED BY <1>2, <1>4, <1>5, ChairFacts, SumBound
<1> HIDE DEF sum, k, b, I
<1>8. k * l <= n * l /\ k * l \in Nat /\ n * l \in Nat
  BY <1>1, <1>2, <1>4
<1>9. n * (5 * l) <= n * q /\ n * (5 * l) = 5 * (n * l) /\ n * q \in Nat
  BY <1>3, <1>4
<1>10. 5 * sum <= b
  BY <1>2, <1>3, <1>6, <1>7, <1>8, <1>9
<1> QED BY <1>5, <1>6, <1>10 DEF sum, b, I

\* GetTimes: a bet counts one to five times.
LEMMA TimesLemma ==
  ASSUME NEW type \in Nat
  PROVE  GetTimes(type) \in Nat /\ 1 <= GetTimes(type) /\ GetTimes(type) <= 5
  BY DEF GetTimes

\* A bet times 1 to 5 is at most five bets.
LEMMA BetTimes ==
  ASSUME NEW b \in Nat, NEW k \in Nat, k <= 5
  PROVE  b * k \in Nat /\ b * k <= 5 * b
  OBVIOUS

\* When all have opened, the bets are settled: the banker can pay, and what is
\* written now makes up for what those who left have lost.
LEMMA EndLemma ==
  ASSUME NEW s \in Sinks, s.banker \in Playing(s), Limits(s), ~s.late => s.paid + s.exit = 0
  PROVE  GameEnd(s) \in Games /\ GameEnd(s).late = s.late /\ GameEnd(s).phase = "FREE"
<1> DEFINE I == Idlers(s)
           P == Playing(s)
           b == s.banker
           times(c) == IF s.ox[c] = 1 THEN GetTimes(s.hand[c].type) ELSE 1
           gain == [c \in Chairs |->
                      IF c \notin I THEN 0
                      ELSE IF CompareCard(s, c) THEN s.table[c] * times(c)
                      ELSE -(s.table[c] * times(b))]
           won == SumFunctionOnSet(gain, I)
           net == s.exit - won
           lost == -SumFunctionOnSet(gain, {c \in I : gain[c] < 0})
           short == s.score[b] + net < 0
           share(g) == g - Quotient(g * (-net - s.score[b] - lost), -net)
           result == [c \in Chairs |->
                        IF c = b THEN IF short THEN -s.score[c] ELSE net
                        ELSE IF c \notin P /\ s.table[c] > 0 THEN -s.table[c]
                        ELSE IF short /\ gain[c] > 0 THEN share(gain[c]) ELSE gain[c]]
           W == {c \in Chairs : s.play[c] # "NULL"}
           t == WriteTableScore(s, W, result)
<1>1. GameEnd(s) = RepositionSink(t)
  BY DEF GameEnd
<1>2. /\ P \in SUBSET Chairs /\ I \in SUBSET Chairs /\ b \in Chairs /\ b \in P /\ b \notin I
      /\ P = I \union {b} /\ W \in SUBSET Chairs
  BY PlayingFacts DEF Idlers
<1>3. /\ s.table \in [Chairs -> Nat] /\ s.table \in [Chairs -> Int] /\ s.exit \in Nat
      /\ s.score[b] \in Nat /\ s.hand \in [Chairs -> Hands] /\ s.paid \in Int
      /\ s.play \in [Chairs -> {"NULL", "PLAYING", "DYNAMIC"}]
  <2>1. /\ s.table \in [Chairs -> Nat] /\ s.exit \in Nat /\ s.hand \in [Chairs -> Hands]
        /\ s.score \in [Chairs -> Nat] /\ s.paid \in Int
        /\ s.play \in [Chairs -> {"NULL", "PLAYING", "DYNAMIC"}]
    BY DEF Sinks
  <2>2. s.table \in [Chairs -> Int]
    BY <2>1
  <2> QED BY <1>2, <2>1, <2>2
<1>4. \A c \in Chairs : times(c) \in Nat /\ times(c) <= 5
  <2> SUFFICES ASSUME NEW c \in Chairs PROVE times(c) \in Nat /\ times(c) <= 5
    OBVIOUS
  <2>1. s.hand[c].type \in Nat
    BY <1>3 DEF Hands
  <2> QED BY <2>1, TimesLemma
<1> HIDE DEF times
<1>5. \A c \in Chairs : gain[c] \in Int /\ gain[c] <= 5 * s.table[c]
  <2> SUFFICES ASSUME NEW c \in Chairs PROVE gain[c] \in Int /\ gain[c] <= 5 * s.table[c]
    OBVIOUS
  <2>1. s.table[c] \in Nat /\ times(c) \in Nat /\ times(c) <= 5 /\ times(b) \in Nat /\ times(b) <= 5
    BY <1>2, <1>3, <1>4
  <2>2. /\ s.table[c] * times(c) \in Nat /\ s.table[c] * times(c) <= 5 * s.table[c]
        /\ s.table[c] * times(b) \in Nat
    BY <2>1, BetTimes
  <2>3. \/ gain[c] = 0 \/ gain[c] = s.table[c] * times(c) \/ gain[c] = -(s.table[c] * times(b))
    OBVIOUS
  <2> HIDE DEF gain
  <2> DEFINE x == s.table[c] * times(c)
             y == s.table[c] * times(b)
  <2>4. x \in Nat /\ y \in Nat /\ x <= 5 * s.table[c] /\ (gain[c] = 0 \/ gain[c] = x \/ gain[c] = -y)
    BY <2>2, <2>3
  <2> HIDE DEF x, y
  <2> QED BY <2>1, <2>4
<1>6. gain \in [Chairs -> Int] /\ \A c \in I : gain[c] <= 5 * s.table[c]
  <2>1. gain = [c \in Chairs |-> gain[c]]
    OBVIOUS
  <2> HIDE DEF gain
  <2> QED BY <1>2, <1>5, <2>1
<1> HIDE DEF gain, lost
<1>7. won \in Int /\ won <= 5 * SumFunctionOnSet(s.table, I)
  <2> HIDE DEF I
  <2>1. won \in Int
    BY <1>2, <1>6, ChairFacts, SumType
  <2>2. won <= 5 * SumFunctionOnSet(s.table, I)
    BY <1>2, <1>3, <1>6, ChairFacts, SumTimes
  <2> QED BY <2>1, <2>2
<1>8. ~short /\ net \in Int /\ net = s.exit - won
  <2>1. /\ 5 * SumFunctionOnSet(s.table, I) <= s.score[b]
        /\ SumFunctionOnSet(s.table, I) \in Int
    BY <1>2, CoveredLemma
  <2> HIDE DEF won, I, b
  <2> QED BY <1>3, <1>7, <2>1
<1>9. /\ result \in [Chairs -> Int] /\ result[b] = net
      /\ \A c \in I : result[c] = gain[c]
  <2>1. result = [c \in Chairs |->
                    IF c = b THEN net
                    ELSE IF c \notin P /\ s.table[c] > 0 THEN -s.table[c] ELSE gain[c]]
    BY <1>8
  <2> HIDE DEF result, net, short
  <2>2. ASSUME NEW c \in Chairs PROVE -s.table[c] \in Int /\ gain[c] \in Int /\ net \in Int
    BY <1>3, <1>6, <1>8
  <2>3. result \in [Chairs -> Int]
    BY <2>1, <2>2
  <2>4. result[b] = net
    BY <1>2, <2>1
  <2>5. ASSUME NEW c \in I PROVE result[c] = gain[c]
    BY <1>2, <2>1
  <2> QED BY <2>3, <2>4, <2>5
<1> HIDE DEF result, net, short
<1>10. SumFunctionOnSet(result, I) = won
  <2> HIDE DEF I
  <2>1. /\ I \in SUBSET Chairs /\ IsFiniteSet(Chairs) /\ result \in [Chairs -> Int]
        /\ gain \in [Chairs -> Int] /\ \A c \in I : result[c] = gain[c]
    BY <1>2, <1>6, <1>9, ChairFacts
  <2> QED BY <2>1, SumSame
<1>11. SumFunctionOnSet(result, P) = s.exit
  <2> HIDE DEF I, P, b
  <2>0. I \in SUBSET Chairs /\ b \in Chairs /\ b \notin I /\ result \in [Chairs -> Int] /\ IsFiniteSet(Chairs)
    BY <1>2, <1>9, ChairFacts
  <2>1. SumFunctionOnSet(result, I \union {b}) = result[b] + SumFunctionOnSet(result, I)
    BY <2>0, SumWith
  <2>2. net + won = s.exit
    <3> HIDE DEF won
    <3> QED BY <1>3, <1>7, <1>8
  <2> QED BY <1>2, <1>9, <1>10, <2>1, <2>2
<1>12. {c \in W : s.play[c] # "DYNAMIC"} = P
  BY <1>3 DEF Playing
<1>13. /\ t \in Sinks /\ SameGame(s, t)
       /\ t.paid = s.paid + SumFunctionOnSet(result, {c \in W : s.play[c] # "DYNAMIC"})
  <2> HIDE DEF W
  <2> QED BY <1>2, <1>9, WriteLemma
<1>14. t.paid = s.paid + s.exit
  BY <1>11, <1>12, <1>13
<1>15. ~t.late => t.paid = 0
  <2>1. t.late = s.late
    BY <1>13 DEF SameGame
  <2> QED BY <1>3, <1>14, <2>1
<1>16. t.late = s.late
  BY <1>13 DEF SameGame
<1> HIDE DEF t
<1> QED BY <1>1, <1>13, <1>15, <1>16, RepositionLemma

-----------------------------------------------------------------------------
(* The players' answers.                                                   *)

\* __min of two amounts.
LEMMA MinPair ==
  ASSUME NEW a \in Nat, NEW b \in Nat
  PROVE  Min({a, b}) \in Nat /\ Min({a, b}) <= a /\ Min({a, b}) <= b
<1>1. \E x \in {a, b} : \A y \in {a, b} : x <= y
  OBVIOUS
<1> QED BY <1>1 DEF Min

\* There is a banker and others, when two play.
LEMMA WithoutOne ==
  ASSUME NEW s, NEW b \in Playing(s), Cardinality(Playing(s)) >= 2
  PROVE  /\ Cardinality(Playing(s)) - 1 \in Nat \ {0}
         /\ Cardinality(Playing(s) \ {b}) = Cardinality(Playing(s)) - 1
         /\ Playing(s) \ {b} # {}
<1> DEFINE P == Playing(s)
<1>1. IsFiniteSet(P) /\ Cardinality(P) \in Nat /\ b \in P
  BY PlayingFacts
<1> HIDE DEF P
<1>2. Cardinality(P \ {b}) = Cardinality(P) - 1
  BY <1>1, FS_RemoveElement
<1>3. Cardinality(P) >= 2
  BY DEF P
<1>4. P \ {b} # {}
  <2>1. SUFFICES ASSUME P \ {b} = {} PROVE FALSE
    OBVIOUS
  <2>2. Cardinality(P \ {b}) = 0
    BY <2>1, FS_EmptySet
  <2> QED BY <1>1, <1>2, <1>3, <2>2
<1> QED BY <1>1, <1>2, <1>3, <1>4 DEF P

\* The caller's turn, in which the caller may just have left.
Calling(s) ==
  /\ s.phase = "CALL" /\ s.table = Zero /\ AllClosed(s) /\ s.exit = 0 /\ s.paid = 0
  /\ Cardinality(Playing(s)) >= 2 /\ s.current \in Chairs /\ Turns(s)

\* OnUserCallBanker by the one whose turn it is.
LEMMA CallLemma ==
  ASSUME NEW s \in Sinks, Calling(s), NEW yes \in BOOLEAN
  PROVE  OnUserCallBanker(s, s.current, yes) \in Games
<1> DEFINE c == s.current
           P == Playing(s)
           called == s.called \union {c}
           bank == NextPlaying(s, c)
           others == Cardinality(P) - 1
           q == (s.score[bank] \div others) \div 5
           limits == [i \in Chairs |-> IF i \notin P \ {bank} THEN s.turnMax[i]
                                       ELSE Min({q, s.score[i] \div 5})]
           next == NextPlaying(s, (c + 1) % Players)
           t == [s EXCEPT !.phase = "SCORE", !.called = called, !.current = NoChair,
                          !.banker = bank, !.turnMax = limits]
           u == [s EXCEPT !.called = called, !.current = next]
           r == OnUserCallBanker(s, c, yes)
<1>1. r = IF yes \/ P \subseteq called THEN t ELSE u
  BY DEF OnUserCallBanker, Calling, Sinks
<1>2. /\ c \in Chairs /\ P \in SUBSET Chairs /\ IsFiniteSet(P) /\ called \in SUBSET Chairs
      /\ Cardinality(P) \in Nat /\ Cardinality(P) >= 2 /\ P # {}
  <2>1. c \in Chairs /\ P \in SUBSET Chairs /\ IsFiniteSet(P) /\ Cardinality(P) \in Nat /\ Cardinality(P) >= 2
    BY PlayingFacts DEF Calling
  <2>2. P # {}
    BY <2>1, FS_EmptySet
  <2>3. called \in SUBSET Chairs
    BY <2>1 DEF Sinks
  <2> QED BY <2>1, <2>2, <2>3
<1>3. CASE yes \/ P \subseteq called
  <2>1. bank \in P
    BY <1>2, NextLemma
  <2>2. /\ others \in Nat \ {0} /\ Cardinality(P \ {bank}) = others /\ P \ {bank} # {}
    <3> HIDE DEF bank
    <3> QED BY <1>2, <2>1, WithoutOne
  <2>3. s.score \in [Chairs -> Nat] /\ s.turnMax \in [Chairs -> Nat] /\ s.score[bank] \in Nat
    <3> HIDE DEF bank
    <3> QED BY <1>2, <2>1 DEF Sinks
  <2>4. q \in Nat
    <3> HIDE DEF others, bank
    <3>1. s.score[bank] \div others \in Nat
      BY <2>2, <2>3
    <3> QED BY <3>1
  <2>5. \A i \in P \ {bank} : limits[i] = Min({q, s.score[i] \div 5})
    BY <1>2
  <2>6. \A i \in P \ {bank} : limits[i] \in Nat /\ limits[i] <= q /\ limits[i] <= s.score[i] \div 5
    <3> SUFFICES ASSUME NEW i \in P \ {bank}
                 PROVE  limits[i] \in Nat /\ limits[i] <= q /\ limits[i] <= s.score[i] \div 5
      OBVIOUS
    <3>1. s.score[i] \div 5 \in Nat
      <4>1. s.score[i] \in Nat
        BY <1>2, <2>3
      <4> QED BY <4>1
    <3> HIDE DEF q, limits
    <3> QED BY <2>4, <2>5, <3>1, MinPair
  <2>7. limits \in [Chairs -> Nat]
    <3>1. \A i \in Chairs : limits[i] \in Nat
      <4> SUFFICES ASSUME NEW i \in Chairs PROVE limits[i] \in Nat
        OBVIOUS
      <4>1. CASE i \in P \ {bank}
        BY <2>6, <4>1
      <4>2. CASE i \notin P \ {bank}
        <5>1. limits[i] = s.turnMax[i]
          BY <4>2
        <5> QED BY <2>3, <5>1
      <4> QED BY <4>1, <4>2
    <3>2. limits = [i \in Chairs |-> limits[i]]
      OBVIOUS
    <3> HIDE DEF limits
    <3> QED BY <3>1, <3>2
  <2> HIDE DEF limits, bank, called
  <2>8. t \in Sinks
    BY <1>2, <2>1, <2>7 DEF Sinks
  <2>9. /\ t.phase = "SCORE" /\ t.banker = bank /\ t.turnMax = limits /\ t.table = s.table
        /\ t.play = s.play /\ t.score = s.score /\ t.ox = s.ox /\ t.paid = s.paid /\ t.exit = s.exit
    BY DEF Sinks
  <2> HIDE DEF t
  <2>10. Playing(t) = P /\ Idlers(t) = P \ {bank}
    BY <2>9 DEF Playing, Idlers
  <2>11. \A i \in Chairs : t.table[i] = 0
    BY <2>9 DEF Calling, Zero
  <2>12. ASSUME NEW i \in Idlers(t) PROVE Within(t, others, i)
    <3>1. i \in P \ {bank} /\ t.table[i] = 0
      BY <1>2, <2>10, <2>11
    <3>2. limits[i] \in Nat /\ limits[i] <= q /\ limits[i] <= s.score[i] \div 5
      BY <2>6, <3>1
    <3>3. t.table[i] <= t.turnMax[i]
      BY <2>9, <3>1, <3>2
    <3> QED BY <2>9, <3>2, <3>3 DEF Within
  <2>13. Limits(t)
    <3>1. Cardinality(Idlers(t)) <= others
      BY <2>2, <2>10
    <3> QED BY <2>2, <2>12, <3>1 DEF Limits
  <2>14. AllClosed(t) /\ t.paid + t.exit = 0
    <3>1. AllClosed(t)
      BY <2>9 DEF Calling, AllClosed
    <3>2. t.paid = 0 /\ t.exit = 0
      BY <2>9 DEF Calling
    <3> QED BY <3>1, <3>2
  <2>15. ScoreInv(t)
    <3>1. \E i \in Idlers(t) : t.table[i] = 0
      BY <1>2, <2>2, <2>10, <2>11
    <3>2. t.banker \in Playing(t)
      BY <2>1, <2>9, <2>10
    <3> QED BY <2>13, <2>14, <3>1, <3>2 DEF ScoreInv
  <2>16. t \in Games
    BY <2>8, <2>9, <2>15 DEF Games
  <2>17. r = t
    BY <1>1, <1>3
  <2> QED BY <2>16, <2>17
<1>4. CASE ~(yes \/ P \subseteq called)
  <2>0. next \in Chairs
    <3>1. (c + 1) % Players \in Chairs
      <4>1. 1 \in Chairs
        BY ChairFacts
      <4> QED BY <1>2, <4>1, Around
    <3> QED BY <1>2, <3>1, NextLemma
  <2> HIDE DEF next
  <2>1. u \in Sinks
    BY <1>2, <2>0 DEF Sinks
  <2>2. /\ u.phase = "CALL" /\ u.play = s.play /\ u.current = next /\ u.called = called
        /\ u.table = s.table /\ u.ox = s.ox /\ u.exit = s.exit /\ u.paid = s.paid
    BY DEF Sinks, Calling
  <2> HIDE DEF u
  <2>3. Playing(u) = P
    BY <2>2 DEF Playing
  <2>4. PICK m \in 1..Players : TurnsTo(s, m)
    BY DEF Calling, Turns
  <2>5. u.current \in P \ u.called /\ Turns(u)
    <3>1. ~(P \subseteq u.called)
      BY <1>4, <2>2
    <3> QED BY <1>2, <2>2, <2>3, <2>4, <3>1, NextTurn DEF next
  <2>6. CallInv(u)
    <3>1. u.table = Zero /\ AllClosed(u) /\ u.exit = 0 /\ u.paid = 0
      BY <2>2 DEF Calling, AllClosed
    <3>2. Cardinality(Playing(u)) >= 2 /\ u.current \in Playing(u)
      BY <1>2, <2>3, <2>5
    <3> QED BY <2>5, <3>1, <3>2 DEF CallInv
  <2>7. u \in Games
    BY <2>1, <2>2, <2>6 DEF Games
  <2>8. r = u
    BY <1>1, <1>4
  <2> QED BY <2>7, <2>8
<1> QED BY <1>3, <1>4

\* With fewer players and other bets the limits still hold.
LEMMA LimitsKept ==
  ASSUME NEW s, NEW t, Limits(s), Idlers(t) \subseteq Idlers(s),
         t.banker = s.banker, t.score = s.score,
         \A c \in Idlers(t) : t.turnMax[c] = s.turnMax[c] /\ t.table[c] <= t.turnMax[c]
  PROVE  Limits(t)
<1> DEFINE I == Idlers(s)
           J == Idlers(t)
<1>1. PICK n \in Nat \ {0} : Cardinality(I) <= n /\ \A c \in I : Within(s, n, c)
  BY DEF Limits
<1>2. Cardinality(J) <= n
  <2>1. IsFiniteSet(I) /\ Cardinality(I) \in Nat /\ Cardinality(J) \in Nat /\ J \subseteq I
    BY PlayingFacts
  <2> HIDE DEF I, J
  <2>2. Cardinality(J) <= Cardinality(I)
    BY <2>1, FS_Subset
  <2> QED BY <1>1, <2>1, <2>2
<1>3. ASSUME NEW c \in J PROVE Within(t, n, c)
  <2>1. Within(s, n, c) /\ t.turnMax[c] = s.turnMax[c] /\ t.table[c] <= t.turnMax[c]
    BY <1>1
  <2> QED BY <2>1 DEF Within
<1> QED BY <1>2, <1>3 DEF Limits

\* The bets are open, and maybe all made.
Betting(s) ==
  s.phase = "SCORE" /\ s.banker \in Playing(s) /\ Limits(s) /\ AllClosed(s) /\ s.paid + s.exit = 0

Fits(s, c, l) == IF s.play[c] = "PLAYING" THEN 0 < l /\ l <= s.turnMax[c] ELSE l = 0

\* OnUserAddScore with a bet that fits, or for one who left.
LEMMA BetLemma ==
  ASSUME NEW s \in Sinks, Betting(s), NEW c \in Chairs, NEW l \in Nat, Fits(s, c, l),
         NEW t \in OnUserAddScore(s, c, l)
  PROVE  t \in Games
<1> DEFINE P == Playing(s)
           I == Idlers(s)
           bet == IF l > 0 THEN [s EXCEPT !.table[c] = l] ELSE s
           all == \A i \in I : bet.table[i] > 0
           hand(h) == [i \in Chairs |-> IF i \in P THEN h[i] ELSE bet.hand[i]]
           dealt(h) == [bet EXCEPT !.phase = "PLAYING", !.hand = hand(h)]
<1>1. IF all THEN \E h \in [P -> Cards] : t = dealt(h) ELSE t = bet
  <2>1. s.phase = "SCORE"
    BY DEF Betting
  <2> QED BY <2>1 DEF OnUserAddScore, Fits
<1>2. /\ s.table \in [Chairs -> Nat] /\ s.turnMax \in [Chairs -> Nat]
      /\ P \in SUBSET Chairs /\ I \in SUBSET Chairs
      /\ \A i : i \in P <=> i \in Chairs /\ s.play[i] = "PLAYING"
  BY PlayingFacts DEF Sinks
<1>3. /\ bet \in Sinks
      /\ bet.phase = s.phase /\ bet.play = s.play /\ bet.banker = s.banker
      /\ bet.turnMax = s.turnMax /\ bet.hand = s.hand /\ bet.ox = s.ox /\ bet.exit = s.exit
      /\ bet.score = s.score /\ bet.paid = s.paid /\ bet.late = s.late
      /\ bet.table = IF l > 0 THEN [s.table EXCEPT ![c] = l] ELSE s.table
  <2>1. CASE l > 0
    <3> DEFINE x == [s.table EXCEPT ![c] = l]
    <3>1. bet = [s EXCEPT !.table = x] /\ x \in [Chairs -> Nat]
      BY <1>2, <2>1 DEF Sinks
    <3> HIDE DEF x, bet
    <3>2. bet \in Sinks
      BY <3>1 DEF Sinks
    <3> QED BY <2>1, <3>1, <3>2 DEF Sinks, x
  <2>2. CASE ~(l > 0)
    BY <2>2
  <2> QED BY <2>1, <2>2
<1>4. \A i \in Chairs : s.table[i] <= s.turnMax[i] => bet.table[i] <= s.turnMax[i]
  <2> SUFFICES ASSUME NEW i \in Chairs, s.table[i] <= s.turnMax[i] PROVE bet.table[i] <= s.turnMax[i]
    OBVIOUS
  <2> HIDE DEF bet
  <2>1. CASE l > 0 /\ i = c
    <3>1. l <= s.turnMax[c]
      BY <2>1 DEF Fits
    <3> QED BY <1>2, <1>3, <2>1, <3>1
  <2>2. CASE ~(l > 0 /\ i = c)
    BY <1>2, <1>3, <2>2
  <2> QED BY <2>1, <2>2
<1>5. \A i \in I : bet.table[i] <= s.turnMax[i] /\ bet.table[i] \in Nat
  <2> SUFFICES ASSUME NEW i \in I PROVE bet.table[i] <= s.turnMax[i] /\ bet.table[i] \in Nat
    OBVIOUS
  <2>1. s.table[i] <= s.turnMax[i]
    BY DEF Betting, Limits, Within
  <2>2. bet.table \in [Chairs -> Nat]
    BY <1>3 DEF Sinks
  <2> HIDE DEF bet
  <2> QED BY <1>2, <1>4, <2>1, <2>2
<1> HIDE DEF bet
<1>6. Limits(s) /\ s.banker \in P
  BY DEF Betting
<1>7. CASE ~all
  <2>1. t = bet
    BY <1>1, <1>7
  <2>2. Playing(t) = P /\ Idlers(t) = I
    BY <1>3, <2>1 DEF Playing, Idlers
  <2>3. Limits(t)
    BY <1>3, <1>5, <1>6, <2>1, <2>2, LimitsKept
  <2>4. AllClosed(t) /\ t.paid + t.exit = 0 /\ t.phase = "SCORE" /\ t.banker \in Playing(t)
    <3>1. AllClosed(t)
      BY <1>3, <2>1 DEF Betting, AllClosed
    <3>2. t.paid + t.exit = 0 /\ t.phase = "SCORE"
      BY <1>3, <2>1 DEF Betting
    <3>3. t.banker \in Playing(t)
      BY <1>3, <1>6, <2>1, <2>2
    <3> QED BY <3>1, <3>2, <3>3
  <2>5. \E i \in Idlers(t) : t.table[i] = 0
    BY <1>5, <1>7, <2>1, <2>2
  <2>6. ScoreInv(t)
    BY <2>3, <2>4, <2>5 DEF ScoreInv
  <2> QED BY <1>3, <2>1, <2>4, <2>6 DEF Games
<1>8. CASE all
  <2>1. PICK h \in [P -> Cards] : t = dealt(h)
    BY <1>1, <1>8
  <2> DEFINE x == hand(h)
  <2>2. x \in [Chairs -> Hands]
    <3>1. Cards \subseteq Hands
      <4>1. Types \subseteq Nat
        BY OxAssumption
      <4> QED BY <4>1 DEF Cards, Hands
    <3>2. bet.hand \in [Chairs -> Hands]
      BY <1>3 DEF Sinks
    <3>3. \A i \in P : h[i] \in Hands
      BY <3>1
    <3> QED BY <3>2, <3>3
  <2>3. t = [bet EXCEPT !.phase = "PLAYING", !.hand = x]
    BY <2>1
  <2> HIDE DEF x
  <2>4. t \in Sinks
    BY <1>3, <2>2, <2>3 DEF Sinks
  <2>5. /\ t.phase = "PLAYING" /\ t.play = s.play /\ t.banker = s.banker /\ t.turnMax = s.turnMax
        /\ t.table = bet.table /\ t.ox = s.ox /\ t.exit = s.exit /\ t.score = s.score
        /\ t.paid = s.paid /\ t.late = s.late
    BY <1>3, <2>3 DEF Sinks
  <2>6. Playing(t) = P /\ Idlers(t) = I
    BY <2>5 DEF Playing, Idlers
  <2>7. Limits(t)
    BY <1>5, <1>6, <2>5, <2>6, LimitsKept
  <2>8. t.banker \in Playing(t) /\ t.paid + t.exit = 0
    BY <1>6, <2>5, <2>6 DEF Betting
  <2>9. t.ox[t.banker] = Closed
    BY <1>2, <1>6, <2>5 DEF Betting, AllClosed
  <2>10. PlayInv(t)
    BY <2>7, <2>8, <2>9 DEF PlayInv
  <2> QED BY <2>4, <2>5, <2>10 DEF Games
<1> QED BY <1>7, <1>8

\* The cards are dealt, and maybe all open.
Opening(s) ==
  /\ s.phase = "PLAYING" /\ s.banker \in Playing(s) /\ Limits(s)
  /\ ~s.late => s.paid + s.exit = 0

\* OnUserOpenCard by one whose cards are closed.
LEMMA OpenLemma ==
  ASSUME NEW s \in Sinks, Opening(s), NEW c \in Chairs, NEW claim \in BOOLEAN,
         s.ox[c] = Closed, ~(claim /\ s.hand[c].type = 0),
         NEW t \in OnUserOpenCard(s, c, claim)
  PROVE  /\ t \in Games /\ t.late = s.late
         /\ t.phase = "FREE" \/ (t.phase = "PLAYING" /\ t.play = s.play)
<1> DEFINE P == Playing(s)
           v == IF claim \/ (s.play[c] = "PLAYING" /\ s.hand[c].type >= 102) THEN 1 ELSE 0
           open == [s EXCEPT !.ox[c] = v]
           all == \A i \in P : open.ox[i] # Closed
<1>1. t = IF all THEN GameEnd(open) ELSE open
  BY DEF OnUserOpenCard, Opening
<1>2. v \in {0, 1}
  OBVIOUS
<1> HIDE DEF v
<1> DEFINE x == [s.ox EXCEPT ![c] = v]
<1>3. open = [s EXCEPT !.ox = x] /\ x \in [Chairs -> {0, 1, Closed}]
  BY <1>2 DEF Sinks
<1> HIDE DEF x, open
<1>4. /\ open \in Sinks
      /\ open.phase = s.phase /\ open.play = s.play /\ open.banker = s.banker /\ open.late = s.late
      /\ open.turnMax = s.turnMax /\ open.table = s.table /\ open.exit = s.exit
      /\ open.score = s.score /\ open.paid = s.paid
  BY <1>3 DEF Sinks
<1>5. Playing(open) = P /\ Idlers(open) = Idlers(s)
  BY <1>4 DEF Playing, Idlers
<1>6. Limits(open)
  <2>1. Limits(s) /\ \A i \in Idlers(s) : s.table[i] <= s.turnMax[i]
    BY DEF Opening, Limits, Within
  <2> QED BY <1>4, <1>5, <2>1, LimitsKept
<1>7. open.banker \in Playing(open) /\ (~open.late => open.paid + open.exit = 0) /\ open.phase = "PLAYING"
  BY <1>4, <1>5 DEF Opening
<1>8. CASE all
  BY <1>1, <1>4, <1>6, <1>7, <1>8, EndLemma
<1>9. CASE ~all
  <2>1. \E i \in Playing(open) : open.ox[i] = Closed
    BY <1>5, <1>9
  <2>2. PlayInv(open)
    BY <1>6, <1>7, <2>1 DEF PlayInv
  <2>3. open \in Games
    BY <1>4, <1>7, <2>2 DEF Games
  <2> QED BY <1>1, <1>4, <1>7, <1>9, <2>3
<1> QED BY <1>8, <1>9

-----------------------------------------------------------------------------
(* Players who leave.                                                      *)

\* The banker leaves and pays all who bet.
LEMMA BankerLemma ==
  ASSUME NEW s \in Sinks, NEW c \in Chairs, s.play[c] = "NULL", ~s.late => s.paid + s.exit = 0,
         SumFunctionOnSet(s.table, Playing(s)) \in Int,
         5 * SumFunctionOnSet(s.table, Playing(s)) <= s.score[c],
         NEW r \in BankerLeaves(s, c)
  PROVE  r \in Games
<1> DEFINE P == Playing(s)
           times(i) == IF s.phase = "PLAYING" THEN GetTimes(s.hand[i].type) ELSE 1
           gain == [i \in Chairs |->
                      s.table[i] * IF s.phase = "PLAYING" THEN GetTimes(s.hand[i].type) ELSE 1]
           won == SumFunctionOnSet(gain, P)
           net == s.exit - won
           short == s.score[c] + net < 0
           result == [i \in Chairs |->
                        IF i = c THEN IF short THEN -s.score[c] ELSE net
                        ELSE IF short THEN gain[i] - Quotient(gain[i] * (won - s.score[c]), won)
                        ELSE gain[i]]
           W == P \union {c}
           t == WriteTableScore(s, W, result)
<1>1. r = RepositionSink(t)
  BY DEF BankerLeaves
<1>2. P \in SUBSET Chairs /\ c \notin P /\ W \in SUBSET Chairs
  BY PlayingFacts
<1>3. /\ s.table \in [Chairs -> Nat] /\ s.table \in [Chairs -> Int] /\ s.exit \in Nat
      /\ s.score[c] \in Nat /\ s.hand \in [Chairs -> Hands] /\ s.paid \in Int
  <2>1. /\ s.table \in [Chairs -> Nat] /\ s.exit \in Nat /\ s.hand \in [Chairs -> Hands]
        /\ s.score \in [Chairs -> Nat] /\ s.paid \in Int
    BY DEF Sinks
  <2>2. s.table \in [Chairs -> Int]
    BY <2>1
  <2> QED BY <2>1, <2>2
<1>4. \A i \in Chairs : times(i) \in Nat /\ times(i) <= 5
  <2> SUFFICES ASSUME NEW i \in Chairs PROVE times(i) \in Nat /\ times(i) <= 5
    OBVIOUS
  <2>1. s.hand[i].type \in Nat
    BY <1>3 DEF Hands
  <2> QED BY <2>1, TimesLemma
<1>5. \A i \in Chairs : gain[i] \in Int /\ gain[i] <= 5 * s.table[i]
  <2> SUFFICES ASSUME NEW i \in Chairs PROVE gain[i] \in Int /\ gain[i] <= 5 * s.table[i]
    OBVIOUS
  <2>1. s.table[i] \in Nat /\ times(i) \in Nat /\ times(i) <= 5
    BY <1>3, <1>4
  <2>2. gain[i] = s.table[i] * times(i)
    OBVIOUS
  <2> HIDE DEF gain, times
  <2>3. s.table[i] * times(i) \in Nat /\ s.table[i] * times(i) <= 5 * s.table[i]
    BY <2>1, BetTimes
  <2> QED BY <2>2, <2>3
<1>6. gain \in [Chairs -> Int] /\ \A i \in P : gain[i] <= 5 * s.table[i]
  <2>1. gain = [i \in Chairs |-> gain[i]]
    OBVIOUS
  <2> HIDE DEF gain
  <2> QED BY <1>2, <1>5, <2>1
<1> HIDE DEF gain, times
<1>7. won \in Int /\ won <= 5 * SumFunctionOnSet(s.table, P)
  <2> HIDE DEF P
  <2>1. won \in Int
    BY <1>2, <1>6, ChairFacts, SumType
  <2>2. won <= 5 * SumFunctionOnSet(s.table, P)
    BY <1>2, <1>3, <1>6, ChairFacts, SumTimes
  <2> QED BY <2>1, <2>2
<1>8. ~short /\ net \in Int /\ net = s.exit - won
  <2> HIDE DEF won
  <2> QED BY <1>3, <1>7
<1>9. result \in [Chairs -> Int] /\ result[c] = net /\ \A i \in P : result[i] = gain[i]
  <2>1. result = [i \in Chairs |-> IF i = c THEN net ELSE gain[i]]
    BY <1>8
  <2> HIDE DEF result, net, short
  <2>2. result \in [Chairs -> Int]
    BY <1>6, <1>8, <2>1
  <2>3. result[c] = net
    BY <2>1
  <2>4. ASSUME NEW i \in P PROVE result[i] = gain[i]
    BY <1>2, <2>1
  <2> QED BY <2>2, <2>3, <2>4
<1> HIDE DEF result, net, short
<1>10. SumFunctionOnSet(result, P) = won
  <2> HIDE DEF P
  <2>1. /\ P \in SUBSET Chairs /\ IsFiniteSet(Chairs) /\ result \in [Chairs -> Int]
        /\ gain \in [Chairs -> Int] /\ \A i \in P : result[i] = gain[i]
    BY <1>2, <1>6, <1>9, ChairFacts
  <2> QED BY <2>1, SumSame
<1>11. SumFunctionOnSet(result, W) = s.exit
  <2> HIDE DEF P
  <2>0. P \in SUBSET Chairs /\ c \notin P /\ result \in [Chairs -> Int] /\ IsFiniteSet(Chairs)
    BY <1>2, <1>9, ChairFacts
  <2>1. SumFunctionOnSet(result, P \union {c}) = result[c] + SumFunctionOnSet(result, P)
    BY <2>0, SumWith
  <2>2. net + won = s.exit
    <3> HIDE DEF won
    <3> QED BY <1>3, <1>7, <1>8
  <2> QED BY <1>9, <1>10, <2>1, <2>2
<1>12. {i \in W : s.play[i] # "DYNAMIC"} = W
  BY DEF Playing
<1>13. /\ t \in Sinks /\ SameGame(s, t)
       /\ t.paid = s.paid + SumFunctionOnSet(result, {i \in W : s.play[i] # "DYNAMIC"})
  <2> HIDE DEF W
  <2> QED BY <1>2, <1>9, WriteLemma
<1>14. t.paid = s.paid + s.exit
  <2> HIDE DEF W
  <2> QED BY <1>11, <1>12, <1>13
<1>15. ~t.late => t.paid = 0
  <2>1. t.late = s.late
    BY <1>13 DEF SameGame
  <2> QED BY <1>3, <1>14, <2>1
<1> HIDE DEF t
<1> QED BY <1>1, <1>13, <1>15, RepositionLemma

\* What is written after a player left late does not matter here.
LEMMA LateWrite ==
  ASSUME NEW s \in Games, s.late, s.phase \in {"FREE", "PLAYING"}, NEW t \in Sinks, SameGame(s, t)
  PROVE  t \in Games
<1>1. Playing(t) = Playing(s) /\ Idlers(t) = Idlers(s)
  BY DEF SameGame, Playing, Idlers
<1>2. CASE s.phase = "FREE"
  <2>1. FreeInv(s)
    BY <1>2 DEF Games
  <2>2. FreeInv(t)
    BY <2>1 DEF FreeInv, AllClosed, SameGame
  <2> QED BY <1>2, <2>2 DEF Games, SameGame
<1>3. CASE s.phase = "PLAYING"
  <2>1. PlayInv(s)
    BY <1>3 DEF Games
  <2>2. Limits(t)
    <3>1. Limits(s) /\ \A i \in Idlers(s) : s.table[i] <= s.turnMax[i]
      BY <2>1 DEF PlayInv, Limits, Within
    <3>2. \A i \in Idlers(t) : t.turnMax[i] = s.turnMax[i] /\ t.table[i] <= t.turnMax[i]
      BY <1>1, <3>1 DEF SameGame
    <3>3. t.banker = s.banker /\ t.score = s.score
      BY DEF SameGame
    <3> QED BY <1>1, <3>1, <3>2, <3>3, LimitsKept
  <2>3. PlayInv(t)
    BY <1>1, <2>1, <2>2 DEF PlayInv, SameGame
  <2> QED BY <1>3, <2>3 DEF Games, SameGame
<1> QED BY <1>2, <1>3

\* The state after player c, not the banker, has left, before the sink has
\* dealt with it.
IdlerGone(s, c) ==
  /\ s.play[c] = "NULL" /\ c # s.banker /\ s.banker \in Playing(s) /\ Limits(s)
  /\ s.phase \in {"SCORE", "PLAYING"}
  /\ s.phase = "SCORE" => /\ AllClosed(s) /\ s.paid + s.exit = 0
                          /\ s.table[c] = 0 \/ \E i \in Idlers(s) : s.table[i] = 0
  /\ s.phase = "PLAYING" => /\ s.late
                            /\ s.ox[c] = Closed \/ \E i \in Playing(s) : s.ox[i] = Closed

\* Writing amount x to chair c, which nobody just joined, pays x.
LEMMA WriteOne ==
  ASSUME NEW s \in Sinks, NEW c \in Chairs, s.play[c] # "DYNAMIC", NEW result \in [Chairs -> Int]
  PROVE  /\ WriteTableScore(s, {c}, result) \in Sinks /\ SameGame(s, WriteTableScore(s, {c}, result))
         /\ WriteTableScore(s, {c}, result).paid = s.paid + result[c]
<1> DEFINE S == {c}
<1>1. {d \in S : s.play[d] # "DYNAMIC"} = {c} /\ S \in SUBSET Chairs
  OBVIOUS
<1>2. SumFunctionOnSet(result, {c}) = result[c]
  BY ChairFacts, SumOne
<1>3. /\ WriteTableScore(s, S, result) \in Sinks /\ SameGame(s, WriteTableScore(s, S, result))
      /\ WriteTableScore(s, S, result).paid =
           s.paid + SumFunctionOnSet(result, {d \in S : s.play[d] # "DYNAMIC"})
  <2> HIDE DEF S
  <2> QED BY <1>1, WriteLemma
<1> QED BY <1>1, <1>2, <1>3

\* Another player leaves: in SCORE the bet moves to m_lExitScore, and if only the
\* banker is left the game ends.
LEMMA IdlerLemma ==
  ASSUME NEW s \in Sinks, NEW c \in Chairs, IdlerGone(s, c), NEW offline \in BOOLEAN,
         NEW r \in IdlerLeaves(s, c, offline)
  PROVE  r \in Games
<1> DEFINE times == IF s.phase = "SCORE" THEN 1 ELSE GetTimes(s.hand[s.banker].type)
           loss == s.table[c] * times
           left == [s EXCEPT !.exit = @ + times * loss, !.table[c] = times * loss]
           result == [i \in Chairs |-> IF i = c THEN -loss ELSE left.exit]
           write(t) == IF loss > 0 THEN WriteTableScore(t, {c}, result) ELSE t
           b == s.banker
<1>1. r \in IF Cardinality(Playing(s)) = 1
              THEN {RepositionSink(WriteTableScore(write(left), {b}, result))}
            ELSE IF s.phase = "SCORE"
              THEN IF left.table[c] = 0 THEN OnUserAddScore(left, c, 0) ELSE {write(left)}
            ELSE IF s.ox[c] = Closed
              THEN {IF t.phase = "FREE" /\ offline THEN t ELSE write(t) : t \in OnUserOpenCard(left, c, FALSE)}
            ELSE {left}
  BY DEF IdlerLeaves
<1>2. /\ b \in Chairs /\ b # c /\ s.play[b] = "PLAYING" /\ s.play[c] = "NULL"
      /\ s.table \in [Chairs -> Nat] /\ s.table[c] \in Nat /\ s.exit \in Nat /\ s.paid \in Int
      /\ s.hand[b].type \in Nat
  <2>1. b \in Chairs /\ b # c /\ s.play[b] = "PLAYING" /\ s.play[c] = "NULL"
    BY PlayingFacts DEF IdlerGone
  <2>2. s.table \in [Chairs -> Nat] /\ s.table[c] \in Nat /\ s.exit \in Nat /\ s.paid \in Int
    BY DEF Sinks
  <2>3. s.hand[b] \in Hands
    BY <2>1 DEF Sinks
  <2> QED BY <2>1, <2>2, <2>3 DEF Hands
<1>3. times \in Nat /\ (s.phase = "SCORE" => times = 1)
  BY <1>2, TimesLemma
<1> HIDE DEF times
<1>4. loss \in Nat /\ (s.phase = "SCORE" => loss = s.table[c])
  <2>1. loss \in Nat
    BY <1>2, <1>3
  <2>2. s.phase = "SCORE" => loss = s.table[c]
    BY <1>2, <1>3
  <2> QED BY <2>1, <2>2
<1> HIDE DEF loss
<1> DEFINE y == times * loss
<1>5. y \in Nat /\ (s.phase = "SCORE" => y = loss)
  BY <1>3, <1>4
<1> DEFINE e == s.exit + y
           w == [s.table EXCEPT ![c] = y]
<1>6. left = [s EXCEPT !.exit = e, !.table = w] /\ e \in Nat /\ w \in [Chairs -> Nat]
  <2>1. left = [s EXCEPT !.exit = e, !.table = w]
    BY DEF Sinks
  <2> HIDE DEF y
  <2> QED BY <1>2, <1>5, <2>1
<1>7. w[c] = y /\ \A i \in Chairs : i # c => w[i] = s.table[i]
  BY <1>2
<1>8. e = s.exit + y
  OBVIOUS
<1> HIDE DEF y, e, w, left
<1>9. left \in Sinks
  BY <1>6 DEF Sinks
<1>10. /\ left.phase = s.phase /\ left.play = s.play /\ left.banker = s.banker /\ left.late = s.late
       /\ left.turnMax = s.turnMax /\ left.table = w /\ left.exit = e /\ left.ox = s.ox
       /\ left.score = s.score /\ left.paid = s.paid
  BY <1>6 DEF Sinks
<1>11. Playing(left) = Playing(s) /\ Idlers(left) = Idlers(s) /\ c \notin Playing(s) /\ c \notin Idlers(s)
  BY <1>2, <1>10 DEF Playing, Idlers
<1>12. Limits(left)
  <2>1. Limits(s) /\ \A i \in Idlers(s) : s.table[i] <= s.turnMax[i]
    BY DEF IdlerGone, Limits, Within
  <2>2. \A i \in Idlers(left) : left.turnMax[i] = s.turnMax[i] /\ left.table[i] <= left.turnMax[i]
    BY <1>7, <1>10, <1>11, <2>1, PlayingFacts
  <2> QED BY <1>10, <1>11, <2>1, <2>2, LimitsKept
<1>13. left.banker \in Playing(left)
  BY <1>10, <1>11 DEF IdlerGone
<1>14. result \in [Chairs -> Int] /\ result[c] = -loss /\ result[b] = e
  BY <1>2, <1>4, <1>6, <1>10
<1> HIDE DEF result
<1>15. ASSUME NEW t \in Sinks, t.play[c] = "NULL"
       PROVE  write(t) \in Sinks /\ SameGame(t, write(t)) /\ write(t).paid = t.paid - loss
  <2>1. CASE loss > 0
    <3>1. t.play[c] # "DYNAMIC" /\ t.paid \in Int
      BY <1>15 DEF Sinks
    <3>2. /\ WriteTableScore(t, {c}, result) \in Sinks /\ SameGame(t, WriteTableScore(t, {c}, result))
          /\ WriteTableScore(t, {c}, result).paid = t.paid + result[c]
      BY <1>14, <3>1, WriteOne
    <3>3. t.paid + result[c] = t.paid - loss
      BY <1>4, <1>14, <3>1
    <3> QED BY <2>1, <3>2, <3>3
  <2>2. CASE ~(loss > 0)
    <3>1. loss = 0 /\ t.paid \in Int
      BY <1>4, <2>2 DEF Sinks
    <3>2. t.paid - loss = t.paid
      BY <3>1
    <3>3. SameGame(t, t)
      BY DEF SameGame
    <3> QED BY <2>2, <3>2, <3>3
  <2> QED BY <2>1, <2>2
<1>16. /\ write(left) \in Sinks /\ SameGame(left, write(left)) /\ write(left).paid = s.paid - loss
  BY <1>2, <1>9, <1>10, <1>15
<1> DEFINE v == write(left)
<1>17. /\ v \in Sinks /\ SameGame(left, v) /\ v.paid = s.paid - loss
  BY <1>16
<1>18. CASE Cardinality(Playing(s)) = 1
  <2> DEFINE t == WriteTableScore(v, {b}, result)
  <2>1. r = RepositionSink(t)
    BY <1>1, <1>18
  <2> HIDE DEF v
  <2>2. v.play[b] # "DYNAMIC"
    BY <1>2, <1>10, <1>17 DEF SameGame
  <2>3. t \in Sinks /\ SameGame(v, t) /\ t.paid = v.paid + result[b]
    BY <1>2, <1>14, <1>17, <2>2, WriteOne
  <2>4. t.late = s.late
    BY <1>10, <1>17, <2>3 DEF SameGame
  <2>5. ~s.late => t.paid = 0
    <3> SUFFICES ASSUME ~s.late PROVE t.paid = 0
      OBVIOUS
    <3>1. s.phase = "SCORE"
      BY DEF IdlerGone
    <3>2. s.paid + s.exit = 0
      BY <3>1 DEF IdlerGone
    <3>3. t.paid = (s.paid - loss) + e /\ e = s.exit + loss
      BY <1>5, <1>8, <1>14, <1>17, <2>3, <3>1
    <3> QED BY <1>2, <1>4, <3>2, <3>3
  <2> HIDE DEF t
  <2> QED BY <2>1, <2>3, <2>4, <2>5, RepositionLemma
<1>19. CASE Cardinality(Playing(s)) # 1 /\ s.phase = "SCORE" /\ left.table[c] = 0
  <2>1. r \in OnUserAddScore(left, c, 0)
    BY <1>1, <1>19
  <2>2. loss = 0 /\ e = s.exit
    BY <1>2, <1>5, <1>7, <1>8, <1>10, <1>19
  <2>3. AllClosed(left) /\ left.paid + left.exit = 0
    <3>1. AllClosed(left)
      BY <1>10, <1>19 DEF IdlerGone, AllClosed
    <3>2. left.paid + left.exit = 0
      BY <1>10, <1>19, <2>2 DEF IdlerGone
    <3> QED BY <3>1, <3>2
  <2>4. Betting(left)
    BY <1>10, <1>12, <1>13, <1>19, <2>3 DEF Betting
  <2>5. Fits(left, c, 0)
    BY <1>2, <1>10 DEF Fits
  <2>6. 0 \in Nat
    OBVIOUS
  <2> QED BY <1>9, <2>1, <2>4, <2>5, <2>6, BetLemma
<1>20. CASE Cardinality(Playing(s)) # 1 /\ s.phase = "SCORE" /\ left.table[c] # 0
  <2>1. r = v
    BY <1>1, <1>20
  <2> HIDE DEF v
  <2>2. Playing(v) = Playing(s) /\ Idlers(v) = Idlers(s)
    BY <1>10, <1>17 DEF SameGame, Playing, Idlers
  <2>3. s.table[c] # 0 /\ e = s.exit + loss
    BY <1>4, <1>5, <1>7, <1>8, <1>10, <1>20
  <2>4. /\ v.phase = "SCORE" /\ v.banker = s.banker /\ v.turnMax = s.turnMax /\ v.table = w
        /\ v.exit = e /\ v.ox = s.ox /\ v.score = s.score
    BY <1>10, <1>17, <1>20 DEF SameGame
  <2>5. PICK i \in Idlers(s) : s.table[i] = 0
    BY <1>20, <2>3 DEF IdlerGone
  <2>6. \E j \in Idlers(v) : v.table[j] = 0
    <3>1. i \in Chairs /\ i # c
      BY <1>11, PlayingFacts
    <3>2. v.table[i] = 0
      BY <1>7, <2>4, <2>5, <3>1
    <3> QED BY <2>2, <3>2
  <2>7. Limits(v)
    <3>1. \A j \in Idlers(left) : left.table[j] <= left.turnMax[j]
      BY <1>12 DEF Limits, Within
    <3>2. \A j \in Idlers(v) : v.turnMax[j] = left.turnMax[j] /\ v.table[j] <= v.turnMax[j]
      BY <1>10, <1>11, <2>2, <2>4, <3>1
    <3>3. Idlers(v) \subseteq Idlers(left) /\ v.banker = left.banker /\ v.score = left.score
      BY <1>10, <1>11, <2>2, <2>4
    <3> QED BY <1>12, <3>2, <3>3, LimitsKept
  <2>8. v.paid + v.exit = 0
    <3>1. s.paid + s.exit = 0
      BY <1>20 DEF IdlerGone
    <3> QED BY <1>2, <1>4, <1>17, <2>3, <2>4, <3>1
  <2>9. AllClosed(v) /\ v.banker \in Playing(v)
    BY <1>20, <2>2, <2>4 DEF IdlerGone, AllClosed
  <2>10. ScoreInv(v)
    BY <2>6, <2>7, <2>8, <2>9 DEF ScoreInv
  <2> QED BY <1>17, <2>1, <2>4, <2>10 DEF Games
<1>21. s.phase # "SCORE" => s.phase = "PLAYING" /\ s.late
  BY DEF IdlerGone
<1>22. s.phase # "SCORE" => Opening(left)
  BY <1>10, <1>12, <1>13, <1>21 DEF Opening
<1>23. CASE Cardinality(Playing(s)) # 1 /\ s.phase # "SCORE" /\ s.ox[c] = Closed
  <2>1. PICK t \in OnUserOpenCard(left, c, FALSE) : r = IF t.phase = "FREE" /\ offline THEN t ELSE write(t)
    BY <1>1, <1>23
  <2>2. /\ t \in Games /\ t.late
        /\ t.phase = "FREE" \/ (t.phase = "PLAYING" /\ t.play = left.play)
    <3>1. PICK no \in BOOLEAN : no = FALSE
      OBVIOUS
    <3>2. t \in OnUserOpenCard(left, c, no) /\ left.ox[c] = Closed /\ ~(no /\ left.hand[c].type = 0)
      BY <1>10, <1>23, <3>1
    <3>3. /\ t \in Games /\ t.late = left.late
          /\ t.phase = "FREE" \/ (t.phase = "PLAYING" /\ t.play = left.play)
      BY <1>9, <1>22, <1>23, <3>2, OpenLemma
    <3> QED BY <1>10, <1>21, <1>23, <3>3
  <2>3. t.phase \in {"FREE", "PLAYING"} /\ t.play[c] = "NULL"
    <3>2. t.phase = "FREE" => t.play[c] = "NULL"
      BY <2>2 DEF Games, FreeInv
    <3> QED BY <1>2, <1>10, <2>2, <3>2
  <2>4. t \in Sinks
    BY <2>2 DEF Games
  <2>5. write(t) \in Sinks /\ SameGame(t, write(t))
    BY <1>15, <2>3, <2>4
  <2>6. write(t) \in Games
    <3> DEFINE z == write(t)
    <3>1. z \in Sinks /\ SameGame(t, z)
      BY <2>5
    <3> HIDE DEF z
    <3>2. z \in Games
      BY <2>2, <2>3, <3>1, LateWrite
    <3> QED BY <3>2 DEF z
  <2> QED BY <2>1, <2>2, <2>6
<1>24. CASE Cardinality(Playing(s)) # 1 /\ s.phase # "SCORE" /\ s.ox[c] # Closed
  <2>1. r = left
    BY <1>1, <1>24
  <2>2. \E i \in Playing(left) : left.ox[i] = Closed
    BY <1>10, <1>11, <1>21, <1>24 DEF IdlerGone
  <2>3. PlayInv(left)
    BY <1>22, <1>24, <2>2 DEF Opening, PlayInv
  <2> QED BY <1>9, <1>10, <1>21, <1>24, <2>1, <2>3 DEF Games
<1> QED BY <1>18, <1>19, <1>20, <1>23, <1>24

\* A player leaves, whoever it is and whenever.
LEMMA LeaveLemma ==
  ASSUME NEW s \in Games, NEW c \in Playing(s), NEW offline \in BOOLEAN,
         NEW r \in UserLeaves(s, c, offline)
  PROVE  r \in Games
<1> DEFINE x == [s.play EXCEPT ![c] = "NULL"]
           y == [s.turnMax EXCEPT ![c] = 0]
           z == s.late \/ s.phase = "PLAYING"
           gone == [s EXCEPT !.play[c] = "NULL", !.turnMax[c] = 0, !.late = @ \/ s.phase = "PLAYING"]
           P == Playing(s)
           Q == Playing(gone)
<1>0. s \in Sinks /\ c \in Chairs /\ s.play[c] = "PLAYING" /\ P \in SUBSET Chairs
  BY PlayingFacts DEF Games
<1>1. r \in IF s.phase # "CALL"
              THEN IF c = s.banker THEN BankerLeaves(gone, c) ELSE IdlerLeaves(gone, c, offline)
            ELSE IF Cardinality(Q) = 1 THEN {RepositionSink(gone)}
            ELSE {IF s.current = c THEN OnUserCallBanker(gone, c, FALSE) ELSE gone}
  BY DEF UserLeaves
<1>2. gone = [s EXCEPT !.play = x, !.turnMax = y, !.late = z]
  BY <1>0 DEF Sinks
<1>3. /\ x \in [Chairs -> {"NULL", "PLAYING", "DYNAMIC"}] /\ y \in [Chairs -> Nat]
      /\ z \in BOOLEAN /\ (z <=> s.late \/ s.phase = "PLAYING")
      /\ x[c] = "NULL" /\ \A i \in Chairs : i # c => x[i] = s.play[i] /\ y[i] = s.turnMax[i]
  BY <1>0 DEF Sinks
<1> HIDE DEF gone, x, y, z
<1>4. gone \in Sinks
  BY <1>0, <1>2, <1>3 DEF Sinks
<1>5. /\ gone.phase = s.phase /\ gone.play = x /\ gone.current = s.current /\ gone.banker = s.banker
      /\ gone.called = s.called /\ gone.turnMax = y /\ gone.table = s.table /\ gone.ox = s.ox
      /\ gone.exit = s.exit /\ gone.score = s.score /\ gone.paid = s.paid /\ gone.late = z
  BY <1>0, <1>2 DEF Sinks
<1>6. Q = P \ {c} /\ Idlers(gone) = Idlers(s) \ {c}
  BY <1>3, <1>5 DEF Playing, Idlers
<1>7. s.phase \in {"CALL", "SCORE", "PLAYING"}
  <2>1. s.phase \in {"FREE", "CALL", "SCORE", "PLAYING"}
    BY <1>0 DEF Sinks
  <2>2. s.phase # "FREE"
    <3>1. SUFFICES ASSUME s.phase = "FREE" PROVE FALSE
      OBVIOUS
    <3>2. s.play[c] = "NULL"
      BY <1>0, <3>1 DEF Games, FreeInv
    <3> QED BY <1>0, <3>2
  <2> QED BY <2>1, <2>2
<1>8. CASE s.phase = "CALL"
  <2>1. CallInv(s)
    BY <1>8 DEF Games
  <2>2. CASE Cardinality(Q) = 1
    <3>1. r = RepositionSink(gone)
      BY <1>1, <1>8, <2>2
    <3>2. gone.paid = 0
      BY <1>5, <2>1 DEF CallInv
    <3> QED BY <1>4, <3>1, <3>2, RepositionLemma
  <2>3. CASE Cardinality(Q) # 1
    <3>1. Cardinality(Q) >= 2
      <4>1. Cardinality(P) >= 2
        BY <2>1 DEF CallInv
      <4>2. Cardinality(P \ {c}) = Cardinality(P) - 1 /\ Cardinality(P) - 1 \in Nat \ {0}
        BY <4>1, WithoutOne
      <4>3. Cardinality(Q) \in Nat /\ Cardinality(Q) # 0
        <5> HIDE DEF P, Q
        <5> QED BY <1>6, <4>2
      <4> HIDE DEF Q
      <4> QED BY <2>3, <4>3
    <3>2. PICK m \in 1..Players : TurnsTo(s, m)
      BY <2>1 DEF CallInv, Turns
    <3>3. TurnsTo(gone, m)
      BY <1>5, <1>6, <3>2 DEF TurnsTo
    <3>4. Turns(gone)
      BY <3>3 DEF Turns
    <3>5. s.current \in P /\ s.table = Zero /\ AllClosed(gone) /\ s.exit = 0 /\ s.paid = 0
      BY <1>5, <2>1 DEF CallInv, AllClosed
    <3>6. CASE s.current = c
      <4>1. PICK no \in BOOLEAN : no = FALSE
        OBVIOUS
      <4>2. Calling(gone)
        BY <1>0, <1>5, <1>8, <3>1, <3>4, <3>5 DEF Calling
      <4>3. OnUserCallBanker(gone, gone.current, no) \in Games
        BY <1>4, <4>2, CallLemma
      <4>4. r = OnUserCallBanker(gone, gone.current, no)
        BY <1>1, <1>5, <1>8, <2>3, <3>6, <4>1
      <4> QED BY <4>3, <4>4
    <3>7. CASE s.current # c
      <4>1. r = gone
        BY <1>1, <1>8, <2>3, <3>7
      <4>2. gone.current \in Playing(gone)
        BY <1>5, <1>6, <3>5, <3>7
      <4>3. CallInv(gone)
        BY <1>5, <3>1, <3>4, <3>5, <4>2 DEF CallInv
      <4> QED BY <1>4, <1>5, <1>8, <4>1, <4>3 DEF Games
    <3> QED BY <3>6, <3>7
  <2> QED BY <2>2, <2>3
<1>9. CASE s.phase \in {"SCORE", "PLAYING"}
  <2>1. s.banker \in P /\ Limits(s)
    BY <1>9 DEF Games, ScoreInv, PlayInv
  <2>2. /\ s.phase = "SCORE" => AllClosed(s) /\ s.paid + s.exit = 0
        /\ s.phase = "PLAYING" => (~s.late => s.paid + s.exit = 0)
    BY DEF Games, ScoreInv, PlayInv
  <2>3. CASE c = s.banker
    <3>1. r \in BankerLeaves(gone, c)
      BY <1>1, <1>9, <2>3
    <3>2. Q = Idlers(s)
      BY <1>6, <2>3 DEF Idlers
    <3>3. /\ 5 * SumFunctionOnSet(s.table, Idlers(s)) <= s.score[s.banker]
          /\ SumFunctionOnSet(s.table, Idlers(s)) \in Int
      BY <1>0, <2>1, CoveredLemma
    <3>4. /\ 5 * SumFunctionOnSet(gone.table, Q) <= gone.score[c]
          /\ SumFunctionOnSet(gone.table, Q) \in Int
      BY <1>5, <2>3, <3>2, <3>3
    <3>5. gone.play[c] = "NULL" /\ (~gone.late => gone.paid + gone.exit = 0)
      BY <1>3, <1>5, <1>9, <2>2
    <3> QED BY <1>0, <1>4, <3>1, <3>4, <3>5, BankerLemma
  <2>4. CASE c # s.banker
    <3>1. r \in IdlerLeaves(gone, c, offline)
      BY <1>1, <1>9, <2>4
    <3>2. Limits(gone)
      <4>1. \A i \in Idlers(s) : s.table[i] <= s.turnMax[i] /\ i \in Chairs
        BY <2>1, PlayingFacts DEF Limits, Within
      <4>2. \A i \in Idlers(gone) : gone.turnMax[i] = s.turnMax[i] /\ gone.table[i] <= gone.turnMax[i]
        BY <1>3, <1>5, <1>6, <4>1
      <4>3. Idlers(gone) \subseteq Idlers(s) /\ gone.banker = s.banker /\ gone.score = s.score
        BY <1>5, <1>6
      <4> QED BY <2>1, <4>2, <4>3, LimitsKept
    <3>3. gone.play[c] = "NULL" /\ c # gone.banker /\ gone.banker \in Q /\ gone.phase \in {"SCORE", "PLAYING"}
      BY <1>3, <1>5, <1>6, <1>9, <2>1, <2>4
    <3>4. gone.phase = "SCORE" => /\ AllClosed(gone) /\ gone.paid + gone.exit = 0
                                  /\ gone.table[c] = 0 \/ \E i \in Idlers(gone) : gone.table[i] = 0
      <4> SUFFICES ASSUME s.phase = "SCORE"
                   PROVE  /\ AllClosed(gone) /\ gone.paid + gone.exit = 0
                          /\ gone.table[c] = 0 \/ \E i \in Idlers(gone) : gone.table[i] = 0
        BY <1>5
      <4>1. PICK i \in Idlers(s) : s.table[i] = 0
        BY DEF Games, ScoreInv
      <4>2. gone.table[c] = 0 \/ \E j \in Idlers(gone) : gone.table[j] = 0
        BY <1>5, <1>6, <4>1
      <4>3. AllClosed(gone)
        BY <1>5, <2>2 DEF AllClosed
      <4>4. gone.paid + gone.exit = 0
        BY <1>5, <2>2
      <4> QED BY <4>2, <4>3, <4>4
    <3>5. gone.phase = "PLAYING" => /\ gone.late
                                    /\ gone.ox[c] = Closed \/ \E i \in Q : gone.ox[i] = Closed
      <4> SUFFICES ASSUME s.phase = "PLAYING"
                   PROVE  gone.late /\ (gone.ox[c] = Closed \/ \E i \in Q : gone.ox[i] = Closed)
        BY <1>5
      <4>1. PICK i \in P : s.ox[i] = Closed
        BY DEF Games, PlayInv
      <4>2. gone.ox[c] = Closed \/ \E j \in Q : gone.ox[j] = Closed
        BY <1>5, <1>6, <4>1
      <4>3. gone.late
        BY <1>3, <1>5
      <4> QED BY <4>2, <4>3
    <3>6. IdlerGone(gone, c)
      BY <3>2, <3>3, <3>4, <3>5 DEF IdlerGone
    <3> QED BY <1>0, <1>4, <3>1, <3>6, IdlerLemma
  <2> QED BY <2>3, <2>4
<1> QED BY <1>7, <1>8, <1>9

-----------------------------------------------------------------------------
(* Every operation takes a game to a game.                                 *)

\* OnUserCallBanker: out of turn it changes nothing.
LEMMA AnyCall ==
  ASSUME NEW s \in Games, NEW c, NEW yes \in BOOLEAN
  PROVE  OnUserCallBanker(s, c, yes) \in Games
<1>1. CASE s.phase # "CALL" \/ s.current # c
  BY <1>1 DEF OnUserCallBanker
<1>2. CASE s.phase = "CALL" /\ s.current = c
  <2>1. s \in Sinks /\ CallInv(s)
    BY <1>2 DEF Games
  <2>2. s.current \in Chairs
    BY <2>1, PlayingFacts DEF CallInv
  <2>3. Calling(s)
    BY <1>2, <2>1, <2>2 DEF CallInv, Calling
  <2> QED BY <1>2, <2>1, <2>3, CallLemma
<1> QED BY <1>1, <1>2

\* OnUserAddScore: a bet that does not fit changes nothing.
LEMMA AnyBet ==
  ASSUME NEW s \in Games, NEW c \in Chairs, NEW l \in Nat, NEW t \in OnUserAddScore(s, c, l)
  PROVE  t \in Games
<1>1. CASE s.phase # "SCORE" \/ ~Fits(s, c, l)
  <2>1. t = s
    BY <1>1 DEF OnUserAddScore, Fits
  <2> QED BY <2>1
<1>2. CASE s.phase = "SCORE" /\ Fits(s, c, l)
  <2>1. s \in Sinks /\ ScoreInv(s)
    BY <1>2 DEF Games
  <2>2. Betting(s)
    BY <1>2, <2>1 DEF ScoreInv, Betting
  <2> QED BY <1>2, <2>1, <2>2, BetLemma
<1> QED BY <1>1, <1>2

\* OnUserOpenCard: who has opened does not open again.
LEMMA AnyOpen ==
  ASSUME NEW s \in Games, NEW c \in Chairs, NEW claim \in BOOLEAN, NEW t \in OnUserOpenCard(s, c, claim)
  PROVE  t \in Games
<1>1. CASE s.phase # "PLAYING" \/ s.ox[c] # Closed \/ (claim /\ s.hand[c].type = 0)
  <2>1. t = s
    BY <1>1 DEF OnUserOpenCard
  <2> QED BY <2>1
<1>2. CASE s.phase = "PLAYING" /\ s.ox[c] = Closed /\ ~(claim /\ s.hand[c].type = 0)
  <2>1. s \in Sinks /\ PlayInv(s)
    BY <1>2 DEF Games
  <2>2. Opening(s)
    BY <1>2, <2>1 DEF PlayInv, Opening
  <2> QED BY <1>2, <2>1, <2>2, OpenLemma
<1> QED BY <1>1, <1>2

\* Users come for the next game and go.
LEMMA JoinLemma ==
  ASSUME NEW s \in Games, s.phase # "FREE", NEW c \in Chairs, s.play[c] # "PLAYING",
         NEW v \in {"NULL", "DYNAMIC"}
  PROVE  [s EXCEPT !.play[c] = v] \in Games
<1> DEFINE x == [s.play EXCEPT ![c] = v]
           t == [s EXCEPT !.play[c] = v]
<1>0. s \in Sinks
  BY DEF Games
<1>1. t = [s EXCEPT !.play = x] /\ x \in [Chairs -> {"NULL", "PLAYING", "DYNAMIC"}]
      /\ x[c] = v /\ \A i \in Chairs : i # c => x[i] = s.play[i]
  BY <1>0 DEF Sinks
<1> HIDE DEF t, x
<1>2. t \in Sinks
  BY <1>0, <1>1 DEF Sinks
<1>3. /\ t.phase = s.phase /\ t.play = x /\ t.current = s.current /\ t.banker = s.banker
      /\ t.called = s.called /\ t.turnMax = s.turnMax /\ t.table = s.table /\ t.ox = s.ox
      /\ t.exit = s.exit /\ t.score = s.score /\ t.paid = s.paid /\ t.late = s.late
  BY <1>0, <1>1 DEF Sinks
<1>4. Playing(t) = Playing(s) /\ Idlers(t) = Idlers(s)
  BY <1>1, <1>3 DEF Playing, Idlers
<1>5. Limits(s) => Limits(t)
  <2> SUFFICES ASSUME Limits(s) PROVE Limits(t)
    OBVIOUS
  <2>1. \A i \in Idlers(s) : s.table[i] <= s.turnMax[i]
    BY DEF Limits, Within
  <2> QED BY <1>3, <1>4, <2>1, LimitsKept
<1>6. Turns(s) => Turns(t)
  BY <1>3, <1>4 DEF Turns, TurnsTo
<1>7. AllClosed(s) => AllClosed(t)
  BY <1>3 DEF AllClosed
<1>8. CallInv(s) => CallInv(t)
  BY <1>3, <1>4, <1>6, <1>7 DEF CallInv
<1>9. ScoreInv(s) => ScoreInv(t)
  BY <1>3, <1>4, <1>5, <1>7 DEF ScoreInv
<1>10. PlayInv(s) => PlayInv(t)
  BY <1>3, <1>4, <1>5 DEF PlayInv
<1>11. t \in Games
  BY <1>2, <1>3, <1>8, <1>9, <1>10 DEF Games
<1> QED BY <1>11 DEF t

\* The timer's answer for one chair.
LEMMA AnswerLemma ==
  ASSUME NEW s \in Games, NEW c \in Chairs, NEW phase, NEW t \in Answer(phase, s, c)
  PROVE  t \in Games
<1>1. CASE t = s
  BY <1>1
<1>2. CASE t \in OnUserAddScore(s, c, s.turnMax[c] \div 8)
  <2> DEFINE l == s.turnMax[c] \div 8
  <2>1. l \in Nat
    <3>1. s.turnMax[c] \in Nat
      BY DEF Games, Sinks
    <3> QED BY <3>1
  <2> HIDE DEF l
  <2>2. t \in OnUserAddScore(s, c, l)
    BY <1>2 DEF l
  <2> QED BY <2>1, <2>2, AnyBet
<1>3. CASE t \in OnUserOpenCard(s, c, FALSE)
  <2>1. PICK no \in BOOLEAN : no = FALSE
    OBVIOUS
  <2>2. t \in OnUserOpenCard(s, c, no)
    BY <1>3, <2>1
  <2> QED BY <2>2, AnyOpen
<1>4. t = s \/ t \in OnUserAddScore(s, c, s.turnMax[c] \div 8) \/ t \in OnUserOpenCard(s, c, FALSE)
  BY DEF Answer
<1> QED BY <1>1, <1>2, <1>3, <1>4

\* The games after n chairs, when g has those after fewer; z is the game in
\* which the timer fired.
AnswerStep(z, g, n) ==
  IF n = 0 THEN {z} ELSE UNION {Answer(z.phase, s, n - 1) : s \in g[n - 1]}

Answers(z) == CHOOSE g : g = [n \in 0..Players |-> AnswerStep(z, g, n)]

\* The recursion of the timer's loop has a solution up to any number of chairs.
LEMMA AnswersExist ==
  ASSUME NEW z, NEW m \in Nat
  PROVE  \E g : g = [n \in 0..m |-> AnswerStep(z, g, n)]
<1> DEFINE T == {n \in Nat : ~ \E g : g = [k \in 0..n |-> AnswerStep(z, g, k)]}
<1>1. SUFFICES ASSUME T # {} PROVE FALSE
  OBVIOUS
<1>2. PICK x \in T : \A y \in T : x <= y
  BY <1>1, LeastNumber
<1>3. x # 0
  <2> DEFINE g == [k \in 0..0 |-> {z}]
  <2>1. g = [k \in 0..0 |-> AnswerStep(z, g, k)]
    BY DEF AnswerStep
  <2> QED BY <2>1
<1>4. x - 1 \in Nat /\ x - 1 \notin T
  BY <1>2, <1>3
<1>5. PICK g : g = [k \in 0..(x - 1) |-> AnswerStep(z, g, k)]
  BY <1>4
<1> DEFINE h == [k \in 0..x |-> IF k = x THEN AnswerStep(z, g, x) ELSE g[k]]
<1>6. ASSUME NEW k \in 0..x PROVE h[k] = AnswerStep(z, h, k)
  <2>1. k # 0 => h[k - 1] = g[k - 1]
    BY <1>3
  <2>2. AnswerStep(z, h, k) = AnswerStep(z, g, k)
    BY <2>1 DEF AnswerStep
  <2>3. k # x => g[k] = AnswerStep(z, g, k)
    BY <1>3, <1>5
  <2> QED BY <2>2, <2>3
<1>7. h = [k \in 0..x |-> AnswerStep(z, h, k)]
  BY <1>6
<1> QED BY <1>7

\* The timer answers chair by chair, each time in a game.
LEMMA AnswerLoop ==
  ASSUME NEW z \in Games, NEW t \in Answers(z)[Players]
  PROVE  t \in Games
<1> DEFINE g == Answers(z)
           T == {n \in 0..Players : ~(g[n] \subseteq Games)}
<1>0. Players \in Nat
  BY ChairFacts
<1>1. g = [n \in 0..Players |-> AnswerStep(z, g, n)]
  BY <1>0, AnswersExist DEF Answers
<1> HIDE DEF g
<1>2. SUFFICES ASSUME T # {} PROVE FALSE
  <2>1. t \in g[Players] /\ Players \in 0..Players
    BY <1>0 DEF g
  <2> QED BY <2>1
<1>3. T \subseteq Nat /\ \A n : n \in T <=> n \in 0..Players /\ ~(g[n] \subseteq Games)
  BY <1>0
<1> HIDE DEF T
<1>4. PICK x \in T : \A y \in T : x <= y
  BY <1>2, <1>3, LeastNumber
<1>5. x \in 0..Players /\ x \in Nat /\ ~(g[x] \subseteq Games)
  BY <1>3
<1>6. g[x] = AnswerStep(z, g, x)
  BY <1>1, <1>5
<1>7. CASE x = 0
  BY <1>5, <1>6, <1>7 DEF AnswerStep
<1>8. CASE x # 0
  <2>1. x - 1 \in Nat /\ x - 1 \in 0..Players /\ x - 1 \in Chairs
    BY <1>0, <1>5, <1>8, ChairFacts
  <2>2. g[x - 1] \subseteq Games
    <3>1. x - 1 \notin T
      BY <1>4, <1>5, <2>1
    <3> QED BY <1>3, <2>1, <3>1
  <2>3. g[x] = UNION {Answer(z.phase, s, x - 1) : s \in g[x - 1]}
    BY <1>6, <1>8 DEF AnswerStep
  <2>4. ASSUME NEW s \in g[x - 1], NEW u \in Answer(z.phase, s, x - 1) PROVE u \in Games
    BY <2>1, <2>2, AnswerLemma
  <2>5. g[x] \subseteq Games
    BY <2>3, <2>4
  <2> QED BY <1>5, <2>5
<1> QED BY <1>7, <1>8

\* The first state.
LEMMA InitLemma ==
  ASSUME OxInit
  PROVE  sink \in Games
<1>1. /\ [c \in Chairs |-> "NULL"] \in [Chairs -> {"NULL", "PLAYING", "DYNAMIC"}]
      /\ Zero \in [Chairs -> Nat] /\ NoCards \in [Chairs -> Hands]
      /\ [c \in Chairs |-> Closed] \in [Chairs -> {0, 1, Closed}]
  BY DEF Zero, NoCards, Hands
<1>2. sink \in Sinks
  BY <1>1 DEF OxInit, Sinks
<1>3. FreeInv(sink) /\ sink.phase = "FREE"
  BY DEF OxInit, FreeInv, AllClosed
<1> QED BY <1>2, <1>3 DEF Games

\* The types of a game that starts.
LEMMA StartType ==
  ASSUME NEW s \in Sinks, NEW p \in [Chairs -> {"NULL", "PLAYING", "DYNAMIC"}], NEW f \in Chairs,
         NEW v \in [Chairs -> Nat], NEW no \in BOOLEAN, NEW n \in Int
  PROVE  [s EXCEPT !.play = p, !.phase = "CALL", !.first = f, !.current = f, !.score = v,
                   !.paid = n, !.charged = n, !.late = no] \in Sinks
  BY DEF Sinks

\* A new game: nobody was asked, and the first to be asked plays.
LEMMA StartLemma ==
  ASSUME sink \in Games, OnEventGameStart
  PROVE  sink' \in Games
<1> DEFINE plays(S) == [c \in Chairs |-> IF c \in S THEN "PLAYING" ELSE "NULL"]
           scores(S, sc) == [c \in Chairs |-> IF c \in S THEN sc[c] ELSE 0]
           dealt(S) == [sink EXCEPT !.play = plays(S)]
<1>0. PICK S \in SUBSET Chairs, from \in Chairs :
        /\ Cardinality(S) >= 2
        /\ \E sc \in [S -> Scores] :
             sink' = [dealt(S) EXCEPT !.phase = "CALL", !.first = NextPlaying(dealt(S), from),
                        !.current = NextPlaying(dealt(S), from), !.score = scores(S, sc),
                        !.paid = 0, !.charged = 0, !.late = FALSE]
  BY DEF OnEventGameStart
<1>1. PICK sc \in [S -> Scores] :
        sink' = [dealt(S) EXCEPT !.phase = "CALL", !.first = NextPlaying(dealt(S), from),
                   !.current = NextPlaying(dealt(S), from), !.score = scores(S, sc),
                   !.paid = 0, !.charged = 0, !.late = FALSE]
  BY <1>0
<1> DEFINE p == plays(S)
           d == dealt(S)
           f == NextPlaying(d, from)
           v == scores(S, sc)
<1>2. p \in [Chairs -> {"NULL", "PLAYING", "DYNAMIC"}] /\ v \in [Chairs -> Nat]
  <2>1. Scores \subseteq Nat
    BY OxAssumption
  <2>2. \A c \in S : sc[c] \in Nat
    BY <2>1
  <2> QED BY <2>2
<1>3. sink \in Sinks /\ FreeInv(sink)
  BY DEF Games, OnEventGameStart
<1>4. Playing(d) = S
  <2>1. d.play = p
    BY <1>3 DEF Sinks
  <2> HIDE DEF d
  <2> QED BY <2>1 DEF Playing
<1>5. S # {}
  BY <1>0, FS_EmptySet
<1>6. f \in S /\ f \in Chairs
  <2> HIDE DEF d
  <2> QED BY <1>4, <1>5, NextLemma
<1>7. sink' = [sink EXCEPT !.play = p, !.phase = "CALL", !.first = f, !.current = f, !.score = v,
                           !.paid = 0, !.charged = 0, !.late = FALSE]
  BY <1>1, <1>3 DEF Sinks
<1> HIDE DEF p, d, f, v
<1>8. sink' \in Sinks
  <2>1. PICK no \in BOOLEAN : no = FALSE
    OBVIOUS
  <2>2. PICK n \in Int : n = 0
    OBVIOUS
  <2>3. [sink EXCEPT !.play = p, !.phase = "CALL", !.first = f, !.current = f, !.score = v,
                     !.paid = n, !.charged = n, !.late = no] \in Sinks
    BY <1>2, <1>3, <1>6, StartType
  <2> QED BY <1>7, <2>1, <2>2, <2>3
<1>9. /\ sink'.phase = "CALL" /\ sink'.play = p /\ sink'.current = f /\ sink'.called = sink.called
      /\ sink'.table = sink.table /\ sink'.ox = sink.ox /\ sink'.exit = sink.exit /\ sink'.paid = 0
  BY <1>3, <1>7 DEF Sinks
<1>10. Playing(sink') = S
  BY <1>9 DEF Playing, p
<1>11. TurnsTo(sink', Players)
  <2>1. sink'.called = {}
    BY <1>3, <1>9 DEF FreeInv
  <2>2. \A c \in Chairs : c < Players
    BY ChairFacts
  <2> QED BY <2>1, <2>2 DEF TurnsTo
<1>12. Turns(sink')
  <2>1. Players \in 1..Players
    BY ChairFacts
  <2> QED BY <1>11, <2>1 DEF Turns
<1>13. AllClosed(sink') /\ sink'.table = Zero /\ sink'.exit = 0
  BY <1>3, <1>9 DEF FreeInv, AllClosed
<1>14. CallInv(sink')
  BY <1>0, <1>6, <1>9, <1>10, <1>12, <1>13 DEF CallInv
<1> QED BY <1>8, <1>9, <1>14 DEF Games

\* Every step takes a game to a game.
LEMMA StepLemma ==
  ASSUME sink \in Games, [OxNext]_OxVars
  PROVE  sink' \in Games
<1>1. CASE OnEventGameStart
  BY <1>1, StartLemma
<1>2. CASE OnGameMessage
  <2>1. PICK c \in Chairs : \/ \E b \in BOOLEAN : CallBanker(c, b) \/ OpenCard(c, b)
                            \/ \E l \in {1, sink.turnMax[c]} : BetScore(c, l)
    BY <1>2 DEF OnGameMessage
  <2>2. ASSUME NEW b \in BOOLEAN, CallBanker(c, b) PROVE sink' \in Games
    BY <2>2, AnyCall DEF CallBanker
  <2>3. ASSUME NEW b \in BOOLEAN, OpenCard(c, b) PROVE sink' \in Games
    BY <2>3, AnyOpen DEF OpenCard
  <2>4. ASSUME NEW l \in {1, sink.turnMax[c]}, BetScore(c, l) PROVE sink' \in Games
    <3>1. sink.turnMax[c] \in Nat
      BY DEF Games, Sinks
    <3>2. l \in Nat
      BY <3>1
    <3> QED BY <2>4, <3>2, AnyBet DEF BetScore
  <2> QED BY <2>1, <2>2, <2>3, <2>4
<1>3. CASE OnTimerMessage
  <2>1. CASE sink.phase = "CALL"
    <3>1. PICK no \in BOOLEAN : no = FALSE
      OBVIOUS
    <3>2. sink' = OnUserCallBanker(sink, sink.current, no)
      BY <1>3, <2>1, <3>1 DEF OnTimerMessage
    <3> QED BY <3>2, AnyCall
  <2>2. CASE sink.phase # "CALL"
    <3>1. sink' \in Answers(sink)[Players]
      BY <1>3, <2>2 DEF OnTimerMessage, Answers, AnswerStep
    <3> QED BY <3>1, AnswerLoop
  <2> QED BY <2>1, <2>2
<1>4. ASSUME NEW c \in Chairs, OnActionUserSitDown(c) PROVE sink' \in Games
  <2>1. sink.phase # "FREE" /\ sink.play[c] # "PLAYING" /\ sink' = [sink EXCEPT !.play[c] = "DYNAMIC"]
    BY <1>4 DEF OnActionUserSitDown
  <2> QED BY <2>1, JoinLemma
<1>5. ASSUME NEW c \in Chairs, OnActionUserStandUp(c) PROVE sink' \in Games
  <2>1. sink.play[c] # "PLAYING" /\ sink.play[c] # "NULL" /\ sink' = [sink EXCEPT !.play[c] = "NULL"]
    BY <1>5 DEF OnActionUserStandUp
  <2>2. sink.phase # "FREE"
    BY <2>1 DEF Games, FreeInv
  <2> QED BY <2>1, <2>2, JoinLemma
<1>6. ASSUME NEW c \in Chairs, NEW offline \in BOOLEAN, Leave(c, offline) PROVE sink' \in Games
  BY <1>6, LeaveLemma DEF Leave
<1>7. CASE TimeRunsOut \/ UNCHANGED OxVars
  BY <1>7 DEF TimeRunsOut, OxVars
<1> QED BY <1>1, <1>2, <1>3, <1>4, <1>5, <1>6, <1>7 DEF OxNext

\* The invariant: the object is always in one of the states of a game.
THEOREM GamesTheorem == OxSpec => [](sink \in Games)
<1>1. OxInit => sink \in Games
  BY InitLemma
<1>2. sink \in Games /\ [OxNext]_OxVars => (sink \in Games)'
  BY StepLemma
<1> QED BY <1>1, <1>2, PTL DEF OxSpec

\* A game always waits for a player who is still there: in OnUserCallBanker the
\* next caller was not asked before, also after callers have left, and when the
\* one who had not yet bet or opened leaves, OnEventGameConclude takes the game on.
THEOREM WaitsTheorem == OxSpec => []WaitsForPlayer
<1>1. sink \in Games => WaitsForPlayer
  <2> SUFFICES ASSUME sink \in Games PROVE WaitsForPlayer
    OBVIOUS
  <2>1. CASE sink.phase = "CALL"
    <3>1. CallInv(sink)
      BY <2>1 DEF Games
    <3>2. sink.current \in Chairs /\ sink.current \in Playing(sink)
      BY <3>1, PlayingFacts DEF CallInv
    <3>3. PICK m \in 1..Players : TurnsTo(sink, m)
      BY <3>1 DEF CallInv, Turns
    <3>4. 0 \in Chairs /\ (sink.current + 0) % Players = sink.current /\ 0 < m
      <4>1. 0 \in Chairs /\ 0 < m
        BY ChairFacts
      <4>2. (sink.current + 0) % Players =
              IF sink.current + 0 < Players THEN sink.current + 0 ELSE sink.current + 0 - Players
        BY <3>2, <4>1, Around
      <4> QED BY <3>2, <4>1, <4>2, ChairFacts
    <3>5. sink.current \notin sink.called
      BY <3>2, <3>3, <3>4 DEF TurnsTo
    <3> QED BY <2>1, <3>2, <3>5 DEF WaitsForPlayer
  <2>2. CASE sink.phase = "SCORE"
    BY <2>2 DEF WaitsForPlayer, Games, ScoreInv
  <2>3. CASE sink.phase = "PLAYING"
    BY <2>3 DEF WaitsForPlayer, Games, PlayInv
  <2>4. CASE sink.phase \notin {"CALL", "SCORE", "PLAYING"}
    BY <2>4 DEF WaitsForPlayer
  <2> QED BY <2>1, <2>2, <2>3, <2>4
<1> QED BY <1>1, GamesTheorem, PTL

\* The limits that OnUserCallBanker computes with two divisions keep the bets
\* covered five times over until the end of the game, for every number of players
\* and all scores: OnEventGameConclude never meets a banker who cannot pay.
THEOREM CoveredTheorem == OxSpec => []BetsCovered
<1>1. sink \in Games => BetsCovered
  <2> SUFFICES ASSUME sink \in Games, sink.phase \in {"SCORE", "PLAYING"}
               PROVE  /\ 5 * SumFunctionOnSet(sink.table, Idlers(sink)) <= sink.score[sink.banker]
                      /\ \A c \in Idlers(sink) : 5 * sink.table[c] <= sink.score[c]
    BY DEF BetsCovered
  <2>1. sink \in Sinks /\ sink.banker \in Playing(sink) /\ Limits(sink)
    BY DEF Games, ScoreInv, PlayInv
  <2>2. sink.banker \in Chairs
    BY <2>1, PlayingFacts
  <2> QED BY <2>1, <2>2, CoveredLemma
<1> QED BY <1>1, GamesTheorem, PTL

\* What OnEventGameConclude writes to the players of a game, when they leave before
\* the deal, when the banker leaves and at the end, adds up to nothing.
THEOREM ConservedTheorem == OxSpec => []Conserved
<1>1. sink \in Games => Conserved
  BY DEF Conserved, Games, FreeInv
<1> QED BY <1>1, GamesTheorem, PTL
=============================================================================
