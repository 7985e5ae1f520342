----------------------------- MODULE UserScore -----------------------------
(***************************************************************************)
(* The gold of one user, from the database to the table and back.          *)
(*                                                                         *)
(* CServerUserItem splits the gold of a user into the score on the table,  *)
(* the trustee rest and the frozen service fee, and collects the changes   *)
(* in m_VariationInfo.  The attemper sink hands the collected change to    *)
(* the database, either after every change (the rule ImmediateWriteScore)  *)
(* or when the user leaves.  The database sink adds it to the SQL record   *)
(* and to the copy in the Redis cache, from which the next logon reads.    *)
(*                                                                         *)
(* The requests of the user are executed in the order in which they were   *)
(* posted and each once, as module DBCorrespondManager shows; module       *)
(* Sessions shows when they are posted: a logon may wait while the user is *)
(* still in the room.  The SQL procedures are external: they add the       *)
(* change to the record, or fail.  A failed statement is not noticed by    *)
(* the handlers, and every command to Redis may fail by itself.            *)
(*                                                                         *)
(* Gold that goes to and from the insurance is left out.                   *)
(***************************************************************************)
EXTENDS Integers, Sequences

CONSTANTS
  Gold0,       \* gold of the user at the beginning
  Amounts,     \* amounts won or lost in a game
  Puts,        \* amounts a user asks to bring in
  DefPut,      \* lDefPutScore: brought in by default, 0 for everything
  LowPut,      \* lLowPutScore: below this the table score is filled up
  Fee,         \* lServiceScore
  Magic,       \* lMagicExpScore
  Ratio,       \* iExchangeRatio
  Rules,       \* values of the rule ImmediateWriteScore
  Faults,      \* what may fail: "sql" statements, "redis" commands
  NoCache,     \* the user has no hash in Redis
  MaxFailures, \* bound: requests that meet a fault
  MaxChanges,  \* bound: changes of the score
  MaxQueue     \* bound: requests that wait

ASSUME AmountAssumption ==
  /\ Gold0 \in Int /\ Amounts \subseteq Nat /\ Puts \subseteq Nat \ {0}
  /\ DefPut \in Nat /\ LowPut \in Nat /\ Fee \in Nat /\ Magic \in Nat
  /\ Ratio \in Nat
ASSUME RuleAssumption ==
  /\ Rules \subseteq BOOLEAN /\ Faults \subseteq {"sql", "redis"} /\ NoCache \notin Int
  /\ MaxChanges \in Nat /\ MaxQueue \in Nat /\ MaxFailures \in Nat

VARIABLES
  immediate, \* the rule ImmediateWriteScore of the room
  on,        \* the user has an item in the room
  purse,     \* [score, trustee, frozen, next, variation, modified]
  held,      \* m_lFrozenedScore of the user's chair
  playing,   \* the user takes part in a game
  queue,     \* requests of the user that wait in the database engine
  gold,      \* the SQL record
  cache,     \* field Gold of the hash in Redis
  earned,    \* history: everything the user won and lost
  posted,    \* history: everything handed to the database
  changes,   \* number of changes so far
  entry,     \* history: what the logon of the present item has read, see Entry
  unwritten, \* history: the changes the SQL record has missed
  uncached,  \* history: the changes the copy in Redis has missed
  failures   \* number of requests that have met a fault

ledger == <<entry, unwritten, uncached, failures>>
vars == <<immediate, on, purse, held, playing, queue, gold, cache, earned, posted, changes, ledger>>

Results == Amounts \union {-a : a \in Amounts}

-----------------------------------------------------------------------------
(* CServerUserItem.                                                        *)

\* What the user owns: on the table, beside it and frozen.
Holding(p) == p.score + p.trustee + p.frozen

\* The table score becomes put, or everything there is.
Split(p, put) ==
  LET total == p.score + p.trustee
      score == IF total > put THEN put ELSE total
  IN [p EXCEPT !.score = score, !.trustee = total - score]

\* Faulty variant: the rest above the amount is added to the trustee score.
AdjustAdds(p) ==
  IF p.next > 0 /\ p.score + p.trustee > p.next
    THEN [p EXCEPT !.score = p.next, !.trustee = @ + p.score + p.trustee - p.next, !.next = 0]
    ELSE p

\* The bring-in at the end of WriteUserScore and UnFrozenedUserScore: the
\* amount the user asked for, or the default when the score is low.
Adjust(p) ==
  IF p.next > 0 THEN [Split(p, p.next) EXCEPT !.next = 0]
  ELSE IF LowPut > 0 /\ DefPut > 0 /\ p.score < LowPut THEN Split(p, DefPut)
  ELSE p

\* FrozenedUserScore takes the amount from the trustee rest first.
FrozenedUserScore(p, l) ==
  IF p.score + p.trustee < l THEN p
  ELSE IF p.trustee < l
    THEN [p EXCEPT !.frozen = @ + l, !.score = @ - (l - p.trustee), !.trustee = 0]
    ELSE [p EXCEPT !.frozen = @ + l, !.trustee = @ - l]

UnFrozenedUserScore(p, l) ==
  IF p.frozen < l THEN p ELSE Adjust([p EXCEPT !.frozen = @ - l, !.score = @ + l])

\* WriteUserScore, without the event at its end.
AddScore(p, l) ==
  Adjust([p EXCEPT !.score = @ + l, !.variation = @ + l, !.modified = TRUE])

\* WriteOtherScore for an amount the trustee rest covers, as its only caller
\* makes sure; without the event at its end.
TakeOther(p, l) ==
  [p EXCEPT !.trustee = @ - l, !.variation = @ - l, !.modified = TRUE]

TakeGold(p, l, atOnce) == IF atOnce THEN Split(p, l) ELSE [p EXCEPT !.next = l]

\* Faulty variant: the variation is taken and not reset.
DistillKeeps(p) == [p EXCEPT !.modified = FALSE]

\* DistillVariation: what it returns, and what it leaves.
Distilled(p) == IF p.modified THEN p.variation ELSE 0
DistillVariation(p) == [p EXCEPT !.variation = 0, !.modified = FALSE]

\* What InsertUserItem brings to the table out of an amount.
Brought(amount) ==
  IF DefPut * Ratio > 0 THEN (IF amount >= DefPut THEN DefPut ELSE amount) ELSE 0

\* InsertUserItem on an item that ResetUserItem has cleared: what is brought to
\* the table is multiplied by the exchange ratio, which no later split undoes.
\* An amount that the last user of the item asked for and did not get survives
\* both.
InsertUserItem(amount) ==
  [score |-> IF DefPut * Ratio > 0 THEN Brought(amount) * Ratio ELSE amount,
   trustee |-> IF DefPut * Ratio > 0 THEN amount - Brought(amount) ELSE 0,
   frozen |-> 0, next |-> purse.next, variation |-> 0, modified |-> FALSE]

\* What a logon has read, what had been earned by then, the changes that were
\* posted before the logon was, and those of them that it has missed.
Entry(read, total, missing) ==
  [read |-> read, earned |-> earned, total |-> total, missing |-> missing]

Init ==
  /\ immediate \in Rules /\ on = FALSE
  /\ purse = [score |-> 0, trustee |-> 0, frozen |-> 0, next |-> 0,
              variation |-> 0, modified |-> FALSE]
  /\ held = 0 /\ playing = FALSE /\ queue = <<>>
  /\ gold = Gold0 /\ cache \in {NoCache, Gold0}
  /\ earned = 0 /\ posted = 0 /\ changes = 0
  /\ entry = [read |-> 0, earned |-> 0, total |-> 0, missing |-> 0]
  /\ unwritten = 0 /\ uncached = 0 /\ failures = 0

-----------------------------------------------------------------------------
(* Requests to the database.                                               *)

\* A request carries its change; total is history: the sum of all changes
\* posted up to this one.
Request(kind, amount) == [kind |-> kind, amount |-> amount, total |-> posted + amount]

Post(kind, amount) ==
  /\ Len(queue) < MaxQueue
  /\ queue' = Append(queue, Request(kind, amount))
  /\ posted' = posted + amount

\* OnEventUserItemScore: p is the purse after the change.
OnEventUserItemScore(p) ==
  IF immediate /\ p.modified
    THEN Post("WRITE", Distilled(p)) /\ purse' = DistillVariation(p)
    ELSE purse' = p /\ UNCHANGED <<queue, posted>>

-----------------------------------------------------------------------------
(* The room.                                                               *)

\* A logon is asked for, also while the user is in the room or another waits.
Logon ==
  /\ Post("LOGON", 0)
  /\ UNCHANGED <<immediate, on, purse, held, playing, gold, cache, earned, changes, ledger>>

\* CTableFrame::StartGame, and sitting down in a game that runs: the fee is
\* noted even if it cannot be frozen.
StartGame ==
  /\ on /\ ~playing
  /\ playing' = TRUE
  /\ held' = Fee
  /\ purse' = FrozenedUserScore(purse, Fee)
  /\ UNCHANGED <<immediate, on, queue, gold, cache, earned, posted, changes, ledger>>

\* CTableFrame::WriteUserScore: with a service charge the fee is released and
\* deducted from the result.
WriteUserScore(l, charge) ==
  LET net == IF charge THEN l - held ELSE l
      p == IF charge THEN UnFrozenedUserScore(purse, held) ELSE purse
  IN /\ on /\ playing /\ changes < MaxChanges
     /\ charge => Fee > 0
     /\ held' = IF charge THEN 0 ELSE held
     /\ OnEventUserItemScore(AddScore(p, net))
     /\ earned' = earned + net
     /\ changes' = changes + 1
     /\ UNCHANGED <<immediate, on, playing, gold, cache, ledger>>

\* Faulty variant: the game ends and the fee stays frozen.
ConcludeKeepsFee ==
  /\ on /\ playing
  /\ playing' = FALSE /\ held' = 0
  /\ UNCHANGED <<immediate, on, purse, queue, gold, cache, earned, posted, changes, ledger>>

\* ConcludeGame or PerformStandUpAction: the game is over for the user.
ConcludeGame ==
  /\ on /\ playing
  /\ playing' = FALSE /\ held' = 0
  /\ purse' = IF held # 0 THEN UnFrozenedUserScore(purse, held) ELSE purse
  /\ UNCHANGED <<immediate, on, queue, gold, cache, earned, posted, changes, ledger>>

\* A magic expression is paid from the trustee rest.
WriteOtherScore ==
  /\ on /\ Magic <= purse.trustee /\ changes < MaxChanges
  /\ OnEventUserItemScore(TakeOther(purse, Magic))
  /\ earned' = earned - Magic
  /\ changes' = changes + 1
  /\ UNCHANGED <<immediate, on, held, playing, gold, cache, ledger>>

\* SUB_GF_TAKE_GOLD: at once, or after the game.
OnTakeGold(l) ==
  /\ on
  /\ purse' = TakeGold(purse, l, ~playing)
  /\ UNCHANGED <<immediate, on, held, playing, queue, gold, cache, earned, posted, changes, ledger>>

\* OnEventUserLogout: the rest of the variation goes with the leave record.
OnEventUserLogout ==
  /\ on /\ ~playing
  /\ Post("LEAVE", Distilled(purse))
  /\ on' = FALSE
  /\ purse' = DistillVariation(purse)
  /\ UNCHANGED <<immediate, held, playing, gold, cache, earned, changes, ledger>>

-----------------------------------------------------------------------------
(* The database thread.                                                    *)

Takes(kind) == queue # <<>> /\ Head(queue).kind = kind

\* The statement of a request is done and its commands to Redis are, or one of
\* them fails.
Served(done, reached) ==
  /\ done \/ "sql" \in Faults
  /\ reached \/ "redis" \in Faults
  /\ IF done /\ reached THEN UNCHANGED failures
     ELSE failures < MaxFailures /\ failures' = failures + 1

\* Faulty variant: the copy is filled with what was read before, not with the
\* record.
LogonFillsOld(found, filled) ==
  LET hit == cache # NoCache /\ found
      read == IF hit THEN cache ELSE gold
      fill == ~hit /\ filled
  IN /\ Takes("LOGON") /\ Served(TRUE, found /\ filled)
     /\ cache' = IF fill THEN entry.read ELSE cache
     /\ uncached' = IF fill THEN unwritten ELSE uncached
     /\ IF on
          THEN /\ queue' = Append(Tail(queue), Request("LEAVE", 0))
               /\ UNCHANGED <<on, purse, entry>>
          ELSE /\ queue' = Tail(queue)
               /\ on' = TRUE
               /\ purse' = InsertUserItem(read)
               /\ entry' = Entry(read, Head(queue).total, IF hit THEN uncached ELSE unwritten)
     /\ UNCHANGED <<immediate, held, playing, gold, earned, posted, changes, unwritten>>

\* OnRequestLogonUserID reads the copy if Redis has one and answers, otherwise
\* the SQL record, which it puts into Redis after the answer.  The answer
\* inserts the item, or moves the user who is in the room to the new connection
\* and gives the second entry back.
OnRequestLogonUserID(found, filled) ==
  LET hit == cache # NoCache /\ found
      read == IF hit THEN cache ELSE gold
      fill == ~hit /\ filled
  IN /\ Takes("LOGON") /\ Served(TRUE, found /\ filled)
     /\ cache' = IF fill THEN gold ELSE cache
     /\ uncached' = IF fill THEN unwritten ELSE uncached
     /\ IF on
          THEN /\ queue' = Append(Tail(queue), Request("LEAVE", 0))
               /\ UNCHANGED <<on, purse, entry>>
          ELSE /\ queue' = Tail(queue)
               /\ on' = TRUE
               /\ purse' = InsertUserItem(read)
               /\ entry' = Entry(read, Head(queue).total, IF hit THEN uncached ELSE unwritten)
     /\ UNCHANGED <<immediate, held, playing, gold, earned, posted, changes, unwritten>>

\* The logon is refused.
LogonFails ==
  /\ Takes("LOGON")
  /\ queue' = Tail(queue)
  /\ UNCHANGED <<immediate, on, purse, held, playing, gold, cache, earned, posted, changes, ledger>>

\* UpdateCachedData adds the change to the copy, if Redis has one.
UpdateCachedData(l) == IF cache = NoCache THEN NoCache ELSE cache + l

\* Faulty variant: a leave record does not reach the cache.
LeaveSkipsCache(done, cached) ==
  LET l == Head(queue).amount
  IN /\ queue # <<>> /\ Head(queue).kind \in {"WRITE", "LEAVE"}
     /\ Served(done, cached)
     /\ gold' = IF done THEN gold + l ELSE gold
     /\ unwritten' = IF done THEN unwritten ELSE unwritten + l
     /\ cache' = IF cached /\ Takes("WRITE") THEN UpdateCachedData(l) ELSE cache
     /\ uncached' = IF cached THEN uncached ELSE uncached + l
     /\ queue' = Tail(queue)
     /\ UNCHANGED <<immediate, on, purse, held, playing, earned, posted, changes, entry>>

\* OnRequestWriteGameScore and OnRequestLeaveGameServer: the result of the
\* statement is ignored, and the copy is updated in any case.
WriteGold(done, cached) ==
  LET l == Head(queue).amount
  IN /\ queue # <<>> /\ Head(queue).kind \in {"WRITE", "LEAVE"}
     /\ Served(done, cached)
     /\ gold' = IF done THEN gold + l ELSE gold
     /\ unwritten' = IF done THEN unwritten ELSE unwritten + l
     /\ cache' = IF cached THEN UpdateCachedData(l) ELSE cache
     /\ uncached' = IF cached THEN uncached ELSE uncached + l
     /\ queue' = Tail(queue)
     /\ UNCHANGED <<immediate, on, purse, held, playing, earned, posted, changes, entry>>

\* External: Redis drops the hash of the user.
Evict ==
  /\ cache # NoCache
  /\ cache' = NoCache
  /\ UNCHANGED <<immediate, on, purse, held, playing, queue, gold, earned, posted, changes, ledger>>

Next ==
  \/ Logon \/ StartGame \/ ConcludeGame \/ WriteOtherScore \/ OnEventUserLogout
  \/ \E l \in Results, charge \in BOOLEAN : WriteUserScore(l, charge)
  \/ \E l \in Puts : OnTakeGold(l)
  \/ \E found, filled \in BOOLEAN : OnRequestLogonUserID(found, filled)
  \/ \E done, cached \in BOOLEAN : WriteGold(done, cached)
  \/ LogonFails \/ Evict

Spec == Init /\ [][Next]_vars

-----------------------------------------------------------------------------
(* Properties.                                                             *)

\* What a user holds in the room, on the table, beside it and frozen together,
\* is what the logon has read, with the exchange ratio on the part brought to
\* the table, and every result since then counted once: no bring-in, no fee, no
\* second logon and no failed request creates or loses gold in the room.
Backed ==
  on => Holding(purse) = entry.read + (Brought(entry.read) * Ratio - Brought(entry.read))
                       + (earned - entry.earned)

\* A logon is served with every change that was posted before it and with none
\* that was posted later, wherever it reads, but for the changes that a failed
\* request has kept from the store it reads.
LogonReads == on => entry.read = Gold0 + entry.total - entry.missing

\* When the user has left and the requests are through, the SQL record has
\* every result exactly once, whether it went with a write or with the leave
\* record; only those of failed statements are missing, and nothing else is.
Settled == ~on /\ queue = <<>> => gold = Gold0 + earned - unwritten

\* The copy in Redis, from which the next logon is served, and the SQL record
\* differ exactly by the changes that one of them has missed, also after the
\* copy was dropped or filled again between two failures.
CacheAgrees == cache # NoCache => cache + uncached = gold + unwritten

\* Outside a game no fee is frozen: every way out of a game gives it back, the
\* case that it could not be frozen included.
FeeReleased == ~playing => purse.frozen = 0 /\ held = 0

-----------------------------------------------------------------------------
(* What the comments of the code say, and the code does not keep.          *)

\* A user in the room holds the gold the user owns: the initial gold with every
\* result since then.
Whole == on => Holding(purse) = Gold0 + earned

\* The copy that UpdateCachedData keeps is that of the SQL record.
CopyIsRecord == cache # NoCache => cache = gold
=============================================================================
