------------------------------ MODULE Sessions ------------------------------
(***************************************************************************)
(* The sessions of a game server: which connection acts for which user.    *)
(*                                                                         *)
(* CAttemperEngineSink keeps a tagBindParameter per connection slot, and   *)
(* CServerUserManager one CServerUserItem per user in the room.  The two   *)
(* point at each other.  They are changed by                               *)
(*   - the network thread: OnEventTCPNetworkBind, OnEventTCPNetworkShut,   *)
(*     OnTCPNetworkSubLogonUserID and the requests of logged on users;     *)
(*   - the database thread, on which the answers to logon requests arrive  *)
(*     (OnDBLogonSuccess, OnDBLogonFailure);                               *)
(*   - the timer thread, on which games end.                               *)
(* No lock protects them: while the database thread works on an answer,    *)
(* between its tests and its writes, the other threads may run.  The       *)
(* history variable raced says whether one of them has changed the slot    *)
(* or the item of the answer meanwhile.                                    *)
(*                                                                         *)
(* The environment: the events of a slot come in the order that module     *)
(* NetworkEvents promises, the requests of a user are executed one at a    *)
(* time in the order in which they were posted (DBCorrespondManager), and  *)
(* the room may ask to close a connection but cannot break it (see the     *)
(* note on ShutDownSocket in the README), so that only Shut events do.     *)
(***************************************************************************)
EXTENDS Integers, Sequences, FiniteSets, SequencesExt

CONSTANTS
  Users,           \* user IDs
  Slots,           \* bind indexes of normal connections
  MaxConnections,  \* bound: connections that are announced, on all slots
  MaxRequests,     \* bound: logon requests that wait, of all users
  RoomLimit        \* wMaxPlayer - RESERVE_USER_COUNT

NoSlot == 65535                         \* INVALID_WORD

ASSUME SessionsAssumption ==
  /\ Users \subseteq Nat \ {0} /\ IsFiniteSet(Users)
  /\ Slots \subseteq Nat /\ NoSlot \notin Slots
  /\ MaxConnections \in Nat \ {0} /\ MaxRequests \in Nat \ {0}
  /\ RoomLimit \in Nat

None == 0                               \* a NULL pointer, a zeroed socket ID
Items == 1 .. Cardinality(Users)        \* CServerUserItem objects
NoUser == 0                             \* dwUserID of an item in the store

VARIABLES
  live,      \* slot -> its connection was announced and not yet shut
  round,     \* slot -> number of its present or last connection
  bind,      \* slot -> [sock, user]: tagBindParameter
  items,     \* item -> [user, bind, status]: CServerUserItem
  store,     \* m_UserItemStore, the last one is taken first
  kicked,    \* m_KickUserItemMap
  queue,     \* user -> database requests that wait, in order
  answer,    \* the logon answer the database thread works on
  records,   \* user -> entries into the room the database has not closed
  asked,     \* slot -> users its present connection asked to log on as
  raced      \* history: another thread has met an answer under way

vars == <<live, round, bind, items, store, kicked, queue, answer, records, asked, raced>>

Zeroed == [sock |-> None, user |-> None]
ResetUserItem == [user |-> NoUser, bind |-> NoSlot, status |-> "NULL"]
Idle == [at |-> "idle"]

Init ==
  /\ live = [s \in Slots |-> FALSE] /\ round = [s \in Slots |-> 0]
  /\ bind = [s \in Slots |-> Zeroed]
  /\ items = [i \in Items |-> ResetUserItem]
  /\ store = SetToSeq(Items)
  /\ kicked = {} /\ answer = Idle
  /\ queue = [u \in Users |-> <<>>]
  /\ records = [u \in Users |-> 0]
  /\ asked = [s \in Slots |-> {}] /\ raced = FALSE

-----------------------------------------------------------------------------
(* The user manager.                                                       *)

InRoom == {i \in Items : items[i].user # NoUser}     \* m_UserItemArray

\* SearchUserItem: the items of u in the room.
OfUser(u) == {i \in Items : items[i].user = u}

AtTable(i) == items[i].status \in {"SIT", "PLAYING", "OFFLINE"}

\* The requests of a user: a logon with the socket ID of its connection, or
\* the record that the user has left.
LogonRequest(s) == [kind |-> "LOGON", slot |-> s, sock |-> bind[s].sock]
LeaveRequest == [kind |-> "LEAVE"]
Asking(u) == {k \in DOMAIN queue[u] : queue[u][k].kind = "LOGON"}
Post(u, r) == queue' = [queue EXCEPT ![u] = Append(@, r)]

\* SetUserStatus(US_NULL): the slot of the item forgets it, the leave record
\* is posted and the item goes back to the store.  binds is what the caller
\* leaves of the slots.
Logout(i, binds) ==
  /\ bind' = [s \in Slots |-> IF s = items[i].bind /\ binds[s].user = i
                                THEN [binds[s] EXCEPT !.user = None] ELSE binds[s]]
  /\ Post(items[i].user, LeaveRequest)
  /\ items' = [items EXCEPT ![i] = ResetUserItem]
  /\ store' = Append(store, i)

\* The slot s, or the item i that is inserted and not bound, is the one of the
\* answer that the database thread works on.
Meets(s, i) ==
  answer # Idle /\ (answer.slot = s \/ (answer.at = "inserted" /\ answer.item = i))

\* A step of another thread that changes the slot s or the item i.
Met(s, i) == raced' = (raced \/ Meets(s, i))

-----------------------------------------------------------------------------
(* The network thread.                                                     *)

\* What the bounds count.
Connections == FoldFunction(+, 0, round)
LogonsWaiting == FoldFunction(+, 0, [u \in Users |-> Cardinality(Asking(u))])

\* OnEventTCPNetworkBind: the user of the slot is not touched.
OnEventTCPNetworkBind(s) ==
  /\ ~live[s] /\ Connections < MaxConnections
  /\ live' = [live EXCEPT ![s] = TRUE]
  /\ round' = [round EXCEPT ![s] = @ + 1]
  /\ bind' = [bind EXCEPT ![s].sock = round[s] + 1]
  /\ asked' = [asked EXCEPT ![s] = {}]
  /\ UNCHANGED <<items, store, kicked, queue, answer, records, raced>>

\* Faulty variant: a player who loses the connection keeps its bind index.
ShutKeepsBind(i, cleared) ==
  CASE items[i].user = NoUser ->
         bind' = cleared /\ UNCHANGED <<items, store, queue>>
    [] items[i].status = "PLAYING" ->
         /\ items' = [items EXCEPT ![i].status = "OFFLINE"]
         /\ bind' = cleared /\ UNCHANGED <<store, queue>>
    [] OTHER -> Logout(i, cleared)

\* OnEventTCPNetworkShut: a user at a table is detached and the table decides
\* (OnEventUserOffLine: a playing one stays, another one stands up and
\* leaves); a user at no table leaves.  Then the slot is cleared.
ShutUser(i, cleared) ==
  CASE items[i].user = NoUser ->            \* SetUserStatus refuses
         bind' = cleared /\ UNCHANGED <<items, store, queue>>
    [] items[i].status = "PLAYING" ->
         /\ items' = [items EXCEPT ![i] = [@ EXCEPT !.bind = NoSlot, !.status = "OFFLINE"]]
         /\ bind' = cleared /\ UNCHANGED <<store, queue>>
    [] OTHER -> Logout(i, cleared)

OnEventTCPNetworkShut(s) ==
  LET cleared == [bind EXCEPT ![s] = Zeroed]
  IN /\ live[s]
     /\ live' = [live EXCEPT ![s] = FALSE]
     /\ asked' = [asked EXCEPT ![s] = {}]
     /\ IF bind[s].user = None
          THEN bind' = cleared /\ UNCHANGED <<items, store, queue>>
          ELSE ShutUser(bind[s].user, cleared)
     /\ Met(s, None)
     /\ UNCHANGED <<round, kicked, answer, records>>

\* SwitchUserItemConnect: the former slot of an online user forgets it, the
\* new one takes it over; a user who was offline plays again.
SwitchUserItemConnect(i, s) ==
  /\ bind' = [t \in Slots |->
       IF t = s THEN [bind[t] EXCEPT !.user = i]
       ELSE IF t = items[i].bind /\ bind[t].user = i THEN [bind[t] EXCEPT !.user = None]
       ELSE bind[t]]
  /\ items' = [items EXCEPT ![i].bind = s,
                 ![i].status = IF @ = "OFFLINE" THEN "PLAYING" ELSE @]
  /\ UNCHANGED store

\* OnTCPNetworkSubLogonUserID: refused on a slot with a user; a user who is in
\* the room and sent the password of the session moves over at once; otherwise
\* the database is asked.  A refusal closes the connection later, by a Shut.
OnTCPNetworkSubLogonUserID(s, u, samePass) ==
  /\ live[s] /\ bind[s].user = None
  /\ LogonsWaiting < MaxRequests
  /\ asked' = [asked EXCEPT ![s] = @ \union {u}]
  /\ \/ \E i \in OfUser(u) :
          /\ samePass
          /\ SwitchUserItemConnect(i, s)
          /\ Met(s, i)
          /\ UNCHANGED queue
     \/ /\ ~samePass \/ OfUser(u) = {}
        /\ Post(u, LogonRequest(s))
        /\ UNCHANGED <<bind, items, store, raced>>
  /\ UNCHANGED <<live, round, kicked, answer, records>>

\* A request of the user of a slot that changes its place: it sits down at a
\* table or stands up (the table itself is module TableFrame).
ChangePlace(s) ==
  /\ live[s] /\ bind[s].user # None
  /\ LET i == bind[s].user
     IN /\ items[i].status \in {"FREE", "SIT"}
        /\ items' = [items EXCEPT ![i].status = IF @ = "FREE" THEN "SIT" ELSE "FREE"]
  /\ UNCHANGED <<live, round, bind, store, kicked, queue, answer, records, asked, raced>>

\* A manager kicks a user who does not play: it stands up, leaves, and is kept
\* out for a while.
KickUser(i) ==
  /\ i \in InRoom /\ items[i].status # "PLAYING"
  /\ kicked' = kicked \union {items[i].user}
  /\ Logout(i, bind)
  /\ Met(NoSlot, i)
  /\ UNCHANGED <<live, round, answer, records, asked>>

-----------------------------------------------------------------------------
(* Games: a user who sits starts to play; when the game ends, those who    *)
(* play sit again and those who went offline leave.                        *)

StartGame(i) ==
  /\ items[i].status = "SIT"
  /\ items' = [items EXCEPT ![i].status = "PLAYING"]
  /\ UNCHANGED <<live, round, bind, store, kicked, queue, answer, records, asked, raced>>

ConcludeGame(i) ==
  /\ \/ /\ items[i].status = "PLAYING"
        /\ items' = [items EXCEPT ![i].status = "SIT"]
        /\ UNCHANGED <<bind, store, queue>>
     \/ items[i].status = "OFFLINE" /\ Logout(i, bind)
  /\ UNCHANGED <<live, round, kicked, answer, records, asked, raced>>

-----------------------------------------------------------------------------
(* The database thread.                                                    *)

TakeRequest(u, kind) == queue[u] # <<>> /\ Head(queue[u]).kind = kind

\* Faulty variant: the answer is not compared with the socket ID of the slot.
AnswerIgnoresRound(u) ==
  LET r == Head(queue[u])
      rest == Tail(queue[u])
  IN /\ answer = Idle /\ TakeRequest(u, "LOGON")
     /\ records' = [records EXCEPT ![u] = @ + 1]
     /\ IF bind[r.slot].user # None
          THEN queue' = [queue EXCEPT ![u] = Append(rest, LeaveRequest)] /\ UNCHANGED answer
          ELSE /\ queue' = [queue EXCEPT ![u] = rest]
               /\ answer' = [at |-> "checked", user |-> u, slot |-> r.slot]
     /\ UNCHANGED <<live, round, bind, items, store, kicked, asked, raced>>

\* The logon succeeds: the user has entered, and OnDBLogonSuccess begins.  It
\* discards the answer when the slot has a user or another connection by now.
OnDBLogonSuccess(u) ==
  LET r == Head(queue[u])
      stale == bind[r.slot].user # None \/ bind[r.slot].sock # r.sock
      rest == Tail(queue[u])
  IN /\ answer = Idle /\ TakeRequest(u, "LOGON")
     /\ records' = [records EXCEPT ![u] = @ + 1]
     /\ IF stale
          THEN /\ queue' = [queue EXCEPT ![u] = Append(rest, LeaveRequest)]
               /\ UNCHANGED answer
          ELSE /\ queue' = [queue EXCEPT ![u] = rest]
               /\ answer' = [at |-> "checked", user |-> u, slot |-> r.slot]
     /\ UNCHANGED <<live, round, bind, items, store, kicked, asked, raced>>

\* PerformUnlockScore: the entry is given back.
Refuse(u) == Post(u, LeaveRequest) /\ answer' = Idle

\* A user who was kicked less than an hour ago is refused.
KickedOut ==
  /\ answer.at = "checked" /\ answer.user \in kicked
  /\ Refuse(answer.user)
  /\ UNCHANGED <<live, round, bind, items, store, kicked, records, asked, raced>>

\* Faulty variant: the second entry of a user who is in the room stays open.
SwitchKeepsEntry ==
  /\ answer.at = "checked"
  /\ kicked' = kicked \ {answer.user}
  /\ \E i \in OfUser(answer.user) : SwitchUserItemConnect(i, answer.slot)
  /\ answer' = Idle
  /\ UNCHANGED <<live, round, queue, records, asked, raced>>

\* The user is already in the room: the session moves to the new connection,
\* and the second entry is given back.  The time of a kick may be over.
AnswerSwitches ==
  /\ answer.at = "checked"
  /\ kicked' = kicked \ {answer.user}
  /\ \E i \in OfUser(answer.user) : SwitchUserItemConnect(i, answer.slot)
  /\ Refuse(answer.user)
  /\ UNCHANGED <<live, round, records, asked, raced>>

\* The room is full, for a user who is not a member.
RoomFull ==
  /\ answer.at = "checked" /\ OfUser(answer.user) = {}
  /\ Cardinality(InRoom) > RoomLimit
  /\ kicked' = kicked \ {answer.user}
  /\ Refuse(answer.user)
  /\ UNCHANGED <<live, round, bind, items, store, records, asked, raced>>

\* InsertUserItem, for a member or in a room with places left.
InsertUserItem ==
  /\ answer.at = "checked" /\ OfUser(answer.user) = {}
  /\ kicked' = kicked \ {answer.user}
  /\ items' = [items EXCEPT ![Last(store)] =
                 [user |-> answer.user, bind |-> answer.slot, status |-> "FREE"]]
  /\ store' = Front(store)
  /\ answer' = [at |-> "inserted", item |-> Last(store), slot |-> answer.slot]
  /\ UNCHANGED <<live, round, bind, queue, records, asked, raced>>

\* At last the slot gets the item.
BindUser ==
  /\ answer.at = "inserted"
  /\ bind' = [bind EXCEPT ![answer.slot].user = answer.item]
  /\ answer' = Idle
  /\ UNCHANGED <<live, round, items, store, kicked, queue, records, asked, raced>>

\* OnDBLogonFailure: the client is told; ShutDownSocket has no effect.
OnDBLogonFailure(u) ==
  /\ answer = Idle /\ TakeRequest(u, "LOGON")
  /\ queue' = [queue EXCEPT ![u] = Tail(@)]
  /\ UNCHANGED <<live, round, bind, items, store, kicked, answer, records, asked, raced>>

\* Faulty variant: a leave record is put off until its user is found in the room.
LeaveWaits(u) ==
  /\ answer = Idle /\ TakeRequest(u, "LEAVE") /\ OfUser(u) # {}
  /\ queue' = [queue EXCEPT ![u] = Tail(@)]
  /\ records' = [records EXCEPT ![u] = @ - 1]
  /\ UNCHANGED <<live, round, bind, items, store, kicked, answer, asked, raced>>

\* OnRequestLeaveGameServer closes an entry.
OnRequestLeaveGameServer(u) ==
  /\ answer = Idle /\ TakeRequest(u, "LEAVE")
  /\ queue' = [queue EXCEPT ![u] = Tail(@)]
  /\ records' = [records EXCEPT ![u] = @ - 1]
  /\ UNCHANGED <<live, round, bind, items, store, kicked, answer, asked, raced>>

-----------------------------------------------------------------------------
NetworkStep ==
  \/ \E s \in Slots : OnEventTCPNetworkBind(s) \/ OnEventTCPNetworkShut(s) \/ ChangePlace(s)
  \/ \E s \in Slots, u \in Users, p \in BOOLEAN : OnTCPNetworkSubLogonUserID(s, u, p)
  \/ \E i \in Items : KickUser(i)

GameStep == \E i \in Items : StartGame(i) \/ ConcludeGame(i)

AnswerStep == KickedOut \/ AnswerSwitches \/ RoomFull \/ InsertUserItem \/ BindUser

DataBaseStep ==
  \/ \E u \in Users : \/ OnDBLogonSuccess(u) \/ OnDBLogonFailure(u)
                      \/ OnRequestLeaveGameServer(u)
  \/ AnswerStep

Next == NetworkStep \/ GameStep \/ DataBaseStep

\* The database thread always goes on: a handler that has begun ends, and the
\* queue of the engine is first in, first out, so that the leave record of a user
\* is not passed over for ever while the requests of others keep the thread busy.
Fairness ==
  /\ WF_vars(AnswerStep)
  /\ \A u \in Users : SF_vars(OnRequestLeaveGameServer(u))

Spec == Init /\ [][Next]_vars /\ Fairness

-----------------------------------------------------------------------------
(* Properties.                                                             *)

\* The assertion of SwitchUserItemConnect: between two answers, when a logon
\* can move a user who is online, the slot the user names has this user.  An
\* item that keeps the index of a slot it lost would take the session of that
\* slot's next user.  It may fail only once another thread has met an answer.
SourceBound ==
  answer = Idle /\ ~raced =>
    \A i \in InRoom : items[i].bind # NoSlot => bind[items[i].bind].user = i

\* A connection acts only for a user it asked to log on as: the user of a slot
\* names this slot, the connection is the one whose socket ID the slot has,
\* and nobody else's logon, answered late, has put the user there.
Owned ==
  \A s \in Slots : bind[s].user # None =>
    /\ live[s] /\ bind[s].sock = round[s]
    /\ items[bind[s].user].bind = s
    /\ items[bind[s].user].user \in asked[s]

\* It holds for every interleaving of the threads up to the first in which a
\* shut or a logon on the slot of an answer, or a kick or a second logon of its
\* new item, falls between the tests and the writes of OnDBLogonSuccess.
OwnSession == answer = Idle /\ ~raced => Owned

\* What the tests of OnDBLogonSuccess are for, without that exception: whenever
\* no answer is under way, each connection acts for a user it logged on as.
SessionsOwned == answer = Idle => Owned

\* The places of the leave requests in a queue.
Leaves(q) == {k \in DOMAIN q : q[k].kind = "LEAVE"}

\* Every entry into the room that the database has granted and not closed
\* belongs to the user's item, to the answer under way or to exactly one leave
\* request: refused, discarded and second logons are given back once, and a
\* user who leaves is reported once.
EntriesBalanced ==
  \A u \in Users :
    records[u] = Cardinality(OfUser(u))
               + Cardinality(Leaves(queue[u]))
               + (IF answer.at = "checked" /\ answer.user = u THEN 1 ELSE 0)

\* A user whose item is gone, or whose logon was refused, does not stay entered
\* in the database: the entries are closed, or the user comes back or asks
\* again.
EntriesClosed ==
  \A u \in Users :
    OfUser(u) = {} /\ records[u] > 0 ~> records[u] = 0 \/ OfUser(u) # {} \/ Asking(u) # {}
=============================================================================
