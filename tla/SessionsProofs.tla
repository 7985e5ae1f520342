--------------------------- MODULE SessionsProofs ---------------------------
(***************************************************************************)
(* The sessions of a game server, for any number of users, connection      *)
(* slots, rounds and waiting requests.                                     *)
(*                                                                         *)
(* First part: every entry that the database has granted is accounted for, *)
(* however the threads interleave.  The argument needs that a user has at  *)
(* most one item (Alone) and that the store holds exactly the items without*)
(* a user, each once (Pool); then an item can be taken whenever a user     *)
(* without one arrives (StoreLemma, by counting).                          *)
(*                                                                         *)
(* Second part: slots and items point at each other and a connection acts  *)
(* only for a user it asked for, until another thread meets an answer. It  *)
(* needs that a logon request that still matches its slot was sent by the  *)
(* connection the slot has now (Waiting), and that what OnDBLogonSuccess   *)
(* has found stays so until it writes (Checked, Inserted), whatever the    *)
(* other threads do with other slots and items meanwhile.                  *)
(***************************************************************************)
EXTENDS Sessions, FiniteSetTheorems, TLAPS

Statuses == {"NULL", "FREE", "SIT", "PLAYING", "OFFLINE"}
Binds == [sock : Nat, user : Items \cup {None}]
UserItems == [user : Users \cup {NoUser}, bind : Slots \cup {NoSlot}, status : Statuses]
Logons == [kind : {"LOGON"}, slot : Slots, sock : Nat]
DBRequests == Logons \cup {LeaveRequest}
Checks == [at : {"checked"}, user : Users, slot : Slots]
Inserts == [at : {"inserted"}, item : Items, slot : Slots]

TypeInv ==
  /\ live \in [Slots -> BOOLEAN] /\ round \in [Slots -> Nat]
  /\ bind \in [Slots -> Binds] /\ items \in [Items -> UserItems]
  /\ store \in Seq(Items) /\ queue \in [Users -> Seq(DBRequests)]
  /\ answer \in {Idle} \cup Checks \cup Inserts
  /\ records \in [Users -> Int] /\ asked \in [Slots -> SUBSET Users]

\* The store holds the items without a user, each once.
Pool ==
  /\ \A i \in Items : items[i].user = NoUser <=> \E k \in 1 .. Len(store) : store[k] = i
  /\ \A j, k \in 1 .. Len(store) : store[j] = store[k] => j = k
  /\ \A i \in Items : items[i].user = NoUser => items[i].status = "NULL"

\* A user has one item.
Alone == \A i, j \in Items : items[i].user = items[j].user /\ items[i].user # NoUser => i = j

Room == TypeInv /\ Pool /\ Alone /\ EntriesBalanced

-----------------------------------------------------------------------------
(* Requests, items and the store.                                          *)

\* The leave requests after a post and after a request was taken.
LEMMA LeavesLemma ==
  ASSUME NEW q \in Seq(DBRequests)
  PROVE  /\ Cardinality(Leaves(q)) \in Nat
         /\ \A r \in DBRequests : Cardinality(Leaves(Append(q, r))) =
              Cardinality(Leaves(q)) + (IF r.kind = "LEAVE" THEN 1 ELSE 0)
         /\ q # <<>> => Cardinality(Leaves(Tail(q))) =
              Cardinality(Leaves(q)) - (IF Head(q).kind = "LEAVE" THEN 1 ELSE 0)
<1>0. Len(q) \in Nat /\ DOMAIN q = 1 .. Len(q) /\ IsFiniteSet(1 .. Len(q))
  BY FS_Interval
<1>1. \A p \in Seq(DBRequests) : IsFiniteSet(Leaves(p)) /\ Cardinality(Leaves(p)) \in Nat
  <2> SUFFICES ASSUME NEW p \in Seq(DBRequests) PROVE IsFiniteSet(Leaves(p)) /\ Cardinality(Leaves(p)) \in Nat
    OBVIOUS
  <2>1. Leaves(p) \in SUBSET (1 .. Len(p)) /\ Len(p) \in Nat
    BY DEF Leaves
  <2>i. IsFiniteSet(1 .. Len(p))
    BY <2>1, FS_Interval
  <2>2. IsFiniteSet(Leaves(p))
    BY <2>1, <2>i, FS_Subset
  <2> QED BY <2>2, FS_CardinalityType
<1>2. ASSUME NEW r \in DBRequests
      PROVE  Cardinality(Leaves(Append(q, r))) =
               Cardinality(Leaves(q)) + (IF r.kind = "LEAVE" THEN 1 ELSE 0)
  <2> DEFINE p == Append(q, r)
  <2>1. /\ DOMAIN p = 1 .. (Len(q) + 1) /\ p[Len(q) + 1] = r
        /\ \A k \in 1 .. Len(q) : p[k] = q[k]
    BY <1>0
  <2> HIDE DEF p
  <2>2. CASE r.kind = "LEAVE"
    <3>1. Leaves(p) = Leaves(q) \cup {Len(q) + 1} /\ Len(q) + 1 \notin Leaves(q)
      BY <2>1, <2>2, <1>0 DEF Leaves
    <3>2. Cardinality(Leaves(p)) = Cardinality(Leaves(q)) + 1
      BY <3>1, <1>1, FS_AddElement
    <3> QED BY <3>2, <2>2 DEF p
  <2>3. CASE r.kind # "LEAVE"
    <3>1. Leaves(p) = Leaves(q)
      BY <2>1, <2>3, <1>0 DEF Leaves
    <3> QED BY <3>1, <2>3, <1>1 DEF p
  <2> QED BY <2>2, <2>3
<1>3. ASSUME q # <<>>
      PROVE  Cardinality(Leaves(Tail(q))) =
               Cardinality(Leaves(q)) - (IF Head(q).kind = "LEAVE" THEN 1 ELSE 0)
  <2> DEFINE t == Tail(q)
             f == [k \in Leaves(t) |-> k + 1]
             R == Leaves(q) \ {1}
  <2>1. /\ Len(q) >= 1 /\ DOMAIN t = 1 .. (Len(q) - 1) /\ Head(q) = q[1]
        /\ t \in Seq(DBRequests) /\ \A k \in 1 .. (Len(q) - 1) : t[k] = q[k + 1]
    BY <1>0, <1>3
  <2>2. \A k : k \in Leaves(t) <=> k \in 1 .. (Len(q) - 1) /\ q[k + 1].kind = "LEAVE"
    BY <2>1 DEF Leaves
  <2>3. \A k : k \in R <=> k \in 2 .. Len(q) /\ q[k].kind = "LEAVE"
    BY <2>1, <1>0 DEF Leaves
  <2> HIDE DEF t, R
  <2>4. f \in [Leaves(t) -> R]
    BY <2>2, <2>3, <1>0
  <2>5. \A a, b \in Leaves(t) : f[a] = f[b] => a = b
    BY <2>2, <1>0
  <2>6. ASSUME NEW k \in R PROVE \E a \in Leaves(t) : f[a] = k
    <3>1. k - 1 \in Leaves(t) /\ f[k - 1] = k
      BY <2>2, <2>3, <1>0
    <3> QED BY <3>1
  <2> HIDE DEF f
  <2>7. f \in Injection(Leaves(t), R) /\ f \in Surjection(Leaves(t), R)
    BY <2>4, <2>5, <2>6 DEF Injection, Surjection, IsInjective
  <2>8. f \in Bijection(Leaves(t), R)
    BY <2>7 DEF Bijection
  <2>9. Cardinality(R) = Cardinality(Leaves(t))
    BY <2>8, <2>1, <1>1, FS_Bijection DEF ExistsBijection
  <2>10. Cardinality(R) = IF 1 \in Leaves(q) THEN Cardinality(Leaves(q)) - 1 ELSE Cardinality(Leaves(q))
    BY <1>1, FS_RemoveElement DEF R
  <2>11. 1 \in Leaves(q) <=> Head(q).kind = "LEAVE"
    BY <2>1, <1>0 DEF Leaves
  <2> QED BY <2>9, <2>10, <2>11, <1>1 DEF t
<1> QED BY <1>1, <1>2, <1>3

\* The fields of an item and of a slot.
LEMMA ItemFields ==
  ASSUME TypeInv, NEW i \in Items
  PROVE  /\ items[i] \in UserItems /\ items[i].user \in Users \cup {NoUser}
         /\ items[i].bind \in Slots \cup {NoSlot} /\ items[i].status \in Statuses
<1>1. items[i] \in UserItems
  BY DEF TypeInv
<1> QED BY <1>1 DEF UserItems

\* The fields of a connection slot.
LEMMA BindFields ==
  ASSUME TypeInv, NEW s \in Slots
  PROVE  bind[s] \in Binds /\ bind[s].sock \in Nat /\ bind[s].user \in Items \cup {None}
<1>1. bind[s] \in Binds
  BY DEF TypeInv
<1> QED BY <1>1 DEF Binds

\* The users as numbers, and how many items there are.
LEMMA UsersFacts ==
  /\ IsFiniteSet(Users) /\ Cardinality(Users) \in Nat /\ NoUser \notin Users /\ None \notin Items
  /\ IsFiniteSet(Items) /\ Cardinality(Items) = Cardinality(Users) /\ NoSlot \notin Slots
<1>0. IsFiniteSet(Users)
  BY SessionsAssumption
<1>1. IsFiniteSet(Users) /\ Cardinality(Users) \in Nat
  BY <1>0, FS_CardinalityType
<1>2. NoUser \notin Users /\ NoSlot \notin Slots
  BY SessionsAssumption DEF NoUser
<1> DEFINE n == Cardinality(Users)
<1>c. n \in Int /\ n >= 0
  BY <1>1
<1>i. Items = 1 .. n
  BY DEF Items
<1> HIDE DEF n
<1>j. IsFiniteSet(1 .. n) /\ Cardinality(1 .. n) = n
  BY <1>c, FS_Interval
<1>3. IsFiniteSet(Items) /\ Cardinality(Items) = Cardinality(Users) /\ None \notin Items
  BY <1>c, <1>i, <1>j DEF None, n
<1> QED BY <1>1, <1>2, <1>3

\* A user without an item finds one in the store: the others have one each.
LEMMA StoreLemma ==
  ASSUME Room, NEW u \in Users, OfUser(u) = {}
  PROVE  store # <<>>
<1>1. SUFFICES ASSUME store = <<>> PROVE FALSE
  OBVIOUS
<1>2. \A i \in Items : items[i].user \in Users \ {u}
  <2> SUFFICES ASSUME NEW i \in Items PROVE items[i].user \in Users \ {u}
    OBVIOUS
  <2>1. items[i].user # NoUser
    BY <1>1 DEF Room, Pool
  <2>2. items[i].user # u
    BY DEF OfUser
  <2> QED BY <2>1, <2>2, ItemFields DEF Room
<1> DEFINE f == [i \in Items |-> items[i].user]
<1>3. f \in Injection(Items, Users \ {u})
  <2>1. f \in [Items -> Users \ {u}]
    BY <1>2
  <2>2. \A i, j \in Items : f[i] = f[j] => i = j
    BY <1>2, UsersFacts DEF Room, Alone
  <2> HIDE DEF f
  <2> QED BY <2>1, <2>2 DEF Injection, IsInjective
<1>4. IsFiniteSet(Users \ {u}) /\ Cardinality(Users \ {u}) = Cardinality(Users) - 1
  BY UsersFacts, FS_RemoveElement
<1>5. Cardinality(Items) <= Cardinality(Users \ {u})
  BY <1>3, <1>4, FS_Injection
<1> QED BY <1>4, <1>5, UsersFacts

\* The items of a user: none or one.
LEMMA OfUserLemma ==
  ASSUME Alone, NEW u \in Users, NEW i \in Items, items[i].user = u
  PROVE  OfUser(u) = {i} /\ Cardinality(OfUser(u)) = 1
<1>1. OfUser(u) = {i}
  BY UsersFacts DEF Alone, OfUser
<1> QED BY <1>1, FS_Singleton

\* A step that changes neither the users of the items nor the store.
LEMMA MoveLemma ==
  ASSUME TypeInv, Pool, Alone, UNCHANGED store,
         \A i \in Items : /\ items'[i].user = items[i].user
                          /\ items[i].status = "NULL" => items'[i].status = "NULL"
  PROVE  Pool' /\ Alone' /\ \A u \in Users : OfUser(u)' = OfUser(u)
<1>1. Pool'
  BY DEF Pool
<1>2. Alone'
  BY DEF Alone
<1>3. \A u \in Users : OfUser(u)' = OfUser(u)
  BY DEF OfUser
<1> QED BY <1>1, <1>2, <1>3

\* A user leaves the room: the item goes to the store and the leave request is
\* posted.
LEMMA LogoutLemma ==
  ASSUME Room, NEW i \in Items, items[i].user # NoUser, NEW binds \in [Slots -> Binds],
         Logout(i, binds), UNCHANGED <<answer, records>>
  PROVE  /\ bind' \in [Slots -> Binds] /\ items' \in [Items -> UserItems] /\ store' \in Seq(Items)
         /\ queue' \in [Users -> Seq(DBRequests)]
         /\ Pool' /\ Alone' /\ EntriesBalanced'
<1>t. TypeInv /\ Pool /\ Alone /\ EntriesBalanced
  BY DEF Room
<1>u. PICK u \in Users : u = items[i].user
  BY <1>t, ItemFields
<1>1. /\ bind' = [s \in Slots |-> IF s = items[i].bind /\ binds[s].user = i
                                   THEN [binds[s] EXCEPT !.user = None] ELSE binds[s]]
      /\ queue' = [queue EXCEPT ![u] = Append(@, LeaveRequest)]
      /\ items' = [items EXCEPT ![i] = ResetUserItem]
      /\ store' = Append(store, i)
  BY <1>u DEF Logout, Post
<1>2. bind' \in [Slots -> Binds]
  <2>1. ASSUME NEW s \in Slots PROVE [binds[s] EXCEPT !.user = None] \in Binds
    <3>1. binds[s] \in Binds
      OBVIOUS
    <3> QED BY <3>1 DEF Binds
  <2> QED BY <2>1, <1>1
<1>3. ResetUserItem \in UserItems /\ ResetUserItem.user = NoUser /\ ResetUserItem.status = "NULL"
  BY DEF ResetUserItem, UserItems, Statuses
<1>4. /\ items' \in [Items -> UserItems] /\ items'[i].user = NoUser /\ items'[i].status = "NULL"
      /\ \A j \in Items : j # i => items'[j] = items[j]
  BY <1>1, <1>3, <1>t DEF TypeInv
<1>5. /\ store' \in Seq(Items) /\ Len(store') = Len(store) + 1 /\ Len(store) \in Nat
      /\ store'[Len(store) + 1] = i
      /\ \A k \in 1 .. Len(store) : store'[k] = store[k] /\ store[k] # i
  BY <1>1, <1>t DEF TypeInv, Pool
<1>q. queue[u] \in Seq(DBRequests) /\ LeaveRequest \in DBRequests /\ LeaveRequest.kind = "LEAVE"
  BY <1>u, <1>t DEF TypeInv, DBRequests, LeaveRequest
<1>6. /\ queue' \in [Users -> Seq(DBRequests)] /\ queue'[u] = Append(queue[u], LeaveRequest)
      /\ \A v \in Users : v # u => queue'[v] = queue[v]
  BY <1>1, <1>u, <1>q, <1>t DEF TypeInv
<1>7. Pool'
  <2>1. ASSUME NEW j \in Items
        PROVE  items'[j].user = NoUser <=> \E k \in 1 .. Len(store') : store'[k] = j
    <3>1. CASE j = i
      <4>1. Len(store) + 1 \in 1 .. Len(store')
        BY <1>5
      <4> QED BY <3>1, <4>1, <1>4, <1>5
    <3>2. CASE j # i
      <4>1. (\E k \in 1 .. Len(store') : store'[k] = j) <=> (\E k \in 1 .. Len(store) : store[k] = j)
        BY <3>2, <1>5
      <4> QED BY <3>2, <4>1, <1>4, <1>t DEF Pool
    <3> QED BY <3>1, <3>2
  <2>2. ASSUME NEW j \in 1 .. Len(store'), NEW k \in 1 .. Len(store'), store'[j] = store'[k]
        PROVE  j = k
    <3>1. \A n \in 1 .. Len(store') : n = Len(store) + 1 \/ n \in 1 .. Len(store)
      BY <1>5
    <3>2. CASE j \in 1 .. Len(store) /\ k \in 1 .. Len(store)
      BY <3>2, <2>2, <1>5, <1>t DEF Pool
    <3> QED BY <3>1, <3>2, <2>2, <1>5
  <2>3. \A j \in Items : items'[j].user = NoUser => items'[j].status = "NULL"
    BY <1>4, <1>t DEF Pool
  <2> QED BY <2>1, <2>2, <2>3 DEF Pool
<1>8. Alone'
  BY <1>4, <1>t DEF Alone
<1>9. EntriesBalanced'
  <2>1. OfUser(u)' = {} /\ Cardinality(OfUser(u)) = 1
    <3>1. OfUser(u) = {i} /\ Cardinality(OfUser(u)) = 1
      BY <1>u, <1>t, OfUserLemma
    <3>2. \A j \in Items : j # i => items[j].user # u
      BY <3>1 DEF OfUser
    <3>3. OfUser(u)' = {}
      BY <3>2, <1>4, <1>u, UsersFacts DEF OfUser
    <3> QED BY <3>1, <3>3
  <2>2. \A v \in Users : v # u => OfUser(v)' = OfUser(v)
    BY <1>4, <1>u, UsersFacts DEF OfUser
  <2>3. Cardinality(Leaves(queue'[u])) = Cardinality(Leaves(queue[u])) + 1 /\ Cardinality(Leaves(queue[u])) \in Nat
    BY <1>6, <1>q, LeavesLemma
  <2>4. ASSUME NEW v \in Users
        PROVE  records'[v] = Cardinality(OfUser(v)') + Cardinality(Leaves(queue'[v]))
                             + (IF answer'.at = "checked" /\ answer'.user = v THEN 1 ELSE 0)
    <3>1. records[v] = Cardinality(OfUser(v)) + Cardinality(Leaves(queue[v]))
                       + (IF answer.at = "checked" /\ answer.user = v THEN 1 ELSE 0)
      BY <1>t DEF EntriesBalanced
    <3>2. CASE v = u
      BY <3>1, <3>2, <2>1, <2>3, FS_EmptySet
    <3>3. CASE v # u
      BY <3>1, <3>3, <2>2, <1>6
    <3> QED BY <3>2, <3>3
  <2> QED BY <2>4 DEF EntriesBalanced
<1> QED BY <1>2, <1>4, <1>5, <1>6, <1>7, <1>8, <1>9

\* The session of a user moves to another slot.
LEMMA SwitchLemma ==
  ASSUME TypeInv, NEW i \in Items, NEW s \in Slots, SwitchUserItemConnect(i, s), items[i].user # NoUser,
         Pool
  PROVE  /\ bind' \in [Slots -> Binds] /\ items' \in [Items -> UserItems] /\ UNCHANGED store
         /\ \A j \in Items : j # i => items'[j] = items[j]
         /\ items'[i].user = items[i].user /\ items'[i].bind = s
         /\ \A j \in Items : /\ items'[j].user = items[j].user
                             /\ items[j].status = "NULL" => items'[j].status = "NULL"
         /\ bind'[s] = [bind[s] EXCEPT !.user = i]
         /\ \A t \in Slots : t # s =>
              \/ t = items[i].bind /\ bind[t].user = i /\ bind'[t] = [bind[t] EXCEPT !.user = None]
              \/ ~(t = items[i].bind /\ bind[t].user = i) /\ bind'[t] = bind[t]
<1>1. /\ bind' = [t \in Slots |->
           IF t = s THEN [bind[t] EXCEPT !.user = i]
           ELSE IF t = items[i].bind /\ bind[t].user = i THEN [bind[t] EXCEPT !.user = None]
           ELSE bind[t]]
      /\ items' = [items EXCEPT ![i].bind = s,
                     ![i].status = IF @ = "OFFLINE" THEN "PLAYING" ELSE @]
      /\ store' = store
  BY DEF SwitchUserItemConnect
<1>2. \A t \in Slots, x \in Items \cup {None} : [bind[t] EXCEPT !.user = x] \in Binds
  <2> SUFFICES ASSUME NEW t \in Slots, NEW x \in Items \cup {None} PROVE [bind[t] EXCEPT !.user = x] \in Binds
    OBVIOUS
  <2>1. bind[t] \in Binds
    BY DEF TypeInv
  <2> QED BY <2>1 DEF Binds
<1>3. bind' \in [Slots -> Binds]
  BY <1>1, <1>2 DEF TypeInv
<1> DEFINE w == [items[i] EXCEPT !.bind = s, !.status = IF @ = "OFFLINE" THEN "PLAYING" ELSE @]
<1>4. /\ w \in UserItems /\ w.user = items[i].user /\ w.bind = s
      /\ items[i].status = "NULL" => w.status = "NULL"
  <2>1. items[i] \in UserItems
    BY DEF TypeInv
  <2> QED BY <2>1 DEF UserItems, Statuses
<1>5. items \in [Items -> UserItems] /\ items' = [items EXCEPT ![i] = w]
  BY <1>1 DEF TypeInv
<1> HIDE DEF w
<1>6. items' \in [Items -> UserItems] /\ items'[i] = w /\ \A j \in Items : j # i => items'[j] = items[j]
  BY <1>4, <1>5
<1>7. \A t \in Slots : t # s =>
              \/ t = items[i].bind /\ bind[t].user = i /\ bind'[t] = [bind[t] EXCEPT !.user = None]
              \/ ~(t = items[i].bind /\ bind[t].user = i) /\ bind'[t] = bind[t]
  BY <1>1
<1>8. bind'[s] = [bind[s] EXCEPT !.user = i]
  BY <1>1
<1> QED BY <1>1, <1>3, <1>4, <1>6, <1>7, <1>8

-----------------------------------------------------------------------------
(* Every step keeps the account of the entries.                            *)

Granted(v) == IF answer.at = "checked" /\ answer.user = v THEN 1 ELSE 0
Count(v) == Cardinality(Leaves(queue[v]))

\* What is counted are numbers.
LEMMA CountType ==
  ASSUME TypeInv, NEW v \in Users
  PROVE  Count(v) \in Nat /\ Granted(v) \in Nat /\ records[v] \in Int /\ queue[v] \in Seq(DBRequests)
<1>1. queue[v] \in Seq(DBRequests) /\ records[v] \in Int
  BY DEF TypeInv
<1> QED BY <1>1, LeavesLemma DEF Count, Granted

\* A step that changes no item's user keeps the account if requests, records and
\* the answer under way change by the same amount.
LEMMA StayLemma ==
  ASSUME Room, TypeInv', UNCHANGED store,
         \A i \in Items : /\ items'[i].user = items[i].user
                          /\ items[i].status = "NULL" => items'[i].status = "NULL",
         \A v \in Users : records'[v] - records[v] = (Count(v)' - Count(v)) + (Granted(v)' - Granted(v))
  PROVE  Room'
<1>t. TypeInv /\ Pool /\ Alone /\ EntriesBalanced
  BY DEF Room
<1>1. Pool' /\ Alone' /\ \A u \in Users : OfUser(u)' = OfUser(u)
  BY <1>t, MoveLemma
<1>2. ASSUME NEW v \in Users
      PROVE  records'[v] = Cardinality(OfUser(v)') + Count(v)' + Granted(v)'
  <2>1. records[v] = Cardinality(OfUser(v)) + Count(v) + Granted(v)
    BY <1>t DEF EntriesBalanced, Count, Granted
  <2>2. OfUser(v) \in SUBSET Items
    BY DEF OfUser
  <2>3. Cardinality(OfUser(v)) \in Nat
    BY <2>2, UsersFacts, FS_Subset, FS_CardinalityType
  <2>4. /\ Count(v) \in Nat /\ Granted(v) \in Nat /\ records[v] \in Int
        /\ Count(v)' \in Nat /\ Granted(v)' \in Nat /\ records'[v] \in Int
    <3>1. queue'[v] \in Seq(DBRequests) /\ records'[v] \in Int
      BY DEF TypeInv
    <3> QED BY <3>1, <1>t, CountType, LeavesLemma DEF Count, Granted
  <2>5. Cardinality(OfUser(v)') = Cardinality(OfUser(v))
    BY <1>1
  <2> QED BY <2>1, <2>3, <2>4, <2>5
<1>3. EntriesBalanced'
  BY <1>2 DEF EntriesBalanced, Count, Granted
<1> QED BY <1>1, <1>3 DEF Room

\* The same for steps that touch neither requests nor records nor the answer.
LEMMA QuietLemma ==
  ASSUME Room, TypeInv', UNCHANGED <<store, queue, records, answer>>,
         \A i \in Items : /\ items'[i].user = items[i].user
                          /\ items[i].status = "NULL" => items'[i].status = "NULL"
  PROVE  Room'
<1>1. ASSUME NEW v \in Users
      PROVE  records'[v] - records[v] = (Count(v)' - Count(v)) + (Granted(v)' - Granted(v))
  <2>1. Count(v)' = Count(v) /\ Granted(v)' = Granted(v) /\ records'[v] = records[v]
    BY DEF Count, Granted
  <2> QED BY <2>1, CountType DEF Room
<1> QED BY <1>1, StayLemma

\* A request is posted.
LEMMA PostLemma ==
  ASSUME TypeInv, NEW u \in Users, NEW r \in DBRequests, Post(u, r)
  PROVE  /\ queue' \in [Users -> Seq(DBRequests)]
         /\ queue'[u] = Append(queue[u], r) /\ \A v \in Users : v # u => queue'[v] = queue[v]
         /\ \A v \in Users : Count(v)' = Count(v) + (IF v = u /\ r.kind = "LEAVE" THEN 1 ELSE 0)
<1>1. queue \in [Users -> Seq(DBRequests)] /\ queue' = [queue EXCEPT ![u] = Append(@, r)]
  BY DEF TypeInv, Post
<1>2. queue'[u] = Append(queue[u], r) /\ \A v \in Users : v # u => queue'[v] = queue[v]
  BY <1>1
<1>3. queue' \in [Users -> Seq(DBRequests)]
  BY <1>1
<1>4. ASSUME NEW v \in Users
      PROVE  Count(v)' = Count(v) + (IF v = u /\ r.kind = "LEAVE" THEN 1 ELSE 0)
  <2>0. queue[v] \in Seq(DBRequests)
    BY <1>1
  <2>1. Count(v) \in Nat
    BY <2>0, LeavesLemma DEF Count
  <2>2. CASE v = u
    BY <2>0, <2>2, <1>2, LeavesLemma DEF Count
  <2>3. CASE v # u
    BY <2>1, <2>3, <1>2 DEF Count
  <2> QED BY <2>2, <2>3
<1> QED BY <1>2, <1>3, <1>4

\* The database takes a request.
LEMMA TakeLemma ==
  ASSUME TypeInv, NEW u \in Users, queue[u] # <<>>
  PROVE  /\ Head(queue[u]) \in DBRequests /\ Tail(queue[u]) \in Seq(DBRequests)
         /\ Cardinality(Leaves(Tail(queue[u]))) =
              Count(u) - (IF Head(queue[u]).kind = "LEAVE" THEN 1 ELSE 0)
         /\ Cardinality(Leaves(Append(Tail(queue[u]), LeaveRequest))) =
              Cardinality(Leaves(Tail(queue[u]))) + 1
<1>1. queue[u] \in Seq(DBRequests) /\ LeaveRequest \in DBRequests /\ LeaveRequest.kind = "LEAVE"
  BY DEF TypeInv, DBRequests, LeaveRequest
<1>2. Head(queue[u]) \in DBRequests /\ Tail(queue[u]) \in Seq(DBRequests)
  BY <1>1
<1>3. Cardinality(Leaves(Append(Tail(queue[u]), LeaveRequest))) =
              Cardinality(Leaves(Tail(queue[u]))) + 1
  BY <1>1, <1>2, LeavesLemma
<1>4. Cardinality(Leaves(Tail(queue[u]))) =
              Count(u) - (IF Head(queue[u]).kind = "LEAVE" THEN 1 ELSE 0)
  BY <1>1, LeavesLemma DEF Count
<1> QED BY <1>2, <1>3, <1>4

\* A logon request is a request.
LEMMA LogonType ==
  ASSUME TypeInv, NEW s \in Slots
  PROVE  LogonRequest(s) \in Logons /\ LogonRequest(s) \in DBRequests /\ LogonRequest(s).kind = "LOGON"
         /\ LogonRequest(s).sock = bind[s].sock /\ LogonRequest(s).slot = s
BY BindFields DEF LogonRequest, Logons, DBRequests

\* OnEventTCPNetworkBind keeps the account.
LEMMA BindStep ==
  ASSUME Room, NEW s \in Slots, OnEventTCPNetworkBind(s)
  PROVE  Room'
<1>t. TypeInv
  BY DEF Room
<1>1. /\ live' = [live EXCEPT ![s] = TRUE] /\ round' = [round EXCEPT ![s] = @ + 1]
      /\ bind' = [bind EXCEPT ![s].sock = round[s] + 1] /\ asked' = [asked EXCEPT ![s] = {}]
      /\ UNCHANGED <<items, store, queue, answer, records>>
  BY DEF OnEventTCPNetworkBind
<1>2. round[s] \in Nat /\ live' \in [Slots -> BOOLEAN] /\ round' \in [Slots -> Nat] /\ asked' \in [Slots -> SUBSET Users]
  BY <1>1, <1>t DEF TypeInv
<1>3. [bind[s] EXCEPT !.sock = round[s] + 1] \in Binds
  BY <1>2, <1>t, BindFields DEF Binds
<1>4. bind' \in [Slots -> Binds]
  BY <1>1, <1>3, <1>t DEF TypeInv
<1>5. TypeInv'
  BY <1>1, <1>2, <1>4, <1>t DEF TypeInv
<1> QED BY <1>1, <1>5, QuietLemma

\* OnEventTCPNetworkShut keeps the account: a user who does not play leaves.
LEMMA ShutStep ==
  ASSUME Room, NEW s \in Slots, OnEventTCPNetworkShut(s)
  PROVE  Room'
<1> DEFINE cleared == [bind EXCEPT ![s] = Zeroed]
<1>t. TypeInv /\ Pool
  BY DEF Room
<1>1. /\ live' = [live EXCEPT ![s] = FALSE] /\ asked' = [asked EXCEPT ![s] = {}]
      /\ UNCHANGED <<round, answer, records>>
      /\ IF bind[s].user = None
           THEN bind' = cleared /\ UNCHANGED <<items, store, queue>>
           ELSE ShutUser(bind[s].user, cleared)
  BY DEF OnEventTCPNetworkShut
<1>z. Zeroed \in Binds
  BY DEF Binds, Zeroed, None
<1>2. cleared \in [Slots -> Binds]
  BY <1>z, <1>t DEF TypeInv
<1>3. live' \in [Slots -> BOOLEAN] /\ asked' \in [Slots -> SUBSET Users]
  BY <1>1, <1>t DEF TypeInv
<1> HIDE DEF cleared
<1>4. CASE bind' = cleared /\ UNCHANGED <<items, store, queue>>
  <2>1. TypeInv'
    BY <1>1, <1>2, <1>3, <1>4, <1>t DEF TypeInv
  <2> QED BY <2>1, <1>1, <1>4, QuietLemma
<1>5. CASE bind[s].user # None /\ ~(bind' = cleared /\ UNCHANGED <<items, store, queue>>)
  <2>1. PICK i \in Items : i = bind[s].user
    BY <1>5, <1>t, BindFields
  <2>s. ShutUser(i, cleared)
    BY <1>1, <1>5, <2>1
  <2>n. items[i].user = NoUser => items[i].status # "PLAYING"
    BY <1>t DEF Pool
  <2>2. items[i].user # NoUser /\ ShutUser(i, cleared)
    BY <1>5, <2>s, <2>n DEF ShutUser
  <2>3. CASE items[i].status = "PLAYING"
    <3> DEFINE w == [items[i] EXCEPT !.bind = NoSlot, !.status = "OFFLINE"]
    <3>1. bind' = cleared /\ UNCHANGED <<store, queue>> /\ items' = [items EXCEPT ![i] = w]
      BY <2>2, <2>3 DEF ShutUser
    <3>2. w \in UserItems /\ w.user = items[i].user
      BY <1>t, ItemFields DEF UserItems, Statuses
    <3> HIDE DEF w
    <3>3. /\ items' \in [Items -> UserItems] /\ items'[i] = w
          /\ \A j \in Items : j # i => items'[j] = items[j]
      BY <3>1, <3>2, <1>t DEF TypeInv
    <3>4. TypeInv'
      BY <3>1, <3>3, <1>1, <1>2, <1>3, <1>t DEF TypeInv
    <3>5. \A j \in Items : /\ items'[j].user = items[j].user
                           /\ items[j].status = "NULL" => items'[j].status = "NULL"
      BY <3>2, <3>3, <2>3
    <3> QED BY <3>1, <3>4, <3>5, <1>1, QuietLemma
  <2>4. CASE items[i].status # "PLAYING"
    <3>1. Logout(i, cleared)
      BY <2>2, <2>4 DEF ShutUser
    <3>2. /\ bind' \in [Slots -> Binds] /\ items' \in [Items -> UserItems] /\ store' \in Seq(Items)
          /\ queue' \in [Users -> Seq(DBRequests)] /\ Pool' /\ Alone' /\ EntriesBalanced'
      BY <3>1, <2>2, <1>1, <1>2, LogoutLemma
    <3>3. TypeInv'
      BY <3>2, <1>1, <1>3, <1>t DEF TypeInv
    <3> QED BY <3>2, <3>3 DEF Room
  <2> QED BY <2>3, <2>4
<1> QED BY <1>1, <1>4, <1>5

\* OnTCPNetworkSubLogonUserID keeps the account: it moves a user or posts a logon.
LEMMA LogonStep ==
  ASSUME Room, NEW s \in Slots, NEW u \in Users, NEW p \in BOOLEAN, OnTCPNetworkSubLogonUserID(s, u, p)
  PROVE  Room'
<1>t. TypeInv /\ Pool
  BY DEF Room
<1>1. asked' = [asked EXCEPT ![s] = @ \union {u}] /\ UNCHANGED <<live, round, answer, records>>
  BY DEF OnTCPNetworkSubLogonUserID
<1>2. asked' \in [Slots -> SUBSET Users]
  BY <1>1, <1>t DEF TypeInv
<1>3. ASSUME NEW i \in OfUser(u), SwitchUserItemConnect(i, s), UNCHANGED queue PROVE Room'
  <2>1. i \in Items /\ items[i].user # NoUser
    BY UsersFacts DEF OfUser
  <2>2. /\ bind' \in [Slots -> Binds] /\ items' \in [Items -> UserItems] /\ UNCHANGED store
        /\ \A j \in Items : /\ items'[j].user = items[j].user
                            /\ items[j].status = "NULL" => items'[j].status = "NULL"
    BY <2>1, <1>3, <1>t, SwitchLemma
  <2>3. TypeInv'
    BY <2>2, <1>1, <1>2, <1>3, <1>t DEF TypeInv
  <2> QED BY <2>2, <2>3, <1>1, <1>3, QuietLemma
<1>4. CASE Post(u, LogonRequest(s)) /\ UNCHANGED <<bind, items, store>>
  <2>1. /\ queue' \in [Users -> Seq(DBRequests)]
        /\ \A v \in Users : Count(v)' = Count(v) + 0
    BY <1>4, <1>t, LogonType, PostLemma
  <2>2. TypeInv'
    BY <2>1, <1>1, <1>2, <1>4, <1>t DEF TypeInv
  <2>3. ASSUME NEW v \in Users
        PROVE  records'[v] - records[v] = (Count(v)' - Count(v)) + (Granted(v)' - Granted(v))
    <3>1. records'[v] = records[v] /\ Granted(v)' = Granted(v)
      BY <1>1 DEF Granted
    <3> QED BY <3>1, <2>1, <1>t, CountType
  <2> QED BY <2>2, <2>3, <1>4, StayLemma
<1> QED BY <1>3, <1>4 DEF OnTCPNetworkSubLogonUserID

\* A step that changes the status of an item that has a place.
LEMMA StatusStep ==
  ASSUME Room, NEW i \in Items, NEW x \in Statuses, items[i].status # "NULL",
         items' = [items EXCEPT ![i].status = x],
         UNCHANGED <<live, round, bind, store, queue, answer, records, asked>>
  PROVE  Room'
<1> DEFINE w == [items[i] EXCEPT !.status = x]
<1>t. TypeInv
  BY DEF Room
<1>1. w \in UserItems /\ w.user = items[i].user
  BY <1>t, ItemFields DEF UserItems
<1>2. items' = [items EXCEPT ![i] = w]
  OBVIOUS
<1> HIDE DEF w
<1>3. items' \in [Items -> UserItems] /\ items'[i] = w /\ \A j \in Items : j # i => items'[j] = items[j]
  BY <1>1, <1>2, <1>t DEF TypeInv
<1>4. TypeInv'
  BY <1>3, <1>t DEF TypeInv
<1>5. \A j \in Items : /\ items'[j].user = items[j].user
                       /\ items[j].status = "NULL" => items'[j].status = "NULL"
  BY <1>1, <1>3
<1> QED BY <1>4, <1>5, QuietLemma

\* A user leaves by itself or is kicked.
LEMMA LeaveStep ==
  ASSUME Room, NEW i \in Items, items[i].user # NoUser, Logout(i, bind),
         UNCHANGED <<live, round, answer, records, asked>>
  PROVE  Room'
<1>t. TypeInv
  BY DEF Room
<1>1. bind \in [Slots -> Binds]
  BY <1>t DEF TypeInv
<1>2. /\ bind' \in [Slots -> Binds] /\ items' \in [Items -> UserItems] /\ store' \in Seq(Items)
      /\ queue' \in [Users -> Seq(DBRequests)] /\ Pool' /\ Alone' /\ EntriesBalanced'
  BY <1>1, LogoutLemma
<1>3. TypeInv'
  BY <1>2, <1>t DEF TypeInv
<1> QED BY <1>2, <1>3 DEF Room

\* No logon request is added.
NoNewLogon ==
  \A v \in Users : \A k \in 1 .. Len(queue'[v]) :
    queue'[v][k].kind = "LEAVE" \/ \E m \in 1 .. Len(queue[v]) : queue'[v][k] = queue[v][m]

\* A leave request is posted.
LEMMA PostLeave ==
  ASSUME TypeInv, NEW u \in Users, Post(u, LeaveRequest)
  PROVE  /\ queue' \in [Users -> Seq(DBRequests)] /\ NoNewLogon
         /\ \A v \in Users : Count(v)' = Count(v) + (IF v = u THEN 1 ELSE 0)
<1>1. LeaveRequest \in DBRequests /\ LeaveRequest.kind = "LEAVE"
  BY DEF DBRequests, LeaveRequest
<1>2. /\ queue' \in [Users -> Seq(DBRequests)]
      /\ queue'[u] = Append(queue[u], LeaveRequest) /\ \A v \in Users : v # u => queue'[v] = queue[v]
      /\ \A v \in Users : Count(v)' = Count(v) + (IF v = u THEN 1 ELSE 0)
  BY <1>1, PostLemma
<1>3. queue[u] \in Seq(DBRequests) /\ Len(queue[u]) \in Nat
  BY DEF TypeInv
<1>4. ASSUME NEW v \in Users, NEW k \in 1 .. Len(queue'[v])
      PROVE  queue'[v][k].kind = "LEAVE" \/ \E m \in 1 .. Len(queue[v]) : queue'[v][k] = queue[v][m]
  <2>1. CASE v = u
    <3>1. k = Len(queue[u]) + 1 \/ k \in 1 .. Len(queue[u])
      BY <2>1, <1>1, <1>2, <1>3
    <3>2. CASE k = Len(queue[u]) + 1
      BY <2>1, <3>2, <1>1, <1>2, <1>3
    <3>3. CASE k \in 1 .. Len(queue[u])
      <4>1. queue'[v][k] = queue[v][k]
        BY <2>1, <3>3, <1>1, <1>2, <1>3
      <4> QED BY <4>1, <3>3, <2>1
    <3> QED BY <3>1, <3>2, <3>3
  <2>2. CASE v # u
    BY <2>2, <1>2
  <2> QED BY <2>1, <2>2
<1> QED BY <1>2, <1>4 DEF NoNewLogon

\* A request is taken, and a leave request may follow the others.
LEMMA TakeQueue ==
  ASSUME TypeInv, NEW u \in Users, queue[u] # <<>>, NEW q,
         q = Tail(queue[u]) \/ q = Append(Tail(queue[u]), LeaveRequest),
         queue' = [queue EXCEPT ![u] = q]
  PROVE  /\ queue' \in [Users -> Seq(DBRequests)] /\ NoNewLogon
         /\ \A v \in Users : v # u => Count(v)' = Count(v)
         /\ Count(u)' = Cardinality(Leaves(q))
<1>0. queue \in [Users -> Seq(DBRequests)]
  BY DEF TypeInv
<1>1. LeaveRequest \in DBRequests /\ LeaveRequest.kind = "LEAVE"
  BY DEF DBRequests, LeaveRequest
<1>2. /\ queue[u] \in Seq(DBRequests) /\ Len(queue[u]) \in Nat /\ Len(queue[u]) > 0
      /\ Tail(queue[u]) \in Seq(DBRequests) /\ Len(Tail(queue[u])) = Len(queue[u]) - 1
      /\ \A k \in 1 .. (Len(queue[u]) - 1) : Tail(queue[u])[k] = queue[u][k + 1]
  BY <1>0
<1>3. q \in Seq(DBRequests)
  BY <1>1, <1>2
<1>4. queue' \in [Users -> Seq(DBRequests)] /\ queue'[u] = q /\ \A v \in Users : v # u => queue'[v] = queue[v]
  BY <1>0, <1>3
<1>5. ASSUME NEW k \in 1 .. Len(q)
      PROVE  q[k].kind = "LEAVE" \/ \E m \in 1 .. Len(queue[u]) : q[k] = queue[u][m]
  <2>1. \/ k \in 1 .. (Len(queue[u]) - 1) /\ q[k] = Tail(queue[u])[k]
        \/ q[k] = LeaveRequest
    BY <1>1, <1>2
  <2>2. CASE k \in 1 .. (Len(queue[u]) - 1) /\ q[k] = Tail(queue[u])[k]
    <3>1. k + 1 \in 1 .. Len(queue[u]) /\ q[k] = queue[u][k + 1]
      BY <2>2, <1>2
    <3> QED BY <3>1
  <2> QED BY <2>1, <2>2, <1>1
<1>6. ASSUME NEW v \in Users, NEW k \in 1 .. Len(queue'[v])
      PROVE  queue'[v][k].kind = "LEAVE" \/ \E m \in 1 .. Len(queue[v]) : queue'[v][k] = queue[v][m]
  BY <1>4, <1>5
<1>7. NoNewLogon
  BY <1>6 DEF NoNewLogon
<1> QED BY <1>4, <1>7 DEF Count

\* OnDBLogonSuccess: the new entry is the answer's, or is given back at once.
LEMMA SuccessStep ==
  ASSUME Room, NEW u \in Users, OnDBLogonSuccess(u)
  PROVE  Room' /\ NoNewLogon
<1> DEFINE r == Head(queue[u])
           rest == Tail(queue[u])
           stale == bind[r.slot].user # None \/ bind[r.slot].sock # r.sock
           check == [at |-> "checked", user |-> u, slot |-> r.slot]
<1>t. TypeInv
  BY DEF Room
<1>1. /\ answer = Idle /\ queue[u] # <<>> /\ r.kind = "LOGON"
      /\ records' = [records EXCEPT ![u] = @ + 1]
      /\ \/ queue' = [queue EXCEPT ![u] = Append(rest, LeaveRequest)] /\ UNCHANGED answer
         \/ queue' = [queue EXCEPT ![u] = rest] /\ answer' = check
      /\ UNCHANGED <<live, round, bind, items, store, asked>>
  BY DEF OnDBLogonSuccess, TakeRequest
<1>2. /\ r \in DBRequests
      /\ Cardinality(Leaves(rest)) = Count(u) - 0
      /\ Cardinality(Leaves(Append(rest, LeaveRequest))) = Cardinality(Leaves(rest)) + 1
  BY <1>1, <1>t, TakeLemma
<1>3. r.slot \in Slots
  BY <1>1, <1>2 DEF DBRequests, Logons, LeaveRequest
<1>4. check \in Checks /\ check.at = "checked" /\ check.user = u
  BY <1>3 DEF Checks
<1>5. records' \in [Users -> Int] /\ records'[u] = records[u] + 1 /\ \A v \in Users : v # u => records'[v] = records[v]
  BY <1>1, <1>t DEF TypeInv
<1>6. \A v \in Users : Granted(v) = 0
  BY <1>1 DEF Granted, Idle
<1> HIDE DEF check, rest
<1>7. CASE queue' = [queue EXCEPT ![u] = Append(rest, LeaveRequest)] /\ UNCHANGED answer
  <2>1. /\ queue' \in [Users -> Seq(DBRequests)] /\ NoNewLogon
        /\ \A v \in Users : v # u => Count(v)' = Count(v)
        /\ Count(u)' = Cardinality(Leaves(Append(rest, LeaveRequest)))
    BY <1>1, <1>7, <1>t, TakeQueue DEF rest
  <2>2. TypeInv'
    BY <2>1, <1>1, <1>5, <1>7, <1>t DEF TypeInv
  <2>3. ASSUME NEW v \in Users
        PROVE  records'[v] - records[v] = (Count(v)' - Count(v)) + (Granted(v)' - Granted(v))
    <3>1. Granted(v)' = 0
      BY <1>6, <1>7 DEF Granted
    <3>2. Count(v) \in Nat /\ records[v] \in Int /\ Count(u) \in Nat /\ records[u] \in Int
      BY <1>t, CountType
    <3> QED BY <3>1, <3>2, <2>1, <1>2, <1>5, <1>6
  <2> QED BY <2>1, <2>2, <2>3, <1>1, StayLemma
<1>8. CASE queue' = [queue EXCEPT ![u] = rest] /\ answer' = check
  <2>1. /\ queue' \in [Users -> Seq(DBRequests)] /\ NoNewLogon
        /\ \A v \in Users : v # u => Count(v)' = Count(v)
        /\ Count(u)' = Cardinality(Leaves(rest))
    BY <1>1, <1>8, <1>t, TakeQueue DEF rest
  <2>2. TypeInv'
    BY <2>1, <1>1, <1>4, <1>5, <1>8, <1>t DEF TypeInv
  <2>3. ASSUME NEW v \in Users
        PROVE  records'[v] - records[v] = (Count(v)' - Count(v)) + (Granted(v)' - Granted(v))
    <3>1. Granted(v)' = IF v = u THEN 1 ELSE 0
      BY <1>4, <1>8 DEF Granted
    <3>2. Count(v) \in Nat /\ records[v] \in Int /\ Count(u) \in Nat /\ records[u] \in Int
      BY <1>t, CountType
    <3> QED BY <3>1, <3>2, <2>1, <1>2, <1>5, <1>6
  <2> QED BY <2>1, <2>2, <2>3, <1>1, StayLemma
<1> QED BY <1>1, <1>7, <1>8

\* OnDBLogonFailure takes a logon request and grants nothing.
LEMMA FailureStep ==
  ASSUME Room, NEW u \in Users, OnDBLogonFailure(u)
  PROVE  Room' /\ NoNewLogon
<1>t. TypeInv
  BY DEF Room
<1>1. /\ queue[u] # <<>> /\ Head(queue[u]).kind = "LOGON"
      /\ queue' = [queue EXCEPT ![u] = Tail(queue[u])]
      /\ UNCHANGED <<live, round, bind, items, store, answer, records, asked>>
  BY DEF OnDBLogonFailure, TakeRequest
<1>2. Cardinality(Leaves(Tail(queue[u]))) = Count(u) - 0
  BY <1>1, <1>t, TakeLemma
<1>3. /\ queue' \in [Users -> Seq(DBRequests)] /\ NoNewLogon
      /\ \A v \in Users : v # u => Count(v)' = Count(v)
      /\ Count(u)' = Cardinality(Leaves(Tail(queue[u])))
  BY <1>1, <1>t, TakeQueue
<1>4. TypeInv'
  BY <1>1, <1>3, <1>t DEF TypeInv
<1>5. ASSUME NEW v \in Users
      PROVE  records'[v] - records[v] = (Count(v)' - Count(v)) + (Granted(v)' - Granted(v))
  <2>1. Granted(v)' = Granted(v) /\ records'[v] = records[v]
    BY <1>1 DEF Granted
  <2>2. Count(v) \in Nat /\ records[v] \in Int /\ Count(u) \in Nat /\ Granted(v) \in Nat
    BY <1>t, CountType
  <2> QED BY <2>1, <2>2, <1>2, <1>3
<1> QED BY <1>1, <1>3, <1>4, <1>5, StayLemma

\* OnRequestLeaveGameServer closes one entry for one leave request.
LEMMA LeaveDone ==
  ASSUME Room, NEW u \in Users, OnRequestLeaveGameServer(u)
  PROVE  Room' /\ NoNewLogon
<1>t. TypeInv
  BY DEF Room
<1>1. /\ queue[u] # <<>> /\ Head(queue[u]).kind = "LEAVE"
      /\ queue' = [queue EXCEPT ![u] = Tail(queue[u])]
      /\ records' = [records EXCEPT ![u] = @ - 1]
      /\ UNCHANGED <<live, round, bind, items, store, answer, asked>>
  BY DEF OnRequestLeaveGameServer, TakeRequest
<1>2. Cardinality(Leaves(Tail(queue[u]))) = Count(u) - 1
  BY <1>1, <1>t, TakeLemma
<1>3. /\ queue' \in [Users -> Seq(DBRequests)] /\ NoNewLogon
      /\ \A v \in Users : v # u => Count(v)' = Count(v)
      /\ Count(u)' = Cardinality(Leaves(Tail(queue[u])))
  BY <1>1, <1>t, TakeQueue
<1>4. records' \in [Users -> Int] /\ records'[u] = records[u] - 1 /\ \A v \in Users : v # u => records'[v] = records[v]
  BY <1>1, <1>t DEF TypeInv
<1>5. TypeInv'
  BY <1>1, <1>3, <1>4, <1>t DEF TypeInv
<1>6. ASSUME NEW v \in Users
      PROVE  records'[v] - records[v] = (Count(v)' - Count(v)) + (Granted(v)' - Granted(v))
  <2>1. Granted(v)' = Granted(v)
    BY <1>1 DEF Granted
  <2>2. Count(v) \in Nat /\ records[v] \in Int /\ Count(u) \in Nat /\ records[u] \in Int /\ Granted(v) \in Nat
    BY <1>t, CountType
  <2>3. CASE v = u
    <3>1. Count(u)' = Count(u) - 1 /\ records'[u] = records[u] - 1
      BY <1>2, <1>3, <1>4
    <3> QED BY <2>1, <2>2, <2>3, <3>1
  <2>4. CASE v # u
    BY <2>1, <2>2, <2>4, <1>3, <1>4
  <2> QED BY <2>3, <2>4
<1> QED BY <1>1, <1>3, <1>5, <1>6, StayLemma

\* The user, the slot and the item of an answer.
LEMMA AnswerFields ==
  ASSUME TypeInv
  PROVE  /\ answer.at = "checked" => answer \in Checks /\ answer.user \in Users /\ answer.slot \in Slots
         /\ answer.at = "inserted" => answer \in Inserts /\ answer.item \in Items /\ answer.slot \in Slots
         /\ answer.at \notin {"checked", "inserted"} => answer = Idle
BY DEF TypeInv, Checks, Inserts, Idle

\* The entry of the answer is given back; the user stays where it is.
LEMMA RefuseLemma ==
  ASSUME Room, answer.at = "checked", Refuse(answer.user), UNCHANGED <<live, round, store, records, asked>>,
         bind' \in [Slots -> Binds], items' \in [Items -> UserItems],
         \A i \in Items : /\ items'[i].user = items[i].user
                          /\ items[i].status = "NULL" => items'[i].status = "NULL"
  PROVE  Room' /\ NoNewLogon /\ answer' = Idle
<1>t. TypeInv
  BY DEF Room
<1>u. PICK u \in Users : u = answer.user
  BY <1>t, AnswerFields
<1>1. Post(u, LeaveRequest) /\ answer' = Idle
  BY <1>u DEF Refuse
<1>2. /\ queue' \in [Users -> Seq(DBRequests)] /\ NoNewLogon
      /\ \A v \in Users : Count(v)' = Count(v) + (IF v = u THEN 1 ELSE 0)
  BY <1>1, <1>t, PostLeave
<1>3. TypeInv'
  BY <1>1, <1>2, <1>t DEF TypeInv
<1>4. ASSUME NEW v \in Users
      PROVE  records'[v] - records[v] = (Count(v)' - Count(v)) + (Granted(v)' - Granted(v))
  <2>1. Granted(v)' = 0 /\ Granted(v) = (IF v = u THEN 1 ELSE 0) /\ records'[v] = records[v]
    BY <1>1, <1>u DEF Granted, Idle
  <2>2. Count(v) \in Nat /\ records[v] \in Int
    BY <1>t, CountType
  <2> QED BY <2>1, <2>2, <1>2
<1> QED BY <1>1, <1>2, <1>3, <1>4, StayLemma

\* A user who was kicked or finds the room full: the entry is given back.
LEMMA RefusedStep ==
  ASSUME Room, KickedOut \/ RoomFull
  PROVE  Room' /\ NoNewLogon /\ answer' = Idle
<1>1. /\ answer.at = "checked" /\ Refuse(answer.user)
      /\ UNCHANGED <<live, round, bind, items, store, records, asked>>
  BY DEF KickedOut, RoomFull
<1>2. bind' \in [Slots -> Binds] /\ items' \in [Items -> UserItems]
  BY <1>1 DEF Room, TypeInv
<1>3. UNCHANGED <<live, round, store, records, asked>> /\ items' = items
  BY <1>1
<1>4. \A i \in Items : /\ items'[i].user = items[i].user
                       /\ items[i].status = "NULL" => items'[i].status = "NULL"
  BY <1>3
<1> QED BY <1>1, <1>2, <1>3, <1>4, RefuseLemma

\* A user who is in the room already: the second entry is given back.
LEMMA SwitchStep ==
  ASSUME Room, AnswerSwitches
  PROVE  Room' /\ NoNewLogon /\ answer' = Idle
<1>t. TypeInv /\ Pool
  BY DEF Room
<1>1. /\ answer.at = "checked" /\ Refuse(answer.user) /\ UNCHANGED <<live, round, records, asked>>
  BY DEF AnswerSwitches
<1>2. PICK i \in OfUser(answer.user) : SwitchUserItemConnect(i, answer.slot)
  BY DEF AnswerSwitches
<1>3. i \in Items /\ items[i].user # NoUser /\ answer.slot \in Slots
  BY <1>1, <1>t, AnswerFields, UsersFacts DEF OfUser
<1>4. PICK s \in Slots : s = answer.slot
  BY <1>3
<1>5. SwitchUserItemConnect(i, s)
  BY <1>2, <1>4
<1>6. /\ bind' \in [Slots -> Binds] /\ items' \in [Items -> UserItems] /\ UNCHANGED store
      /\ \A j \in Items : /\ items'[j].user = items[j].user
                          /\ items[j].status = "NULL" => items'[j].status = "NULL"
  BY <1>3, <1>5, <1>t, SwitchLemma
<1> QED BY <1>1, <1>6, RefuseLemma

\* InsertUserItem takes the last item of the store.
LEMMA InsertFacts ==
  ASSUME Room, InsertUserItem
  PROVE  \E i \in Items, u \in Users, s \in Slots :
           /\ u = answer.user /\ s = answer.slot /\ answer.at = "checked" /\ OfUser(u) = {}
           /\ store # <<>> /\ i = store[Len(store)] /\ items[i].user = NoUser
           /\ items' = [items EXCEPT ![i] = [user |-> u, bind |-> s, status |-> "FREE"]]
           /\ store' = SubSeq(store, 1, Len(store) - 1)
           /\ answer' = [at |-> "inserted", item |-> i, slot |-> s]
           /\ UNCHANGED <<live, round, bind, queue, records, asked>>
<1>t. TypeInv /\ Pool
  BY DEF Room
<1>1. /\ answer.at = "checked" /\ OfUser(answer.user) = {}
      /\ items' = [items EXCEPT ![Last(store)] =
                     [user |-> answer.user, bind |-> answer.slot, status |-> "FREE"]]
      /\ store' = Front(store)
      /\ answer' = [at |-> "inserted", item |-> Last(store), slot |-> answer.slot]
      /\ UNCHANGED <<live, round, bind, queue, records, asked>>
  BY DEF InsertUserItem
<1>2. PICK u \in Users : u = answer.user
  BY <1>1, <1>t, AnswerFields
<1>3. PICK s \in Slots : s = answer.slot
  BY <1>1, <1>t, AnswerFields
<1>4. store # <<>>
  BY <1>1, <1>2, StoreLemma
<1>5. Len(store) \in 1 .. Len(store) /\ store[Len(store)] \in Items
  BY <1>4, <1>t DEF TypeInv
<1>6. PICK i \in Items : i = store[Len(store)]
  BY <1>5
<1>7. items[i].user = NoUser
  BY <1>5, <1>6, <1>t DEF Pool
<1> QED BY <1>1, <1>2, <1>3, <1>4, <1>6, <1>7 DEF Last, Front

\* InsertUserItem: the entry of the answer becomes that of the item.
LEMMA InsertStep ==
  ASSUME Room, InsertUserItem
  PROVE  Room'
<1>t. TypeInv /\ Pool /\ Alone /\ EntriesBalanced
  BY DEF Room
<1>1. PICK i \in Items, u \in Users, s \in Slots :
           /\ u = answer.user /\ s = answer.slot /\ answer.at = "checked" /\ OfUser(u) = {}
           /\ store # <<>> /\ i = store[Len(store)] /\ items[i].user = NoUser
           /\ items' = [items EXCEPT ![i] = [user |-> u, bind |-> s, status |-> "FREE"]]
           /\ store' = SubSeq(store, 1, Len(store) - 1)
           /\ answer' = [at |-> "inserted", item |-> i, slot |-> s]
           /\ UNCHANGED <<live, round, bind, queue, records, asked>>
  BY InsertFacts
<1> DEFINE w == [user |-> u, bind |-> s, status |-> "FREE"]
<1>2. w \in UserItems /\ w.user = u
  BY DEF UserItems, Statuses
<1>3. items' = [items EXCEPT ![i] = w]
  BY <1>1
<1> HIDE DEF w
<1>4. items' \in [Items -> UserItems] /\ items'[i] = w /\ \A j \in Items : j # i => items'[j] = items[j]
  BY <1>2, <1>3, <1>t DEF TypeInv
<1>5. /\ store' \in Seq(Items) /\ Len(store') = Len(store) - 1 /\ Len(store) \in Nat /\ Len(store) > 0
      /\ \A k \in 1 .. Len(store') : store'[k] = store[k] /\ k \in 1 .. Len(store)
  <2> DEFINE b == Len(store) - 1
  <2>1. store \in Seq(Items) /\ store # <<>> /\ store' = SubSeq(store, 1, b)
    BY <1>1, <1>t DEF TypeInv
  <2>2. Len(store) \in Nat /\ Len(store) > 0
    BY <2>1
  <2>3. b \in Nat /\ b < Len(store)
    BY <2>2
  <2> HIDE DEF b
  <2>4. Len(store') = b /\ \A k \in 1 .. b : store'[k] = store[k]
    BY <2>1, <2>2, <2>3
  <2>5. store' \in Seq(Items)
    BY <2>1, <2>2, <2>3
  <2> QED BY <2>2, <2>3, <2>4, <2>5 DEF b
<1>6. answer' \in Inserts /\ answer'.at = "inserted"
  BY <1>1 DEF Inserts
<1>7. TypeInv'
  BY <1>1, <1>4, <1>5, <1>6, <1>t DEF TypeInv
<1>8. Pool'
  <2>1. ASSUME NEW j \in Items
        PROVE  items'[j].user = NoUser <=> \E k \in 1 .. Len(store') : store'[k] = j
    <3>1. CASE j = i
      <4>1. items'[j].user # NoUser
        BY <3>1, <1>2, <1>4, UsersFacts
      <4>2. ASSUME NEW k \in 1 .. Len(store'), store'[k] = j PROVE FALSE
        <5>1. store[k] = store[Len(store)] /\ k \in 1 .. Len(store) /\ Len(store) \in 1 .. Len(store) /\ k # Len(store)
          BY <3>1, <4>2, <1>1, <1>5
        <5> QED BY <5>1, <1>t DEF Pool
      <4> QED BY <4>1, <4>2
    <3>2. CASE j # i
      <4>1. \A k \in 1 .. Len(store) : store[k] = j => k \in 1 .. Len(store')
        BY <3>2, <1>1, <1>5
      <4>2. (\E k \in 1 .. Len(store') : store'[k] = j) <=> (\E k \in 1 .. Len(store) : store[k] = j)
        BY <4>1, <1>5
      <4> QED BY <3>2, <4>2, <1>4, <1>t DEF Pool
    <3> QED BY <3>1, <3>2
  <2>2. \A j, k \in 1 .. Len(store') : store'[j] = store'[k] => j = k
    BY <1>5, <1>t DEF Pool
  <2>3. ASSUME NEW j \in Items, items'[j].user = NoUser PROVE items'[j].status = "NULL"
    <3>1. j # i
      BY <2>3, <1>2, <1>4, UsersFacts
    <3> QED BY <3>1, <2>3, <1>4, <1>t DEF Pool
  <2> QED BY <2>1, <2>2, <2>3 DEF Pool
<1>o. \A j \in Items : items[j].user # u
  BY <1>1 DEF OfUser
<1>9. Alone'
  BY <1>2, <1>4, <1>o, <1>t DEF Alone
<1>10. EntriesBalanced'
  <2>1. OfUser(u)' = {i}
    BY <1>2, <1>4, <1>o DEF OfUser
  <2>2. \A v \in Users : v # u => OfUser(v)' = OfUser(v)
    BY <1>1, <1>2, <1>4, UsersFacts DEF OfUser
  <2>3. ASSUME NEW v \in Users
        PROVE  records'[v] = Cardinality(OfUser(v)') + Count(v)' + Granted(v)'
    <3>1. records[v] = Cardinality(OfUser(v)) + Count(v) + Granted(v)
      BY <1>t DEF EntriesBalanced, Count, Granted
    <3>2. Granted(v) = (IF v = u THEN 1 ELSE 0) /\ Granted(v)' = 0 /\ Count(v)' = Count(v) /\ records'[v] = records[v]
      BY <1>1, <1>6 DEF Granted, Count
    <3>3. Count(v) \in Nat
      BY <1>t, CountType
    <3>4. CASE v = u
      <4>1. Cardinality(OfUser(v)) = 0 /\ Cardinality(OfUser(v)') = 1
        BY <3>4, <2>1, <1>1, FS_EmptySet, FS_Singleton
      <4> QED BY <4>1, <3>1, <3>2, <3>3, <3>4
    <3>5. CASE v # u
      <4>1. OfUser(v)' = OfUser(v)
        BY <2>2, <3>5
      <4>2. OfUser(v) \in SUBSET Items
        BY DEF OfUser
      <4>3. Cardinality(OfUser(v)) \in Nat
        BY <4>2, UsersFacts, FS_Subset, FS_CardinalityType
      <4> QED BY <4>1, <4>3, <3>1, <3>2, <3>3, <3>5
    <3> QED BY <3>4, <3>5
  <2> QED BY <2>3 DEF EntriesBalanced, Count, Granted
<1> QED BY <1>7, <1>8, <1>9, <1>10 DEF Room

\* BindUser ends the answer.
LEMMA BindUserStep ==
  ASSUME Room, BindUser
  PROVE  Room'
<1>t. TypeInv
  BY DEF Room
<1>1. /\ answer.at = "inserted" /\ bind' = [bind EXCEPT ![answer.slot].user = answer.item]
      /\ answer' = Idle /\ UNCHANGED <<live, round, items, store, queue, records, asked>>
  BY DEF BindUser
<1>2. PICK s \in Slots, i \in Items : s = answer.slot /\ i = answer.item
  BY <1>1, <1>t, AnswerFields
<1>3. [bind[s] EXCEPT !.user = i] \in Binds
  BY <1>t, BindFields DEF Binds
<1>4. bind' \in [Slots -> Binds]
  BY <1>1, <1>2, <1>3, <1>t DEF TypeInv
<1>5. TypeInv'
  BY <1>1, <1>4, <1>t DEF TypeInv
<1>6. ASSUME NEW v \in Users
      PROVE  records'[v] - records[v] = (Count(v)' - Count(v)) + (Granted(v)' - Granted(v))
  <2>1. Granted(v)' = 0 /\ Granted(v) = 0 /\ Count(v)' = Count(v) /\ records'[v] = records[v]
    BY <1>1 DEF Granted, Count, Idle
  <2>2. Count(v) \in Nat /\ records[v] \in Int
    BY <1>t, CountType
  <2> QED BY <2>1, <2>2
<1> QED BY <1>1, <1>5, <1>6, StayLemma

\* Games start and end, users are kicked.
LEMMA GameSteps ==
  ASSUME Room, NEW i \in Items, StartGame(i) \/ ConcludeGame(i) \/ KickUser(i)
  PROVE  Room'
<1>1. CASE StartGame(i)
  <2>1. /\ items' = [items EXCEPT ![i].status = "PLAYING"] /\ items[i].status # "NULL"
        /\ UNCHANGED <<live, round, bind, store, queue, answer, records, asked>>
    BY <1>1 DEF StartGame
  <2>2. "PLAYING" \in Statuses
    BY DEF Statuses
  <2> QED BY <2>1, <2>2, StatusStep
<1>2. CASE ConcludeGame(i)
  <2>1. CASE items[i].status = "PLAYING"
    <3>1. /\ items' = [items EXCEPT ![i].status = "SIT"] /\ items[i].status # "NULL"
          /\ UNCHANGED <<live, round, bind, store, queue, answer, records, asked>>
      BY <1>2, <2>1 DEF ConcludeGame
    <3>2. "SIT" \in Statuses
      BY DEF Statuses
    <3> QED BY <3>1, <3>2, StatusStep
  <2>2. CASE items[i].status # "PLAYING"
    <3>1. /\ Logout(i, bind) /\ items[i].status = "OFFLINE"
          /\ UNCHANGED <<live, round, answer, records, asked>>
      BY <1>2, <2>2 DEF ConcludeGame
    <3>2. items[i].user # NoUser
      BY <3>1 DEF Room, Pool
    <3> QED BY <3>1, <3>2, LeaveStep
  <2> QED BY <2>1, <2>2
<1>3. CASE KickUser(i)
  BY <1>3, LeaveStep DEF KickUser, InRoom
<1> QED BY <1>1, <1>2, <1>3

\* ChangePlace touches only the status.
LEMMA ChangePlaceStep ==
  ASSUME Room, NEW s \in Slots, ChangePlace(s)
  PROVE  Room'
<1>t. TypeInv
  BY DEF Room
<1>1. PICK i \in Items : i = bind[s].user
  BY <1>t, BindFields DEF ChangePlace
<1>2. /\ items[i].status \in {"FREE", "SIT"}
      /\ items' = [items EXCEPT ![i].status = IF @ = "FREE" THEN "SIT" ELSE "FREE"]
      /\ UNCHANGED <<live, round, bind, store, queue, answer, records, asked>>
  BY <1>1 DEF ChangePlace
<1>3. PICK x \in {"FREE", "SIT"} : x = IF items[i].status = "FREE" THEN "SIT" ELSE "FREE"
  OBVIOUS
<1>4. items' = [items EXCEPT ![i].status = x]
  BY <1>2, <1>3
<1>5. x \in Statuses
  BY DEF Statuses
<1> QED BY <1>2, <1>4, <1>5, StatusStep

\* The room's part of the invariant.
LEMMA RoomInvariance ==
  ASSUME Room, [Next]_vars
  PROVE  Room'
<1>1. ASSUME NEW s \in Slots, OnEventTCPNetworkBind(s) \/ OnEventTCPNetworkShut(s) \/ ChangePlace(s)
      PROVE  Room'
  BY <1>1, BindStep, ShutStep, ChangePlaceStep
<1>2. ASSUME NEW s \in Slots, NEW u \in Users, NEW p \in BOOLEAN, OnTCPNetworkSubLogonUserID(s, u, p)
      PROVE  Room'
  BY <1>2, LogonStep
<1>3. ASSUME NEW i \in Items, StartGame(i) \/ ConcludeGame(i) \/ KickUser(i) PROVE Room'
  BY <1>3, GameSteps
<1>4. ASSUME NEW u \in Users, OnDBLogonSuccess(u) \/ OnDBLogonFailure(u) \/ OnRequestLeaveGameServer(u)
      PROVE  Room'
  BY <1>4, SuccessStep, FailureStep, LeaveDone
<1>5. CASE AnswerStep
  BY <1>5, RefusedStep, SwitchStep, InsertStep, BindUserStep DEF AnswerStep
<1>6. CASE UNCHANGED vars
  <2>1. TypeInv' /\ UNCHANGED <<store, queue, records, answer>> /\ items' = items
    BY <1>6 DEF Room, TypeInv, vars
  <2>2. \A i \in Items : /\ items'[i].user = items[i].user
                         /\ items[i].status = "NULL" => items'[i].status = "NULL"
    BY <2>1
  <2> QED BY <2>1, <2>2, QuietLemma
<1> QED BY <1>1, <1>2, <1>3, <1>4, <1>5, <1>6 DEF Next, NetworkStep, GameStep, DataBaseStep

\* At the start every item is in the store.
LEMMA RoomInit ==
  ASSUME Init
  PROVE  Room
<1> DEFINE n == Cardinality(Users)
           id == [k \in 1 .. n |-> k]
<1>0. n \in Nat /\ Items = 1 .. n /\ Cardinality(Items) = n
  BY UsersFacts DEF Items
<1> HIDE DEF n
<1>1. id \in [1 .. n -> Items] /\ IsInjective(id)
  BY <1>0 DEF IsInjective
<1> HIDE DEF id
<1>2. store \in [1 .. n -> Items] /\ IsInjective(store)
  BY <1>0, <1>1 DEF Init, SetToSeq
<1>3. store \in Seq(Items) /\ Len(store) = n
  BY <1>0, <1>2
<1>4. store \in Injection(Items, Items)
  BY <1>0, <1>2 DEF Injection
<1>5. store \in Surjection(Items, Items)
  BY <1>4, UsersFacts, FS_Injection
<1>6. /\ \A i \in Items : \E k \in 1 .. Len(store) : store[k] = i
      /\ \A j, k \in 1 .. Len(store) : store[j] = store[k] => j = k
  BY <1>0, <1>2, <1>3, <1>5 DEF Surjection, IsInjective
<1>7. \A i \in Items : items[i] = ResetUserItem
  BY DEF Init
<1>8. ResetUserItem \in UserItems /\ ResetUserItem.user = NoUser /\ ResetUserItem.status = "NULL"
  BY DEF ResetUserItem, UserItems, Statuses
<1>9. Zeroed \in Binds
  BY DEF Zeroed, Binds, None
<1>10. TypeInv
  BY <1>3, <1>8, <1>9 DEF TypeInv, Init
<1>11. Pool /\ Alone
  BY <1>6, <1>7, <1>8 DEF Pool, Alone
<1>12. EntriesBalanced
  <2>1. ASSUME NEW u \in Users PROVE OfUser(u) = {} /\ Leaves(queue[u]) = {} /\ records[u] = 0
    <3>1. OfUser(u) = {}
      BY <1>7, <1>8, UsersFacts DEF OfUser
    <3>2. queue[u] = <<>> /\ records[u] = 0
      BY DEF Init
    <3>3. Leaves(queue[u]) = {}
      BY <3>2 DEF Leaves
    <3> QED BY <3>1, <3>2, <3>3
  <2>2. answer.at # "checked"
    BY DEF Init, Idle
  <2> QED BY <2>1, <2>2, FS_EmptySet DEF EntriesBalanced
<1> QED BY <1>10, <1>11, <1>12 DEF Room

\* The account of the entries is an invariant, with or without overlap.
LEMMA RoomInductive == Spec => []Room
<1>1. Init => Room
  BY RoomInit
<1>2. Room /\ [Next]_vars => Room'
  BY RoomInvariance
<1> QED BY <1>1, <1>2, PTL DEF Spec

\* Every entry that the database has granted and not closed belongs to one item,
\* to the answer under way or to one leave request, however the threads of the
\* server interleave.
THEOREM EntriesTheorem == Spec => []EntriesBalanced
<1>1. Room => EntriesBalanced
  BY DEF Room
<1> QED BY <1>1, RoomInductive, PTL

-----------------------------------------------------------------------------
(* Slots and items, as long as no other thread meets an answer.            *)

\* A slot has the socket ID of its connection, and none between two.
Sockets ==
  \A s \in Slots : IF live[s] THEN bind[s].sock = round[s] /\ round[s] > 0 ELSE bind[s].sock = None

\* A logon request whose socket ID is that of the present connection of the slot
\* was sent by this connection.
Good(u, r) ==
  r.kind = "LOGON" =>
    /\ r.sock > 0 /\ r.sock <= round[r.slot]
    /\ r.sock = round[r.slot] /\ live[r.slot] => u \in asked[r.slot]

Waiting == \A u \in Users : \A k \in 1 .. Len(queue[u]) : Good(u, queue[u][k])

\* The item that InsertUserItem has inserted and BindUser has not bound.
Pending == IF answer.at = "inserted" THEN {answer.item} ELSE {}

Source ==
  \A i \in Items \ Pending :
    items[i].user # NoUser /\ items[i].bind # NoSlot => bind[items[i].bind].user = i

Own ==
  \A s \in Slots : bind[s].user # None =>
    live[s] /\ items[bind[s].user].bind = s /\ items[bind[s].user].user \in asked[s]

\* What OnDBLogonSuccess has found holds until it writes.
Checked ==
  answer.at = "checked" =>
    live[answer.slot] /\ bind[answer.slot].user = None /\ answer.user \in asked[answer.slot]

Inserted ==
  answer.at = "inserted" =>
    /\ live[answer.slot] /\ bind[answer.slot].user = None
    /\ items[answer.item].bind = answer.slot /\ items[answer.item].user \in asked[answer.slot]
    /\ items[answer.item].status = "FREE"

Links == Sockets /\ Source /\ Own /\ Checked /\ Inserted
Sess == Room /\ Waiting /\ Links

\* Between two answers nothing is pending.
LEMMA IdleLemma ==
  ASSUME answer = Idle
  PROVE  Pending = {} /\ Checked /\ Inserted /\ answer.at # "inserted"
BY DEF Idle, Pending, Checked, Inserted

\* The waiting requests stay good while connections only end or ask for more.
LEMMA WaitingLemma ==
  ASSUME TypeInv, TypeInv', Waiting, NoNewLogon, UNCHANGED round,
         \A s \in Slots : live'[s] => live[s] /\ asked[s] \subseteq asked'[s]
  PROVE  Waiting'
<1>1. ASSUME NEW u \in Users, NEW r \in DBRequests, Good(u, r) PROVE Good(u, r)'
  <2>1. r.kind = "LOGON" => r.slot \in Slots
    BY DEF DBRequests, Logons, LeaveRequest
  <2> QED BY <2>1, <1>1 DEF Good
<1>2. ASSUME NEW u \in Users, NEW k \in 1 .. Len(queue'[u]) PROVE Good(u, queue[u][k])'
  <2>1. queue[u] \in Seq(DBRequests) /\ queue'[u] \in Seq(DBRequests)
    BY DEF TypeInv
  <2>2. CASE queue'[u][k].kind = "LEAVE"
    BY <2>2 DEF Good
  <2>3. CASE \E m \in 1 .. Len(queue[u]) : queue'[u][k] = queue[u][m]
    <3>1. PICK m \in 1 .. Len(queue[u]) : queue'[u][k] = queue[u][m]
      BY <2>3
    <3>2. PICK r \in DBRequests : r = queue[u][m]
      BY <2>1
    <3>3. Good(u, r)
      BY <3>2 DEF Waiting
    <3>4. Good(u, r)'
      BY <3>3, <1>1
    <3>5. r = queue'[u][k]
      BY <3>1, <3>2
    <3> QED BY <3>4, <3>5 DEF Good
  <2> QED BY <2>2, <2>3 DEF NoNewLogon
<1> QED BY <1>2 DEF Waiting

\* The slot of an answer under way.
LEMMA SlotOfAnswer ==
  ASSUME TypeInv, answer.at \in {"checked", "inserted"}
  PROVE  answer.slot \in Slots
<1>1. answer \in Checks \cup Inserts
  BY DEF TypeInv, Idle
<1> QED BY <1>1 DEF Checks, Inserts

\* A new connection on a slot: requests of earlier ones no longer match it.
LEMMA BindLinks ==
  ASSUME Sess, Room', NEW s \in Slots, OnEventTCPNetworkBind(s)
  PROVE  Sess'
<1>t. TypeInv /\ TypeInv' /\ Waiting /\ Sockets /\ Source /\ Own /\ Checked /\ Inserted
  BY DEF Sess, Links, Room
<1>1. /\ ~live[s]
      /\ live' = [live EXCEPT ![s] = TRUE] /\ round' = [round EXCEPT ![s] = @ + 1]
      /\ bind' = [bind EXCEPT ![s].sock = round[s] + 1] /\ asked' = [asked EXCEPT ![s] = {}]
      /\ UNCHANGED <<items, queue, answer>>
  BY DEF OnEventTCPNetworkBind
<1>2. bind[s].user = None /\ round[s] \in Nat /\ bind[s] \in Binds
  BY <1>1, <1>t, BindFields DEF Own, TypeInv
<1>3. /\ bind'[s].sock = round[s] + 1 /\ bind'[s].user = None
      /\ live'[s] = TRUE /\ round'[s] = round[s] + 1 /\ asked'[s] = {}
      /\ \A t \in Slots : t # s => /\ bind'[t] = bind[t] /\ live'[t] = live[t] /\ round'[t] = round[t]
                                   /\ asked'[t] = asked[t]
  BY <1>1, <1>2, <1>t DEF TypeInv, Binds
<1>4. Sockets'
  BY <1>2, <1>3, <1>t DEF Sockets
<1>5. Pending' = Pending /\ Checked' /\ Inserted'
  <2>1. answer.at \in {"checked", "inserted"} => live[answer.slot] /\ answer.slot \in Slots
    BY <1>t, SlotOfAnswer DEF Checked, Inserted
  <2>2. answer.at \in {"checked", "inserted"} => answer.slot # s
    BY <2>1, <1>1
  <2> QED BY <2>1, <2>2, <1>1, <1>3, <1>t DEF Pending, Checked, Inserted
<1>6. Source'
  <2>1. ASSUME NEW i \in Items \ Pending, items'[i].user # NoUser, items'[i].bind # NoSlot
        PROVE  bind'[items'[i].bind].user = i
    <3>1. bind[items[i].bind].user = i /\ items[i].bind \in Slots
      BY <2>1, <1>1, <1>5, <1>t, ItemFields DEF Source
    <3> QED BY <3>1, <1>1, <1>2, <1>3, UsersFacts
  <2> QED BY <2>1, <1>5 DEF Source
<1>7. Own'
  BY <1>1, <1>3, <1>t DEF Own
<1>8. ASSUME NEW u \in Users, NEW k \in 1 .. Len(queue[u]) PROVE Good(u, queue[u][k])'
  <2>1. Good(u, queue[u][k]) /\ queue[u][k] \in DBRequests
    BY <1>t DEF Waiting, TypeInv
  <2>2. PICK r \in DBRequests : r = queue[u][k] /\ Good(u, r)
    BY <2>1
  <2>3. r.kind = "LOGON" => r.slot \in Slots /\ r.sock \in Nat
    BY DEF DBRequests, Logons, LeaveRequest
  <2>4. \A t \in Slots : round[t] \in Nat
    BY <1>t DEF TypeInv
  <2>5. Good(u, r)'
    BY <2>2, <2>3, <2>4, <1>3 DEF Good
  <2>6. r = queue'[u][k]
    BY <2>2, <1>1
  <2> QED BY <2>2, <2>5, <2>6, <1>1 DEF Good
<1>9. Waiting'
  BY <1>1, <1>8 DEF Waiting, Good
<1> QED BY <1>4, <1>5, <1>6, <1>7, <1>9 DEF Sess, Links

\* The user i of slot s is detached or gone, and the slot forgets it; no other item
\* and no other slot changes.
LEMMA DetachLemma ==
  ASSUME TypeInv, Source, Own, Pending' = Pending, NEW i \in Items,
         \A j \in Items : j # i => items'[j] = items[j],
         items'[i].user = NoUser \/ items'[i].bind = NoSlot,
         \A t \in Slots : /\ bind'[t].user # None => bind'[t] = bind[t] /\ bind[t].user # i
                          /\ bind[t].user \notin {i, None} => bind'[t] = bind[t],
         \A t \in Slots : bind'[t].user # None => live'[t] = live[t] /\ asked'[t] = asked[t]
  PROVE  Source' /\ Own'
<1>1. ASSUME NEW j \in Items \ Pending, items'[j].user # NoUser, items'[j].bind # NoSlot
      PROVE  bind'[items'[j].bind].user = j
  <2>1. j # i /\ items'[j] = items[j]
    BY <1>1
  <2>2. bind[items[j].bind].user = j /\ items[j].bind \in Slots
    BY <1>1, <2>1, ItemFields DEF Source
  <2>3. bind'[items[j].bind] = bind[items[j].bind]
    BY <2>1, <2>2, UsersFacts
  <2> QED BY <2>1, <2>2, <2>3
<1>2. ASSUME NEW t \in Slots, bind'[t].user # None
      PROVE  live'[t] /\ items'[bind'[t].user].bind = t /\ items'[bind'[t].user].user \in asked'[t]
  <2>1. bind'[t] = bind[t] /\ bind[t].user # i /\ bind[t].user \in Items /\ live'[t] = live[t] /\ asked'[t] = asked[t]
    BY <1>2, BindFields
  <2>2. live[t] /\ items[bind[t].user].bind = t /\ items[bind[t].user].user \in asked[t]
    BY <1>2, <2>1 DEF Own
  <2> QED BY <2>1, <2>2
<1> QED BY <1>1, <1>2 DEF Source, Own

\* The connection of a slot ends: its user is detached or leaves.
LEMMA ShutLinks ==
  ASSUME Sess, Room', ~raced', NEW s \in Slots, OnEventTCPNetworkShut(s)
  PROVE  Sess'
<1> DEFINE cleared == [bind EXCEPT ![s] = Zeroed]
<1>t. TypeInv /\ TypeInv' /\ Pool /\ Waiting /\ Sockets /\ Source /\ Own /\ Checked /\ Inserted
  BY DEF Sess, Links, Room
<1>1. /\ live' = [live EXCEPT ![s] = FALSE] /\ asked' = [asked EXCEPT ![s] = {}]
      /\ UNCHANGED <<round, answer>>
      /\ IF bind[s].user = None
           THEN bind' = cleared /\ UNCHANGED <<items, store, queue>>
           ELSE ShutUser(bind[s].user, cleared)
  BY DEF OnEventTCPNetworkShut
<1>2. /\ cleared[s] = Zeroed /\ DOMAIN cleared = Slots
      /\ \A t \in Slots : t # s => cleared[t] = bind[t]
      /\ live'[s] = FALSE /\ asked'[s] = {}
      /\ \A t \in Slots : t # s => live'[t] = live[t] /\ asked'[t] = asked[t]
  BY <1>1, <1>t DEF TypeInv
<1>z. Zeroed.user = None /\ Zeroed.sock = None
  BY DEF Zeroed
<1> HIDE DEF cleared
<1>5. Pending' = Pending
  BY <1>1 DEF Pending
<1>6. answer.at \in {"checked", "inserted"} => answer.slot \in Slots \ {s}
  <2>1. ~Meets(s, None)
    BY DEF OnEventTCPNetworkShut, Met
  <2>2. answer.at \in {"checked", "inserted"} => answer # Idle
    BY DEF Idle
  <2> QED BY <2>1, <2>2, <1>t, SlotOfAnswer DEF Meets
<1>3. CASE bind[s].user = None
  <2>1. bind' = cleared /\ UNCHANGED <<items, store, queue>>
    BY <1>1, <1>3
  <2>2. Sockets'
    BY <2>1, <1>2, <1>z, <1>1, <1>t DEF Sockets
  <2>3. Source'
    <3>1. ASSUME NEW j \in Items \ Pending, items[j].user # NoUser, items[j].bind # NoSlot
          PROVE  bind'[items[j].bind].user = j
      <4>1. bind[items[j].bind].user = j /\ items[j].bind \in Slots
        BY <3>1, <1>5, <1>t, ItemFields DEF Source
      <4> QED BY <4>1, <2>1, <1>2, <1>3, UsersFacts
    <3> QED BY <3>1, <2>1, <1>5 DEF Source
  <2>4. Own'
    BY <2>1, <1>2, <1>z, <1>t DEF Own
  <2>5. NoNewLogon
    BY <2>1 DEF NoNewLogon
  <2>6. Waiting'
    BY <2>5, <1>1, <1>2, <1>t, WaitingLemma
  <2>7. Checked' /\ Inserted'
    BY <2>1, <1>1, <1>2, <1>6, <1>t DEF Checked, Inserted
  <2> QED BY <2>2, <2>3, <2>4, <2>6, <2>7 DEF Sess, Links
<1>4. CASE bind[s].user # None
  <2>1. PICK i \in Items : i = bind[s].user
    BY <1>4, <1>t, BindFields
  <2>2. items[i].bind = s /\ items[i].user \in asked[s]
    BY <2>1, <1>4, <1>t DEF Own
  <2>3. items[i].user \in Users /\ items[i].user # NoUser
    BY <2>2, <1>t, UsersFacts DEF TypeInv
  <2>s. ShutUser(i, cleared)
    BY <1>1, <1>4, <2>1
  <2>4. /\ bind' = cleared
        /\ \A j \in Items : j # i => items'[j] = items[j]
        /\ items'[i].user = NoUser \/ items'[i].bind = NoSlot
        /\ NoNewLogon
    <3>1. CASE items[i].status = "PLAYING"
      <4>1. bind' = cleared /\ UNCHANGED <<store, queue>>
            /\ items' = [items EXCEPT ![i] = [@ EXCEPT !.bind = NoSlot, !.status = "OFFLINE"]]
        BY <2>s, <2>3, <3>1 DEF ShutUser
      <4>2. items'[i].bind = NoSlot /\ \A j \in Items : j # i => items'[j] = items[j]
        BY <4>1, <1>t, ItemFields DEF TypeInv, UserItems
      <4> QED BY <4>1, <4>2 DEF NoNewLogon
    <3>2. CASE items[i].status # "PLAYING"
      <4>1. Logout(i, cleared)
        BY <2>s, <2>3, <3>2 DEF ShutUser
      <4>2. PICK u \in Users : u = items[i].user
        BY <2>3
      <4>3. Post(u, LeaveRequest) /\ items' = [items EXCEPT ![i] = ResetUserItem]
        BY <4>1, <4>2 DEF Logout
      <4>4. bind' = [t \in Slots |-> IF t = s /\ cleared[t].user = i
                                   THEN [cleared[t] EXCEPT !.user = None] ELSE cleared[t]]
        BY <4>1, <2>2 DEF Logout
      <4>5. bind' = [t \in Slots |-> cleared[t]]
        BY <4>4, <1>2, <1>z, UsersFacts
      <4>6. bind' = cleared
        BY <4>5, <1>2, <1>t DEF TypeInv, cleared
      <4>7. items'[i].user = NoUser /\ \A j \in Items : j # i => items'[j] = items[j]
        BY <4>3, <1>t DEF TypeInv, ResetUserItem
      <4>8. NoNewLogon
        BY <4>3, <1>t, PostLeave
      <4> QED BY <4>6, <4>7, <4>8
    <3> QED BY <3>1, <3>2
  <2>5. Sockets'
    BY <2>4, <1>2, <1>z, <1>1, <1>t DEF Sockets
  <2>6. ASSUME NEW t \in Slots
        PROVE  /\ bind'[t].user # None => bind'[t] = bind[t] /\ bind[t].user # i
               /\ bind[t].user \notin {i, None} => bind'[t] = bind[t]
               /\ bind'[t].user # None => live'[t] = live[t] /\ asked'[t] = asked[t]
    <3>1. t # s /\ bind[t].user # None => bind[t].user # i
      BY <2>2, <1>t DEF Own
    <3> QED BY <3>1, <2>1, <2>4, <1>2, <1>z
  <2>7. Source' /\ Own'
    BY <2>4, <2>6, <1>5, <1>t, DetachLemma
  <2>8. Waiting'
    BY <2>4, <1>1, <1>2, <1>t, WaitingLemma
  <2>9. answer.at = "inserted" => answer.item \in Items \ {i}
    BY <2>2, <1>6, <1>t, AnswerFields DEF Inserted
  <2>10. Checked' /\ Inserted'
    BY <2>4, <2>9, <1>1, <1>2, <1>6, <1>t DEF Checked, Inserted
  <2> QED BY <2>5, <2>7, <2>8, <2>10 DEF Sess, Links
<1> QED BY <1>3, <1>4

\* A user who is in the room moves to the slot s, which has a connection that asked
\* for this user.
LEMMA SwitchLinks ==
  ASSUME Room, Sockets, Source, Own, NEW i \in Items, i \notin Pending, NEW s \in Slots,
         SwitchUserItemConnect(i, s), items[i].user # NoUser, live[s], bind[s].user = None,
         UNCHANGED <<live, round>>, \A t \in Slots : asked[t] \subseteq asked'[t],
         items[i].user \in asked'[s], Pending' = Pending
  PROVE  /\ Sockets' /\ Source' /\ Own'
         /\ \A j \in Items : j # i => items'[j] = items[j]
         /\ \A t \in Slots : t # s /\ bind[t].user = None => bind'[t].user = None
<1>t. TypeInv /\ Pool
  BY DEF Room
<1>1. /\ \A j \in Items : j # i => items'[j] = items[j]
      /\ items'[i].user = items[i].user /\ items'[i].bind = s
      /\ bind'[s] = [bind[s] EXCEPT !.user = i]
      /\ \A t \in Slots : t # s =>
           \/ t = items[i].bind /\ bind[t].user = i /\ bind'[t] = [bind[t] EXCEPT !.user = None]
           \/ ~(t = items[i].bind /\ bind[t].user = i) /\ bind'[t] = bind[t]
  BY <1>t, SwitchLemma, SMTT(60)
<1>2. \A t \in Slots : bind[t] \in Binds
  BY <1>t DEF TypeInv
<1>3. bind'[s].user = i /\ bind'[s].sock = bind[s].sock
  BY <1>1, <1>2 DEF Binds
<1>4. ASSUME NEW t \in Slots, t # s
      PROVE  /\ bind'[t].sock = bind[t].sock
             /\ bind'[t].user # None => bind'[t] = bind[t] /\ bind[t].user # i
             /\ bind[t].user \notin {i, None} => bind'[t] = bind[t]
             /\ bind[t].user = None => bind'[t].user = None
  <2>1. bind[t].user = i => items[i].bind = t
    BY <1>t, UsersFacts DEF Own
  <2>2. [bind[t] EXCEPT !.user = None].user = None /\ [bind[t] EXCEPT !.user = None].sock = bind[t].sock
    BY <1>2 DEF Binds
  <2> QED BY <2>1, <2>2, <1>1, <1>4
<1>5. Sockets'
  BY <1>3, <1>4 DEF Sockets
<1>6. Pending' = Pending
  OBVIOUS
<1>7. Source'
  <2>1. ASSUME NEW j \in Items \ Pending, items'[j].user # NoUser, items'[j].bind # NoSlot
        PROVE  bind'[items'[j].bind].user = j
    <3>1. CASE j = i
      BY <3>1, <1>1, <1>3
    <3>2. CASE j # i
      <4>1. items'[j] = items[j] /\ bind[items[j].bind].user = j /\ items[j].bind \in Slots
        BY <3>2, <2>1, <1>1, <1>t, ItemFields DEF Source
      <4>2. items[j].bind # s
        BY <4>1, UsersFacts
      <4>3. bind'[items[j].bind] = bind[items[j].bind]
        BY <4>1, <4>2, <3>2, <1>4, UsersFacts
      <4> QED BY <4>1, <4>3
    <3> QED BY <3>1, <3>2
  <2> QED BY <2>1, <1>6 DEF Source
<1>8. Own'
  <2>1. ASSUME NEW t \in Slots, bind'[t].user # None
        PROVE  live'[t] /\ items'[bind'[t].user].bind = t /\ items'[bind'[t].user].user \in asked'[t]
    <3>1. CASE t = s
      BY <3>1, <1>1, <1>3
    <3>2. CASE t # s
      <4>1. bind'[t] = bind[t] /\ bind[t].user # i /\ bind[t].user # None
        BY <3>2, <2>1, <1>4
      <4>2. bind[t].user \in Items
        BY <4>1, <1>t, BindFields
      <4>3. live[t] /\ items[bind[t].user].bind = t /\ items[bind[t].user].user \in asked[t]
        BY <4>1 DEF Own
      <4> QED BY <4>1, <4>2, <4>3, <1>1
    <3> QED BY <3>1, <3>2
  <2> QED BY <2>1 DEF Own
<1> QED BY <1>1, <1>4, <1>5, <1>7, <1>8

\* A logon moves the user over, or its request waits with the socket ID of the slot.
LEMMA LogonLinks ==
  ASSUME Sess, Room', ~raced', NEW s \in Slots, NEW u \in Users, NEW p \in BOOLEAN,
         OnTCPNetworkSubLogonUserID(s, u, p)
  PROVE  Sess'
<1>t. Room /\ TypeInv /\ TypeInv' /\ Pool /\ Waiting /\ Sockets /\ Source /\ Own /\ Checked /\ Inserted
  BY DEF Sess, Links, Room
<1>1. /\ live[s] /\ bind[s].user = None
      /\ asked' = [asked EXCEPT ![s] = @ \union {u}] /\ UNCHANGED <<live, round, answer>>
  BY DEF OnTCPNetworkSubLogonUserID
<1>2. u \in asked'[s] /\ \A t \in Slots : asked[t] \subseteq asked'[t]
  BY <1>1, <1>t DEF TypeInv
<1>5. Pending' = Pending
  BY <1>1 DEF Pending
<1>6. answer.at \in {"checked", "inserted"} => answer # Idle /\ answer.slot \in Slots
  BY <1>t, SlotOfAnswer DEF Idle
<1>3. ASSUME NEW i \in OfUser(u), SwitchUserItemConnect(i, s), Met(s, i), UNCHANGED queue PROVE Sess'
  <2>1. i \in Items /\ items[i].user = u /\ items[i].user # NoUser
    BY UsersFacts DEF OfUser
  <2>2. i \notin Pending /\ (answer.at \in {"checked", "inserted"} => answer.slot # s)
    BY <1>3, <1>6 DEF Met, Meets, Pending
  <2>3. /\ Sockets' /\ Source' /\ Own'
        /\ \A j \in Items : j # i => items'[j] = items[j]
        /\ \A t \in Slots : t # s /\ bind[t].user = None => bind'[t].user = None
    BY <2>1, <2>2, <1>1, <1>2, <1>3, <1>5, <1>t, SwitchLinks
  <2>4. NoNewLogon
    BY <1>3 DEF NoNewLogon
  <2>5. Waiting'
    BY <2>4, <1>1, <1>2, <1>t, WaitingLemma
  <2>7. Checked'
    BY <2>2, <2>3, <1>1, <1>2, <1>6, <1>t DEF Checked
  <2>8. answer.at = "inserted" => answer.item \in Items \ {i}
    BY <2>2, <1>t, AnswerFields DEF Pending
  <2>9. Inserted'
    BY <2>2, <2>3, <2>8, <1>1, <1>2, <1>6, <1>t DEF Inserted
  <2> QED BY <2>3, <2>5, <2>7, <2>9 DEF Sess, Links
<1>4. CASE Post(u, LogonRequest(s)) /\ UNCHANGED <<bind, items, store>>
  <2>1. Sockets' /\ Source'
    BY <1>1, <1>4, <1>5, <1>t DEF Sockets, Source
  <2>2. Own'
    BY <1>1, <1>2, <1>4, <1>t DEF Own
  <2>r. PICK r \in DBRequests : r = LogonRequest(s)
    BY <1>t, LogonType
  <2>3. r.kind = "LOGON" /\ r.slot = s /\ r.sock = round[s] /\ round[s] > 0
    BY <2>r, <1>1, <1>t, LogonType DEF Sockets
  <2>4. Good(u, r)'
    <3>1. round'[s] = round[s] /\ round[s] \in Nat
      BY <1>1, <1>t DEF TypeInv
    <3> QED BY <3>1, <2>3, <1>2 DEF Good
  <2>5. /\ queue'[u] = Append(queue[u], r) /\ \A v \in Users : v # u => queue'[v] = queue[v]
    BY <2>r, <1>4, <1>t, PostLemma
  <2>6. ASSUME NEW v \in Users, NEW k \in 1 .. Len(queue'[v]) PROVE Good(v, queue[v][k])'
    <3>0. queue[v] \in Seq(DBRequests) /\ Len(queue[v]) \in Nat
      BY <1>t DEF TypeInv
    <3>1. \/ k \in 1 .. Len(queue[v]) /\ queue'[v][k] = queue[v][k]
          \/ v = u /\ queue'[v][k] = r
      <4>1. CASE v = u
        BY <4>1, <3>0, <2>5
      <4>2. CASE v # u
        BY <4>2, <2>5
      <4> QED BY <4>1, <4>2
    <3>2. CASE k \in 1 .. Len(queue[v]) /\ queue'[v][k] = queue[v][k]
      <4>1. PICK x \in DBRequests : x = queue[v][k]
        BY <3>0, <3>2
      <4>2. Good(v, x)
        BY <4>1, <3>2, <1>t DEF Waiting
      <4>3. x.kind = "LOGON" => x.slot \in Slots
        BY DEF DBRequests, Logons, LeaveRequest
      <4>4. Good(v, x)'
        BY <4>2, <4>3, <1>1, <1>2 DEF Good
      <4>5. x = queue'[v][k]
        BY <4>1, <3>2
      <4> QED BY <4>4, <4>5 DEF Good
    <3>3. CASE v = u /\ queue'[v][k] = r
      BY <3>3, <2>4 DEF Good
    <3> QED BY <3>1, <3>2, <3>3
  <2>7. Waiting'
    BY <2>6 DEF Waiting
  <2>8. Checked' /\ Inserted'
    BY <1>1, <1>2, <1>4, <1>6, <1>t DEF Checked, Inserted
  <2> QED BY <2>1, <2>2, <2>7, <2>8 DEF Sess, Links
<1> QED BY <1>3, <1>4 DEF OnTCPNetworkSubLogonUserID

\* A step that changes only the status of an item, or nothing.
LEMMA StatusLinks ==
  ASSUME Sess, Room', UNCHANGED <<live, round, bind, queue, answer, asked>>,
         \A i \in Items : items'[i].user = items[i].user /\ items'[i].bind = items[i].bind,
         \A i \in Pending : items'[i] = items[i]
  PROVE  Sess'
<1>t. TypeInv /\ TypeInv' /\ Waiting /\ Sockets /\ Source /\ Own /\ Checked /\ Inserted
  BY DEF Sess, Links, Room
<1>1. Sockets' /\ Checked'
  BY <1>t DEF Sockets, Checked
<1>2. Pending' = Pending
  BY DEF Pending
<1>3. Source'
  BY <1>2, <1>t DEF Source
<1>4. Own'
  <2>1. \A s \in Slots : bind[s].user # None => bind[s].user \in Items
    BY <1>t, BindFields
  <2> QED BY <2>1, <1>t DEF Own
<1>5. Inserted'
  BY <1>t, AnswerFields DEF Inserted, Pending
<1>6. NoNewLogon
  BY DEF NoNewLogon
<1>7. Waiting'
  BY <1>6, <1>t, WaitingLemma
<1> QED BY <1>1, <1>3, <1>4, <1>5, <1>7 DEF Sess, Links

\* A user leaves.
LEMMA LogoutLinks ==
  ASSUME Sess, Room', NEW i \in Items \ Pending, items[i].user # NoUser, Logout(i, bind),
         UNCHANGED <<live, round, answer, asked>>
  PROVE  Sess'
<1>t. TypeInv /\ TypeInv' /\ Waiting /\ Sockets /\ Source /\ Own /\ Checked /\ Inserted
  BY DEF Sess, Links, Room
<1>1. PICK u \in Users : u = items[i].user
  BY <1>t, ItemFields
<1>2. /\ Post(u, LeaveRequest) /\ items' = [items EXCEPT ![i] = ResetUserItem]
      /\ bind' = [t \in Slots |-> IF t = items[i].bind /\ bind[t].user = i
                                   THEN [bind[t] EXCEPT !.user = None] ELSE bind[t]]
  BY <1>1 DEF Logout
<1>3. items'[i].user = NoUser /\ \A j \in Items : j # i => items'[j] = items[j]
  BY <1>2, <1>t DEF TypeInv, ResetUserItem
<1>4. ASSUME NEW t \in Slots
      PROVE  /\ bind'[t].sock = bind[t].sock
             /\ bind'[t].user # None => bind'[t] = bind[t] /\ bind[t].user # i
             /\ bind[t].user \notin {i, None} => bind'[t] = bind[t]
  <2>1. bind[t].user = i => items[i].bind = t
    BY <1>t, UsersFacts DEF Own
  <2>2. [bind[t] EXCEPT !.user = None].user = None /\ [bind[t] EXCEPT !.user = None].sock = bind[t].sock
    BY <1>t, BindFields DEF Binds
  <2> QED BY <2>1, <2>2, <1>2
<1>5. Sockets'
  BY <1>4, <1>t DEF Sockets
<1>6. Pending' = Pending
  BY DEF Pending
<1>9. answer.at \in {"checked", "inserted"} =>
        answer.slot \in Slots /\ (bind[answer.slot].user = None => bind'[answer.slot].user = None)
  BY <1>4, <1>t, SlotOfAnswer
<1>10. Checked'
  BY <1>9, <1>t DEF Checked
<1>11. answer.at = "inserted" => answer.item \in Items \ {i}
  BY <1>t, AnswerFields DEF Pending
<1>12. Inserted'
  BY <1>3, <1>9, <1>11, <1>t DEF Inserted
<1>7. Source' /\ Own'
  BY <1>3, <1>4, <1>6, <1>t, DetachLemma
<1>8. Waiting'
  BY <1>2, <1>t, PostLeave, WaitingLemma
<1> QED BY <1>5, <1>7, <1>8, <1>10, <1>12 DEF Sess, Links

\* A step of the database thread that changes neither slots nor items and after
\* which no answer is under way.
LEMMA AnswerDone ==
  ASSUME Sess, Room', NoNewLogon, UNCHANGED <<live, round, bind, items, asked>>,
         answer.at # "inserted", answer' = Idle
  PROVE  Sess'
<1>t. TypeInv /\ TypeInv' /\ Waiting /\ Sockets /\ Source /\ Own
  BY DEF Sess, Links, Room
<1>1. Pending = {} /\ Pending' = {} /\ Checked' /\ Inserted'
  BY DEF Pending, Checked, Inserted, Idle
<1>2. Sockets' /\ Source' /\ Own'
  BY <1>1, <1>t DEF Sockets, Source, Own
<1>3. Waiting'
  BY <1>t, WaitingLemma
<1> QED BY <1>1, <1>2, <1>3 DEF Sess, Links

\* An answer that is not stale belongs to the present connection of its slot.
LEMMA SuccessLinks ==
  ASSUME Sess, Room', NEW u \in Users, OnDBLogonSuccess(u)
  PROVE  Sess'
<1> DEFINE r == Head(queue[u])
           stale == bind[r.slot].user # None \/ bind[r.slot].sock # r.sock
<1>t. Room /\ TypeInv /\ TypeInv' /\ Waiting /\ Sockets /\ Source /\ Own
  BY DEF Sess, Links, Room
<1>1. /\ answer = Idle /\ queue[u] # <<>> /\ r.kind = "LOGON"
      /\ UNCHANGED <<live, round, bind, items, asked>>
      /\ stale => answer' = answer
      /\ ~stale => answer' = [at |-> "checked", user |-> u, slot |-> r.slot]
  BY DEF OnDBLogonSuccess, TakeRequest
<1>2. NoNewLogon
  BY <1>t, SuccessStep
<1>3. CASE stale
  <2>1. answer.at # "inserted" /\ answer' = Idle
    BY <1>1, <1>3, IdleLemma
  <2> QED BY <2>1, <1>1, <1>2, AnswerDone
<1>4. CASE ~stale
  <2>1. /\ answer'.at = "checked" /\ answer'.user = u /\ answer'.slot = r.slot
    BY <1>1, <1>4
  <2>2. r \in DBRequests /\ Good(u, r)
    <3>1. queue[u] \in Seq(DBRequests) /\ 1 \in 1 .. Len(queue[u]) /\ r = queue[u][1]
      BY <1>1, <1>t DEF TypeInv
    <3>2. Good(u, queue[u][1])
      BY <3>1, <1>t DEF Waiting
    <3> HIDE DEF r
    <3>3. r \in DBRequests
      BY <3>1
    <3> QED BY <3>1, <3>2, <3>3
  <2>3. r.slot \in Slots /\ bind[r.slot].user = None /\ bind[r.slot].sock = r.sock /\ r.sock > 0 /\ r.sock \in Nat
    BY <2>2, <1>1, <1>4 DEF Good, DBRequests, Logons, LeaveRequest
  <2> HIDE DEF r
  <2>4. live[r.slot] /\ r.sock = round[r.slot]
    BY <2>3, <1>t DEF Sockets, None
  <2>5. u \in asked[r.slot]
    BY <2>2, <2>4, <1>1 DEF Good
  <2>6. Checked'
    BY <2>1, <2>3, <2>4, <2>5, <1>1 DEF Checked
  <2>7. Pending = {} /\ Pending' = {} /\ Inserted'
    BY <2>1, <1>1, IdleLemma DEF Pending, Inserted
  <2>8. Sockets' /\ Source' /\ Own'
    BY <2>7, <1>1, <1>t DEF Sockets, Source, Own
  <2>9. Waiting'
    BY <1>1, <1>2, <1>t, WaitingLemma
  <2> QED BY <2>6, <2>7, <2>8, <2>9 DEF Sess, Links
<1> QED BY <1>3, <1>4

\* The answer moves the session to the new connection.
LEMMA AnswerSwitchLinks ==
  ASSUME Sess, Room', AnswerSwitches
  PROVE  Sess'
<1>t. Room /\ TypeInv /\ TypeInv' /\ Pool /\ Waiting /\ Sockets /\ Source /\ Own /\ Checked
  BY DEF Sess, Links, Room
<1>1. answer.at = "checked" /\ UNCHANGED <<live, round, asked>>
  BY DEF AnswerSwitches
<1>2. NoNewLogon /\ answer' = Idle
  BY <1>t, SwitchStep
<1>3. PICK u \in Users, s \in Slots : u = answer.user /\ s = answer.slot
  BY <1>1, <1>t, AnswerFields
<1>4. PICK i \in OfUser(u) : SwitchUserItemConnect(i, s)
  BY <1>3 DEF AnswerSwitches
<1>5. i \in Items /\ items[i].user = u /\ items[i].user # NoUser
  BY UsersFacts DEF OfUser
<1>6. live[s] /\ bind[s].user = None /\ u \in asked[s] /\ asked' = asked
  BY <1>1, <1>3, <1>t DEF Checked
<1>7. Pending = {}
  BY <1>1 DEF Pending
<1>8. \A t \in Slots : asked[t] \subseteq asked'[t]
  BY <1>6
<1>9. items[i].user \in asked'[s]
  BY <1>5, <1>6
<1>10. Pending' = Pending /\ Checked' /\ Inserted'
  BY <1>2, <1>7 DEF Pending, Checked, Inserted, Idle
<1>12. Sockets' /\ Source' /\ Own'
  BY <1>1, <1>4, <1>5, <1>6, <1>7, <1>8, <1>9, <1>10, <1>t, SwitchLinks
<1>11. Waiting'
  BY <1>1, <1>2, <1>8, <1>t, WaitingLemma
<1> QED BY <1>10, <1>11, <1>12 DEF Sess, Links

\* The new item names the slot, which does not know it yet.
LEMMA InsertLinks ==
  ASSUME Sess, Room', InsertUserItem
  PROVE  Sess'
<1>t. Room /\ TypeInv /\ TypeInv' /\ Waiting /\ Sockets /\ Source /\ Own /\ Checked
  BY DEF Sess, Links, Room
<1>1. PICK i \in Items, u \in Users, s \in Slots :
           /\ u = answer.user /\ s = answer.slot /\ answer.at = "checked" /\ OfUser(u) = {}
           /\ store # <<>> /\ i = store[Len(store)] /\ items[i].user = NoUser
           /\ items' = [items EXCEPT ![i] = [user |-> u, bind |-> s, status |-> "FREE"]]
           /\ store' = SubSeq(store, 1, Len(store) - 1)
           /\ answer' = [at |-> "inserted", item |-> i, slot |-> s]
           /\ UNCHANGED <<live, round, bind, queue, records, asked>>
  BY <1>t, InsertFacts
<1>2. items'[i].user = u /\ items'[i].bind = s /\ items'[i].status = "FREE" /\ \A j \in Items : j # i => items'[j] = items[j]
  BY <1>1, <1>t DEF TypeInv
<1>3. answer'.at = "inserted" /\ answer'.item = i /\ answer'.slot = s
  BY <1>1
<1>4. Pending = {} /\ Pending' = {i} /\ Checked'
  BY <1>1, <1>3 DEF Pending, Checked
<1>5. live[s] /\ bind[s].user = None /\ u \in asked[s]
  BY <1>1, <1>t DEF Checked
<1>6. Inserted'
  BY <1>1, <1>2, <1>3, <1>5 DEF Inserted
<1>7. Sockets'
  BY <1>1, <1>t DEF Sockets
<1>8. Source'
  BY <1>1, <1>2, <1>4, <1>t DEF Source
<1>9. Own'
  <2>1. ASSUME NEW t \in Slots, bind[t].user # None
        PROVE  live[t] /\ items'[bind[t].user].bind = t /\ items'[bind[t].user].user \in asked[t]
    <3>1. live[t] /\ items[bind[t].user].bind = t /\ items[bind[t].user].user \in asked[t]
      BY <2>1, <1>t DEF Own
    <3>2. asked[t] \subseteq Users
      BY <1>t DEF TypeInv
    <3>3. bind[t].user # i
      BY <3>1, <3>2, <1>1, UsersFacts
    <3>4. bind[t].user \in Items
      BY <2>1, <1>t, BindFields
    <3> QED BY <3>1, <3>3, <3>4, <1>2
  <2> QED BY <2>1, <1>1 DEF Own
<1>10. NoNewLogon
  BY <1>1 DEF NoNewLogon
<1>11. Waiting'
  BY <1>1, <1>10, <1>t, WaitingLemma
<1> QED BY <1>4, <1>6, <1>7, <1>8, <1>9, <1>11 DEF Sess, Links

\* The slot gets the item that was inserted.
LEMMA BindUserLinks ==
  ASSUME Sess, Room', BindUser
  PROVE  Sess'
<1>t. Room /\ TypeInv /\ TypeInv' /\ Waiting /\ Sockets /\ Source /\ Own /\ Inserted
  BY DEF Sess, Links, Room
<1>1. /\ answer.at = "inserted" /\ bind' = [bind EXCEPT ![answer.slot].user = answer.item]
      /\ answer' = Idle /\ UNCHANGED <<live, round, items, store, queue, records, asked>>
  BY DEF BindUser
<1>2. PICK s \in Slots, i \in Items : s = answer.slot /\ i = answer.item
  BY <1>1, <1>t, AnswerFields
<1>3. /\ bind'[s].user = i /\ bind'[s].sock = bind[s].sock
      /\ \A t \in Slots : t # s => bind'[t] = bind[t]
  <2>1. bind[s] \in Binds
    BY <1>t, BindFields
  <2>2. bind' = [bind EXCEPT ![s] = [bind[s] EXCEPT !.user = i]] /\ bind \in [Slots -> Binds]
    BY <1>1, <1>2, <1>t DEF TypeInv
  <2> QED BY <2>1, <2>2 DEF Binds
<1>4. Pending = {i} /\ Pending' = {} /\ Checked' /\ Inserted'
  BY <1>1, <1>2 DEF Pending, Checked, Inserted, Idle
<1>5. live[s] /\ bind[s].user = None /\ items[i].bind = s /\ items[i].user \in asked[s]
  BY <1>1, <1>2, <1>t DEF Inserted
<1>6. Sockets'
  BY <1>1, <1>3, <1>t DEF Sockets
<1>7. Source'
  <2>1. ASSUME NEW j \in Items, items[j].user # NoUser, items[j].bind # NoSlot
        PROVE  bind'[items[j].bind].user = j
    <3>1. CASE j = i
      BY <3>1, <1>3, <1>5
    <3>2. CASE j # i
      <4>1. bind[items[j].bind].user = j /\ items[j].bind \in Slots
        BY <3>2, <2>1, <1>4, <1>t, ItemFields DEF Source
      <4> QED BY <4>1, <1>3, <1>5, UsersFacts
    <3> QED BY <3>1, <3>2
  <2> QED BY <2>1, <1>1, <1>4 DEF Source
<1>8. Own'
  BY <1>1, <1>3, <1>5, <1>t DEF Own
<1>9. NoNewLogon
  BY <1>1 DEF NoNewLogon
<1>10. Waiting'
  BY <1>1, <1>9, <1>t, WaitingLemma
<1> QED BY <1>4, <1>6, <1>7, <1>8, <1>10 DEF Sess, Links

\* Games and kicks keep slots and items in step.
LEMMA GameLinks ==
  ASSUME Sess, Room', ~raced', NEW i \in Items, StartGame(i) \/ ConcludeGame(i) \/ KickUser(i)
  PROVE  Sess'
<1>t. TypeInv /\ Pool /\ Inserted
  BY DEF Sess, Room, Links
<1>p. items[i].status # "FREE" => i \notin Pending
  BY <1>t DEF Inserted, Pending
<1>1. CASE \/ StartGame(i)
           \/ ConcludeGame(i) /\ items[i].status = "PLAYING"
  <2>1. PICK x \in {"PLAYING", "SIT"} : items' = [items EXCEPT ![i].status = x]
    BY <1>1 DEF StartGame, ConcludeGame
  <2>2. UNCHANGED <<live, round, bind, queue, answer, asked>>
    BY <1>1 DEF StartGame, ConcludeGame
  <2>3. /\ \A j \in Items : items'[j].user = items[j].user /\ items'[j].bind = items[j].bind
        /\ \A j \in Items \ {i} : items'[j] = items[j]
    BY <2>1, <1>t, ItemFields DEF TypeInv, UserItems
  <2>4. \A j \in Pending : j \in Items \ {i}
    BY <1>1, <1>p, <1>t, AnswerFields DEF StartGame, Pending
  <2> QED BY <2>2, <2>3, <2>4, StatusLinks
<1>2. CASE KickUser(i) \/ (ConcludeGame(i) /\ items[i].status # "PLAYING")
  <2>1. Logout(i, bind) /\ UNCHANGED <<live, round, answer, asked>>
    BY <1>2 DEF KickUser, ConcludeGame
  <2>2. items[i].user # NoUser
    BY <1>2, <1>t DEF KickUser, InRoom, ConcludeGame, Pool
  <2>3. i \notin Pending
    <3>1. CASE KickUser(i)
      <4>1. ~Meets(NoSlot, i)
        BY <3>1 DEF KickUser, Met
      <4> QED BY <4>1 DEF Meets, Pending, Idle
    <3>2. CASE ConcludeGame(i) /\ items[i].status # "PLAYING"
      BY <3>2, <1>p DEF ConcludeGame
    <3> QED BY <1>2, <3>1, <3>2
  <2> QED BY <2>1, <2>2, <2>3, LogoutLinks
<1> QED BY <1>1, <1>2

\* ChangePlace keeps slots and items in step: the item of a slot is not the one that
\* waits for its slot.
LEMMA ChangePlaceLinks ==
  ASSUME Sess, Room', NEW s \in Slots, ChangePlace(s)
  PROVE  Sess'
<1>t. TypeInv /\ Own /\ Inserted
  BY DEF Sess, Room, Links
<1>1. PICK i \in Items : i = bind[s].user
  BY <1>t, BindFields DEF ChangePlace
<1>2. PICK x \in {"FREE", "SIT"} : items' = [items EXCEPT ![i].status = x]
  BY <1>1 DEF ChangePlace
<1>3. UNCHANGED <<live, round, bind, queue, answer, asked>> /\ bind[s].user # None
  BY DEF ChangePlace
<1>4. /\ \A j \in Items : items'[j].user = items[j].user /\ items'[j].bind = items[j].bind
      /\ \A j \in Items \ {i} : items'[j] = items[j]
  BY <1>2, <1>t, ItemFields DEF TypeInv, UserItems
<1>5. items[i].bind = s
  BY <1>1, <1>3, <1>t DEF Own
<1>6. \A j \in Pending : j \in Items \ {i}
  BY <1>1, <1>3, <1>5, <1>t, AnswerFields DEF Pending, Inserted
<1> QED BY <1>3, <1>4, <1>6, StatusLinks

\* The inductive invariant of the sessions: the entries always, slots and items until
\* another thread meets an answer.
SessInv == Room /\ (~raced => Sess)

\* Every step keeps it.
LEMMA SessInvariance ==
  ASSUME SessInv, [Next]_vars
  PROVE  SessInv'
<1>r. Room /\ Room'
  BY RoomInvariance DEF SessInv
<1>q. raced => raced'
  BY DEF Next, NetworkStep, GameStep, DataBaseStep, AnswerStep, vars, Met,
         OnEventTCPNetworkBind, OnEventTCPNetworkShut, ChangePlace, OnTCPNetworkSubLogonUserID,
         KickUser, StartGame, ConcludeGame, KickedOut, AnswerSwitches, RoomFull, InsertUserItem,
         BindUser, OnDBLogonSuccess, OnDBLogonFailure, OnRequestLeaveGameServer
<1> SUFFICES ASSUME ~raced' PROVE Sess'
  BY <1>r DEF SessInv
<1>s. Sess
  BY <1>q DEF SessInv
<1>1. ASSUME NEW s \in Slots, OnEventTCPNetworkBind(s) \/ OnEventTCPNetworkShut(s) \/ ChangePlace(s)
      PROVE  Sess'
  BY <1>1, <1>r, <1>s, BindLinks, ShutLinks, ChangePlaceLinks
<1>2. ASSUME NEW s \in Slots, NEW u \in Users, NEW p \in BOOLEAN, OnTCPNetworkSubLogonUserID(s, u, p)
      PROVE  Sess'
  BY <1>2, <1>r, <1>s, LogonLinks
<1>3. ASSUME NEW i \in Items, StartGame(i) \/ ConcludeGame(i) \/ KickUser(i) PROVE Sess'
  BY <1>3, <1>r, <1>s, GameLinks
<1>4. ASSUME NEW u \in Users, OnDBLogonSuccess(u) PROVE Sess'
  BY <1>4, <1>r, <1>s, SuccessLinks
<1>5. ASSUME NEW u \in Users, OnDBLogonFailure(u) \/ OnRequestLeaveGameServer(u) PROVE Sess'
  <2>1. answer = Idle /\ answer' = Idle /\ UNCHANGED <<live, round, bind, items, asked>>
    BY <1>5 DEF OnDBLogonFailure, OnRequestLeaveGameServer
  <2>2. NoNewLogon
    BY <1>5, <1>r, FailureStep, LeaveDone
  <2> QED BY <2>1, <2>2, <1>r, <1>s, IdleLemma, AnswerDone
<1>6. CASE KickedOut \/ RoomFull
  <2>1. answer.at = "checked" /\ UNCHANGED <<live, round, bind, items, asked>>
    BY <1>6 DEF KickedOut, RoomFull
  <2>2. NoNewLogon /\ answer' = Idle
    BY <1>6, <1>r, RefusedStep
  <2> QED BY <2>1, <2>2, <1>r, <1>s, AnswerDone
<1>7. CASE AnswerSwitches \/ InsertUserItem \/ BindUser
  BY <1>7, <1>r, <1>s, AnswerSwitchLinks, InsertLinks, BindUserLinks
<1>8. CASE UNCHANGED vars
  <2>1. UNCHANGED <<live, round, bind, queue, answer, asked>> /\ items' = items
    BY <1>8 DEF vars
  <2> QED BY <2>1, <1>r, <1>s, StatusLinks
<1> QED BY <1>1, <1>2, <1>3, <1>4, <1>5, <1>6, <1>7, <1>8
        DEF Next, NetworkStep, GameStep, DataBaseStep, AnswerStep

\* The invariant of the sessions holds.
LEMMA SessInductive == Spec => []SessInv
<1>1. Init => SessInv
  <2> SUFFICES ASSUME Init PROVE SessInv
    OBVIOUS
  <2>1. Room
    BY RoomInit
  <2>2. Waiting
    BY DEF Init, Waiting
  <2>3. Sockets /\ Own
    BY DEF Init, Sockets, Own, Zeroed
  <2>4. Source
    BY DEF Init, Source, ResetUserItem
  <2>5. Checked /\ Inserted
    BY DEF Init, Checked, Inserted, Idle
  <2> QED BY <2>1, <2>2, <2>3, <2>4, <2>5 DEF SessInv, Sess, Links
<1>2. SessInv /\ [Next]_vars => SessInv'
  BY SessInvariance
<1> QED BY <1>1, <1>2, PTL DEF Spec

\* Until another thread meets an answer that OnDBLogonSuccess works on, the assertion of
\* SwitchUserItemConnect holds: the slot that an online user names has this user.
THEOREM SourceTheorem == Spec => []SourceBound
<1>1. SessInv => SourceBound
  <2> SUFFICES ASSUME SessInv, answer = Idle, ~raced, NEW i \in InRoom, items[i].bind # NoSlot
               PROVE  bind[items[i].bind].user = i
    BY DEF SourceBound
  <2>1. Source /\ i \in Items /\ items[i].user # NoUser
    BY DEF SessInv, Sess, Links, InRoom
  <2> QED BY <2>1, IdleLemma DEF Source
<1> QED BY <1>1, SessInductive, PTL

\* Until another thread meets an answer that OnDBLogonSuccess works on, a connection acts
\* only for a user it asked to log on as, however late the answers of the database come,
\* however often the slot is used again and whatever the other threads do meanwhile.
THEOREM OwnTheorem == Spec => []OwnSession
<1>1. SessInv => OwnSession
  BY DEF SessInv, Sess, Links, Own, Sockets, OwnSession, Owned
<1> QED BY <1>1, SessInductive, PTL
=============================================================================
