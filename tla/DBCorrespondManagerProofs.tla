---------------------- MODULE DBCorrespondManagerProofs ----------------------
(***************************************************************************)
(* The requests of a user are executed one at a time, in order and at most *)
(* once, for any number of users, requests, failures and restarts.         *)
(*                                                                         *)
(* The manager completes a request by the name of its user.  That this     *)
(* takes the right request off the list rests on three facts that need     *)
(* each other: a user has at most one request under way (Unique), the one  *)
(* under way is marked (Marked) and is the first of the user in the list   *)
(* (Oldest).  The list is ordered by the numbers of the posts (Sorted),    *)
(* and what was executed is older than what is in the list (Older).        *)
(***************************************************************************)
EXTENDS DBCorrespondManager, SequenceTheorems, WellFoundedInduction, TLAPS

Reqs == [id : Nat, user : Nat, kind : {"plain", "cached", "unhandled"}]

Busy == cur # <<>>

TypeInv ==
  /\ list \in Seq(Reqs) /\ dbq \in Seq(Reqs) /\ applied \in Seq(Reqs)
  /\ cur = <<>> \/ cur \in Reqs \X BOOLEAN
  /\ posted \in Nat

\* Later requests of the list have higher numbers.
Ordered(l) == \A m, n \in 1 .. Len(l) : m < n => l[m].id < l[n].id

Sorted ==
  /\ Ordered(list)
  /\ \A n \in 1 .. Len(list) : /\ list[n].id <= posted
                               /\ list[n].user = 0 => list[n].kind = "plain"

\* r is the oldest request of its user in the list l.
Oldest(l, r) ==
  /\ \E n \in 1 .. Len(l) : l[n] = r
  /\ \A n \in 1 .. Len(l) : l[n].user = r.user => r.id <= l[n].id

\* r may be under way with the list l and the marked users u.
Way(l, u, r) == r.user # 0 => r.user \in u /\ Oldest(l, r)

Ways(l, u, q) == \A j \in 1 .. Len(q) : Way(l, u, q[j])

Marked ==
  /\ Ways(list, under, dbq)
  /\ Busy => Way(list, under, cur[1])

\* The queue q has one request of a user.
Once(q) ==
  \A j, k \in 1 .. Len(q) : q[j].user = q[k].user /\ q[j].user # 0 => j = k

Unique ==
  /\ Once(dbq)
  /\ Busy => \A j \in 1 .. Len(dbq) : dbq[j].user = cur[1].user => cur[1].user = 0

\* The executed request a is older than the listed request r of the same user, or
\* it is r, and its completion will take it off the list.
Before(a, r) ==
  a.user = r.user /\ a.user # 0
    => \/ a.id < r.id
       \/ Busy /\ cur[1] = r /\ a.id <= r.id /\ r.kind # "unhandled"

Older ==
  /\ \A k \in 1 .. Len(applied) : applied[k].user # 0 => applied[k].id <= posted
  /\ \A k \in 1 .. Len(applied), n \in 1 .. Len(list) : Before(applied[k], list[n])

\* A cached request is reported as successful.
Success == Busy /\ cur[1].kind = "cached" => cur[2] = TRUE

Waits == \A n \in 1 .. Len(list) : list[n].user \in under

Order ==
  \A j, k \in 1 .. Len(applied) :
    applied[j].user = applied[k].user /\ applied[j].user # 0 /\ j < k
      => applied[j].id < applied[k].id

IInv == TypeInv /\ Sorted /\ Marked /\ Unique /\ Older /\ Success /\ Waits /\ Order

-----------------------------------------------------------------------------
(* The loop of PerformAmortisation.                                        *)

\* Every set of natural numbers has a least element: induction, for sets.
LEMMA Least ==
  ASSUME NEW T, T \subseteq Nat, T # {}
  PROVE  \E x \in T : \A y \in T : x <= y
<1>1. PICK x \in T : \A y \in T : ~(<<y, x>> \in OpToRel(<, Nat))
  BY WFMin, NatLessThanWellFounded
<1>2. \A y \in T : ~(y < x)
  BY <1>1 DEF OpToRel
<1> QED BY <1>2

\* One pass of the loop; g has the results of the passes before.
Pass(l, u, g, n) ==
  IF n = 0 THEN [under |-> u, posts |-> <<>>]
  ELSE IF l[n].user \in g[n - 1].under THEN g[n - 1]
  ELSE [under |-> g[n - 1].under \cup {l[n].user}, posts |-> Append(g[n - 1].posts, l[n])]

Passes(l, u) == CHOOSE g : g = [n \in 0 .. Len(l) |-> Pass(l, u, g, n)]

\* The recursion of the loop has a solution for every length of the list.
LEMMA PassesExist ==
  ASSUME NEW l, NEW u, NEW m \in Nat
  PROVE  \E g : g = [n \in 0 .. m |-> Pass(l, u, g, n)]
<1> DEFINE T == {k \in Nat : ~ \E g : g = [n \in 0 .. k |-> Pass(l, u, g, n)]}
<1>1. SUFFICES ASSUME T # {} PROVE FALSE
  OBVIOUS
<1>2. PICK x \in T : \A y \in T : x <= y
  BY <1>1, Least
<1>3. x # 0
  <2> DEFINE g == [n \in 0 .. 0 |-> [under |-> u, posts |-> <<>>]]
  <2>1. g = [n \in 0 .. 0 |-> Pass(l, u, g, n)]
    BY DEF Pass
  <2> QED BY <2>1
<1>4. x - 1 \in Nat /\ x - 1 \notin T
  BY <1>2, <1>3
<1>5. PICK g : g = [n \in 0 .. (x - 1) |-> Pass(l, u, g, n)]
  BY <1>4
<1> DEFINE h == [n \in 0 .. x |-> IF n = x THEN Pass(l, u, g, x) ELSE g[n]]
<1>6. ASSUME NEW n \in 0 .. x PROVE h[n] = Pass(l, u, h, n)
  <2>1. n # 0 => h[n - 1] = g[n - 1]
    BY <1>3
  <2>2. Pass(l, u, h, n) = Pass(l, u, g, n)
    BY <2>1 DEF Pass
  <2>3. n # x => g[n] = Pass(l, u, g, n)
    BY <1>3, <1>5
  <2> QED BY <2>2, <2>3
<1>7. h = [n \in 0 .. x |-> Pass(l, u, h, n)]
  BY <1>6
<1> QED BY <1>7

\* Perform is the last value of a function that the loop describes.
LEMMA PerformPasses ==
  ASSUME NEW l, NEW u, Len(l) \in Nat
  PROVE  /\ Perform(l, u) = Passes(l, u)[Len(l)]
         /\ \A n \in 0 .. Len(l) : Passes(l, u)[n] = Pass(l, u, Passes(l, u), n)
<1>1. Perform(l, u) = Passes(l, u)[Len(l)]
  BY DEF Perform, Passes, Pass
<1>2. Passes(l, u) = [n \in 0 .. Len(l) |-> Pass(l, u, Passes(l, u), n)]
  BY PassesExist DEF Passes
<1> QED BY <1>1, <1>2

\* After n passes over l, with the users u marked before: the users of the first
\* n requests are marked, and what was posted is for each user that was not
\* marked its first request.
Posted(l, u, n, p) ==
  /\ p.posts \in Seq(Reqs)
  /\ u \subseteq p.under
  /\ \A m \in 1 .. n : l[m].user \in p.under
  /\ \A k \in 1 .. Len(p.posts) :
       /\ p.posts[k].user \notin u /\ p.posts[k].user \in p.under
       /\ \E m \in 1 .. n : p.posts[k] = l[m] /\ \A i \in 1 .. (m - 1) : l[i].user # l[m].user
  /\ \A j, k \in 1 .. Len(p.posts) : p.posts[j].user = p.posts[k].user => j = k

\* One pass keeps what the loop has achieved.
LEMMA PassLemma ==
  ASSUME NEW l \in Seq(Reqs), NEW u, NEW g, NEW n \in 1 .. Len(l), Posted(l, u, n - 1, g[n - 1])
  PROVE  Posted(l, u, n, Pass(l, u, g, n))
<1> DEFINE q == g[n - 1]
           p == Pass(l, u, g, n)
<1>0. n \in Nat /\ n > 0 /\ l[n] \in Reqs /\ Len(l) \in Nat
  OBVIOUS
<1>q. Posted(l, u, n - 1, q)
  OBVIOUS
<1>1. CASE l[n].user \in q.under
  <2>1. p = q
    BY <1>0, <1>1 DEF Pass
  <2> HIDE DEF p, q
  <2> QED BY <2>1, <1>1, <1>0, <1>q DEF Posted, p
<1>2. CASE l[n].user \notin q.under
  <2>1. p = [under |-> q.under \cup {l[n].user}, posts |-> Append(q.posts, l[n])]
    BY <1>0, <1>2 DEF Pass
  <2> HIDE DEF p, q
  <2>2. p.under = q.under \cup {l[n].user} /\ p.posts = Append(q.posts, l[n]) /\ q.posts \in Seq(Reqs)
    BY <2>1, <1>q DEF Posted
  <2>3. /\ p.posts \in Seq(Reqs) /\ Len(p.posts) = Len(q.posts) + 1 /\ Len(q.posts) \in Nat
        /\ p.posts[Len(q.posts) + 1] = l[n]
        /\ \A k \in 1 .. Len(q.posts) : p.posts[k] = q.posts[k]
    BY <2>2, <1>0
  <2>4. \A m \in 1 .. n : l[m].user \in p.under
    BY <2>2, <1>q, <1>0 DEF Posted
  <2>5. \A i \in 1 .. (n - 1) : l[i].user # l[n].user
    BY <1>2, <1>q DEF Posted
  <2>6. ASSUME NEW k \in 1 .. Len(p.posts)
        PROVE  /\ p.posts[k].user \notin u /\ p.posts[k].user \in p.under
               /\ \E m \in 1 .. n : p.posts[k] = l[m] /\ \A i \in 1 .. (m - 1) : l[i].user # l[m].user
    <3>1. CASE k = Len(p.posts)
      BY <3>1, <2>3, <2>2, <2>5, <1>2, <1>q, <1>0 DEF Posted
    <3>2. CASE k # Len(p.posts)
      <4>1. k \in 1 .. Len(q.posts) /\ p.posts[k] = q.posts[k]
        BY <3>2, <2>3
      <4>2. q.posts[k].user \notin u /\ q.posts[k].user \in q.under
        BY <4>1, <1>q DEF Posted
      <4>3. PICK m \in 1 .. (n - 1) :
                 q.posts[k] = l[m] /\ \A i \in 1 .. (m - 1) : l[i].user # l[m].user
        BY <4>1, <1>q DEF Posted
      <4>4. m \in 1 .. n
        BY <1>0
      <4>5. p.posts[k] = l[m] /\ \A i \in 1 .. (m - 1) : l[i].user # l[m].user
        BY <4>1, <4>3
      <4>6. p.posts[k].user \notin u /\ p.posts[k].user \in p.under
        BY <4>1, <4>2, <2>2
      <4> QED BY <4>4, <4>5, <4>6
    <3> QED BY <3>1, <3>2
  <2>7. ASSUME NEW j \in 1 .. Len(p.posts), NEW k \in 1 .. Len(p.posts), p.posts[j].user = p.posts[k].user
        PROVE  j = k
    <3>1. \A i \in 1 .. Len(q.posts) : q.posts[i].user # l[n].user
      BY <1>2, <1>q DEF Posted
    <3>2. CASE j \in 1 .. Len(q.posts) /\ k \in 1 .. Len(q.posts)
      <4>1. q.posts[j].user = q.posts[k].user
        BY <3>2, <2>3, <2>7
      <4> QED BY <4>1, <3>2, <1>q DEF Posted
    <3>3. CASE j = Len(q.posts) + 1 /\ k \in 1 .. Len(q.posts)
      BY <3>1, <3>3, <2>3, <2>7
    <3>4. CASE k = Len(q.posts) + 1 /\ j \in 1 .. Len(q.posts)
      BY <3>1, <3>4, <2>3, <2>7
    <3>5. CASE j = Len(q.posts) + 1 /\ k = Len(q.posts) + 1
      BY <3>5
    <3>6. \A i \in 1 .. Len(p.posts) : i = Len(q.posts) + 1 \/ i \in 1 .. Len(q.posts)
      BY <2>3
    <3> QED BY <3>2, <3>3, <3>4, <3>5, <3>6
  <2>8. u \subseteq p.under
    BY <2>2, <1>q DEF Posted
  <2> QED BY <2>3, <2>4, <2>6, <2>7, <2>8 DEF Posted, p
<1> QED BY <1>1, <1>2

\* What a call of PerformAmortisation posts and marks.
LEMMA PerformLemma ==
  ASSUME NEW l \in Seq(Reqs), NEW u
  PROVE  Posted(l, u, Len(l), Perform(l, u))
<1> DEFINE g == Passes(l, u)
           T == {n \in 0 .. Len(l) : ~ Posted(l, u, n, g[n])}
<1>0. Len(l) \in Nat
  OBVIOUS
<1>1. \A n \in 0 .. Len(l) : g[n] = Pass(l, u, g, n)
  BY <1>0, PerformPasses
<1>2. Perform(l, u) = g[Len(l)]
  BY <1>0, PerformPasses
<1> HIDE DEF g
<1>3. SUFFICES ASSUME T # {} PROVE FALSE
  BY <1>0, <1>2
<1>t. T \subseteq Nat /\ \A n : n \in T <=> n \in 0 .. Len(l) /\ ~ Posted(l, u, n, g[n])
  BY <1>0
<1> HIDE DEF T
<1>4. PICK x \in T : \A y \in T : x <= y
  BY <1>3, <1>t, Least
<1>5. x \in 0 .. Len(l) /\ ~ Posted(l, u, x, g[x]) /\ g[x] = Pass(l, u, g, x)
  BY <1>1, <1>t
<1>6. x # 0
  <2> SUFFICES ASSUME x = 0 PROVE FALSE
    OBVIOUS
  <2>1. g[x] = [under |-> u, posts |-> <<>>]
    BY <1>5 DEF Pass
  <2> QED BY <2>1, <1>5 DEF Posted
<1>7. x - 1 \in 0 .. Len(l) /\ x \in 1 .. Len(l) /\ x - 1 \notin T
  BY <1>0, <1>4, <1>5, <1>6
<1>8. Posted(l, u, x - 1, g[x - 1])
  BY <1>7, <1>t
<1> QED BY <1>5, <1>7, <1>8, PassLemma

-----------------------------------------------------------------------------
(* The list.                                                               *)

\* The fields of a request in a list.
LEMMA ReqFields ==
  ASSUME NEW l \in Seq(Reqs), NEW n \in 1 .. Len(l)
  PROVE  l[n] \in Reqs /\ l[n].id \in Nat /\ l[n].user \in Nat
<1>1. l[n] \in Reqs
  OBVIOUS
<1> QED BY <1>1 DEF Reqs

\* First finds the first request of the user if there is one.
LEMMA FirstLemma ==
  ASSUME NEW l \in Seq(Reqs), NEW u, NEW n, n = First(l, u)
  PROVE  \/ n = 0 /\ \A m \in 1 .. Len(l) : l[m].user # u
         \/ n \in 1 .. Len(l) /\ l[n].user = u /\ \A m \in 1 .. Len(l) : l[m].user = u => n <= m
<1> DEFINE I == {m \in 1 .. Len(l) : l[m].user = u}
<1>1. n = IF I # {} THEN Min(I) ELSE 0
  BY DEF First, SelectInSeq
<1>2. CASE I = {}
  BY <1>1, <1>2
<1>3. CASE I # {}
  <2>0. I \subseteq Nat
    OBVIOUS
  <2>i. \A m : m \in I <=> m \in 1 .. Len(l) /\ l[m].user = u
    OBVIOUS
  <2> HIDE DEF I
  <2>1. \E x \in I : \A y \in I : x <= y
    BY <1>3, <2>0, Least
  <2>2. n \in I /\ \A y \in I : n <= y
    BY <1>1, <1>3, <2>1 DEF Min
  <2> QED BY <2>2, <2>i
<1> QED BY <1>2, <1>3

\* The elements of a list from which one was removed.
LEMMA RemoveLemma ==
  ASSUME NEW l \in Seq(Reqs), NEW n \in 1 .. Len(l), NEW s, s = RemoveAt(l, n)
  PROVE  /\ s \in Seq(Reqs) /\ Len(s) = Len(l) - 1
         /\ \A k \in 1 .. Len(s) : s[k] = IF k < n THEN l[k] ELSE l[k + 1]
<1> DEFINE a == SubSeq(l, 1, n - 1)
           b == SubSeq(l, n + 1, Len(l))
<1>0. Len(l) \in Nat /\ n \in Nat /\ n >= 1 /\ n <= Len(l)
  OBVIOUS
<1>1. a \in Seq(Reqs) /\ Len(a) = n - 1 /\ \A k \in 1 .. (n - 1) : a[k] = l[k]
  BY <1>0
<1>2. b \in Seq(Reqs) /\ Len(b) = Len(l) - n /\ \A k \in 1 .. (Len(l) - n) : b[k] = l[n + k]
  BY <1>0
<1>3. s = a \o b
  BY DEF RemoveAt
<1> HIDE DEF a, b
<1>4. s \in Seq(Reqs) /\ Len(s) = Len(l) - 1
  BY <1>0, <1>1, <1>2, <1>3
<1>5. ASSUME NEW k \in 1 .. Len(s) PROVE s[k] = IF k < n THEN l[k] ELSE l[k + 1]
  <2>1. CASE k < n
    BY <2>1, <1>0, <1>1, <1>2, <1>3, <1>4
  <2>2. CASE k >= n
    <3>1. k - (n - 1) \in 1 .. (Len(l) - n) /\ n + (k - (n - 1)) = k + 1
      BY <2>2, <1>0, <1>4
    <3>a. k \in Len(a) + 1 .. Len(a) + Len(b)
      BY <2>2, <1>0, <1>1, <1>2, <1>4
    <3>2. s[k] = b[k - (n - 1)]
      BY <3>a, <1>1, <1>2, <1>3
    <3>3. b[k - (n - 1)] = l[n + (k - (n - 1))]
      BY <3>1, <1>2
    <3> QED BY <2>2, <3>1, <3>2, <3>3, <1>0
  <2> QED BY <2>1, <2>2, <1>0
<1> QED BY <1>4, <1>5

\* An ordered list stays so, and loses only the request at n.
LEMMA RemoveOrdered ==
  ASSUME NEW l \in Seq(Reqs), Ordered(l), NEW n \in 1 .. Len(l), NEW s, s = RemoveAt(l, n)
  PROVE  /\ s \in Seq(Reqs) /\ Ordered(s)
         /\ \A k \in 1 .. Len(s) : \E m \in 1 .. Len(l) : m # n /\ s[k] = l[m]
         /\ \A m \in 1 .. Len(l) : m # n => \E k \in 1 .. Len(s) : s[k] = l[m]
         /\ \A k \in 1 .. Len(s) : s[k] # l[n]
<1>0. /\ s \in Seq(Reqs) /\ Len(s) = Len(l) - 1 /\ Len(l) \in Nat /\ n \in Nat
      /\ \A k \in 1 .. Len(s) : s[k] = IF k < n THEN l[k] ELSE l[k + 1]
  BY RemoveLemma
<1>1. ASSUME NEW i \in 1 .. Len(s), NEW k \in 1 .. Len(s), i < k PROVE s[i].id < s[k].id
  <2> DEFINE a == IF i < n THEN i ELSE i + 1
             b == IF k < n THEN k ELSE k + 1
  <2>1. a \in 1 .. Len(l) /\ b \in 1 .. Len(l) /\ a < b /\ s[i] = l[a] /\ s[k] = l[b]
    BY <1>0, <1>1
  <2> HIDE DEF a, b
  <2> QED BY <2>1 DEF Ordered
<1>2. ASSUME NEW k \in 1 .. Len(s) PROVE \E m \in 1 .. Len(l) : m # n /\ s[k] = l[m]
  <2> DEFINE b == IF k < n THEN k ELSE k + 1
  <2>1. b \in 1 .. Len(l) /\ b # n /\ s[k] = l[b]
    BY <1>0
  <2> QED BY <2>1
<1>3. ASSUME NEW m \in 1 .. Len(l), m # n PROVE \E k \in 1 .. Len(s) : s[k] = l[m]
  <2> DEFINE k == IF m < n THEN m ELSE m - 1
  <2>1. k \in 1 .. Len(s) /\ s[k] = l[m]
    BY <1>0, <1>3
  <2> QED BY <2>1
<1>4. ASSUME NEW m \in 1 .. Len(l), m # n PROVE l[m] # l[n]
  <2>1. m < n \/ n < m
    BY <1>0, <1>4
  <2>2. l[m].id < l[n].id \/ l[n].id < l[m].id
    BY <2>1 DEF Ordered
  <2>3. l[m].id \in Nat /\ l[n].id \in Nat
    BY ReqFields
  <2> QED BY <2>2, <2>3
<1>5. Ordered(s)
  BY <1>1 DEF Ordered
<1>6. ASSUME NEW k \in 1 .. Len(s) PROVE s[k] # l[n]
  <2>1. PICK m \in 1 .. Len(l) : m # n /\ s[k] = l[m]
    BY <1>2
  <2> QED BY <1>4, <2>1
<1>7. s \in Seq(Reqs)
  BY <1>0
<1> QED BY <1>2, <1>3, <1>5, <1>6, <1>7

\* In an ordered list the first request of a user is the oldest.
LEMMA FirstOldest ==
  ASSUME NEW l \in Seq(Reqs), Ordered(l), NEW n \in 1 .. Len(l),
         \A i \in 1 .. (n - 1) : l[i].user # l[n].user
  PROVE  Oldest(l, l[n])
<1>1. ASSUME NEW m \in 1 .. Len(l), l[m].user = l[n].user PROVE l[n].id <= l[m].id
  <2>1. m = n \/ n < m
    BY <1>1
  <2>2. l[m].id \in Nat /\ l[n].id \in Nat
    BY ReqFields
  <2> QED BY <2>1, <2>2 DEF Ordered
<1> QED BY <1>1 DEF Oldest

\* An ordered list has one oldest request of a user.
LEMMA OldestUnique ==
  ASSUME NEW l \in Seq(Reqs), Ordered(l), NEW r, Oldest(l, r), NEW n \in 1 .. Len(l),
         l[n].user = r.user, \A m \in 1 .. Len(l) : l[m].user = r.user => n <= m
  PROVE  l[n] = r
<1>1. PICK m \in 1 .. Len(l) : l[m] = r
  BY DEF Oldest
<1>2. l[m].id <= l[n].id /\ n <= m
  BY <1>1 DEF Oldest
<1>3. l[m].id \in Nat /\ l[n].id \in Nat /\ m \in Nat /\ n \in Nat
  BY ReqFields
<1>4. ~ (n < m)
  BY <1>2, <1>3 DEF Ordered
<1> QED BY <1>1, <1>2, <1>3, <1>4

-----------------------------------------------------------------------------
(* The two operations of the manager.                                      *)

\* What PerformAmortisation achieves for the list l and the marked users u, with q
\* under way: the users are marked as in v, and d is under way.
Amortised(q, l, u, v, d) ==
  /\ d \in Seq(Reqs) /\ Ways(l, v, d) /\ Once(d)
  /\ \A n \in 1 .. Len(l) : l[n].user \in v
  /\ u \subseteq v
  /\ \A j \in 1 .. Len(d) : d[j].user \notin u \/ \E k \in 1 .. Len(q) : d[j] = q[k]

\* It keeps one request under way for a user, the oldest.
LEMMA PostsLemma ==
  ASSUME NEW q \in Seq(Reqs), NEW l \in Seq(Reqs), NEW u, Ordered(l), Ways(l, u, q), Once(q)
  PROVE  Amortised(q, l, u, Perform(l, u).under, q \o Perform(l, u).posts)
<1> DEFINE p == Perform(l, u)
           d == q \o p.posts
<1>p. Posted(l, u, Len(l), p)
  BY PerformLemma
<1> HIDE DEF p
<1>0. p.posts \in Seq(Reqs) /\ Len(q) \in Nat /\ Len(p.posts) \in Nat
  BY <1>p DEF Posted
<1>1. d \in Seq(Reqs) /\ Len(d) = Len(q) + Len(p.posts)
  BY <1>0
<1>2. \A j \in 1 .. Len(q) : d[j] = q[j]
  BY <1>0
<1>3. \A j \in Len(q) + 1 .. Len(d) : d[j] = p.posts[j - Len(q)] /\ j - Len(q) \in 1 .. Len(p.posts)
  BY <1>0, <1>1
<1>4. \A j \in 1 .. Len(d) : j \in 1 .. Len(q) \/ j \in Len(q) + 1 .. Len(d)
  BY <1>0, <1>1
<1>5. ASSUME NEW k \in 1 .. Len(p.posts)
      PROVE  p.posts[k].user \notin u /\ p.posts[k].user \in p.under /\ Oldest(l, p.posts[k])
  <2>1. p.posts[k].user \notin u /\ p.posts[k].user \in p.under
    BY <1>p DEF Posted
  <2>2. PICK m \in 1 .. Len(l) :
             p.posts[k] = l[m] /\ \A i \in 1 .. (m - 1) : l[i].user # l[m].user
    BY <1>p DEF Posted
  <2>3. Oldest(l, l[m])
    BY <2>2, FirstOldest
  <2> QED BY <2>1, <2>2, <2>3
<1>6. u \subseteq p.under /\ \A n \in 1 .. Len(l) : l[n].user \in p.under
  BY <1>p DEF Posted
<1>7. ASSUME NEW j \in 1 .. Len(d) PROVE Way(l, p.under, d[j])
  <2>1. CASE j \in 1 .. Len(q)
    BY <2>1, <1>2, <1>6 DEF Ways, Way
  <2>2. CASE j \in Len(q) + 1 .. Len(d)
    BY <2>2, <1>3, <1>5 DEF Way
  <2> QED BY <2>1, <2>2, <1>4
<1>8. ASSUME NEW j \in 1 .. Len(d)
      PROVE  d[j].user \notin u \/ \E k \in 1 .. Len(q) : d[j] = q[k]
  BY <1>2, <1>3, <1>4, <1>5
<1>9. ASSUME NEW j \in 1 .. Len(d), NEW k \in 1 .. Len(d), d[j].user = d[k].user, d[j].user # 0
      PROVE  j = k
  <2>1. \A i \in 1 .. Len(q) : q[i].user # 0 => q[i].user \in u
    BY DEF Ways, Way
  <2>2. CASE j \in 1 .. Len(q) /\ k \in 1 .. Len(q)
    BY <2>2, <1>2, <1>9 DEF Once
  <2>3. CASE j \in 1 .. Len(q) /\ k \in Len(q) + 1 .. Len(d)
    BY <2>1, <2>3, <1>2, <1>3, <1>5, <1>9
  <2>4. CASE k \in 1 .. Len(q) /\ j \in Len(q) + 1 .. Len(d)
    BY <2>1, <2>4, <1>2, <1>3, <1>5, <1>9
  <2>5. CASE j \in Len(q) + 1 .. Len(d) /\ k \in Len(q) + 1 .. Len(d)
    <3>1. j - Len(q) \in 1 .. Len(p.posts) /\ k - Len(q) \in 1 .. Len(p.posts)
      BY <2>5, <1>3
    <3>2. p.posts[j - Len(q)].user = p.posts[k - Len(q)].user
      BY <2>5, <1>3, <1>9
    <3>3. j - Len(q) = k - Len(q)
      BY <3>1, <3>2, <1>p DEF Posted
    <3> QED BY <3>3, <1>0
  <2> QED BY <2>2, <2>3, <2>4, <2>5, <1>4
<1> QED BY <1>1, <1>6, <1>7, <1>8, <1>9 DEF Once, Ways, Amortised, p

\* A request with a higher number at the end of the list leaves the oldest ones.
LEMMA AppendLemma ==
  ASSUME NEW l \in Seq(Reqs), Ordered(l), NEW r \in Reqs,
         \A n \in 1 .. Len(l) : l[n].id < r.id, NEW s, s = Append(l, r)
  PROVE  /\ s \in Seq(Reqs) /\ Ordered(s)
         /\ \A n \in 1 .. Len(s) : s[n] = r \/ \E m \in 1 .. Len(l) : s[n] = l[m]
         /\ \A n \in 1 .. Len(l) : \E m \in 1 .. Len(s) : s[m] = l[n]
         /\ \A x : Oldest(l, x) => Oldest(s, x)
<1>0. /\ s \in Seq(Reqs) /\ Len(l) \in Nat /\ Len(s) = Len(l) + 1 /\ s[Len(l) + 1] = r
      /\ \A n \in 1 .. Len(l) : s[n] = l[n]
  OBVIOUS
<1>i. \A n \in 1 .. Len(s) : n = Len(l) + 1 \/ n \in 1 .. Len(l)
  BY <1>0
<1>1. ASSUME NEW m \in 1 .. Len(s), NEW n \in 1 .. Len(s), m < n PROVE s[m].id < s[n].id
  <2>1. m \in 1 .. Len(l)
    BY <1>0, <1>1
  <2> QED BY <2>1, <1>0, <1>1, <1>i DEF Ordered
<1>2. ASSUME NEW n \in 1 .. Len(l) PROVE \E m \in 1 .. Len(s) : s[m] = l[n]
  <2>1. n \in 1 .. Len(s) /\ s[n] = l[n]
    BY <1>0
  <2> QED BY <2>1
<1>3. ASSUME NEW x, Oldest(l, x) PROVE Oldest(s, x)
  <2>1. PICK k \in 1 .. Len(l) : l[k] = x
    BY <1>3 DEF Oldest
  <2>2. k \in 1 .. Len(s) /\ s[k] = x
    BY <2>1, <1>0
  <2>3. x.id < r.id /\ x.id \in Nat /\ r.id \in Nat
    BY <2>1, ReqFields DEF Reqs
  <2>4. ASSUME NEW n \in 1 .. Len(s), s[n].user = x.user PROVE x.id <= s[n].id
    <3>1. CASE n = Len(l) + 1
      BY <3>1, <2>3, <1>0
    <3>2. CASE n \in 1 .. Len(l)
      BY <3>2, <2>4, <1>0, <1>3 DEF Oldest
    <3> QED BY <3>1, <3>2, <1>i
  <2> QED BY <2>2, <2>4 DEF Oldest
<1> QED BY <1>0, <1>i, <1>1, <1>2, <1>3 DEF Ordered

\* Completion by the name of the user takes the first request of this user off the
\* list and leaves the oldest requests of other users.
LEMMA ForgetLemma ==
  ASSUME NEW l \in Seq(Reqs), Ordered(l), NEW u, NEW ok, NEW s, s = Forget(l, u, ok)
  PROVE  /\ s \in Seq(Reqs) /\ Ordered(s)
         /\ \A k \in 1 .. Len(s) : \E m \in 1 .. Len(l) : s[k] = l[m]
         /\ \A x : x.user # u /\ Oldest(l, x) => Oldest(s, x)
         /\ \A m \in 1 .. Len(l) :
              \/ \E k \in 1 .. Len(s) : s[k] = l[m]
              \/ /\ l[m].user = u
                 /\ \A x : x.user = u /\ Oldest(l, x) => l[m] = x
         /\ \A x : x.user = u /\ Oldest(l, x) /\ (x.kind # "cached" \/ ok)
                     => \A k \in 1 .. Len(s) : s[k] # x
<1> DEFINE n == First(l, u)
<1>n. \/ n = 0 /\ \A m \in 1 .. Len(l) : l[m].user # u
      \/ n \in 1 .. Len(l) /\ l[n].user = u /\ \A m \in 1 .. Len(l) : l[m].user = u => n <= m
  BY FirstLemma
<1>s. s = IF n # 0 /\ (l[n].kind # "cached" \/ ok) THEN RemoveAt(l, n) ELSE l
  BY DEF Forget
<1> HIDE DEF n
<1>u. ASSUME NEW x, x.user = u, Oldest(l, x) PROVE n \in 1 .. Len(l) /\ l[n] = x
  <2>1. PICK m \in 1 .. Len(l) : l[m] = x
    BY <1>u DEF Oldest
  <2>2. n \in 1 .. Len(l) /\ l[n].user = u /\ \A i \in 1 .. Len(l) : l[i].user = u => n <= i
    BY <2>1, <1>n, <1>u
  <2> QED BY <2>2, <1>u, OldestUnique
<1>1. CASE n # 0 /\ (l[n].kind # "cached" \/ ok)
  <2>1. n \in 1 .. Len(l) /\ l[n].user = u /\ s = RemoveAt(l, n)
    BY <1>1, <1>n, <1>s
  <2>2. /\ s \in Seq(Reqs) /\ Ordered(s)
        /\ \A k \in 1 .. Len(s) : \E m \in 1 .. Len(l) : m # n /\ s[k] = l[m]
        /\ \A m \in 1 .. Len(l) : m # n => \E k \in 1 .. Len(s) : s[k] = l[m]
        /\ \A k \in 1 .. Len(s) : s[k] # l[n]
    BY <2>1, RemoveOrdered
  <2>3. ASSUME NEW x, x.user # u, Oldest(l, x) PROVE Oldest(s, x)
    <3>1. PICK m \in 1 .. Len(l) : l[m] = x
      BY <2>3 DEF Oldest
    <3>2. m # n
      BY <3>1, <2>1, <2>3
    <3>3. \E k \in 1 .. Len(s) : s[k] = x
      BY <3>1, <3>2, <2>2
    <3>4. ASSUME NEW k \in 1 .. Len(s), s[k].user = x.user PROVE x.id <= s[k].id
      <4>1. PICK i \in 1 .. Len(l) : s[k] = l[i]
        BY <2>2
      <4> QED BY <4>1, <3>4, <2>3 DEF Oldest
    <3> QED BY <3>3, <3>4 DEF Oldest
  <2> QED BY <2>1, <2>2, <2>3, <1>u
<1>2. CASE ~(n # 0 /\ (l[n].kind # "cached" \/ ok))
  <2>1. s = l
    BY <1>2, <1>s
  <2>2. ASSUME NEW x, x.user = u, Oldest(l, x), x.kind # "cached" \/ ok PROVE FALSE
    <3>1. n \in 1 .. Len(l) /\ l[n] = x
      BY <2>2, <1>u
    <3> QED BY <3>1, <2>2, <1>2
  <2> QED BY <2>1, <2>2
<1> QED BY <1>1, <1>2

-----------------------------------------------------------------------------
(* Every action keeps the invariant.                                       *)

\* PerformAmortisation in a state.
LEMMA AmortiseLemma ==
  ASSUME NEW l \in Seq(Reqs), Ordered(l), NEW u, dbq \in Seq(Reqs), Once(dbq),
         Ways(l, u, dbq), PerformAmortisation(l, u)
  PROVE  list' = l /\ Amortised(dbq, l, u, under', dbq')
BY PostsLemma DEF PerformAmortisation

\* The request that the database thread executes.
LEMMA CurFields ==
  ASSUME TypeInv, Busy
  PROVE  /\ cur[1] \in Reqs /\ cur[1].id \in Nat /\ cur[1].user \in Nat
         /\ cur[2] \in BOOLEAN
<1>1. cur \in Reqs \X BOOLEAN
  BY DEF TypeInv, Busy
<1>2. cur[1] \in Reqs /\ cur[2] \in BOOLEAN
  BY <1>1
<1> QED BY <1>2 DEF Reqs

\* A call of PerformAmortisation for the list, or for the list and new requests.
LEMMA GrowLemma ==
  ASSUME IInv, NEW l \in Seq(Reqs), Ordered(l), PerformAmortisation(l, under),
         \A x : Oldest(list, x) => Oldest(l, x),
         UNCHANGED <<cur, applied>>, posted' \in Nat, posted <= posted',
         \A n \in 1 .. Len(l) :
           \/ \E m \in 1 .. Len(list) : l[n] = list[m]
           \/ l[n].id > posted /\ l[n].id <= posted' /\ (l[n].user = 0 => l[n].kind = "plain")
  PROVE  IInv'
<1>t. TypeInv /\ Sorted /\ Marked /\ Unique /\ Older /\ Success /\ Waits /\ Order
  BY DEF IInv
<1>0. Len(list) \in Nat /\ Len(l) \in Nat /\ Len(applied) \in Nat /\ posted \in Nat
  BY <1>t DEF TypeInv
<1>1. Ways(l, under, dbq)
  BY <1>t DEF Marked, Ways, Way
<1>a. list' = l /\ Amortised(dbq, l, under, under', dbq')
  BY <1>t, <1>1, AmortiseLemma DEF TypeInv, Unique
<1>2. /\ list' = l /\ dbq' \in Seq(Reqs) /\ Once(dbq') /\ under \subseteq under'
      /\ Ways(list', under', dbq')
      /\ \A n \in 1 .. Len(list') : list'[n].user \in under'
      /\ \A j \in 1 .. Len(dbq') :
           dbq'[j].user \notin under \/ \E k \in 1 .. Len(dbq) : dbq'[j] = dbq[k]
  BY <1>a DEF Amortised
<1>3. TypeInv'
  BY <1>t, <1>2 DEF TypeInv
<1>4. Sorted'
  <2>1. ASSUME NEW n \in 1 .. Len(l)
        PROVE  l[n].id <= posted' /\ (l[n].user = 0 => l[n].kind = "plain")
    <3>1. CASE \E m \in 1 .. Len(list) : l[n] = list[m]
      <4>1. PICK m \in 1 .. Len(list) : l[n] = list[m]
        BY <3>1
      <4>2. list[m].id <= posted /\ (list[m].user = 0 => list[m].kind = "plain") /\ list[m].id \in Nat
        BY <1>t, ReqFields DEF Sorted, TypeInv
      <4> QED BY <4>1, <4>2, <1>0
    <3> QED BY <3>1
  <2> QED BY <2>1, <1>2 DEF Sorted
<1>5. Marked'
  <2>1. Busy => Way(l, under', cur[1])
    BY <1>t, <1>2 DEF Marked, Way
  <2> QED BY <2>1, <1>2 DEF Marked, Busy
<1>6. Unique'
  <2>1. ASSUME Busy, NEW j \in 1 .. Len(dbq'), dbq'[j].user = cur[1].user, cur[1].user # 0
        PROVE  FALSE
    <3>1. cur[1].user \in under
      BY <2>1, <1>t DEF Marked, Way
    <3>2. PICK k \in 1 .. Len(dbq) : dbq'[j] = dbq[k]
      BY <3>1, <2>1, <1>2
    <3> QED BY <3>2, <2>1, <1>t DEF Unique
  <2> QED BY <2>1, <1>2 DEF Unique, Busy
<1>7. Older'
  <2>0. \A k \in 1 .. Len(applied) : applied[k].id \in Nat
    BY <1>t, ReqFields DEF TypeInv
  <2>1. \A k \in 1 .. Len(applied) : applied[k].user # 0 => applied[k].id <= posted
    BY <1>t DEF Older
  <2>2. ASSUME NEW k \in 1 .. Len(applied), NEW n \in 1 .. Len(l) PROVE Before(applied[k], l[n])
    <3>1. CASE \E m \in 1 .. Len(list) : l[n] = list[m]
      BY <3>1, <1>t DEF Older
    <3>2. CASE l[n].id > posted
      <4>1. l[n].id \in Nat
        BY ReqFields
      <4> QED BY <4>1, <3>2, <2>0, <2>1, <1>0 DEF Before
    <3> QED BY <3>1, <3>2
  <2>3. ASSUME NEW k \in 1 .. Len(applied'), NEW n \in 1 .. Len(list')
        PROVE Before(applied[k], list[n])'
    BY <2>2, <1>2 DEF Before, Busy
  <2>4. \A k \in 1 .. Len(applied') : applied'[k].user # 0 => applied'[k].id <= posted'
    BY <2>0, <2>1, <1>0
  <2> QED BY <2>3, <2>4 DEF Older
<1>8. Success' /\ Waits' /\ Order'
  BY <1>t, <1>2 DEF Success, Waits, Order, Busy
<1> QED BY <1>3, <1>4, <1>5, <1>6, <1>7, <1>8 DEF IInv

\* PostDataBaseRequest.
LEMMA PostStep ==
  ASSUME IInv, NEW u \in Users, NEW kind \in Kinds, PostDataBaseRequest(u, kind)
  PROVE  IInv' /\ \A n \in 1 .. Len(list) : \E m \in 1 .. Len(list') : list'[m] = list[n]
<1> DEFINE r == [id |-> posted + 1, user |-> u, kind |-> kind]
           l == Append(list, r)
<1>0. TypeInv /\ Sorted
  BY DEF IInv
<1>1. /\ posted' = posted + 1 /\ PerformAmortisation(l, under) /\ UNCHANGED <<cur, applied>>
      /\ u = 0 => kind = "plain"
  BY DEF PostDataBaseRequest
<1>2. posted \in Nat /\ r \in Reqs /\ r.id = posted + 1 /\ (r.user = 0 => r.kind = "plain")
  BY <1>0, <1>1, UsersAssumption, KindsAssumption DEF TypeInv, Reqs
<1>3. list \in Seq(Reqs) /\ Ordered(list) /\ \A n \in 1 .. Len(list) : list[n].id < r.id
  <2>1. \A n \in 1 .. Len(list) : list[n].id \in Nat /\ list[n].id <= posted
    BY <1>0, ReqFields DEF TypeInv, Sorted
  <2> QED BY <2>1, <1>0, <1>2 DEF TypeInv, Sorted
<1> HIDE DEF r
<1>4. /\ l \in Seq(Reqs) /\ Ordered(l)
      /\ \A n \in 1 .. Len(l) : l[n] = r \/ \E m \in 1 .. Len(list) : l[n] = list[m]
      /\ \A n \in 1 .. Len(list) : \E m \in 1 .. Len(l) : l[m] = list[n]
      /\ \A x : Oldest(list, x) => Oldest(l, x)
  BY <1>2, <1>3, AppendLemma
<1> HIDE DEF l
<1>5. IInv'
  BY <1>1, <1>2, <1>4, GrowLemma
<1>6. list' = l
  BY <1>1 DEF PerformAmortisation
<1> QED BY <1>4, <1>5, <1>6

\* OnTimerNotify.
LEMMA TimerStep ==
  ASSUME IInv, OnTimerNotify
  PROVE  IInv'
<1>1. PerformAmortisation(list, under) /\ UNCHANGED <<cur, applied, posted>>
  BY DEF OnTimerNotify, counters
<1>2. list \in Seq(Reqs) /\ Ordered(list) /\ posted \in Nat
  BY DEF IInv, TypeInv, Sorted
<1> QED BY <1>1, <1>2, GrowLemma

\* OnPostRequestComplete.
LEMMA CompleteStep ==
  ASSUME IInv, OnPostRequestComplete
  PROVE  /\ IInv'
         /\ \A m \in 1 .. Len(list) :
              \/ \E k \in 1 .. Len(list') : list'[k] = list[m]
              \/ list[m].user = 0
              \/ list[m] = cur[1]
<1> DEFINE u == Completed(cur[1])
           s == Forget(list, u, cur[2])
<1>t. TypeInv /\ Sorted /\ Marked /\ Unique /\ Older /\ Success /\ Waits /\ Order
  BY DEF IInv
<1>1. Busy /\ PerformAmortisation(s, under \ {u}) /\ cur' = <<>> /\ UNCHANGED <<applied, posted>>
  BY DEF OnPostRequestComplete, Busy, counters
<1>u. u = 0 \/ u = cur[1].user
  BY DEF Completed
<1>k. cur[1].kind # "unhandled" => u = cur[1].user
  BY DEF Completed
<1>2. list \in Seq(Reqs) /\ Ordered(list) /\ dbq \in Seq(Reqs) /\ Once(dbq)
  BY <1>t DEF TypeInv, Sorted, Unique
<1>3. /\ s \in Seq(Reqs) /\ Ordered(s)
      /\ \A k \in 1 .. Len(s) : \E m \in 1 .. Len(list) : s[k] = list[m]
      /\ \A x : x.user # u /\ Oldest(list, x) => Oldest(s, x)
      /\ \A m \in 1 .. Len(list) :
           \/ \E k \in 1 .. Len(s) : s[k] = list[m]
           \/ /\ list[m].user = u
              /\ \A x : x.user = u /\ Oldest(list, x) => list[m] = x
      /\ \A x : x.user = u /\ Oldest(list, x) /\ (x.kind # "cached" \/ cur[2])
                  => \A k \in 1 .. Len(s) : s[k] # x
  BY <1>2, ForgetLemma
<1> HIDE DEF u, s
<1>4. Ways(s, under \ {u}, dbq)
  <2>0. SUFFICES ASSUME NEW j \in 1 .. Len(dbq) PROVE Way(s, under \ {u}, dbq[j])
    BY DEF Ways
  <2>1. dbq[j].user # 0 => dbq[j].user # u
    BY <1>1, <1>u, <1>t DEF Unique
  <2>2. dbq[j].user # 0 => dbq[j].user \in under /\ Oldest(list, dbq[j])
    BY <1>t DEF Marked, Ways, Way
  <2> QED BY <2>1, <2>2, <1>3 DEF Way
<1>a. list' = s /\ Amortised(dbq, s, under \ {u}, under', dbq')
  BY <1>1, <1>2, <1>3, <1>4, AmortiseLemma
<1>5. /\ list' = s /\ dbq' \in Seq(Reqs) /\ Once(dbq')
      /\ Ways(list', under', dbq')
      /\ \A n \in 1 .. Len(list') : list'[n].user \in under'
  BY <1>a DEF Amortised
<1>6. ~ Busy'
  BY <1>1 DEF Busy
<1>7. TypeInv'
  BY <1>1, <1>3, <1>5, <1>t DEF TypeInv
<1>8. Sorted'
  BY <1>1, <1>3, <1>5, <1>t DEF Sorted
<1>9. Marked' /\ Unique' /\ Success' /\ Waits'
  BY <1>5, <1>6 DEF Marked, Unique, Success, Waits
<1>10. Order'
  BY <1>1, <1>t DEF Order
<1>11. Older'
  <2>1. ASSUME NEW k \in 1 .. Len(applied), NEW n \in 1 .. Len(s),
               applied[k].user = s[n].user, applied[k].user # 0
        PROVE  applied[k].id < s[n].id
    <3>1. PICK m \in 1 .. Len(list) : s[n] = list[m]
      BY <1>3
    <3>2. Before(applied[k], list[m])
      BY <1>t DEF Older
    <3>3. SUFFICES ASSUME cur[1] = list[m], list[m].kind # "unhandled" PROVE FALSE
      BY <3>1, <3>2, <2>1 DEF Before
    <3>4. cur[1].user # 0 /\ u = cur[1].user /\ Oldest(list, cur[1])
      BY <3>1, <3>3, <2>1, <1>1, <1>k, <1>t DEF Marked, Way
    <3>5. cur[1].kind # "cached" \/ cur[2]
      BY <1>1, <1>t DEF Success
    <3> QED BY <3>1, <3>3, <3>4, <3>5, <1>3
  <2>2. \A k \in 1 .. Len(applied') : applied'[k].user # 0 => applied'[k].id <= posted'
    BY <1>1, <1>t DEF Older
  <2>3. \A k \in 1 .. Len(applied'), n \in 1 .. Len(list') : Before(applied[k], list[n])'
    BY <2>1, <1>1, <1>5 DEF Before
  <2> QED BY <2>2, <2>3 DEF Older
<1>12. ASSUME NEW m \in 1 .. Len(list), ~ \E k \in 1 .. Len(list') : list'[k] = list[m], list[m].user # 0
       PROVE  list[m] = cur[1]
  <2>1. list[m].user = u /\ \A x : x.user = u /\ Oldest(list, x) => list[m] = x
    BY <1>3, <1>5, <1>12
  <2>2. u = cur[1].user /\ Oldest(list, cur[1])
    BY <2>1, <1>1, <1>u, <1>12, <1>t DEF Marked, Way
  <2> QED BY <2>1, <2>2
<1> QED BY <1>7, <1>8, <1>9, <1>10, <1>11, <1>12 DEF IInv

\* OnDataBaseEngineRequest.
LEMMA ExecuteStep ==
  ASSUME IInv, NEW done \in BOOLEAN, OnDataBaseEngineRequest(done)
  PROVE  IInv'
<1> DEFINE r == Head(dbq)
<1>t. TypeInv /\ Sorted /\ Marked /\ Unique /\ Older /\ Success /\ Waits /\ Order
  BY DEF IInv
<1>1. /\ dbq # <<>> /\ dbq' = Tail(dbq) /\ UNCHANGED <<list, under, posted>>
      /\ cur' = <<r, Reported(r, done)>> /\ ~ Busy
      /\ done => r.kind # "unhandled"
      /\ applied' = IF done THEN Append(applied, r) ELSE applied
  BY DEF OnDataBaseEngineRequest, Busy
<1>q. /\ list \in Seq(Reqs) /\ dbq \in Seq(Reqs) /\ applied \in Seq(Reqs) /\ posted \in Nat
      /\ Len(dbq) \in Nat /\ Len(applied) \in Nat
  BY <1>t DEF TypeInv
<1>2. /\ dbq' \in Seq(Reqs) /\ Len(dbq') = Len(dbq) - 1 /\ Len(dbq) > 0 /\ r = dbq[1]
      /\ \A j \in 1 .. Len(dbq') : dbq'[j] = dbq[j + 1] /\ j + 1 \in 1 .. Len(dbq)
  BY <1>1, <1>q
<1>3. r \in Reqs /\ r.id \in Nat /\ r.user \in Nat /\ 1 \in 1 .. Len(dbq)
  BY <1>2, <1>q, ReqFields
<1>4. Way(list, under, r)
  BY <1>2, <1>3, <1>t DEF Marked, Ways
<1> HIDE DEF r
<1>5. Busy' /\ cur'[1] = r /\ cur'[2] = Reported(r, done) /\ Reported(r, done) \in BOOLEAN
  BY <1>1 DEF Busy, Reported
<1>6. applied' \in Seq(Reqs)
  BY <1>1, <1>3, <1>q
<1>7. TypeInv'
  BY <1>1, <1>2, <1>3, <1>5, <1>6, <1>q DEF TypeInv
<1>8. Sorted' /\ Waits'
  BY <1>1, <1>t DEF Sorted, Waits
<1>9. Marked'
  <2>1. \A j \in 1 .. Len(dbq') : Way(list, under, dbq'[j])
    BY <1>2, <1>t DEF Marked, Ways
  <2>2. list' = list /\ under' = under
    BY <1>1
  <2> QED BY <2>1, <2>2, <1>4, <1>5 DEF Marked, Ways
<1>10. Unique'
  <2>1. ASSUME NEW j \in 1 .. Len(dbq'), NEW k \in 1 .. Len(dbq'),
               dbq'[j].user = dbq'[k].user, dbq'[j].user # 0
        PROVE  j = k
    <3>1. j + 1 \in 1 .. Len(dbq) /\ k + 1 \in 1 .. Len(dbq)
          /\ dbq[j + 1].user = dbq[k + 1].user /\ dbq[j + 1].user # 0
      BY <2>1, <1>2
    <3>2. j + 1 = k + 1
      BY <3>1, <1>t DEF Unique, Once
    <3> QED BY <3>2, <1>2
  <2>2. ASSUME NEW j \in 1 .. Len(dbq'), dbq'[j].user = r.user, r.user # 0
        PROVE  FALSE
    <3>1. j + 1 \in 1 .. Len(dbq) /\ dbq[j + 1].user = dbq[1].user /\ dbq[1].user # 0
      BY <2>2, <1>2
    <3>2. j + 1 = 1
      BY <3>1, <1>3, <1>t DEF Unique, Once
    <3> QED BY <3>2, <1>2
  <2> QED BY <2>1, <2>2, <1>5 DEF Unique, Once
<1>11. Success'
  BY <1>5 DEF Success, Reported
<1>a. \A k \in 1 .. Len(applied') :
        \/ k \in 1 .. Len(applied) /\ applied'[k] = applied[k]
        \/ done /\ k = Len(applied) + 1 /\ applied'[k] = r
  BY <1>1, <1>3, <1>q
<1>o. ASSUME NEW k \in 1 .. Len(applied), NEW n \in 1 .. Len(list),
             applied[k].user = list[n].user, applied[k].user # 0
      PROVE  applied[k].id < list[n].id
  BY <1>o, <1>1, <1>t DEF Older, Before
<1>m. ASSUME r.user # 0
      PROVE  /\ \E m \in 1 .. Len(list) : list[m] = r
             /\ \A n \in 1 .. Len(list) : list[n].user = r.user => r.id <= list[n].id
             /\ r.id <= posted
  <2>1. Oldest(list, r)
    BY <1>m, <1>4 DEF Way
  <2>2. PICK m \in 1 .. Len(list) : list[m] = r
    BY <2>1 DEF Oldest
  <2>3. list[m].id <= posted
    BY <1>t DEF Sorted
  <2> QED BY <2>1, <2>2, <2>3 DEF Oldest
<1>12. Older'
  <2>1. ASSUME NEW k \in 1 .. Len(applied'), applied'[k].user # 0 PROVE applied'[k].id <= posted'
    BY <2>1, <1>1, <1>a, <1>m, <1>t DEF Older
  <2>2. ASSUME NEW k \in 1 .. Len(applied'), NEW n \in 1 .. Len(list),
               applied'[k].user = list[n].user, applied'[k].user # 0
        PROVE  \/ applied'[k].id < list[n].id
               \/ r = list[n] /\ applied'[k].id <= list[n].id /\ list[n].kind # "unhandled"
    <3>1. CASE k \in 1 .. Len(applied) /\ applied'[k] = applied[k]
      BY <3>1, <2>2, <1>o
    <3>2. CASE done /\ applied'[k] = r
      <4>1. PICK m \in 1 .. Len(list) : list[m] = r
        BY <3>2, <2>2, <1>m
      <4>2. r.id <= list[n].id /\ list[n].id \in Nat
        BY <3>2, <2>2, <1>m, <1>q, ReqFields
      <4>3. n # m => r.id # list[n].id
        <5>1. n < m \/ m < n \/ m = n
          BY <1>q
        <5>2. Ordered(list)
          BY <1>t DEF Sorted
        <5> QED BY <4>1, <4>2, <5>1, <5>2, <1>3 DEF Ordered
      <4> QED BY <3>2, <4>1, <4>2, <4>3, <1>1, <1>3
    <3> QED BY <3>1, <3>2, <1>a
  <2>3. ASSUME NEW k \in 1 .. Len(applied'), NEW n \in 1 .. Len(list')
        PROVE  Before(applied[k], list[n])'
    BY <2>2, <1>1, <1>5 DEF Before
  <2> QED BY <2>1, <2>3 DEF Older
<1>13. Order'
  <2>1. ASSUME NEW j \in 1 .. Len(applied'), NEW k \in 1 .. Len(applied'),
               applied'[j].user = applied'[k].user, applied'[j].user # 0, j < k
        PROVE  applied'[j].id < applied'[k].id
    <3>1. j \in 1 .. Len(applied) /\ applied'[j] = applied[j]
      BY <2>1, <1>a, <1>1, <1>q
    <3>2. CASE k \in 1 .. Len(applied) /\ applied'[k] = applied[k]
      BY <3>1, <3>2, <2>1, <1>t DEF Order
    <3>3. CASE applied'[k] = r
      <4>1. PICK m \in 1 .. Len(list) : list[m] = r
        BY <3>3, <2>1, <1>m
      <4> QED BY <4>1, <3>1, <3>3, <2>1, <1>o
    <3> QED BY <3>2, <3>3, <1>a
  <2> QED BY <2>1 DEF Order
<1> QED BY <1>7, <1>8, <1>9, <1>10, <1>11, <1>12, <1>13 DEF IInv

\* The queue of the engine loses its first request, or gets one of user 0, and the
\* manager sees nothing of it.
LEMMA QueueStep ==
  ASSUME IInv, DropRequest \/ RefreshOnlineUser
  PROVE  IInv'
<1>t. TypeInv /\ Sorted /\ Marked /\ Unique /\ Older /\ Success /\ Waits /\ Order
  BY DEF IInv
<1>1. UNCHANGED <<list, under, cur, applied>>
  BY DEF DropRequest, RefreshOnlineUser
<1>q. dbq \in Seq(Reqs) /\ Len(dbq) \in Nat /\ posted \in Nat
  BY <1>t DEF TypeInv
<1>2. posted' \in Nat /\ posted <= posted'
  BY <1>q DEF DropRequest, RefreshOnlineUser, counters
<1>3. RefreshRequest \in Reqs /\ RefreshRequest.user = 0
  BY DEF RefreshRequest, Reqs
<1>4. /\ dbq' \in Seq(Reqs)
      /\ \A j \in 1 .. Len(dbq') : dbq'[j].user # 0 =>
           (j \in 1 .. Len(dbq) /\ dbq'[j] = dbq[j]) \/ engine = "stopping"
      /\ engine = "stopping" =>
           \A j \in 1 .. Len(dbq') : j + 1 \in 1 .. Len(dbq) /\ dbq'[j] = dbq[j + 1]
  <2>1. CASE RefreshOnlineUser
    <3>1. dbq' = Append(dbq, RefreshRequest) /\ engine = "running"
      BY <2>1 DEF RefreshOnlineUser
    <3>2. dbq' \in Seq(Reqs) /\ \A j \in 1 .. Len(dbq') :
            (j \in 1 .. Len(dbq) /\ dbq'[j] = dbq[j]) \/ dbq'[j] = RefreshRequest
      BY <3>1, <1>3, <1>q
    <3> QED BY <3>1, <3>2, <1>3
  <2>2. CASE DropRequest
    <3>1. dbq # <<>> /\ dbq' = Tail(dbq) /\ engine = "stopping"
      BY <2>2 DEF DropRequest
    <3> QED BY <3>1, <1>q
  <2> QED BY <2>1, <2>2
<1>5. TypeInv'
  BY <1>1, <1>2, <1>4, <1>t DEF TypeInv
<1>6. Marked'
  <2>1. \A j \in 1 .. Len(dbq') : Way(list, under, dbq'[j])
    BY <1>4, <1>t DEF Marked, Ways, Way
  <2>2. list' = list /\ under' = under /\ cur' = cur
    BY <1>1
  <2> QED BY <2>1, <2>2, <1>t DEF Marked, Ways, Busy
<1>7. Unique'
  <2>1. ASSUME NEW j \in 1 .. Len(dbq'), NEW k \in 1 .. Len(dbq'),
               dbq'[j].user = dbq'[k].user, dbq'[j].user # 0
        PROVE  j = k
    <3>1. CASE engine = "stopping"
      <4>1. j + 1 \in 1 .. Len(dbq) /\ k + 1 \in 1 .. Len(dbq)
            /\ dbq[j + 1].user = dbq[k + 1].user /\ dbq[j + 1].user # 0
        BY <3>1, <2>1, <1>4
      <4>2. j + 1 = k + 1
        BY <4>1, <1>t DEF Unique, Once
      <4>3. j \in Int /\ k \in Int
        OBVIOUS
      <4> QED BY <4>2, <4>3
    <3>2. CASE engine # "stopping"
      BY <3>2, <2>1, <1>4, <1>t DEF Unique, Once
    <3> QED BY <3>1, <3>2
  <2>2. ASSUME Busy, NEW j \in 1 .. Len(dbq'), dbq'[j].user = cur[1].user, cur[1].user # 0
        PROVE  FALSE
    BY <2>2, <1>4, <1>t DEF Unique
  <2> QED BY <2>1, <2>2, <1>1 DEF Unique, Once, Busy
<1>8. Sorted'
  <2>1. \A n \in 1 .. Len(list) : list[n].id \in Nat
    BY <1>t, ReqFields DEF TypeInv
  <2> QED BY <2>1, <1>1, <1>2, <1>q, <1>t DEF Sorted
<1>9. Older'
  <2>1. \A k \in 1 .. Len(applied) : applied[k].id \in Nat
    BY <1>t, ReqFields DEF TypeInv
  <2>2. \A k \in 1 .. Len(applied') : applied'[k].user # 0 => applied'[k].id <= posted'
    BY <2>1, <1>1, <1>2, <1>q, <1>t DEF Older
  <2>3. \A k \in 1 .. Len(applied'), n \in 1 .. Len(list') : Before(applied[k], list[n])'
    BY <1>1, <1>t DEF Older, Before, Busy
  <2> QED BY <2>2, <2>3 DEF Older
<1>10. Success' /\ Waits' /\ Order'
  BY <1>1, <1>t DEF Success, Waits, Order, Busy
<1> QED BY <1>5, <1>6, <1>7, <1>8, <1>9, <1>10 DEF IInv

\* ConcludeService, StartService and steps that change nothing.
LEMMA EngineStep ==
  ASSUME IInv, UNCHANGED <<list, under, dbq, cur, applied, posted>>
  PROVE  IInv'
<1>t. TypeInv /\ Sorted /\ Marked /\ Unique /\ Older /\ Success /\ Waits /\ Order
  BY DEF IInv
<1>1. TypeInv' /\ Sorted'
  BY <1>t DEF TypeInv, Sorted
<1>2. Marked' /\ Unique'
  BY <1>t DEF Marked, Unique, Busy
<1>3. Older' /\ Success' /\ Waits' /\ Order'
  BY <1>t DEF Older, Before, Success, Waits, Order, Busy
<1> QED BY <1>1, <1>2, <1>3 DEF IInv

\* Concluded clears the manager when nothing is under way.
LEMMA ConcludedStep ==
  ASSUME IInv, Concluded
  PROVE  IInv'
<1>t. TypeInv /\ Older /\ Order
  BY DEF IInv
<1>1. /\ list' = <<>> /\ under' = {} /\ dbq' = <<>> /\ cur' = <<>> /\ UNCHANGED <<applied, posted>>
  BY DEF Concluded, counters
<1>2. TypeInv' /\ Sorted' /\ Order'
  BY <1>1, <1>t DEF TypeInv, Sorted, Ordered, Order
<1>3. Marked' /\ Unique' /\ Success' /\ Waits'
  BY <1>1 DEF Marked, Ways, Unique, Once, Success, Waits, Busy
<1>4. Older'
  BY <1>1, <1>t DEF Older
<1> QED BY <1>2, <1>3, <1>4 DEF IInv

\* The inductive invariant.
LEMMA Invariance ==
  ASSUME IInv, [Next]_vars
  PROVE  IInv'
<1>1. ASSUME NEW u \in Users, NEW kind \in Kinds, PostDataBaseRequest(u, kind) PROVE IInv'
  BY <1>1, PostStep
<1>2. CASE RefreshOnlineUser \/ DropRequest
  BY <1>2, QueueStep
<1>3. CASE OnTimerNotify
  BY <1>3, TimerStep
<1>4. ASSUME NEW done \in BOOLEAN, OnDataBaseEngineRequest(done) PROVE IInv'
  BY <1>4, ExecuteStep
<1>5. CASE OnPostRequestComplete
  BY <1>5, CompleteStep
<1>6. CASE ConcludeService \/ StartService \/ UNCHANGED vars
  <2>1. UNCHANGED <<list, under, dbq, cur, applied, posted>>
    BY <1>6 DEF ConcludeService, StartService, vars, counters
  <2> QED BY <2>1, EngineStep
<1>7. CASE Concluded
  BY <1>7, ConcludedStep
<1> QED BY <1>1, <1>2, <1>3, <1>4, <1>5, <1>6, <1>7 DEF Next, DataBaseThread

\* The inductive invariant holds.
LEMMA Inductive == Spec => []IInv
<1>1. Init => IInv
  BY DEF Init, IInv, TypeInv, Sorted, Ordered, Marked, Ways, Unique, Once, Older, Success, Waits,
         Order, Busy
<1>2. IInv /\ [Next]_vars => IInv'
  BY Invariance
<1> QED BY <1>1, <1>2, PTL DEF Spec

-----------------------------------------------------------------------------
(* The properties.                                                         *)

\* The database never has two requests of one user: OnPostRequestComplete may
\* take the first request of the user for the one that is complete.
THEOREM OneUnderWayTheorem == Spec => []OneUnderWay
<1>1. IInv => OneUnderWay
  <2> SUFFICES ASSUME IInv PROVE OneUnderWay
    OBVIOUS
  <2>t. TypeInv /\ Unique
    BY DEF IInv
  <2>q. dbq \in Seq(Reqs) /\ Len(dbq) \in Nat
    BY <2>t DEF TypeInv
  <2>1. CASE ~ Busy
    <3>1. UnderWay = dbq
      BY <2>1, <2>q DEF UnderWay, Busy
    <3> QED BY <3>1, <2>q, <2>t DEF OneUnderWay, Unique, Once
  <2>2. CASE Busy
    <3>1. UnderWay = dbq \o <<cur[1]>> /\ cur[1] \in Reqs
      BY <2>2, <2>t, CurFields DEF UnderWay, Busy
    <3>2. /\ DOMAIN UnderWay = 1 .. (Len(dbq) + 1) /\ UnderWay[Len(dbq) + 1] = cur[1]
          /\ \A j \in 1 .. Len(dbq) : UnderWay[j] = dbq[j]
      BY <3>1, <2>q
    <3>3. SUFFICES ASSUME NEW j \in 1 .. (Len(dbq) + 1), NEW k \in 1 .. (Len(dbq) + 1),
                          UnderWay[j].user = UnderWay[k].user, UnderWay[j].user # 0
                   PROVE  j = k
      BY <3>2 DEF OneUnderWay
    <3>4. \A i \in 1 .. (Len(dbq) + 1) : i = Len(dbq) + 1 \/ i \in 1 .. Len(dbq)
      BY <2>q
    <3>5. CASE j \in 1 .. Len(dbq) /\ k \in 1 .. Len(dbq)
      BY <3>2, <3>3, <3>5, <2>t DEF Unique, Once
    <3>6. CASE j \in 1 .. Len(dbq) /\ k = Len(dbq) + 1
      BY <3>2, <3>3, <3>6, <2>2, <2>t DEF Unique
    <3>7. CASE k \in 1 .. Len(dbq) /\ j = Len(dbq) + 1
      BY <3>2, <3>3, <3>7, <2>2, <2>t DEF Unique
    <3> QED BY <3>4, <3>5, <3>6, <3>7
  <2> QED BY <2>1, <2>2
<1> QED BY <1>1, Inductive, PTL

\* The requests of a user are executed in the order of their posts and at most
\* once, whatever the database fails to do and however often the service is
\* restarted.
THEOREM UserOrderTheorem == Spec => []UserOrder
<1>1. IInv => UserOrder
  BY DEF IInv, TypeInv, Order, UserOrder
<1> QED BY <1>1, Inductive, PTL

\* A request in the list waits only for one of its user: the timer of
\* PerformAmortisation has nothing to do.
THEOREM NothingWaitsTheorem == Spec => []NothingWaits
<1>1. IInv => NothingWaits
  BY DEF IInv, TypeInv, Waits, NothingWaits, Range
<1> QED BY <1>1, Inductive, PTL

\* The statement of a cached request at hand is in the database or has failed.
Listed(s, r) == \E k \in 1 .. Len(s) : s[k] = r
Carried == /\ failed \in Seq(Reqs)
           /\ Busy /\ cur[1].kind = "cached" => Listed(applied, cur[1]) \/ Listed(failed, cur[1])

\* Appending to a list of requests.
LEMMA ListedAppend ==
  ASSUME NEW s \in Seq(Reqs), NEW r \in Reqs
  PROVE  Append(s, r) \in Seq(Reqs) /\ Listed(Append(s, r), r)
<1>1. Len(s) + 1 \in 1 .. Len(Append(s, r)) /\ Append(s, r)[Len(s) + 1] = r
  OBVIOUS
<1> QED BY <1>1 DEF Listed

\* A cached request leaves the list of a running service only when it was executed
\* or when its own statement failed, whatever fails: completion by the user's
\* name does not take another request than the one at hand off the list.
THEOREM CachedKeptTheorem == Spec => CachedKept
<1>1. Init => Carried
  BY EmptySeq DEF Init, Carried, Busy
<1>2. ASSUME IInv, Carried, [Next]_vars PROVE Carried'
  <2>1. CASE UNCHANGED <<cur, applied, failed>>
    BY <2>1, <1>2 DEF Carried, Busy
  <2>2. CASE OnPostRequestComplete
    BY <2>2, <1>2 DEF OnPostRequestComplete, counters, Carried, Busy
  <2>3. ASSUME NEW done \in BOOLEAN, OnDataBaseEngineRequest(done) PROVE Carried'
    <3> DEFINE r == Head(dbq)
    <3>1. /\ dbq # <<>> /\ cur' = <<r, Reported(r, done)>>
          /\ applied' = IF done THEN Append(applied, r) ELSE applied
          /\ failed' = IF done \/ r.kind = "unhandled" THEN failed ELSE Append(failed, r)
      BY <2>3 DEF OnDataBaseEngineRequest
    <3>2. applied \in Seq(Reqs) /\ failed \in Seq(Reqs) /\ r \in Reqs /\ cur'[1] = r
      BY <3>1, <1>2, HeadTailProperties DEF IInv, TypeInv, Carried
    <3> HIDE DEF r
    <3>3. failed' \in Seq(Reqs)
      BY <3>1, <3>2, ListedAppend
    <3>4. r.kind = "cached" => Listed(applied', r) \/ Listed(failed', r)
      BY <3>1, <3>2, ListedAppend
    <3> QED BY <3>2, <3>3, <3>4 DEF Carried
  <2>4. \A u \in Users, kind \in Kinds : PostDataBaseRequest(u, kind) => UNCHANGED <<cur, applied, failed>>
    BY DEF PostDataBaseRequest
  <2>5. RefreshOnlineUser \/ OnTimerNotify \/ DropRequest \/ ConcludeService \/ Concluded
          \/ StartService \/ UNCHANGED vars => UNCHANGED <<cur, applied, failed>>
    BY DEF RefreshOnlineUser, OnTimerNotify, DropRequest, ConcludeService, Concluded, StartService, vars, counters
  <2> QED BY <2>1, <2>2, <2>3, <2>4, <2>5, <1>2 DEF Next, DataBaseThread
<1> DEFINE Kept == \A r \in Range(list) \ Range(list') :
                     r.kind = "cached" /\ engine' # "stopped"
                       => r \in Range(applied) \cup Range(failed)
<1>3. ASSUME IInv, IInv', Carried, [Next]_vars PROVE Kept
  <2>s. list \in Seq(Reqs) /\ list' \in Seq(Reqs) /\ applied \in Seq(Reqs)
        /\ failed \in Seq(Reqs)
    BY <1>3 DEF IInv, TypeInv, Carried
  <2>t. /\ \A r : r \in Range(list) <=> Listed(list, r)
        /\ \A r : r \in Range(list') <=> Listed(list', r)
        /\ \A r : r \in Range(applied) <=> Listed(applied, r)
        /\ \A r : r \in Range(failed) <=> Listed(failed, r)
    BY <2>s DEF Range, Listed
  <2>r. SUFFICES ASSUME NEW m \in 1 .. Len(list), ~ \E k \in 1 .. Len(list') : list'[k] = list[m],
                        list[m].kind = "cached", engine' # "stopped"
                 PROVE  Listed(applied, list[m]) \/ Listed(failed, list[m])
    <3>1. SUFFICES ASSUME NEW r \in Range(list) \ Range(list'), r.kind = "cached",
                          engine' # "stopped"
                   PROVE  r \in Range(applied) \cup Range(failed)
      OBVIOUS
    <3>2. PICK m \in 1 .. Len(list) : list[m] = r
      BY <2>t DEF Listed
    <3>3. ~ \E k \in 1 .. Len(list') : list'[k] = list[m]
      BY <2>t, <3>2 DEF Listed
    <3> QED BY <2>r, <2>t, <3>1, <3>2, <3>3
  <2>1. list' # list
    BY <2>r
  <2>2. CASE OnPostRequestComplete
    <3>1. list[m].user = 0 \/ list[m] = cur[1]
      BY <2>2, <2>r, <1>3, CompleteStep
    <3>2. list[m].user # 0
      BY <2>r, <1>3 DEF IInv, Sorted
    <3>3. Busy
      BY <2>2 DEF OnPostRequestComplete, Busy
    <3> QED BY <3>1, <3>2, <3>3, <2>r, <1>3 DEF Carried
  <2>3. ASSUME NEW u \in Users, NEW kind \in Kinds, PostDataBaseRequest(u, kind) PROVE FALSE
    BY <2>3, <2>r, <1>3, PostStep
  <2>4. \A done \in BOOLEAN : ~ OnDataBaseEngineRequest(done)
    BY <2>1 DEF OnDataBaseEngineRequest
  <2>5. ~ (RefreshOnlineUser \/ OnTimerNotify \/ DropRequest \/ ConcludeService \/ Concluded
             \/ StartService \/ UNCHANGED vars)
    BY <2>1, <2>r DEF RefreshOnlineUser, OnTimerNotify, PerformAmortisation, DropRequest,
                      ConcludeService, Concluded, StartService, vars
  <2> QED BY <2>2, <2>3, <2>4, <2>5, <1>3 DEF Next, DataBaseThread
<1>4. IInv /\ IInv' /\ Carried /\ [Next]_vars => [Kept]_vars
  BY <1>3
<1> HIDE DEF Kept
<1>5. Spec => [][Kept]_vars
  BY <1>1, <1>2, <1>4, Inductive, PTL DEF Spec
<1> QED BY <1>5 DEF CachedKept, Kept
=============================================================================
