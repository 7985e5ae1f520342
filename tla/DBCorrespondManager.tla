-------------------------- MODULE DBCorrespondManager --------------------------
(***************************************************************************)
(* CDBCorrespondManager (DBCorrespondManager.cpp) with the kernel database *)
(* engine it posts to (DataBase.cpp, DataBaseEngineSink.cpp).  The manager *)
(* keeps the requests of the game server and lets at most one request of a *)
(* user be under way; the database thread executes one request after the   *)
(* other and reports completion to the manager.  Requests of the server    *)
(* itself have user 0.                                                     *)
(*                                                                         *)
(* A request is the number of its post, its user and its kind: "plain",    *)
(* "cached" (cbCache TRUE: a score or a leave record, to be repeated until  *)
(* it succeeds) or "unhandled" (a request for which                        *)
(* OnDataBaseEngineRequest has no case).                                   *)
(***************************************************************************)
EXTENDS Integers, SequencesExt

CONSTANTS Users,        \* users with requests, 0 the server itself
          Kinds,        \* kinds of requests that are posted
          Refresh,      \* TRUE: REFRESH_ONLINE_USER goes to the engine directly
          Faults,       \* kinds of requests that the database may fail to carry out
          MaxRequests,  \* bound on the requests posted
          MaxStops,     \* bound on the stops of the service
          MaxFailures   \* bound on the failures of the database

ASSUME UsersAssumption == Users \subseteq Nat
ASSUME KindsAssumption == /\ Kinds \subseteq {"plain", "cached", "unhandled"}
                          /\ Faults \subseteq Kinds

VARIABLES list,      \* m_DBRequestList
          under,     \* m_DBRequestUserArray, as a set: no user is added twice
          dbq,       \* the queue of the kernel database engine
          cur,       \* <<>>, or the request executed and the success it reports
          applied,   \* requests the database has executed, in order
          engine,    \* "running", "stopping" (m_bService FALSE), "stopped"
          failed,    \* history: requests whose statement was not carried out
          posted, stops

counters == <<failed, posted, stops>>
vars == <<list, under, dbq, cur, applied, engine, counters>>

Requests == [id : 1 .. MaxRequests, user : Users, kind : Kinds]
RefreshRequest == [id |-> 0, user |-> 0, kind |-> "plain"]

Init ==
    /\ list = <<>> /\ under = {} /\ dbq = <<>> /\ cur = <<>>
    /\ applied = <<>> /\ engine = "running"
    /\ failed = <<>> /\ posted = 0 /\ stops = 0

-----------------------------------------------------------------------------
(* The manager; every call holds m_AsyncCritical.                          *)

\* Faulty variant: the loop does not see the users it has just added.
PerformAll(l, u) ==
    LET ready == SelectSeq(l, LAMBDA r : r.user \notin u)
    IN [under |-> u \cup {r.user : r \in Range(ready)}, posts |-> ready]

\* The loop of PerformAmortisation over the list l posts every request whose user
\* is not among those under way, and adds the user to them.
Perform(l, u) ==
    LET after[n \in 0 .. Len(l)] ==
          IF n = 0 THEN [under |-> u, posts |-> <<>>]
          ELSE IF l[n].user \in after[n - 1].under THEN after[n - 1]
          ELSE [under |-> after[n - 1].under \cup {l[n].user},
                posts |-> Append(after[n - 1].posts, l[n])]
    IN after[Len(l)]

PerformAmortisation(l, u) ==
    /\ list' = l
    /\ dbq' = dbq \o Perform(l, u).posts
    /\ under' = Perform(l, u).under

\* AmortizeSyncData puts the request at the end of the list.
PostDataBaseRequest(u, kind) ==
    /\ engine = "running" /\ posted < MaxRequests
    /\ u = 0 => kind = "plain"
    /\ posted' = posted + 1
    /\ PerformAmortisation(
         Append(list, [id |-> posted + 1, user |-> u, kind |-> kind]), under)
    /\ UNCHANGED <<cur, applied, engine, failed, stops>>

\* Faulty variant: the handlers of scores do not report the user.
CompletedPlain(r) == IF r.kind = "plain" THEN r.user ELSE 0

\* The user whose request is complete.  OnDataBaseEngineRequest learns it from the
\* handler of the request; without a handler it stays 0.
Completed(r) == IF r.kind = "unhandled" THEN 0 ELSE r.user

\* The place of the first request of the user in the list, 0 if there is none.
First(l, u) == SelectInSeq(l, LAMBDA r : r.user = u)

\* Faulty variant: the loop does not stop at the first request of the user.
ForgetAll(l, u, ok) ==
    SelectSeq(l, LAMBDA r : ~(r.user = u /\ (r.kind # "cached" \/ ok)))

\* Faulty variant: a cached request stays even if it succeeded.
ForgetPlain(l, u, ok) ==
    LET n == First(l, u)
    IN IF n # 0 /\ l[n].kind # "cached" THEN RemoveAt(l, n) ELSE l

\* The first request of the user leaves the list, unless it is to be repeated.
Forget(l, u, ok) ==
    LET n == First(l, u)
    IN IF n # 0 /\ (l[n].kind # "cached" \/ ok) THEN RemoveAt(l, n) ELSE l

\* Faulty variant: does not look for requests that may go now.
CompleteOnly ==
    /\ cur # <<>>
    /\ LET u == Completed(cur[1])
       IN list' = Forget(list, u, cur[2]) /\ under' = under \ {u}
    /\ cur' = <<>>
    /\ UNCHANGED <<dbq, applied, engine, counters>>

OnPostRequestComplete ==
    /\ cur # <<>>
    /\ LET u == Completed(cur[1])
       IN PerformAmortisation(Forget(list, u, cur[2]), under \ {u})
    /\ cur' = <<>>
    /\ UNCHANGED <<applied, engine, counters>>

\* OnTimerNotify, every TIME_DBCORRESPOND_NOTIFY seconds.
OnTimerNotify ==
    /\ engine = "running"
    /\ PerformAmortisation(list, under)
    /\ UNCHANGED <<cur, applied, engine, counters>>

-----------------------------------------------------------------------------
(* The database engine.                                                    *)

\* A request of the attemper sink that does not pass the manager.
RefreshOnlineUser ==
    /\ Refresh /\ engine = "running" /\ posted < MaxRequests
    /\ posted' = posted + 1
    /\ dbq' = Append(dbq, RefreshRequest)
    /\ UNCHANGED <<list, under, cur, applied, engine, failed, stops>>

\* What the handler of a request returns.  The handlers of scores and leave
\* records ignore the result of ExecuteProcess and return true.
Reported(r, done) == done \/ r.kind = "cached"

\* OnDataBaseEngineRequest runs the handler; a statement that is not carried
\* out leaves nothing in the database.
OnDataBaseEngineRequest(done) ==
    /\ engine = "running" /\ cur = <<>> /\ dbq # <<>>
    /\ LET r == Head(dbq)
       IN /\ done => r.kind # "unhandled"
          /\ ~done => \/ r.kind = "unhandled"
                      \/ r.kind \in Faults /\ Len(failed) < MaxFailures
          /\ failed' = IF done \/ r.kind = "unhandled" THEN failed ELSE Append(failed, r)
          /\ cur' = <<r, Reported(r, done)>>
          /\ applied' = IF done THEN Append(applied, r) ELSE applied
    /\ dbq' = Tail(dbq)
    /\ UNCHANGED <<list, under, engine, posted, stops>>

\* ConcludeService of the engine: m_bService is cleared first.
ConcludeService ==
    /\ engine = "running" /\ stops < MaxStops
    /\ stops' = stops + 1
    /\ engine' = "stopping"
    /\ UNCHANGED <<list, under, dbq, cur, applied, failed, posted>>

\* OnQueueServiceSink returns at once while m_bService is false: the request is
\* taken off the queue and lost.
DropRequest ==
    /\ engine = "stopping" /\ cur = <<>> /\ dbq # <<>>
    /\ dbq' = Tail(dbq)
    /\ UNCHANGED <<list, under, cur, applied, engine, counters>>

\* The queue of the engine is through; then the manager is cleared.
Concluded ==
    /\ engine = "stopping" /\ cur = <<>> /\ dbq = <<>>
    /\ engine' = "stopped"
    /\ list' = <<>> /\ under' = {}
    /\ UNCHANGED <<dbq, cur, applied, counters>>

StartService ==
    /\ engine = "stopped"
    /\ engine' = "running"
    /\ UNCHANGED <<list, under, dbq, cur, applied, counters>>

DataBaseThread == \/ \E done \in BOOLEAN : OnDataBaseEngineRequest(done)
                  \/ OnPostRequestComplete
                  \/ DropRequest

Next == \/ \E u \in Users, kind \in Kinds : PostDataBaseRequest(u, kind)
        \/ RefreshOnlineUser \/ OnTimerNotify
        \/ DataBaseThread
        \/ ConcludeService \/ Concluded \/ StartService

Spec == Init /\ [][Next]_vars

\* The database thread runs.
FairSpec == Spec /\ WF_vars(DataBaseThread)

-----------------------------------------------------------------------------
(* Properties.                                                             *)

UnderWay == dbq \o (IF cur = <<>> THEN <<>> ELSE <<cur[1]>>)

\* The database never has two requests of one user (the server's own requests
\* aside), so that a score cannot overtake another score of the same user.
OneUnderWay ==
    \A j, k \in DOMAIN UnderWay :
      UnderWay[j].user = UnderWay[k].user /\ UnderWay[j].user # 0 => j = k

\* The requests of a user are executed in the order of their posts and at most
\* once, through failures, repeats and restarts.
UserOrder ==
    \A j, k \in DOMAIN applied :
      applied[j].user = applied[k].user /\ applied[j].user # 0 /\ j < k
        => applied[j].id < applied[k].id

\* A request waits only for another request of its user that is under way; the
\* timer never finds anything to do.
NothingWaits == engine = "running" => \A r \in Range(list) : r.user \in under

\* A cached request (a score, a leave record) leaves the list of a running
\* service only when the database has executed it, or when its own statement
\* failed and was reported as done: completion, which names only the user, never
\* takes another request off the list.
CachedKept ==
    [][\A r \in Range(list) \ Range(list') :
         r.kind = "cached" /\ engine' # "stopped"
           => r \in Range(applied) \cup Range(failed)]_vars

\* A cached request gets its turn at the database in the end, unless the service
\* stops.
CachedExecuted ==
    \A i \in 1 .. MaxRequests :
      (\E r \in Range(list) : r.id = i /\ r.kind = "cached")
        ~> \/ engine # "running"
           \/ \E r \in Range(applied) \cup Range(failed) : r.id = i

\* What cbCache is for: a cached request stays in the list of a running service
\* until the database has executed it.
CachedRepeated ==
    [][\A r \in Range(list) \ Range(list') :
         r.kind = "cached" /\ engine' # "stopped" => r \in Range(applied)]_vars
=============================================================================
