----------------------------- MODULE QueueService -----------------------------
(***************************************************************************)
(* CQueueService (QueueService.cpp): the queue with one thread that every  *)
(* engine uses to hand packets to its sink.  AddToQueue stores the packet  *)
(* and posts a completion; the thread takes a completion and then the      *)
(* packet at the head of the queue, two steps with the lock free between   *)
(* them.  ConcludeService runs on the thread that controls the service.    *)
(*                                                                         *)
(* The queue itself is the first-in first-out queue of FifoQueue; a packet *)
(* is the number of its post.                                              *)
(***************************************************************************)
EXTENDS Naturals, Sequences, Functions

CONSTANTS MaxPosts,   \* bound on the packets posted
          MaxStarts,  \* bound on the starts of the service
          Late        \* TRUE: packets are also posted while the service is
                      \* stopped, as a queued socket notification does

ASSUME BoundsAssumption == MaxPosts \in Nat /\ MaxStarts \in Nat
ASSUME LateAssumption == Late \in BOOLEAN

VARIABLES queue,     \* m_DataQueue
          port,      \* completions in m_hCompletionPort: "data" or "exit"
          open,      \* m_hCompletionPort # NULL
          bService,  \* m_bService
          bRun,      \* CYSThread::m_bRun of the queue thread
          thread,    \* where the queue thread is
          handling,  \* the packet the sink is busy with, 0 if none
          handled,   \* the packets the sink has finished
          pc,        \* where ConcludeService is
          due,       \* the packets ConcludeService has to wait for
          posted,    \* number of packets posted
          starts     \* number of starts

serviceVars == <<open, bService, pc, due, starts>>
threadVars == <<thread, handling, handled>>
vars == <<queue, port, open, bService, bRun, thread, handling, handled, pc,
          due, posted, starts>>

Alive == thread \in {"waiting", "fetching", "busy"}

Init ==
    /\ queue = <<>> /\ port = <<>> /\ open = FALSE
    /\ bService = FALSE /\ bRun = FALSE
    /\ thread = "none" /\ handling = 0 /\ handled = {}
    /\ pc = "idle" /\ due = {} /\ posted = 0 /\ starts = 0

-----------------------------------------------------------------------------
(* Posting.                                                                *)

\* Faulty variant: a completion only for the first packet of a batch.
AddCoalesced ==
    /\ posted < MaxPosts
    /\ Late \/ open \/ pc # "idle"
    /\ posted' = posted + 1
    /\ queue' = Append(queue, posted + 1)
    /\ port' = IF open /\ queue = <<>> THEN Append(port, "data") ELSE port
    /\ UNCHANGED <<serviceVars, threadVars, bRun>>

\* PostQueuedCompletionStatus fails while there is no port; AddToQueue does not
\* look at its result.
AddToQueue ==
    /\ posted < MaxPosts
    /\ Late \/ open \/ pc # "idle"
    /\ posted' = posted + 1
    /\ queue' = Append(queue, posted + 1)
    /\ port' = IF open THEN Append(port, "data") ELSE port
    /\ UNCHANGED <<serviceVars, threadVars, bRun>>

-----------------------------------------------------------------------------
(* The queue thread.                                                       *)

TakeData ==
    /\ thread = "waiting" /\ port # <<>> /\ Head(port) = "data"
    /\ port' = Tail(port)
    /\ thread' = "fetching"
    /\ UNCHANGED <<serviceVars, queue, bRun, handling, handled, posted>>

TakeExit ==
    /\ thread = "waiting" /\ port # <<>> /\ Head(port) = "exit"
    /\ port' = Tail(port)
    /\ thread' = "ended"
    /\ UNCHANGED <<serviceVars, queue, bRun, handling, handled, posted>>

\* The thread goes round its loop while m_bRun is set.
LoopOn == thread' = IF bRun THEN "waiting" ELSE "ended"

\* Faulty variant: the newest packet first.
GetDataNewest ==
    /\ thread = "fetching"
    /\ IF queue = <<>>
         THEN LoopOn /\ UNCHANGED <<queue, handling>>
         ELSE /\ handling' = queue[Len(queue)]
              /\ queue' = SubSeq(queue, 1, Len(queue) - 1)
              /\ thread' = "busy"
    /\ UNCHANGED <<serviceVars, port, bRun, handled, posted>>

\* GetData; without a packet the thread only goes round.
GetData ==
    /\ thread = "fetching"
    /\ IF queue = <<>>
         THEN LoopOn /\ UNCHANGED <<queue, handling>>
         ELSE /\ handling' = Head(queue)
              /\ queue' = Tail(queue)
              /\ thread' = "busy"
    /\ UNCHANGED <<serviceVars, port, bRun, handled, posted>>

\* OnQueueServiceThread returns from the sink.
OnQueueServiceThread ==
    /\ thread = "busy"
    /\ handled' = handled \cup {handling}
    /\ handling' = 0
    /\ LoopOn
    /\ UNCHANGED <<serviceVars, queue, port, bRun, posted>>

-----------------------------------------------------------------------------
(* StartService and ConcludeService.                                       *)

StartThread == thread' = "waiting" /\ bRun' = TRUE

\* Faulty variant: the new port starts with a completion.
StartReposts ==
    /\ pc = "idle" /\ ~open /\ ~bService
    /\ starts < MaxStarts
    /\ starts' = starts + 1
    /\ open' = TRUE /\ bService' = TRUE
    /\ port' = <<"data">>
    /\ StartThread
    /\ UNCHANGED <<queue, handling, handled, pc, due, posted>>

StartService ==
    /\ pc = "idle" /\ ~open /\ ~bService
    /\ starts < MaxStarts
    /\ starts' = starts + 1
    /\ open' = TRUE /\ bService' = TRUE
    /\ port' = <<>>
    /\ StartThread
    /\ UNCHANGED <<queue, handling, handled, pc, due, posted>>

\* ConcludeService is called; it waits only for a service that runs.
ConcludeService ==
    /\ pc = "idle"
    /\ pc' = IF bService THEN "draining" ELSE "posting"
    /\ due' = IF bService THEN Range(queue) \cup ({handling} \ {0}) ELSE {}
    /\ UNCHANGED <<queue, port, open, bService, bRun, threadVars, posted, starts>>

\* Faulty variant: does not wait for the queue to become empty.
DrainSkipped ==
    /\ pc = "draining"
    /\ pc' = "leaving"
    /\ UNCHANGED <<queue, port, open, bService, bRun, threadVars, due, posted, starts>>

\* The loop with Sleep(30) counts no packet.  The lock is free again when it is
\* left: others still post.
Drained ==
    /\ pc = "draining" /\ queue = <<>>
    /\ pc' = "leaving"
    /\ UNCHANGED <<queue, port, open, bService, bRun, threadVars, due, posted, starts>>

\* m_bService is cleared without the lock.
LeaveService ==
    /\ pc = "leaving"
    /\ bService' = FALSE
    /\ pc' = "posting"
    /\ UNCHANGED <<queue, port, open, bRun, threadVars, due, posted, starts>>

\* Faulty variant: forgets to wake the thread.
ExitForgotten ==
    /\ pc = "posting"
    /\ pc' = "stopping"
    /\ UNCHANGED <<queue, port, open, bService, bRun, threadVars, due, posted, starts>>

PostExit ==
    /\ pc = "posting"
    /\ port' = IF open THEN Append(port, "exit") ELSE port
    /\ pc' = "stopping"
    /\ UNCHANGED <<queue, open, bService, bRun, threadVars, due, posted, starts>>

\* ConcludeThread: m_bRun is cleared if the thread still runs.
StopThread ==
    /\ pc = "stopping"
    /\ bRun' = IF Alive THEN FALSE ELSE bRun
    /\ pc' = "joining"
    /\ UNCHANGED <<queue, port, open, bService, threadVars, due, posted, starts>>

Joined ==
    /\ pc = "joining" /\ ~Alive
    /\ thread' = "none"
    /\ pc' = "closing"
    /\ UNCHANGED <<queue, port, open, bService, bRun, handling, handled, due,
                   posted, starts>>

ClosePort ==
    /\ pc = "closing"
    /\ open' = FALSE /\ port' = <<>>
    /\ pc' = "clearing"
    /\ UNCHANGED <<queue, bService, bRun, threadVars, due, posted, starts>>

\* Without the lock; a post at the same time comes before or after it.
RemoveData ==
    /\ pc = "clearing"
    /\ queue' = <<>> /\ due' = {}
    /\ pc' = "idle"
    /\ UNCHANGED <<port, open, bService, bRun, threadVars, posted, starts>>

QueueThread == TakeData \/ TakeExit \/ GetData \/ OnQueueServiceThread
ConcludeStep == \/ Drained \/ LeaveService \/ PostExit \/ StopThread
                \/ Joined \/ ClosePort \/ RemoveData

Next == AddToQueue \/ QueueThread \/ StartService \/ ConcludeService \/ ConcludeStep

Spec == Init /\ [][Next]_vars

\* The queue thread and the thread in ConcludeService are scheduled, and the sink
\* returns from every packet.
FairSpec == Spec /\ WF_vars(QueueThread) /\ WF_vars(ConcludeStep)

-----------------------------------------------------------------------------
(* Properties.                                                             *)

TypeOK ==
    /\ queue \in Seq(1 .. MaxPosts) /\ port \in Seq({"data", "exit"})
    /\ open \in BOOLEAN /\ bService \in BOOLEAN /\ bRun \in BOOLEAN
    /\ thread \in {"none", "waiting", "fetching", "busy", "ended"}
    /\ handling \in 0 .. MaxPosts /\ (handling # 0 <=> thread = "busy")
    /\ handled \subseteq 1 .. MaxPosts
    /\ pc \in {"idle", "draining", "leaving", "posting", "stopping", "joining",
               "closing", "clearing"}
    /\ due \subseteq 1 .. MaxPosts
    /\ posted \in 0 .. MaxPosts /\ starts \in 0 .. MaxStarts

\* ASSERT(bSuccess == true) in the queue thread: a completion always finds its
\* packet, whatever is posted, stopped and started in between.
DataPresent == thread = "fetching" => queue # <<>>

\* The sink gets the packets in the order of their posts, none of them twice.
InOrder == thread = "busy" =>
             \A i \in handled \cup Range(queue) : (i < handling) = (i \in handled)

\* ConcludeService has waited for every packet posted before the call when the
\* thread is gone ("wait until the packets are processed").
DueHandled == pc \in {"closing", "clearing"} => due \subseteq handled

\* ConcludeService returns.
ConcludeReturns == pc # "idle" ~> pc = "idle"

\* A packet that is in the queue of a service nobody is stopping yet reaches the
\* sink, also when ConcludeService is called right after the post.
PacketsHandled ==
    \A i \in 1 .. MaxPosts :
      (bService /\ pc = "idle" /\ i \in Range(queue)) ~> i \in handled

\* "Wait until the packets are processed", of all packets posted while m_bService
\* is set: each of them reaches the sink.
ServicePacketsHandled ==
    \A i \in 1 .. MaxPosts :
      (bService /\ i \in Range(queue)) ~> i \in handled
=============================================================================
