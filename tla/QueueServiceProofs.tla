-------------------------- MODULE QueueServiceProofs --------------------------
(***************************************************************************)
(* Safety of CQueueService for every number of posts and restarts, posts   *)
(* to the stopped service included.                                        *)
(***************************************************************************)
EXTENDS QueueService, SequenceTheorems, TLAPS

Exiting == pc \in {"stopping", "joining"}

\* Where completions, the exit completion and the thread can be.
PortInv ==
    /\ Alive => open
    /\ pc \in {"closing", "clearing"} => ~Alive
    /\ Alive /\ ~Exiting => \A k \in 1 .. Len(port) : port[k] = "data"
    /\ Alive /\ Exiting => \E k \in 1 .. Len(port) : port[k] = "exit"

\* Completions of packets never outnumber the packets.
Covered ==
    Alive => Len(port) + (IF thread = "fetching" THEN 1 ELSE 0)
               <= Len(queue) + (IF Exiting THEN 1 ELSE 0)

\* Handled packets, the one at hand and the queue follow each other.
Ordered ==
    /\ \A k \in 1 .. Len(queue) : /\ queue[k] <= posted
                                  /\ handling < queue[k]
                                  /\ \A i \in handled : i < queue[k]
    /\ \A j, k \in 1 .. Len(queue) : j < k => queue[j] < queue[k]
    /\ thread = "busy" => \A i \in handled : i < handling
    /\ handled \subseteq 1 .. posted /\ handling <= posted

\* The packets ConcludeService still has to wait for.
Pending == {queue[k] : k \in 1 .. Len(queue)}
InHand == {handling} \ {0}
Waits ==
    /\ pc = "draining" => due \subseteq handled \cup Pending \cup InHand
    /\ pc \in {"leaving", "posting", "stopping", "joining"} => due \subseteq handled \cup InHand
    /\ pc \in {"closing", "clearing"} => due \subseteq handled

-----------------------------------------------------------------------------
\* The queue as a sequence: its range are the packets at its positions.
LEMMA QueueRange ==
    ASSUME TypeOK PROVE Range(queue) = Pending
BY DEF TypeOK, Range, Pending

\* The empty queue and the empty port are sequences of the right kind.
LEMMA EmptyFacts == <<>> \in Seq(1 .. MaxPosts) /\ <<>> \in Seq({"data", "exit"})
BY EmptySeq

SeqTypes == queue \in Seq(1 .. MaxPosts) /\ port \in Seq({"data", "exit"})
BoolTypes == open \in BOOLEAN /\ bService \in BOOLEAN /\ bRun \in BOOLEAN

\* The strengthening that makes the types inductive.
TypeInv == TypeOK /\ PortInv

\* Queue and port stay sequences.
LEMMA SeqStep ==
    ASSUME TypeOK, Next PROVE SeqTypes'
<1> USE DEF TypeOK, SeqTypes
<1>0. /\ queue # <<>> => Tail(queue) \in Seq(1 .. MaxPosts)
      /\ port # <<>> => Tail(port) \in Seq({"data", "exit"})
  BY HeadTailProperties
<1>1. CASE AddToQueue
  <2>1. posted + 1 \in 1 .. MaxPosts
    BY <1>1, BoundsAssumption DEF AddToQueue
  <2>2. Append(queue, posted + 1) \in Seq(1 .. MaxPosts)
    BY <2>1
  <2>3. port' \in {port, Append(port, "data")}
    BY <1>1 DEF AddToQueue
  <2>4. Append(port, "data") \in Seq({"data", "exit"})
    OBVIOUS
  <2> QED
    BY <1>1, <2>2, <2>3, <2>4 DEF AddToQueue
<1>2. CASE TakeData \/ TakeExit
  BY <1>0, <1>2 DEF TakeData, TakeExit
<1>3. CASE GetData
  BY <1>0, <1>3 DEF GetData
<1>4. CASE OnQueueServiceThread \/ ConcludeService
  BY <1>4 DEF OnQueueServiceThread, ConcludeService
<1>5. CASE StartService \/ ClosePort \/ RemoveData
  <2>1. queue' \in {queue, <<>>} /\ port' \in {port, <<>>}
    BY <1>5 DEF StartService, ClosePort, RemoveData
  <2> QED
    BY <2>1, EmptyFacts
<1>6. CASE PostExit
  <2>1. port' \in {port, Append(port, "exit")}
    BY <1>6 DEF PostExit
  <2>2. Append(port, "exit") \in Seq({"data", "exit"})
    OBVIOUS
  <2> QED
    BY <1>6, <2>1, <2>2 DEF PostExit
<1>7. CASE Drained \/ LeaveService \/ StopThread \/ Joined
  BY <1>7 DEF Drained, LeaveService, StopThread, Joined
<1> QED
  BY <1>1, <1>2, <1>3, <1>4, <1>5, <1>6, <1>7 DEF Next, QueueThread, ConcludeStep

\* The flags stay flags.
LEMMA BoolStep ==
    ASSUME TypeOK, Next PROVE BoolTypes'
<1> USE DEF TypeOK, BoolTypes, serviceVars, threadVars
<1>1. CASE AddToQueue \/ QueueThread \/ ConcludeService
  BY <1>1 DEF AddToQueue, QueueThread, ConcludeService, TakeData, TakeExit, GetData,
              OnQueueServiceThread
<1>2. CASE StartService
  BY <1>2, Zenon DEF StartService, StartThread
<1>3. CASE ConcludeStep
  <2>1. CASE Drained \/ LeaveService \/ PostExit \/ StopThread
    BY <2>1, Zenon DEF Drained, LeaveService, PostExit, StopThread
  <2>2. CASE Joined \/ ClosePort \/ RemoveData
    BY <2>2, Zenon DEF Joined, ClosePort, RemoveData
  <2> QED
    BY <1>3, <2>1, <2>2 DEF ConcludeStep
<1> QED
  BY <1>1, <1>2, <1>3 DEF Next

\* The other variables keep their types.
LEMMA TypeStep ==
    ASSUME TypeInv, Next PROVE TypeOK'
<1>0. SeqTypes' /\ BoolTypes'
  BY SeqStep, BoolStep DEF TypeInv
<1> USE <1>0, BoundsAssumption
    DEF TypeInv, TypeOK, SeqTypes, BoolTypes, serviceVars, threadVars
<1>1. CASE AddToQueue
  BY <1>1 DEF AddToQueue
<1>2. CASE TakeData
  BY <1>2 DEF TakeData
<1>3. CASE TakeExit
  BY <1>3 DEF TakeExit
<1>4. CASE GetData
  <2>1. queue # <<>> => Head(queue) \in 1 .. MaxPosts
    BY HeadTailProperties
  <2>2. CASE queue = <<>>
    BY <1>4, <2>2 DEF GetData, LoopOn
  <2>3. CASE queue # <<>>
    BY <1>4, <2>1, <2>3 DEF GetData
  <2> QED
    BY <2>2, <2>3
<1>5. CASE OnQueueServiceThread
  BY <1>5 DEF OnQueueServiceThread, LoopOn
<1>6. CASE StartService
  <2>1. /\ starts' = starts + 1 /\ starts < MaxStarts
        /\ thread' = "waiting"
        /\ UNCHANGED <<handling, handled, pc, due, posted>>
    BY <1>6 DEF StartService, StartThread
  <2>2. thread # "busy"
    BY <1>6, Zenon DEF StartService, PortInv, Alive
  <2> QED
    BY <2>1, <2>2
<1>7. CASE ConcludeService
  <2>1. Range(queue) \subseteq 1 .. MaxPosts
    BY DEF Range
  <2> QED
    BY <1>7, <2>1 DEF ConcludeService
<1>8. CASE ConcludeStep
  <2>1. CASE \/ Drained \/ LeaveService \/ PostExit \/ StopThread \/ ClosePort
             \/ RemoveData
    <3>1. /\ UNCHANGED <<threadVars, posted, starts>>
          /\ pc' \in {"leaving", "posting", "stopping", "joining", "clearing", "idle"}
          /\ due' \in {due, {}}
      BY <2>1 DEF Drained, LeaveService, PostExit, StopThread, ClosePort, RemoveData
    <3> QED
      BY <3>1
  <2>2. CASE Joined
    BY <2>2 DEF Joined, Alive
  <2> QED
    BY <1>8, <2>1, <2>2 DEF ConcludeStep
<1> QED
  BY <1>1, <1>2, <1>3, <1>4, <1>5, <1>6, <1>7, <1>8 DEF Next, QueueThread

-----------------------------------------------------------------------------
\* A sequence after Append and Tail.
LEMMA PortAppend ==
    ASSUME TypeOK, NEW c \in {"data", "exit"}
    PROVE  /\ Len(Append(port, c)) = Len(port) + 1
           /\ \A k \in 1 .. Len(port) : Append(port, c)[k] = port[k]
           /\ Append(port, c)[Len(port) + 1] = c
           /\ Len(port) \in Nat
BY DEF TypeOK

LEMMA PortTail ==
    ASSUME TypeOK, port # <<>>
    PROVE  /\ Len(Tail(port)) = Len(port) - 1
           /\ \A k \in 1 .. Len(Tail(port)) : Tail(port)[k] = port[k + 1]
           /\ Head(port) = port[1]
           /\ Len(port) \in Nat \ {0}
<1>1. Len(Tail(port)) = Len(port) - 1
      /\ \A k \in 1 .. Len(Tail(port)) : Tail(port)[k] = port[k + 1]
  BY HeadTailProperties DEF TypeOK
<1>2. Len(port) \in Nat \ {0}
  BY EmptySeq DEF TypeOK
<1> QED
  BY <1>1, <1>2 DEF TypeOK

\* The exit completion stays behind the data completions until it is taken.
LEMMA PortStep ==
    ASSUME TypeInv, Next PROVE PortInv'
<1>0. TypeOK /\ PortInv
  BY DEF TypeInv
<1>1. CASE AddToQueue
  <2>1. UNCHANGED <<open, pc, thread>>
    BY <1>1 DEF AddToQueue, serviceVars, threadVars
  <2>2. CASE open
    <3>1. port' = Append(port, "data")
      BY <1>1, <2>2 DEF AddToQueue
    <3>2. /\ Len(port') = Len(port) + 1 /\ Len(port) \in Nat
          /\ \A k \in 1 .. Len(port) : port'[k] = port[k]
          /\ port'[Len(port) + 1] = "data"
      BY <3>1, <1>0, PortAppend
    <3> QED
      BY <1>0, <2>1, <3>2 DEF PortInv, Alive, Exiting
  <2>3. CASE ~open
    BY <1>0, <1>1, <2>1, <2>3 DEF AddToQueue, PortInv, Alive
  <2> QED
    BY <2>2, <2>3
<1>2. CASE TakeData
  <2>1. /\ port # <<>> /\ port' = Tail(port) /\ Head(port) = "data"
        /\ thread = "waiting" /\ thread' = "fetching" /\ UNCHANGED <<open, pc>>
    BY <1>2 DEF TakeData, serviceVars
  <2>2. /\ Len(port') = Len(port) - 1 /\ Len(port) \in Nat \ {0}
        /\ \A k \in 1 .. Len(port') : port'[k] = port[k + 1]
        /\ port[1] = "data"
    BY <1>0, <2>1, PortTail
  <2>3. Alive /\ ~Exiting => \A k \in 1 .. Len(port') : port'[k] = "data"
    BY <1>0, <2>2 DEF PortInv
  <2>4. ASSUME Exiting PROVE \E k \in 1 .. Len(port') : port'[k] = "exit"
    <3>1. PICK k \in 1 .. Len(port) : port[k] = "exit"
      BY <1>0, <2>1, <2>4 DEF PortInv, Alive
    <3>2. k # 1 /\ k - 1 \in 1 .. Len(port') /\ port'[k - 1] = "exit"
      BY <2>2, <3>1
    <3> QED
      BY <3>2
  <2> QED
    BY <1>0, <2>1, <2>3, <2>4 DEF PortInv, Alive, Exiting
<1>3. CASE TakeExit
  BY <1>0, <1>3 DEF TakeExit, serviceVars, PortInv, Alive
<1>4. CASE GetData \/ OnQueueServiceThread
  <2>1. /\ UNCHANGED <<open, pc, port>> /\ Alive
    BY <1>4 DEF GetData, OnQueueServiceThread, serviceVars, Alive
  <2> QED
    BY <1>0, <2>1 DEF PortInv, Exiting
<1>5. CASE StartService
  <2>1. /\ open' = TRUE /\ port' = <<>> /\ pc' = pc /\ pc = "idle"
    BY <1>5 DEF StartService
  <2>2. Len(port') = 0
    BY <2>1
  <2>3. ~Exiting' /\ pc' \notin {"closing", "clearing"} /\ open'
    BY <2>1 DEF Exiting
  <2> QED
    BY <2>2, <2>3 DEF PortInv
<1>6. CASE ConcludeService \/ Drained \/ LeaveService
  <2>1. /\ UNCHANGED <<open, port, thread>> /\ pc \in {"idle", "draining", "leaving"}
        /\ pc' \in {"draining", "leaving", "posting"}
    BY <1>6 DEF ConcludeService, Drained, LeaveService, threadVars
  <2> QED
    BY <1>0, <2>1 DEF PortInv, Alive, Exiting
<1>7. CASE PostExit
  <2>1. UNCHANGED <<open, thread>> /\ pc' = "stopping" /\ pc = "posting"
    BY <1>7 DEF PostExit, threadVars
  <2>2. CASE open
    <3>1. port' = Append(port, "exit")
      BY <1>7, <2>2 DEF PostExit
    <3>2. Len(port') = Len(port) + 1 /\ Len(port) \in Nat /\ port'[Len(port) + 1] = "exit"
      BY <3>1, <1>0, PortAppend
    <3>3. Len(port) + 1 \in 1 .. Len(port')
      BY <3>2
    <3> QED
      BY <1>0, <2>1, <3>2, <3>3 DEF PortInv, Alive, Exiting
  <2>3. CASE ~open
    BY <1>0, <2>1, <2>3 DEF PortInv, Alive
  <2> QED
    BY <2>2, <2>3
<1>8. CASE StopThread
  BY <1>0, <1>8 DEF StopThread, threadVars, PortInv, Alive, Exiting
<1>9. CASE Joined
  BY <1>9 DEF Joined, PortInv, Alive
<1>10. CASE ClosePort \/ RemoveData
  BY <1>0, <1>10 DEF ClosePort, RemoveData, threadVars, PortInv, Alive
<1> QED
  BY <1>1, <1>2, <1>3, <1>4, <1>5, <1>6, <1>7, <1>8, <1>9, <1>10
  DEF Next, QueueThread, ConcludeStep

\* Types and the place of the exit completion are invariant.
LEMMA TypeInvariance == Spec => []TypeInv
<1>1. Init => TypeInv
  <2> SUFFICES ASSUME Init PROVE TypeInv
    OBVIOUS
  <2>1. SeqTypes
    BY EmptyFacts DEF Init, SeqTypes
  <2>2. BoolTypes
    BY Zenon DEF Init, BoolTypes
  <2>3. PortInv
    BY DEF Init, PortInv, Alive
  <2>4. /\ thread = "none" /\ handling = 0 /\ handled = {}
        /\ pc = "idle" /\ due = {} /\ posted = 0 /\ starts = 0
    BY DEF Init
  <2>5. TypeOK
    BY <2>1, <2>2, <2>4, BoundsAssumption DEF TypeOK, SeqTypes, BoolTypes
  <2> QED
    BY <2>3, <2>5 DEF TypeInv
<1>2. TypeInv /\ [Next]_vars => TypeInv'
  <2> SUFFICES ASSUME TypeInv, [Next]_vars PROVE TypeInv'
    OBVIOUS
  <2>1. CASE Next
    BY <2>1, TypeStep, PortStep DEF TypeInv
  <2>2. CASE UNCHANGED vars
    BY <2>2 DEF vars, TypeInv, TypeOK, PortInv, Alive, Exiting
  <2> QED
    BY <2>1, <2>2
<1> QED
  BY <1>1, <1>2, PTL DEF Spec

\* Every variable of the queue service keeps its type, and the sink is busy
\* with a packet exactly while the thread is in OnQueueServiceThread.
THEOREM TypeCorrect == Spec => []TypeOK
<1>1. TypeInv => TypeOK
  BY DEF TypeInv
<1> QED
  BY <1>1, TypeInvariance, PTL

-----------------------------------------------------------------------------
\* The queue after a post and after a packet is taken.
LEMMA QueueAppend ==
    ASSUME TypeOK, NEW i \in 1 .. MaxPosts
    PROVE  /\ Len(Append(queue, i)) = Len(queue) + 1
           /\ \A k \in 1 .. Len(queue) : Append(queue, i)[k] = queue[k]
           /\ Append(queue, i)[Len(queue) + 1] = i
           /\ Len(queue) \in Nat
BY BoundsAssumption DEF TypeOK

LEMMA QueueTail ==
    ASSUME TypeOK, queue # <<>>
    PROVE  /\ Len(Tail(queue)) = Len(queue) - 1
           /\ \A k \in 1 .. Len(Tail(queue)) : Tail(queue)[k] = queue[k + 1]
           /\ Head(queue) = queue[1]
           /\ Len(queue) \in Nat \ {0}
<1>1. Len(Tail(queue)) = Len(queue) - 1
      /\ \A k \in 1 .. Len(Tail(queue)) : Tail(queue)[k] = queue[k + 1]
  BY HeadTailProperties DEF TypeOK
<1>2. Len(queue) \in Nat \ {0}
  BY EmptySeq DEF TypeOK
<1> QED
  BY <1>1, <1>2 DEF TypeOK

\* Lengths are numbers.
LEMMA Lengths ==
    ASSUME TypeOK PROVE Len(queue) \in Nat /\ Len(port) \in Nat
BY DEF TypeOK

\* No step makes more completions than packets.
LEMMA CoveredStep ==
    ASSUME TypeInv, TypeInv', Covered, Next PROVE Covered'
<1>0. /\ TypeOK /\ PortInv /\ Len(queue) \in Nat /\ Len(port) \in Nat
      /\ Len(queue') \in Nat /\ Len(port') \in Nat
  BY Lengths DEF TypeInv, TypeOK
<1>1. CASE AddToQueue
  <2>1. /\ UNCHANGED <<pc, thread>> /\ queue' = Append(queue, posted + 1)
        /\ port' \in {port, Append(port, "data")}
    BY <1>1 DEF AddToQueue, serviceVars, threadVars
  <2>2. posted + 1 \in 1 .. MaxPosts
    BY <1>0, <1>1, BoundsAssumption DEF AddToQueue, TypeOK
  <2>3. Len(queue') = Len(queue) + 1
    BY <1>0, <2>1, <2>2, QueueAppend
  <2>4. Len(port') <= Len(port) + 1
    BY <1>0, <2>1, PortAppend
  <2> QED
    BY <1>0, <2>1, <2>3, <2>4 DEF Covered, Alive, Exiting
<1>2. CASE TakeData \/ TakeExit
  <2>1. /\ port # <<>> /\ port' = Tail(port) /\ thread = "waiting"
        /\ thread' \in {"fetching", "ended"} /\ UNCHANGED <<pc, queue>>
    BY <1>2 DEF TakeData, TakeExit, serviceVars
  <2>2. Len(port') = Len(port) - 1
    BY <1>0, <2>1, PortTail
  <2> QED
    BY <1>0, <2>1, <2>2 DEF Covered, Alive, Exiting
<1>3. CASE GetData
  <2>1. UNCHANGED <<pc, port>> /\ thread = "fetching" /\ thread' # "fetching"
    BY <1>3 DEF GetData, LoopOn, serviceVars
  <2>2. CASE queue = <<>>
    <3>1. queue' = queue
      BY <1>3, <2>2 DEF GetData
    <3> QED
      BY <1>0, <2>1, <3>1 DEF Covered, Alive, Exiting
  <2>3. CASE queue # <<>>
    <3>1. Len(queue') = Len(queue) - 1
      BY <1>0, <1>3, <2>3, QueueTail DEF GetData
    <3> QED
      BY <1>0, <2>1, <3>1 DEF Covered, Alive, Exiting
  <2> QED
    BY <2>2, <2>3
<1>4. CASE OnQueueServiceThread
  <2>1. /\ UNCHANGED <<pc, queue, port>> /\ thread = "busy"
        /\ thread' \in {"waiting", "ended"}
    BY <1>4 DEF OnQueueServiceThread, LoopOn, serviceVars
  <2> QED
    BY <1>0, <2>1 DEF Covered, Alive, Exiting
<1>5. CASE StartService
  <2>1. port' = <<>> /\ queue' = queue /\ thread' = "waiting"
    BY <1>5 DEF StartService, StartThread
  <2>2. Len(port') = 0
    BY <2>1
  <2> QED
    BY <1>0, <2>1, <2>2 DEF Covered
<1>6. CASE ConcludeService \/ Drained \/ LeaveService \/ StopThread
  <2>1. /\ UNCHANGED <<queue, port, thread>>
        /\ \/ /\ pc \in {"idle", "draining", "leaving"}
              /\ pc' \in {"draining", "leaving", "posting"}
           \/ pc = "stopping" /\ pc' = "joining"
    BY <1>6 DEF ConcludeService, Drained, LeaveService, StopThread, threadVars
  <2> QED
    BY <1>0, <2>1 DEF Covered, Alive, Exiting
<1>7. CASE PostExit
  <2>1. /\ UNCHANGED <<queue, thread>> /\ pc = "posting" /\ pc' = "stopping"
        /\ port' \in {port, Append(port, "exit")}
    BY <1>7 DEF PostExit, threadVars
  <2>2. Len(port') <= Len(port) + 1
    BY <1>0, <2>1, PortAppend
  <2> QED
    BY <1>0, <2>1, <2>2 DEF Covered, Alive, Exiting
<1>8. CASE Joined \/ ClosePort \/ RemoveData
  <2>1. ~Alive'
    BY <1>0, <1>8 DEF Joined, ClosePort, RemoveData, PortInv, Alive, threadVars
  <2> QED
    BY <2>1 DEF Covered
<1> QED
  BY <1>1, <1>2, <1>3, <1>4, <1>5, <1>6, <1>7, <1>8 DEF Next, QueueThread, ConcludeStep

\* The queue thread always finds a packet for its completion: the assertion
\* bSuccess == true in CQueueServiceThread::OnEventThreadRun holds.
THEOREM QueueSafe == Spec => []DataPresent
<1>1. Init => Covered
  BY DEF Init, Covered, Alive
<1>2. TypeInv /\ TypeInv' /\ Covered /\ [Next]_vars => Covered'
  <2>1. Covered /\ UNCHANGED vars => Covered'
    BY DEF vars, Covered, Alive, Exiting
  <2> QED
    BY <2>1, CoveredStep
<1>3. TypeInv /\ Covered => DataPresent
  <2> SUFFICES ASSUME TypeInv, Covered, thread = "fetching" PROVE queue # <<>>
    BY DEF DataPresent
  <2>1. TypeOK /\ PortInv /\ Len(queue) \in Nat /\ Len(port) \in Nat
    BY Lengths DEF TypeInv
  <2>2. Exiting => Len(port) >= 1
    BY <2>1 DEF PortInv, Alive
  <2>3. Len(queue) >= 1
    BY <2>1, <2>2 DEF Covered, Alive
  <2> QED
    BY <2>3
<1> QED
  BY <1>1, <1>2, <1>3, TypeInvariance, PTL DEF Spec

-----------------------------------------------------------------------------
\* No step disturbs the order of handled packets, packet at hand and queue.
LEMMA OrderedStep ==
    ASSUME TypeInv, Ordered, Next PROVE Ordered'
<1>0. /\ TypeOK /\ PortInv /\ Len(queue) \in Nat
      /\ posted \in Nat /\ handling \in Nat /\ handled \subseteq Nat
      /\ \A k \in 1 .. Len(queue) : queue[k] \in Nat
  BY Lengths, BoundsAssumption DEF TypeInv, TypeOK
<1>1. CASE AddToQueue
  <2>1. /\ UNCHANGED <<thread, handling, handled>> /\ posted' = posted + 1
        /\ queue' = Append(queue, posted + 1)
    BY <1>1 DEF AddToQueue, threadVars
  <2>2. posted + 1 \in 1 .. MaxPosts
    BY <1>0, <1>1, BoundsAssumption DEF AddToQueue, TypeOK
  <2>3. /\ Len(queue') = Len(queue) + 1
        /\ \A k \in 1 .. Len(queue) : queue'[k] = queue[k]
        /\ queue'[Len(queue) + 1] = posted + 1
    BY <1>0, <2>1, <2>2, QueueAppend
  <2>4. \A k \in 1 .. Len(queue') : k \in 1 .. Len(queue) \/ k = Len(queue) + 1
    BY <1>0, <2>3
  <2>5. \A k \in 1 .. Len(queue') : /\ queue'[k] <= posted'
                                    /\ handling' < queue'[k]
                                    /\ \A i \in handled' : i < queue'[k]
    BY <1>0, <2>1, <2>3, <2>4 DEF Ordered
  <2>6. \A j, k \in 1 .. Len(queue') : j < k => queue'[j] < queue'[k]
    BY <1>0, <2>3, <2>4 DEF Ordered
  <2> QED
    BY <1>0, <2>1, <2>5, <2>6 DEF Ordered
<1>2. CASE GetData
  <2>1. UNCHANGED <<handled, posted>>
    BY <1>2 DEF GetData
  <2>2. CASE queue = <<>>
    BY <1>2, <2>1, <2>2 DEF GetData, LoopOn, Ordered
  <2>3. CASE queue # <<>>
    <3>1. /\ Len(queue') = Len(queue) - 1 /\ Len(queue) \in Nat \ {0}
          /\ \A k \in 1 .. Len(queue') : queue'[k] = queue[k + 1]
          /\ handling' = queue[1]
      BY <1>0, <1>2, <2>3, QueueTail DEF GetData
    <3>2. \A k \in 1 .. Len(queue') : k + 1 \in 1 .. Len(queue) /\ 1 < k + 1
      BY <3>1
    <3>3. \A k \in 1 .. Len(queue') : /\ queue'[k] <= posted'
                                      /\ handling' < queue'[k]
                                      /\ \A i \in handled' : i < queue'[k]
      <4> TAKE k \in 1 .. Len(queue')
      <4>1. k + 1 \in 1 .. Len(queue) /\ 1 \in 1 .. Len(queue) /\ 1 < k + 1
        BY <3>1, <3>2
      <4>2. queue[1] < queue[k + 1] /\ queue[k + 1] <= posted
            /\ \A i \in handled : i < queue[k + 1]
        BY <4>1 DEF Ordered
      <4>3. queue'[k] = queue[k + 1]
        BY <3>1
      <4> QED
        BY <2>1, <3>1, <4>2, <4>3
    <3>4. \A j, k \in 1 .. Len(queue') : j < k => queue'[j] < queue'[k]
      <4> TAKE j, k \in 1 .. Len(queue')
      <4>1. /\ j + 1 \in 1 .. Len(queue) /\ k + 1 \in 1 .. Len(queue)
            /\ j < k => j + 1 < k + 1
        BY <3>1, <3>2
      <4>2. j < k => queue[j + 1] < queue[k + 1]
        BY <4>1 DEF Ordered
      <4>3. queue'[j] = queue[j + 1] /\ queue'[k] = queue[k + 1]
        BY <3>1
      <4> QED
        BY <4>2, <4>3
    <3>5. handling' <= posted' /\ \A i \in handled' : i < handling'
      BY <1>0, <2>1, <3>1 DEF Ordered
    <3> QED
      BY <1>0, <2>1, <3>3, <3>4, <3>5 DEF Ordered
  <2> QED
    BY <2>2, <2>3
<1>3. CASE OnQueueServiceThread
  <2>1. /\ UNCHANGED <<queue, posted>> /\ handled' = handled \cup {handling}
        /\ handling' = 0 /\ thread' # "busy" /\ thread = "busy"
    BY <1>3 DEF OnQueueServiceThread, LoopOn
  <2>2. handling \in 1 .. posted
    BY <1>0, <2>1 DEF TypeOK, Ordered
  <2> QED
    BY <1>0, <2>1, <2>2 DEF Ordered
<1>4. CASE RemoveData
  <2>1. /\ UNCHANGED <<thread, handling, handled, posted>> /\ queue' = <<>>
    BY <1>4 DEF RemoveData, threadVars
  <2>2. Len(queue') = 0
    BY <2>1
  <2> QED
    BY <1>0, <2>1, <2>2 DEF Ordered
<1>5. CASE TakeData \/ TakeExit \/ StartService
  <2>1. /\ UNCHANGED <<queue, handling, handled, posted>> /\ thread' # "busy"
    BY <1>5 DEF TakeData, TakeExit, StartService, StartThread
  <2> QED
    BY <1>0, <2>1 DEF Ordered
<1>6. CASE \/ ConcludeService \/ Drained \/ LeaveService \/ PostExit \/ StopThread
           \/ ClosePort
  <2>1. UNCHANGED <<queue, thread, handling, handled, posted>>
    BY <1>6 DEF ConcludeService, Drained, LeaveService, PostExit, StopThread, ClosePort, threadVars
  <2> QED
    BY <1>0, <2>1 DEF Ordered
<1>7. CASE Joined
  <2>1. UNCHANGED <<queue, handling, handled, posted>> /\ thread' = "none"
    BY <1>7 DEF Joined
  <2> QED
    BY <1>0, <2>1 DEF Ordered
<1> QED
  BY <1>1, <1>2, <1>3, <1>4, <1>5, <1>6, <1>7 DEF Next, QueueThread, ConcludeStep

\* The sink gets the packets in the order of their posts, and none twice,
\* through any number of restarts.
THEOREM QueueOrdered == Spec => []InOrder
<1>1. Init => Ordered
  <2> SUFFICES ASSUME Init PROVE Ordered
    OBVIOUS
  <2>1. /\ queue = <<>> /\ handling = 0 /\ handled = {} /\ posted = 0
        /\ thread = "none"
    BY DEF Init
  <2>2. Len(queue) = 0
    BY <2>1
  <2> QED
    BY <2>1, <2>2 DEF Ordered
<1>2. TypeInv /\ Ordered /\ [Next]_vars => Ordered'
  <2>1. Ordered /\ UNCHANGED vars => Ordered'
    BY DEF vars, Ordered
  <2> QED
    BY <2>1, OrderedStep
<1>3. TypeInv /\ Ordered => InOrder
  <2> SUFFICES ASSUME TypeInv, Ordered, thread = "busy",
                      NEW i \in handled \cup Range(queue)
               PROVE  (i < handling) = (i \in handled)
    BY DEF InOrder
  <2>1. /\ TypeOK /\ handling \in Nat /\ handled \subseteq Nat
        /\ \A k \in 1 .. Len(queue) : queue[k] \in Nat
    BY BoundsAssumption DEF TypeInv, TypeOK
  <2>2. CASE i \in handled
    BY <2>1, <2>2 DEF Ordered
  <2>3. CASE i \notin handled
    <3>1. PICK k \in 1 .. Len(queue) : i = queue[k]
      BY <2>1, <2>3, QueueRange DEF Pending
    <3>2. handling < queue[k]
      BY DEF Ordered
    <3>3. ~(i < handling)
      BY <2>1, <3>1, <3>2
    <3> QED
      BY <2>3, <3>3
  <2> QED
    BY <2>2, <2>3
<1> QED
  BY <1>1, <1>2, <1>3, TypeInvariance, PTL DEF Spec

-----------------------------------------------------------------------------
\* A packet ConcludeService waits for stays in the queue or at hand until the
\* sink has finished it.
LEMMA WaitsStep ==
    ASSUME TypeInv, Waits, Next PROVE Waits'
<1>0. TypeOK /\ Len(queue) \in Nat
  BY Lengths DEF TypeInv
<1>1. CASE AddToQueue
  <2>1. /\ UNCHANGED <<pc, due, handling, handled>>
        /\ queue' = Append(queue, posted + 1)
    BY <1>1 DEF AddToQueue, serviceVars, threadVars
  <2>2. posted + 1 \in 1 .. MaxPosts
    BY <1>0, <1>1, BoundsAssumption DEF AddToQueue, TypeOK
  <2>3. /\ Len(queue') = Len(queue) + 1
        /\ \A k \in 1 .. Len(queue) : queue'[k] = queue[k]
    BY <1>0, <2>1, <2>2, QueueAppend
  <2>4. Pending \subseteq Pending'
    BY <1>0, <2>3 DEF Pending
  <2> QED
    BY <2>1, <2>4 DEF Waits, InHand
<1>2. CASE GetData
  <2>1. UNCHANGED <<pc, due, handled>> /\ thread = "fetching"
    BY <1>2 DEF GetData, serviceVars
  <2>2. handling = 0
    BY <1>0, <2>1 DEF TypeOK
  <2>3. CASE queue = <<>>
    BY <1>2, <2>1, <2>3 DEF GetData, Waits, Pending, InHand
  <2>4. CASE queue # <<>>
    <3>1. /\ Len(queue') = Len(queue) - 1 /\ Len(queue) \in Nat \ {0}
          /\ \A k \in 1 .. Len(queue') : queue'[k] = queue[k + 1]
          /\ handling' = queue[1]
      BY <1>0, <1>2, <2>4, QueueTail DEF GetData
    <3>2. queue[1] \in 1 .. MaxPosts
      <4>1. 1 \in 1 .. Len(queue)
        BY <3>1
      <4> QED
        BY <1>0, <4>1, ElementOfSeq DEF TypeOK
    <3>3. InHand' = {queue[1]}
      BY <3>1, <3>2, BoundsAssumption DEF InHand
    <3>4. ASSUME NEW k \in 1 .. Len(queue) PROVE queue[k] \in Pending' \cup InHand'
      <4>1. CASE k = 1
        BY <3>3, <4>1
      <4>2. CASE k # 1
        <5>1. k - 1 \in 1 .. Len(queue') /\ queue'[k - 1] = queue[k]
          BY <3>1, <4>2
        <5> QED
          BY <5>1 DEF Pending
      <4> QED
        BY <4>1, <4>2
    <3>5. Pending \subseteq Pending' \cup InHand' /\ InHand = {}
      BY <2>2, <3>4 DEF Pending, InHand
    <3> QED
      BY <2>1, <3>5 DEF Waits
  <2> QED
    BY <2>3, <2>4
<1>3. CASE OnQueueServiceThread
  <2>1. UNCHANGED <<pc, due, queue>> /\ handled' = handled \cup {handling}
    BY <1>3 DEF OnQueueServiceThread, serviceVars
  <2> QED
    BY <2>1 DEF Waits, Pending, InHand
<1>4. CASE TakeData \/ TakeExit \/ StartService
  <2>1. UNCHANGED <<pc, due, queue, handled, handling>>
    BY <1>4 DEF TakeData, TakeExit, StartService, serviceVars
  <2> QED
    BY <2>1 DEF Waits, Pending, InHand
<1>5. CASE ConcludeService
  <2>1. /\ UNCHANGED <<queue, handled, handling>>
        /\ \/ pc' = "draining" /\ due' = Range(queue) \cup InHand
           \/ pc' = "posting" /\ due' = {}
    BY <1>5 DEF ConcludeService, threadVars, InHand
  <2>2. Range(queue) = Pending
    BY <1>0, QueueRange
  <2> QED
    BY <2>1, <2>2 DEF Waits, Pending, InHand
<1>6. CASE Drained
  <2>1. /\ UNCHANGED <<due, queue, handled, handling>> /\ queue = <<>>
        /\ pc = "draining" /\ pc' = "leaving"
    BY <1>6 DEF Drained, threadVars
  <2>2. Len(queue) = 0
    BY <2>1
  <2>3. Pending = {}
    BY <2>2 DEF Pending
  <2> QED
    BY <2>1, <2>3 DEF Waits, InHand
<1>7. CASE LeaveService \/ PostExit \/ StopThread
  <2>1. /\ UNCHANGED <<due, queue, handled, handling>>
        /\ pc \in {"leaving", "posting", "stopping"}
        /\ pc' \in {"posting", "stopping", "joining"}
    BY <1>7 DEF LeaveService, PostExit, StopThread, threadVars
  <2> QED
    BY <2>1 DEF Waits, InHand
<1>8. CASE Joined
  <2>1. /\ UNCHANGED <<due, handled, handling>> /\ thread # "busy"
        /\ pc = "joining" /\ pc' = "closing"
    BY <1>8 DEF Joined, Alive
  <2>2. InHand = {}
    BY <1>0, <2>1 DEF TypeOK, InHand
  <2> QED
    BY <2>1, <2>2 DEF Waits
<1>9. CASE ClosePort
  <2>1. UNCHANGED <<due, handled>> /\ pc = "closing" /\ pc' = "clearing"
    BY <1>9 DEF ClosePort, threadVars
  <2> QED
    BY <2>1 DEF Waits
<1>10. CASE RemoveData
  BY <1>10 DEF RemoveData, Waits
<1> QED
  BY <1>1, <1>2, <1>3, <1>4, <1>5, <1>6, <1>7, <1>8, <1>9, <1>10
  DEF Next, QueueThread, ConcludeStep

\* ConcludeService closes the port only when every packet posted before its
\* call has been handled ("wait until the packets are processed").
THEOREM ConcludeWaits == Spec => []DueHandled
<1>1. Init => Waits
  BY DEF Init, Waits
<1>2. TypeInv /\ Waits /\ [Next]_vars => Waits'
  <2>1. Waits /\ UNCHANGED vars => Waits'
    BY DEF vars, Waits, Pending, InHand
  <2> QED
    BY <2>1, WaitsStep
<1>3. Waits => DueHandled
  BY DEF Waits, DueHandled
<1> QED
  BY <1>1, <1>2, <1>3, TypeInvariance, PTL DEF Spec
=============================================================================
