----------------------- MODULE TCPNetworkEngineProofs -----------------------
(***************************************************************************)
(* Theorems about TCPNetworkEngine, for every size of the pool, every round*)
(* modulus, every number of threads and every choice of the environment.   *)
(* The last two also need that the rounds of a slot do not wrap.           *)
(***************************************************************************)
EXTENDS TCPNetworkEngine, SequenceTheorems, FiniteSetTheorems, TLAPS

USE DEF Holds, Closers, RSHolds, AcceptHolds

-----------------------------------------------------------------------------
(* Types of the values the code computes.                                  *)

LEMMA NextRound == ASSUME NEW r \in Rounds, NEW k \in Nat
                   PROVE  (r + k) % RoundMod \in Rounds
  BY RoundAssumption DEF Rounds

LEMMA ZeroTick == 0 \in Ticks
  BY TickAssumption DEF Ticks

LEMMA EventType ==
  ASSUME ItemTypeOK, NEW i \in Items, NEW k \in {"accept", "read", "shut"}
  PROVE  GetSocketID(i) \in IDs /\ Event(k, GetSocketID(i)) \in Events
  <1>1. GetSocketID(i) \in IDs
    BY DEF GetSocketID, IDs, ItemTypeOK
  <1> QED BY <1>1 DEF Event, Events

\* Init establishes every part of the type invariant.
LEMMA InitType == Init => TypeOK
  BY PoolAssumption, RoundAssumption, TickAssumption
  DEF Init, TypeOK, ItemTypeOK, EngineTypeOK, SendTypeOK, Items, Rounds, Ticks,
      Event, Events, Flights

\* The types of what ResetSocketData assigns.
LEMMA ResetType ==
  ASSUME ItemTypeOK, NEW i \in Items, ResetSocketData(i)
  PROVE  /\ notified' \subseteq Items /\ recving' \subseteq Items
         /\ ready' \subseteq Items /\ batch' \subseteq Items
         /\ round' \in [Items -> Rounds]
         /\ tick' \in [Items -> Ticks]
         /\ sends' \in [Items -> Seq(Targets)]
  <1>1. (round[i] + 1) % RoundMod \in Rounds
    BY NextRound DEF ItemTypeOK
  <1> QED BY <1>1, ZeroTick DEF ResetSocketData, ItemTypeOK

\* The types of what CloseSocket assigns, for any caller.
LEMMA CloseType ==
  ASSUME ItemTypeOK, EngineTypeOK, inflight' \in Flights,
         NEW i \in Items, NEW t \in Closers, NEW rcv \in SUBSET Items,
         NEW snd \in [Items -> Seq(Targets)], NEW tk \in [Items -> Ticks],
         CloseSocket(i, t, rcv, snd, tk)
  PROVE  /\ ItemTypeOK'
         /\ free' \subseteq Items /\ active' \subseteq Items /\ evt' \in Events
  <1>1. Event("shut", GetSocketID(i)) \in Events /\ evt \in Events
    BY EventType DEF EngineTypeOK
  <1>2. evt' \in Events
    BY <1>1 DEF CloseSocket, OnCloseCompleted, OnSocketCloseEvent
  <1>3. free' \subseteq Items /\ active' \subseteq Items
    BY DEF CloseSocket, OnCloseCompleted, OnSocketCloseEvent, FreeSocketItem,
           EngineTypeOK
  <1>4. open' \subseteq Items /\ hold' \in [Items -> Holds]
    BY DEF CloseSocket, OnCloseCompleted, ItemTypeOK
  <1>5. CASE i \notin rcv /\ snd[i] = <<>> /\ i \in notified
    <2>1. ResetSocketData(i)
      BY <1>5 DEF CloseSocket, OnCloseCompleted
    <2> QED BY <1>2, <1>3, <1>4, <2>1, ResetType DEF ItemTypeOK
  <1>6. CASE ~(i \notin rcv /\ snd[i] = <<>> /\ i \in notified)
    <2>1. /\ recving' = rcv /\ sends' = snd /\ tick' = tk
          /\ notified' \in {notified, notified \cup {i}}
          /\ UNCHANGED <<ready, batch, round>>
      BY <1>6 DEF CloseSocket, OnCloseCompleted
    <2> QED BY <1>2, <1>3, <1>4, <2>1 DEF ItemTypeOK
  <1> QED BY <1>5, <1>6

\* The types of what an item's SendData assigns.
LEMMA SendType ==
  ASSUME ItemTypeOK, NEW i \in Items, NEW r, NEW to \in Targets,
         SendData(i, r, to)
  PROVE  sends' \in [Items -> Seq(Targets)] /\ inflight' \in Flights
  <1>1. /\ sends[i] \in Seq(Targets)
        /\ Append(sends[i], to) \in Seq(Targets)
    BY DEF ItemTypeOK
  <1>2. \/ sends' = [sends EXCEPT ![i] = Append(sends[i], to)]
        \/ sends' = sends
    BY DEF SendData, ItemTypeOK
  <1>3. \/ inflight' = [inflight EXCEPT ![i] = inflight[i] \cup {"send"}]
        \/ inflight' = inflight
    BY DEF SendData, ItemTypeOK
  <1>4. sends' \in [Items -> Seq(Targets)]
    BY <1>1, <1>2 DEF ItemTypeOK
  <1>5. inflight' \in Flights
    BY <1>3 DEF ItemTypeOK, Flights
  <1> QED BY <1>4, <1>5

LEMMA RSType ==
  ASSUME TypeOK, KernelOwnership, NEW i \in Items,
         \/ RecvCompletion(i) \/ SendCompletion(i) \/ FinishClose(i)
         \/ \E op \in {"recv", "send"} : CompletionFails(i, op)
  PROVE  TypeOK'
  <1> USE DEF TypeOK
  <1> SUFFICES ItemTypeOK' /\ EngineTypeOK' /\ SendTypeOK'
    OBVIOUS
  <1>1. CASE RecvCompletedClose(i)
    <2>1. inflight' \in Flights
      BY <1>1 DEF RecvCompletedClose, ItemTypeOK, Flights
    <2>2. [tick EXCEPT ![i] = clock] \in [Items -> Ticks]
      BY DEF ItemTypeOK, EngineTypeOK
    <2>3. ItemTypeOK' /\ free' \subseteq Items /\ active' \subseteq Items /\ evt' \in Events
      BY <1>1, <2>1, <2>2, CloseType DEF RecvCompletedClose, ItemTypeOK
    <2> QED BY <1>1, <2>3 DEF RecvCompletedClose, EngineTypeOK, SendTypeOK, threadVars, loopVars
  <1>2. CASE RecvCompletedData(i)
    BY <1>2 DEF RecvCompletedData, ItemTypeOK, Flights, EngineTypeOK, SendTypeOK, threadVars, loopVars, poolVars
  <1>3. CASE DecodePacket(i)
    BY <1>3, EventType DEF DecodePacket, ItemTypeOK, EngineTypeOK, SendTypeOK, threadVars, loopVars, poolVars
  <1>4. CASE DecodeError(i)
    <2>1. ItemTypeOK' /\ free' \subseteq Items /\ active' \subseteq Items /\ evt' \in Events
      BY <1>4, CloseType DEF DecodeError, ItemTypeOK
    <2> QED BY <1>4, <2>1 DEF DecodeError, EngineTypeOK, SendTypeOK, threadVars, loopVars
  <1>5. CASE RecvDataPosted(i)
    BY <1>5 DEF RecvDataPosted, ItemTypeOK, Flights, EngineTypeOK, SendTypeOK, threadVars, loopVars, poolVars
  <1>6. CASE RecvDataFailed(i)
    <2>1. ItemTypeOK' /\ free' \subseteq Items /\ active' \subseteq Items /\ evt' \in Events
      BY <1>6, CloseType DEF RecvDataFailed, ItemTypeOK
    <2> QED BY <1>6, <2>1 DEF RecvDataFailed, EngineTypeOK, SendTypeOK, threadVars, loopVars
  <1>7. CASE SendCompletedNext(i)
    <2>1. sends[i] \in Seq(Targets) /\ sends[i] # <<>>
      BY <1>7 DEF SendCompletedNext, TakeCompletion, KernelOwnership, ItemTypeOK
    <2>2. sends' \in [Items -> Seq(Targets)]
      BY <1>7, <2>1 DEF SendCompletedNext, ItemTypeOK
    <2>3. inflight' \in Flights
      <3>1. inflight' = inflight \/ inflight' = [inflight EXCEPT ![i] = @ \ {"send"}]
        BY <1>7 DEF SendCompletedNext
      <3> QED BY <3>1 DEF ItemTypeOK, Flights
    <2> QED BY <1>7, <2>2, <2>3 DEF SendCompletedNext, ItemTypeOK, EngineTypeOK, SendTypeOK, threadVars, loopVars, poolVars
  <1>8. CASE SendCompletedClose(i)
    <2>1. inflight' \in Flights
      BY <1>8 DEF SendCompletedClose, ItemTypeOK, Flights
    <2>2. [sends EXCEPT ![i] = <<>>] \in [Items -> Seq(Targets)]
      BY DEF ItemTypeOK
    <2>3. ItemTypeOK' /\ free' \subseteq Items /\ active' \subseteq Items /\ evt' \in Events
      BY <1>8, <2>1, <2>2, CloseType DEF SendCompletedClose, ItemTypeOK
    <2> QED BY <1>8, <2>3 DEF SendCompletedClose, EngineTypeOK, SendTypeOK, threadVars, loopVars
  <1>9. CASE FinishClose(i)
    <2>1. ResetSocketData(i)
      BY <1>9 DEF FinishClose
    <2> QED BY <1>9, <2>1, ResetType DEF FinishClose, ItemTypeOK, EngineTypeOK, SendTypeOK, threadVars, loopVars, poolVars
  <1>10. CASE \E op \in {"recv", "send"} : CompletionFails(i, op)
    BY <1>10 DEF CompletionFails, itemVars, ItemTypeOK, Flights, EngineTypeOK, SendTypeOK, loopVars, poolVars
  <1> QED BY <1>1, <1>2, <1>3, <1>4, <1>5, <1>6, <1>7, <1>8, <1>9, <1>10 DEF RecvCompletion, SendCompletion

LEMMA AcceptType == ASSUME TypeOK, AcceptThread PROVE TypeOK'
  <1> USE DEF TypeOK
  <1>1. ASSUME NEW i \in Items, ActiveSocketItem(i) PROVE TypeOK'
    <2>1. storage' \in 0 .. MaxSocketItem
      BY <1>1, PoolAssumption DEF ActiveSocketItem, EngineTypeOK, Items
    <2> QED BY <1>1, <2>1 DEF ActiveSocketItem, itemVars, loopVars, ItemTypeOK, EngineTypeOK, SendTypeOK
  <1>2. ASSUME NEW i \in Items, Attach(i) PROVE TypeOK'
    <2>1. GetSocketID(i) \in IDs /\ Event("accept", GetSocketID(i)) \in Events
      BY EventType
    <2> QED BY <1>2, <2>1 DEF Attach, poolVars, loopVars, ItemTypeOK, EngineTypeOK, SendTypeOK
  <1>3. CASE AcceptRefused
    BY <1>3 DEF AcceptRefused, vars, itemVars, poolVars, threadVars, loopVars, ItemTypeOK, EngineTypeOK, SendTypeOK
  <1>4. CASE AcceptFails
    BY <1>4 DEF AcceptFails, itemVars, poolVars, loopVars, ItemTypeOK, EngineTypeOK, SendTypeOK
  <1> QED BY <1>1, <1>2, <1>3, <1>4 DEF AcceptThread

LEMMA CallerType == ASSUME TypeOK, Caller PROVE TypeOK'
  <1> USE DEF TypeOK
  <1>1. ASSUME NEW id \in issued, CloseSocketID(id) PROVE TypeOK'
    <2>1. id[1] \in Items
      BY DEF EngineTypeOK, IDs
    <2>2. inflight' \in Flights
      BY <1>1 DEF CloseSocketID, ItemTypeOK
    <2>3. ItemTypeOK' /\ free' \subseteq Items /\ active' \subseteq Items /\ evt' \in Events
      BY <1>1, <2>1, <2>2, CloseType DEF CloseSocketID, ItemTypeOK
    <2> QED BY <1>1, <2>3 DEF CloseSocketID, EngineTypeOK, SendTypeOK, threadVars, loopVars
  <1>2. ASSUME NEW r \in [op : {"send", "batch", "shut", "allow", "forbid", "detect"}, id : IDs], AddToQueue(r)
        PROVE TypeOK'
    <2>1. r \in QueuedReqs
      BY <1>2 DEF AddToQueue, QueuedReqs
    <2>2. sendQ' \in Seq(QueuedReqs)
      BY <1>2, <2>1 DEF AddToQueue, SendTypeOK
    <2> QED BY <1>2, <2>2 DEF AddToQueue, itemVars, poolVars, threadVars, loopVars, ItemTypeOK, EngineTypeOK, SendTypeOK
  <1>3. ZeroID \in IDs
    BY PoolAssumption, RoundAssumption DEF ZeroID, IDs, Items, Rounds
  <1>4. ASSUME NEW id \in issued, NEW op \in {"send", "shut", "allow", "forbid"}, QueueRequest(op, id)
        PROVE TypeOK'
    BY <1>2, <1>4 DEF QueueRequest, EngineTypeOK
  <1>5. CASE SendDataBatch
    BY <1>2, <1>3, <1>5 DEF SendDataBatch
  <1>6. CASE DetectSocket
    BY <1>2, <1>3, <1>6 DEF DetectSocket
  <1> QED BY <1>1, <1>4, <1>5, <1>6 DEF Caller

\* The request the send thread takes, and what is left of the queue.
LEMMA TakeType ==
  ASSUME SendTypeOK, NEW ops, TakeRequest(ops)
  PROVE  /\ Head(sendQ) \in QueuedReqs
         /\ Head(sendQ).id \in IDs
         /\ Head(sendQ).id[1] \in Items
         /\ sendQ' \in Seq(QueuedReqs)
  <1>1. Head(sendQ) \in QueuedReqs /\ sendQ' \in Seq(QueuedReqs)
    BY DEF TakeRequest, SendTypeOK
  <1>2. Head(sendQ).id \in IDs
    BY <1>1 DEF QueuedReqs
  <1> QED BY <1>1, <1>2 DEF IDs

LEMMA SendThreadType == ASSUME TypeOK, SendThread PROVE TypeOK'
  <1> USE DEF TypeOK
  <1>1. CASE SendOne
    <2>1. /\ Head(sendQ).id \in Targets /\ Head(sendQ).id[1] \in Items
          /\ sendQ' \in Seq(QueuedReqs)
      BY <1>1, TakeType DEF SendOne, Targets
    <2>2. sends' \in [Items -> Seq(Targets)] /\ inflight' \in Flights
      BY <1>1, <2>1, SendType DEF SendOne
    <2> QED BY <1>1, <2>1, <2>2 DEF SendOne, poolVars, threadVars, loopVars, ItemTypeOK, EngineTypeOK, SendTypeOK
  <1>2. CASE SendAllBegin
    BY <1>2, TakeType DEF SendAllBegin, itemVars, poolVars, threadVars, ItemTypeOK, EngineTypeOK, SendTypeOK
  <1>3. ASSUME NEW i \in Items, SendAllItem(i) PROVE TypeOK'
    <2>1. req # NoReq
      BY <1>3 DEF SendAllItem, NoReq
    <2>2. Addressee(req) \in Targets
      BY <2>1 DEF Addressee, Targets, SendTypeOK, QueuedReqs
    <2>3. sends' \in [Items -> Seq(Targets)] /\ inflight' \in Flights
      BY <1>3, <2>2, SendType DEF SendAllItem, ItemTypeOK
    <2> QED BY <1>3, <2>3 DEF SendAllItem, poolVars, threadVars, ItemTypeOK, EngineTypeOK, SendTypeOK
  <1>4. CASE SafeClose
    BY <1>4, TakeType DEF SafeClose, itemVars, poolVars, threadVars, loopVars, ItemTypeOK, EngineTypeOK, SendTypeOK
  <1>5. CASE AllowBatchSend
    BY <1>5, TakeType DEF AllowBatchSend, poolVars, threadVars, loopVars, ItemTypeOK, EngineTypeOK, SendTypeOK
  <1>6. CASE DetectBegin
    <2>1. brk' \in Nat
      BY <1>6, TickAssumption DEF DetectBegin, Ticks, EngineTypeOK
    <2> QED BY <1>6, <2>1, TakeType DEF DetectBegin, itemVars, poolVars, threadVars, ItemTypeOK, EngineTypeOK, SendTypeOK
  <1>7. CASE LoopEnd
    <2>1. brk' \in Nat
      BY <1>7 DEF LoopEnd
    <2> QED BY <1>7, <2>1, ZeroTick DEF LoopEnd, itemVars, poolVars, threadVars, ItemTypeOK, EngineTypeOK, SendTypeOK
  <1>8. ASSUME NEW i \in Items, DetectRead(i) PROVE TypeOK'
    BY <1>8 DEF DetectRead, itemVars, poolVars, threadVars, ItemTypeOK, EngineTypeOK, SendTypeOK
  <1>9. ASSUME NEW i \in Items, DetectClose(i) PROVE TypeOK'
    <2>1. ItemTypeOK' /\ free' \subseteq Items /\ active' \subseteq Items /\ evt' \in Events
      BY <1>9, CloseType DEF DetectClose, ItemTypeOK
    <2> QED BY <1>9, <2>1 DEF DetectClose, EngineTypeOK, SendTypeOK, threadVars
  <1>10. ASSUME NEW i \in Items, DetectSend(i) PROVE TypeOK'
    <2>1. GetSocketID(i) \in Targets
      BY EventType DEF Targets
    <2>2. sends' \in [Items -> Seq(Targets)] /\ inflight' \in Flights
      BY <1>10, <2>1, SendType DEF DetectSend, ItemTypeOK
    <2> QED BY <1>10, <2>2 DEF DetectSend, poolVars, threadVars, ItemTypeOK, EngineTypeOK, SendTypeOK
  <1> QED BY <1>1, <1>2, <1>3, <1>4, <1>5, <1>6, <1>7, <1>8, <1>9, <1>10 DEF SendThread

LEMMA ServiceType == ASSUME TypeOK, Service \/ Tick PROVE TypeOK'
  <1> USE DEF TypeOK
  <1>1. CASE StartService \/ ServiceStarted \/ ConcludeService \/ AcceptJoined \/ SendJoined \/ RSThreadEnds
    BY <1>1, ZeroTick, ThreadAssumption
    DEF StartService, ServiceStarted, ConcludeService, AcceptJoined, SendJoined, RSThreadEnds,
        ServiceUnchanged, itemVars, poolVars, threadVars, loopVars, ItemTypeOK, EngineTypeOK, SendTypeOK
  <1>2. CASE ConcludeRest
    <2>1. PICK n \in [Items -> 0 .. 2] : round' = [i \in Items |-> (round[i] + n[i]) % RoundMod]
      BY <1>2 DEF ConcludeRest
    <2>2. round' \in [Items -> Rounds]
      <3>1. ASSUME NEW i \in Items PROVE (round[i] + n[i]) % RoundMod \in Rounds
        <4>1. round[i] \in Rounds /\ n[i] \in Nat
          BY DEF ItemTypeOK
        <4> QED BY <4>1, NextRound
      <3> QED BY <2>1, <3>1
    <2>3. sends' \in [Items -> Seq(Targets)] /\ inflight' \in Flights /\ tick' \in [Items -> Ticks]
      BY <1>2, ZeroTick DEF ConcludeRest, ItemTypeOK, Flights
    <2> QED BY <1>2, <2>2, <2>3 DEF ConcludeRest, ServiceUnchanged, threadVars, loopVars, ItemTypeOK, EngineTypeOK, SendTypeOK
  <1>3. CASE Tick
    <2>1. clock' \in Ticks
      BY <1>3, TickAssumption DEF Tick, Ticks, EngineTypeOK
    <2> QED BY <1>3, <2>1 DEF Tick, itemVars, poolVars, threadVars, loopVars, ItemTypeOK, EngineTypeOK, SendTypeOK
  <1> QED BY <1>1, <1>2, <1>3 DEF Service

\* Every step keeps the types, given who owns the overlapped operations.
LEMMA TypeStep == ASSUME TypeOK, KernelOwnership, [Next]_vars PROVE TypeOK'
  <1>1. CASE UNCHANGED vars
    BY <1>1 DEF vars, itemVars, poolVars, threadVars, loopVars, TypeOK, ItemTypeOK, EngineTypeOK, SendTypeOK
  <1>2. CASE Next
    BY <1>2, RSType, AcceptType, CallerType, SendThreadType, ServiceType DEF Next
  <1> QED BY <1>1, <1>2

-----------------------------------------------------------------------------
(* The inductive invariant.                                                *)

LEMMA InvOwns == IInv => KernelOwnership
  BY DEF IInv, TypeOK, ItemTypeOK, Flights, SlotOK, KernelOwnership

LEMMA InitInv == Init => IInv
  <1> SUFFICES ASSUME Init PROVE IInv
    OBVIOUS
  <1>1. TypeOK
    BY InitType
  <1>2. PoolOK
    BY DEF Init, PoolOK, PoolPartition
  <1>3. \A i \in Items : SlotOK(i)
    BY DEF Init, SlotOK
  <1> QED BY <1>1, <1>2, <1>3 DEF IInv

\* CloseSocket keeps the invariant whoever calls it, provided the caller holds
\* the item's lock and has accounted for the operation it took off the port.
LEMMA CloseInv ==
  ASSUME IInv, NEW i \in Items, NEW t \in Closers,
         NEW rcv \in {recving, recving \ {i}},
         NEW snd \in {sends, [sends EXCEPT ![i] = <<>>]}, NEW tk,
         CloseSocket(i, t, rcv, snd, tk),
         hold[i] \notin Closers,
         "recv" \in inflight'[i] => i \in rcv,
         "send" \in inflight'[i] => snd[i] # <<>>,
         \A j \in Items \ {i} : inflight'[j] = inflight[j],
         UNCHANGED <<storage, reserved, service>>
  PROVE  PoolOK' /\ \A j \in Items : SlotOK(j)'
  <1> USE DEF IInv
  <1>1. SlotOK(i) /\ PoolOK /\ i \in DOMAIN sends /\ i \in DOMAIN hold
    BY DEF TypeOK, ItemTypeOK
  <1>2. CASE i \in notified
    <2>1. /\ ResetSocketData(i) /\ hold' = [hold EXCEPT ![i] = "none"]
          /\ open' = open \ {i} /\ UNCHANGED <<free, active>>
      BY <1>1, <1>2 DEF CloseSocket, OnCloseCompleted, SlotOK
    <2>2. PoolOK'
      BY <1>1, <2>1 DEF PoolOK, PoolPartition
    <2>3. SlotOK(i)'
      BY <1>1, <1>2, <2>1 DEF ResetSocketData, SlotOK, TypeOK, ItemTypeOK
    <2>4. \A j \in Items \ {i} : SlotOK(j)'
      BY <2>1 DEF ResetSocketData, SlotOK, TypeOK, ItemTypeOK
    <2> QED BY <2>2, <2>3, <2>4
  <1>3. CASE i \notin notified /\ i \notin rcv /\ snd[i] = <<>>
    <2>1. /\ notified' = notified \cup {i} /\ recving' = rcv /\ sends' = snd
          /\ hold' = [hold EXCEPT ![i] = t] /\ open' = open \ {i}
          /\ UNCHANGED <<ready, batch>>
          /\ OnSocketCloseEvent(i)
      BY <1>3 DEF CloseSocket, OnCloseCompleted
    <2>2. /\ i \in active /\ i \notin reserved
          /\ \/ active' = active \ {i} /\ free' = free \cup {i}
             \/ UNCHANGED <<active, free>>
      BY <1>1, <1>3, <2>1 DEF OnSocketCloseEvent, FreeSocketItem, SlotOK
    <2>3. PoolOK'
      BY <1>1, <2>2 DEF PoolOK, PoolPartition
    <2>4. SlotOK(i)'
      BY <1>1, <1>3, <2>1, <2>2 DEF SlotOK, TypeOK, ItemTypeOK
    <2>5. \A j \in Items \ {i} : SlotOK(j)'
      BY <2>1, <2>2 DEF SlotOK, TypeOK, ItemTypeOK
    <2> QED BY <2>3, <2>4, <2>5
  <1>4. CASE i \notin notified /\ ~(i \notin rcv /\ snd[i] = <<>>)
    <2>1. /\ recving' = rcv /\ sends' = snd /\ open' = open \ {i}
          /\ hold' = [hold EXCEPT ![i] = "none"]
          /\ UNCHANGED <<notified, ready, batch, free, active>>
      BY <1>4 DEF CloseSocket
    <2>2. PoolOK'
      BY <1>1, <2>1 DEF PoolOK, PoolPartition
    <2>3. SlotOK(i)'
      BY <1>1, <1>4, <2>1 DEF SlotOK, TypeOK, ItemTypeOK
    <2>4. \A j \in Items \ {i} : SlotOK(j)'
      BY <2>1 DEF SlotOK, TypeOK, ItemTypeOK
    <2> QED BY <2>2, <2>3, <2>4
  <1> QED BY <1>2, <1>3, <1>4

\* So does SendData: it only acts on an open item.
LEMMA SendInv ==
  ASSUME IInv, NEW i \in Items, NEW r, NEW to \in Targets, SendData(i, r, to),
         UNCHANGED <<open, notified, recving, ready, batch, hold, storage, free,
                     active, reserved, service>>
  PROVE  PoolOK' /\ \A j \in Items : SlotOK(j)'
  <1> USE DEF IInv
  <1>1. PoolOK'
    BY DEF PoolOK, PoolPartition
  <1>2. SlotOK(i) /\ sends[i] \in Seq(Targets)
    BY DEF TypeOK, ItemTypeOK
  <1>3. SlotOK(i)'
    BY <1>2 DEF SendData, SlotOK, TypeOK, ItemTypeOK, Flights
  <1>4. \A j \in Items \ {i} : SlotOK(j)'
    BY DEF SendData, SlotOK, TypeOK, ItemTypeOK, Flights
  <1> QED BY <1>1, <1>3, <1>4

\* A step that leaves the items and the pool alone.
LEMMA QuietInv ==
  ASSUME IInv, UNCHANGED <<open, notified, recving, ready, batch, sends, hold,
                           inflight, storage, free, active, reserved>>,
         service' \in {"stopSend", "stopRecv", "stopped"} => reserved = {}
  PROVE  PoolOK' /\ \A j \in Items : SlotOK(j)'
  <1>1. PoolOK'
    BY DEF IInv, PoolOK, PoolPartition
  <1>2. \A j \in Items : SlotOK(j)'
    BY DEF IInv, SlotOK
  <1> QED BY <1>1, <1>2

LEMMA RSInv ==
  ASSUME IInv, NEW i \in Items,
         \/ RecvCompletion(i) \/ SendCompletion(i) \/ FinishClose(i)
         \/ \E op \in {"recv", "send"} : CompletionFails(i, op)
  PROVE  PoolOK' /\ \A j \in Items : SlotOK(j)'
  <1> DEFINE Goal == PoolOK' /\ \A j \in Items : SlotOK(j)'
  <1>0. /\ SlotOK(i) /\ PoolOK /\ sends[i] \in Seq(Targets)
        /\ inflight[i] \subseteq {"recv", "send"}
        /\ "rs" \in Closers /\ "accept" \in Closers /\ "none" \notin Closers
        /\ "decode" \notin Closers /\ "attach" \notin Closers
    BY DEF IInv, TypeOK, ItemTypeOK, Flights
  <1>1. CASE RecvCompletedClose(i)
    <2>1. /\ CloseSocket(i, "rs", recving \ {i}, sends, [tick EXCEPT ![i] = clock])
          /\ hold[i] = "none" /\ UNCHANGED <<storage, reserved, service>>
          /\ inflight' = [inflight EXCEPT ![i] = @ \ {"recv"}]
      BY <1>1 DEF RecvCompletedClose, TakeCompletion, threadVars
    <2>2. /\ "recv" \notin inflight'[i]
          /\ "send" \in inflight'[i] => sends[i] # <<>>
          /\ \A j \in Items \ {i} : inflight'[j] = inflight[j]
      BY <1>0, <2>1 DEF IInv, SlotOK, TypeOK, ItemTypeOK, Flights
    <2> QED BY <1>0, <2>1, <2>2, CloseInv
  <1>2. CASE RecvCompletedData(i)
    <2>1. PoolOK'
      BY <1>0, <1>2 DEF RecvCompletedData, PoolOK, PoolPartition, poolVars, threadVars
    <2>2. SlotOK(i)'
      BY <1>0, <1>2 DEF RecvCompletedData, TakeCompletion, SlotOK, IInv, TypeOK, ItemTypeOK, Flights, poolVars, threadVars
    <2>3. \A j \in Items \ {i} : SlotOK(j)'
      BY <1>2 DEF RecvCompletedData, SlotOK, IInv, TypeOK, ItemTypeOK, Flights, poolVars, threadVars
    <2> QED BY <2>1, <2>2, <2>3
  <1>3. CASE DecodePacket(i)
    <2>1. PoolOK'
      BY <1>0, <1>3 DEF DecodePacket, PoolOK, PoolPartition, poolVars, threadVars
    <2>2. SlotOK(i)'
      BY <1>0, <1>3 DEF DecodePacket, SlotOK, poolVars, threadVars
    <2>3. \A j \in Items \ {i} : SlotOK(j)'
      BY <1>3 DEF DecodePacket, SlotOK, IInv, poolVars, threadVars
    <2> QED BY <2>1, <2>2, <2>3
  <1>4. CASE DecodeError(i)
    <2>1. /\ CloseSocket(i, "rs", recving, sends, tick)
          /\ hold[i] = "decode" /\ UNCHANGED <<storage, reserved, service, inflight>>
      BY <1>4 DEF DecodeError, threadVars
    <2>2. /\ "recv" \in inflight'[i] => i \in recving
          /\ "send" \in inflight'[i] => sends[i] # <<>>
      BY <1>0, <2>1 DEF SlotOK
    <2> QED BY <1>0, <2>1, <2>2, CloseInv
  <1>5. CASE RecvDataPosted(i)
    <2>1. PoolOK'
      BY <1>0, <1>5 DEF RecvDataPosted, PoolOK, PoolPartition, poolVars, threadVars
    <2>2. SlotOK(i)'
      BY <1>0, <1>5 DEF RecvDataPosted, SlotOK, IInv, TypeOK, ItemTypeOK, Flights, poolVars, threadVars
    <2>3. \A j \in Items \ {i} : SlotOK(j)'
      BY <1>5 DEF RecvDataPosted, SlotOK, IInv, TypeOK, ItemTypeOK, Flights, poolVars, threadVars
    <2> QED BY <2>1, <2>2, <2>3
  <1>6. CASE RecvDataFailed(i)
    <2>1. PICK t \in {"rs", "accept"} : CloseSocket(i, t, recving, sends, tick)
      BY <1>6 DEF RecvDataFailed
    <2>2. hold[i] \in {"decode", "attach"} /\ UNCHANGED <<storage, reserved, service, inflight>>
      BY <1>6 DEF RecvDataFailed, threadVars
    <2>3. /\ "recv" \in inflight'[i] => i \in recving
          /\ "send" \in inflight'[i] => sends[i] # <<>>
      BY <1>0, <2>2 DEF SlotOK
    <2> QED BY <1>0, <2>1, <2>2, <2>3, CloseInv
  <1>7. CASE SendCompletedNext(i)
    <2>1. PoolOK'
      BY <1>0, <1>7 DEF SendCompletedNext, PoolOK, PoolPartition, poolVars, threadVars
    <2>2. sends[i] # <<>> /\ i \in open /\ sends'[i] = Tail(sends[i])
      BY <1>0, <1>7 DEF SendCompletedNext, TakeCompletion, SlotOK, IInv, TypeOK, ItemTypeOK
    <2>3. "send" \in inflight'[i] => sends'[i] # <<>>
      <3>1. CASE Len(sends[i]) = 1
        BY <1>7, <3>1 DEF SendCompletedNext, IInv, TypeOK, ItemTypeOK, Flights
      <3>2. CASE Len(sends[i]) # 1
        <4>1. Tail(sends[i]) \in Seq(Targets) /\ Len(Tail(sends[i])) = Len(sends[i]) - 1
          BY <1>0, <2>2, HeadTailProperties
        <4>2. Len(sends[i]) \in Nat /\ Len(sends[i]) # 0
          BY <1>0, <2>2, EmptySeq, LenProperties
        <4>3. Len(Tail(sends[i])) # 0
          BY <3>2, <4>1, <4>2
        <4> QED BY <2>2, <4>1, <4>3, EmptySeq
      <3> QED BY <3>1, <3>2
    <2>4. SlotOK(i)'
      BY <1>0, <1>7, <2>2, <2>3 DEF SendCompletedNext, SlotOK, IInv, TypeOK, ItemTypeOK, Flights, poolVars, threadVars
    <2>5. \A j \in Items \ {i} : SlotOK(j)'
      BY <1>7 DEF SendCompletedNext, SlotOK, IInv, TypeOK, ItemTypeOK, Flights, poolVars, threadVars
    <2> QED BY <2>1, <2>4, <2>5
  <1>8. CASE SendCompletedClose(i)
    <2>1. /\ CloseSocket(i, "rs", recving, [sends EXCEPT ![i] = <<>>], tick)
          /\ hold[i] = "none" /\ UNCHANGED <<storage, reserved, service>>
          /\ inflight' = [inflight EXCEPT ![i] = @ \ {"send"}]
      BY <1>8 DEF SendCompletedClose, TakeCompletion, threadVars
    <2>2. /\ "send" \notin inflight'[i]
          /\ "recv" \in inflight'[i] => i \in recving
          /\ \A j \in Items \ {i} : inflight'[j] = inflight[j]
      BY <1>0, <2>1 DEF IInv, SlotOK, TypeOK, ItemTypeOK, Flights
    <2> QED BY <1>0, <2>1, <2>2, CloseInv
  <1>9. CASE FinishClose(i)
    <2>1. PoolOK'
      BY <1>0, <1>9 DEF FinishClose, PoolOK, PoolPartition, poolVars, threadVars
    <2>2. SlotOK(i)'
      BY <1>0, <1>9 DEF FinishClose, ResetSocketData, SlotOK, IInv, TypeOK, ItemTypeOK, poolVars, threadVars
    <2>3. \A j \in Items \ {i} : SlotOK(j)'
      BY <1>9 DEF FinishClose, ResetSocketData, SlotOK, IInv, TypeOK, ItemTypeOK, poolVars, threadVars
    <2> QED BY <2>1, <2>2, <2>3
  <1>10. ASSUME NEW op \in {"recv", "send"}, CompletionFails(i, op) PROVE Goal
    <2>1. PoolOK'
      BY <1>0, <1>10 DEF CompletionFails, PoolOK, PoolPartition, poolVars
    <2>2. \A j \in Items : inflight'[j] \subseteq inflight[j]
      BY <1>10 DEF CompletionFails, IInv, TypeOK, ItemTypeOK, Flights
    <2>3. \A j \in Items : SlotOK(j)'
      BY <1>10, <2>2 DEF CompletionFails, itemVars, poolVars, SlotOK, IInv
    <2> QED BY <2>1, <2>3
  <1> QED BY <1>1, <1>2, <1>3, <1>4, <1>5, <1>6, <1>7, <1>8, <1>9, <1>10 DEF RecvCompletion, SendCompletion

LEMMA AcceptInv ==
  ASSUME IInv, AcceptThread
  PROVE  PoolOK' /\ \A j \in Items : SlotOK(j)'
  <1> DEFINE Goal == PoolOK' /\ \A j \in Items : SlotOK(j)'
  <1>1. ASSUME NEW i \in Items, ActiveSocketItem(i) PROVE Goal
    <2>1. i \notin active /\ i \in notified
      BY <1>1 DEF ActiveSocketItem, IInv, PoolOK, PoolPartition, SlotOK, TypeOK, EngineTypeOK
    <2>2. PoolPartition'
      BY <1>1, <2>1 DEF ActiveSocketItem, IInv, PoolOK, PoolPartition, TypeOK, EngineTypeOK
    <2>3. PoolOK'
      BY <1>1, <2>2 DEF ActiveSocketItem, Accepted, PoolOK
    <2>4. \A j \in Items : SlotOK(j)'
      BY <1>1, <2>1 DEF ActiveSocketItem, IInv, SlotOK, itemVars
    <2> QED BY <2>3, <2>4
  <1>2. ASSUME NEW i \in Items, Attach(i) PROVE Goal
    <2>1. PoolOK'
      BY <1>2 DEF Attach, IInv, PoolOK, PoolPartition, poolVars
    <2>2. SlotOK(i) /\ i \in active /\ inflight[i] \subseteq {"recv", "send"}
      BY <1>2 DEF Attach, IInv, PoolOK, TypeOK, ItemTypeOK, Flights
    <2>3. SlotOK(i)'
      BY <1>2, <2>2 DEF Attach, SlotOK, poolVars, IInv, TypeOK, ItemTypeOK
    <2>4. \A j \in Items \ {i} : SlotOK(j)'
      BY <1>2 DEF Attach, SlotOK, poolVars, IInv, TypeOK, ItemTypeOK
    <2> QED BY <2>1, <2>3, <2>4
  <1>3. CASE AcceptRefused \/ AcceptFails
    <2>1. /\ UNCHANGED <<open, notified, recving, ready, batch, sends, hold,
                         inflight, storage, free, active, reserved>>
          /\ service' = service
      BY <1>3 DEF AcceptRefused, AcceptFails, vars, itemVars, poolVars, threadVars
    <2> QED BY <2>1, QuietInv DEF IInv, PoolOK
  <1> QED BY <1>1, <1>2, <1>3 DEF AcceptThread

LEMMA CallerInv ==
  ASSUME IInv, Caller
  PROVE  PoolOK' /\ \A j \in Items : SlotOK(j)'
  <1> DEFINE Goal == PoolOK' /\ \A j \in Items : SlotOK(j)'
  <1>1. ASSUME NEW id \in issued, CloseSocketID(id) PROVE Goal
    <2>1. id[1] \in Items
      BY DEF IInv, TypeOK, EngineTypeOK, IDs
    <2>2. /\ CloseSocket(id[1], "caller", recving, sends, tick)
          /\ hold[id[1]] = "none" /\ UNCHANGED <<storage, reserved, service, inflight>>
      BY <1>1 DEF CloseSocketID, threadVars
    <2>3. /\ "recv" \in inflight'[id[1]] => id[1] \in recving
          /\ "send" \in inflight'[id[1]] => sends[id[1]] # <<>>
      BY <2>1, <2>2 DEF IInv, SlotOK
    <2> QED BY <2>1, <2>2, <2>3, CloseInv
  <1>2. ASSUME NEW r, AddToQueue(r) PROVE Goal
    BY <1>2, QuietInv DEF AddToQueue, itemVars, poolVars, threadVars, IInv, PoolOK
  <1> QED BY <1>1, <1>2 DEF Caller, QueueRequest, SendDataBatch, DetectSocket

LEMMA SendThreadInv ==
  ASSUME IInv, SendThread
  PROVE  PoolOK' /\ \A j \in Items : SlotOK(j)'
  <1> DEFINE Goal == PoolOK' /\ \A j \in Items : SlotOK(j)'
  <1>0. TypeOK /\ ItemTypeOK /\ SendTypeOK /\ PoolOK
    BY DEF IInv, TypeOK
  <1>1. CASE SendOne
    <2>1. Head(sendQ).id \in Targets /\ Head(sendQ).id[1] \in Items
      BY <1>0, <1>1, TakeType DEF SendOne, Targets
    <2> QED BY <1>1, <2>1, SendInv DEF SendOne, poolVars, threadVars
  <1>2. ASSUME NEW i \in Items, SendAllItem(i) PROVE Goal
    <2>1. Addressee(req) \in Targets
      BY <1>0, <1>2 DEF SendAllItem, NoReq, Addressee, Targets, SendTypeOK, QueuedReqs
    <2>2. CASE i \in batch
      BY <1>2, <2>1, <2>2, SendInv DEF SendAllItem, poolVars, threadVars
    <2>3. CASE i \notin batch
      BY <1>0, <1>2, <2>3, QuietInv DEF SendAllItem, poolVars, threadVars, PoolOK
    <2> QED BY <2>2, <2>3
  <1>3. CASE AllowBatchSend
    <2>1. Head(sendQ).id[1] \in Items
      BY <1>0, <1>3, TakeType DEF AllowBatchSend
    <2>2. PoolOK'
      BY <1>0, <1>3 DEF AllowBatchSend, PoolOK, PoolPartition, poolVars, threadVars
    <2>3. \A j \in Items : SlotOK(j)'
      BY <1>3, <2>1 DEF AllowBatchSend, IInv, SlotOK, poolVars, threadVars
    <2> QED BY <2>2, <2>3
  <1>4. ASSUME NEW i \in Items, DetectClose(i) PROVE Goal
    <2>1. /\ CloseSocket(i, "send", recving, sends, tick)
          /\ hold[i] = "none" /\ UNCHANGED <<storage, reserved, service, inflight>>
      BY <1>4 DEF DetectClose, threadVars
    <2>2. /\ "recv" \in inflight'[i] => i \in recving
          /\ "send" \in inflight'[i] => sends[i] # <<>>
      BY <2>1 DEF IInv, SlotOK
    <2> QED BY <2>1, <2>2, CloseInv
  <1>5. ASSUME NEW i \in Items, DetectSend(i) PROVE Goal
    <2>1. GetSocketID(i) \in Targets
      BY <1>0, EventType DEF Targets
    <2>2. CASE SendData(i, round[i], GetSocketID(i))
      BY <1>5, <2>1, <2>2, SendInv DEF DetectSend, poolVars, threadVars
    <2>3. CASE UNCHANGED <<sends, inflight>>
      BY <1>0, <1>5, <2>3, QuietInv DEF DetectSend, poolVars, threadVars, PoolOK
    <2> QED BY <1>5, <2>2, <2>3 DEF DetectSend
  <1>6. CASE SendAllBegin \/ SafeClose \/ DetectBegin \/ LoopEnd
    BY <1>0, <1>6, QuietInv
    DEF SendAllBegin, SafeClose, DetectBegin, LoopEnd, itemVars, poolVars, threadVars, PoolOK
  <1>7. ASSUME NEW i \in Items, DetectRead(i) PROVE Goal
    BY <1>0, <1>7, QuietInv DEF DetectRead, itemVars, poolVars, threadVars, PoolOK
  <1> QED BY <1>1, <1>2, <1>3, <1>4, <1>5, <1>6, <1>7 DEF SendThread

LEMMA ServiceInv ==
  ASSUME IInv, Service \/ Tick
  PROVE  PoolOK' /\ \A j \in Items : SlotOK(j)'
  <1>0. PoolOK
    BY DEF IInv
  <1>1. CASE ConcludeRest
    <2>1. PoolOK'
      BY <1>0, <1>1 DEF ConcludeRest, PoolOK, PoolPartition, threadVars
    <2>2. \A j \in Items : SlotOK(j)'
      BY <1>0, <1>1 DEF ConcludeRest, threadVars, IInv, PoolOK, SlotOK
    <2> QED BY <2>1, <2>2
  <1>2. CASE AcceptJoined
    BY <1>0, <1>2, QuietInv DEF AcceptJoined, AcceptIdle, itemVars, poolVars
  <1>3. CASE StartService \/ ServiceStarted \/ ConcludeService \/ SendJoined \/ RSThreadEnds \/ Tick
    BY <1>0, <1>3, QuietInv
    DEF StartService, ServiceStarted, ConcludeService, SendJoined, RSThreadEnds, Tick,
        itemVars, poolVars, threadVars, PoolOK
  <1> QED BY <1>1, <1>2, <1>3 DEF Service

LEMMA InvStep == ASSUME IInv, [Next]_vars PROVE IInv'
  <1>1. TypeOK'
    BY InvOwns, TypeStep DEF IInv
  <1>2. CASE UNCHANGED vars
    BY <1>2, QuietInv, <1>1 DEF vars, itemVars, poolVars, threadVars, IInv, PoolOK
  <1>3. CASE Next
    BY <1>1, <1>3, RSInv, AcceptInv, CallerInv, SendThreadInv, ServiceInv DEF Next, IInv
  <1> QED BY <1>2, <1>3

-----------------------------------------------------------------------------
(* Theorems.                                                               *)

\* The inductive invariant holds in every reachable state.
THEOREM Invariance == Spec => []IInv
  BY InitInv, InvStep, PTL DEF Spec

\* Type correctness.  Not inductive by itself: OnSendCompleted takes the head
\* of the send list, which is there because the operating system only ever
\* completes a send that is on it.
THEOREM TypeCorrect == Spec => []TypeOK
  <1>1. IInv => TypeOK
    BY DEF IInv
  <1> QED BY <1>1, Invariance, PTL

\* Every item that was created is on exactly one of the pool's two lists.
THEOREM PoolSafe == Spec => []PoolPartition
  <1>1. IInv => PoolPartition
    BY DEF IInv, PoolOK
  <1> QED BY <1>1, Invariance, PTL

\* No OVERLAPPED of a released item is still owned by the operating system.
THEOREM OwnershipSafe == Spec => []KernelOwnership
  BY InvOwns, Invariance, PTL

\* The accept thread attaches a connection only to an item without remains of
\* the previous one, although the item was released before it was reset.
THEOREM AttachSafe == Spec => []CleanOnAttach
  <1>1. IInv => CleanOnAttach
    BY DEF IInv, TypeOK, EngineTypeOK, SlotOK, CleanOnAttach
  <1> QED BY <1>1, Invariance, PTL

\* FreeSocketItem always finds the item it is called for.
THEOREM ReleaseSafe == Spec => []ReleaseFindsActive
  <1>1. IInv => ReleaseFindsActive
    BY DEF IInv, SlotOK, ReleaseFindsActive
  <1> QED BY <1>1, Invariance, PTL

-----------------------------------------------------------------------------
(* The rounds.  A slot's round names its connections; what follows holds   *)
(* as long as no round wraps.  The bound is the last round in which a slot *)
(* is used and the increments still to come then: one for each detect      *)
(* request in the queue and the one at work, one for the reset of an item  *)
(* that is closing, one for its close and two for ConcludeService.         *)

\* No round wraps.
RoundsFit == MaxRound + MaxQueue + 5 < RoundMod
Limit == MaxRound + MaxQueue + 2

\* Slots released and not yet reset.
Closing == {i \in Items : hold[i] \in Closers}

\* The detect requests of a queue.
Detects(q) == {k \in DOMAIN q : q[k].op = "detect"}

\* Increments of the round of slot i to come: from the detect loop at work,
\* and from the closing thread.
Mark(i) == IF req.op = "detect" /\ (i \in todo \/ cur = i) THEN 1 ELSE 0
Owed(i) == IF i \in Closing THEN 1 ELSE 0

RoundLimit(i) ==
  IF i \notin active THEN round[i] + Mark(i) + Owed(i) <= Limit + 3
  ELSE round[i] + Mark(i) + Owed(i) + Cardinality(Detects(sendQ))
         <= IF i \in notified /\ i \notin reserved THEN Limit + 1 ELSE Limit

\* A slot that is ready for its next connection has a round no connection had.
Fresh ==
  \A id \in issued :
    /\ id[2] <= round[id[1]]
    /\ id[1] \in notified \ Closing => id[2] < round[id[1]]

\* The send thread's loop; its queue is bounded by the callers.
Loop == /\ cur # NoItem => req.op = "detect"
        /\ cur \notin todo
        /\ Len(sendQ) <= MaxQueue

\* Socket ID 0, which the send thread takes for everyone, is never announced.
Positive ==
  /\ \A i \in Items : round[i] >= 1
  /\ \A id \in issued : id[2] >= 1
  /\ \A k \in DOMAIN sendQ : sendQ[k].op = "send" => sendQ[k].id[2] >= 1
  /\ req.op # "send"

RInv == (\A i \in Items : RoundLimit(i)) /\ Fresh /\ Loop /\ Positive

-----------------------------------------------------------------------------
(* What a step does to the slots.                                          *)

\* Nothing that the rounds depend on.
Rests == UNCHANGED <<round, notified, Closing, active, reserved, issued, service>>

\* The close of slot i is announced.
Announces(i) ==
  /\ i \in Items \ notified
  /\ notified' = notified \cup {i} /\ Closing' = Closing \cup {i}
  /\ IF service = "running"
       THEN evt' = Event("shut", GetSocketID(i)) /\ active' = active \ {i}
       ELSE UNCHANGED <<evt, active>>
  /\ UNCHANGED <<round, reserved, issued, service>>

\* A slot that was announced closed goes to its next round.
Resets(i) ==
  /\ i \in notified
  /\ Closing' = Closing \ {i}
  /\ round' = [round EXCEPT ![i] = (@ + 1) % RoundMod]
  /\ UNCHANGED <<notified, active, reserved, issued, service, evt>>

\* A close ends in one of the three.
LEMMA CloseShape ==
  ASSUME IInv, NEW i \in Items, NEW t \in Closers,
         NEW rcv \in {recving, recving \ {i}},
         NEW snd \in {sends, [sends EXCEPT ![i] = <<>>]}, NEW tk,
         CloseSocket(i, t, rcv, snd, tk), hold[i] \notin Closers,
         UNCHANGED <<reserved, issued, service>>
  PROVE  \/ i \notin notified /\ Rests /\ evt' = evt
         \/ Announces(i)
         \/ i \notin Closing /\ Resets(i)
  <1>1. SlotOK(i) /\ i \in DOMAIN sends /\ i \in DOMAIN hold /\ hold \in [Items -> Holds]
    BY DEF IInv, TypeOK, ItemTypeOK
  <1>2. CASE i \in notified
    <2>1. /\ ResetSocketData(i) /\ hold' = [hold EXCEPT ![i] = "none"]
          /\ UNCHANGED <<free, active, evt>>
      BY <1>1, <1>2 DEF CloseSocket, OnCloseCompleted, SlotOK
    <2>2. Closing' = Closing /\ i \notin Closing
      BY <1>1, <2>1 DEF Closing
    <2>3. notified' = notified
      BY <1>2, <2>1 DEF ResetSocketData
    <2> QED BY <1>2, <2>1, <2>2, <2>3 DEF Resets, ResetSocketData
  <1>3. CASE i \notin notified /\ i \notin rcv /\ snd[i] = <<>>
    <2>1. /\ notified' = notified \cup {i} /\ hold' = [hold EXCEPT ![i] = t]
          /\ UNCHANGED round /\ OnSocketCloseEvent(i)
      BY <1>3 DEF CloseSocket, OnCloseCompleted
    <2>2. Closing' = Closing \cup {i}
      BY <1>1, <2>1 DEF Closing
    <2>3. i \in active
      BY <1>1, <1>3 DEF SlotOK
    <2> QED BY <1>3, <2>1, <2>2, <2>3 DEF Announces, OnSocketCloseEvent, FreeSocketItem
  <1>4. CASE i \notin notified /\ ~(i \notin rcv /\ snd[i] = <<>>)
    <2>1. /\ hold' = [hold EXCEPT ![i] = "none"]
          /\ UNCHANGED <<round, notified, evt, active>>
      BY <1>4 DEF CloseSocket
    <2>2. Closing' = Closing
      BY <1>1, <2>1 DEF Closing
    <2> QED BY <1>4, <2>1, <2>2 DEF Rests
  <1> QED BY <1>2, <1>3, <1>4

\* Events: none, or a read on a connection that has been announced.
Reads(i) == service = "running" /\ i \notin notified /\ evt' = Event("read", GetSocketID(i))

\* Completion threads: the items they work on are not announced closed, until
\* the thread that closed one resets it.
LEMMA RSShape ==
  ASSUME IInv, NEW i \in Items,
         \/ RecvCompletion(i) \/ SendCompletion(i) \/ FinishClose(i)
         \/ \E op \in {"recv", "send"} : CompletionFails(i, op)
  PROVE  /\ \/ Rests /\ (evt' = evt \/ Reads(i))
            \/ Announces(i)
            \/ i \in Closing /\ Resets(i)
         /\ UNCHANGED <<sendQ, req, todo, cur>>
  <1> DEFINE Goal == \/ Rests /\ (evt' = evt \/ Reads(i))
                     \/ Announces(i)
                     \/ i \in Closing /\ Resets(i)
  <1>0. /\ SlotOK(i) /\ hold \in [Items -> Holds]
        /\ inflight \in Flights
        /\ KernelOwnership
        /\ "rs" \in Closers /\ "accept" \in Closers /\ "none" \notin Closers
        /\ "decode" \notin Closers /\ "attach" \notin Closers
    BY InvOwns DEF IInv, TypeOK, ItemTypeOK
  <1>a. UNCHANGED <<sendQ, req, todo, cur>>
    BY DEF RecvCompletion, SendCompletion, FinishClose, CompletionFails, RecvCompletedClose,
      RecvCompletedData, DecodePacket, DecodeError, RecvDataPosted, RecvDataFailed,
      SendCompletedNext, SendCompletedClose, loopVars
  <1> SUFFICES Goal
    BY <1>a
  <1>b. ASSUME NEW op, TakeCompletion(i, op) PROVE i \notin notified /\ hold[i] = "none"
    BY <1>0, <1>b DEF TakeCompletion, KernelOwnership
  <1>c. ASSUME hold[i] \in {"decode", "attach"} PROVE i \notin notified
    BY <1>0, <1>c DEF SlotOK
  <1>1. CASE RecvCompletedClose(i)
    <2>1. /\ CloseSocket(i, "rs", recving \ {i}, sends, [tick EXCEPT ![i] = clock])
          /\ hold[i] = "none" /\ UNCHANGED <<reserved, issued, service>> /\ i \notin notified
      BY <1>1, <1>b DEF RecvCompletedClose, threadVars
    <2> QED BY <1>0, <2>1, CloseShape DEF Resets
  <1>2. CASE RecvCompletedData(i)
    <2>1. Closing' = Closing
      BY <1>0, <1>2, <1>b DEF RecvCompletedData, Closing
    <2> QED BY <1>2, <2>1 DEF RecvCompletedData, Rests, poolVars, threadVars
  <1>3. CASE DecodePacket(i)
    <2>1. Closing' = Closing
      BY <1>3 DEF DecodePacket, Closing
    <2>2. Rests
      BY <1>3, <2>1 DEF DecodePacket, Rests, poolVars, threadVars
    <2> QED BY <1>3, <1>c, <2>2 DEF DecodePacket, Reads
  <1>4. CASE DecodeError(i)
    <2>1. /\ CloseSocket(i, "rs", recving, sends, tick)
          /\ hold[i] = "decode" /\ UNCHANGED <<reserved, service, issued>> /\ i \notin notified
      BY <1>4, <1>c DEF DecodeError, threadVars
    <2> QED BY <1>0, <2>1, CloseShape DEF Resets
  <1>5. CASE RecvDataPosted(i)
    <2>1. Closing' = Closing
      BY <1>0, <1>5 DEF RecvDataPosted, Closing
    <2> QED BY <1>5, <2>1 DEF RecvDataPosted, Rests, poolVars, threadVars
  <1>6. CASE RecvDataFailed(i)
    <2>1. PICK t \in {"rs", "accept"} : CloseSocket(i, t, recving, sends, tick)
      BY <1>6 DEF RecvDataFailed
    <2>2. hold[i] \in {"decode", "attach"} /\ UNCHANGED <<reserved, service, issued>> /\ i \notin notified
      BY <1>6, <1>c DEF RecvDataFailed, threadVars
    <2> QED BY <1>0, <2>1, <2>2, CloseShape DEF Resets
  <1>7. CASE SendCompletedNext(i)
    <2>1. Closing' = Closing
      BY <1>7 DEF SendCompletedNext, Closing
    <2> QED BY <1>7, <2>1 DEF SendCompletedNext, Rests, poolVars, threadVars
  <1>8. CASE SendCompletedClose(i)
    <2>1. /\ CloseSocket(i, "rs", recving, [sends EXCEPT ![i] = <<>>], tick)
          /\ hold[i] = "none" /\ UNCHANGED <<reserved, service, issued>> /\ i \notin notified
      BY <1>8, <1>b DEF SendCompletedClose, threadVars
    <2> QED BY <1>0, <2>1, CloseShape DEF Resets
  <1>9. CASE FinishClose(i)
    <2>1. i \in Closing /\ i \in notified /\ Closing' = Closing \ {i}
      BY <1>0, <1>9 DEF FinishClose, Closing, SlotOK
    <2> QED BY <1>9, <2>1 DEF FinishClose, ResetSocketData, Resets, poolVars, threadVars
  <1>10. ASSUME NEW op \in {"recv", "send"}, CompletionFails(i, op) PROVE Goal
    BY <1>10 DEF CompletionFails, itemVars, poolVars, Closing, Rests
  <1> QED BY <1>1, <1>2, <1>3, <1>4, <1>5, <1>6, <1>7, <1>8, <1>9, <1>10 DEF RecvCompletion, SendCompletion

\* The calls: only a close touches a slot, and a stale ID closes nothing.
LEMMA CallerShape ==
  ASSUME IInv, Fresh, Caller
  PROVE  /\ UNCHANGED <<req, todo, cur>>
         /\ \/ /\ evt' = evt /\ sendQ' = sendQ /\ Rests
            \/ \E i \in Items : Announces(i) /\ sendQ' = sendQ
            \/ \E op \in {"send", "batch", "shut", "allow", "forbid"}, id \in IDs :
                 /\ sendQ' = Append(sendQ, [op |-> op, id |-> id]) /\ Rests /\ evt' = evt
                 /\ op = "send" => id \in issued
            \/ DetectSocket /\ Rests /\ evt' = evt
  <1>0. hold \in [Items -> Holds] /\ issued \subseteq IDs
    BY DEF IInv, TypeOK, ItemTypeOK, EngineTypeOK
  <1>1. ASSUME NEW id \in issued, CloseSocketID(id)
        PROVE  /\ UNCHANGED <<req, todo, cur, sendQ>>
               /\ \/ Rests /\ evt' = evt
                  \/ \E i \in Items : Announces(i)
    <2>1. id[1] \in Items
      BY <1>0 DEF IDs
    <2>2. /\ CloseSocket(id[1], "caller", recving, sends, tick) /\ id[2] = round[id[1]]
          /\ hold[id[1]] = "none" /\ UNCHANGED <<reserved, service, issued>>
          /\ UNCHANGED <<req, todo, cur, sendQ>>
      BY <1>1 DEF CloseSocketID, threadVars, loopVars
    <2>3. id[1] \notin Closing
      BY <2>2 DEF Closing
    <2>4. id[1] \notin notified
      <3>1. round[id[1]] \in Int
        BY <2>1 DEF IInv, TypeOK, ItemTypeOK, Rounds
      <3> QED BY <2>2, <2>3, <3>1 DEF Fresh
    <2>5. \/ id[1] \notin notified /\ Rests /\ evt' = evt
          \/ Announces(id[1])
          \/ id[1] \notin Closing /\ Resets(id[1])
      BY <2>1, <2>2, CloseShape
    <2> QED BY <2>1, <2>2, <2>4, <2>5 DEF Resets
  <1>2. ASSUME NEW r, AddToQueue(r)
        PROVE  UNCHANGED <<req, todo, cur>> /\ Rests /\ evt' = evt /\ sendQ' = Append(sendQ, r)
    BY <1>2 DEF AddToQueue, itemVars, poolVars, threadVars, loopVars, Closing, Rests
  <1>3. ZeroID \in IDs
    BY PoolAssumption, RoundAssumption DEF ZeroID, IDs, Items, Rounds
  <1>4. ASSUME NEW id \in issued, NEW op \in {"send", "shut", "allow", "forbid"}, QueueRequest(op, id)
        PROVE  /\ UNCHANGED <<req, todo, cur>> /\ id \in IDs
               /\ sendQ' = Append(sendQ, [op |-> op, id |-> id]) /\ Rests /\ evt' = evt
    BY <1>0, <1>2, <1>4 DEF QueueRequest
  <1>5. CASE SendDataBatch
    BY <1>2, <1>3, <1>5 DEF SendDataBatch
  <1>6. CASE DetectSocket
    BY <1>2, <1>6 DEF DetectSocket
  <1> QED BY <1>1, <1>4, <1>5, <1>6 DEF Caller

\* The detect requests after a request was queued and after one was taken.
LEMMA DetectsLemma ==
  ASSUME NEW q \in Seq(QueuedReqs)
  PROVE  /\ Cardinality(Detects(q)) \in Nat /\ Cardinality(Detects(q)) <= Len(q)
         /\ \A r \in QueuedReqs : Cardinality(Detects(Append(q, r))) =
              Cardinality(Detects(q)) + (IF r.op = "detect" THEN 1 ELSE 0)
         /\ q # <<>> => Cardinality(Detects(Tail(q))) =
              Cardinality(Detects(q)) - (IF Head(q).op = "detect" THEN 1 ELSE 0)
<1>0. Len(q) \in Nat /\ DOMAIN q = 1 .. Len(q) /\ IsFiniteSet(1 .. Len(q))
  BY FS_Interval
<1>1. \A p \in Seq(QueuedReqs) : IsFiniteSet(Detects(p)) /\ Cardinality(Detects(p)) \in Nat
  <2> SUFFICES ASSUME NEW p \in Seq(QueuedReqs) PROVE IsFiniteSet(Detects(p)) /\ Cardinality(Detects(p)) \in Nat
    OBVIOUS
  <2>1. Detects(p) \in SUBSET (1 .. Len(p)) /\ Len(p) \in Nat
    BY DEF Detects
  <2>i. IsFiniteSet(1 .. Len(p))
    BY <2>1, FS_Interval
  <2>2. IsFiniteSet(Detects(p))
    BY <2>1, <2>i, FS_Subset
  <2> QED BY <2>2, FS_CardinalityType
<1>2. ASSUME NEW r \in QueuedReqs
      PROVE  Cardinality(Detects(Append(q, r))) =
               Cardinality(Detects(q)) + (IF r.op = "detect" THEN 1 ELSE 0)
  <2> DEFINE p == Append(q, r)
  <2>1. /\ DOMAIN p = 1 .. (Len(q) + 1) /\ p[Len(q) + 1] = r
        /\ \A k \in 1 .. Len(q) : p[k] = q[k]
    BY <1>0
  <2> HIDE DEF p
  <2>2. CASE r.op = "detect"
    <3>1. Detects(p) = Detects(q) \cup {Len(q) + 1} /\ Len(q) + 1 \notin Detects(q)
      BY <2>1, <2>2, <1>0 DEF Detects
    <3>2. Cardinality(Detects(p)) = Cardinality(Detects(q)) + 1
      BY <3>1, <1>1, FS_AddElement
    <3> QED BY <3>2, <2>2 DEF p
  <2>3. CASE r.op # "detect"
    <3>1. Detects(p) = Detects(q)
      BY <2>1, <2>3, <1>0 DEF Detects
    <3> QED BY <3>1, <2>3, <1>1 DEF p
  <2> QED BY <2>2, <2>3
<1>3. ASSUME q # <<>>
      PROVE  Cardinality(Detects(Tail(q))) =
               Cardinality(Detects(q)) - (IF Head(q).op = "detect" THEN 1 ELSE 0)
  <2> DEFINE t == Tail(q)
             f == [k \in Detects(t) |-> k + 1]
             R == Detects(q) \ {1}
  <2>1. /\ Len(q) >= 1 /\ DOMAIN t = 1 .. (Len(q) - 1) /\ Head(q) = q[1]
        /\ t \in Seq(QueuedReqs) /\ \A k \in 1 .. (Len(q) - 1) : t[k] = q[k + 1]
    BY <1>0, <1>3
  <2>2. \A k : k \in Detects(t) <=> k \in 1 .. (Len(q) - 1) /\ q[k + 1].op = "detect"
    BY <2>1 DEF Detects
  <2>3. \A k : k \in R <=> k \in 2 .. Len(q) /\ q[k].op = "detect"
    BY <2>1, <1>0 DEF Detects
  <2> HIDE DEF t, R
  <2>4. f \in [Detects(t) -> R]
    BY <2>2, <2>3, <1>0
  <2>5. \A a, b \in Detects(t) : f[a] = f[b] => a = b
    BY <2>2, <1>0
  <2>6. ASSUME NEW k \in R PROVE \E a \in Detects(t) : f[a] = k
    <3>1. k - 1 \in Detects(t) /\ f[k - 1] = k
      BY <2>2, <2>3, <1>0
    <3> QED BY <3>1
  <2> HIDE DEF f
  <2>7. f \in Injection(Detects(t), R) /\ f \in Surjection(Detects(t), R)
    BY <2>4, <2>5, <2>6 DEF Injection, Surjection, IsInjective
  <2>8. f \in Bijection(Detects(t), R)
    BY <2>7 DEF Bijection
  <2>9. Cardinality(R) = Cardinality(Detects(t))
    BY <2>8, <2>1, <1>1, FS_Bijection DEF ExistsBijection
  <2>10. Cardinality(R) = IF 1 \in Detects(q) THEN Cardinality(Detects(q)) - 1 ELSE Cardinality(Detects(q))
    BY <1>1, FS_RemoveElement DEF R
  <2>11. 1 \in Detects(q) <=> Head(q).op = "detect"
    BY <2>1, <1>0 DEF Detects
  <2> QED BY <2>9, <2>10, <2>11, <1>1 DEF t
<1>4. Cardinality(Detects(q)) <= Len(q)
  <2>1. Detects(q) \in SUBSET (1 .. Len(q))
    BY <1>0 DEF Detects
  <2>2. Cardinality(1 .. Len(q)) = Len(q)
    BY <1>0, FS_Interval
  <2> QED BY <1>0, <2>1, <2>2, FS_Subset
<1> QED BY <1>1, <1>2, <1>3, <1>4

\* The send thread works through its queue and its loop; only the detect loop
\* touches a slot, once for each slot of its list.
Works(i) == Mark(i) = 1 /\ Mark(i)' = 0 /\ sendQ' = sendQ /\ \A j \in Items \ {i} : Mark(j)' = Mark(j)

\* A step of the send thread: nothing, a slot of the loop, or the next request.
LEMMA SendShape ==
  ASSUME IInv, Loop, SendThread
  PROVE  /\ \/ /\ Rests /\ evt' = evt
               /\ \A j \in Items : Mark(j)' <= Mark(j)
               /\ sendQ' = sendQ \/ (sendQ # <<>> /\ sendQ' = Tail(sendQ))
            \/ DetectBegin /\ Rests /\ evt' = evt
            \/ \E i \in Items : /\ Works(i)
                                /\ \/ i \notin notified /\ Rests /\ evt' = evt
                                   \/ Announces(i)
                                   \/ i \notin Closing /\ Resets(i)
         /\ (cur # NoItem => req.op = "detect")' /\ (cur \notin todo)'
         /\ \/ req' = req \/ req' = NoReq
            \/ sendQ # <<>> /\ req' = Head(sendQ) /\ (req'.op = "send" => req'.id[2] = 0)
  <1>0. /\ cur \in Items \cup {NoItem} /\ todo \subseteq Items /\ active \subseteq Items /\ NoItem \notin Items
        /\ NoReq.op = "none" /\ sendQ \in Seq(QueuedReqs)
    BY PoolAssumption DEF IInv, TypeOK, SendTypeOK, EngineTypeOK, NoItem, Items, NoReq
  <1>a. CASE SendOne \/ AllowBatchSend \/ SafeClose
    <2>1. /\ Rests /\ evt' = evt /\ UNCHANGED <<req, todo, cur>>
          /\ sendQ # <<>> /\ sendQ' = Tail(sendQ)
      BY <1>a DEF SendOne, AllowBatchSend, SafeClose, TakeRequest, Rests, Closing, itemVars, poolVars, threadVars, loopVars
    <2>2. \A j \in Items : Mark(j)' <= Mark(j)
      BY <2>1 DEF Mark
    <2> QED BY <2>1, <2>2 DEF Loop
  <1>b. ASSUME NEW i \in Items, SendAllItem(i)
        PROVE  /\ Rests /\ evt' = evt /\ UNCHANGED <<req, cur, sendQ>>
               /\ todo' = todo \ {i} /\ req.op # "detect"
    BY <1>b DEF SendAllItem, Rests, Closing, poolVars, threadVars
  <1>c. CASE SendAllBegin
    <2>1. /\ Rests /\ evt' = evt /\ cur' = cur /\ todo' = active /\ req = NoReq
          /\ sendQ # <<>> /\ sendQ' = Tail(sendQ) /\ req' = Head(sendQ)
          /\ req'.op # "detect" /\ req'.id = ZeroID
      BY <1>c DEF SendAllBegin, TakeRequest, Rests, Closing, itemVars, poolVars, threadVars
    <2>2. cur = NoItem
      BY <1>0, <2>1 DEF Loop
    <2>3. \A j \in Items : Mark(j)' <= Mark(j)
      BY <2>1 DEF Mark
    <2> QED BY <1>0, <2>1, <2>2, <2>3 DEF ZeroID
  <1>d. CASE DetectBegin
    <2>1. /\ Rests /\ evt' = evt /\ cur' = cur /\ todo' = active /\ req = NoReq
          /\ sendQ # <<>> /\ req' = Head(sendQ) /\ req'.op = "detect"
      BY <1>d DEF DetectBegin, TakeRequest, Rests, Closing, itemVars, poolVars, threadVars
    <2>2. cur = NoItem
      BY <1>0, <2>1 DEF Loop
    <2> QED BY <1>0, <1>d, <2>1, <2>2
  <1>e. CASE LoopEnd
    <2>1. /\ Rests /\ evt' = evt /\ UNCHANGED <<cur, todo, sendQ>> /\ req' = NoReq /\ cur = NoItem
      BY <1>e DEF LoopEnd, Rests, Closing, itemVars, poolVars, threadVars
    <2>2. \A j \in Items : Mark(j)' <= Mark(j)
      BY <1>0, <2>1 DEF Mark
    <2> QED BY <1>0, <2>1, <2>2 DEF Loop
  <1>f. ASSUME NEW i \in Items, DetectRead(i)
        PROVE  /\ Rests /\ evt' = evt /\ UNCHANGED <<req, sendQ>>
               /\ \A j \in Items : Mark(j)' <= Mark(j)
               /\ cur' = i /\ todo' = todo \ {i} /\ req.op = "detect"
    <2>1. /\ Rests /\ evt' = evt /\ UNCHANGED <<req, sendQ>> /\ req.op = "detect"
          /\ cur' = i /\ todo' = todo \ {i} /\ i \in todo
      BY <1>f DEF DetectRead, Rests, Closing, itemVars, poolVars, threadVars
    <2> QED BY <2>1 DEF Mark
  <1>g. ASSUME NEW i \in Items, cur = i, cur' = NoItem, UNCHANGED <<req, todo, sendQ>>
        PROVE  Works(i)
    BY <1>0, <1>g DEF Works, Mark, Loop
  <1>h. ASSUME NEW i \in Items, DetectClose(i)
        PROVE  /\ UNCHANGED <<req, todo>> /\ cur' = NoItem /\ Works(i)
               /\ \/ i \notin notified /\ Rests /\ evt' = evt
                  \/ Announces(i)
                  \/ i \notin Closing /\ Resets(i)
    <2>1. /\ CloseSocket(i, "send", recving, sends, tick)
          /\ hold[i] = "none" /\ UNCHANGED <<reserved, service, issued>>
          /\ cur = i /\ cur' = NoItem /\ UNCHANGED <<req, todo, sendQ>>
      BY <1>h DEF DetectClose, threadVars
    <2> QED BY <1>g, <2>1, CloseShape
  <1>i. ASSUME NEW i \in Items, DetectSend(i)
        PROVE  /\ UNCHANGED <<req, todo, sendQ>> /\ cur' = NoItem
               /\ Rests /\ evt' = evt /\ \A j \in Items : Mark(j)' <= Mark(j)
    <2>1. /\ UNCHANGED <<req, todo, sendQ>> /\ cur' = NoItem /\ Rests /\ evt' = evt
      BY <1>i DEF DetectSend, Rests, Closing, poolVars, threadVars
    <2> QED BY <1>0, <2>1 DEF Mark
  <1>1. ASSUME NEW i \in Items, SendAllItem(i) PROVE /\ \A j \in Items : Mark(j)' <= Mark(j) /\ cur = NoItem
    BY <1>0, <1>1, <1>b DEF Mark, Loop
  <1>2. ASSUME NEW i \in Items, SendAllItem(i) \/ DetectRead(i) \/ DetectSend(i)
        PROVE  /\ Rests /\ evt' = evt /\ \A j \in Items : Mark(j)' <= Mark(j)
               /\ UNCHANGED <<req, sendQ>>
               /\ (cur # NoItem => req.op = "detect")' /\ (cur \notin todo)'
    BY <1>0, <1>2, <1>1, <1>b, <1>f, <1>i DEF Loop
  <1>3. ASSUME NEW i \in Items, DetectClose(i)
        PROVE  (cur # NoItem => req.op = "detect")' /\ (cur \notin todo)' /\ req' = req
    BY <1>0, <1>3, <1>h
  <1> QED BY <1>a, <1>c, <1>d, <1>e, <1>h, <1>2, <1>3 DEF SendThread

-----------------------------------------------------------------------------
(* The bound of the rounds.                                                *)

\* The numbers of RoundLimit.
LEMMA LimitType ==
  ASSUME TypeOK, NEW j \in Items
  PROVE  /\ round[j] \in Nat /\ Mark(j) \in {0, 1} /\ Owed(j) \in {0, 1}
         /\ Cardinality(Detects(sendQ)) \in Nat /\ Cardinality(Detects(sendQ)) <= Len(sendQ)
         /\ Limit \in Nat /\ MaxRound \in Nat /\ MaxQueue \in Nat /\ RoundMod \in Nat
         /\ Limit = MaxRound + MaxQueue + 2 /\ Len(sendQ) \in Nat
  <1>1. round[j] \in Nat /\ sendQ \in Seq(QueuedReqs)
    BY RoundAssumption DEF TypeOK, ItemTypeOK, SendTypeOK, Rounds
  <1> QED BY <1>1, DetectsLemma, RoundAssumption, QueueAssumption DEF Mark, Owed, Limit

\* A slot that owes an increment has room for it.
LEMMA RoomForReset ==
  ASSUME RoundsFit, TypeOK, NEW i \in Items, RoundLimit(i), Mark(i) = 1 \/ i \in Closing
  PROVE  (round[i] + 1) % RoundMod = round[i] + 1
  <1> DEFINE d == Cardinality(Detects(sendQ))
  <1>0. /\ round[i] \in Nat /\ Mark(i) \in {0, 1} /\ Owed(i) \in {0, 1} /\ d \in Nat /\ Limit \in Nat
    BY LimitType
  <1>1. Mark(i) + Owed(i) >= 1
    BY <1>0 DEF Owed
  <1>2. round[i] + 1 <= Limit + 3
    <2>1. \/ round[i] + Mark(i) + Owed(i) + d <= Limit
          \/ round[i] + Mark(i) + Owed(i) + d <= Limit + 1
          \/ round[i] + Mark(i) + Owed(i) <= Limit + 3
      BY DEF RoundLimit
    <2> HIDE DEF d
    <2> QED BY <1>0, <1>1, <2>1
  <1>3. round[i] + 1 < RoundMod /\ round[i] + 1 >= 0
    BY <1>2, LimitType DEF RoundsFit
  <1>4. ASSUME NEW a \in Nat, NEW m \in Nat, a < m PROVE a % m = a
    BY <1>4
  <1> QED BY <1>3, <1>4, LimitType

\* No increment is added to those to come.
Lighter ==
  /\ Cardinality(Detects(sendQ))' <= Cardinality(Detects(sendQ))
  /\ \A j \in Items : Mark(j)' <= Mark(j)

\* Steps that add no detect request keep the bound: a reset uses up what the
\* slot owed or the mark of the detect loop.
LEMMA LimitKept ==
  ASSUME RoundsFit, TypeOK, TypeOK', \A j \in Items : RoundLimit(j), Lighter,
         \/ UNCHANGED <<round, notified, Closing, active, reserved>>
         \/ \E i \in Items : Announces(i) /\ i \in active /\ i \notin Closing /\ i \notin reserved
         \/ \E i \in Items : Resets(i) /\ (i \in Closing \/ Works(i))
  PROVE  \A j \in Items : RoundLimit(j)' /\ round'[j] >= round[j]
  <1>0. SUFFICES ASSUME NEW j \in Items PROVE RoundLimit(j)' /\ round'[j] >= round[j]
    OBVIOUS
  <1> DEFINE d == Cardinality(Detects(sendQ))
             e == Cardinality(Detects(sendQ))'
  <1>1. /\ round[j] \in Nat /\ Mark(j) \in {0, 1} /\ Owed(j) \in {0, 1} /\ d \in Nat /\ Limit \in Nat
    BY LimitType
  <1>2. /\ round'[j] \in Nat /\ Mark(j)' \in {0, 1} /\ Owed(j)' \in {0, 1} /\ e \in Nat
    <2>1. round'[j] \in Nat /\ sendQ' \in Seq(QueuedReqs)
      BY RoundAssumption DEF TypeOK, ItemTypeOK, SendTypeOK, Rounds
    <2> QED BY <2>1, DetectsLemma DEF Mark, Owed
  <1>3. e <= d /\ Mark(j)' <= Mark(j)
    BY DEF Lighter
  <1>4. RoundLimit(j)
    OBVIOUS
  <1> HIDE DEF d, e
  <1>5. CASE UNCHANGED <<round, notified, Closing, active, reserved>>
    <2>1. Owed(j)' = Owed(j)
      BY <1>5 DEF Owed
    <2> QED BY <1>1, <1>2, <1>3, <1>4, <1>5, <2>1 DEF RoundLimit, d, e
  <1>6. ASSUME NEW i \in Items, Announces(i), i \in active, i \notin Closing, i \notin reserved
        PROVE  RoundLimit(j)' /\ round'[j] >= round[j]
    <2>1. CASE j # i
      <3>1. /\ Owed(j)' = Owed(j) /\ round' = round /\ reserved' = reserved
            /\ (j \in notified') = (j \in notified) /\ (j \in active') = (j \in active)
        BY <1>6, <2>1 DEF Announces, Owed
      <3> QED BY <1>1, <1>2, <1>3, <1>4, <3>1 DEF RoundLimit, d, e
    <2>2. CASE j = i
      <3>1. /\ Owed(j)' = 1 /\ Owed(j) = 0 /\ round' = round /\ reserved' = reserved
            /\ j \in notified' /\ j \notin notified /\ j \notin reserved
            /\ j \in active' => j \in active
        BY <1>6, <2>2 DEF Announces, Owed
      <3>2. CASE j \in active
        BY <1>1, <1>2, <1>3, <1>4, <3>1, <3>2 DEF RoundLimit, d, e
      <3> QED BY <1>6, <2>2, <3>2
    <2> QED BY <2>1, <2>2
  <1>7. ASSUME NEW i \in Items, Resets(i), i \in Closing \/ Works(i)
        PROVE  RoundLimit(j)' /\ round'[j] >= round[j]
    <2>0. round \in [Items -> Rounds]
      BY DEF TypeOK, ItemTypeOK
    <2>1. CASE j # i
      <3>1. /\ Owed(j)' = Owed(j) /\ round'[j] = round[j]
            /\ UNCHANGED <<notified, active, reserved>>
        BY <1>7, <2>0, <2>1 DEF Resets, Owed
      <3> QED BY <1>1, <1>2, <1>3, <1>4, <3>1 DEF RoundLimit, d, e
    <2>2. CASE j = i
      <3>1. (round[i] + 1) % RoundMod = round[i] + 1
        BY <1>7, RoomForReset DEF Works
      <3>2. /\ Owed(j)' = 0 /\ round'[j] = round[j] + 1
            /\ UNCHANGED <<notified, active, reserved>>
        BY <1>7, <2>0, <2>2, <3>1 DEF Resets, Owed
      <3>3. Owed(j) = 1 \/ (Mark(j) = 1 /\ Mark(j)' = 0)
        BY <1>7, <2>2 DEF Owed, Works
      <3>4. CASE j \in active
        BY <1>1, <1>2, <1>3, <1>4, <3>2, <3>3, <3>4 DEF RoundLimit, d, e
      <3>5. CASE j \notin active
        BY <1>1, <1>2, <1>3, <1>4, <3>2, <3>3, <3>5 DEF RoundLimit, d, e
      <3> QED BY <3>4, <3>5
    <2> QED BY <2>1, <2>2
  <1> QED BY <1>5, <1>6, <1>7

\* A slot whose close is announced was in use.
LEMMA AnnouncedInUse ==
  ASSUME IInv, NEW i \in Items, Announces(i)
  PROVE  i \in active /\ i \notin Closing /\ i \notin reserved
  BY DEF IInv, SlotOK, Announces, Closing

\* A detect request is queued while the rounds of all active slots are low.
LEMMA LimitDetectSocket ==
  ASSUME TypeOK, TypeOK', RInv, DetectSocket, Rests, UNCHANGED <<req, todo, cur>>
  PROVE  \A j \in Items : RoundLimit(j)' /\ round'[j] >= round[j]
  <1>0. SUFFICES ASSUME NEW j \in Items PROVE RoundLimit(j)' /\ round'[j] >= round[j]
    OBVIOUS
  <1> DEFINE d == Cardinality(Detects(sendQ))
             e == Cardinality(Detects(sendQ))'
  <1>1. /\ round[j] \in Nat /\ Mark(j) \in {0, 1} /\ Owed(j) \in {0, 1} /\ d \in Nat
        /\ d <= Len(sendQ) /\ Len(sendQ) \in Nat /\ MaxRound \in Nat /\ MaxQueue \in Nat
        /\ Limit = MaxRound + MaxQueue + 2
    BY LimitType
  <1>2. RoundLimit(j) /\ Mark(j)' = Mark(j) /\ Owed(j)' = Owed(j)
    BY DEF RInv, Mark, Owed, Rests
  <1>3. Len(sendQ) < MaxQueue /\ (j \in active => round[j] <= MaxRound)
    BY DEF DetectSocket, AddToQueue
  <1>4. e = d + 1
    <2>1. sendQ \in Seq(QueuedReqs) /\ [op |-> "detect", id |-> ZeroID] \in QueuedReqs
      <3>1. "detect" \in Env /\ ZeroID \in IDs
        BY PoolAssumption, RoundAssumption DEF DetectSocket, AddToQueue, ZeroID, IDs, Items, Rounds
      <3> QED BY <3>1 DEF QueuedReqs, TypeOK, SendTypeOK
    <2>2. sendQ' = Append(sendQ, [op |-> "detect", id |-> ZeroID])
      BY DEF DetectSocket, AddToQueue
    <2>3. Cardinality(Detects(Append(sendQ, [op |-> "detect", id |-> ZeroID]))) = d + 1
      BY <2>1, DetectsLemma
    <2> QED BY <2>2, <2>3
  <1>5. UNCHANGED <<round, notified, active, reserved>>
    BY DEF Rests
  <1> HIDE DEF d, e
  <1>6. CASE j \in active
    <2>1. round'[j] + Mark(j)' + Owed(j)' + e <= Limit
      BY <1>1, <1>2, <1>3, <1>4, <1>5, <1>6
    <2>2. round'[j] + Mark(j)' + Owed(j)' + e <= Limit + 1
      BY <1>1, <1>2, <1>4, <1>5, <2>1
    <2> QED BY <1>1, <1>5, <1>6, <2>1, <2>2 DEF RoundLimit, e
  <1>7. CASE j \notin active
    BY <1>1, <1>2, <1>5, <1>7 DEF RoundLimit
  <1> QED BY <1>6, <1>7

\* The detect loop begins: each active slot has an increment to come, instead
\* of the request.
LEMMA LimitDetectBegin ==
  ASSUME IInv, TypeOK', RInv, DetectBegin, Rests
  PROVE  \A j \in Items : RoundLimit(j)' /\ round'[j] >= round[j]
  <1>0. SUFFICES ASSUME NEW j \in Items PROVE RoundLimit(j)' /\ round'[j] >= round[j]
    OBVIOUS
  <1> DEFINE d == Cardinality(Detects(sendQ))
             e == Cardinality(Detects(sendQ))'
  <1>1. /\ round[j] \in Nat /\ Mark(j) \in {0, 1} /\ Owed(j) \in {0, 1} /\ d \in Nat
        /\ Limit \in Nat
    BY LimitType DEF IInv
  <1>2. /\ RoundLimit(j) /\ Owed(j)' = Owed(j) /\ UNCHANGED <<round, notified, active, reserved>>
    BY DEF RInv, Owed, Rests
  <1>3. /\ req = NoReq /\ cur' = cur /\ todo' = active /\ sendQ # <<>> /\ sendQ' = Tail(sendQ)
        /\ Head(sendQ).op = "detect" /\ sendQ \in Seq(QueuedReqs)
    BY DEF DetectBegin, TakeRequest, IInv, TypeOK, SendTypeOK
  <1>4. e = d - 1
    BY <1>3, DetectsLemma
  <1>5. cur = NoItem /\ NoItem # j
    BY <1>3, PoolAssumption DEF NoReq, RInv, Loop, NoItem, Items
  <1>6. Mark(j) = 0 /\ Mark(j)' \in {0, 1} /\ (j \notin active => Mark(j)' = 0)
    BY <1>3, <1>5 DEF Mark, NoReq
  <1> HIDE DEF d, e
  <1>7. CASE j \in active
    BY <1>1, <1>2, <1>4, <1>6, <1>7 DEF RoundLimit, d, e
  <1>8. CASE j \notin active
    BY <1>1, <1>2, <1>6, <1>8 DEF RoundLimit
  <1> QED BY <1>7, <1>8

\* A slot is taken from the free list only in a low round.
LEMMA LimitActive ==
  ASSUME IInv, TypeOK', RInv, NEW i \in Items, ActiveSocketItem(i) \/ Attach(i)
  PROVE  \A j \in Items : RoundLimit(j)' /\ round'[j] >= round[j]
  <1>0. SUFFICES ASSUME NEW j \in Items PROVE RoundLimit(j)' /\ round'[j] >= round[j]
    OBVIOUS
  <1> DEFINE d == Cardinality(Detects(sendQ))
  <1>1. /\ round[j] \in Nat /\ Mark(j) \in {0, 1} /\ Owed(j) \in {0, 1} /\ d \in Nat
        /\ d <= Len(sendQ) /\ Len(sendQ) \in Nat /\ MaxRound \in Nat /\ MaxQueue \in Nat
        /\ Limit = MaxRound + MaxQueue + 2
    BY LimitType DEF IInv
  <1>2. /\ round' = round /\ sendQ' = sendQ /\ Mark(j)' = Mark(j)
    BY DEF ActiveSocketItem, Attach, itemVars, loopVars, Mark
  <1>3. Owed(j)' = Owed(j)
    <2>1. CASE ActiveSocketItem(i)
      BY <2>1 DEF ActiveSocketItem, Owed, Closing
    <2>2. CASE Attach(i)
      BY <2>2 DEF Attach, Owed, Closing, IInv, TypeOK, ItemTypeOK
    <2> QED BY <2>1, <2>2
  <1>4. RoundLimit(j) /\ Len(sendQ) <= MaxQueue
    BY DEF RInv, Loop
  <1> HIDE DEF d
  <1>5. CASE ActiveSocketItem(i) /\ j = i
    <2>1. round[j] <= MaxRound /\ j \in active' /\ j \in reserved'
      BY <1>5 DEF ActiveSocketItem
    <2>2. round[j] + Mark(j) + Owed(j) + d <= Limit
      BY <1>1, <1>4, <2>1
    <2> QED BY <1>1, <1>2, <1>3, <2>1, <2>2 DEF RoundLimit, d
  <1>6. CASE ActiveSocketItem(i) /\ j # i
    <2>1. /\ (j \in active') = (j \in active) /\ notified' = notified /\ j \notin reserved' /\ j \notin reserved
      BY <1>6 DEF ActiveSocketItem, itemVars, Accepted, AcceptIdle
    <2> QED BY <1>1, <1>2, <1>3, <1>4, <2>1 DEF RoundLimit, d
  <1>7. CASE Attach(i)
    <2>1. /\ active' = active /\ reserved' = {} /\ notified' = notified \ {i} /\ i \in reserved
      BY <1>7 DEF Attach, poolVars
    <2>2. CASE j = i
      BY <1>1, <1>2, <1>3, <1>4, <2>1, <2>2 DEF RoundLimit, d
    <2>3. CASE j # i
      BY <1>1, <1>2, <1>3, <1>4, <2>1, <2>3 DEF RoundLimit, d
    <2> QED BY <2>2, <2>3
  <1> QED BY <1>5, <1>6, <1>7

\* ConcludeService increments the round of an active slot at most twice.
LEMMA LimitConclude ==
  ASSUME RoundsFit, IInv, TypeOK', RInv, ConcludeRest
  PROVE  \A j \in Items : RoundLimit(j)' /\ round'[j] >= round[j]
  <1>0. SUFFICES ASSUME NEW j \in Items PROVE RoundLimit(j)' /\ round'[j] >= round[j]
    OBVIOUS
  <1> DEFINE d == Cardinality(Detects(sendQ))
  <1>1. /\ round[j] \in Nat /\ Mark(j) \in {0, 1} /\ Owed(j) \in {0, 1} /\ d \in Nat /\ Limit \in Nat
        /\ Limit = MaxRound + MaxQueue + 2 /\ RoundMod \in Nat /\ MaxRound \in Nat /\ MaxQueue \in Nat
    BY LimitType DEF IInv
  <1>2. /\ sendQ' = sendQ /\ Mark(j)' = Mark(j) /\ Owed(j)' = Owed(j) /\ active' = {}
    BY DEF ConcludeRest, ServiceUnchanged, loopVars, Mark, Owed, Closing
  <1>3. PICK n \in [Items -> 0 .. 2] : /\ \A i \in Items : n[i] \in Increments(i)
                                       /\ round' = [i \in Items |-> (round[i] + n[i]) % RoundMod]
    BY DEF ConcludeRest
  <1>4. n[j] \in 0 .. 2 /\ n[j] \in Increments(j) /\ round'[j] = (round[j] + n[j]) % RoundMod
    BY <1>3
  <1>5. j \notin active => n[j] = 0
    BY <1>4 DEF Increments
  <1>6. RoundLimit(j)
    BY DEF RInv
  <1> HIDE DEF d
  <1>7. round[j] + n[j] + Mark(j) + Owed(j) <= Limit + 3
    <2>1. CASE j \in active
      BY <1>1, <1>4, <1>6, <2>1 DEF RoundLimit, d
    <2>2. CASE j \notin active
      BY <1>1, <1>5, <1>6, <2>2 DEF RoundLimit
    <2> QED BY <2>1, <2>2
  <1>8. round[j] + n[j] \in Nat /\ round[j] + n[j] < RoundMod
    BY <1>1, <1>4, <1>7 DEF RoundsFit
  <1>9. ASSUME NEW a \in Nat, NEW m \in Nat, a < m PROVE a % m = a
    BY <1>9
  <1>10. round'[j] = round[j] + n[j]
    BY <1>1, <1>4, <1>8, <1>9
  <1> QED BY <1>1, <1>2, <1>4, <1>7, <1>10 DEF RoundLimit

\* Every step keeps the bound, and no round falls.
LEMMA LimitStep ==
  ASSUME RoundsFit, IInv, IInv', RInv, Next
  PROVE  \A j \in Items : RoundLimit(j)' /\ round'[j] >= round[j]
  <1> DEFINE Goal == \A j \in Items : RoundLimit(j)' /\ round'[j] >= round[j]
             d == Cardinality(Detects(sendQ))
             e == Cardinality(Detects(sendQ))'
  <1>0. /\ TypeOK /\ TypeOK' /\ (\A j \in Items : RoundLimit(j)) /\ Fresh /\ Loop
        /\ sendQ \in Seq(QueuedReqs) /\ d \in Nat
    <2>1. sendQ \in Seq(QueuedReqs)
      BY DEF IInv, TypeOK, SendTypeOK
    <2> QED BY <2>1, DetectsLemma DEF IInv, RInv
  <1>m. ASSUME UNCHANGED <<req, todo, cur>> PROVE \A j \in Items : Mark(j)' = Mark(j) /\ Mark(j) \in Int
    BY <1>m DEF Mark
  <1>a. ASSUME NEW i \in Items,
               \/ RecvCompletion(i) \/ SendCompletion(i) \/ FinishClose(i)
               \/ \E op \in {"recv", "send"} : CompletionFails(i, op)
        PROVE Goal
    <2>1. /\ \/ Rests \/ Announces(i) \/ (i \in Closing /\ Resets(i))
          /\ UNCHANGED <<sendQ, req, todo, cur>>
      BY <1>a, RSShape
    <2>2. Lighter
      BY <1>0, <1>m, <2>1 DEF Lighter
    <2>3. \/ UNCHANGED <<round, notified, Closing, active, reserved>>
          \/ Announces(i) /\ i \in active /\ i \notin Closing /\ i \notin reserved
          \/ Resets(i) /\ i \in Closing
      BY <2>1, AnnouncedInUse DEF Rests
    <2> QED BY <1>0, <2>2, <2>3, LimitKept
  <1>b. CASE AcceptThread
    <2>1. CASE AcceptRefused \/ AcceptFails
      <3>1. UNCHANGED <<round, notified, Closing, active, reserved, sendQ, req, todo, cur>>
        BY <2>1 DEF AcceptRefused, AcceptFails, vars, itemVars, poolVars, threadVars, loopVars, Closing
      <3>2. Lighter
        BY <1>0, <1>m, <3>1 DEF Lighter
      <3> QED BY <1>0, <3>1, <3>2, LimitKept
    <2> QED BY <1>0, <1>b, <2>1, LimitActive DEF AcceptThread
  <1>c. CASE Caller
    <2>0. UNCHANGED <<req, todo, cur>>
      BY <1>0, <1>c, CallerShape
    <2>1. CASE sendQ' = sendQ /\ (Rests \/ \E i \in Items : Announces(i))
      <3>1. Lighter
        BY <1>0, <1>m, <2>0, <2>1 DEF Lighter
      <3>2. \/ UNCHANGED <<round, notified, Closing, active, reserved>>
            \/ \E i \in Items : Announces(i) /\ i \in active /\ i \notin Closing /\ i \notin reserved
        BY <2>1, AnnouncedInUse DEF Rests
      <3> QED BY <1>0, <3>1, <3>2, LimitKept
    <2>2. ASSUME NEW op \in {"send", "batch", "shut", "allow", "forbid"}, NEW id \in IDs,
                 sendQ' = Append(sendQ, [op |-> op, id |-> id]), Rests
          PROVE  Goal
      <3>1. [op |-> op, id |-> id] \in QueuedReqs
        <4>1. sendQ' \in Seq(QueuedReqs) /\ Len(sendQ) \in Nat
          BY <1>0 DEF TypeOK, SendTypeOK
        <4>2. Len(sendQ) + 1 \in DOMAIN sendQ' /\ sendQ'[Len(sendQ) + 1] = [op |-> op, id |-> id]
          BY <1>0, <2>2
        <4> QED BY <4>1, <4>2
      <3>2. e = d
        BY <1>0, <2>2, <3>1, DetectsLemma
      <3>3. Lighter
        BY <1>0, <1>m, <2>0, <3>2 DEF Lighter
      <3> QED BY <1>0, <2>2, <3>3, LimitKept DEF Rests
    <2>3. CASE DetectSocket /\ Rests
      BY <1>0, <2>0, <2>3, LimitDetectSocket
    <2> QED BY <1>0, <1>c, <2>1, <2>2, <2>3, CallerShape
  <1>d. CASE SendThread
    <2>1. CASE /\ Rests /\ \A j \in Items : Mark(j)' <= Mark(j)
               /\ sendQ' = sendQ \/ (sendQ # <<>> /\ sendQ' = Tail(sendQ))
      <3>1. e <= d
        <4>1. CASE sendQ' = sendQ
          BY <1>0, <4>1
        <4>2. CASE sendQ # <<>> /\ sendQ' = Tail(sendQ)
          <5>1. Cardinality(Detects(Tail(sendQ))) = d \/ Cardinality(Detects(Tail(sendQ))) = d - 1
            BY <1>0, <4>2, DetectsLemma
          <5> QED BY <1>0, <4>2, <5>1
        <4> QED BY <2>1, <4>1, <4>2
      <3>2. Lighter
        BY <2>1, <3>1 DEF Lighter
      <3> QED BY <1>0, <2>1, <3>2, LimitKept DEF Rests
    <2>2. CASE DetectBegin /\ Rests
      BY <1>0, <2>2, LimitDetectBegin
    <2>3. ASSUME NEW i \in Items, Works(i), Rests \/ Announces(i) \/ Resets(i) PROVE Goal
      <3>1. Lighter
        <4>1. e <= d
          BY <1>0, <2>3 DEF Works
        <4>2. ASSUME NEW j \in Items PROVE Mark(j)' <= Mark(j)
          <5>1. Mark(j) \in {0, 1}
            BY DEF Mark
          <5>2. CASE j = i
            <6>1. Mark(j)' = 0
              BY <2>3, <5>2 DEF Works
            <6> QED BY <5>1, <6>1
          <5>3. CASE j # i
            <6>1. Mark(j)' = Mark(j)
              BY <2>3, <5>3 DEF Works
            <6> QED BY <5>1, <6>1
          <5> QED BY <5>2, <5>3
        <4> QED BY <4>1, <4>2 DEF Lighter
      <3>2. \/ UNCHANGED <<round, notified, Closing, active, reserved>>
            \/ Announces(i) /\ i \in active /\ i \notin Closing /\ i \notin reserved
            \/ Resets(i) /\ Works(i)
        BY <2>3, AnnouncedInUse DEF Rests
      <3> QED BY <1>0, <3>1, <3>2, LimitKept
    <2> QED BY <1>0, <1>d, <2>1, <2>2, <2>3, SendShape
  <1>e. CASE Service \/ Tick
    <2>1. CASE ConcludeRest
      BY <1>0, <2>1, LimitConclude
    <2>2. CASE \/ StartService \/ ServiceStarted \/ ConcludeService \/ AcceptJoined \/ SendJoined
               \/ RSThreadEnds \/ Tick
      <3>1. UNCHANGED <<round, notified, Closing, active, reserved, sendQ, req, todo, cur>>
        BY <2>2 DEF StartService, ServiceStarted, ConcludeService, AcceptJoined, SendJoined, RSThreadEnds,
          Tick, ServiceUnchanged, itemVars, poolVars, threadVars, loopVars, Closing
      <3>2. Lighter
        BY <1>0, <1>m, <3>1 DEF Lighter
      <3> QED BY <1>0, <3>1, <3>2, LimitKept
    <2> QED BY <1>e, <2>1, <2>2 DEF Service
  <1> QED BY <1>a, <1>b, <1>c, <1>d, <1>e DEF Next

-----------------------------------------------------------------------------
(* Fresh socket IDs.                                                       *)

\* What a step does to the slots and to the announced IDs.
SlotStep ==
  \/ UNCHANGED <<round, notified, Closing, issued>>
  \/ \E i \in Items : Announces(i)
  \/ \E i \in Items : Resets(i)
  \/ \E i \in Items : Attach(i)
  \/ ConcludeRest

\* Every step is one of these.
LEMMA SlotShape == ASSUME IInv, RInv, Next PROVE SlotStep
  <1>0. Fresh /\ Loop
    BY DEF RInv
  <1>a. ASSUME NEW i \in Items,
               \/ RecvCompletion(i) \/ SendCompletion(i) \/ FinishClose(i)
               \/ \E op \in {"recv", "send"} : CompletionFails(i, op)
        PROVE SlotStep
    BY <1>a, RSShape DEF SlotStep, Rests
  <1>b. CASE AcceptThread
    <2>1. ASSUME NEW i \in Items, ActiveSocketItem(i) PROVE SlotStep
      BY <2>1 DEF ActiveSocketItem, itemVars, Closing, SlotStep
    <2>2. CASE AcceptRefused \/ AcceptFails
      BY <2>2 DEF AcceptRefused, AcceptFails, vars, itemVars, Closing, SlotStep
    <2> QED BY <1>b, <2>1, <2>2 DEF AcceptThread, SlotStep
  <1>c. CASE Caller
    BY <1>0, <1>c, CallerShape DEF SlotStep, Rests
  <1>d. CASE SendThread
    BY <1>0, <1>d, SendShape DEF SlotStep, Rests
  <1>e. CASE Service \/ Tick
    <2>1. CASE \/ StartService \/ ServiceStarted \/ ConcludeService \/ AcceptJoined \/ SendJoined
               \/ RSThreadEnds \/ Tick
      BY <2>1 DEF StartService, ServiceStarted, ConcludeService, AcceptJoined, SendJoined, RSThreadEnds,
          Tick, ServiceUnchanged, itemVars, Closing, SlotStep
    <2> QED BY <1>e, <2>1 DEF Service, SlotStep
  <1> QED BY <1>a, <1>b, <1>c, <1>d, <1>e DEF Next

\* An ID that was announced stays below the round of its slot once the slot is
\* reset, because no round falls.
LEMMA FreshStep ==
  ASSUME RoundsFit, IInv, IInv', RInv, SlotStep,
         \A j \in Items : round'[j] >= round[j],
         \A i \in Items : Resets(i) => round'[i] = round[i] + 1
  PROVE  Fresh'
  <1>0. /\ Fresh /\ issued \subseteq IDs /\ round \in [Items -> Nat] /\ round' \in [Items -> Nat]
        /\ \A i \in Items : SlotOK(i)
    BY RoundAssumption DEF RInv, IInv, TypeOK, ItemTypeOK, EngineTypeOK, Rounds
  <1>1. \A id \in issued : id[1] \in Items /\ id[2] \in Nat
    BY <1>0, RoundAssumption DEF IDs, Rounds
  <1>a. CASE UNCHANGED <<round, notified, Closing, issued>>
    BY <1>0, <1>a DEF Fresh
  <1>b. ASSUME NEW i \in Items, Announces(i) PROVE Fresh'
    BY <1>0, <1>b DEF Fresh, Announces
  <1>c. ASSUME NEW i \in Items, Resets(i) PROVE Fresh'
    <2>1. /\ notified' = notified /\ Closing' = Closing \ {i} /\ issued' = issued
          /\ round' = [round EXCEPT ![i] = (@ + 1) % RoundMod] /\ round'[i] = round[i] + 1
      BY <1>c DEF Resets
    <2>2. \A j \in Items \ {i} : round'[j] = round[j]
      BY <1>0, <2>1
    <2>3. SUFFICES ASSUME NEW id \in issued
                   PROVE  /\ id[2] <= round'[id[1]]
                          /\ id[1] \in notified' \ Closing' => id[2] < round'[id[1]]
      BY <2>1 DEF Fresh
    <2>4. CASE id[1] = i
      BY <1>0, <1>1, <2>1, <2>4 DEF Fresh
    <2>5. CASE id[1] # i
      BY <1>0, <1>1, <2>1, <2>2, <2>5 DEF Fresh
    <2> QED BY <2>4, <2>5
  <1>d. ASSUME NEW i \in Items, Attach(i) PROVE Fresh'
    <2>1. /\ notified' = notified \ {i} /\ round' = round
          /\ issued' = issued \/ issued' = issued \cup {<<i, round[i]>>}
      BY <1>d DEF Attach, GetSocketID
    <2>2. Closing' = Closing
      BY <1>d DEF Attach, Closing, IInv, TypeOK, ItemTypeOK
    <2> QED BY <1>0, <1>1, <2>1, <2>2 DEF Fresh
  <1>e. CASE ConcludeRest
    <2>1. /\ notified' = notified \cup active /\ Closing' = Closing /\ issued' = issued
      BY <1>e DEF ConcludeRest, Closing, ServiceUnchanged
    <2>2. SUFFICES ASSUME NEW id \in issued
                   PROVE  /\ id[2] <= round'[id[1]]
                          /\ id[1] \in notified' \ Closing' => id[2] < round'[id[1]]
      BY <2>1 DEF Fresh
    <2> DEFINE j == id[1]
    <2>3. j \in Items /\ id[2] \in Nat /\ id[2] <= round[j] /\ round'[j] >= round[j]
      BY <1>0, <1>1 DEF Fresh
    <2>4. ASSUME j \in active, j \notin Closing PROVE round'[j] # round[j]
      <3>1. PICK n \in [Items -> 0 .. 2] : /\ \A i \in Items : n[i] \in Increments(i)
                                           /\ round' = [i \in Items |-> (round[i] + n[i]) % RoundMod]
        BY <1>e DEF ConcludeRest
      <3>2. hold[j] = "none"
        BY <1>e, <2>3, <2>4 DEF ConcludeRest, Closing
      <3>3. n[j] \in {1, 2} /\ round'[j] = (round[j] + n[j]) % RoundMod
        BY <2>3, <2>4, <3>1, <3>2 DEF Increments
      <3>4. round[j] \in Rounds /\ RoundMod \in Nat /\ RoundMod > 3
        BY <2>3, RoundAssumption, QueueAssumption DEF IInv, TypeOK, ItemTypeOK, RoundsFit
      <3> QED BY <3>3, <3>4 DEF Rounds
    <2>5. j \in notified \ Closing => id[2] < round[j]
      BY <1>0 DEF Fresh
    <2> HIDE DEF j
    <2>6. j \in notified' \ Closing' => id[2] < round'[j]
      <3>1. CASE j \in notified \ Closing
        BY <1>0, <2>3, <2>5, <3>1
      <3>2. CASE j \in active \ Closing
        BY <1>0, <2>3, <2>4, <3>2
      <3> QED BY <2>1, <3>1, <3>2
    <2> QED BY <1>0, <2>3, <2>6 DEF j
  <1> QED BY <1>a, <1>b, <1>c, <1>d, <1>e DEF SlotStep

\* The queue is bounded and the loop visits each slot once.
LEMMA LoopStep == ASSUME IInv, RInv, Next PROVE Loop'
  <1>0. Fresh /\ Loop /\ sendQ \in Seq(QueuedReqs) /\ Len(sendQ) \in Nat /\ MaxQueue \in Nat
    BY QueueAssumption DEF IInv, TypeOK, SendTypeOK, RInv
  <1>a. CASE UNCHANGED <<sendQ, req, todo, cur>>
    BY <1>0, <1>a DEF Loop
  <1>b. CASE Caller
    <2>1. UNCHANGED <<req, todo, cur>>
      BY <1>0, <1>b, CallerShape
    <2>2. ASSUME NEW r, AddToQueue(r) PROVE Len(sendQ') <= MaxQueue
      <3>1. sendQ' = Append(sendQ, r) /\ Len(sendQ) < MaxQueue
        BY <2>2 DEF AddToQueue
      <3>2. Len(sendQ') = Len(sendQ) + 1
        BY <1>0, <3>1
      <3> QED BY <1>0, <3>1, <3>2
    <2>3. ASSUME NEW id, CloseSocketID(id) PROVE sendQ' = sendQ
      BY <2>3 DEF CloseSocketID
    <2>4. Len(sendQ') <= MaxQueue
      BY <1>0, <1>b, <2>2, <2>3 DEF Caller, QueueRequest, SendDataBatch, DetectSocket, Loop
    <2> QED BY <1>0, <2>1, <2>4 DEF Loop
  <1>c. CASE SendThread
    <2>1. /\ sendQ' = sendQ \/ (sendQ # <<>> /\ sendQ' = Tail(sendQ))
          /\ (cur # NoItem => req.op = "detect")' /\ (cur \notin todo)'
      BY <1>0, <1>c, SendShape DEF Works, DetectBegin, TakeRequest
    <2>2. Len(sendQ') <= MaxQueue
      BY <1>0, <2>1 DEF Loop
    <2> QED BY <2>1, <2>2 DEF Loop
  <1>d. ASSUME NEW i \in Items,
               \/ RecvCompletion(i) \/ SendCompletion(i) \/ FinishClose(i)
               \/ \E op \in {"recv", "send"} : CompletionFails(i, op)
        PROVE  UNCHANGED <<sendQ, req, todo, cur>>
    BY <1>d, RSShape
  <1>e. ASSUME AcceptThread \/ Service \/ Tick
        PROVE  UNCHANGED <<sendQ, req, todo, cur>>
    BY <1>e DEF AcceptThread, ActiveSocketItem, Attach, AcceptRefused, AcceptFails, vars, Service,
      StartService, ServiceStarted, ConcludeService, AcceptJoined, SendJoined, RSThreadEnds, ConcludeRest,
      Tick, ServiceUnchanged, loopVars
  <1> QED BY <1>a, <1>b, <1>c, <1>d, <1>e DEF Next

\* No socket ID 0.
LEMMA PositiveStep ==
  ASSUME IInv, IInv', RInv, Next, \A j \in Items : round'[j] >= round[j]
  PROVE  Positive'
  <1>0. /\ Positive /\ Fresh /\ Loop /\ sendQ \in Seq(QueuedReqs) /\ issued \subseteq IDs
        /\ round \in [Items -> Nat] /\ round' \in [Items -> Nat] /\ Len(sendQ) \in Nat
    BY RoundAssumption DEF IInv, TypeOK, ItemTypeOK, SendTypeOK, EngineTypeOK, RInv, Rounds
  <1>1. \A i \in Items : round'[i] >= 1
    BY <1>0 DEF Positive
  <1>2. \A id \in issued' : id[2] >= 1
    <2>1. issued' = issued \/ \E i \in Items : issued' = issued \cup {<<i, round[i]>>}
      <3>1. SlotStep
        BY SlotShape
      <3> QED BY <3>1 DEF SlotStep, Announces, Resets, Attach, ConcludeRest, ServiceUnchanged, GetSocketID
    <2> QED BY <1>0, <2>1 DEF Positive
  <1>3. \/ UNCHANGED <<sendQ, req>>
        \/ Caller
        \/ SendThread
    <2>1. ASSUME NEW i \in Items,
               \/ RecvCompletion(i) \/ SendCompletion(i) \/ FinishClose(i)
               \/ \E op \in {"recv", "send"} : CompletionFails(i, op)
        PROVE  UNCHANGED <<sendQ, req, todo, cur>>
      BY <2>1, RSShape
    <2>2. CASE AcceptThread \/ Service \/ Tick
      BY <2>2 DEF AcceptThread, ActiveSocketItem, Attach, AcceptRefused, AcceptFails, vars, Service,
        StartService, ServiceStarted, ConcludeService, AcceptJoined, SendJoined, RSThreadEnds, ConcludeRest,
        Tick, ServiceUnchanged, loopVars
    <2> QED BY <2>1, <2>2 DEF Next
  <1> DEFINE Named(q) == \A k \in DOMAIN q : q[k].op = "send" => q[k].id[2] >= 1
  <1>4. Named(sendQ) /\ req.op # "send"
    BY <1>0 DEF Positive
  <1>5. Named(sendQ') /\ req'.op # "send"
    <2>1. CASE UNCHANGED <<sendQ, req>>
      BY <1>4, <2>1
    <2>2. CASE Caller
      <3>1. req' = req
        BY <1>0, <2>2, CallerShape
      <3>2. ASSUME NEW op, NEW id \in IDs, sendQ' = Append(sendQ, [op |-> op, id |-> id]),
                   op = "send" => id \in issued
            PROVE  Named(sendQ')
        BY <1>0, <1>4, <3>2 DEF Positive
      <3>3. ASSUME DetectSocket PROVE Named(sendQ')
        <4>1. sendQ' = Append(sendQ, [op |-> "detect", id |-> ZeroID])
          BY <3>3 DEF DetectSocket, AddToQueue
        <4> QED BY <1>0, <1>4, <4>1
      <3>4. sendQ' = sendQ => Named(sendQ')
        BY <1>4
      <3> HIDE DEF Named
      <3> QED BY <1>0, <1>4, <2>2, <3>1, <3>2, <3>3, <3>4, CallerShape
    <2>3. CASE SendThread
      <3> HIDE DEF Named
      <3>0. sendQ' = sendQ \/ (sendQ # <<>> /\ sendQ' = Tail(sendQ))
        BY <1>0, <2>3, SendShape DEF Works, DetectBegin, TakeRequest
      <3>1. \/ req' = req \/ req' = NoReq
            \/ sendQ # <<>> /\ req' = Head(sendQ) /\ (req'.op = "send" => req'.id[2] = 0)
        BY <1>0, <2>3, SendShape
      <3> USE DEF Named
      <3>2. Named(sendQ')
        <4>1. CASE sendQ' = sendQ
          BY <1>4, <4>1
        <4>2. CASE sendQ # <<>> /\ sendQ' = Tail(sendQ)
          <5>1. ASSUME NEW k \in DOMAIN Tail(sendQ)
                PROVE  k + 1 \in DOMAIN sendQ /\ Tail(sendQ)[k] = sendQ[k + 1]
            BY <1>0, <4>2, <5>1
          <5> QED BY <1>4, <4>2, <5>1
        <4> QED BY <3>0, <4>1, <4>2
      <3>3. sendQ # <<>> => Head(sendQ) = sendQ[1] /\ 1 \in DOMAIN sendQ
        BY <1>0
      <3>4. req'.op # "send"
        <4>1. CASE req' = req \/ req' = NoReq
          BY <1>4, <4>1 DEF NoReq
        <4>2. CASE sendQ # <<>> /\ req' = Head(sendQ) /\ (req'.op = "send" => req'.id[2] = 0)
          BY <1>4, <3>3, <4>2
        <4> QED BY <3>1, <4>1, <4>2
      <3> QED BY <3>2, <3>4
    <2> QED BY <1>3, <2>1, <2>2, <2>3
  <1> QED BY <1>1, <1>2, <1>5 DEF Positive

\* The rounds start low, with nothing queued and nothing announced.
LEMMA RInvInit == ASSUME RoundsFit PROVE Init => RInv
  <1> SUFFICES ASSUME Init PROVE RInv
    OBVIOUS
  <1>1. ASSUME NEW i \in Items PROVE RoundLimit(i)
    <2>1. Mark(i) = 0 /\ Owed(i) = 0 /\ round[i] = 1 /\ i \notin active
      BY <1>1 DEF Init, Mark, NoReq, Owed, Closing
    <2> QED BY <2>1, RoundAssumption, QueueAssumption DEF RoundLimit, Limit
  <1>2. Fresh /\ Loop
    BY QueueAssumption DEF Init, Fresh, Loop
  <1>3. Positive
    BY DEF Init, Positive, NoReq
  <1> QED BY <1>1, <1>2, <1>3 DEF RInv

\* The rounds' part of the invariant is kept.
LEMMA RInvStep ==
  ASSUME RoundsFit, IInv, RInv, [Next]_vars
  PROVE  RInv' /\ \A j \in Items : round'[j] >= round[j]
  <1>0. IInv'
    BY InvStep
  <1>1. CASE UNCHANGED vars
    <2>1. /\ UNCHANGED <<round, notified, active, reserved, issued, sendQ, req, todo, cur>>
          /\ Closing' = Closing
      BY <1>1 DEF vars, itemVars, poolVars, threadVars, loopVars, Closing
    <2>2. \A j \in Items : RoundLimit(j)' = RoundLimit(j) /\ round[j] \in Nat
      BY <2>1, RoundAssumption DEF RoundLimit, Mark, Owed, IInv, TypeOK, ItemTypeOK, Rounds
    <2>3. Fresh' /\ Loop' /\ Positive'
      BY <2>1 DEF RInv, Fresh, Loop, Positive
    <2> QED BY <2>1, <2>2, <2>3 DEF RInv
  <1>2. CASE Next
    <2>1. \A j \in Items : RoundLimit(j)' /\ round'[j] >= round[j]
      BY <1>0, <1>2, LimitStep
    <2>2. ASSUME NEW i \in Items, Resets(i) PROVE round'[i] = round[i] + 1
      <3>1. round[i] \in Rounds /\ round'[i] = (round[i] + 1) % RoundMod /\ round'[i] >= round[i]
        BY <2>1, <2>2 DEF Resets, IInv, TypeOK, ItemTypeOK
      <3>2. RoundMod \in Nat /\ RoundMod > 1 /\ round[i] \in 0 .. (RoundMod - 1)
        BY <3>1, RoundAssumption DEF Rounds
      <3>3. ASSUME NEW m \in Nat, m > 1, NEW r \in 0 .. (m - 1), (r + 1) % m >= r PROVE (r + 1) % m = r + 1
        <4>1. CASE r = m - 1
          BY <3>3, <4>1
        <4>2. CASE r < m - 1
          BY <3>3, <4>2
        <4> QED BY <4>1, <4>2
      <3> QED BY <3>1, <3>2, <3>3
    <2>3. SlotStep
      BY <1>2, SlotShape
    <2>4. Fresh'
      BY <1>0, <2>1, <2>2, <2>3, FreshStep
    <2>5. Loop' /\ Positive'
      BY <1>0, <1>2, <2>1, LoopStep, PositiveStep
    <2> QED BY <2>1, <2>4, <2>5 DEF RInv
  <1> QED BY <1>1, <1>2

-----------------------------------------------------------------------------
(* Packets stay on their connection.                                       *)

\* What a step may do to the packets of slot j: drop them all, or, within the
\* same round, take the first one off or add one for this connection.
SendsStep(j) ==
  \/ sends'[j] = <<>>
  \/ /\ round'[j] = round[j]
     /\ \/ sends'[j] = sends[j]
        \/ sends[j] # <<>> /\ sends'[j] = Tail(sends[j])
        \/ \E to \in {Everyone, GetSocketID(j)} : sends'[j] = Append(sends[j], to)

\* CloseSocket drops the packets of its own item and touches no other.
LEMMA CloseSends ==
  ASSUME TypeOK, NEW i \in Items, NEW t, NEW rcv,
         NEW snd \in {sends, [sends EXCEPT ![i] = <<>>]}, NEW tk,
         CloseSocket(i, t, rcv, snd, tk)
  PROVE  \A j \in Items : SendsStep(j)
  <1>0. sends \in [Items -> Seq(Targets)] /\ round \in [Items -> Rounds]
    BY DEF TypeOK, ItemTypeOK
  <1>1. \/ ResetSocketData(i)
        \/ sends' = snd /\ round' = round
    BY DEF CloseSocket, OnCloseCompleted
  <1>2. ASSUME NEW j \in Items PROVE SendsStep(j)
    <2>1. CASE ResetSocketData(i)
      <3>1. sends'[j] = IF j = i THEN <<>> ELSE sends[j]
        BY <1>0, <2>1 DEF ResetSocketData
      <3>2. j # i => round'[j] = round[j]
        BY <1>0, <2>1 DEF ResetSocketData
      <3> QED BY <3>1, <3>2 DEF SendsStep
    <2>2. CASE sends' = snd /\ round' = round
      <3>1. sends'[j] = <<>> \/ sends'[j] = sends[j]
        BY <1>0, <2>2
      <3> QED BY <2>2, <3>1 DEF SendsStep
    <2> QED BY <1>1, <2>1, <2>2
  <1> QED BY <1>2

\* SendData adds a packet only to the connection it was looked up for.
LEMMA SendSends ==
  ASSUME TypeOK, NEW i \in Items, NEW r, NEW to, SendData(i, r, to), round' = round,
         r = round[i] => to \in {Everyone, GetSocketID(i)}
  PROVE  \A j \in Items : SendsStep(j)
  <1>0. sends \in [Items -> Seq(Targets)]
    BY DEF TypeOK, ItemTypeOK
  <1>1. ASSUME NEW j \in Items PROVE SendsStep(j)
    <2>1. CASE sends' = sends
      BY <2>1 DEF SendsStep
    <2>2. CASE sends' = [sends EXCEPT ![i] = Append(@, to)] /\ r = round[i]
      <3>1. CASE j = i
        <4>1. sends'[j] = Append(sends[j], to) /\ to \in {Everyone, GetSocketID(j)}
          BY <1>0, <2>2, <3>1
        <4> QED BY <4>1 DEF SendsStep
      <3>2. CASE j # i
        <4>1. sends'[j] = sends[j]
          BY <1>0, <2>2, <3>2
        <4> QED BY <4>1 DEF SendsStep
      <3> QED BY <3>1, <3>2
    <2> QED BY <2>1, <2>2 DEF SendData
  <1> QED BY <1>1

\* No step puts a packet on a connection of another round.
LEMMA SendsShape == ASSUME IInv, RInv, Next PROVE \A j \in Items : SendsStep(j)
  <1> DEFINE Goal == \A j \in Items : SendsStep(j)
  <1>0. TypeOK /\ sends \in [Items -> Seq(Targets)] /\ round \in [Items -> Rounds] /\ Positive
    BY DEF IInv, TypeOK, ItemTypeOK, RInv
  <1>s. ASSUME UNCHANGED <<sends, round>> PROVE Goal
    BY <1>s DEF SendsStep
  <1>1. ASSUME NEW i \in Items, RecvCompletedClose(i) \/ DecodeError(i) \/ RecvDataFailed(i) \/ SendCompletedClose(i)
        PROVE  Goal
    <2>1. CASE RecvCompletedClose(i)
      BY <1>0, <2>1, CloseSends DEF RecvCompletedClose
    <2>2. CASE DecodeError(i)
      BY <1>0, <2>2, CloseSends DEF DecodeError
    <2>3. CASE RecvDataFailed(i)
      BY <1>0, <2>3, CloseSends DEF RecvDataFailed
    <2>4. CASE SendCompletedClose(i)
      BY <1>0, <2>4, CloseSends DEF SendCompletedClose
    <2> QED BY <1>1, <2>1, <2>2, <2>3, <2>4
  <1>2. ASSUME NEW i \in Items, SendCompletedNext(i) PROVE Goal
    <2>1. sends' = [sends EXCEPT ![i] = Tail(@)] /\ round' = round /\ sends[i] # <<>>
      BY <1>2, InvOwns DEF SendCompletedNext, TakeCompletion, KernelOwnership
    <2>2. ASSUME NEW j \in Items PROVE SendsStep(j)
      <3>1. CASE j = i
        <4>1. sends'[j] = Tail(sends[j]) /\ sends[j] # <<>>
          BY <1>0, <2>1, <3>1
        <4> QED BY <2>1, <4>1 DEF SendsStep
      <3>2. CASE j # i
        <4>1. sends'[j] = sends[j]
          BY <1>0, <2>1, <3>2
        <4> QED BY <2>1, <4>1 DEF SendsStep
      <3> QED BY <3>1, <3>2
    <2> QED BY <2>2
  <1>3. ASSUME NEW i \in Items, FinishClose(i) PROVE Goal
    <2>1. ASSUME NEW j \in Items PROVE SendsStep(j)
      <3>1. CASE j = i
        <4>1. sends'[j] = <<>>
          BY <1>0, <1>3, <3>1 DEF FinishClose, ResetSocketData
        <4> QED BY <4>1 DEF SendsStep
      <3>2. CASE j # i
        <4>1. sends'[j] = sends[j] /\ round'[j] = round[j]
          BY <1>0, <1>3, <3>2 DEF FinishClose, ResetSocketData
        <4> QED BY <4>1 DEF SendsStep
      <3> QED BY <3>1, <3>2
    <2> QED BY <2>1
  <1>4. ASSUME NEW i \in Items,
               \/ RecvCompletedData(i) \/ DecodePacket(i) \/ RecvDataPosted(i)
               \/ \E op \in {"recv", "send"} : CompletionFails(i, op)
               \/ ActiveSocketItem(i) \/ Attach(i) \/ DetectRead(i)
        PROVE  Goal
    <2>1. UNCHANGED <<sends, round>>
      BY <1>4 DEF RecvCompletedData, DecodePacket, RecvDataPosted, CompletionFails, ActiveSocketItem,
        Attach, DetectRead, itemVars
    <2> QED BY <1>s, <2>1
  <1>5. ASSUME \/ AcceptRefused \/ AcceptFails \/ SendAllBegin \/ SafeClose \/ AllowBatchSend \/ DetectBegin \/ LoopEnd
               \/ StartService \/ ServiceStarted \/ ConcludeService \/ AcceptJoined \/ SendJoined \/ RSThreadEnds
               \/ Tick \/ (\E r : AddToQueue(r))
        PROVE  Goal
    <2>1. UNCHANGED <<sends, round>>
      BY <1>5 DEF AcceptRefused, AcceptFails, SendAllBegin, SafeClose, AllowBatchSend, DetectBegin, LoopEnd,
        StartService, ServiceStarted, ConcludeService, AcceptJoined, SendJoined, RSThreadEnds, Tick, AddToQueue,
        vars, itemVars
    <2> QED BY <1>s, <2>1
  <1>6. ASSUME NEW id \in issued, CloseSocketID(id) PROVE Goal
    <2>1. id[1] \in Items
      BY DEF IInv, TypeOK, EngineTypeOK, IDs
    <2> QED BY <1>0, <1>6, <2>1, CloseSends DEF CloseSocketID
  <1>7. CASE SendOne
    <2> DEFINE id == Head(sendQ).id
    <2>1. id \in IDs /\ id[1] \in Items
      BY <1>7, TakeType DEF SendOne, IInv, TypeOK
    <2>2. id[2] = round[id[1]] => id = GetSocketID(id[1])
      BY <2>1 DEF GetSocketID, IDs
    <2>3. SendData(id[1], id[2], id) /\ round' = round
      BY <1>7 DEF SendOne
    <2> HIDE DEF id
    <2> QED BY <1>0, <2>1, <2>2, <2>3, SendSends
  <1>8. ASSUME NEW i \in Items, SendAllItem(i) PROVE Goal
    <2>1. Addressee(req) = Everyone /\ round' = round
      BY <1>0, <1>8 DEF SendAllItem, Addressee, Positive
    <2>2. CASE SendData(i, round[i], Addressee(req))
      BY <1>0, <2>1, <2>2, SendSends
    <2>3. CASE UNCHANGED <<sends, inflight>>
      BY <1>s, <2>1, <2>3
    <2> QED BY <1>8, <2>2, <2>3 DEF SendAllItem
  <1>9. ASSUME NEW i \in Items, DetectClose(i) PROVE Goal
    BY <1>0, <1>9, CloseSends DEF DetectClose
  <1>10. ASSUME NEW i \in Items, DetectSend(i) PROVE Goal
    <2>1. round' = round
      BY <1>10 DEF DetectSend
    <2>2. CASE SendData(i, round[i], GetSocketID(i))
      BY <1>0, <2>1, <2>2, SendSends
    <2>3. CASE UNCHANGED <<sends, inflight>>
      BY <1>s, <2>1, <2>3
    <2> QED BY <1>10, <2>2, <2>3 DEF DetectSend
  <1>11. CASE ConcludeRest
    <2>1. PICK n \in [Items -> 0 .. 2] : /\ \A i \in Items : n[i] \in Increments(i)
                                         /\ round' = [i \in Items |-> (round[i] + n[i]) % RoundMod]
      BY <1>11 DEF ConcludeRest
    <2>2. ASSUME NEW j \in Items PROVE SendsStep(j)
      <3>1. CASE j \in active
        BY <1>11, <3>1 DEF ConcludeRest, SendsStep
      <3>2. CASE j \notin active
        <4>1. n[j] = 0 /\ round'[j] = (round[j] + n[j]) % RoundMod /\ sends'[j] = sends[j]
          BY <1>11, <2>1, <3>2 DEF ConcludeRest, Increments
        <4>2. round[j] \in 0 .. (RoundMod - 1) /\ RoundMod \in Nat
          BY <1>0, RoundAssumption DEF Rounds
        <4>3. round'[j] = round[j]
          BY <4>1, <4>2
        <4> QED BY <4>1, <4>3 DEF SendsStep
      <3> QED BY <3>1, <3>2
    <2> QED BY <2>2
  <1> QED BY <1>1, <1>2, <1>3, <1>4, <1>5, <1>6, <1>7, <1>8, <1>9, <1>10, <1>11
      DEF Next, RecvCompletion, SendCompletion, AcceptThread, Caller, QueueRequest, SendDataBatch, DetectSocket,
          SendThread, Service

\* A packet queued for one ID stays on the connection with that ID.
LEMMA UnicastStep ==
  ASSUME IInv, IInv', RInv, UnicastStaysPrivate, Next
  PROVE  UnicastStaysPrivate'
  <1>0. /\ sends \in [Items -> Seq(Targets)] /\ sends' \in [Items -> Seq(Targets)]
        /\ \A j \in Items : SendsStep(j)
    BY SendsShape DEF IInv, TypeOK, ItemTypeOK
  <1>1. SUFFICES ASSUME NEW j \in Items, NEW k \in 1 .. Len(sends'[j])
                 PROVE  sends'[j][k] \in {Everyone, <<j, round'[j]>>}
    BY DEF UnicastStaysPrivate, GetSocketID
  <1>2. sends[j] \in Seq(Targets) /\ Len(sends[j]) \in Nat
        /\ \A n \in 1 .. Len(sends[j]) : sends[j][n] \in {Everyone, <<j, round[j]>>}
    BY <1>0 DEF UnicastStaysPrivate, GetSocketID
  <1>3. CASE sends'[j] = <<>>
    BY <1>3
  <1>4. CASE round'[j] = round[j] /\ sends'[j] = sends[j]
    BY <1>2, <1>4
  <1>5. CASE round'[j] = round[j] /\ sends[j] # <<>> /\ sends'[j] = Tail(sends[j])
    <2>1. Len(sends'[j]) = Len(sends[j]) - 1 /\ sends'[j][k] = sends[j][k + 1]
      BY <1>2, <1>5
    <2>2. k + 1 \in 1 .. Len(sends[j])
      BY <1>2, <2>1
    <2> QED BY <1>2, <1>5, <2>1, <2>2
  <1>6. ASSUME NEW to \in {Everyone, <<j, round[j]>>}, round'[j] = round[j], sends'[j] = Append(sends[j], to)
        PROVE  sends'[j][k] \in {Everyone, <<j, round'[j]>>}
    <2>1. Len(sends'[j]) = Len(sends[j]) + 1
      BY <1>2, <1>6
    <2>2. sends'[j][k] = IF k <= Len(sends[j]) THEN sends[j][k] ELSE to
      BY <1>2, <1>6, <2>1
    <2> QED BY <1>2, <1>6, <2>1, <2>2
  <1> QED BY <1>0, <1>3, <1>4, <1>5, <1>6 DEF SendsStep, GetSocketID

-----------------------------------------------------------------------------
(* The events of a slot.                                                   *)

\* Without early clients every slot is closed until the service runs.
Before == service \in {"stopped", "starting"} => notified = Items /\ reserved = {}

\* Every step keeps it.
LEMMA BeforeStep ==
  ASSUME "early" \notin Env, IInv, RInv, Before, Next
  PROVE  Before'
  <1>0. Fresh /\ Loop /\ \A i \in Items : SlotOK(i)
    BY DEF RInv, IInv
  <1>1. ASSUME UNCHANGED <<notified, reserved, service>> PROVE Before'
    BY <1>1 DEF Before
  <1>2. ASSUME NEW i \in Items, Announces(i) \/ Resets(i) PROVE Before'
    BY <1>2 DEF Before, Announces, Resets
  <1>a. ASSUME NEW i \in Items,
               \/ RecvCompletion(i) \/ SendCompletion(i) \/ FinishClose(i)
               \/ \E op \in {"recv", "send"} : CompletionFails(i, op)
        PROVE Before'
    BY <1>a, <1>1, <1>2, RSShape DEF Rests
  <1>b. CASE AcceptThread
    <2>1. ASSUME NEW i \in Items, ActiveSocketItem(i) PROVE Before'
      BY <2>1 DEF ActiveSocketItem, Accepted, Before
    <2>2. ASSUME NEW i \in Items, Attach(i) PROVE Before'
      BY <2>2 DEF Attach, Before
    <2>3. CASE AcceptRefused \/ AcceptFails
      BY <1>1, <2>3 DEF AcceptRefused, AcceptFails, vars, itemVars, threadVars
    <2> QED BY <1>b, <2>1, <2>2, <2>3 DEF AcceptThread
  <1>c. CASE Caller
    BY <1>0, <1>1, <1>2, <1>c, CallerShape DEF Rests
  <1>d. CASE SendThread
    BY <1>0, <1>1, <1>2, <1>d, SendShape DEF Rests
  <1>e. CASE Service \/ Tick
    <2>1. CASE ConcludeRest
      <3>1. reserved = {} /\ reserved' = reserved /\ notified' = notified \cup active
        BY <2>1 DEF ConcludeRest, threadVars, IInv, PoolOK
      <3>2. notified' = Items
        BY <1>0, <3>1 DEF SlotOK, IInv, TypeOK, ItemTypeOK, EngineTypeOK
      <3> QED BY <3>1, <3>2 DEF Before
    <2>2. CASE StartService \/ ServiceStarted \/ ConcludeService \/ AcceptJoined \/ SendJoined \/ RSThreadEnds \/ Tick
      BY <2>2 DEF StartService, ServiceStarted, ConcludeService, AcceptJoined, SendJoined, RSThreadEnds, Tick,
        itemVars, threadVars, Before
    <2> QED BY <1>e, <2>1, <2>2 DEF Service
  <1> QED BY <1>a, <1>b, <1>c, <1>d, <1>e DEF Next

\* The announced connection of each slot: what NetworkEvents calls live.
Live == [i \in Items |-> IF service = "running" /\ i \notin notified
                           THEN GetSocketID(i) ELSE NoID]

\* A slot announces a connection exactly while the service runs and it is not
\* announced closed.
LEMMA LiveIs ==
  ASSUME TypeOK, NEW i \in Items
  PROVE  /\ (service = "running" /\ i \notin notified) => (Live[i] = GetSocketID(i) /\ Live[i] # NoID)
         /\ (service # "running" \/ i \in notified) => Live[i] = NoID
  <1>1. GetSocketID(i) # NoID
    BY DEF GetSocketID, NoID, Items
  <1> QED BY <1>1 DEF Live

\* The steps of NetworkEvents, in terms of Live.
LiveAccept(i) ==
  /\ Live[i] = NoID /\ GetSocketID(i) \in IDs \ issued
  /\ Live' = [Live EXCEPT ![i] = GetSocketID(i)]
  /\ issued' = issued \cup {GetSocketID(i)}
  /\ evt' = Event("accept", GetSocketID(i))
LiveRead(i) ==
  /\ Live[i] # NoID /\ evt' = Event("read", Live[i])
  /\ Live' = Live /\ issued' = issued
LiveShut(i) ==
  /\ Live[i] # NoID /\ evt' = Event("shut", Live[i])
  /\ Live' = [Live EXCEPT ![i] = NoID] /\ issued' = issued
LiveStep ==
  \/ Live' = Live /\ UNCHANGED <<issued, evt>>
  \/ \E i \in Items : LiveAccept(i) \/ LiveRead(i) \/ LiveShut(i)
  \/ Live' = [i \in Items |-> NoID] /\ UNCHANGED <<issued, evt>>

\* Every step of the engine is a step of NetworkEvents or leaves its state alone.
LEMMA EventStep ==
  ASSUME RoundsFit, "early" \notin Env, IInv, IInv', RInv, Before, Next
  PROVE  LiveStep
  <1>0. TypeOK /\ Fresh /\ Loop /\ (\A i \in Items : SlotOK(i)) /\ round \in [Items -> Rounds]
    BY DEF RInv, IInv, TypeOK, ItemTypeOK
  <1>1. ASSUME UNCHANGED <<notified, round, service>> PROVE Live' = Live
    BY <1>1 DEF Live, GetSocketID
  <1>2. ASSUME NEW i \in Items, Announces(i) PROVE LiveStep
    <2>1. CASE service = "running"
      <3>1. Live[i] = GetSocketID(i) /\ Live[i] # NoID
        BY <1>0, <1>2, <2>1, LiveIs DEF Announces
      <3>2. evt' = Event("shut", Live[i]) /\ issued' = issued
        BY <1>2, <2>1, <3>1 DEF Announces
      <3>3. Live' = [Live EXCEPT ![i] = NoID]
        BY <1>2, <2>1 DEF Announces, Live, GetSocketID
      <3> QED BY <3>1, <3>2, <3>3 DEF LiveStep, LiveShut
    <2>2. CASE service # "running"
      <3>1. Live' = Live /\ UNCHANGED <<issued, evt>>
        BY <1>2, <2>2 DEF Announces, Live
      <3> QED BY <3>1 DEF LiveStep
    <2> QED BY <2>1, <2>2
  <1>3. ASSUME NEW i \in Items, Resets(i) PROVE LiveStep
    <2>1. Live' = Live
      BY <1>0, <1>3 DEF Resets, Live, GetSocketID
    <2> QED BY <1>3, <2>1 DEF Resets, LiveStep
  <1>4. ASSUME Rests, evt' = evt PROVE LiveStep
    BY <1>1, <1>4 DEF Rests, LiveStep
  <1>a. ASSUME NEW i \in Items,
               \/ RecvCompletion(i) \/ SendCompletion(i) \/ FinishClose(i)
               \/ \E op \in {"recv", "send"} : CompletionFails(i, op)
        PROVE LiveStep
    <2>1. ASSUME Rests, Reads(i) PROVE LiveStep
      <3>1. Live[i] = GetSocketID(i) /\ Live[i] # NoID
        BY <1>0, <2>1, LiveIs DEF Reads
      <3>2. evt' = Event("read", Live[i]) /\ Live' = Live /\ issued' = issued
        BY <1>1, <2>1, <3>1 DEF Reads, Rests
      <3> QED BY <3>1, <3>2 DEF LiveStep, LiveRead
    <2> QED BY <1>2, <1>3, <1>4, <1>a, <2>1, RSShape
  <1>b. CASE AcceptThread
    <2>1. ASSUME NEW i \in Items, ActiveSocketItem(i) PROVE LiveStep
      <3>1. UNCHANGED <<notified, round, service, issued, evt>>
        BY <2>1 DEF ActiveSocketItem, itemVars
      <3> QED BY <1>1, <3>1 DEF LiveStep
    <2>2. ASSUME NEW i \in Items, Attach(i) PROVE LiveStep
      <3>1. i \in notified /\ i \notin Closing
        BY <1>0, <2>2 DEF Attach, SlotOK, Closing
      <3>2. Live[i] = NoID
        BY <1>0, <3>1, LiveIs
      <3>3. GetSocketID(i) \in IDs /\ GetSocketID(i)[1] = i /\ GetSocketID(i)[2] = round[i] /\ round[i] \in Int
        BY <1>0 DEF GetSocketID, IDs, Rounds
      <3>4. GetSocketID(i) \notin issued
        BY <1>0, <3>1, <3>3 DEF Fresh
      <3>5. CASE service = "running"
        <4>1. /\ issued' = issued \cup {GetSocketID(i)} /\ evt' = Event("accept", GetSocketID(i))
              /\ Live' = [Live EXCEPT ![i] = GetSocketID(i)]
          BY <2>2, <3>5 DEF Attach, Live, GetSocketID
        <4> QED BY <3>2, <3>3, <3>4, <4>1 DEF LiveStep, LiveAccept
      <3>6. CASE service # "running"
        <4>1. Live' = Live /\ UNCHANGED <<issued, evt>>
          BY <2>2, <3>6 DEF Attach, Live
        <4> QED BY <4>1 DEF LiveStep
      <3> QED BY <3>5, <3>6
    <2>3. CASE AcceptRefused \/ AcceptFails
      <3>1. UNCHANGED <<notified, round, service, issued, evt>>
        BY <2>3 DEF AcceptRefused, AcceptFails, vars, itemVars
      <3> QED BY <1>1, <3>1 DEF LiveStep
    <2> QED BY <1>b, <2>1, <2>2, <2>3 DEF AcceptThread
  <1>c. CASE Caller
    <2> QED BY <1>0, <1>2, <1>4, <1>c, CallerShape
  <1>d. CASE SendThread
    <2> QED BY <1>0, <1>2, <1>3, <1>4, <1>d, SendShape
  <1>e. CASE Service \/ Tick
    <2>1. CASE ConcludeRest
      <3>1. Live' = Live /\ UNCHANGED <<issued, evt>>
        BY <2>1 DEF ConcludeRest, Live, ServiceUnchanged
      <3> QED BY <3>1 DEF LiveStep
    <2>2. CASE ConcludeService
      <3>1. Live' = [i \in Items |-> NoID] /\ UNCHANGED <<issued, evt>>
        BY <2>2 DEF ConcludeService, Live, ServiceUnchanged
      <3> QED BY <3>1 DEF LiveStep
    <2>3. CASE ServiceStarted
      <3>1. Live' = Live /\ UNCHANGED <<issued, evt>>
        BY <2>3 DEF ServiceStarted, Live, ServiceUnchanged, Before, itemVars
      <3> QED BY <3>1 DEF LiveStep
    <2>4. CASE StartService \/ AcceptJoined \/ SendJoined \/ RSThreadEnds \/ Tick
      <3>1. Live' = Live /\ UNCHANGED <<issued, evt>>
        BY <2>4 DEF StartService, AcceptJoined, SendJoined, RSThreadEnds, Tick, Live, GetSocketID,
          ServiceUnchanged, itemVars
      <3> QED BY <3>1 DEF LiveStep
    <2> QED BY <1>e, <2>1, <2>2, <2>3, <2>4 DEF Service
  <1> QED BY <1>a, <1>b, <1>c, <1>d, <1>e DEF Next

\* Both invariants together.
LEMMA RoundsTheorem == ASSUME RoundsFit PROVE Spec => [](IInv /\ RInv)
  <1>1. Init => RInv
    BY RInvInit
  <1>2. IInv /\ RInv /\ [Next]_vars => RInv'
    BY RInvStep
  <1> QED BY <1>1, <1>2, Invariance, InitInv, InvStep, PTL DEF Spec

\* A packet queued for one socket ID only ever gets onto the connection with that
\* ID, whatever was closed and reused in between, for every pool, queue and number
\* of threads, as long as the rounds do not wrap.
THEOREM UnicastTheorem == ASSUME RoundsFit PROVE Spec => []UnicastStaysPrivate
  <1>1. Init => UnicastStaysPrivate
    <2> SUFFICES ASSUME Init PROVE UnicastStaysPrivate
      OBVIOUS
    <2>1. ASSUME NEW i \in Items, NEW k \in 1 .. Len(sends[i]) PROVE FALSE
      BY <2>1 DEF Init
    <2> QED BY <2>1 DEF UnicastStaysPrivate
  <1>2. ASSUME IInv /\ RInv, UnicastStaysPrivate, [Next]_vars PROVE UnicastStaysPrivate'
    <2>1. CASE UNCHANGED vars
      BY <1>2, <2>1 DEF vars, itemVars, UnicastStaysPrivate, GetSocketID
    <2>2. CASE Next
      BY <1>2, <2>2, InvStep, UnicastStep
    <2> QED BY <1>2, <2>1, <2>2
  <1> QED BY <1>1, <1>2, RoundsTheorem, PTL DEF Spec

\* The engine implements NetworkEvents: per slot Accept, Read*, Shut and never the
\* same socket ID twice, as long as the rounds do not wrap and no client connects
\* before StartService is over.
THEOREM EventTheorem == ASSUME RoundsFit, "early" \notin Env PROVE Spec => EventOrder
  <1>1. Init => NE!Init /\ Before
    BY DEF Init, NE!Init, NE!Event, Event, Before
  <1>2. IInv /\ RInv /\ Before /\ [Next]_vars => Before'
    <2> SUFFICES ASSUME IInv, RInv, Before, [Next]_vars PROVE Before'
      OBVIOUS
    <2>1. CASE UNCHANGED vars
      BY <2>1 DEF vars, itemVars, threadVars, Before
    <2>2. CASE Next
      BY <2>2, BeforeStep
    <2> QED BY <2>1, <2>2
  <1>3. IInv /\ RInv /\ Before /\ [Next]_vars => [NE!Next]_(NE!vars)
    <2> SUFFICES ASSUME IInv, RInv, Before, [Next]_vars PROVE [NE!Next]_(NE!vars)
      OBVIOUS
    <2>1. CASE UNCHANGED vars
      BY <2>1 DEF vars, itemVars, NE!vars, GetSocketID
    <2>2. CASE Next
      <3>0. \A i \in Items : GetSocketID(i)[1] = i
        BY DEF GetSocketID
      <3>1. CASE Live' = Live /\ UNCHANGED <<issued, evt>>
        BY <3>1 DEF Live, NE!vars
      <3>2. ASSUME NEW i \in Items, LiveAccept(i) PROVE NE!Accept(i, GetSocketID(i)) /\ GetSocketID(i) \in IDs
        BY <3>0, <3>2 DEF LiveAccept, Live, NE!Accept, NE!Event, Event
      <3>3. ASSUME NEW i \in Items, LiveRead(i) PROVE NE!Read(i)
        BY <3>3 DEF LiveRead, Live, NE!Read, NE!Event, Event
      <3>4. ASSUME NEW i \in Items, LiveShut(i) PROVE NE!Shut(i)
        BY <3>4 DEF LiveShut, Live, NE!Shut, NE!Event, Event
      <3>5. CASE Live' = [i \in Items |-> NoID] /\ UNCHANGED <<issued, evt>>
        BY <3>5 DEF Live, NE!Next, NE!Conclude
      <3>6. IInv'
        BY InvStep
      <3>7. LiveStep
        BY <2>2, <3>6, EventStep
      <3>8. ASSUME NEW i \in Items, LiveAccept(i) \/ LiveRead(i) \/ LiveShut(i) PROVE NE!Next
        <4>1. CASE LiveAccept(i)
          <5>1. PICK id \in IDs : id = GetSocketID(i)
            BY <3>2, <4>1
          <5>2. NE!Accept(i, id)
            BY <3>0, <4>1, <5>1 DEF LiveAccept, Live, NE!Accept, NE!Event, Event
          <5> QED BY <5>2 DEF NE!Next
        <4>2. CASE LiveRead(i)
          BY <3>3, <4>2 DEF NE!Next
        <4>3. CASE LiveShut(i)
          BY <3>4, <4>3 DEF NE!Next
        <4> QED BY <3>8, <4>1, <4>2, <4>3
      <3> QED BY <3>1, <3>5, <3>7, <3>8 DEF LiveStep
    <2> QED BY <2>1, <2>2
  <1> QED BY <1>1, <1>2, <1>3, RoundsTheorem, PTL DEF Spec, EventOrder, NE!Spec
=============================================================================
