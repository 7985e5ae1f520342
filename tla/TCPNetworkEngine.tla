-------------------------- MODULE TCPNetworkEngine --------------------------
(***************************************************************************)
(* The kernel engine's TCP network engine: CTCPNetworkEngine, its pool of  *)
(* CServerSocketItem objects and its threads (accept, completion "RS",     *)
(* send queue, detect), as in TCPNetworkEngine.cpp.                        *)
(*                                                                         *)
(* Granularity.  Every handler runs under the item's critical section      *)
(* (GetSignedLock); it is one action, except where another thread can see  *)
(* the middle of it:                                                       *)
(*   - OnCloseCompleted gives the item back to the pool BEFORE it resets   *)
(*     it, so a close is two actions; hold[i] names the thread in between; *)
(*   - OnRecvCompleted and the accept thread post events one at a time and *)
(*     then re-arm the receive: hold[i] = "decode" or "attach" meanwhile;  *)
(*   - the detect loop reads the receive tick before it takes the lock.    *)
(* An action of another thread on item i needs hold[i] = "none".           *)
(***************************************************************************)
EXTENDS Integers, Sequences, FiniteSets

CONSTANTS MaxSocketItem,  \* m_wMaxSocketItem, size of the pool
          RoundMod,       \* m_wRountID is a WORD: 65536 in the code
          MaxRound,       \* bound: a slot is not reused past this round
          BreakReady,     \* TIME_BREAK_READY
          BreakConnect,   \* TIME_BREAK_CONNECT
          MaxTick,        \* bound on GetTickCount()
          MaxQueue,       \* bound on requests waiting in the send queue
          MaxSends,       \* bound: no request while an item has so many sends
          RSThreads,      \* completion threads StartService creates
          Env             \* what the environment does: the calls it makes;
                          \* "early": clients connect before StartService is
                          \* over; "ioerror": completions and accepts fail

ASSUME PoolAssumption == MaxSocketItem \in Nat \ {0}
ASSUME RoundAssumption == RoundMod \in Nat \ {0, 1} /\ MaxRound \in Nat
ASSUME TickAssumption == /\ BreakReady \in Nat
                         /\ BreakConnect \in Nat
                         /\ MaxTick \in Nat \ {0}
ASSUME QueueAssumption == MaxQueue \in Nat /\ MaxSends \in Nat \ {0}
ASSUME ThreadAssumption == RSThreads \in Nat \ {0}
ASSUME EnvAssumption ==
    Env \subseteq {"send", "batch", "shut", "allow", "forbid", "detect",
                   "close", "conclude", "early", "ioerror"}

VARIABLES
  \* CServerSocketItem, one element or entry per slot
  open,       \* m_hSocket # INVALID_SOCKET
  notified,   \* m_bNotify
  recving,    \* m_bRecvIng
  ready,      \* m_dwRecvPacketCount > 0 (IsReadySend)
  batch,      \* m_bAllowBatch
  round,      \* m_wRountID
  tick,       \* m_dwRecvTickCount
  sends,      \* m_OverLappedSendActive: addressee of every queued packet
  hold,       \* who is in the middle of the item's critical section
  inflight,   \* overlapped operations the operating system owns
  \* CTCPNetworkEngine
  storage,    \* m_StorageSocketItem.GetCount()
  free,       \* m_FreeSocketItem
  active,     \* m_ActiveSocketItem
  service,    \* progress of StartService / ConcludeService
  lastDetect, \* m_dwLastDetect
  \* threads
  rsThreads,  \* completion threads still running
  acceptor,   \* the accept thread: "running" or "ended"
  reserved,   \* item the accept thread took but has not attached yet
  sendQ,      \* m_SendQueueService
  req,        \* request whose loop the send thread is in
  todo,       \* rest of m_TempSocketItem
  cur,        \* item whose tick the detect loop has read
  seen,       \* dwRecvTickCount of that item
  nowTick,    \* dwNowTickCount
  brk,        \* dwBreakTickCount
  \* environment and history
  clock,      \* GetTickCount()
  issued,     \* socket IDs announced to the attemper sink
  evt         \* event posted last

itemVars == <<open, notified, recving, ready, batch, round, tick, sends>>
poolVars == <<storage, free, active>>
loopVars == <<req, todo, cur, seen, nowTick, brk>>
threadVars == <<rsThreads, acceptor, reserved>>
vars == <<itemVars, hold, inflight, poolVars, service, lastDetect, threadVars,
          sendQ, loopVars, clock, issued, evt>>

-----------------------------------------------------------------------------
Items == 0 .. MaxSocketItem - 1
Rounds == 0 .. RoundMod - 1
IDs == Items \X Rounds
NoID == <<-1, 0>>
NoItem == -1
ZeroID == <<0, 0>>           \* dwSocketID == 0
Everyone == <<-1, 1>>        \* addressee of SendDataBatch
NoReq == [op |-> "none", id |-> NoID]
Event(kind, id) == [kind |-> kind, id |-> id]

\* GetSocketID(): MAKELONG(m_wIndex, m_wRountID)
GetSocketID(i) == <<i, round[i]>>

RSHolds == {"decode", "rs"}            \* held by a completion thread
AcceptHolds == {"attach", "accept"}    \* held by the accept thread
Closers == {"rs", "accept", "send", "caller"}   \* between notify and reset
Holds == {"none"} \cup RSHolds \cup AcceptHolds \cup Closers

\* The completion port hands a completion to an idle completion thread.
RSIdle == Cardinality({i \in Items : hold[i] \in RSHolds}) < rsThreads
AcceptIdle == reserved = {} /\ \A i \in Items : hold[i] \notin AcceptHolds
SendIdle == \A i \in Items : hold[i] # "send"

-----------------------------------------------------------------------------
(* CServerSocketItem: the operations every thread calls under the lock.    *)
(* Callers pass the values recving, sends and tick have at the call.       *)

\* Faulty variant: the packet count stays.
ResetKeepsReady(i) ==
    /\ round' = [round EXCEPT ![i] = (@ + 1) % RoundMod]
    /\ notified' = notified \cup {i} /\ recving' = recving \ {i}
    /\ batch' = batch \cup {i}
    /\ tick' = [tick EXCEPT ![i] = 0] /\ sends' = [sends EXCEPT ![i] = <<>>]
    /\ UNCHANGED ready

\* ResetSocketData: every field back to the constructor's, next round.
ResetSocketData(i) ==
    /\ round' = [round EXCEPT ![i] = (@ + 1) % RoundMod]
    /\ notified' = notified \cup {i}
    /\ recving' = recving \ {i}
    /\ ready' = ready \ {i}
    /\ batch' = batch \cup {i}
    /\ tick' = [tick EXCEPT ![i] = 0]
    /\ sends' = [sends EXCEPT ![i] = <<>>]

\* Faulty variant: the item stays on the active list.
FreeKeepsActive(i) == free' = free \cup {i} /\ UNCHANGED active

\* FreeSocketItem: nothing happens (ASSERT(FALSE)) if the item is not active.
FreeSocketItem(i) ==
    IF i \in active
      THEN active' = active \ {i} /\ free' = free \cup {i}
      ELSE UNCHANGED <<active, free>>

\* OnSocketCloseEvent: the Shut event, then the pool; nothing once m_bService
\* is false.
OnSocketCloseEvent(i) ==
    IF service = "running"
      THEN evt' = Event("shut", GetSocketID(i)) /\ FreeSocketItem(i)
      ELSE UNCHANGED <<evt, free, active>>

\* Faulty variant: announces the close without testing m_bNotify.
CloseAnnouncesAgain(i, t, rcv, snd, tk) ==
    /\ notified' = notified \cup {i}
    /\ OnSocketCloseEvent(i)
    /\ hold' = [hold EXCEPT ![i] = t]
    /\ recving' = rcv /\ sends' = snd /\ tick' = tk
    /\ UNCHANGED <<ready, batch, round>>

\* OnCloseCompleted: an item that has been announced closed already is only
\* reset; otherwise thread t keeps the lock between the event and the reset.
OnCloseCompleted(i, t, rcv, snd, tk) ==
    \/ /\ i \in notified
       /\ ResetSocketData(i)
       /\ hold' = [hold EXCEPT ![i] = "none"]
       /\ UNCHANGED <<evt, free, active>>
    \/ /\ i \notin notified
       /\ notified' = notified \cup {i}
       /\ OnSocketCloseEvent(i)
       /\ hold' = [hold EXCEPT ![i] = t]
       /\ recving' = rcv
       /\ sends' = snd
       /\ tick' = tk
       /\ UNCHANGED <<ready, batch, round>>

\* Faulty variant: does not wait for pending sends.
CloseIgnoresSends(i, t, rcv, snd, tk) ==
    /\ open' = open \ {i}
    /\ IF i \notin rcv
         THEN OnCloseCompleted(i, t, rcv, snd, tk)
         ELSE /\ hold' = [hold EXCEPT ![i] = "none"]
              /\ recving' = rcv /\ sends' = snd /\ tick' = tk
              /\ UNCHANGED <<notified, ready, batch, round, evt, free, active>>

\* CloseSocket: the handle goes at once, the item when nothing is pending.
CloseSocket(i, t, rcv, snd, tk) ==
    /\ open' = open \ {i}
    /\ IF i \notin rcv /\ snd[i] = <<>>
         THEN OnCloseCompleted(i, t, rcv, snd, tk)
         ELSE /\ hold' = [hold EXCEPT ![i] = "none"]
              /\ recving' = rcv
              /\ sends' = snd
              /\ tick' = tk
              /\ UNCHANGED <<notified, ready, batch, round, evt, free, active>>

\* Faulty variant: does not compare the round.
SendIgnoresRound(i, r, to) ==
    \/ /\ i \in ready /\ i \in open
       /\ sends' = [sends EXCEPT ![i] = Append(@, to)]
       /\ inflight' = [inflight EXCEPT ![i] = @ \cup {"send"}]
    \/ /\ i \notin ready \/ i \notin open \/ sends[i] = <<>>
       /\ UNCHANGED <<sends, inflight>>

\* SendData of an item: only the head of the list is handed to WSASend; a
\* WSASend that fails at once takes the packet off the list again.
SendData(i, r, to) ==
    \/ /\ r = round[i]
       /\ i \in ready
       /\ i \in open
       /\ sends' = [sends EXCEPT ![i] = Append(@, to)]
       /\ IF sends[i] = <<>>
            THEN inflight' = [inflight EXCEPT ![i] = @ \cup {"send"}]
            ELSE UNCHANGED inflight
    \/ /\ r # round[i] \/ i \notin ready \/ i \notin open \/ sends[i] = <<>>
       /\ UNCHANGED <<sends, inflight>>

-----------------------------------------------------------------------------
(* Completion threads: CServerSocketRSThread::OnEventThreadRun.            *)

TakeCompletion(i, op) ==
    /\ RSIdle
    /\ hold[i] = "none"
    /\ op \in inflight[i]

\* OnRecvCompleted on a closed socket, or recv() <= 0, or a closing frame.
RecvCompletedClose(i) ==
    /\ TakeCompletion(i, "recv")
    /\ inflight' = [inflight EXCEPT ![i] = @ \ {"recv"}]
    /\ CloseSocket(i, "rs", recving \ {i}, sends, [tick EXCEPT ![i] = clock])
    /\ UNCHANGED <<storage, service, lastDetect, threadVars, sendQ, loopVars,
                   clock, issued>>

\* OnRecvCompleted with data: the decode loop starts.
RecvCompletedData(i) ==
    /\ TakeCompletion(i, "recv")
    /\ i \in open
    /\ inflight' = [inflight EXCEPT ![i] = @ \ {"recv"}]
    /\ recving' = recving \ {i}
    /\ tick' = [tick EXCEPT ![i] = clock]
    /\ hold' = [hold EXCEPT ![i] = "decode"]
    /\ UNCHANGED <<open, notified, ready, batch, round, sends, poolVars,
                   service, lastDetect, threadVars, sendQ, loopVars, clock,
                   issued, evt>>

\* One whole packet: a kernel command or the WebSocket handshake only counts
\* as received; any other one is posted (OnSocketReadEvent).
DecodePacket(i) ==
    /\ hold[i] = "decode"
    /\ ready' = ready \cup {i}
    /\ evt' \in {evt, IF service = "running"
                        THEN Event("read", GetSocketID(i)) ELSE evt}
    /\ UNCHANGED <<open, notified, recving, batch, round, tick, sends, hold,
                   inflight, poolVars, service, lastDetect, threadVars, sendQ,
                   loopVars, clock, issued>>

\* The decode loop throws: over-long, illegal, wrong version, wrong command.
DecodeError(i) ==
    /\ hold[i] = "decode"
    /\ CloseSocket(i, "rs", recving, sends, tick)
    /\ UNCHANGED <<inflight, storage, service, lastDetect, threadVars, sendQ,
                   loopVars, clock, issued>>

\* RecvData, the tail of OnRecvCompleted and of the accept thread: WSARecv.
RecvDataPosted(i) ==
    /\ hold[i] \in {"decode", "attach"}
    /\ recving' = recving \cup {i}
    /\ inflight' = [inflight EXCEPT ![i] = @ \cup {"recv"}]
    /\ hold' = [hold EXCEPT ![i] = "none"]
    /\ UNCHANGED <<open, notified, ready, batch, round, tick, sends, poolVars,
                   service, lastDetect, threadVars, sendQ, loopVars, clock,
                   issued, evt>>

\* RecvData whose WSARecv fails at once.
RecvDataFailed(i) ==
    /\ hold[i] \in {"decode", "attach"}
    /\ CloseSocket(i, IF hold[i] = "decode" THEN "rs" ELSE "accept",
                   recving, sends, tick)
    /\ UNCHANGED <<inflight, storage, service, lastDetect, threadVars, sendQ,
                   loopVars, clock, issued>>

\* OnSendCompleted on an open socket: hand the next packet to WSASend.
SendCompletedNext(i) ==
    /\ TakeCompletion(i, "send")
    /\ i \in open
    /\ sends' = [sends EXCEPT ![i] = Tail(@)]
    /\ IF Len(sends[i]) = 1
         THEN inflight' = [inflight EXCEPT ![i] = @ \ {"send"}]
         ELSE UNCHANGED inflight
    /\ UNCHANGED <<open, notified, recving, ready, batch, round, tick, hold,
                   poolVars, service, lastDetect, threadVars, sendQ, loopVars,
                   clock, issued, evt>>

\* Faulty variant: drops the list without going on to close the item.
SendDropsOnly(i) ==
    /\ TakeCompletion(i, "send")
    /\ i \notin open \/ Len(sends[i]) > 1
    /\ inflight' = [inflight EXCEPT ![i] = @ \ {"send"}]
    /\ open' = open \ {i}
    /\ sends' = [sends EXCEPT ![i] = <<>>]
    /\ UNCHANGED <<notified, recving, ready, batch, round, tick, hold, poolVars,
                   service, lastDetect, threadVars, sendQ, loopVars, clock,
                   issued, evt>>

\* OnSendCompleted on a closed socket, or the next WSASend fails: the whole
\* list is dropped and the socket closed.
SendCompletedClose(i) ==
    /\ TakeCompletion(i, "send")
    /\ i \notin open \/ Len(sends[i]) > 1
    /\ inflight' = [inflight EXCEPT ![i] = @ \ {"send"}]
    /\ CloseSocket(i, "rs", recving, [sends EXCEPT ![i] = <<>>], tick)
    /\ UNCHANGED <<storage, service, lastDetect, threadVars, sendQ, loopVars,
                   clock, issued>>

\* The rest of OnCloseCompleted and the end of the critical section.
FinishClose(i) ==
    /\ hold[i] \in Closers
    /\ ResetSocketData(i)
    /\ hold' = [hold EXCEPT ![i] = "none"]
    /\ UNCHANGED <<open, inflight, poolVars, service, lastDetect, threadVars,
                   sendQ, loopVars, clock, issued, evt>>

\* GetQueuedCompletionStatus fails with an error that is not
\* ERROR_NETNAME_DELETED: the completion is dropped and the thread ends.
CompletionFails(i, op) ==
    /\ "ioerror" \in Env
    /\ TakeCompletion(i, op)
    /\ inflight' = [inflight EXCEPT ![i] = @ \ {op}]
    /\ rsThreads' = rsThreads - 1
    /\ UNCHANGED <<itemVars, hold, poolVars, service, lastDetect, acceptor,
                   reserved, sendQ, loopVars, clock, issued, evt>>

-----------------------------------------------------------------------------
(* Accept thread: CSocketAcceptThread::OnEventThreadRun.                   *)

\* WSAAccept has returned a socket.
Accepted == /\ acceptor = "running"
            /\ service \in {"running", "stopAccept"}
               \/ ("early" \in Env /\ service = "starting")
            /\ AcceptIdle

\* Faulty variant: a recycled item is not put on the active list.
ActivateForgets(i) ==
    /\ Accepted
    /\ round[i] <= MaxRound
    /\ \/ i \in free /\ UNCHANGED <<storage, active>>
       \/ /\ free = {} /\ storage = i /\ storage' = storage + 1
          /\ active' = active \cup {i}
    /\ free' = free \ {i}
    /\ reserved' = {i}
    /\ UNCHANGED <<itemVars, hold, inflight, service, lastDetect, rsThreads,
                   acceptor, sendQ, loopVars, clock, issued, evt>>

\* ActiveSocketItem: an item of the free list, or else a new one.
ActiveSocketItem(i) ==
    /\ Accepted
    /\ round[i] <= MaxRound
    /\ \/ i \in free /\ UNCHANGED storage
       \/ free = {} /\ storage = i /\ storage' = storage + 1
    /\ free' = free \ {i}
    /\ active' = active \cup {i}
    /\ reserved' = {i}
    /\ UNCHANGED <<itemVars, hold, inflight, service, lastDetect, rsThreads,
                   acceptor, sendQ, loopVars, clock, issued, evt>>

\* The pool is exhausted: the connection is closed again.
AcceptRefused ==
    /\ Accepted
    /\ free = {} /\ storage = MaxSocketItem
    /\ UNCHANGED vars

\* Attach, under the item's lock; RecvData follows in the same lock.
Attach(i) ==
    /\ i \in reserved
    /\ hold[i] = "none"
    /\ reserved' = {}
    /\ open' = open \cup {i}
    /\ notified' = notified \ {i}
    /\ recving' = recving \ {i}
    /\ tick' = [tick EXCEPT ![i] = clock]
    /\ hold' = [hold EXCEPT ![i] = "attach"]
    /\ IF service = "running"
         THEN /\ evt' = Event("accept", GetSocketID(i))
              /\ issued' = issued \cup {GetSocketID(i)}
         ELSE UNCHANGED <<evt, issued>>
    /\ UNCHANGED <<ready, batch, round, sends, inflight, poolVars, service,
                   lastDetect, rsThreads, acceptor, sendQ, loopVars, clock>>

\* WSAAccept fails: OnEventThreadRun returns false, which ends the thread.
AcceptFails ==
    /\ "ioerror" \in Env
    /\ Accepted
    /\ acceptor' = "ended"
    /\ UNCHANGED <<itemVars, hold, inflight, poolVars, service, lastDetect,
                   rsThreads, reserved, sendQ, loopVars, clock, issued, evt>>

-----------------------------------------------------------------------------
(* The calls of the attemper sink, with socket IDs it learnt from events.  *)
(* It runs on the queue threads of several engines (this one's events, the *)
(* timer, the database engines), so any number of callers is at work, some *)
(* of them still while ConcludeService stops this engine.                  *)

\* CTCPNetworkEngine::CloseSocket; a stale ID closes nothing.
CloseSocketID(id) ==
    /\ "close" \in Env
    /\ id \in issued
    /\ hold[id[1]] = "none"
    /\ id[2] = round[id[1]]
    /\ CloseSocket(id[1], "caller", recving, sends, tick)
    /\ UNCHANGED <<inflight, storage, service, lastDetect, threadVars, sendQ,
                   loopVars, clock, issued>>

\* Requests made after the send queue has stopped: module QueueService.
AddToQueue(r) ==
    /\ service \in {"starting", "running", "stopAccept", "stopSend"}
    /\ r.op \in Env
    /\ Len(sendQ) < MaxQueue
    /\ \A i \in Items : Len(sends[i]) < MaxSends
    /\ sendQ' = Append(sendQ, r)
    /\ UNCHANGED <<itemVars, hold, inflight, poolVars, service, lastDetect,
                   threadVars, loopVars, clock, issued, evt>>

\* SendData, ShutDownSocket, AllowBatchSend: requests about one connection.
\* Only SendData tests m_bService.
QueueRequest(op, id) ==
    /\ op = "send" => service = "running"
    /\ id \in issued
    /\ AddToQueue([op |-> op, id |-> id])

\* SendDataBatch: dwSocketID = 0 stands for every connection.
SendDataBatch ==
    /\ service = "running"
    /\ AddToQueue([op |-> "batch", id |-> ZeroID])

\* DetectSocket, every 20 s from the detect thread.
DetectSocket ==
    /\ service = "running"
    /\ \A i \in active : round[i] <= MaxRound
    /\ AddToQueue([op |-> "detect", id |-> ZeroID])

-----------------------------------------------------------------------------
(* Send-queue thread: OnQueueServiceSink.                                  *)

\* The next request of the queue, of a kind in ops.
TakeRequest(ops) ==
    /\ req = NoReq
    /\ SendIdle
    /\ sendQ # <<>>
    /\ Head(sendQ).op \in ops
    /\ sendQ' = Tail(sendQ)

\* Whom the caller meant a queued packet for.
Addressee(r) == IF r.op = "batch" THEN Everyone ELSE r.id

\* QUEUE_SEND_REQUEST with a socket ID other than 0: one connection.
SendOne ==
    LET id == Head(sendQ).id IN
    /\ TakeRequest({"send"})
    /\ id # ZeroID
    /\ hold[id[1]] = "none"
    /\ SendData(id[1], id[2], id)
    /\ UNCHANGED <<open, notified, recving, ready, batch, round, tick, hold,
                   poolVars, service, lastDetect, threadVars, loopVars, clock,
                   issued, evt>>

\* QUEUE_SEND_REQUEST with socket ID 0: copy the active list, then send to
\* each item of the copy in turn.
SendAllBegin ==
    /\ TakeRequest({"send", "batch"})
    /\ Head(sendQ).id = ZeroID
    /\ req' = Head(sendQ)
    /\ todo' = active
    /\ UNCHANGED <<itemVars, hold, inflight, poolVars, service, lastDetect,
                   threadVars, cur, seen, nowTick, brk, clock, issued, evt>>

SendAllItem(i) ==
    /\ req.op \in {"send", "batch"}
    /\ i \in todo
    /\ hold[i] = "none"
    /\ IF i \in batch
         THEN SendData(i, round[i], Addressee(req))
         ELSE UNCHANGED <<sends, inflight>>
    /\ todo' = todo \ {i}
    /\ UNCHANGED <<open, notified, recving, ready, batch, round, tick, hold,
                   poolVars, service, lastDetect, threadVars, sendQ, req, cur,
                   seen, nowTick, brk, clock, issued, evt>>

\* QUEUE_SAFE_CLOSE: ShutDownSocket returns before its first test.
SafeClose ==
    /\ TakeRequest({"shut"})
    /\ hold[Head(sendQ).id[1]] = "none"
    /\ UNCHANGED <<itemVars, hold, inflight, poolVars, service, lastDetect,
                   threadVars, loopVars, clock, issued, evt>>

\* QUEUE_ALLOW_BATCH
AllowBatchSend ==
    LET id == Head(sendQ).id IN
    /\ TakeRequest({"allow", "forbid"})
    /\ hold[id[1]] = "none"
    /\ batch' = IF id[2] = round[id[1]] /\ id[1] \in open
                  THEN IF Head(sendQ).op = "allow" THEN batch \cup {id[1]}
                                                   ELSE batch \ {id[1]}
                  ELSE batch
    /\ UNCHANGED <<open, notified, recving, ready, round, tick, sends, hold,
                   inflight, poolVars, service, lastDetect, threadVars,
                   loopVars, clock, issued, evt>>

\* QUEUE_DETECT_SOCKET: copy the active list, fix the break interval.
DetectBegin ==
    /\ TakeRequest({"detect"})
    /\ req' = Head(sendQ)
    /\ todo' = active
    /\ nowTick' = clock
    /\ brk' = IF clock - lastDetect > BreakReady THEN clock - lastDetect
                                                 ELSE BreakReady
    /\ lastDetect' = clock
    /\ UNCHANGED <<itemVars, hold, inflight, poolVars, service, threadVars,
                   cur, seen, clock, issued, evt>>

\* GetRecvTickCount, read before the item's lock is taken.
DetectRead(i) ==
    /\ req.op = "detect"
    /\ SendIdle
    /\ cur = NoItem
    /\ i \in todo
    /\ cur' = i
    /\ seen' = tick[i]
    /\ todo' = todo \ {i}
    /\ UNCHANGED <<itemVars, hold, inflight, poolVars, service, lastDetect,
                   threadVars, sendQ, req, nowTick, brk, clock, issued, evt>>

\* The detect loop would close item i: silent for too long.
Overdue(i) == nowTick - seen > IF i \in ready THEN brk ELSE BreakConnect

\* With the lock: close the item, or send it a detect packet, or pass.
DetectClose(i) ==
    /\ cur = i
    /\ hold[i] = "none"
    /\ seen < nowTick
    /\ Overdue(i)
    /\ CloseSocket(i, "send", recving, sends, tick)
    /\ cur' = NoItem
    /\ UNCHANGED <<inflight, storage, service, lastDetect, threadVars, sendQ,
                   req, todo, seen, nowTick, brk, clock, issued>>

DetectSend(i) ==
    /\ cur = i
    /\ hold[i] = "none"
    /\ IF seen < nowTick /\ ~Overdue(i) /\ i \in ready
         THEN SendData(i, round[i], GetSocketID(i))
         ELSE /\ seen >= nowTick \/ ~Overdue(i)
              /\ UNCHANGED <<sends, inflight>>
    /\ cur' = NoItem
    /\ UNCHANGED <<open, notified, recving, ready, batch, round, tick, hold,
                   poolVars, service, lastDetect, threadVars, sendQ, req, todo,
                   seen, nowTick, brk, clock, issued, evt>>

\* The loop over m_TempSocketItem is over.
LoopEnd ==
    /\ req # NoReq
    /\ todo = {} /\ cur = NoItem
    /\ SendIdle
    /\ req' = NoReq
    /\ seen' = 0 /\ nowTick' = 0 /\ brk' = 0
    /\ UNCHANGED <<itemVars, hold, inflight, poolVars, service, lastDetect,
                   threadVars, sendQ, todo, cur, clock, issued, evt>>

-----------------------------------------------------------------------------
(* StartService and ConcludeService.                                       *)

ServiceUnchanged == UNCHANGED <<sendQ, loopVars, clock, issued, evt>>

\* Completion port, send queue, completion, detect and accept threads run
\* before m_bService is set.
StartService ==
    /\ service = "stopped"
    /\ service' = "starting"
    /\ rsThreads' = RSThreads
    /\ acceptor' = "running"
    /\ UNCHANGED <<itemVars, hold, inflight, poolVars, lastDetect, reserved>>
    /\ ServiceUnchanged

ServiceStarted ==
    /\ service = "starting"
    /\ service' = "running"
    /\ UNCHANGED <<itemVars, hold, inflight, poolVars, lastDetect, threadVars>>
    /\ ServiceUnchanged

\* m_bService = false, then the detect thread is joined.
ConcludeService ==
    /\ "conclude" \in Env
    /\ service \in {"starting", "running"}
    /\ service' = "stopAccept"
    /\ lastDetect' = 0
    /\ UNCHANGED <<itemVars, hold, inflight, poolVars, threadVars>>
    /\ ServiceUnchanged

\* The listening socket is closed and the accept thread joined.
AcceptJoined ==
    /\ service = "stopAccept"
    /\ AcceptIdle
    /\ acceptor' = "ended"
    /\ service' = "stopSend"
    /\ UNCHANGED <<itemVars, hold, inflight, poolVars, lastDetect, rsThreads,
                   reserved>>
    /\ ServiceUnchanged

\* Faulty variant: waits until every closed connection has been announced.
SendJoinedReleased ==
    /\ service = "stopSend"
    /\ sendQ = <<>> /\ req = NoReq /\ SendIdle
    /\ \A i \in Items : i \in open \cup notified
    /\ service' = "stopRecv"
    /\ UNCHANGED <<itemVars, hold, inflight, poolVars, lastDetect, threadVars>>
    /\ ServiceUnchanged

\* The send queue is drained and its thread joined.
SendJoined ==
    /\ service = "stopSend"
    /\ sendQ = <<>> /\ req = NoReq /\ SendIdle
    /\ service' = "stopRecv"
    /\ UNCHANGED <<itemVars, hold, inflight, poolVars, lastDetect, threadVars>>
    /\ ServiceUnchanged

\* A completion thread takes one of the empty packets ConcludeService posts.
RSThreadEnds ==
    /\ service = "stopRecv"
    /\ RSIdle
    /\ rsThreads' = rsThreads - 1
    /\ UNCHANGED <<itemVars, hold, inflight, poolVars, service, lastDetect,
                   acceptor, reserved>>
    /\ ServiceUnchanged

\* How often ConcludeService increments the round of item i: an item with
\* nothing pending is reset by CloseSocket and by ResetSocketData.  It does
\* not take the lock, so increments are lost to a caller that is in it.
Increments(i) ==
    IF i \notin active THEN {0}
    ELSE IF hold[i] # "none" THEN 0 .. 2
    ELSE IF i \in recving \/ sends[i] # <<>> THEN {1} ELSE {2}

\* The completion threads are joined and the port closed (completions still
\* in flight are lost); CloseSocket and ResetSocketData for each active item.
ConcludeRest ==
    /\ service = "stopRecv"
    /\ rsThreads = 0 /\ \A i \in Items : hold[i] \in {"none", "caller"}
    /\ service' = "stopped"
    /\ open' = open \ active
    /\ \E n \in [Items -> 0 .. 2] :
         /\ \A i \in Items : n[i] \in Increments(i)
         /\ round' = [i \in Items |-> (round[i] + n[i]) % RoundMod]
    /\ notified' = notified \cup active
    /\ recving' = recving \ active
    /\ ready' = ready \ active
    /\ batch' = batch \cup active
    /\ tick' = [i \in Items |-> IF i \in active THEN 0 ELSE tick[i]]
    /\ sends' = [i \in Items |-> IF i \in active THEN <<>> ELSE sends[i]]
    /\ inflight' = [i \in Items |-> {}]
    /\ free' = free \cup active
    /\ active' = {}
    /\ UNCHANGED <<hold, storage, lastDetect, threadVars>>
    /\ ServiceUnchanged

Tick ==
    /\ clock < MaxTick
    /\ clock' = clock + 1
    /\ UNCHANGED <<itemVars, hold, inflight, poolVars, service, lastDetect,
                   threadVars, sendQ, loopVars, issued, evt>>

-----------------------------------------------------------------------------
Init ==
    /\ open = {} /\ notified = Items /\ recving = {} /\ ready = {}
    /\ batch = Items
    /\ round = [i \in Items |-> 1]
    /\ tick = [i \in Items |-> 0]
    /\ sends = [i \in Items |-> <<>>]
    /\ hold = [i \in Items |-> "none"]
    /\ inflight = [i \in Items |-> {}]
    /\ storage = 0 /\ free = {} /\ active = {}
    /\ service = "stopped" /\ lastDetect = 0
    /\ rsThreads = 0 /\ acceptor = "ended" /\ reserved = {}
    /\ sendQ = <<>> /\ req = NoReq /\ todo = {}
    /\ cur = NoItem /\ seen = 0 /\ nowTick = 0 /\ brk = 0
    /\ clock = 1 /\ issued = {} /\ evt = Event("none", NoID)

RecvCompletion(i) == \/ RecvCompletedClose(i) \/ RecvCompletedData(i)
                     \/ DecodePacket(i) \/ DecodeError(i)
                     \/ RecvDataPosted(i) \/ RecvDataFailed(i)
SendCompletion(i) == SendCompletedNext(i) \/ SendCompletedClose(i)
AcceptThread == \/ \E i \in Items : ActiveSocketItem(i) \/ Attach(i)
                \/ AcceptRefused \/ AcceptFails
Caller == \/ \E id \in issued : \/ CloseSocketID(id)
                                \/ \E op \in {"send", "shut", "allow", "forbid"} :
                                     QueueRequest(op, id)
          \/ SendDataBatch \/ DetectSocket
SendThread == \/ SendOne \/ SendAllBegin \/ SafeClose \/ AllowBatchSend
              \/ DetectBegin \/ LoopEnd
              \/ \E i \in Items : \/ SendAllItem(i) \/ DetectRead(i)
                                  \/ DetectClose(i) \/ DetectSend(i)
Service == \/ StartService \/ ServiceStarted \/ ConcludeService
           \/ AcceptJoined \/ SendJoined \/ RSThreadEnds \/ ConcludeRest

Next == \/ \E i \in Items : \/ RecvCompletion(i)
                            \/ SendCompletion(i)
                            \/ FinishClose(i)
                            \/ \E op \in {"recv", "send"} : CompletionFails(i, op)
        \/ AcceptThread
        \/ Caller
        \/ SendThread
        \/ Service
        \/ Tick

Spec == Init /\ [][Next]_vars

\* A thread that holds the lock of an item goes on, and what WSARecv and WSASend
\* were given completes once the socket is closed.  Strong fairness where the
\* action waits for something others may take in between: the completion port
\* is a FIFO, so a completion is not overtaken forever, and a lock is free for a
\* network round trip between two uses by completions; the listening socket is
\* closed before ConcludeService joins the accept thread.  Nothing is assumed of
\* clients, of the callers and the detect thread, or of completions on open
\* sockets.
Fairness ==
    /\ \A i \in Items :
         /\ WF_vars(FinishClose(i) \/ RecvDataPosted(i) \/ RecvDataFailed(i)
                      \/ DecodeError(i))
         /\ SF_vars(i \notin open /\ (RecvCompletedClose(i) \/ SendCompletedClose(i)))
         /\ WF_vars(Attach(i))
    /\ SF_vars(SendThread)
    /\ SF_vars(AcceptJoined \/ SendJoined \/ RSThreadEnds \/ ConcludeRest)

FairSpec == Spec /\ Fairness

-----------------------------------------------------------------------------
(* Properties.                                                             *)

Ticks == 0 .. MaxTick
Targets == IDs \cup {Everyone}
Flights == [Items -> SUBSET {"recv", "send"}]
Events == [kind : {"none", "accept", "read", "shut"}, id : IDs \cup {NoID}]
QueuedReqs == [op : Env, id : IDs]

ItemTypeOK ==
    /\ open \subseteq Items /\ notified \subseteq Items
    /\ recving \subseteq Items /\ ready \subseteq Items /\ batch \subseteq Items
    /\ round \in [Items -> Rounds]
    /\ tick \in [Items -> Ticks]
    /\ sends \in [Items -> Seq(Targets)]
    /\ hold \in [Items -> Holds]
    /\ inflight \in Flights

EngineTypeOK ==
    /\ storage \in 0 .. MaxSocketItem
    /\ free \subseteq Items /\ active \subseteq Items /\ reserved \subseteq Items
    /\ service \in {"stopped", "starting", "running", "stopAccept", "stopSend",
                    "stopRecv"}
    /\ rsThreads \in Int
    /\ acceptor \in {"running", "ended"}
    /\ lastDetect \in Ticks /\ clock \in Ticks
    /\ issued \subseteq IDs
    /\ evt \in Events

SendTypeOK ==
    /\ sendQ \in Seq(QueuedReqs)
    /\ req \in QueuedReqs \cup {NoReq}
    /\ todo \subseteq Items
    /\ cur \in Items \cup {NoItem}
    /\ seen \in Ticks /\ nowTick \in Ticks /\ brk \in Nat

\* Every variable has its type.
TypeOK == ItemTypeOK /\ EngineTypeOK /\ SendTypeOK

\* ActiveSocketItem, FreeSocketItem and ConcludeService keep every item that
\* was ever created on exactly one of the two lists, across the window in
\* which a closing thread has released an item it still has to reset.
PoolPartition ==
    /\ free \cap active = {}
    /\ free \cup active = 0 .. storage - 1

\* The operating system never owns an OVERLAPPED of an item that has been
\* announced closed: when OnSocketCloseEvent lets the accept thread take the
\* item again, the buffers of the old connection are no longer in use.
KernelOwnership ==
    \A i \in Items :
        /\ "recv" \in inflight[i] => i \in recving
        /\ "send" \in inflight[i] => sends[i] # <<>>
        /\ i \in notified => inflight[i] = {}

\* What Attach asserts, and more: when the accept thread gets the lock of the
\* item it reserved, nothing of the previous connection is left in it, although
\* the item was on the free list before it was reset.
CleanOnAttach ==
    \A i \in reserved :
        hold[i] = "none" =>
            /\ i \notin open /\ i \notin recving /\ i \notin ready
            /\ i \in batch
            /\ sends[i] = <<>>

\* While the service runs, an item whose close is still to be announced is on
\* the active list: the search in FreeSocketItem never ends in ASSERT(FALSE).
ReleaseFindsActive ==
    service = "running" => \A i \in Items : i \notin notified => i \in active

\* A packet queued by SendData for one socket ID is only ever put on the
\* connection with that ID (single send), whatever was closed and reused
\* between the call and the send-queue thread.
UnicastStaysPrivate ==
    \A i \in Items : \A k \in 1 .. Len(sends[i]) :
        sends[i][k] \in {Everyone, GetSocketID(i)}

\* The attemper sink sees Accept, Read*, Shut for each slot, and never the
\* same socket ID twice.
NE == INSTANCE NetworkEvents WITH
        live <- [i \in Items |-> IF service = "running" /\ i \notin notified
                                   THEN GetSocketID(i) ELSE NoID],
        used <- issued
EventOrder == NE!Spec

\* The item waits for an operation whose completion was dropped.
Dropped(i) ==
    /\ hold[i] = "none"
    /\ \/ i \in recving /\ "recv" \notin inflight[i]
       \/ sends[i] # <<>> /\ "send" \notin inflight[i]

\* A closed connection is announced and its item released, unless a failed
\* completion of that item was dropped or the failures have ended all completion
\* threads: the close cannot get stuck otherwise between the pending
\* operations, the locks and the threads, whatever fails for other items.
ClosedIsReleased ==
    \A i \in Items : (i \notin open /\ i \notin notified)
                      ~> (i \in notified \/ Dropped(i) \/ rsThreads = 0)

\* OnCloseCompleted, the "notice that the close is complete", comes for every
\* connection that was closed.
CloseIsAnnounced ==
    \A i \in Items : (i \notin open /\ i \notin notified) ~> (i \in notified)

\* ConcludeService returns: no join waits for a thread that waits for a lock.
ConcludeReturns == service = "stopAccept" ~> service = "stopped"

-----------------------------------------------------------------------------
(* The inductive invariant behind the safety properties: the life cycle of *)
(* one slot, and the pool.  A slot is idle (notified, nobody in its lock), *)
(* being reset (notified, a closer in its lock), in use (open), or closed  *)
(* with operations pending (neither).                                      *)

SlotOK(i) ==
    /\ i \in open => i \notin notified
    /\ i \notin notified => i \in active
    /\ i \in reserved => i \in notified
    /\ i \in notified => /\ i \notin recving
                         /\ sends[i] = <<>>
                         /\ hold[i] \notin Closers => i \notin ready /\ i \in batch
    /\ "recv" \in inflight[i] => i \in recving
    /\ "send" \in inflight[i] => sends[i] # <<>>
    /\ hold[i] \in Closers => i \in notified
    /\ hold[i] \in {"decode", "attach"} => i \in open /\ i \notin recving

PoolOK ==
    /\ PoolPartition
    /\ reserved \subseteq active
    /\ service \in {"stopSend", "stopRecv", "stopped"} => reserved = {}

IInv == TypeOK /\ PoolOK /\ \A i \in Items : SlotOK(i)
=============================================================================
