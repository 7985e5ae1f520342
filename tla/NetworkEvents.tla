---------------------------- MODULE NetworkEvents ----------------------------
(***************************************************************************)
(* What the TCP network engine promises the attemper sink:                 *)
(* for each slot of the socket pool the events arrive as                   *)
(*     Accept, Read*, Shut, Accept, Read*, Shut, ...                       *)
(* and an Accept never carries a socket ID that was announced before.      *)
(* CAttemperEngineSink indexes its bind parameters by LOWORD(dwSocketID)   *)
(* alone when a connection shuts, so it depends on exactly this order.     *)
(***************************************************************************)
CONSTANTS Items,    \* slots of the socket pool
          IDs,      \* socket IDs: pairs <<slot, round>>
          NoID      \* "no connection announced in this slot"

VARIABLES live,     \* live[i]: the announced connection of slot i, or NoID
          used,     \* socket IDs that an Accept event has carried
          evt       \* the event posted last

vars == <<live, used, evt>>

Event(kind, id) == [kind |-> kind, id |-> id]

Init == /\ live = [i \in Items |-> NoID]
        /\ used = {}
        /\ evt = Event("none", NoID)

Accept(i, id) == /\ live[i] = NoID
                 /\ id[1] = i
                 /\ id \notin used
                 /\ live' = [live EXCEPT ![i] = id]
                 /\ used' = used \cup {id}
                 /\ evt' = Event("accept", id)

Read(i) == /\ live[i] # NoID
           /\ evt' = Event("read", live[i])
           /\ UNCHANGED <<live, used>>

Shut(i) == /\ live[i] # NoID
           /\ evt' = Event("shut", live[i])
           /\ live' = [live EXCEPT ![i] = NoID]
           /\ UNCHANGED used

\* ConcludeService: the sink is gone, every connection ends without an event.
Conclude == /\ live' = [i \in Items |-> NoID]
            /\ UNCHANGED <<used, evt>>

Next == \/ \E i \in Items : \/ \E id \in IDs : Accept(i, id)
                            \/ Read(i)
                            \/ Shut(i)
        \/ Conclude

Spec == Init /\ [][Next]_vars
=============================================================================
