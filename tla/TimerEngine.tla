----------------------------- MODULE TimerEngine -----------------------------
(***************************************************************************)
(* CTimerEngine (TimerEngine.cpp): timers that any thread sets and kills   *)
(* under the lock, a thread that sleeps TIMER_SPACE and then scans them,   *)
(* and the queue that carries the timer events to the attemper sink.       *)
(*                                                                         *)
(* GetTickCount is a counter modulo Width; now is the real time behind it. *)
(* The pool of free items is only an allocator and is left out.  Fields    *)
(* setAt, asked and fired of an item record its history.                   *)
(***************************************************************************)
EXTENDS Integers, SequencesExt

CONSTANTS Timers,          \* timer IDs
          Elapses,         \* intervals that are asked for
          Repeats,         \* repeat counts that are asked for
          TIMES_INFINITY,
          TIMER_SPACE,     \* granularity
          TIMER_LEAD,      \* how much earlier the last event comes
          Width,           \* GetTickCount wraps at Width
          MaxTime,         \* bound on the real time
          MaxPending,      \* bound on the events in the queue
          MaxSets,         \* bound on the calls of SetTimer
          MaxStops         \* bound on the stops of the service

ASSUME SpaceAssumption == TIMER_SPACE \in Nat \ {0} /\ TIMER_LEAD \in Nat
ASSUME WidthAssumption == Width \in Nat \ {0} /\ MaxTime \in Nat
ASSUME SetAssumption ==
    /\ TIMES_INFINITY \in Nat \ {0, 1} /\ Repeats \subseteq 0 .. TIMES_INFINITY
    /\ Elapses \subseteq Nat

VARIABLES now,      \* real time
          scanned,  \* time of the last scan, or of the start of the thread
          active,   \* m_TimerItemActive
          pending,  \* events in the queue to the sink
          phase,    \* "stopped", "bound", "running", "joined", "cleared"
          sets,     \* calls of SetTimer so far
          stops     \* stops of the service so far

vars == <<now, scanned, active, pending, phase, sets, stops>>

GetTickCount == now % Width
Counted(i) == i.asked # TIMES_INFINITY

Init ==
    /\ now = 0 /\ scanned = 0
    /\ active = <<>> /\ pending = <<>>
    /\ phase = "stopped" /\ sets = 0 /\ stops = 0

-----------------------------------------------------------------------------
\* The time to the next event: the last one comes TIMER_LEAD early.
Interval(elapse, repeat) ==
    IF repeat # 1 THEN elapse
    ELSE IF elapse > TIMER_SPACE + TIMER_LEAD THEN elapse - TIMER_LEAD
    ELSE TIMER_SPACE

\* Places of a timer in the list of active items.
Places(t) == {n \in DOMAIN active : active[n].timer = t}

\* The timer's own item is set anew where it stands, or a new one added.
SetItem(t, item) ==
    active' = IF Places(t) = {} THEN Append(active, item)
              ELSE [active EXCEPT ![CHOOSE n \in Places(t) : TRUE] = item]

SetTimer(t, dwElapse, dwRepeat) ==
    LET elapse == dwElapse - (dwElapse % TIMER_SPACE)
    IN /\ dwRepeat > 0
       /\ sets < MaxSets /\ sets' = sets + 1
       /\ SetItem(t, [timer |-> t, elapse |-> elapse, repeat |-> dwRepeat,
                      dest |-> (GetTickCount + Interval(elapse, dwRepeat)) % Width,
                      setAt |-> now, asked |-> dwRepeat, fired |-> 0])
       /\ UNCHANGED <<now, scanned, pending, phase, stops>>

KillTimer(t) ==
    /\ \E n \in Places(t) : active' = RemoveAt(active, n)
    /\ UNCHANGED <<now, scanned, pending, phase, sets, stops>>

KillAllTimer ==
    /\ active' = <<>>
    /\ UNCHANGED <<now, scanned, pending, phase, sets, stops>>

-----------------------------------------------------------------------------
\* Faulty variant: only an item whose time is exactly now.
DueExactly(i) == GetTickCount = i.dest

Due(i) == GetTickCount >= i.dest

Event(i) == [timer |-> i.timer, at |-> now, nth |-> i.fired + 1,
             setAt |-> i.setAt, elapse |-> i.elapse, asked |-> i.asked]

\* Repeats that are left after an event.
Left(i) == IF i.repeat = TIMES_INFINITY THEN i.repeat ELSE i.repeat - 1

\* Faulty variant: the next interval is counted from the scan.
FiredDrifting(i) ==
    [i EXCEPT !.repeat = Left(i), !.fired = @ + 1,
              !.dest = (GetTickCount + Interval(i.elapse, Left(i))) % Width]

\* An item whose event has been posted; it is removed if nothing is left.
Fired(i) ==
    [i EXCEPT !.repeat = Left(i), !.fired = @ + 1,
              !.dest = (@ + Interval(i.elapse, Left(i))) % Width]

\* Faulty variant: the item goes one event too late.
StaysOneMore(i) == ~Due(i) \/ i.repeat > 0

Stays(i) == ~Due(i) \/ Left(i) > 0

\* The loop of the scan over the items, from the last one to the first: the events
\* it posts and the items that stay.
Scan(items) ==
    LET after[k \in 0 .. Len(items)] ==
          LET i == items[Len(items) + 1 - k]
          IN IF k = 0 THEN [posted |-> <<>>, kept |-> <<>>]
             ELSE [posted |-> IF Due(i) THEN Append(after[k - 1].posted, Event(i))
                              ELSE after[k - 1].posted,
                   kept   |-> IF Stays(i)
                                THEN <<IF Due(i) THEN Fired(i) ELSE i>> \o after[k - 1].kept
                                ELSE after[k - 1].kept]
    IN after[Len(items)]

\* OnTimerThreadSink of the thread, with the lock held.
OnTimerThreadSink ==
    /\ phase = "running"
    /\ now >= scanned + TIMER_SPACE
    /\ Len(pending) + Len(Scan(active).posted) <= MaxPending
    /\ pending' = pending \o Scan(active).posted
    /\ active' = Scan(active).kept
    /\ scanned' = now
    /\ UNCHANGED <<now, phase, sets, stops>>

Tick ==
    /\ now < MaxTime
    /\ now' = now + 1
    /\ UNCHANGED <<scanned, active, pending, phase, sets, stops>>

\* The thread of the queue hands an event to the attemper sink.
Deliver ==
    /\ pending # <<>>
    /\ pending' = Tail(pending)
    /\ UNCHANGED <<now, scanned, active, phase, sets, stops>>

-----------------------------------------------------------------------------
\* SetTimerEngineEvent starts the queue, StartService the scanning thread.
SetTimerEngineEvent ==
    /\ phase = "stopped"
    /\ phase' = "bound"
    /\ UNCHANGED <<now, scanned, active, pending, sets, stops>>

StartService ==
    /\ phase = "bound"
    /\ phase' = "running" /\ scanned' = now
    /\ UNCHANGED <<now, active, pending, sets, stops>>

\* ConcludeService waits for the scanning thread, drops the items (without
\* the lock) and waits until the queue has delivered its events.
ConcludeService ==
    /\ phase = "running" /\ stops < MaxStops
    /\ phase' = "joined" /\ stops' = stops + 1
    /\ UNCHANGED <<now, scanned, active, pending, sets>>

ClearItems ==
    /\ phase = "joined"
    /\ phase' = "cleared" /\ active' = <<>>
    /\ UNCHANGED <<now, scanned, pending, sets, stops>>

QueueConcluded ==
    /\ phase = "cleared" /\ pending = <<>>
    /\ phase' = "stopped"
    /\ UNCHANGED <<now, scanned, active, pending, sets, stops>>

Next ==
    \/ \E t \in Timers, e \in Elapses, r \in Repeats : SetTimer(t, e, r)
    \/ \E t \in Timers : KillTimer(t)
    \/ KillAllTimer
    \/ OnTimerThreadSink
    \/ Tick
    \/ Deliver
    \/ SetTimerEngineEvent \/ StartService
    \/ ConcludeService \/ ClearItems \/ QueueConcluded

\* Time passes, and the scanning thread and the thread of the queue run.
Fairness == WF_vars(Tick) /\ WF_vars(OnTimerThreadSink) /\ WF_vars(Deliver)

Spec == Init /\ [][Next]_vars /\ Fairness

-----------------------------------------------------------------------------
\* However late the scans come, the due times of an item do not drift: the
\* next event is due a whole number of intervals after SetTimer.
NoDrift ==
    \A n \in DOMAIN active :
      LET i == active[n]
          due == i.setAt + (i.fired + 1) * i.elapse
      IN IF i.repeat = 1 THEN i.dest + TIMER_LEAD >= due ELSE i.dest = due

\* "Notify 20 granules ahead" (comments of SetTimer and OnTimerThreadSink):
\* no event comes more than TIMER_LEAD before its time, and only the last
\* event of a timer comes early at all.
NotEarly ==
    \A n \in DOMAIN pending :
      LET e == pending[n]
          due == e.setAt + e.nth * e.elapse
      IN /\ e.at + TIMER_LEAD >= due
         /\ e.nth # e.asked => e.at >= due

\* A timer that was set for some number of events has no more than these,
\* also when scans catch up and other timers come and go.
RepeatBound ==
    \A n \in DOMAIN pending : Counted(pending[n]) => pending[n].nth <= pending[n].asked

\* An item of the timer, with an interval that is not rounded to 0, is due at d.
Waits(t, d) ==
    /\ phase = "running"
    /\ \E n \in Places(t) : active[n].dest = d /\ active[n].elapse > 0

\* A running engine fires every timer whose time comes before the end of the
\* bounded clock, unless it is killed, set again or the service stops; a scan
\* may come late by any time and several periods at once.
TimerFires ==
    \A t \in Timers, d \in 0 .. MaxTime - TIMER_SPACE :
        (Waits(t, d) /\ scanned + TIMER_SPACE <= MaxTime) ~> ~Waits(t, d)
=============================================================================
