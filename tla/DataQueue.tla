------------------------------ MODULE DataQueue ------------------------------
(***************************************************************************)
(* CYSDataQueue (YSDataQueue.cpp): the ring buffer under every queue of    *)
(* the server.  A packet is a header and its data in one piece; positions  *)
(* and sizes are kept, the bytes of a packet are abstracted to its         *)
(* identity.  Memory is the set of packets last written, including those   *)
(* that have been read already; a write destroys what it overlaps.         *)
(*                                                                         *)
(* The live bytes are part one, from m_dwDataQueryPos to m_dwTerminalPos,  *)
(* and, after the insert position went back to 0, part two before          *)
(* m_dwInsertPos.                                                          *)
(***************************************************************************)
EXTENDS Integers, Sequences, FiniteSets

CONSTANTS Sizes,       \* sizes of packets, header included
          MaxBuffer,   \* bound on the size the buffer grows to
          MaxPackets   \* bound on the number of packets inserted

ASSUME SizesAssumption == Sizes \subseteq Nat \ {0} /\ Sizes # {}
ASSUME BufferAssumption == MaxBuffer \in Nat /\ MaxPackets \in Nat

VARIABLES insertPos,    \* m_dwInsertPos
          terminalPos,  \* m_dwTerminalPos
          queryPos,     \* m_dwDataQueryPos
          dataSize,     \* m_dwDataSize
          count,        \* m_dwDataPacketCount
          bufferSize,   \* m_dwBufferSize
          buffer,       \* m_pDataQueueBuffer: packets that can be read there
          out,          \* the packet distilled last
          posted        \* number of packets inserted so far

posVars == <<insertPos, terminalPos, queryPos, dataSize, count, bufferSize>>
vars == <<posVars, buffer, out, posted>>

Larger(m, n) == IF m >= n THEN m ELSE n
PartOne == terminalPos - queryPos

\* Packets of the memory b that start in [from, to).
Within(b, from, to) == {p \in b : from <= p.pos /\ p.pos < to}
Shift(b, n) == {[p EXCEPT !.pos = @ + n] : p \in b}

-----------------------------------------------------------------------------
(* RectifyBuffer(need): room for need bytes at the insert position.        *)

\* The insert position goes back to 0: part one ends at the end of the buffer.
Restart(need) ==
    /\ insertPos = terminalPos
    /\ insertPos + need > bufferSize
    /\ queryPos >= need

\* Room where the insert position is.
Straight(need) ==
    /\ insertPos = terminalPos => insertPos + need <= bufferSize
    /\ insertPos < terminalPos => insertPos + need <= queryPos

\* The write at position pos of a buffer that holds b.
Write(b, pos, need) ==
    {p \in b : p.pos + p.size <= pos \/ p.pos >= pos + need}
      \cup {[pos |-> pos, size |-> need, id |-> posted + 1]}

Store(b, pos, terminal, need) ==
    /\ buffer' = Write(b, pos, need)
    /\ insertPos' = pos + need
    /\ terminalPos' = Larger(terminal, pos + need)
    /\ dataSize' = dataSize + need
    /\ count' = count + 1
    /\ posted' = posted + 1
    /\ UNCHANGED out

\* InsertData into the buffer as it is.
InsertInPlace(need) ==
    /\ posted < MaxPackets
    /\ dataSize + need <= bufferSize
    /\ \/ Restart(need) /\ Store(buffer, 0, terminalPos, need)
       \/ Straight(need) /\ Store(buffer, insertPos, terminalPos, need)
    /\ UNCHANGED <<queryPos, bufferSize>>

\* Faulty variant: forgets part two.
MovedPartOne == Shift(Within(buffer, queryPos, terminalPos), -queryPos)

\* What the larger buffer holds: part one, then part two.
Moved ==
    Shift(Within(buffer, queryPos, terminalPos), -queryPos)
      \cup IF dataSize > PartOne
             THEN Shift(Within(buffer, 0, insertPos), PartOne)
             ELSE {}

\* InsertData into a larger buffer.
InsertGrown(need) ==
    /\ posted < MaxPackets
    /\ dataSize + need > bufferSize \/ ~(Restart(need) \/ Straight(need))
    /\ bufferSize' = bufferSize + Larger(bufferSize \div 2, need * 10)
    /\ bufferSize' <= MaxBuffer
    /\ Store(Moved, dataSize, dataSize, need)
    /\ queryPos' = 0

-----------------------------------------------------------------------------
\* Part one has been read: part two becomes part one.
Turned == queryPos = terminalPos
ReadPos == IF Turned THEN 0 ELSE queryPos

\* Faulty variant: the terminal position stays behind.
DistillKeepsTerminal ==
    /\ count > 0 /\ dataSize > 0
    /\ \E p \in buffer :
         /\ p.pos = ReadPos
         /\ out' = <<p.id>>
         /\ dataSize' = dataSize - p.size
         /\ queryPos' = ReadPos + p.size
    /\ count' = count - 1
    /\ UNCHANGED <<insertPos, terminalPos, bufferSize, buffer, posted>>

\* DistillData: the packet whose header is at the query position.
DistillData ==
    /\ count > 0 /\ dataSize > 0
    /\ \E p \in buffer :
         /\ p.pos = ReadPos
         /\ out' = <<p.id>>
         /\ dataSize' = dataSize - p.size
         /\ queryPos' = ReadPos + p.size
    /\ terminalPos' = IF Turned THEN insertPos ELSE terminalPos
    /\ count' = count - 1
    /\ UNCHANGED <<insertPos, bufferSize, buffer, posted>>

\* RemoveData(false): the memory stays.
RemoveData ==
    /\ insertPos' = 0 /\ terminalPos' = 0 /\ queryPos' = 0
    /\ dataSize' = 0 /\ count' = 0
    /\ UNCHANGED <<bufferSize, buffer, out, posted>>

Init ==
    /\ insertPos = 0 /\ terminalPos = 0 /\ queryPos = 0
    /\ dataSize = 0 /\ count = 0 /\ bufferSize = 0
    /\ buffer = {} /\ out = <<>> /\ posted = 0

Next == \/ \E need \in Sizes : InsertInPlace(need) \/ InsertGrown(need)
        \/ DistillData
        \/ RemoveData

Spec == Init /\ [][Next]_vars

-----------------------------------------------------------------------------
(* Properties.                                                             *)

\* The packets a reader will see, in the order of their positions.
Ids(b) == [k \in 1 .. Cardinality(b) |->
             (CHOOSE p \in b : Cardinality({q \in b : q.pos < p.pos}) = k - 1).id]
Contents == Ids(Within(buffer, queryPos, terminalPos))
              \o IF dataSize > PartOne THEN Ids(Within(buffer, 0, insertPos))
                                       ELSE <<>>

\* CYSDataQueue is a first-in first-out queue: wrapping, growing and reading
\* never lose, duplicate or reorder a packet.
FQ == INSTANCE FifoQueue WITH items <- Contents, Packets <- 1 .. MaxPackets
FifoOrder == FQ!Spec

\* The counters describe the two parts of the live bytes exactly, and the
\* positions lie in the buffer; growing the buffer copies by these counters.
PartsAddUp ==
    /\ insertPos <= terminalPos /\ queryPos <= terminalPos
    /\ terminalPos <= bufferSize /\ dataSize <= terminalPos
    /\ dataSize > PartOne => insertPos + PartOne = dataSize
    /\ dataSize <= PartOne => dataSize = PartOne /\ insertPos = terminalPos

\* The assertions RectifyBuffer makes before it copies into the larger buffer.
RectifyAsserts ==
    [][(\E need \in Sizes : InsertGrown(need)) =>
         /\ terminalPos >= dataSize /\ terminalPos >= queryPos
         /\ dataSize > PartOne => insertPos + PartOne = dataSize]_vars
=============================================================================
