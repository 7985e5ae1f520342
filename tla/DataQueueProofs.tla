--------------------------- MODULE DataQueueProofs ---------------------------
(***************************************************************************)
(* The counters of CYSDataQueue are exact and its packets stay in order    *)
(* when all of them have one size, whatever that size, the growth of the   *)
(* buffer and the number of packets.                                       *)
(* With several sizes the counters are not (run ring_mixed).               *)
(***************************************************************************)
EXTENDS DataQueue, FiniteSetTheorems, SequenceTheorems, TLAPS

\* All the live bytes are in one part.
Linear == /\ insertPos = terminalPos
          /\ queryPos <= terminalPos
          /\ dataSize = terminalPos - queryPos

\* The insert position went back: no further packet fits behind part one.
Wrapped(s) == /\ 0 < insertPos /\ insertPos <= queryPos /\ queryPos <= terminalPos
              /\ dataSize = (terminalPos - queryPos) + insertPos
              /\ terminalPos + s > bufferSize

\* No packet in memory reaches over a position where a part ends.
NoStraddle(s) ==
    \A p \in buffer :
      /\ p \in [pos : Nat, size : {s}, id : Nat]
      /\ p.pos >= insertPos \/ p.pos + s <= insertPos
      /\ p.pos >= terminalPos \/ p.pos + s <= terminalPos

Positions ==
    /\ insertPos \in Nat /\ terminalPos \in Nat /\ queryPos \in Nat
    /\ dataSize \in Nat /\ count \in Int /\ bufferSize \in Nat
    /\ posted \in Nat
    /\ terminalPos <= bufferSize

\* The inductive invariant.
RingInv(s) == Positions /\ NoStraddle(s) /\ (Linear \/ Wrapped(s))

-----------------------------------------------------------------------------
\* The larger of two numbers is one of them and at least both.
LEMMA LargerFacts ==
    ASSUME NEW m \in Nat, NEW n \in Nat
    PROVE  Larger(m, n) \in Nat /\ Larger(m, n) >= m /\ Larger(m, n) >= n
           /\ (Larger(m, n) = m \/ Larger(m, n) = n)
BY DEF Larger

\* What a write leaves in memory lies beside it, or is it.
LEMMA WriteFacts ==
    ASSUME NEW s \in Nat \ {0}, NEW b, NEW pos \in Nat, posted \in Nat,
           \A p \in b : p \in [pos : Nat, size : {s}, id : Nat]
    PROVE  \A p \in Write(b, pos, s) :
             /\ p \in [pos : Nat, size : {s}, id : Nat]
             /\ \/ p \in b /\ (p.pos + s <= pos \/ p.pos >= pos + s)
                \/ p.pos = pos
BY DEF Write

\* An insertion into the buffer as it is keeps the ring buffer in shape.
LEMMA InsertInPlaceKeeps ==
    ASSUME NEW s \in Nat \ {0}, RingInv(s), InsertInPlace(s)
    PROVE  RingInv(s)'
<1> USE DEF RingInv, Positions
<1>0. s \in Nat /\ s > 0
  OBVIOUS
<1>1. CASE Restart(s) /\ Store(buffer, 0, terminalPos, s)
  <2>1. /\ Linear /\ queryPos >= s /\ terminalPos + s > bufferSize
        /\ insertPos = terminalPos
    BY <1>1, <1>0 DEF Restart, Linear, Wrapped, InsertInPlace
  <2>2. /\ insertPos' = s /\ terminalPos' = terminalPos
        /\ dataSize' = dataSize + s /\ posted' = posted + 1 /\ count' = count + 1
        /\ queryPos' = queryPos /\ bufferSize' = bufferSize
        /\ buffer' = Write(buffer, 0, s)
    BY <1>1, <1>0, <2>1, LargerFacts DEF Store, InsertInPlace, Linear, Larger
  <2>3. Positions' /\ Wrapped(s)'
    BY <2>1, <2>2, <1>0 DEF Linear, Wrapped
  <2>4. NoStraddle(s)'
    <3>1. \A p \in buffer : p \in [pos : Nat, size : {s}, id : Nat]
      BY DEF NoStraddle
    <3>2. SUFFICES ASSUME NEW p \in buffer'
                   PROVE  /\ p \in [pos : Nat, size : {s}, id : Nat]
                          /\ p.pos >= s \/ p.pos + s <= s
                          /\ p.pos >= terminalPos \/ p.pos + s <= terminalPos
      BY <2>2 DEF NoStraddle
    <3>3. /\ p \in [pos : Nat, size : {s}, id : Nat]
          /\ \/ p \in buffer /\ (p.pos + s <= 0 \/ p.pos >= 0 + s)
             \/ p.pos = 0
      BY <3>1, <2>2, WriteFacts
    <3>4. p.pos \in Nat
      BY <3>3
    <3>5. CASE p \in buffer /\ (p.pos + s <= 0 \/ p.pos >= 0 + s)
      <4>1. p.pos >= terminalPos \/ p.pos + s <= terminalPos
        BY <3>5 DEF NoStraddle
      <4> QED
        BY <4>1, <3>5, <3>4, <3>3, <1>0
    <3>6. CASE p.pos = 0
      BY <3>6, <3>3, <2>1, <1>0 DEF Linear
    <3> QED
      BY <3>3, <3>5, <3>6
  <2> QED
    BY <2>3, <2>4
<1>2. CASE Straight(s) /\ Store(buffer, insertPos, terminalPos, s)
  <2>1. /\ dataSize + s <= bufferSize
        /\ insertPos = terminalPos => insertPos + s <= bufferSize
        /\ insertPos < terminalPos => insertPos + s <= queryPos
    BY <1>2, <1>0 DEF Straight, InsertInPlace
  <2>2. /\ insertPos' = insertPos + s
        /\ terminalPos' = Larger(terminalPos, insertPos + s)
        /\ dataSize' = dataSize + s /\ posted' = posted + 1 /\ count' = count + 1
        /\ queryPos' = queryPos /\ bufferSize' = bufferSize
        /\ buffer' = Write(buffer, insertPos, s)
    BY <1>2, <1>0 DEF Store, InsertInPlace
  <2>3. \/ Linear /\ terminalPos' = insertPos + s
        \/ Wrapped(s) /\ insertPos + s <= queryPos /\ terminalPos' = terminalPos
    <3>1. CASE Linear
      BY <3>1, <2>2, <1>0 DEF Linear, Larger
    <3>2. CASE Wrapped(s)
      BY <3>2, <2>1, <2>2, <1>0 DEF Wrapped, Larger
    <3> QED
      BY <3>1, <3>2
  <2>4. Positions' /\ (Linear' \/ Wrapped(s)')
    BY <2>1, <2>2, <2>3, <1>0 DEF Linear, Wrapped
  <2>5. NoStraddle(s)'
    <3>1. \A p \in buffer : p \in [pos : Nat, size : {s}, id : Nat]
      BY DEF NoStraddle
    <3>2. SUFFICES ASSUME NEW p \in buffer'
                   PROVE  /\ p \in [pos : Nat, size : {s}, id : Nat]
                          /\ p.pos >= insertPos' \/ p.pos + s <= insertPos'
                          /\ p.pos >= terminalPos' \/ p.pos + s <= terminalPos'
      BY DEF NoStraddle
    <3>3. /\ p \in [pos : Nat, size : {s}, id : Nat]
          /\ \/ p \in buffer /\ (p.pos + s <= insertPos \/ p.pos >= insertPos + s)
             \/ p.pos = insertPos
      BY <3>1, <2>2, WriteFacts
    <3>4. p.pos \in Nat
      BY <3>3
    <3>5. CASE p \in buffer /\ (p.pos + s <= insertPos \/ p.pos >= insertPos + s)
      <4>1. p.pos >= terminalPos \/ p.pos + s <= terminalPos
        BY <3>5 DEF NoStraddle
      <4> QED
        BY <4>1, <3>5, <3>4, <3>3, <2>2, <2>3, <1>0 DEF Linear, Wrapped
    <3>6. CASE p.pos = insertPos
      BY <3>6, <3>3, <2>2, <2>3, <1>0 DEF Linear, Wrapped
    <3> QED
      BY <3>3, <3>5, <3>6
  <2> QED
    BY <2>4, <2>5
<1> QED
  BY <1>1, <1>2 DEF InsertInPlace

\* What a larger buffer receives ends where the live bytes end.
LEMMA MovedFacts ==
    ASSUME NEW s \in Nat \ {0}, RingInv(s)
    PROVE  \A p \in Moved : /\ p \in [pos : Nat, size : {s}, id : Nat]
                            /\ p.pos + s <= dataSize
<1> USE DEF RingInv, Positions
<1>1. SUFFICES ASSUME NEW p \in Moved
               PROVE  /\ p \in [pos : Nat, size : {s}, id : Nat]
                      /\ p.pos + s <= dataSize
  OBVIOUS
<1>2. CASE p \in Shift(Within(buffer, queryPos, terminalPos), -queryPos)
  <2>1. PICK q \in buffer : /\ queryPos <= q.pos /\ q.pos < terminalPos
                            /\ p = [q EXCEPT !.pos = @ + (-queryPos)]
    BY <1>2 DEF Shift, Within
  <2>2. /\ q \in [pos : Nat, size : {s}, id : Nat]
        /\ q.pos + s <= terminalPos
    BY <2>1 DEF NoStraddle
  <2>3. p.pos = q.pos - queryPos /\ p \in [pos : Nat, size : {s}, id : Nat]
    BY <2>1, <2>2
  <2> QED
    BY <2>1, <2>2, <2>3 DEF Linear, Wrapped
<1>3. CASE dataSize > PartOne /\ p \in Shift(Within(buffer, 0, insertPos), PartOne)
  <2>1. PICK q \in buffer : /\ 0 <= q.pos /\ q.pos < insertPos
                            /\ p = [q EXCEPT !.pos = @ + PartOne]
    BY <1>3 DEF Shift, Within
  <2>2. /\ q \in [pos : Nat, size : {s}, id : Nat]
        /\ q.pos + s <= insertPos
    BY <2>1 DEF NoStraddle
  <2>3. PartOne \in Nat /\ dataSize = PartOne + insertPos
    BY <1>3 DEF Linear, Wrapped, PartOne
  <2>4. p.pos = q.pos + PartOne /\ p \in [pos : Nat, size : {s}, id : Nat]
    BY <2>1, <2>2, <2>3
  <2> QED
    BY <2>2, <2>3, <2>4
<1> QED
  BY <1>2, <1>3 DEF Moved

\* An insertion into a larger buffer leaves the data in one part.
LEMMA InsertGrownKeeps ==
    ASSUME NEW s \in Nat \ {0}, RingInv(s), InsertGrown(s)
    PROVE  RingInv(s)'
<1> USE DEF RingInv, Positions
<1>1. bufferSize' \in Nat /\ bufferSize' >= dataSize + s
  <2>1. bufferSize \div 2 \in Nat /\ s * 10 \in Nat /\ s * 10 >= s
    OBVIOUS
  <2>2. Larger(bufferSize \div 2, s * 10) \in Nat
        /\ Larger(bufferSize \div 2, s * 10) >= s
    BY <2>1 DEF Larger
  <2>3. dataSize <= bufferSize
    BY DEF Linear, Wrapped
  <2>4. bufferSize' = bufferSize + Larger(bufferSize \div 2, s * 10)
    BY DEF InsertGrown
  <2> QED
    BY <2>2, <2>3, <2>4
<1>2. /\ insertPos' = dataSize + s /\ terminalPos' = dataSize + s
      /\ dataSize' = dataSize + s /\ queryPos' = 0
      /\ posted' = posted + 1 /\ count' = count + 1
      /\ buffer' = Write(Moved, dataSize, s)
  BY DEF InsertGrown, Store, Larger
<1>3. Positions' /\ Linear'
  BY <1>1, <1>2 DEF Linear
<1>4. NoStraddle(s)'
  <2>1. SUFFICES ASSUME NEW p \in buffer'
                 PROVE  /\ p \in [pos : Nat, size : {s}, id : Nat]
                        /\ p.pos + s <= dataSize + s
    BY <1>2 DEF NoStraddle
  <2>2. \A q \in Moved : q \in [pos : Nat, size : {s}, id : Nat]
    BY MovedFacts
  <2>3. /\ p \in [pos : Nat, size : {s}, id : Nat]
        /\ p \in Moved \/ p.pos = dataSize
    BY <1>2, <2>2, WriteFacts
  <2>4. p \in Moved => p.pos + s <= dataSize
    BY MovedFacts
  <2>5. p.pos \in Nat
    BY <2>3
  <2> QED
    BY <2>3, <2>4, <2>5
<1> QED
  BY <1>3, <1>4

\* Reading a packet takes it from the front of part one.
LEMMA DistillKeeps ==
    ASSUME NEW s \in Nat \ {0}, RingInv(s), DistillData
    PROVE  RingInv(s)'
<1> USE DEF RingInv, Positions
<1>1. PICK p \in buffer : /\ p.pos = ReadPos
                          /\ dataSize' = dataSize - p.size
                          /\ queryPos' = ReadPos + p.size
  BY DEF DistillData
<1>2. /\ p.size = s /\ p.pos \in Nat
      /\ p.pos >= insertPos \/ p.pos + s <= insertPos
      /\ p.pos >= terminalPos \/ p.pos + s <= terminalPos
  BY DEF NoStraddle
<1>3. /\ dataSize > 0
      /\ terminalPos' = IF Turned THEN insertPos ELSE terminalPos
      /\ count' = count - 1
      /\ UNCHANGED <<insertPos, bufferSize, buffer, posted>>
  BY DEF DistillData
<1>4. CASE Turned
  <2>1. Wrapped(s) /\ queryPos = terminalPos /\ p.pos = 0
    BY <1>1, <1>3, <1>4 DEF Linear, ReadPos, Turned
  <2>2. Positions' /\ Linear'
    BY <1>1, <1>2, <1>3, <1>4, <2>1 DEF Linear, Wrapped
  <2>3. NoStraddle(s)'
    BY <1>3, <1>4 DEF NoStraddle
  <2> QED
    BY <2>2, <2>3
<1>5. CASE ~Turned
  <2>1. p.pos = queryPos /\ queryPos < terminalPos /\ queryPos + s <= terminalPos
    BY <1>1, <1>2, <1>5 DEF Linear, Wrapped, Turned, ReadPos
  <2>2. Positions' /\ (Linear' \/ Wrapped(s)')
    BY <1>1, <1>2, <1>3, <1>5, <2>1 DEF Linear, Wrapped
  <2>3. NoStraddle(s)'
    BY <1>3, <1>5 DEF NoStraddle
  <2> QED
    BY <2>2, <2>3
<1> QED
  BY <1>4, <1>5

\* The shape of the ring buffer gives the exactness of its counters.
LEMMA ShapeIsExact ==
    ASSUME NEW s \in Nat \ {0}, RingInv(s)
    PROVE  PartsAddUp
BY DEF RingInv, Positions, Linear, Wrapped, PartsAddUp, PartOne

\* With packets of one size the ring buffer keeps its shape.
LEMMA RingTheorem ==
    ASSUME NEW s \in Nat \ {0}, Sizes = {s}
    PROVE  Spec => []RingInv(s)
<1>1. Init => RingInv(s)
  BY DEF Init, RingInv, Positions, NoStraddle, Linear
<1>2. RingInv(s) /\ [Next]_vars => RingInv(s)'
  <2> SUFFICES ASSUME RingInv(s), [Next]_vars PROVE RingInv(s)'
    OBVIOUS
  <2>1. CASE InsertInPlace(s)
    BY <2>1, InsertInPlaceKeeps
  <2>2. CASE InsertGrown(s)
    BY <2>2, InsertGrownKeeps
  <2>3. CASE DistillData
    BY <2>3, DistillKeeps
  <2>4. CASE RemoveData
    BY <2>4 DEF RemoveData, RingInv, Positions, NoStraddle, Linear
  <2>5. CASE UNCHANGED vars
    BY <2>5 DEF vars, posVars, RingInv, Positions, NoStraddle, Linear, Wrapped
  <2> QED
    BY <2>1, <2>2, <2>3, <2>4, <2>5 DEF Next
<1> QED
  BY <1>1, <1>2, PTL DEF Spec

\* With packets of one size the counters of the ring buffer describe its two
\* parts exactly: RectifyBuffer copies precisely the live bytes.
THEOREM PartsStayExact ==
    ASSUME NEW s \in Nat \ {0}, Sizes = {s}
    PROVE  Spec => []PartsAddUp
<1>1. RingInv(s) => PartsAddUp
  BY ShapeIsExact
<1> QED
  BY <1>1, RingTheorem, PTL

-----------------------------------------------------------------------------
(* The order of the packets.                                               *)

\* A packet of size s.
Packet(s) == [pos : Nat, size : {s}, id : Nat]

\* f lists packets one behind the other, from position from up to position to.
Tiles(s, f, from, to) ==
    /\ f \in Seq(Packet(s))
    /\ f = <<>> => from = to
    /\ f # <<>> => f[1].pos = from /\ f[Len(f)].pos + s = to
    /\ \A k \in 1 .. Len(f) - 1 : f[k + 1].pos = f[k].pos + s
    /\ \A j, k \in 1 .. Len(f) : j < k => f[j].pos < f[k].pos

\* The packets of a list, and their identities in order.
Listed(f) == {f[k] : k \in 1 .. Len(f)}
IdsOf(f) == [k \in 1 .. Len(f) |-> f[k].id]

\* A list in the order of the positions has as many elements as entries.
LEMMA CountListed ==
    ASSUME NEW s, NEW f \in Seq(Packet(s)), NEW n \in 0 .. Len(f),
           \A j, k \in 1 .. Len(f) : j < k => f[j].pos < f[k].pos
    PROVE  Cardinality({f[k] : k \in 1 .. n}) = n
<1> DEFINE S == {f[k] : k \in 1 .. n}
           g == [k \in 1 .. n |-> f[k]]
<1>a. Len(f) \in Nat /\ n \in Nat /\ \A k \in 1 .. Len(f) : f[k] \in Packet(s)
  OBVIOUS
<1>0. Len(f) \in Nat /\ n \in Nat /\ \A k \in 1 .. Len(f) : f[k].pos \in Nat
  BY <1>a DEF Packet
<1>1. \A j, k \in 1 .. n : j # k => g[j] # g[k]
  <2>1. SUFFICES ASSUME NEW j \in 1 .. n, NEW k \in 1 .. n, j < k PROVE f[j] # f[k]
    BY <1>0
  <2>2. f[j].pos < f[k].pos /\ f[j].pos \in Nat
    BY <1>0, <2>1
  <2> QED BY <2>2
<1>2. g \in Bijection(1 .. n, S)
  BY <1>1 DEF Bijection, Injection, Surjection, IsInjective
<1>3. ExistsBijection(1 .. n, S)
  BY <1>2 DEF ExistsBijection
<1> QED BY <1>0, <1>3, FS_CountingElements

\* Ids reads the list.
LEMMA IdsListed ==
    ASSUME NEW s, NEW f \in Seq(Packet(s)),
           \A j, k \in 1 .. Len(f) : j < k => f[j].pos < f[k].pos
    PROVE  Ids(Listed(f)) = IdsOf(f)
<1> DEFINE b == Listed(f)
           Below(p) == {q \in b : q.pos < p.pos}
<1>a. Len(f) \in Nat /\ \A k \in 1 .. Len(f) : f[k] \in Packet(s)
  OBVIOUS
<1>0. Len(f) \in Nat /\ \A k \in 1 .. Len(f) : f[k] \in b /\ f[k].pos \in Nat
  BY <1>a DEF Packet, Listed
<1>1. Cardinality(b) = Len(f)
  BY <1>0, CountListed DEF Listed
<1>2. ASSUME NEW k \in 1 .. Len(f) PROVE Cardinality(Below(f[k])) = k - 1
  <2>1. Below(f[k]) = {f[j] : j \in 1 .. k - 1}
    <3>1. ASSUME NEW j \in 1 .. Len(f) PROVE f[j].pos < f[k].pos <=> j < k
      <4>1. j < k \/ j = k \/ k < j
        BY <1>0
      <4>2. (k < j => f[k].pos < f[j].pos) /\ (j < k => f[j].pos < f[k].pos)
        OBVIOUS
      <4>3. f[j].pos \in Nat /\ f[k].pos \in Nat /\ j \in Nat /\ k \in Nat
        BY <1>0
      <4>4. CASE j = k
        BY <4>3, <4>4
      <4> QED BY <4>1, <4>2, <4>3, <4>4
    <3>2. ASSUME NEW p \in Below(f[k]) PROVE \E j \in 1 .. k - 1 : p = f[j]
      <4>1. PICK j \in 1 .. Len(f) : p = f[j]
        BY DEF Listed
      <4>2. j < k
        BY <3>1, <4>1
      <4>3. j \in 1 .. k - 1
        BY <1>0, <4>2
      <4> QED BY <4>1, <4>3
    <3>3. ASSUME NEW j \in 1 .. k - 1 PROVE f[j] \in Below(f[k])
      <4>1. j \in 1 .. Len(f) /\ j < k
        BY <1>0
      <4> QED BY <1>0, <3>1, <4>1
    <3> QED BY <3>2, <3>3
  <2>2. k - 1 \in 0 .. Len(f)
    BY <1>0
  <2> QED BY <2>1, <2>2, CountListed
<1>3. ASSUME NEW k \in 1 .. Len(f)
      PROVE  (CHOOSE p \in b : Cardinality(Below(p)) = k - 1) = f[k]
  <2>1. ASSUME NEW p \in b, Cardinality(Below(p)) = k - 1 PROVE p = f[k]
    <3>1. PICK j \in 1 .. Len(f) : p = f[j]
      BY DEF Listed
    <3>2. j - 1 = k - 1
      BY <1>2, <2>1, <3>1
    <3> QED BY <1>0, <3>1, <3>2
  <2>2. f[k] \in b /\ Cardinality(Below(f[k])) = k - 1
    BY <1>0, <1>2
  <2> HIDE DEF b, Below
  <2> QED BY <2>1, <2>2
<1>4. Ids(b) = [k \in 1 .. Cardinality(b) |-> (CHOOSE p \in b : Cardinality(Below(p)) = k - 1).id]
  BY DEF Ids
<1> HIDE DEF b, Below
<1>5. Ids(b) = IdsOf(f)
  BY <1>1, <1>3, <1>4 DEF IdsOf
<1> QED BY <1>5 DEF b

\* A packet of a list lies between the ends of the list.
LEMMA TilesRange ==
    ASSUME NEW s \in Nat \ {0}, NEW f, NEW from \in Nat, NEW to \in Nat, Tiles(s, f, from, to)
    PROVE  /\ from <= to
           /\ \A k \in 1 .. Len(f) : /\ f[k] \in Packet(s) /\ f[k].pos \in Nat
                                     /\ from <= f[k].pos /\ f[k].pos + s <= to
<1>0. f \in Seq(Packet(s)) /\ Len(f) \in Nat
  BY DEF Tiles
<1>1. ASSUME NEW k \in 1 .. Len(f)
      PROVE  f[k] \in Packet(s) /\ f[k].pos \in Nat /\ from <= f[k].pos /\ f[k].pos + s <= to
  <2>1. \A j \in 1 .. Len(f) : f[j] \in Packet(s)
    BY <1>0
  <2>2. \A j \in 1 .. Len(f) : f[j].pos \in Nat
    BY <2>1 DEF Packet
  <2>3. 1 \in 1 .. Len(f) /\ Len(f) \in 1 .. Len(f) /\ f # <<>>
    BY <1>0
  <2>4. f[1].pos = from /\ f[Len(f)].pos + s = to
    BY <2>3 DEF Tiles
  <2>5. from <= f[k].pos
    <3>1. CASE k = 1
      BY <2>2, <2>4, <3>1
    <3>2. CASE 1 < k
      BY <2>2, <2>3, <2>4, <3>2 DEF Tiles
    <3> QED BY <1>0, <3>1, <3>2
  <2>6. f[k].pos + s <= to
    <3>1. CASE k = Len(f)
      BY <2>2, <2>4, <3>1
    <3>2. CASE k < Len(f)
      <4>1. f[k].pos < f[Len(f)].pos
        BY <2>3, <3>2 DEF Tiles
      <4>2. f[k + 1].pos = f[k].pos + s
        BY <1>0, <3>2 DEF Tiles
      <4>3. CASE k + 1 = Len(f)
        BY <2>2, <2>3, <2>4, <4>2, <4>3
      <4>4. CASE k + 1 < Len(f)
        <5>1. f[k + 1].pos < f[Len(f)].pos /\ k + 1 \in 1 .. Len(f)
          BY <1>0, <2>3, <4>4 DEF Tiles
        <5> QED BY <2>2, <2>3, <2>4, <4>2, <5>1
      <4> QED BY <1>0, <3>2, <4>3, <4>4
    <3> QED BY <1>0, <3>1, <3>2
  <2> QED BY <2>1, <2>2, <2>5, <2>6
<1>2. from <= to
  <2>1. CASE f = <<>>
    BY <2>1 DEF Tiles
  <2>2. CASE f # <<>>
    <3>1. 1 \in 1 .. Len(f)
      BY <1>0, <2>2
    <3>2. f[1].pos \in Nat /\ from <= f[1].pos /\ f[1].pos + s <= to
      BY <1>1, <3>1
    <3> QED BY <3>2
  <2> QED BY <2>1, <2>2
<1> QED BY <1>1, <1>2

\* Lists one behind the other are a list.
LEMMA TilesConcat ==
    ASSUME NEW s \in Nat \ {0}, NEW f, NEW g,
           NEW from \in Nat, NEW mid \in Nat, NEW to \in Nat,
           Tiles(s, f, from, mid), Tiles(s, g, mid, to)
    PROVE  /\ Tiles(s, f \o g, from, to)
           /\ Listed(f \o g) = Listed(f) \cup Listed(g)
           /\ IdsOf(f \o g) = IdsOf(f) \o IdsOf(g)
<1> DEFINE m == Len(f)
           n == Len(g)
           h == f \o g
<1>0. f \in Seq(Packet(s)) /\ g \in Seq(Packet(s))
  BY DEF Tiles
<1>1. /\ m \in Nat /\ n \in Nat /\ h \in Seq(Packet(s)) /\ Len(h) = m + n
      /\ \A k \in 1 .. m : h[k] = f[k]
      /\ \A k \in (m + 1) .. (m + n) : h[k] = g[k - m] /\ k - m \in 1 .. n
      /\ \A k \in 1 .. n : h[k + m] = g[k] /\ k + m \in 1 .. (m + n)
  BY <1>0
<1>2. \A k \in 1 .. m : /\ f[k].pos \in Nat
                        /\ from <= f[k].pos /\ f[k].pos + s <= mid
  BY TilesRange DEF m
<1>3. \A k \in 1 .. n : /\ g[k].pos \in Nat
                        /\ mid <= g[k].pos /\ g[k].pos + s <= to
  BY TilesRange DEF n
<1>f. /\ f = <<>> => from = mid
      /\ f # <<>> => f[1].pos = from /\ f[m].pos + s = mid
      /\ \A k \in 1 .. m - 1 : f[k + 1].pos = f[k].pos + s
      /\ \A j, k \in 1 .. m : j < k => f[j].pos < f[k].pos
      /\ f = <<>> <=> m = 0
  BY <1>0 DEF Tiles
<1>g. /\ g = <<>> => mid = to
      /\ g # <<>> => g[1].pos = mid /\ g[n].pos + s = to
      /\ \A k \in 1 .. n - 1 : g[k + 1].pos = g[k].pos + s
      /\ \A j, k \in 1 .. n : j < k => g[j].pos < g[k].pos
      /\ g = <<>> <=> n = 0
  BY <1>0 DEF Tiles
<1>h. h = <<>> <=> m + n = 0
  BY <1>1
<1> HIDE DEF m, n, h
<1>4. h = <<>> => from = to
  BY <1>1, <1>f, <1>g, <1>h
<1>5. h # <<>> => h[1].pos = from /\ h[Len(h)].pos + s = to
  <2> SUFFICES ASSUME h # <<>> PROVE h[1].pos = from /\ h[m + n].pos + s = to
    BY <1>1
  <2>1. h[1].pos = from
    <3>1. CASE m = 0
      <4>1. n > 0 /\ 1 \in (m + 1) .. (m + n) /\ 1 - m = 1
        BY <1>1, <1>h, <3>1
      <4> QED BY <1>1, <1>f, <1>g, <3>1, <4>1
    <3>2. CASE m # 0
      <4>1. 1 \in 1 .. m
        BY <1>1, <3>2
      <4> QED BY <1>1, <1>f, <3>2, <4>1
    <3> QED BY <3>1, <3>2
  <2>2. h[m + n].pos + s = to
    <3>1. CASE n = 0
      <4>1. m \in 1 .. m /\ m + n = m
        BY <1>1, <1>h, <3>1
      <4> QED BY <1>1, <1>f, <1>g, <3>1, <4>1
    <3>2. CASE n # 0
      <4>1. m + n \in (m + 1) .. (m + n) /\ (m + n) - m = n
        BY <1>1, <3>2
      <4> QED BY <1>1, <1>g, <3>2, <4>1
    <3> QED BY <3>1, <3>2
  <2> QED BY <2>1, <2>2
<1>6. ASSUME NEW k \in 1 .. (m + n) - 1 PROVE h[k + 1].pos = h[k].pos + s
  <2>1. CASE k < m
    <3>1. k \in 1 .. m - 1 /\ k \in 1 .. m /\ k + 1 \in 1 .. m
      BY <1>1, <2>1
    <3> QED BY <1>1, <1>f, <3>1
  <2>2. CASE k = m
    <3>1. m # 0 /\ n # 0 /\ m \in 1 .. m /\ k + 1 \in (m + 1) .. (m + n) /\ (k + 1) - m = 1
      BY <1>1, <2>2
    <3>2. h[k + 1] = g[1] /\ h[k] = f[m]
      BY <1>1, <2>2, <3>1
    <3> QED BY <1>f, <1>g, <3>1, <3>2
  <2>3. CASE k > m
    <3>1. /\ k - m \in 1 .. n - 1 /\ k \in (m + 1) .. (m + n) /\ k + 1 \in (m + 1) .. (m + n)
          /\ (k + 1) - m = (k - m) + 1
      BY <1>1, <2>3
    <3>2. h[k] = g[k - m] /\ h[k + 1] = g[(k - m) + 1]
      BY <1>1, <3>1
    <3>3. g[(k - m) + 1].pos = g[k - m].pos + s
      BY <1>g, <3>1
    <3> QED BY <3>2, <3>3
  <2> QED BY <1>1, <2>1, <2>2, <2>3
<1>7. ASSUME NEW j \in 1 .. m + n, NEW k \in 1 .. m + n, j < k PROVE h[j].pos < h[k].pos
  <2>1. CASE k <= m
    <3>1. j \in 1 .. m /\ k \in 1 .. m
      BY <1>1, <1>7, <2>1
    <3> QED BY <1>1, <1>f, <1>7, <3>1
  <2>2. CASE j <= m /\ k > m
    <3>1. j \in 1 .. m /\ k \in (m + 1) .. (m + n) /\ k - m \in 1 .. n
      BY <1>1, <2>2
    <3>2. h[j] = f[j] /\ h[k] = g[k - m]
      BY <1>1, <3>1
    <3>3. f[j].pos \in Nat /\ f[j].pos + s <= mid /\ g[k - m].pos \in Nat /\ mid <= g[k - m].pos
      BY <1>2, <1>3, <3>1
    <3> QED BY <3>2, <3>3
  <2>3. CASE j > m
    <3>1. /\ j \in (m + 1) .. (m + n) /\ k \in (m + 1) .. (m + n)
          /\ j - m \in 1 .. n /\ k - m \in 1 .. n /\ j - m < k - m
      BY <1>1, <1>7, <2>3
    <3> QED BY <1>1, <1>g, <3>1
  <2> QED BY <1>1, <2>1, <2>2, <2>3
<1>8. Tiles(s, h, from, to)
  BY <1>1, <1>4, <1>5, <1>6, <1>7 DEF Tiles
<1>9. Listed(h) = Listed(f) \cup Listed(g)
  <2>1. ASSUME NEW k \in 1 .. m + n PROVE h[k] \in Listed(f) \cup Listed(g)
    <3>1. CASE k <= m
      BY <1>1, <3>1 DEF Listed, m
    <3>2. CASE k > m
      <4>1. k \in (m + 1) .. (m + n)
        BY <1>1, <3>2
      <4>2. h[k] = g[k - m] /\ k - m \in 1 .. n
        BY <1>1, <4>1
      <4> QED BY <4>2 DEF Listed, n
    <3> QED BY <1>1, <3>1, <3>2
  <2>2. ASSUME NEW k \in 1 .. m PROVE f[k] \in Listed(h)
    <3>1. k \in 1 .. Len(h) /\ f[k] = h[k]
      BY <1>1
    <3> QED BY <3>1 DEF Listed
  <2>3. ASSUME NEW k \in 1 .. n PROVE g[k] \in Listed(h)
    <3>1. k + m \in 1 .. Len(h) /\ g[k] = h[k + m]
      BY <1>1
    <3> QED BY <3>1 DEF Listed
  <2>4. /\ \A x \in Listed(h) : \E k \in 1 .. m + n : x = h[k]
        /\ \A x \in Listed(f) : \E k \in 1 .. m : x = f[k]
        /\ \A x \in Listed(g) : \E k \in 1 .. n : x = g[k]
    <3>1. \A x \in Listed(h) : \E k \in 1 .. m + n : x = h[k]
      BY <1>1 DEF Listed
    <3>2. \A x \in Listed(f) : \E k \in 1 .. m : x = f[k]
      BY DEF Listed, m
    <3>3. \A x \in Listed(g) : \E k \in 1 .. n : x = g[k]
      BY DEF Listed, n
    <3> QED BY <3>1, <3>2, <3>3
  <2>5. \A x \in Listed(h) : x \in Listed(f) \cup Listed(g)
    BY <2>1, <2>4
  <2>6. \A x \in Listed(f) : x \in Listed(h)
    BY <2>2, <2>4
  <2>7. \A x \in Listed(g) : x \in Listed(h)
    BY <2>3, <2>4
  <2> QED BY <2>5, <2>6, <2>7
<1>10. IdsOf(h) = IdsOf(f) \o IdsOf(g)
  <2> DEFINE F == IdsOf(f)
             G == IdsOf(g)
  <2>a. (\A k \in 1 .. m : f[k] \in Packet(s)) /\ (\A k \in 1 .. n : g[k] \in Packet(s))
    BY <1>0 DEF m, n
  <2>b. (\A k \in 1 .. m : f[k].id \in Nat) /\ (\A k \in 1 .. n : g[k].id \in Nat)
    BY <2>a DEF Packet
  <2>1. F \in Seq(Nat) /\ Len(F) = m /\ \A k \in 1 .. m : F[k] = f[k].id
    BY <1>1, <2>b DEF IdsOf, m
  <2>2. G \in Seq(Nat) /\ Len(G) = n /\ \A k \in 1 .. n : G[k] = g[k].id
    BY <1>1, <2>b DEF IdsOf, n
  <2> HIDE DEF F, G
  <2>3. ASSUME NEW k \in 1 .. m + n PROVE h[k].id = (F \o G)[k]
    <3>1. CASE k <= m
      <4>1. k \in 1 .. m
        BY <1>1, <3>1
      <4>2. (F \o G)[k] = F[k]
        BY <2>1, <2>2, <4>1
      <4> QED BY <1>1, <2>1, <4>1, <4>2
    <3>2. CASE k > m
      <4>1. k \in (m + 1) .. (m + n) /\ k - m \in 1 .. n
        BY <1>1, <3>2
      <4>2. (F \o G)[k] = G[k - m]
        BY <2>1, <2>2, <4>1
      <4>3. h[k] = g[k - m] /\ G[k - m] = g[k - m].id
        BY <1>1, <2>2, <4>1
      <4> QED BY <4>2, <4>3
    <3>3. k <= m \/ k > m
      BY <1>1
    <3> QED BY <3>1, <3>2, <3>3
  <2>4. F \o G = [k \in 1 .. m + n |-> (F \o G)[k]]
    <3>1. F \o G \in Seq(Nat) /\ Len(F \o G) = m + n
      BY <2>1, <2>2, ConcatProperties
    <3>2. F \o G \in [1 .. m + n -> Nat]
      BY <3>1, LenProperties
    <3> QED BY <3>2
  <2>5. IdsOf(h) = [k \in 1 .. m + n |-> h[k].id]
    BY <1>1 DEF IdsOf
  <2>6. IdsOf(h) = F \o G
    BY <2>3, <2>4, <2>5
  <2> QED BY <2>6 DEF F, G
<1> QED BY <1>8, <1>9, <1>10 DEF h

\* One packet is a list.
LEMMA TilesOne ==
    ASSUME NEW s \in Nat \ {0}, NEW p \in Packet(s)
    PROVE  /\ Tiles(s, <<p>>, p.pos, p.pos + s)
           /\ Listed(<<p>>) = {p} /\ IdsOf(<<p>>) = <<p.id>>
<1>1. <<p>> \in Seq(Packet(s)) /\ Len(<<p>>) = 1 /\ <<p>>[1] = p /\ <<p>> # <<>>
  OBVIOUS
<1>2. Listed(<<p>>) = {p}
  BY <1>1 DEF Listed
<1>3. IdsOf(<<p>>) = <<p.id>>
  BY <1>1 DEF IdsOf
<1> QED BY <1>1, <1>2, <1>3 DEF Tiles

\* Nothing is a list.
LEMMA TilesNone ==
    ASSUME NEW s \in Nat \ {0}, NEW at
    PROVE  /\ Tiles(s, <<>>, at, at)
           /\ Listed(<<>>) = {} /\ IdsOf(<<>>) = <<>>
BY DEF Tiles, Listed, IdsOf

\* A list without its first packet is a list.
LEMMA TilesTail ==
    ASSUME NEW s \in Nat \ {0}, NEW f, NEW from \in Nat, NEW to \in Nat,
           Tiles(s, f, from, to), f # <<>>
    PROVE  /\ Tiles(s, Tail(f), from + s, to)
           /\ Listed(Tail(f)) = {p \in Listed(f) : p.pos >= from + s}
           /\ \A p \in Listed(f) : p.pos = from => p = f[1]
           /\ IdsOf(f) # <<>> /\ Head(IdsOf(f)) = f[1].id /\ Tail(IdsOf(f)) = IdsOf(Tail(f))
<1> DEFINE n == Len(f)
           t == Tail(f)
<1>0. /\ f \in Seq(Packet(s)) /\ n \in Nat \ {0} /\ t \in Seq(Packet(s)) /\ Len(t) = n - 1
      /\ \A k \in 1 .. n - 1 : t[k] = f[k + 1] /\ k + 1 \in 1 .. n
      /\ \A k \in 1 .. n : f[k] \in Packet(s)
      /\ n = 1 <=> t = <<>>
  <2>1. f \in Seq(Packet(s))
    BY DEF Tiles
  <2>2. n \in Nat \ {0} /\ t \in Seq(Packet(s)) /\ Len(t) = n - 1
    BY <2>1
  <2>3. \A k \in 1 .. n - 1 : t[k] = f[k + 1] /\ k + 1 \in 1 .. n
    BY <2>1, <2>2
  <2>4. n = 1 <=> t = <<>>
    <3> HIDE DEF t, n
    <3> QED BY <2>2
  <2>5. \A k \in 1 .. n : f[k] \in Packet(s)
    BY <2>1
  <2> QED BY <2>1, <2>2, <2>3, <2>4, <2>5
<1>1. \A k \in 1 .. n : /\ f[k].pos \in Nat /\ from <= f[k].pos /\ f[k].pos + s <= to
  BY TilesRange DEF n
<1>2. /\ f[1].pos = from /\ f[n].pos + s = to
      /\ \A k \in 1 .. n - 1 : f[k + 1].pos = f[k].pos + s
      /\ \A j, k \in 1 .. n : j < k => f[j].pos < f[k].pos
  BY DEF Tiles
<1>i. \A k \in 1 .. n : f[k].id \in Nat
  BY <1>0 DEF Packet
<1> HIDE DEF n, t
<1>3. ASSUME NEW k \in 1 .. n, k # 1 PROVE f[k].pos >= from + s
  <2>1. k - 1 \in 1 .. n /\ k - 1 \in 1 .. n - 1 /\ (k - 1) + 1 = k
    BY <1>0, <1>3
  <2>2. f[k].pos = f[k - 1].pos + s
    BY <1>2, <2>1
  <2>3. f[k - 1].pos \in Nat /\ from <= f[k - 1].pos
    BY <1>1, <2>1
  <2> QED BY <2>2, <2>3
<1>4. Tiles(s, t, from + s, to)
  <2>1. t = <<>> => from + s = to
    BY <1>0, <1>2
  <2>2. t # <<>> => t[1].pos = from + s /\ t[Len(t)].pos + s = to
    <3> SUFFICES ASSUME t # <<>> PROVE t[1].pos = from + s /\ t[n - 1].pos + s = to
      BY <1>0
    <3>1. 1 \in 1 .. n - 1 /\ n - 1 \in 1 .. n - 1 /\ 1 + 1 = 2 /\ (n - 1) + 1 = n
      BY <1>0
    <3>2. t[1] = f[2] /\ t[n - 1] = f[n]
      BY <1>0, <3>1
    <3>3. f[2].pos = f[1].pos + s
      BY <1>2, <3>1
    <3> QED BY <1>2, <3>2, <3>3
  <2>3. ASSUME NEW k \in 1 .. (n - 1) - 1 PROVE t[k + 1].pos = t[k].pos + s
    <3>1. k \in 1 .. n - 1 /\ k + 1 \in 1 .. n - 1
      BY <1>0
    <3>2. t[k] = f[k + 1] /\ t[k + 1] = f[(k + 1) + 1]
      BY <1>0, <3>1
    <3>3. f[(k + 1) + 1].pos = f[k + 1].pos + s
      BY <1>2, <3>1
    <3> QED BY <3>2, <3>3
  <2>4. ASSUME NEW j \in 1 .. n - 1, NEW k \in 1 .. n - 1, j < k PROVE t[j].pos < t[k].pos
    <3>1. t[j] = f[j + 1] /\ t[k] = f[k + 1] /\ j + 1 \in 1 .. n /\ k + 1 \in 1 .. n /\ j + 1 < k + 1
      BY <1>0, <2>4
    <3>2. f[j + 1].pos < f[k + 1].pos
      BY <1>2, <3>1
    <3> QED BY <3>1, <3>2
  <2> QED BY <1>0, <2>1, <2>2, <2>3, <2>4 DEF Tiles
<1>5. Listed(t) = {p \in Listed(f) : p.pos >= from + s}
  <2>1. ASSUME NEW k \in 1 .. n - 1 PROVE t[k] \in Listed(f) /\ t[k].pos >= from + s
    <3>1. t[k] = f[k + 1] /\ k + 1 \in 1 .. n /\ k + 1 # 1
      BY <1>0
    <3>2. f[k + 1].pos >= from + s
      BY <1>3, <3>1
    <3> QED BY <3>1, <3>2 DEF Listed, n
  <2>2. ASSUME NEW k \in 1 .. n, f[k].pos >= from + s PROVE f[k] \in Listed(t)
    <3>1. k # 1
      <4>1. CASE k = 1
        BY <1>2, <2>2, <4>1
      <4> QED BY <4>1
    <3>2. k - 1 \in 1 .. n - 1 /\ (k - 1) + 1 = k
      BY <1>0, <3>1
    <3>3. t[k - 1] = f[k] /\ k - 1 \in 1 .. Len(t)
      BY <1>0, <3>2
    <3> QED BY <3>3 DEF Listed
  <2>3. Listed(t) = {t[k] : k \in 1 .. n - 1} /\ Listed(f) = {f[k] : k \in 1 .. n}
    BY <1>0 DEF Listed, n
  <2> QED BY <2>1, <2>2, <2>3
<1>6. ASSUME NEW p \in Listed(f), p.pos = from PROVE p = f[1]
  <2>1. PICK k \in 1 .. n : p = f[k]
    BY DEF Listed, n
  <2>2. CASE k # 1
    <3>1. f[k].pos >= from + s /\ f[k].pos = from
      BY <1>3, <1>6, <2>1, <2>2
    <3> QED BY <3>1
  <2> QED BY <2>1, <2>2
<1>7. IdsOf(f) # <<>> /\ Head(IdsOf(f)) = f[1].id /\ Tail(IdsOf(f)) = IdsOf(t)
  <2> DEFINE F == IdsOf(f)
  <2>1. F \in Seq(Nat) /\ Len(F) = n /\ \A k \in 1 .. n : F[k] = f[k].id
    BY <1>0, <1>i DEF IdsOf, n
  <2> HIDE DEF F
  <2>2. F # <<>> /\ Head(F) = F[1] /\ Tail(F) = [k \in 1 .. n - 1 |-> F[k + 1]] /\ 1 \in 1 .. n
    <3>1. F # <<>> /\ n \in Nat /\ 1 \in 1 .. n
      BY <1>0, <2>1
    <3>2. Head(F) = F[1]
      BY <2>1, <3>1
    <3>3. Tail(F) = [k \in 1 .. n - 1 |-> F[k + 1]]
      <4>1. /\ Tail(F) \in Seq(Nat) /\ Len(Tail(F)) = n - 1
            /\ \A k \in 1 .. n - 1 : Tail(F)[k] = F[k + 1]
        BY <2>1, <3>1, HeadTailProperties
      <4>2. Tail(F) \in [1 .. n - 1 -> Nat]
        BY <4>1, LenProperties
      <4> QED BY <4>1, <4>2
    <3> QED BY <3>1, <3>2, <3>3
  <2>3. \A k \in 1 .. n - 1 : F[k + 1] = t[k].id
    BY <1>0, <2>1
  <2>4. IdsOf(t) = [k \in 1 .. n - 1 |-> t[k].id]
    BY <1>0 DEF IdsOf
  <2>5. Tail(F) = IdsOf(t)
    BY <2>2, <2>3, <2>4
  <2>6. Head(F) = f[1].id
    BY <2>1, <2>2
  <2> QED BY <2>2, <2>5, <2>6 DEF F
<1> QED BY <1>4, <1>5, <1>6, <1>7 DEF t

\* A list moved to another place.
Moves(f, n) == [k \in 1 .. Len(f) |-> [f[k] EXCEPT !.pos = @ + n]]
LEMMA TilesMove ==
    ASSUME NEW s \in Nat \ {0}, NEW f, NEW from \in Nat, NEW to \in Nat, NEW n \in Int,
           Tiles(s, f, from, to), NEW from2 \in Nat, NEW to2 \in Nat,
           from2 = from + n, to2 = to + n
    PROVE  /\ Tiles(s, Moves(f, n), from2, to2)
           /\ Listed(Moves(f, n)) = Shift(Listed(f), n)
<1> DEFINE m == Len(f)
           h == Moves(f, n)
<1>0. f \in Seq(Packet(s)) /\ m \in Nat /\ (f = <<>> <=> m = 0)
  BY DEF Tiles
<1>1. from <= to /\ \A k \in 1 .. m : /\ f[k] \in Packet(s)
                        /\ f[k].pos \in Nat /\ from <= f[k].pos /\ f[k].pos + s <= to
  BY TilesRange DEF m
<1>2. /\ f = <<>> => from = to
      /\ f # <<>> => f[1].pos = from /\ f[m].pos + s = to
      /\ \A k \in 1 .. m - 1 : f[k + 1].pos = f[k].pos + s
      /\ \A j, k \in 1 .. m : j < k => f[j].pos < f[k].pos
  BY DEF Tiles
<1>3. ASSUME NEW k \in 1 .. m
      PROVE  h[k] \in Packet(s) /\ h[k].pos = f[k].pos + n /\ h[k].id = f[k].id
  <2>1. h[k] = [f[k] EXCEPT !.pos = @ + n]
    BY DEF Moves
  <2>2. f[k].pos + n \in Nat
    BY <1>1
  <2>3. f[k] \in Packet(s)
    BY <1>1
  <2> QED BY <2>1, <2>2, <2>3 DEF Packet
<1>4. h \in Seq(Packet(s)) /\ Len(h) = m /\ (h = <<>> <=> m = 0)
  <2>1. h = [k \in 1 .. m |-> h[k]]
    BY DEF Moves
  <2> HIDE DEF h
  <2>2. h \in Seq(Packet(s)) /\ Len(h) = m
    BY <1>0, <1>3, <2>1
  <2> QED BY <1>0, <2>2
<1>5. Listed(h) = Shift(Listed(f), n)
  <2>1. Listed(h) = {h[k] : k \in 1 .. m} /\ Listed(f) = {f[k] : k \in 1 .. m}
    BY <1>4 DEF Listed
  <2>2. \A k \in 1 .. m : h[k] = [f[k] EXCEPT !.pos = @ + n]
    BY DEF Moves
  <2> HIDE DEF h, m
  <2>3. ASSUME NEW k \in 1 .. m PROVE h[k] \in Shift(Listed(f), n)
    <3>1. f[k] \in Listed(f)
      BY <2>1
    <3> QED BY <2>2, <3>1 DEF Shift
  <2>4. ASSUME NEW p \in Listed(f) PROVE [p EXCEPT !.pos = @ + n] \in Listed(h)
    <3>1. PICK k \in 1 .. m : p = f[k]
      BY <2>1
    <3>2. h[k] = [p EXCEPT !.pos = @ + n]
      BY <2>2, <3>1
    <3> QED BY <2>1, <3>2
  <2>5. Listed(h) \subseteq Shift(Listed(f), n)
    BY <2>1, <2>3
  <2>6. Shift(Listed(f), n) \subseteq Listed(h)
    BY <2>4 DEF Shift
  <2> QED BY <2>5, <2>6
<1> HIDE DEF h, m
<1>7. Tiles(s, h, from + n, to + n)
  <2>1. h = <<>> => from + n = to + n
    BY <1>0, <1>2, <1>4
  <2>2. h # <<>> => h[1].pos = from + n /\ h[Len(h)].pos + s = to + n
    <3> SUFFICES ASSUME h # <<>> PROVE h[1].pos = from + n /\ h[m].pos + s = to + n
      BY <1>4
    <3>1. 1 \in 1 .. m /\ m \in 1 .. m /\ f # <<>>
      BY <1>0, <1>4
    <3>2. h[1].pos = f[1].pos + n /\ h[m].pos = f[m].pos + n /\ f[1].pos = from /\ f[m].pos + s = to
      BY <1>2, <1>3, <3>1
    <3>3. f[m].pos \in Nat
      BY <1>1, <3>1
    <3> QED BY <3>2, <3>3
  <2>3. ASSUME NEW k \in 1 .. m - 1 PROVE h[k + 1].pos = h[k].pos + s
    <3>1. k \in 1 .. m /\ k + 1 \in 1 .. m
      BY <1>0
    <3>2. h[k].pos = f[k].pos + n /\ h[k + 1].pos = f[k + 1].pos + n /\ f[k].pos \in Nat
      BY <1>1, <1>3, <3>1
    <3>3. f[k + 1].pos = f[k].pos + s
      BY <1>2
    <3> QED BY <3>2, <3>3
  <2>4. ASSUME NEW j \in 1 .. m, NEW k \in 1 .. m, j < k PROVE h[j].pos < h[k].pos
    <3>1. f[j].pos < f[k].pos /\ f[j].pos \in Nat /\ f[k].pos \in Nat
      BY <1>1, <1>2, <2>4
    <3>2. h[j].pos = f[j].pos + n /\ h[k].pos = f[k].pos + n
      BY <1>3
    <3> QED BY <3>1, <3>2
  <2> QED BY <1>4, <2>1, <2>2, <2>3, <2>4 DEF Tiles
<1> QED BY <1>1, <1>5, <1>7 DEF h

\* Moving changes no identity.
LEMMA MovesIds ==
    ASSUME NEW s, NEW f \in Seq(Packet(s)), NEW n \in Int
    PROVE  IdsOf(Moves(f, n)) = IdsOf(f)
<1> DEFINE h == Moves(f, n)
           m == Len(f)
<1>1. m \in Nat /\ \A k \in 1 .. m : f[k] \in Packet(s)
  OBVIOUS
<1>2. \A k \in 1 .. m : h[k] = [f[k] EXCEPT !.pos = @ + n]
  BY DEF Moves
<1>3. \A k \in 1 .. m : h[k].id = f[k].id
  BY <1>1, <1>2 DEF Packet
<1>4. h = [k \in 1 .. m |-> h[k]]
  BY DEF Moves
<1> HIDE DEF h, m
<1>5. Len(h) = m
  BY <1>1, <1>4
<1>6. IdsOf(h) = [k \in 1 .. m |-> h[k].id]
  BY <1>5 DEF IdsOf
<1>7. IdsOf(f) = [k \in 1 .. m |-> f[k].id]
  BY DEF IdsOf, m
<1>8. IdsOf(h) = IdsOf(f)
  BY <1>3, <1>6, <1>7
<1> QED BY <1>8 DEF h

\* The live packets of a memory b: f lists part one, from q to t, and g part
\* two, up to i; d bytes are live.
Lays(s, f, g, b, q, t, d, i) ==
    /\ Tiles(s, f, q, t) /\ Within(b, q, t) = Listed(f)
    /\ IF d > t - q THEN Tiles(s, g, 0, i) /\ Within(b, 0, i) = Listed(g) ELSE g = <<>>
Layout(s, f, g) == Lays(s, f, g, buffer, queryPos, terminalPos, dataSize, insertPos)
NextLayout(s, f, g) ==
    Lays(s, f, g, buffer', queryPos', terminalPos', dataSize', insertPos')

\* The identities of the packets of a list.
LEMMA IdsType ==
    ASSUME NEW s, NEW f \in Seq(Packet(s)) PROVE IdsOf(f) \in Seq(Nat)
<1>1. \A k \in 1 .. Len(f) : f[k] \in Packet(s)
  OBVIOUS
<1>2. Len(f) \in Nat /\ \A k \in 1 .. Len(f) : f[k].id \in Nat
  BY <1>1 DEF Packet
<1> QED BY <1>2 DEF IdsOf

\* What Contents reads from a memory and its positions.
Reading(b, q, t, d, i) ==
    Ids(Within(b, q, t)) \o (IF d > t - q THEN Ids(Within(b, 0, i)) ELSE <<>>)

\* Contents reads the two lists.
LEMMA ContentsListed ==
    ASSUME NEW s \in Nat \ {0}, NEW f \in Seq(Packet(s)), NEW g \in Seq(Packet(s)),
           NEW b, NEW q, NEW t, NEW d, NEW i, Lays(s, f, g, b, q, t, d, i)
    PROVE  Reading(b, q, t, d, i) = IdsOf(f) \o IdsOf(g)
<1>1. Ids(Within(b, q, t)) = IdsOf(f)
  BY IdsListed DEF Lays, Tiles
<1>2. CASE d > t - q
  <2>1. Ids(Within(b, 0, i)) = IdsOf(g)
    BY <1>2, IdsListed DEF Lays, Tiles
  <2> QED BY <1>1, <1>2, <2>1 DEF Reading
<1>3. CASE ~(d > t - q)
  <2>1. IdsOf(g) = <<>>
    BY <1>3, TilesNone DEF Lays
  <2> QED BY <1>1, <1>3, <2>1 DEF Reading
<1> QED BY <1>2, <1>3

\* A write beside [from, to) leaves it as it was, and one that begins in it and
\* ends at its new end adds the packet.
LEMMA WriteWithin ==
    ASSUME NEW s \in Nat \ {0}, NEW b, NEW pos \in Nat, posted \in Nat,
           NEW from \in Nat, NEW to \in Nat,
           \A p \in b : p \in Packet(s) /\ (p.pos >= to \/ p.pos + s <= to)
    PROVE  /\ (pos + s <= from \/ pos >= to) =>
                Within(Write(b, pos, s), from, to) = Within(b, from, to)
           /\ (pos = to /\ from <= to) =>
                Within(Write(b, pos, s), from, to + s)
                  = Within(b, from, to) \cup {[pos |-> pos, size |-> s, id |-> posted + 1]}
<1> DEFINE new == [pos |-> pos, size |-> s, id |-> posted + 1]
           w == Write(b, pos, s)
<1>1. \A p \in b : p.pos \in Nat /\ p.size = s
  BY DEF Packet
<1>2. new.pos = pos
  OBVIOUS
<1>3. \A p : p \in w <=> (p = new \/ (p \in b /\ (p.pos + s <= pos \/ p.pos >= pos + s)))
  BY <1>1 DEF Write
<1> HIDE DEF new, w
<1>4. ASSUME pos + s <= from \/ pos >= to PROVE Within(w, from, to) = Within(b, from, to)
  <2>1. ASSUME NEW p \in Within(w, from, to) PROVE p \in Within(b, from, to)
    <3>1. p \in w /\ from <= p.pos /\ p.pos < to
      BY DEF Within
    <3>2. p # new
      <4>1. CASE p = new
        BY <1>2, <1>4, <3>1, <4>1
      <4> QED BY <4>1
    <3> QED BY <1>3, <3>1, <3>2 DEF Within
  <2>2. ASSUME NEW p \in Within(b, from, to) PROVE p \in Within(w, from, to)
    <3>1. p \in b /\ from <= p.pos /\ p.pos < to /\ p.pos \in Nat
      BY <1>1 DEF Within
    <3>2. p.pos >= to \/ p.pos + s <= to
      BY <3>1
    <3>3. p.pos + s <= pos \/ p.pos >= pos + s
      BY <1>4, <3>1, <3>2
    <3> QED BY <1>3, <3>1, <3>3 DEF Within
  <2> QED BY <2>1, <2>2
<1>5. ASSUME pos = to, from <= to PROVE Within(w, from, to + s) = Within(b, from, to) \cup {new}
  <2>1. ASSUME NEW p \in Within(w, from, to + s), p # new PROVE p \in Within(b, from, to)
    <3>1. p \in b /\ from <= p.pos /\ p.pos < to + s /\ (p.pos + s <= pos \/ p.pos >= pos + s)
      BY <1>3, <2>1 DEF Within
    <3>2. p.pos \in Nat
      BY <1>1, <3>1
    <3>3. p.pos < to
      BY <1>5, <3>1, <3>2
    <3> QED BY <3>1, <3>3 DEF Within
  <2>2. ASSUME NEW p \in Within(b, from, to) PROVE p \in Within(w, from, to + s)
    <3>1. p \in b /\ from <= p.pos /\ p.pos < to /\ p.pos \in Nat
      BY <1>1 DEF Within
    <3>2. p.pos >= to \/ p.pos + s <= to
      BY <3>1
    <3>3. p.pos + s <= pos
      BY <1>5, <3>1, <3>2
    <3>4. p.pos < to + s
      BY <3>1
    <3> QED BY <1>3, <3>1, <3>3, <3>4 DEF Within
  <2>3. new \in Within(w, from, to + s)
    BY <1>2, <1>3, <1>5 DEF Within
  <2> QED BY <2>1, <2>2, <2>3
<1> QED BY <1>4, <1>5 DEF new, w

\* Appending to the second of two sequences, or to the first when there is no
\* second.
LEMMA AppendFacts ==
    ASSUME NEW F \in Seq(Nat), NEW G \in Seq(Nat), NEW n \in Nat
    PROVE  /\ F \o Append(G, n) = Append(F \o G, n)
           /\ F \o <<n>> = Append(F \o <<>>, n)
           /\ Append(F, n) \o <<>> = Append(F \o <<>>, n)
<1>1. F \o Append(G, n) = Append(F \o G, n)
  OBVIOUS
<1>2. F \o <<>> = F
  BY ConcatEmptySeq
<1>3. F \o <<n>> = Append(F, n)
  OBVIOUS
<1>4. Append(F, n) \o <<>> = Append(F, n)
  <2>1. Append(F, n) \in Seq(Nat)
    OBVIOUS
  <2> QED BY <2>1, ConcatEmptySeq
<1> QED BY <1>1, <1>2, <1>3, <1>4

\* A list with a packet behind it, and what it is for the reader.
LEMMA TilesAppend ==
    ASSUME NEW s \in Nat \ {0}, NEW f, NEW from \in Nat, NEW p \in Packet(s),
           Tiles(s, f, from, p.pos)
    PROVE  /\ f \o <<p>> \in Seq(Packet(s))
           /\ Tiles(s, f \o <<p>>, from, p.pos + s)
           /\ Listed(f \o <<p>>) = Listed(f) \cup {p}
           /\ IdsOf(f \o <<p>>) = Append(IdsOf(f), p.id)
<1>1. p.pos \in Nat /\ p.pos + s \in Nat /\ p.id \in Nat
  BY DEF Packet
<1>2. Tiles(s, <<p>>, p.pos, p.pos + s) /\ Listed(<<p>>) = {p} /\ IdsOf(<<p>>) = <<p.id>>
  BY TilesOne
<1>3. /\ Tiles(s, f \o <<p>>, from, p.pos + s)
      /\ Listed(f \o <<p>>) = Listed(f) \cup Listed(<<p>>)
      /\ IdsOf(f \o <<p>>) = IdsOf(f) \o IdsOf(<<p>>)
  BY <1>1, <1>2, TilesConcat
<1>4. IdsOf(f) \in Seq(Nat)
  BY IdsType DEF Tiles
<1>5. IdsOf(f) \o <<p.id>> = Append(IdsOf(f), p.id)
  BY <1>1, <1>4
<1> QED BY <1>2, <1>3, <1>5 DEF Tiles

\* The packets of a list with a packet behind it.
LEMMA ListedAppend ==
    ASSUME NEW s, NEW f \in Seq(Packet(s)), NEW p \in Packet(s)
    PROVE  Listed(f \o <<p>>) = Listed(f) \cup {p}
<1> DEFINE h == f \o <<p>>
           n == Len(f)
<1>1. n \in Nat /\ Len(h) = n + 1 /\ h[n + 1] = p /\ \A k \in 1 .. n : h[k] = f[k]
  OBVIOUS
<1> HIDE DEF h, n
<1>2. ASSUME NEW k \in 1 .. n + 1 PROVE h[k] \in Listed(f) \cup {p}
  <2>1. CASE k = n + 1
    BY <1>1, <2>1
  <2>2. CASE k \in 1 .. n
    BY <1>1, <2>2 DEF Listed, n
  <2> QED BY <1>1, <2>1, <2>2
<1>3. p \in Listed(h)
  <2>1. n + 1 \in 1 .. Len(h)
    BY <1>1
  <2> QED BY <1>1, <2>1 DEF Listed
<1>4. ASSUME NEW k \in 1 .. n PROVE f[k] \in Listed(h)
  <2>1. k \in 1 .. Len(h) /\ h[k] = f[k]
    BY <1>1
  <2> QED BY <2>1 DEF Listed
<1>5. Listed(h) \subseteq Listed(f) \cup {p}
  BY <1>1, <1>2 DEF Listed
<1>6. Listed(f) \subseteq Listed(h)
  BY <1>4 DEF Listed, n
<1>7. Listed(h) = Listed(f) \cup {p}
  BY <1>3, <1>5, <1>6
<1> QED BY <1>7 DEF h

\* An insertion into the buffer as it is adds the packet behind the others.
LEMMA InPlaceAppends ==
    ASSUME NEW s \in Nat \ {0}, RingInv(s), InsertInPlace(s),
           NEW f \in Seq(Packet(s)), NEW g \in Seq(Packet(s)), Layout(s, f, g)
    PROVE  \E f1, g1 \in Seq(Packet(s)) :
             /\ NextLayout(s, f1, g1)
             /\ IdsOf(f1) \o IdsOf(g1) = Append(IdsOf(f) \o IdsOf(g), posted + 1)
<1>0. /\ insertPos \in Nat /\ terminalPos \in Nat /\ queryPos \in Nat /\ dataSize \in Nat
      /\ posted \in Nat /\ bufferSize \in Nat /\ s \in Nat /\ s > 0
      /\ Linear \/ Wrapped(s)
  BY DEF RingInv, Positions
<1>p. \A p \in buffer : /\ p \in Packet(s)
                        /\ p.pos >= insertPos \/ p.pos + s <= insertPos
                        /\ p.pos >= terminalPos \/ p.pos + s <= terminalPos
  BY DEF RingInv, NoStraddle, Packet
<1>t. /\ Tiles(s, f, queryPos, terminalPos) /\ Within(buffer, queryPos, terminalPos) = Listed(f)
      /\ IF dataSize > terminalPos - queryPos
           THEN Tiles(s, g, 0, insertPos) /\ Within(buffer, 0, insertPos) = Listed(g) ELSE g = <<>>
  BY DEF Layout, Lays
<1>i. IdsOf(f) \in Seq(Nat) /\ IdsOf(g) \in Seq(Nat) /\ IdsOf(<<>>) = <<>>
  BY IdsType, TilesNone
<1>n. posted + 1 \in Nat
  BY <1>0
<1>1. CASE Restart(s) /\ Store(buffer, 0, terminalPos, s)
  <2> DEFINE p == [pos |-> 0, size |-> s, id |-> posted + 1]
  <2>1. /\ Linear /\ queryPos >= s /\ terminalPos + s > bufferSize /\ insertPos = terminalPos
        /\ dataSize = terminalPos - queryPos /\ queryPos <= terminalPos
    BY <1>1, <1>0 DEF Restart, Linear, Wrapped, InsertInPlace
  <2>2. /\ insertPos' = s /\ terminalPos' = terminalPos /\ dataSize' = dataSize + s
        /\ queryPos' = queryPos /\ buffer' = Write(buffer, 0, s)
    BY <1>1, <1>0, <2>1 DEF Store, InsertInPlace, Larger
  <2>3. p \in Packet(s) /\ p.pos = 0 /\ p.id = posted + 1
    BY <1>0 DEF Packet
  <2>4. g = <<>>
    BY <1>0, <1>t, <2>1
  <2>5. Within(buffer', queryPos, terminalPos) = Listed(f)
    BY <1>0, <1>p, <1>t, <2>1, <2>2, WriteWithin
  <2>6. Within(buffer', 0, 0 + s) = Within(buffer, 0, 0) \cup {p}
    <3>1. \A q \in buffer : q \in Packet(s) /\ (q.pos >= 0 \/ q.pos + s <= 0)
      BY <1>p DEF Packet
    <3> QED BY <1>0, <2>2, <3>1, WriteWithin
  <2>7. Within(buffer, 0, 0) = {}
    <3>1. \A q \in buffer : q.pos \in Nat
      BY <1>p DEF Packet
    <3> QED BY <3>1 DEF Within
  <2> HIDE DEF p
  <2>8. /\ Tiles(s, <<p>>, 0, s) /\ Listed(<<p>>) = {p} /\ IdsOf(<<p>>) = <<posted + 1>>
        /\ <<p>> \in Seq(Packet(s)) /\ 0 + s = s
    <3>1. /\ Tiles(s, <<p>>, p.pos, p.pos + s) /\ Listed(<<p>>) = {p} /\ IdsOf(<<p>>) = <<p.id>>
      BY <2>3, TilesOne
    <3>2. p.pos + s = s /\ 0 + s = s
      BY <1>0, <2>3
    <3> QED BY <2>3, <3>1, <3>2
  <2>9. NextLayout(s, f, <<p>>)
    <3>1. Within(buffer', 0, s) = Listed(<<p>>)
      BY <1>0, <2>6, <2>7, <2>8
    <3>2. dataSize' > terminalPos' - queryPos'
      BY <1>0, <2>1, <2>2
    <3> QED BY <1>t, <2>2, <2>5, <2>8, <3>1, <3>2 DEF NextLayout, Lays
  <2>10. IdsOf(f) \o IdsOf(<<p>>) = Append(IdsOf(f) \o IdsOf(g), posted + 1)
    BY <1>n, <1>i, <2>4, <2>8, AppendFacts
  <2> QED BY <2>8, <2>9, <2>10
<1>2. CASE Straight(s) /\ Store(buffer, insertPos, terminalPos, s)
  <2> DEFINE p == [pos |-> insertPos, size |-> s, id |-> posted + 1]
  <2>1. /\ dataSize + s <= bufferSize
        /\ insertPos = terminalPos => insertPos + s <= bufferSize
        /\ insertPos < terminalPos => insertPos + s <= queryPos
    BY <1>2, <1>0 DEF Straight, InsertInPlace
  <2>2. /\ insertPos' = insertPos + s
        /\ terminalPos' = Larger(terminalPos, insertPos + s)
        /\ dataSize' = dataSize + s
        /\ queryPos' = queryPos /\ buffer' = Write(buffer, insertPos, s)
    BY <1>2, <1>0 DEF Store, InsertInPlace
  <2>3. p \in Packet(s) /\ p.pos = insertPos /\ p.id = posted + 1
    BY <1>0 DEF Packet
  <2>4. CASE Linear
    <3>1. /\ insertPos = terminalPos /\ queryPos <= terminalPos /\ dataSize = terminalPos - queryPos
          /\ terminalPos' = terminalPos + s /\ g = <<>>
      BY <1>0, <1>t, <2>2, <2>4 DEF Linear, Larger
    <3>2. Within(buffer', queryPos, terminalPos + s) = Listed(f) \cup {p}
      BY <1>0, <1>p, <1>t, <2>2, <3>1, WriteWithin
    <3> HIDE DEF p
    <3>3. /\ f \o <<p>> \in Seq(Packet(s)) /\ Tiles(s, f \o <<p>>, queryPos, terminalPos + s)
          /\ Listed(f \o <<p>>) = Listed(f) \cup {p}
          /\ IdsOf(f \o <<p>>) = Append(IdsOf(f), posted + 1)
      BY <1>0, <1>t, <2>3, <3>1, TilesAppend
    <3>4. NextLayout(s, f \o <<p>>, <<>>)
      <4>1. ~(dataSize' > terminalPos' - queryPos')
        BY <1>0, <2>2, <3>1
      <4> QED BY <2>2, <3>1, <3>2, <3>3, <4>1 DEF NextLayout, Lays
    <3>5. IdsOf(f \o <<p>>) \o IdsOf(<<>>) = Append(IdsOf(f) \o IdsOf(g), posted + 1)
      BY <1>n, <1>i, <3>1, <3>3, AppendFacts
    <3>6. <<>> \in Seq(Packet(s))
      OBVIOUS
    <3> QED BY <3>3, <3>4, <3>5, <3>6
  <2>5. CASE Wrapped(s)
    <3>1. /\ insertPos <= queryPos /\ queryPos <= terminalPos /\ 0 < insertPos
          /\ dataSize = (terminalPos - queryPos) + insertPos
          /\ terminalPos + s > bufferSize
      BY <2>5 DEF Wrapped
    <3>2. insertPos + s <= queryPos /\ terminalPos' = terminalPos
      BY <1>0, <2>1, <2>2, <3>1 DEF Larger
    <3>3. Tiles(s, g, 0, insertPos) /\ Within(buffer, 0, insertPos) = Listed(g)
      BY <1>0, <1>t, <3>1
    <3>4. Within(buffer', queryPos, terminalPos) = Listed(f)
      BY <1>0, <1>p, <1>t, <2>2, <3>2, WriteWithin
    <3>5. Within(buffer', 0, insertPos + s) = Listed(g) \cup {p}
      BY <1>0, <1>p, <2>2, <3>3, WriteWithin
    <3> HIDE DEF p
    <3>6. /\ g \o <<p>> \in Seq(Packet(s)) /\ Tiles(s, g \o <<p>>, 0, insertPos + s)
          /\ Listed(g \o <<p>>) = Listed(g) \cup {p}
          /\ IdsOf(g \o <<p>>) = Append(IdsOf(g), posted + 1)
      BY <1>0, <2>3, <3>3, TilesAppend
    <3>7. NextLayout(s, f, g \o <<p>>)
      <4>1. dataSize' > terminalPos' - queryPos'
        BY <1>0, <2>2, <3>1, <3>2
      <4> QED BY <1>t, <2>2, <3>2, <3>4, <3>5, <3>6, <4>1 DEF NextLayout, Lays
    <3>8. IdsOf(f) \o IdsOf(g \o <<p>>) = Append(IdsOf(f) \o IdsOf(g), posted + 1)
      <4>1. IdsOf(f) \o Append(IdsOf(g), posted + 1) = Append(IdsOf(f) \o IdsOf(g), posted + 1)
        BY <1>n, <1>i, AppendFacts
      <4> QED BY <3>6, <4>1, Zenon
    <3> QED BY <3>6, <3>7, <3>8
  <2> QED BY <1>0, <2>4, <2>5
<1> QED BY <1>1, <1>2 DEF InsertInPlace

\* An insertion into a larger buffer keeps the order, and adds the packet.
LEMMA GrownAppends ==
    ASSUME NEW s \in Nat \ {0}, RingInv(s), InsertGrown(s),
           NEW f \in Seq(Packet(s)), NEW g \in Seq(Packet(s)), Layout(s, f, g)
    PROVE  \E f1, g1 \in Seq(Packet(s)) :
             /\ NextLayout(s, f1, g1)
             /\ IdsOf(f1) \o IdsOf(g1) = Append(IdsOf(f) \o IdsOf(g), posted + 1)
<1> DEFINE p == [pos |-> dataSize, size |-> s, id |-> posted + 1]
           f2 == Moves(f, -queryPos)
           g2 == Moves(g, PartOne)
           h == f2 \o g2
<1>0. /\ insertPos \in Nat /\ terminalPos \in Nat /\ queryPos \in Nat /\ dataSize \in Nat
      /\ posted \in Nat /\ s \in Nat /\ s > 0 /\ posted + 1 \in Nat
      /\ Linear \/ Wrapped(s)
  BY DEF RingInv, Positions
<1>1. /\ queryPos <= terminalPos /\ PartOne \in Nat /\ PartOne = terminalPos - queryPos
      /\ dataSize > PartOne => dataSize = PartOne + insertPos
      /\ ~(dataSize > PartOne) => dataSize = PartOne
  BY <1>0 DEF Linear, Wrapped, PartOne
<1>2. /\ terminalPos' = dataSize + s /\ dataSize' = dataSize + s /\ queryPos' = 0
      /\ buffer' = Write(Moved, dataSize, s)
  BY <1>0 DEF InsertGrown, Store, Larger
<1>t. /\ Tiles(s, f, queryPos, terminalPos) /\ Within(buffer, queryPos, terminalPos) = Listed(f)
      /\ dataSize > PartOne => Tiles(s, g, 0, insertPos) /\ Within(buffer, 0, insertPos) = Listed(g)
      /\ ~(dataSize > PartOne) => g = <<>>
  BY <1>1 DEF Layout, Lays
<1>i. IdsOf(f) \in Seq(Nat) /\ IdsOf(g) \in Seq(Nat) /\ IdsOf(<<>>) = <<>>
  BY IdsType, TilesNone
<1>3. /\ Tiles(s, f2, 0, PartOne) /\ IdsOf(f2) = IdsOf(f)
      /\ Listed(f2) = Shift(Within(buffer, queryPos, terminalPos), -queryPos)
  <2>1. -queryPos \in Int /\ queryPos + (-queryPos) = 0 /\ terminalPos + (-queryPos) = PartOne
    BY <1>0, <1>1
  <2>2. /\ Tiles(s, f2, 0, PartOne)
        /\ Listed(f2) = Shift(Listed(f), -queryPos) /\ IdsOf(f2) = IdsOf(f)
    <3>1. PICK n \in Int, a \in Nat, b \in Nat : n = -queryPos /\ a = 0 /\ b = PartOne
      <4>1. 0 \in Nat
        OBVIOUS
      <4> QED BY <1>1, <2>1, <4>1, Zenon
    <3>2. Tiles(s, f, queryPos, terminalPos) /\ a = queryPos + n /\ b = terminalPos + n
      BY <1>t, <2>1, <3>1
    <3>3. /\ Tiles(s, Moves(f, n), a, b)
          /\ Listed(Moves(f, n)) = Shift(Listed(f), n)
      BY <1>0, <3>2, TilesMove
    <3>4. IdsOf(Moves(f, n)) = IdsOf(f)
      BY MovesIds
    <3> QED BY <3>1, <3>3, <3>4
  <2> QED BY <1>t, <2>1, <2>2
<1>4. /\ Tiles(s, g2, PartOne, dataSize) /\ IdsOf(g2) = IdsOf(g)
      /\ Moved = Listed(f2) \cup Listed(g2)
  <2>1. CASE dataSize > PartOne
    <3>1. 0 + PartOne = PartOne /\ insertPos + PartOne = dataSize /\ PartOne \in Int /\ 0 + PartOne \in Nat
      BY <1>0, <1>1, <2>1
    <3>2. /\ Tiles(s, g2, PartOne, dataSize)
          /\ Listed(g2) = Shift(Listed(g), PartOne) /\ IdsOf(g2) = IdsOf(g)
      <4>1. PICK n \in Int, a \in Nat, b \in Nat, z \in Nat : n = PartOne /\ a = PartOne /\ b = dataSize /\ z = 0
        BY <1>0, <3>1
      <4>2. Tiles(s, g, z, insertPos) /\ a = z + n /\ b = insertPos + n
        BY <1>0, <1>t, <2>1, <3>1, <4>1
      <4>3. /\ Tiles(s, Moves(g, n), a, b)
            /\ Listed(Moves(g, n)) = Shift(Listed(g), n)
        BY <1>0, <4>2, TilesMove
      <4>4. IdsOf(Moves(g, n)) = IdsOf(g)
        BY MovesIds
      <4> QED BY <4>1, <4>3, <4>4
    <3>3. Moved = Listed(f2) \cup Shift(Within(buffer, 0, insertPos), PartOne)
      BY <1>3, <2>1 DEF Moved
    <3> QED BY <1>t, <2>1, <3>1, <3>2, <3>3
  <2>2. CASE ~(dataSize > PartOne)
    <3>1. g2 = <<>> /\ g = <<>> /\ dataSize = PartOne
      BY <1>1, <1>t, <2>2 DEF Moves
    <3>2. Moved = Listed(f2)
      BY <1>3, <2>2 DEF Moved
    <3> HIDE DEF g2, f2
    <3> QED BY <3>1, <3>2, TilesNone
  <2> QED BY <2>1, <2>2
<1> HIDE DEF f2, g2
<1>5. /\ Tiles(s, h, 0, dataSize) /\ Listed(h) = Moved /\ IdsOf(h) = IdsOf(f) \o IdsOf(g)
  BY <1>0, <1>1, <1>3, <1>4, TilesConcat
<1> HIDE DEF h
<1>6. Within(Moved, 0, dataSize) = Moved /\ \A q \in Moved : q \in Packet(s) /\ q.pos + s <= dataSize
  <2>1. \A q \in Moved : q \in Packet(s) /\ q.pos + s <= dataSize
    BY MovedFacts DEF Packet
  <2>2. ASSUME NEW q \in Moved PROVE 0 <= q.pos /\ q.pos < dataSize
    <3>1. q.pos \in Nat /\ q.pos + s <= dataSize
      BY <2>1 DEF Packet
    <3> QED BY <1>0, <3>1
  <2>3. \A q \in Within(Moved, 0, dataSize) : q \in Moved
    BY DEF Within
  <2>4. \A q \in Moved : q \in Within(Moved, 0, dataSize)
    BY <2>2 DEF Within
  <2> QED BY <2>1, <2>3, <2>4
<1>7. Within(buffer', 0, dataSize + s) = Listed(h) \cup {p}
  <2>1. Within(Write(Moved, dataSize, s), 0, dataSize + s) = Within(Moved, 0, dataSize) \cup {p}
    BY <1>0, <1>6, WriteWithin
  <2> QED BY <1>2, <1>5, <1>6, <2>1
<1>8. p \in Packet(s) /\ p.pos = dataSize /\ p.id = posted + 1
  BY <1>0 DEF Packet
<1> HIDE DEF p
<1>9. /\ h \o <<p>> \in Seq(Packet(s)) /\ Tiles(s, h \o <<p>>, 0, dataSize + s)
      /\ Listed(h \o <<p>>) = Listed(h) \cup {p}
      /\ IdsOf(h \o <<p>>) = Append(IdsOf(f) \o IdsOf(g), posted + 1)
  <2>1. Tiles(s, h, 0, dataSize)
    BY <1>5
  <2>2. /\ h \o <<p>> \in Seq(Packet(s)) /\ Tiles(s, h \o <<p>>, 0, dataSize + s)
        /\ Listed(h \o <<p>>) = Listed(h) \cup {p}
        /\ IdsOf(h \o <<p>>) = Append(IdsOf(h), posted + 1)
    <3>1. Tiles(s, h, 0, p.pos) /\ 0 \in Nat
      BY <1>8, <2>1
    <3>2. h \o <<p>> \in Seq(Packet(s)) /\ Tiles(s, h \o <<p>>, 0, p.pos + s)
      BY <1>8, <3>1, TilesAppend
    <3>3. Listed(h \o <<p>>) = Listed(h) \cup {p}
      <4>1. h \in Seq(Packet(s))
        BY <2>1 DEF Tiles
      <4> QED BY <1>8, <4>1, ListedAppend
    <3>4. IdsOf(h \o <<p>>) = Append(IdsOf(h), p.id)
      BY <1>8, <3>1, TilesAppend, ZenonT(60)
    <3> QED BY <1>8, <3>2, <3>3, <3>4, ZenonT(60)
  <2>3. Append(IdsOf(h), posted + 1) = Append(IdsOf(f) \o IdsOf(g), posted + 1)
    BY <1>5, Zenon
  <2> QED BY <2>2, <2>3, Zenon
<1>10. NextLayout(s, h \o <<p>>, <<>>)
  <2>1. ~(dataSize' > terminalPos' - queryPos')
    BY <1>0, <1>2
  <2> QED BY <1>2, <1>7, <1>9, <2>1 DEF NextLayout, Lays
<1>11. IdsOf(h \o <<p>>) \o IdsOf(<<>>) = Append(IdsOf(f) \o IdsOf(g), posted + 1)
  <2>1. IdsOf(h \o <<p>>) \in Seq(Nat)
    BY <1>9, IdsType
  <2>2. IdsOf(h \o <<p>>) \o <<>> = IdsOf(h \o <<p>>)
    BY <2>1, ConcatEmptySeq
  <2> QED BY <1>i, <1>9, <2>2, Zenon
<1>12. <<>> \in Seq(Packet(s))
  OBVIOUS
<1> QED BY <1>9, <1>10, <1>11, <1>12

\* DistillData hands out the first packet.
LEMMA DistillTakesFirst ==
    ASSUME NEW s \in Nat \ {0}, RingInv(s), DistillData,
           NEW f \in Seq(Packet(s)), NEW g \in Seq(Packet(s)), Layout(s, f, g)
    PROVE  /\ IdsOf(f) \o IdsOf(g) # <<>>
           /\ out' = <<Head(IdsOf(f) \o IdsOf(g))>>
           /\ \E f1, g1 \in Seq(Packet(s)) :
                /\ NextLayout(s, f1, g1)
                /\ IdsOf(f1) \o IdsOf(g1) = Tail(IdsOf(f) \o IdsOf(g))
<1>0. /\ insertPos \in Nat /\ terminalPos \in Nat /\ queryPos \in Nat /\ dataSize \in Nat
      /\ s \in Nat /\ s > 0
      /\ Linear \/ Wrapped(s)
  BY DEF RingInv, Positions
<1>t. /\ Tiles(s, f, queryPos, terminalPos) /\ Within(buffer, queryPos, terminalPos) = Listed(f)
      /\ IF dataSize > terminalPos - queryPos
           THEN Tiles(s, g, 0, insertPos) /\ Within(buffer, 0, insertPos) = Listed(g) ELSE g = <<>>
  BY DEF Layout, Lays
<1>i. IdsOf(f) \in Seq(Nat) /\ IdsOf(g) \in Seq(Nat) /\ IdsOf(<<>>) = <<>>
  BY IdsType, TilesNone
<1>1. PICK p \in buffer : /\ p.pos = ReadPos /\ out' = <<p.id>>
                          /\ dataSize' = dataSize - p.size
                          /\ queryPos' = ReadPos + p.size
  BY DEF DistillData
<1>2. /\ p.size = s /\ p.pos \in Nat
      /\ \A r \in buffer : r.pos \in Nat
  BY DEF RingInv, NoStraddle
<1>3. /\ dataSize > 0 /\ buffer' = buffer /\ insertPos' = insertPos
      /\ terminalPos' = IF Turned THEN insertPos ELSE terminalPos
  BY DEF DistillData
<1>s. \A r, a, b : r \in Within(buffer, a, b) <=> (r \in buffer /\ a <= r.pos /\ r.pos < b)
  BY DEF Within
<1>n. <<>> \in Seq(Packet(s))
  OBVIOUS
<1>4. CASE Turned
  <2>1. /\ queryPos = terminalPos /\ 0 < insertPos /\ dataSize = insertPos /\ p.pos = 0
        /\ queryPos' = s /\ dataSize' = insertPos - s /\ terminalPos' = insertPos
    BY <1>0, <1>1, <1>2, <1>3, <1>4 DEF Linear, Wrapped, ReadPos, Turned
  <2>2. Tiles(s, g, 0, insertPos) /\ Within(buffer, 0, insertPos) = Listed(g)
    BY <1>0, <1>t, <2>1
  <2>3. g # <<>> /\ f = <<>>
    <3>1. g # <<>>
      BY <2>1, <2>2 DEF Tiles
    <3>2. CASE f # <<>>
      <4>1. 1 \in 1 .. Len(f)
        BY <3>2
      <4>2. f[1].pos \in Nat /\ queryPos <= f[1].pos /\ f[1].pos + s <= terminalPos
        BY <1>0, <1>t, <4>1, TilesRange
      <4> QED BY <1>0, <2>1, <4>2
    <3> QED BY <3>1, <3>2
  <2>4. /\ Tiles(s, Tail(g), 0 + s, insertPos)
        /\ Listed(Tail(g)) = {r \in Listed(g) : r.pos >= 0 + s}
        /\ \A r \in Listed(g) : r.pos = 0 => r = g[1]
        /\ IdsOf(g) # <<>> /\ Head(IdsOf(g)) = g[1].id /\ Tail(IdsOf(g)) = IdsOf(Tail(g))
    BY <1>0, <2>2, <2>3, TilesTail
  <2>5. p = g[1]
    <3>1. p \in Within(buffer, 0, insertPos)
      BY <1>s, <2>1
    <3> QED BY <2>1, <2>2, <2>4, <3>1
  <2>6. Within(buffer, s, insertPos) = Listed(Tail(g))
    <3>1. 0 + s = s
      BY <1>0
    <3>2. ASSUME NEW r PROVE r \in Within(buffer, s, insertPos) <=> (r \in Within(buffer, 0, insertPos) /\ r.pos >= s)
      <4>1. r \in buffer => r.pos \in Nat
        BY <1>2
      <4> QED BY <1>0, <1>s, <4>1
    <3> QED BY <2>2, <2>4, <3>1, <3>2
  <2>7. NextLayout(s, Tail(g), <<>>)
    <3>1. ~(dataSize' > terminalPos' - queryPos') /\ 0 + s = s
      BY <1>0, <2>1
    <3> QED BY <1>3, <2>1, <2>4, <2>6, <3>1 DEF NextLayout, Lays
  <2>8. IdsOf(f) \o IdsOf(g) = IdsOf(g)
    <3>1. <<>> \o IdsOf(g) = IdsOf(g)
      BY <1>i, ConcatEmptySeq
    <3> QED BY <1>i, <2>3, <3>1, Zenon
  <2>9. Tail(g) \in Seq(Packet(s))
    BY <2>4 DEF Tiles
  <2>10. IdsOf(Tail(g)) \o IdsOf(<<>>) = Tail(IdsOf(f) \o IdsOf(g))
    <3>1. IdsOf(Tail(g)) \in Seq(Nat)
      BY <2>9, IdsType
    <3>2. IdsOf(Tail(g)) \o <<>> = IdsOf(Tail(g))
      BY <3>1, ConcatEmptySeq
    <3> QED BY <1>i, <2>4, <2>8, <3>2, Zenon
  <2>11. out' = <<Head(IdsOf(f) \o IdsOf(g))>>
    BY <1>1, <2>4, <2>5, <2>8, Zenon
  <2>12. IdsOf(f) \o IdsOf(g) # <<>>
    BY <2>4, <2>8, Zenon
  <2> QED BY <1>n, <2>7, <2>9, <2>10, <2>11, <2>12
<1>5. CASE ~Turned
  <2>1. /\ queryPos # terminalPos /\ queryPos <= terminalPos /\ p.pos = queryPos
        /\ queryPos' = queryPos + s /\ dataSize' = dataSize - s /\ terminalPos' = terminalPos
    BY <1>0, <1>1, <1>2, <1>3, <1>5 DEF Linear, Wrapped, ReadPos, Turned
  <2>2. f # <<>>
    BY <1>t, <2>1 DEF Tiles
  <2>3. /\ Tiles(s, Tail(f), queryPos + s, terminalPos)
        /\ Listed(Tail(f)) = {r \in Listed(f) : r.pos >= queryPos + s}
        /\ \A r \in Listed(f) : r.pos = queryPos => r = f[1]
        /\ IdsOf(f) # <<>> /\ Head(IdsOf(f)) = f[1].id /\ Tail(IdsOf(f)) = IdsOf(Tail(f))
    BY <1>0, <1>t, <2>2, TilesTail
  <2>4. p = f[1]
    <3>1. p \in Within(buffer, queryPos, terminalPos)
      BY <1>0, <1>s, <2>1
    <3> QED BY <1>t, <2>1, <2>3, <3>1
  <2>5. Within(buffer, queryPos + s, terminalPos) = Listed(Tail(f))
    <3>1. ASSUME NEW r
          PROVE  r \in Within(buffer, queryPos + s, terminalPos)
                   <=> (r \in Within(buffer, queryPos, terminalPos) /\ r.pos >= queryPos + s)
      <4>1. r \in buffer => r.pos \in Nat
        BY <1>2
      <4> QED BY <1>0, <1>s, <4>1
    <3> QED BY <1>t, <2>3, <3>1
  <2>6. NextLayout(s, Tail(f), g)
    <3>1. dataSize' > terminalPos' - queryPos' <=> dataSize > terminalPos - queryPos
      BY <1>0, <2>1
    <3> QED BY <1>3, <1>t, <2>1, <2>3, <2>5, <3>1 DEF NextLayout, Lays
  <2>7. Tail(f) \in Seq(Packet(s))
    BY <2>3 DEF Tiles
  <2>8. /\ IdsOf(f) \o IdsOf(g) # <<>> /\ Head(IdsOf(f) \o IdsOf(g)) = Head(IdsOf(f))
        /\ Tail(IdsOf(f) \o IdsOf(g)) = Tail(IdsOf(f)) \o IdsOf(g)
    <3>1. ASSUME NEW F \in Seq(Nat), NEW G \in Seq(Nat), F # <<>>
          PROVE  F \o G # <<>> /\ Head(F \o G) = Head(F) /\ Tail(F \o G) = Tail(F) \o G
      BY <3>1
    <3> QED BY <1>i, <2>3, <3>1
  <2>9. IdsOf(Tail(f)) \o IdsOf(g) = Tail(IdsOf(f) \o IdsOf(g))
    BY <2>3, <2>8, Zenon
  <2>10. out' = <<Head(IdsOf(f) \o IdsOf(g))>>
    BY <1>1, <2>3, <2>4, <2>8, Zenon
  <2> QED BY <2>6, <2>7, <2>8, <2>9, <2>10
<1> QED BY <1>4, <1>5

\* The live packets are listed, in order, by the two parts.
Listing(s) == \E f, g \in Seq(Packet(s)) : Layout(s, f, g)

\* Every step is a step of the first-in first-out queue, or none.
LEMMA FifoStep ==
    ASSUME NEW s \in Nat \ {0}, Sizes = {s}, RingInv(s), Listing(s), Next
    PROVE  Listing(s)' /\ FQ!Next
<1>0. PICK f \in Seq(Packet(s)), g \in Seq(Packet(s)) : Layout(s, f, g)
  BY DEF Listing
<1>1. Contents = IdsOf(f) \o IdsOf(g)
  <2>1. Reading(buffer, queryPos, terminalPos, dataSize, insertPos) = IdsOf(f) \o IdsOf(g)
    BY <1>0, ContentsListed DEF Layout
  <2> QED BY <2>1, Zenon DEF Contents, PartOne, Reading
<1>2. ASSUME NEW f1 \in Seq(Packet(s)), NEW g1 \in Seq(Packet(s)), NextLayout(s, f1, g1)
      PROVE  Listing(s)' /\ Contents' = IdsOf(f1) \o IdsOf(g1)
  <2>1. Lays(s, f1, g1, buffer', queryPos', terminalPos', dataSize', insertPos')
    BY <1>2 DEF NextLayout
  <2>2. Reading(buffer', queryPos', terminalPos', dataSize', insertPos') = IdsOf(f1) \o IdsOf(g1)
    BY <2>1, ContentsListed
  <2>3. Contents' = IdsOf(f1) \o IdsOf(g1)
    BY <2>2, Zenon DEF Contents, PartOne, Reading
  <2>4. Listing(s)'
    BY <2>1, Zenon DEF Listing, Layout
  <2> QED BY <2>3, <2>4
<1>3. CASE InsertInPlace(s) \/ InsertGrown(s)
  <2>1. PICK f1 \in Seq(Packet(s)), g1 \in Seq(Packet(s)) :
          /\ NextLayout(s, f1, g1)
          /\ IdsOf(f1) \o IdsOf(g1) = Append(IdsOf(f) \o IdsOf(g), posted + 1)
    <3>1. CASE InsertInPlace(s)
      BY <1>0, <3>1, InPlaceAppends
    <3>2. CASE InsertGrown(s)
      BY <1>0, <3>2, GrownAppends
    <3> QED BY <1>3, <3>1, <3>2
  <2>2. posted + 1 \in 1 .. MaxPackets /\ UNCHANGED out
    BY <1>3, BufferAssumption DEF InsertInPlace, InsertGrown, Store, RingInv, Positions
  <2>3. Contents' = Append(Contents, posted + 1)
    BY <1>1, <1>2, <2>1, Zenon
  <2>4. FQ!InsertData
    BY <2>2, <2>3, Zenon DEF FQ!InsertData
  <2> QED BY <1>2, <2>1, <2>4 DEF FQ!Next
<1>4. CASE DistillData
  <2>1. /\ IdsOf(f) \o IdsOf(g) # <<>> /\ out' = <<Head(IdsOf(f) \o IdsOf(g))>>
        /\ \E f1, g1 \in Seq(Packet(s)) :
             /\ NextLayout(s, f1, g1)
             /\ IdsOf(f1) \o IdsOf(g1) = Tail(IdsOf(f) \o IdsOf(g))
    BY <1>0, <1>4, DistillTakesFirst
  <2>2. PICK f1 \in Seq(Packet(s)), g1 \in Seq(Packet(s)) :
          NextLayout(s, f1, g1) /\ IdsOf(f1) \o IdsOf(g1) = Tail(IdsOf(f) \o IdsOf(g))
    BY <2>1
  <2>3. Listing(s)' /\ Contents' = IdsOf(f1) \o IdsOf(g1)
    BY <1>2, <2>2
  <2>4. FQ!DistillData
    BY <1>1, <2>1, <2>2, <2>3, Zenon DEF FQ!DistillData
  <2> QED BY <2>3, <2>4 DEF FQ!Next
<1>5. CASE RemoveData
  <2>1. /\ insertPos' = 0 /\ terminalPos' = 0 /\ queryPos' = 0 /\ dataSize' = 0
        /\ buffer' = buffer /\ out' = out
    BY <1>5 DEF RemoveData
  <2>2. Within(buffer, 0, 0) = {}
    <3>1. \A q \in buffer : q.pos \in Nat
      BY DEF RingInv, NoStraddle
    <3> QED BY <3>1 DEF Within
  <2>3. <<>> \in Seq(Packet(s)) /\ NextLayout(s, <<>>, <<>>)
    <3>1. Tiles(s, <<>>, 0, 0) /\ Listed(<<>>) = {}
      BY TilesNone
    <3>2. ~(0 > 0 - 0) /\ <<>> \in Seq(Packet(s))
      OBVIOUS
    <3> QED BY <2>1, <2>2, <3>1, <3>2 DEF NextLayout, Lays
  <2>4. Listing(s)' /\ Contents' = IdsOf(<<>>) \o IdsOf(<<>>)
    BY <1>2, <2>3
  <2>5. Contents' = <<>>
    <3>1. IdsOf(<<>>) = <<>>
      BY TilesNone
    <3>2. <<>> \o <<>> = <<>>
      OBVIOUS
    <3> QED BY <2>4, <3>1, <3>2, Zenon
  <2> QED BY <2>1, <2>4, <2>5 DEF FQ!Next, FQ!RemoveData
<1> QED BY <1>3, <1>4, <1>5 DEF Next

\* With packets of one size the ring buffer implements the first-in first-out
\* queue: through wrapping and growing no packet is lost, doubled or overtaken.
THEOREM FifoTheorem ==
    ASSUME NEW s \in Nat \ {0}, Sizes = {s}
    PROVE  Spec => FifoOrder
<1>1. Init => FQ!Init /\ Listing(s)
  <2> SUFFICES ASSUME Init PROVE FQ!Init /\ Listing(s)
    OBVIOUS
  <2>1. <<>> \in Seq(Packet(s)) /\ Within({}, 0, 0) = {}
    BY DEF Within
  <2>2. Layout(s, <<>>, <<>>)
    <3>1. Tiles(s, <<>>, 0, 0) /\ Listed(<<>>) = {}
      BY TilesNone
    <3>2. ~(0 > 0 - 0)
      OBVIOUS
    <3> QED BY <2>1, <3>1, <3>2 DEF Init, Layout, Lays
  <2>3. Contents = IdsOf(<<>>) \o IdsOf(<<>>)
    <3>1. ASSUME NEW f \in Seq(Packet(s)), NEW g \in Seq(Packet(s)), Layout(s, f, g)
          PROVE  Contents = IdsOf(f) \o IdsOf(g)
      <4>1. Reading(buffer, queryPos, terminalPos, dataSize, insertPos) = IdsOf(f) \o IdsOf(g)
        BY <3>1, ContentsListed DEF Layout
      <4> QED BY <4>1, Zenon DEF Contents, PartOne, Reading
    <3> QED BY <2>1, <2>2, <3>1
  <2>4. IdsOf(<<>>) = <<>> /\ <<>> \o <<>> = <<>>
    BY TilesNone
  <2>5. Contents = <<>>
    BY <2>3, <2>4, Zenon
  <2> QED BY <2>1, <2>2, <2>5 DEF Init, FQ!Init, Listing
<1>2. RingInv(s) /\ Listing(s) /\ [Next]_vars => Listing(s)' /\ [FQ!Next]_<<Contents, out>>
  <2> SUFFICES ASSUME RingInv(s), Listing(s), [Next]_vars
               PROVE  Listing(s)' /\ [FQ!Next]_<<Contents, out>>
    OBVIOUS
  <2>1. CASE Next
    BY <2>1, FifoStep
  <2>2. CASE UNCHANGED vars
    BY <2>2 DEF vars, posVars, Listing, Layout, Lays, Contents, PartOne
  <2> QED BY <2>1, <2>2
<1>3. Spec => []RingInv(s)
  BY RingTheorem
<1> QED BY <1>1, <1>2, <1>3, PTL DEF Spec, FifoOrder, FQ!Spec
=============================================================================
