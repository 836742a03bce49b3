------------------------ MODULE TerminalStream_proofs ------------------------
(***************************************************************************)
(* Proofs about TerminalStream, for any number of browsers, any cap, any   *)
(* length of the output and any pool: the scrollback is a gapless prefix   *)
(* of the output, outgrows its cap only by ending the reader, and what a   *)
(* browser misses, or is given twice, falls between its replay and its     *)
(* subscription, however far Redis is behind.                              *)
(***************************************************************************)
EXTENDS TerminalStream, SequenceTheorems, FiniteSetTheorems, TLAPS

-----------------------------------------------------------------------------
(* Sequences.                                                              *)

\* Taking out the i-th element moves up those after it.
LEMMA RemoveAtShifts ==
  ASSUME NEW S, NEW q \in Seq(S), NEW i \in 1 .. Len(q)
  PROVE  /\ RemoveAt(q, i) \in Seq(S)
         /\ Len(RemoveAt(q, i)) = Len(q) - 1
         /\ Len(q) \in Nat /\ i \in Nat
         /\ \A k \in 1 .. Len(RemoveAt(q, i)) :
              RemoveAt(q, i)[k] = IF k < i THEN q[k] ELSE q[k + 1]
<1> DEFINE a == SubSeq(q, 1, i - 1)
           b == SubSeq(q, i + 1, Len(q))
<1>1. /\ a \in Seq(S) /\ Len(a) = i - 1
      /\ \A k \in 1 .. i - 1 : a[k] = q[k]
  BY SubSeqProperties
<1>2. /\ b \in Seq(S) /\ Len(b) = Len(q) - i
      /\ \A k \in 1 .. Len(q) - i : b[k] = q[i + k]
  BY SubSeqProperties
<1> HIDE DEF a, b
<1>3. /\ a \o b \in Seq(S) /\ Len(a \o b) = Len(a) + Len(b)
      /\ \A k \in 1 .. Len(a) + Len(b) :
           (a \o b)[k] = IF k <= Len(a) THEN a[k] ELSE b[k - Len(a)]
  BY <1>1, <1>2, ConcatProperties
<1>4. Len(q) \in Nat /\ i \in Nat
  OBVIOUS
<1>5. Len(a \o b) = Len(q) - 1
  BY <1>1, <1>2, <1>3, <1>4
<1>6. ASSUME NEW k \in 1 .. Len(q) - 1
     PROVE  (a \o b)[k] = IF k < i THEN q[k] ELSE q[k + 1]
  <2>1. CASE k < i
    BY <1>1, <1>2, <1>3, <1>4, <2>1
  <2>2. CASE ~ k < i
    <3>1. k - (i - 1) \in 1 .. Len(q) - i /\ i + (k - (i - 1)) = k + 1
      BY <1>4, <2>2
    <3>2. (a \o b)[k] = b[k - (i - 1)]
      BY <1>1, <1>2, <1>3, <1>4, <2>2
    <3> QED BY <1>2, <2>2, <3>1, <3>2
  <2> QED BY <2>1, <2>2
<1> QED BY <1>3, <1>4, <1>5, <1>6 DEF RemoveAt, a, b

\* Taking one element out leaves a sequence with all the others.
LEMMA RemoveAtKeepsOthers ==
  ASSUME NEW S, NEW q \in Seq(S), NEW i \in 1 .. Len(q)
  PROVE  /\ RemoveAt(q, i) \in Seq(S)
         /\ \A j \in 1 .. Len(q) : j # i =>
              \E k \in 1 .. Len(RemoveAt(q, i)) : RemoveAt(q, i)[k] = q[j]
<1> DEFINE r == RemoveAt(q, i)
<1>1. /\ r \in Seq(S) /\ Len(r) = Len(q) - 1 /\ Len(q) \in Nat /\ i \in Nat
      /\ \A k \in 1 .. Len(r) : r[k] = IF k < i THEN q[k] ELSE q[k + 1]
  BY RemoveAtShifts
<1> HIDE DEF r
<1>2. ASSUME NEW j \in 1 .. Len(q), j # i PROVE \E k \in 1 .. Len(r) : r[k] = q[j]
  <2>1. CASE j < i
    <3>1. j \in 1 .. Len(r) /\ r[j] = q[j]
      BY <1>1, <2>1
    <3> QED BY <3>1
  <2>2. CASE j > i
    <3>1. j - 1 \in 1 .. Len(r) /\ ~ j - 1 < i /\ (j - 1) + 1 = j
      BY <1>1, <2>2
    <3>2. r[j - 1] = q[j]
      BY <1>1, <3>1
    <3> QED BY <3>1, <3>2
  <2> QED BY <1>2, <2>1, <2>2
<1> QED BY <1>1, <1>2 DEF r

-----------------------------------------------------------------------------
(* Types, and where the reader stands.                                     *)

\* The reader appends what it has just read; between appends the scrollback is
\* what has been read, and while it lives it is within the cap.
ReaderPlace ==
  /\ rpc \in {"append", "broadcast"} => taken > 0 /\ sent = taken - 1
  /\ rpc = "read" => sent = taken
  /\ rpc = "append" => taken = Len(scrollback) + 1
  /\ rpc \in {"read", "broadcast"} => taken = Len(scrollback)
  /\ \A c \in Clients : joinAt[c] <= sent /\ heardAt[c] <= sent

ReaderInv ==
  TypeOK /\ ReaderPlace /\ ScrollbackIsOutput /\ OverCapOnlyAtTheEnd

LEMMA ReaderInit == Init => ReaderInv
<1> SUFFICES ASSUME Init PROVE ReaderInv
  OBVIOUS
<1>1. <<>> \in Seq(Chunks) /\ Len(<<>>) = 0
  OBVIOUS
<1>2. TypeOK
  <2>1. /\ pipe \in [Clients -> Seq(Chunks)] /\ screen \in [Clients -> Seq(Chunks)]
        /\ scrollback \in Seq(Chunks) /\ bus \in Seq(Chunks)
    BY <1>1 DEF Init
  <2>2. 0 \in 0 .. MaxChunks
    BY ConstantsOK
  <2>3. /\ replayAt \in [Clients -> 0 .. MaxChunks]
        /\ heardAt \in [Clients -> 0 .. MaxChunks]
        /\ joinAt \in [Clients -> 0 .. MaxChunks]
        /\ phase \in [Clients -> {"away", "replay", "live"}]
        /\ joined \in [Clients -> BOOLEAN]
    BY <2>2 DEF Init
  <2>4. taken \in 0 .. printed
    BY DEF Init
  <2>5. carries \in Seq(BOOLEAN) \ {<<>>}
    BY DEF Init
  <2> QED BY <2>1, <2>2, <2>3, <2>4, <2>5 DEF Init, TypeOK
<1>3. ReaderPlace /\ ScrollbackIsOutput /\ OverCapOnlyAtTheEnd
  BY <1>1, ConstantsOK DEF Init, ReaderPlace, ScrollbackIsOutput, OverCapOnlyAtTheEnd
<1> QED BY <1>2, <1>3 DEF ReaderInv

\* What is on its way back was published, and comes back in that order.
BusInOrder ==
  /\ \A i \in 1 .. Len(bus) : bus[i] \in 1 .. sent
  /\ \A i, j \in 1 .. Len(bus) : i < j => bus[i] < bus[j]

\* Heard is what lies before the bus.
LEMMA HeardBeforeBus ==
  ASSUME bus \in Seq(Chunks), sent \in Nat, BusInOrder
  PROVE  /\ Heard \in 0 .. sent
         /\ bus # <<>> => Head(bus) = bus[1] /\ 1 \in 1 .. Len(bus)
         /\ \A i \in 1 .. Len(bus) : Heard < bus[i]
<1>1. CASE bus = <<>>
  BY <1>1 DEF Heard
<1>2. CASE bus # <<>>
  <2>1. Head(bus) = bus[1] /\ Len(bus) \in Nat /\ Len(bus) # 0
    BY <1>2
  <2>2. 1 \in 1 .. Len(bus)
    BY <2>1
  <2>3. Heard = bus[1] - 1 /\ bus[1] \in 1 .. sent
    BY <1>2, <2>1, <2>2 DEF Heard, BusInOrder
  <2>4. \A i \in 1 .. Len(bus) : bus[1] <= bus[i] /\ bus[i] \in 1 .. sent
    BY <2>2, <2>3 DEF BusInOrder
  <2> QED BY <2>1, <2>2, <2>3, <2>4
<1> QED BY <1>1, <1>2

\* A command more on its way to Redis, or one less, leaves a sequence with at
\* least one.
LEMMA LongerIsSeq ==
  ASSUME NEW S, NEW q \in Seq(S) \ {<<>>}, NEW b \in S
  PROVE  Append(q, b) \in Seq(S) \ {<<>>} /\ Len(Append(q, b)) > 1
<1>1. Append(q, b) \in Seq(S) /\ Len(Append(q, b)) = Len(q) + 1 /\ Len(q) \in Nat
  OBVIOUS
<1>2. Len(q) # 0
  BY EmptySeq
<1>3. Len(<<>>) = 0
  OBVIOUS
<1> QED BY <1>1, <1>2, <1>3

LEMMA ShorterIsSeq ==
  ASSUME NEW S, NEW q \in Seq(S), Len(q) > 1
  PROVE  Tail(q) \in Seq(S) \ {<<>>}
<1>1. q # <<>> /\ Len(q) \in Nat
  OBVIOUS
<1> DEFINE t == Tail(q)
<1>2. t \in Seq(S) /\ Len(t) = Len(q) - 1
  BY <1>1, HeadTailProperties
<1> HIDE DEF t
<1>3. Len(<<>>) = 0
  OBVIOUS
<1>4. Len(t) # 0
  BY <1>1, <1>2
<1> QED BY <1>2, <1>3, <1>4 DEF t

LEMMA ReaderStep ==
  ASSUME ReaderInv, BusInOrder, [Next]_vars
  PROVE  ReaderInv'
<1> USE ConstantsOK DEF ReaderInv, TypeOK, ReaderPlace, ScrollbackIsOutput,
        OverCapOnlyAtTheEnd, Chunks, readerVars, redisVars, clientVars
<1>1. CASE ShellPrints
  BY <1>1 DEF ShellPrints
<1>2. CASE RedisObeys
  <2>1. /\ carries' = Tail(carries) /\ Len(carries) > 1
        /\ UNCHANGED <<printed, listed, closed, readerVars, bus, phase, joined,
                       pipe, screen, replayAt, heardAt>>
    BY <1>2 DEF RedisObeys
  <2>2. carries' \in Seq(BOOLEAN) \ {<<>>}
    BY <2>1, ShorterIsSeq
  <2>3. /\ joinAt' \in [Clients -> 0 .. MaxChunks]
        /\ \A x \in Clients : joinAt'[x] <= sent
    <3>1. CASE Len(carries) = 2
      <4>1. joinAt' = [c \in Clients |-> IF joined[c] THEN sent ELSE joinAt[c]]
        BY <1>2, <3>1 DEF RedisObeys
      <4> QED BY <4>1
    <3>2. CASE Len(carries) # 2
      <4>1. joinAt' = joinAt
        BY <1>2, <3>2 DEF RedisObeys
      <4> QED BY <4>1
    <3> QED BY <3>1, <3>2
  <2> QED BY <2>1, <2>2, <2>3
<1>10. CASE Listen
  <2>1. /\ bus # <<>> /\ bus' = Tail(bus)
        /\ pipe' = [c \in Clients |->
              IF c \in Receivers THEN Append(pipe[c], Head(bus)) ELSE pipe[c]]
        /\ UNCHANGED <<printed, listed, closed, readerVars, carries, phase,
                       joined, screen, replayAt, heardAt, joinAt>>
    BY <1>10 DEF Listen
  <2>2. Head(bus) \in Chunks /\ Tail(bus) \in Seq(Chunks)
    <3> HIDE DEF ReaderPlace, ScrollbackIsOutput, OverCapOnlyAtTheEnd, Chunks
    <3> QED BY <2>1, HeadTailProperties
  <2>3. pipe' \in [Clients -> Seq(Chunks)]
    <3>1. \A c \in Clients : pipe[c] \in Seq(Chunks)
      OBVIOUS
    <3> HIDE DEF ReaderInv, TypeOK, Chunks
    <3>2. \A c \in Clients : Append(pipe[c], Head(bus)) \in Seq(Chunks)
      BY <2>2, <3>1
    <3> QED BY <2>1, <3>1, <3>2
  <2> QED BY <2>1, <2>2, <2>3
<1>3. CASE Read
  BY <1>3 DEF Read, HasOutput, AfterRead
<1>4. CASE AppendScrollback
  <2>1. taken \in Chunks /\ scrollback \in Seq(Chunks)
    BY <1>4 DEF AppendScrollback
  <2>2. /\ scrollback' \in Seq(Chunks)
        /\ Len(scrollback') = Len(scrollback) + 1
        /\ \A i \in 1 .. Len(scrollback) : scrollback'[i] = scrollback[i]
        /\ scrollback'[Len(scrollback) + 1] = taken
    BY <1>4, <2>1 DEF AppendScrollback
  <2>3. /\ rpc = "append" /\ rpc' \in {"dead", "broadcast"} /\ closed' \in BOOLEAN
        /\ Len(scrollback) >= Cap => rpc' = "dead"
        /\ UNCHANGED <<printed, listed, taken, sent, redisVars, clientVars>>
    BY <1>4 DEF AppendScrollback, Overfull
  <2>4. TypeOK'
    BY <2>2, <2>3
  <2>5. ReaderPlace'
    BY <2>2, <2>3
  <2>6. ScrollbackIsOutput'
    <3>1. ASSUME NEW i \in 1 .. Len(scrollback') PROVE scrollback'[i] = i
      <4>1. CASE i = Len(scrollback) + 1
        BY <2>2, <2>3, <4>1
      <4>2. CASE i # Len(scrollback) + 1
        <5>1. i \in 1 .. Len(scrollback)
          BY <2>1, <2>2, <4>2
        <5> QED BY <2>2, <5>1
      <4> QED BY <4>1, <4>2
    <3> QED BY <2>2, <2>3, <3>1
  <2>7. OverCapOnlyAtTheEnd'
    BY <2>2, <2>3
  <2> QED BY <2>4, <2>5, <2>6, <2>7
<1>5. CASE BroadcastOutput
  <2>1. /\ rpc = "broadcast" /\ rpc' = "read" /\ sent' = taken
        /\ UNCHANGED <<printed, listed, closed, taken, scrollback, carries,
                       clientVars>>
    BY <1>5 DEF BroadcastOutput
  <2>2. bus' \in Seq(Chunks)
    <3>1. taken \in Chunks
      BY <2>1
    <3>2. Append(bus, taken) \in Seq(Chunks)
      <4> HIDE DEF ReaderPlace, ScrollbackIsOutput, OverCapOnlyAtTheEnd, Chunks
      <4> QED BY <3>1
    <3>3. bus' = Append(bus, taken) \/ bus' = bus
      BY <1>5 DEF BroadcastOutput
    <3> QED BY <3>2, <3>3
  <2>3. TypeOK'
    BY <2>1, <2>2
  <2> QED BY <2>1, <2>3
<1>6. CASE ReadFails
  BY <1>6 DEF ReadFails
<1>7. CASE Kill
  BY <1>7 DEF Kill
<1>8. ASSUME NEW c \in Clients
     PROVE  /\ Subscribe(c) => ReaderInv'
            /\ Join(c) => ReaderInv'
            /\ Replay(c) => ReaderInv'
            /\ Disconnect(c) => ReaderInv'
            /\ \A i \in 1 .. PoolSize : Deliver(c, i) => ReaderInv'
  <2>1. CASE Subscribe(c)
    BY <2>1 DEF Subscribe
  <2>2. CASE Join(c)
    <3>1. /\ UNCHANGED <<printed, listed, closed, readerVars, bus>>
          /\ joined' \in [Clients -> BOOLEAN]
          /\ joinAt' = joinAt \/ joinAt' = [joinAt EXCEPT ![c] = sent]
          /\ heardAt' = [heardAt EXCEPT ![c] = Heard]
          /\ carries' = carries \/ carries' = Append(carries, TRUE)
          /\ UNCHANGED <<phase, pipe, screen, replayAt>>
      BY <2>2 DEF Join, Order
    <3>2. carries' \in Seq(BOOLEAN) \ {<<>>}
      <4>1. carries \in Seq(BOOLEAN) \ {<<>>} /\ TRUE \in BOOLEAN /\ FALSE \in BOOLEAN
        OBVIOUS
      <4> HIDE DEF ReaderInv, TypeOK
      <4>2. \A b \in BOOLEAN : Append(carries, b) \in Seq(BOOLEAN) \ {<<>>}
        BY <4>1, LongerIsSeq
      <4> QED BY <3>1, <4>1, <4>2
    <3>3. Heard \in 0 .. MaxChunks /\ Heard <= sent
      <4>1. Heard \in 0 .. sent
        BY HeardBeforeBus
      <4> QED BY <4>1
    <3>4. TypeOK'
      <4>1. heardAt' \in [Clients -> 0 .. MaxChunks]
        BY <3>1, <3>3
      <4> QED BY <3>1, <3>2, <4>1
    <3>5. ReaderPlace'
      <4>1. \A x \in Clients : joinAt'[x] \in {joinAt[x], sent}
        BY <3>1
      <4>2. \A x \in Clients : heardAt'[x] \in {heardAt[x], Heard}
        BY <3>1
      <4>3. \A x \in Clients : joinAt'[x] <= sent /\ heardAt'[x] <= sent
        <5>1. /\ sent \in Nat
              /\ \A x \in Clients : joinAt[x] <= sent /\ heardAt[x] <= sent
          OBVIOUS
        <5> HIDE DEF ReaderInv, TypeOK, ReaderPlace
        <5> QED BY <3>3, <4>1, <4>2, <5>1
      <4> QED BY <3>1, <4>3
    <3>6. ScrollbackIsOutput' /\ OverCapOnlyAtTheEnd'
      BY <3>1
    <3> QED BY <3>4, <3>5, <3>6
  <2>3. CASE Replay(c)
    <3>1. /\ UNCHANGED <<printed, listed, closed, readerVars, redisVars, joined, pipe,
                         heardAt, joinAt>>
          /\ phase' = [phase EXCEPT ![c] = "live"]
      BY <2>3 DEF Replay
    <3>2. screen' \in [Clients -> Seq(Chunks)]
      <4>1. <<>> \o scrollback \in Seq(Chunks)
        OBVIOUS
      <4>2. screen' = [screen EXCEPT ![c] = <<>> \o scrollback]
        BY <2>3 DEF Replay, Cleared
      <4> QED BY <4>1, <4>2
    <3>3. replayAt' \in [Clients -> 0 .. MaxChunks]
      <4>1. Len(scrollback) \in 0 .. MaxChunks
        OBVIOUS
      <4>2. replayAt' = [replayAt EXCEPT ![c] = Len(scrollback)]
        BY <2>3 DEF Replay
      <4> QED BY <4>1, <4>2
    <3>4. TypeOK'
      BY <3>1, <3>2, <3>3
    <3> QED BY <3>1, <3>4
  <2>4. CASE Disconnect(c)
    <3>1. /\ UNCHANGED <<printed, listed, closed, readerVars, bus, screen>>
          /\ phase' = [phase EXCEPT ![c] = "away"]
          /\ joined' = [joined EXCEPT ![c] = FALSE]
          /\ replayAt' = [replayAt EXCEPT ![c] = 0]
          /\ heardAt' = [heardAt EXCEPT ![c] = 0]
          /\ joinAt' = [joinAt EXCEPT ![c] = 0]
          /\ carries' = carries \/ carries' = Append(carries, FALSE)
      BY <2>4 DEF Disconnect, Order
    <3>2. pipe' \in [Clients -> Seq(Chunks)]
      <4>1. <<>> \in Seq(Chunks)
        OBVIOUS
      <4> QED BY <2>4, <4>1 DEF Disconnect
    <3>3. /\ phase' \in [Clients -> {"away", "replay", "live"}]
          /\ joined' \in [Clients -> BOOLEAN]
      BY <3>1
    <3>4. /\ replayAt' \in [Clients -> 0 .. MaxChunks]
          /\ heardAt' \in [Clients -> 0 .. MaxChunks]
          /\ joinAt' \in [Clients -> 0 .. MaxChunks]
      BY <3>1
    <3>5. carries' \in Seq(BOOLEAN) \ {<<>>}
      <4>1. carries \in Seq(BOOLEAN) \ {<<>>} /\ TRUE \in BOOLEAN /\ FALSE \in BOOLEAN
        OBVIOUS
      <4> HIDE DEF ReaderInv, TypeOK
      <4>2. \A b \in BOOLEAN : Append(carries, b) \in Seq(BOOLEAN) \ {<<>>}
        BY <4>1, LongerIsSeq
      <4> QED BY <3>1, <4>1, <4>2
    <3>6. TypeOK'
      BY <3>1, <3>2, <3>3, <3>4, <3>5
    <3>7. ReaderPlace'
      <4>1. \A x \in Clients : joinAt'[x] <= sent /\ heardAt'[x] <= sent
        BY <3>1
      <4> QED BY <3>1, <4>1
    <3>8. ScrollbackIsOutput' /\ OverCapOnlyAtTheEnd'
      BY <3>1
    <3> QED BY <3>6, <3>7, <3>8
  <2>5. ASSUME NEW i \in 1 .. PoolSize, Deliver(c, i) PROVE ReaderInv'
    <3>1. /\ UNCHANGED <<printed, listed, closed, readerVars, redisVars, phase,
                         joined, replayAt, heardAt, joinAt>>
          /\ i \in 1 .. Len(pipe[c])
          /\ screen' = [screen EXCEPT ![c] = Append(screen[c], pipe[c][i])]
          /\ pipe' = [pipe EXCEPT ![c] = RemoveAt(pipe[c], i)]
      BY <2>5 DEF Deliver
    <3>2. pipe[c] \in Seq(Chunks) /\ screen[c] \in Seq(Chunks)
      OBVIOUS
    <3>3. RemoveAt(pipe[c], i) \in Seq(Chunks)
      BY <3>1, <3>2, RemoveAtKeepsOthers
    <3>4. Append(screen[c], pipe[c][i]) \in Seq(Chunks)
      <4> HIDE DEF ReaderInv, TypeOK, Chunks
      <4>1. pipe[c][i] \in Chunks
        BY <3>1, <3>2
      <4> QED BY <3>2, <4>1
    <3>5. pipe \in [Clients -> Seq(Chunks)] /\ screen \in [Clients -> Seq(Chunks)]
      <4> HIDE DEF ReaderPlace, ScrollbackIsOutput, OverCapOnlyAtTheEnd, Chunks
      <4> QED OBVIOUS
    <3>6. pipe' \in [Clients -> Seq(Chunks)] /\ screen' \in [Clients -> Seq(Chunks)]
      <4> HIDE DEF ReaderInv, TypeOK, Chunks
      <4> QED BY <3>1, <3>3, <3>4, <3>5
    <3>7. TypeOK'
      BY <3>1, <3>6
    <3> QED BY <3>1, <3>7
  <2> QED BY <2>1, <2>2, <2>3, <2>4, <2>5
<1>9. CASE UNCHANGED vars
  BY <1>9 DEF vars
<1> QED
  BY <1>1, <1>2, <1>3, <1>4, <1>5, <1>6, <1>7, <1>8, <1>9, <1>10 DEF Next, Reader

\* The listener takes the next chunk that was published.
LEMMA ListenAdvances ==
  ASSUME ReaderInv, BusInOrder, Listen
  PROVE  /\ Head(bus) \in Chunks /\ Heard = Head(bus) - 1 /\ Head(bus) <= Heard'
         /\ bus' \in Seq(Chunks) /\ Len(bus') = Len(bus) - 1
         /\ \A i \in 1 .. Len(bus') : bus'[i] = bus[i + 1]
         /\ 1 \in 1 .. Len(bus) /\ Head(bus) = bus[1]
<1>1. bus \in Seq(Chunks) /\ Len(bus) \in Nat /\ sent \in Nat
  BY ConstantsOK DEF ReaderInv, TypeOK, Chunks
<1>2. bus # <<>> /\ bus' = Tail(bus) /\ sent' = sent
  BY DEF Listen, readerVars
<1>3. /\ bus' \in Seq(Chunks) /\ Len(bus') = Len(bus) - 1
      /\ \A i \in 1 .. Len(bus') : bus'[i] = bus[i + 1]
      /\ Head(bus) \in Chunks
  BY <1>1, <1>2, HeadTailProperties
<1>4. Heard = Head(bus) - 1 /\ Head(bus) = bus[1] /\ 1 \in 1 .. Len(bus)
  BY <1>1, <1>2, HeardBeforeBus DEF Heard
<1>5. bus[1] \in 1 .. sent
  BY <1>4 DEF BusInOrder
<1>6. Head(bus) <= Heard'
  <2>1. CASE bus' = <<>>
    <3>1. Heard' = sent
      BY <1>2, <2>1 DEF Heard
    <3> QED BY <1>1, <1>4, <1>5, <3>1
  <2>2. CASE bus' # <<>>
    <3>1. Heard' = bus'[1] - 1 /\ 1 \in 1 .. Len(bus')
      <4>1. Head(bus') = bus'[1] /\ Len(bus') \in Nat /\ Len(bus') # 0
        BY <1>3, <2>2
      <4> QED BY <2>2, <4>1 DEF Heard
    <3>2. bus'[1] = bus[2] /\ 2 \in 1 .. Len(bus)
      BY <1>1, <1>3, <3>1
    <3>3. bus[1] < bus[2] /\ bus[2] \in 1 .. sent
      BY <1>4, <3>2 DEF BusInOrder
    <3> QED BY <1>1, <1>4, <1>5, <3>1, <3>2, <3>3
  <2> QED BY <2>1, <2>2
<1> QED BY <1>3, <1>4, <1>6

LEMMA BusStep ==
  ASSUME ReaderInv, BusInOrder, [Next]_vars
  PROVE  BusInOrder' /\ Heard <= Heard'
<1>1. /\ bus \in Seq(Chunks) /\ Len(bus) \in Nat /\ sent \in Nat /\ taken \in Nat
      /\ rpc = "broadcast" => taken \in Chunks /\ sent = taken - 1
  BY ConstantsOK DEF ReaderInv, TypeOK, ReaderPlace, Chunks
<1>2. /\ Heard \in 0 .. sent
      /\ bus # <<>> => Head(bus) = bus[1] /\ 1 \in 1 .. Len(bus)
      /\ \A i \in 1 .. Len(bus) : Heard < bus[i]
  BY <1>1, HeardBeforeBus
<1>3. CASE UNCHANGED <<sent, bus>>
  BY <1>2, <1>3 DEF BusInOrder, Heard
<1>4. CASE BroadcastOutput
  <2>1. rpc = "broadcast" /\ sent' = taken
    BY <1>4 DEF BroadcastOutput
  <2>2. CASE bus' = bus
    <3>1. BusInOrder'
      BY <1>1, <2>1, <2>2 DEF BusInOrder
    <3>2. Heard <= Heard'
      BY <1>1, <1>2, <2>1, <2>2 DEF Heard
    <3> QED BY <3>1, <3>2
  <2>3. CASE bus' = Append(bus, taken)
    <3>1. /\ Len(bus') = Len(bus) + 1 /\ bus'[Len(bus) + 1] = taken
          /\ \A i \in 1 .. Len(bus) : bus'[i] = bus[i]
      BY <1>1, <2>1, <2>3
    <3>2. \A i \in 1 .. Len(bus') : i \in 1 .. Len(bus) \/ i = Len(bus) + 1
      BY <1>1, <3>1
    <3>5. ASSUME NEW i \in 1 .. Len(bus') PROVE bus'[i] \in 1 .. sent'
      BY <1>1, <2>1, <3>1, <3>2 DEF BusInOrder, Chunks
    <3>6. ASSUME NEW i \in 1 .. Len(bus'), NEW j \in 1 .. Len(bus'), i < j
         PROVE  bus'[i] < bus'[j]
      <4>1. i \in 1 .. Len(bus)
        BY <1>1, <3>1, <3>6
      <4>2. CASE j \in 1 .. Len(bus)
        BY <3>1, <3>6, <4>1, <4>2 DEF BusInOrder
      <4>3. CASE j = Len(bus) + 1
        <5>1. bus'[i] = bus[i] /\ bus'[j] = taken /\ bus[i] \in 1 .. sent
          BY <3>1, <4>1, <4>3 DEF BusInOrder
        <5> QED BY <1>1, <2>1, <5>1
      <4> QED BY <3>2, <4>2, <4>3
    <3>7. BusInOrder'
      BY <3>5, <3>6 DEF BusInOrder
    <3>3. bus' # <<>> /\ Head(bus') = IF bus = <<>> THEN taken ELSE Head(bus)
      <4>1. bus' # <<>> /\ Head(bus') = bus'[1]
        BY <1>1, <2>1, <2>3
      <4>2. CASE bus = <<>>
        <5>1. Len(bus) = 0
          BY <4>2
        <5> QED BY <3>1, <4>1, <4>2, <5>1
      <4>3. CASE bus # <<>>
        BY <1>2, <3>1, <4>1, <4>3
      <4> QED BY <4>2, <4>3
    <3>4. Heard <= Heard'
      BY <1>1, <1>2, <2>1, <3>3 DEF Heard
    <3> QED BY <3>4, <3>7
  <2> QED BY <1>4, <2>2, <2>3 DEF BroadcastOutput
<1>5. CASE Listen
  <2>1. /\ Heard = Head(bus) - 1 /\ Head(bus) <= Heard' /\ Head(bus) \in Nat
        /\ bus' \in Seq(Chunks) /\ Len(bus') = Len(bus) - 1
        /\ \A i \in 1 .. Len(bus') : bus'[i] = bus[i + 1]
        /\ sent' = sent
    BY <1>5, ListenAdvances DEF Listen, readerVars, Chunks
  <2>2. ASSUME NEW i \in 1 .. Len(bus') PROVE bus'[i] \in 1 .. sent'
    BY <1>1, <2>1 DEF BusInOrder
  <2>3. ASSUME NEW i \in 1 .. Len(bus'), NEW j \in 1 .. Len(bus'), i < j
       PROVE  bus'[i] < bus'[j]
    <3>1. i + 1 \in 1 .. Len(bus) /\ j + 1 \in 1 .. Len(bus) /\ i + 1 < j + 1
      BY <1>1, <2>1, <2>3
    <3>2. bus[i + 1] < bus[j + 1]
      BY <3>1 DEF BusInOrder
    <3> QED BY <2>1, <3>2
  <2>4. BusInOrder'
    BY <2>2, <2>3 DEF BusInOrder
  <2>5. Heard <= Heard'
    <3>1. Heard' \in Nat
      <4>1. bus' # <<>> => Head(bus') \in Nat /\ Head(bus') > 0
        <5>1. bus' # <<>> => 1 \in 1 .. Len(bus') /\ Head(bus') = bus'[1]
          BY <2>1
        <5> QED BY <1>1, <2>1, <2>2, <5>1
      <4> QED BY <1>1, <2>1, <4>1 DEF Heard
    <3> QED BY <2>1, <3>1
  <2> QED BY <2>4, <2>5
<1>6. CASE \E d \in Clients :
              \/ Subscribe(d) \/ Join(d) \/ Replay(d) \/ Disconnect(d)
              \/ \E i \in 1 .. PoolSize : Deliver(d, i)
  BY <1>3, <1>6 DEF Subscribe, Join, Replay, Disconnect, Deliver, readerVars, redisVars
<1>7. CASE ShellPrints \/ Read \/ AppendScrollback \/ ReadFails \/ Kill \/ RedisObeys
  BY <1>3, <1>7 DEF ShellPrints, Read, AppendScrollback, ReadFails, Kill, RedisObeys,
       readerVars, redisVars
<1>8. CASE UNCHANGED vars
  BY <1>3, <1>8 DEF vars, readerVars, redisVars
<1> QED BY <1>4, <1>5, <1>6, <1>7, <1>8 DEF Next, Reader

\* The invariants that the others rest on
BaseInv == ReaderInv /\ BusInOrder

LEMMA BaseInit == Init => BaseInv
<1>1. ASSUME Init PROVE BusInOrder
  <2>1. bus = <<>> /\ Len(bus) = 0
    BY <1>1 DEF Init
  <2> QED BY <2>1 DEF BusInOrder
<1> QED BY <1>1, ReaderInit DEF BaseInv

LEMMA BaseStep == BaseInv /\ [Next]_vars => BaseInv'
BY ReaderStep, BusStep DEF BaseInv

\* Every variable keeps its type.
THEOREM TypeCorrect == Spec => []TypeOK
<1>1. BaseInv => TypeOK
  BY DEF BaseInv, ReaderInv
<1> QED BY <1>1, BaseInit, BaseStep, PTL DEF Spec

\* Only the chunk that ends the reader is beyond the cap.
THEOREM OverCapOnlyAtTheEndAlways == Spec => []OverCapOnlyAtTheEnd
<1>1. BaseInv => OverCapOnlyAtTheEnd
  BY DEF BaseInv, ReaderInv
<1> QED BY <1>1, BaseInit, BaseStep, PTL DEF Spec

\* The scrollback is the output from its first chunk, ahead of every broadcast.
THEOREM ScrollbackIsOutputAlways == Spec => []ScrollbackIsOutput
<1>1. BaseInv => ScrollbackIsOutput
  BY DEF BaseInv, ReaderInv
<1> QED BY <1>1, BaseInit, BaseStep, PTL DEF Spec

-----------------------------------------------------------------------------
(* What a browser can miss.                                                *)

Has(q, n) == \E i \in 1 .. Len(q) : q[i] = n

LEMMA AppendHas ==
  ASSUME NEW S, NEW q \in Seq(S), NEW x \in S
  PROVE  \A n : Has(Append(q, x), n) <=> Has(q, n) \/ n = x
<1>1. /\ Len(Append(q, x)) = Len(q) + 1
      /\ Append(q, x)[Len(q) + 1] = x
      /\ \A i \in 1 .. Len(q) : Append(q, x)[i] = q[i]
      /\ Len(q) \in Nat
  OBVIOUS
<1>2. ASSUME NEW n, Has(q, n) PROVE Has(Append(q, x), n)
  <2>1. PICK i \in 1 .. Len(q) : q[i] = n
    BY <1>2 DEF Has
  <2>2. i \in 1 .. Len(Append(q, x)) /\ Append(q, x)[i] = n
    BY <1>1, <2>1
  <2> QED BY <2>2 DEF Has
<1>3. Has(Append(q, x), x)
  <2>1. Len(q) + 1 \in 1 .. Len(Append(q, x))
    BY <1>1
  <2> QED BY <1>1, <2>1 DEF Has
<1>4. ASSUME NEW n, Has(Append(q, x), n), n # x PROVE Has(q, n)
  <2>1. PICK i \in 1 .. Len(Append(q, x)) : Append(q, x)[i] = n
    BY <1>4 DEF Has
  <2>2. i \in 1 .. Len(q)
    BY <1>1, <1>4, <2>1
  <2> QED BY <1>1, <2>1, <2>2 DEF Has
<1> QED BY <1>2, <1>3, <1>4

LEMMA RemoveAtHas ==
  ASSUME NEW S, NEW q \in Seq(S), NEW i \in 1 .. Len(q), NEW n, Has(q, n)
  PROVE  Has(RemoveAt(q, i), n) \/ n = q[i]
<1>1. PICK j \in 1 .. Len(q) : q[j] = n
  BY DEF Has
<1> QED BY <1>1, RemoveAtKeepsOthers DEF Has

\* A live browser shows the scrollback it was sent.
ReplayShown ==
  \A c \in Clients : phase[c] = "live" => \A n \in 1 .. replayAt[c] : Shows(c, n)

\* What was last asked of Redis is what the connected streams want.
Wanted == carries[Len(carries)] <=> \E c \in Clients : joined[c]

LEMMA WantedStep ==
  ASSUME ReaderInv, Wanted, [Next]_vars
  PROVE  Wanted'
<1>1. /\ carries \in Seq(BOOLEAN) /\ Len(carries) \in Nat
      /\ joined \in [Clients -> BOOLEAN]
  BY DEF ReaderInv, TypeOK
<1>2. CASE UNCHANGED <<carries, joined>>
  BY <1>2 DEF Wanted
<1>3. CASE RedisObeys
  <2>1. Len(carries) > 1 /\ carries' = Tail(carries) /\ joined' = joined
    BY <1>3 DEF RedisObeys
  <2>2. carries # <<>>
    BY <2>1
  <2>3. /\ Len(carries') = Len(carries) - 1
        /\ \A i \in 1 .. Len(carries') : carries'[i] = carries[i + 1]
    BY <1>1, <2>1, <2>2, HeadTailProperties
  <2>4. carries'[Len(carries')] = carries[Len(carries)]
    BY <1>1, <2>1, <2>3
  <2> QED BY <2>1, <2>4 DEF Wanted
<1>4. ASSUME NEW d \in Clients, Join(d) PROVE Wanted'
  <2>1. joined'[d]
    BY <1>1, <1>4 DEF Join
  <2>2. CASE carries' = Append(carries, TRUE)
    <3>1. carries'[Len(carries')]
      BY <1>1, <2>2
    <3> QED BY <2>1, <3>1 DEF Wanted
  <2>3. CASE ~ NobodyElse(d) /\ carries' = carries
    BY <2>1, <2>3 DEF Wanted, NobodyElse
  <2> QED BY <1>4, <2>2, <2>3 DEF Join, Order
<1>5. ASSUME NEW d \in Clients, Disconnect(d) PROVE Wanted'
  <2>1. joined' = [joined EXCEPT ![d] = FALSE]
    BY <1>5 DEF Disconnect
  <2>2. CASE joined[d] /\ NobodyElse(d)
    <3>1. carries' = Append(carries, FALSE)
      BY <1>5, <2>2 DEF Disconnect, Order
    <3>2. ~ carries'[Len(carries')]
      BY <1>1, <3>1
    <3>3. \A e \in Clients : ~ joined'[e]
      BY <1>1, <2>1, <2>2 DEF NobodyElse
    <3> QED BY <3>2, <3>3 DEF Wanted
  <2>3. CASE ~ (joined[d] /\ NobodyElse(d))
    <3>1. carries' = carries
      BY <1>5, <2>3 DEF Disconnect
    <3>2. (\E e \in Clients : joined'[e]) <=> \E e \in Clients : joined[e]
      BY <1>1, <2>1, <2>3 DEF NobodyElse
    <3> QED BY <3>1, <3>2 DEF Wanted
  <2> QED BY <2>2, <2>3
<1>6. CASE \E d \in Clients :
              \/ Subscribe(d) \/ Replay(d)
              \/ \E i \in 1 .. PoolSize : Deliver(d, i)
  BY <1>2, <1>6 DEF Subscribe, Replay, Deliver, redisVars
<1>7. CASE \/ ShellPrints \/ Read \/ AppendScrollback \/ BroadcastOutput \/ ReadFails
           \/ Kill \/ Listen \/ UNCHANGED vars
  BY <1>2, <1>7 DEF ShellPrints, Read, AppendScrollback, BroadcastOutput, ReadFails,
       Kill, Listen, vars, redisVars, clientVars
<1> QED BY <1>3, <1>4, <1>5, <1>6, <1>7 DEF Next, Reader

LostInv == Wanted /\ ReplayShown /\ LostOnlyWhileJoining

LEMMA LostInit == Init => LostInv
<1>1. ASSUME Init PROVE Wanted
  <2>1. carries = <<FALSE>> /\ Len(carries) = 1 /\ \A c \in Clients : ~ joined[c]
    BY <1>1 DEF Init
  <2> QED BY <2>1 DEF Wanted
<1> QED BY <1>1 DEF Init, LostInv, ReplayShown, LostOnlyWhileJoining

\* What is to be shown of one browser.
LostInvOf(c) ==
  phase[c] = "live" =>
    /\ \A n \in 1 .. replayAt[c] : Has(screen[c], n)
    /\ \A n \in 1 .. sent :
         \/ Has(screen[c], n)
         \/ Has(pipe[c], n)
         \/ joined[c] /\ Has(bus, n)
         \/ replayAt[c] < n /\ (Effective(c) => n <= joinAt[c])

LEMMA LostStep ==
  ASSUME BaseInv, BaseInv', LostInv, [Next]_vars
  PROVE  LostInv'
<1> USE DEF BaseInv
<1>0. Wanted /\ Wanted'
  BY WantedStep DEF LostInv
<1> SUFFICES ASSUME NEW c \in Clients PROVE LostInvOf(c)'
  BY <1>0 DEF LostInv, LostInvOf, ReplayShown, LostOnlyWhileJoining, Shows, Queued,
       Coming, Has
<1>1. LostInvOf(c)
  BY DEF LostInv, LostInvOf, ReplayShown, LostOnlyWhileJoining, Shows, Queued,
       Coming, Has
<1>2. /\ pipe[c] \in Seq(Chunks) /\ screen[c] \in Seq(Chunks)
      /\ scrollback \in Seq(Chunks) /\ bus \in Seq(Chunks)
      /\ carries \in Seq(BOOLEAN) /\ carries # <<>> /\ Len(carries) \in Nat
      /\ pipe \in [Clients -> Seq(Chunks)] /\ screen \in [Clients -> Seq(Chunks)]
      /\ phase \in [Clients -> {"away", "replay", "live"}]
      /\ joined \in [Clients -> BOOLEAN]
      /\ sent \in Nat /\ taken \in Nat /\ Len(scrollback) \in Nat
      /\ sent <= Len(scrollback)
      /\ \A i \in 1 .. Len(scrollback) : scrollback[i] = i
      /\ replayAt \in [Clients -> 0 .. MaxChunks]
      /\ joinAt \in [Clients -> 0 .. MaxChunks]
      /\ joinAt[c] <= sent /\ replayAt[c] \in Nat
  <2>1. /\ pipe \in [Clients -> Seq(Chunks)] /\ screen \in [Clients -> Seq(Chunks)]
        /\ phase \in [Clients -> {"away", "replay", "live"}]
        /\ joined \in [Clients -> BOOLEAN]
        /\ scrollback \in Seq(Chunks) /\ bus \in Seq(Chunks)
        /\ carries \in Seq(BOOLEAN) /\ carries # <<>>
        /\ replayAt \in [Clients -> 0 .. MaxChunks]
        /\ joinAt \in [Clients -> 0 .. MaxChunks]
    BY DEF ReaderInv, TypeOK
  <2>2. sent \in Nat /\ taken \in Nat /\ replayAt[c] \in Nat
    BY ConstantsOK DEF ReaderInv, TypeOK
  <2>3. /\ sent <= Len(scrollback)
        /\ \A i \in 1 .. Len(scrollback) : scrollback[i] = i
        /\ joinAt[c] <= sent
    BY DEF ReaderInv, ReaderPlace, ScrollbackIsOutput
  <2> QED BY <2>1, <2>2, <2>3
<1>3. CASE UNCHANGED <<sent, redisVars, clientVars>>
  BY <1>1, <1>3 DEF LostInvOf, Effective, redisVars, clientVars
<1>4. ASSUME ShellPrints \/ Read \/ AppendScrollback \/ ReadFails \/ Kill
     PROVE  UNCHANGED <<sent, redisVars, clientVars>>
  BY <1>4 DEF ShellPrints, Read, AppendScrollback, ReadFails, Kill,
       readerVars, redisVars, clientVars
<1>5. CASE BroadcastOutput
  <2>1. /\ sent' = taken /\ taken = Len(scrollback) /\ taken \in Chunks
        /\ sent = taken - 1
        /\ UNCHANGED <<phase, joined, pipe, screen, replayAt, joinAt, carries>>
    <3>1. taken = Len(scrollback) /\ taken \in Chunks /\ sent = taken - 1
      <4>1. rpc = "broadcast"
        BY <1>5 DEF BroadcastOutput
      <4>2. taken > 0 /\ taken = Len(scrollback) /\ sent = taken - 1
        BY <4>1 DEF ReaderInv, ReaderPlace
      <4>3. taken \in 0 .. MaxChunks
        BY ConstantsOK DEF ReaderInv, TypeOK
      <4> QED BY <4>2, <4>3 DEF Chunks
    <3> QED BY <1>5, <3>1 DEF BroadcastOutput, clientVars
  <2>2. /\ \A n : Has(bus, n) => Has(bus', n)
        /\ Head(carries) => Has(bus', taken)
    <3>1. \A n : Has(Append(bus, taken), n) <=> Has(bus, n) \/ n = taken
      BY <1>2, <2>1, AppendHas
    <3> QED BY <1>5, <3>1 DEF BroadcastOutput
  <2>3. Effective(c) => Head(carries)
    <3>1. Len(carries) = 1 => Head(carries) = carries[Len(carries)]
      BY <1>2
    <3> QED BY <1>0, <3>1 DEF Effective, Wanted
  <2>4. Effective(c)' <=> Effective(c)
    BY <2>1 DEF Effective
  <2>5. ASSUME phase[c] = "live", NEW n \in 1 .. sent
       PROVE  \/ Has(screen'[c], n)
              \/ Has(pipe'[c], n)
              \/ joined'[c] /\ Has(bus', n)
              \/ replayAt'[c] < n /\ (Effective(c)' => n <= joinAt'[c])
    BY <1>1, <2>1, <2>2, <2>4, <2>5 DEF LostInvOf
  <2>6. ASSUME phase[c] = "live"
       PROVE  \/ Has(screen'[c], taken)
              \/ joined'[c] /\ Has(bus', taken)
              \/ replayAt'[c] < taken /\ ~ Effective(c)'
    <3>1. CASE taken <= replayAt[c]
      <4>1. taken \in 1 .. replayAt[c]
        BY <1>2, <2>1, <3>1 DEF Chunks
      <4> QED BY <1>1, <2>1, <2>6, <4>1 DEF LostInvOf
    <3>2. CASE ~ taken <= replayAt[c] /\ Effective(c)
      BY <2>1, <2>2, <2>3, <3>2 DEF Effective
    <3>3. CASE ~ taken <= replayAt[c] /\ ~ Effective(c)
      BY <1>2, <2>1, <2>4, <3>3
    <3> QED BY <3>1, <3>2, <3>3
  <2>7. \A n \in 1 .. sent' : n \in 1 .. sent \/ n = taken
    BY <1>2, <2>1
  <2>8. phase'[c] = "live" => \A n \in 1 .. replayAt'[c] : Has(screen'[c], n)
    BY <1>1, <2>1 DEF LostInvOf
  <2> QED BY <2>1, <2>5, <2>6, <2>7, <2>8 DEF LostInvOf
<1>14. CASE RedisObeys
  <2>1. /\ Len(carries) > 1 /\ carries' = Tail(carries) /\ sent' = sent
        /\ UNCHANGED <<bus, phase, joined, pipe, screen, replayAt>>
    BY <1>14 DEF RedisObeys, readerVars
  <2>2. Len(carries') = Len(carries) - 1
    BY <1>2, <2>1, HeadTailProperties
  <2>3. Effective(c)' => joinAt'[c] = sent
    BY <1>2, <1>14, <2>1, <2>2 DEF RedisObeys, Effective
  <2> QED BY <1>1, <1>2, <2>1, <2>3 DEF LostInvOf
<1>15. CASE Listen
  <2>1. /\ UNCHANGED <<carries, phase, joined, screen, replayAt, joinAt>>
        /\ sent' = sent /\ bus # <<>> /\ bus' = Tail(bus)
        /\ pipe' = [x \in Clients |->
              IF x \in Receivers THEN Append(pipe[x], Head(bus)) ELSE pipe[x]]
    BY <1>15 DEF Listen, readerVars
  <2>2. /\ Head(bus) \in Chunks
        /\ \A n : Has(bus, n) => Has(bus', n) \/ n = Head(bus)
    <3>1. /\ Len(bus') = Len(bus) - 1 /\ Head(bus) = bus[1] /\ Head(bus) \in Chunks
          /\ \A i \in 1 .. Len(bus') : bus'[i] = bus[i + 1]
      BY <1>2, <2>1, HeadTailProperties
    <3>2. ASSUME NEW n, Has(bus, n) PROVE Has(bus', n) \/ n = Head(bus)
      <4>1. PICK i \in 1 .. Len(bus) : bus[i] = n
        BY <3>2 DEF Has
      <4>2. CASE i = 1
        BY <3>1, <4>1, <4>2
      <4>3. CASE i # 1
        <5>1. i - 1 \in 1 .. Len(bus') /\ bus'[i - 1] = n
          BY <1>2, <3>1, <4>1, <4>3
        <5> QED BY <5>1 DEF Has
      <4> QED BY <4>2, <4>3
    <3> QED BY <3>1, <3>2
  <2>3. CASE joined[c]
    <3>1. pipe'[c] = Append(pipe[c], Head(bus))
      BY <2>1, <2>3 DEF Receivers
    <3>2. \A n : Has(pipe[c], n) \/ n = Head(bus) => Has(pipe'[c], n)
      BY <1>2, <2>2, <3>1, AppendHas
    <3> QED BY <1>1, <2>1, <2>2, <3>2 DEF LostInvOf, Effective
  <2>4. CASE ~ joined[c]
    <3>1. pipe'[c] = pipe[c]
      BY <2>1, <2>4 DEF Receivers
    <3> QED BY <1>1, <2>1, <2>4, <3>1 DEF LostInvOf, Effective
  <2> QED BY <2>3, <2>4
<1>6. ASSUME NEW d \in Clients, d # c,
             \/ Subscribe(d) \/ Join(d) \/ Replay(d) \/ Disconnect(d)
             \/ \E i \in 1 .. PoolSize : Deliver(d, i)
     PROVE  LostInvOf(c)'
  <2>1. /\ phase'[c] = phase[c] /\ joined'[c] = joined[c] /\ pipe'[c] = pipe[c]
        /\ screen'[c] = screen[c] /\ replayAt'[c] = replayAt[c]
        /\ joinAt'[c] = joinAt[c] /\ sent' = sent /\ bus' = bus
    BY <1>2, <1>6
       DEF Subscribe, Join, Replay, Disconnect, Deliver, readerVars, redisVars
  <2>2. joined[c] => carries' = carries
    <3>1. joined[c] => ~ NobodyElse(d)
      BY <1>6 DEF NobodyElse
    <3> QED BY <1>6, <3>1 DEF Subscribe, Join, Replay, Disconnect, Deliver, redisVars
  <2> QED BY <1>1, <2>1, <2>2 DEF LostInvOf, Effective
<1>7. CASE Subscribe(c)
  BY <1>2, <1>7 DEF Subscribe, LostInvOf
<1>8. CASE Join(c)
  <2>1. /\ joined'[c] = TRUE /\ sent' = sent
        /\ UNCHANGED <<bus, phase, pipe, screen, replayAt>>
        /\ ~ joined[c]
    BY <1>2, <1>8 DEF Join, readerVars
  <2>2. Effective(c)' => joinAt'[c] = sent
    <3>1. CASE carries' = Append(carries, TRUE)
      <4>1. Len(carries') > 1
        BY <1>2, <3>1, LongerIsSeq
      <4> QED BY <1>2, <4>1 DEF Effective
    <3>2. CASE joinAt' = [joinAt EXCEPT ![c] = sent]
      BY <1>2, <3>2
    <3> QED BY <1>8, <3>1, <3>2 DEF Join, Order
  <2> QED BY <1>1, <1>2, <2>1, <2>2 DEF LostInvOf
<1>9. CASE Replay(c)
  <2>1. /\ screen'[c] = <<>> \o scrollback
        /\ replayAt'[c] = Len(scrollback) /\ sent' = sent
    BY <1>2, <1>9 DEF Replay, Cleared, readerVars
  <2>2. screen'[c] = scrollback
    BY <1>2, <2>1, ConcatEmptySeq
  <2>3. \A n \in 1 .. Len(scrollback) : Has(screen'[c], n)
    BY <1>2, <2>2 DEF Has
  <2> QED BY <1>2, <2>1, <2>3 DEF LostInvOf
<1>10. CASE Disconnect(c)
  BY <1>2, <1>10 DEF Disconnect, LostInvOf
<1>11. ASSUME NEW i \in 1 .. PoolSize, Deliver(c, i) PROVE LostInvOf(c)'
  <2>1. /\ i \in 1 .. Len(pipe[c])
        /\ screen'[c] = Append(screen[c], pipe[c][i])
        /\ pipe'[c] = RemoveAt(pipe[c], i)
        /\ UNCHANGED <<phase, joined, replayAt, joinAt, sent, bus, carries>>
    BY <1>2, <1>11 DEF Deliver, readerVars, redisVars
  <2>2. pipe[c][i] \in Chunks
    BY <1>2, <2>1
  <2>3. \A n : Has(screen[c], n) \/ n = pipe[c][i] => Has(screen'[c], n)
    BY <1>2, <2>1, <2>2, AppendHas
  <2>4. \A n : Has(pipe[c], n) => Has(pipe'[c], n) \/ n = pipe[c][i]
    BY <1>2, <2>1, RemoveAtHas
  <2> QED BY <1>1, <2>1, <2>3, <2>4 DEF LostInvOf, Effective
<1>12. CASE \E d \in Clients :
              \/ Subscribe(d) \/ Join(d) \/ Replay(d) \/ Disconnect(d)
              \/ \E i \in 1 .. PoolSize : Deliver(d, i)
  BY <1>6, <1>7, <1>8, <1>9, <1>10, <1>11, <1>12
<1>13. CASE UNCHANGED vars
  BY <1>3, <1>13 DEF vars, readerVars
<1> QED BY <1>3, <1>4, <1>5, <1>12, <1>13, <1>14, <1>15 DEF Next, Reader

\* A live browser misses a chunk only if the chunk was appended after its replay
\* and published before its stream was effective, whatever is on its way to
\* Redis and back.
THEOREM LostOnlyWhileJoiningAlways == Spec => []LostOnlyWhileJoining
<1>1. LostInv => LostOnlyWhileJoining
  BY DEF LostInv
<1> QED BY <1>1, BaseInit, BaseStep, LostInit, LostStep, PTL DEF Spec

-----------------------------------------------------------------------------
(* What a browser can be given twice.                                      *)

Places(q, n) == {i \in 1 .. Len(q) : q[i] = n}
Count(q, n) == Cardinality(Places(q, n))

LEMMA PlacesFinite ==
  ASSUME NEW S, NEW q \in Seq(S), NEW n
  PROVE  IsFiniteSet(Places(q, n)) /\ Count(q, n) \in Nat
<1>1. IsFiniteSet(1 .. Len(q))
  BY FS_Interval
<1>2. Places(q, n) \in SUBSET (1 .. Len(q))
  BY DEF Places
<1>3. IsFiniteSet(Places(q, n))
  BY <1>1, <1>2, FS_Subset
<1> QED BY <1>3, FS_CardinalityType DEF Count

\* An append adds one to the count of what is appended.
LEMMA AppendCount ==
  ASSUME NEW S, NEW q \in Seq(S), NEW x \in S, NEW n
  PROVE  Count(Append(q, x), n) = Count(q, n) + IF n = x THEN 1 ELSE 0
<1>1. /\ Len(Append(q, x)) = Len(q) + 1
      /\ Append(q, x)[Len(q) + 1] = x
      /\ \A i \in 1 .. Len(q) : Append(q, x)[i] = q[i]
      /\ Len(q) \in Nat
  OBVIOUS
<1>2. IsFiniteSet(Places(q, n)) /\ Count(q, n) \in Nat
  BY PlacesFinite
<1>3. Len(q) + 1 \notin Places(q, n)
  BY <1>1 DEF Places
<1> DEFINE p == Append(q, x)
<1> HIDE DEF p
<1>4. /\ Len(p) = Len(q) + 1 /\ p[Len(q) + 1] = x
      /\ \A i \in 1 .. Len(q) : p[i] = q[i]
  BY <1>1 DEF p
<1>5. CASE n = x
  <2>1. Places(p, n) = Places(q, n) \cup {Len(q) + 1}
    BY <1>1, <1>4, <1>5 DEF Places
  <2>2. Cardinality(Places(q, n) \cup {Len(q) + 1}) = Cardinality(Places(q, n)) + 1
    BY <1>2, <1>3, FS_AddElement
  <2> QED BY <1>5, <2>1, <2>2 DEF Count, p
<1>6. CASE n # x
  <2>1. Places(p, n) = Places(q, n)
    BY <1>1, <1>4, <1>6 DEF Places
  <2> QED BY <1>2, <1>6, <2>1 DEF Count, p
<1> QED BY <1>5, <1>6

\* RemoveAt takes one from the count of what it takes out, and adds to none.
LEMMA RemoveAtCount ==
  ASSUME NEW S, NEW q \in Seq(S), NEW i \in 1 .. Len(q), NEW n
  PROVE  Count(RemoveAt(q, i), n) + (IF n = q[i] THEN 1 ELSE 0) <= Count(q, n)
<1> DEFINE r == RemoveAt(q, i)
           D == Places(q, n) \ {i}
           f == [k \in Places(r, n) |-> IF k < i THEN k ELSE k + 1]
<1>1. /\ r \in Seq(S) /\ Len(r) = Len(q) - 1 /\ Len(q) \in Nat /\ i \in Nat
      /\ \A k \in 1 .. Len(r) : r[k] = IF k < i THEN q[k] ELSE q[k + 1]
  BY RemoveAtShifts
<1>2. IsFiniteSet(Places(q, n)) /\ Count(q, n) \in Nat
  BY PlacesFinite
<1>3. Count(r, n) \in Nat
  BY <1>1, PlacesFinite
<1> HIDE DEF r
<1>4. \A k \in Places(r, n) : f[k] \in D
  BY <1>1 DEF Places
<1>5. \A k, l \in Places(r, n) : f[k] = f[l] => k = l
  BY <1>1 DEF Places
<1>6. f \in Injection(Places(r, n), D)
  BY <1>4, <1>5 DEF Injection, IsInjective
<1>7. IsFiniteSet(D) /\ Cardinality(D) = IF i \in Places(q, n) THEN Count(q, n) - 1
                                                           ELSE Count(q, n)
  BY <1>2, FS_RemoveElement DEF Count
<1> HIDE DEF D, f
<1>8. Count(r, n) <= Cardinality(D)
  BY <1>6, <1>7, FS_Injection DEF Count
<1>9. n = q[i] <=> i \in Places(q, n)
  BY DEF Places
<1> QED BY <1>2, <1>3, <1>7, <1>8, <1>9 DEF r

\* The scrollback holds a chunk at most once.
LEMMA OutputCount ==
  ASSUME NEW S, NEW q \in Seq(S), \A i \in 1 .. Len(q) : q[i] = i, NEW n \in Nat
  PROVE  Count(q, n) <= IF n <= Len(q) THEN 1 ELSE 0
<1>1. CASE n <= Len(q)
  <2>1. Places(q, n) \in SUBSET {n}
    BY DEF Places
  <2>2. IsFiniteSet({n}) /\ Cardinality({n}) = 1
    BY FS_Singleton
  <2> QED BY <1>1, <2>1, <2>2, FS_Subset DEF Count
<1>2. CASE ~ n <= Len(q)
  <2>1. Places(q, n) = {}
    BY <1>2 DEF Places
  <2> QED BY <1>2, <2>1, FS_EmptySet DEF Count
<1> QED BY <1>1, <1>2

LEMMA EmptyCount == \A n : Count(<<>>, n) = 0
<1>1. \A n : Places(<<>>, n) = {}
  BY DEF Places
<1> QED BY <1>1, FS_EmptySet DEF Count

\* The chunks a browser's stream may have brought it: those that came back from
\* Redis since it was connected
Due(c, n) == IF joined[c] /\ heardAt[c] < n /\ n <= Heard THEN 1 ELSE 0
Replayed(c, n) == IF n <= replayAt[c] THEN 1 ELSE 0

\* A chunk is queued for a browser at most once, if it came back after its
\* stream was connected; a live browser has it once more at most, if the
\* scrollback it was sent held it.
TwiceInvOf(c, n) ==
  /\ Count(pipe[c], n) <= Due(c, n)
  /\ phase[c] = "live" =>
       Count(screen[c], n) + Count(pipe[c], n) <= Replayed(c, n) + Due(c, n)

TwiceInv ==
  \A c \in Clients : heardAt[c] <= Heard /\ \A n \in Chunks : TwiceInvOf(c, n)

LEMMA TwiceInit == Init => TwiceInv
BY EmptyCount DEF Init, TwiceInv, TwiceInvOf, Due, Replayed, Heard

LEMMA TwiceStep ==
  ASSUME BaseInv, BaseInv', TwiceInv, [Next]_vars
  PROVE  TwiceInv'
<1> USE DEF BaseInv
<1> SUFFICES ASSUME NEW c \in Clients
             PROVE  heardAt'[c] <= Heard' /\ \A n \in Chunks : TwiceInvOf(c, n)'
  BY DEF TwiceInv, Chunks
<1>2. /\ pipe \in [Clients -> Seq(Chunks)] /\ screen \in [Clients -> Seq(Chunks)]
      /\ phase \in [Clients -> {"away", "replay", "live"}]
      /\ joined \in [Clients -> BOOLEAN]
      /\ replayAt \in [Clients -> 0 .. MaxChunks]
      /\ heardAt \in [Clients -> 0 .. MaxChunks]
      /\ scrollback \in Seq(Chunks)
      /\ \A i \in 1 .. Len(scrollback) : scrollback[i] = i
  BY DEF ReaderInv, TypeOK, ScrollbackIsOutput
<1>4. /\ Heard \in Nat /\ Heard' \in Nat /\ Heard <= Heard'
      /\ heardAt[c] \in Nat /\ heardAt[c] <= Heard
  <2>1. /\ sent \in Nat /\ sent' \in Nat
        /\ bus \in Seq(Chunks) /\ bus' \in Seq(Chunks)
    BY ConstantsOK DEF ReaderInv, TypeOK, Chunks
  <2>2. Heard \in Nat
    BY <2>1, HeardBeforeBus
  <2>3. bus' # <<>> => Head(bus') \in Chunks
    BY <2>1, HeadTailProperties
  <2>4. Heard' \in Nat
    BY <2>1, <2>3 DEF Heard, Chunks
  <2> QED BY <1>2, <2>2, <2>4, BusStep DEF TwiceInv
<1>17. heardAt'[c] <= Heard'
  <2>1. ASSUME NEW d \in Clients,
              \/ Subscribe(d) \/ Join(d) \/ Replay(d) \/ Disconnect(d)
              \/ \E i \in 1 .. PoolSize : Deliver(d, i)
       PROVE  heardAt'[c] \in {heardAt[c], Heard, 0}
    BY <1>2, <2>1 DEF Subscribe, Join, Replay, Disconnect, Deliver
  <2>2. ASSUME \/ ShellPrints \/ Read \/ AppendScrollback \/ BroadcastOutput \/ ReadFails
               \/ Kill \/ RedisObeys \/ Listen \/ UNCHANGED vars
       PROVE  heardAt' = heardAt
    BY <2>2 DEF ShellPrints, Read, AppendScrollback, BroadcastOutput, ReadFails, Kill,
         RedisObeys, Listen, vars, clientVars
  <2>3. heardAt'[c] \in {heardAt[c], Heard, 0}
    BY <2>1, <2>2 DEF Next, Reader
  <2> QED BY <1>4, <2>3
<1> SUFFICES ASSUME NEW n \in Chunks PROVE TwiceInvOf(c, n)'
  BY <1>17 DEF Chunks
<1>1. TwiceInvOf(c, n)
  BY DEF TwiceInv
<1>3. /\ pipe[c] \in Seq(Chunks) /\ screen[c] \in Seq(Chunks)
      /\ Count(pipe[c], n) \in Nat /\ Count(screen[c], n) \in Nat /\ n \in Nat
  BY <1>2, PlacesFinite DEF Chunks
<1>5. CASE /\ phase'[c] = phase[c] /\ joined'[c] = joined[c] /\ pipe'[c] = pipe[c]
           /\ screen'[c] = screen[c] /\ replayAt'[c] = replayAt[c]
           /\ heardAt'[c] = heardAt[c]
  <2>1. Due(c, n) \in Nat /\ Due(c, n)' \in Nat /\ Due(c, n) <= Due(c, n)'
    BY <1>3, <1>4, <1>5 DEF Due
  <2>2. Replayed(c, n)' = Replayed(c, n) /\ Replayed(c, n) \in Nat
    BY <1>5 DEF Replayed
  <2> QED BY <1>1, <1>3, <1>5, <2>1, <2>2 DEF TwiceInvOf
<1>6. CASE \/ ShellPrints \/ Read \/ AppendScrollback \/ BroadcastOutput \/ ReadFails
           \/ Kill \/ RedisObeys \/ UNCHANGED vars
  BY <1>5, <1>6 DEF ShellPrints, Read, AppendScrollback, BroadcastOutput, ReadFails, Kill,
       RedisObeys, vars, clientVars
<1>7. CASE Listen
  <2>1. /\ UNCHANGED <<phase, joined, screen, replayAt, heardAt>>
        /\ Head(bus) \in Chunks /\ Heard = Head(bus) - 1 /\ Head(bus) <= Heard'
    BY <1>7, ListenAdvances DEF Listen
  <2>2. pipe' = [x \in Clients |->
                  IF x \in Receivers THEN Append(pipe[x], Head(bus)) ELSE pipe[x]]
    BY <1>7 DEF Listen
  <2>3. CASE ~ joined[c]
    <3>1. pipe'[c] = pipe[c]
      BY <2>2, <2>3 DEF Receivers
    <3> QED BY <1>5, <2>1, <3>1
  <2>4. CASE joined[c]
    <3> DEFINE one == IF n = Head(bus) THEN 1 ELSE 0
    <3>1. pipe'[c] = Append(pipe[c], Head(bus))
      BY <2>2, <2>4 DEF Receivers
    <3>2. Count(pipe'[c], n) = Count(pipe[c], n) + one
      BY <1>3, <2>1, <3>1, AppendCount
    <3>3. Due(c, n) \in Nat /\ Due(c, n)' \in Nat /\ Due(c, n) + one <= Due(c, n)'
      BY <1>3, <1>4, <2>1, <2>4 DEF Due, Chunks
    <3>4. Replayed(c, n)' = Replayed(c, n) /\ Replayed(c, n) \in Nat
      BY <2>1 DEF Replayed
    <3>5. one \in Nat
      OBVIOUS
    <3> HIDE DEF one
    <3> QED BY <1>1, <1>3, <2>1, <3>2, <3>3, <3>4, <3>5 DEF TwiceInvOf
  <2> QED BY <2>3, <2>4
<1>8. ASSUME NEW d \in Clients, d # c,
             \/ Subscribe(d) \/ Join(d) \/ Replay(d) \/ Disconnect(d)
             \/ \E i \in 1 .. PoolSize : Deliver(d, i)
     PROVE  TwiceInvOf(c, n)'
  BY <1>2, <1>5, <1>8 DEF Subscribe, Join, Replay, Disconnect, Deliver
<1>9. CASE Subscribe(c)
  <2>1. /\ phase'[c] = "replay"
        /\ UNCHANGED <<bus, sent, joined, pipe, screen, replayAt, heardAt>>
    BY <1>2, <1>9 DEF Subscribe, readerVars, redisVars
  <2>2. Due(c, n)' = Due(c, n)
    BY <2>1 DEF Due, Heard
  <2> QED BY <1>1, <2>1, <2>2 DEF TwiceInvOf
<1>10. CASE Join(c)
  <2>1. /\ joined'[c] = TRUE /\ heardAt'[c] = Heard /\ Heard' = Heard
        /\ UNCHANGED <<phase, pipe, screen, replayAt>>
        /\ ~ joined[c]
    BY <1>2, <1>10 DEF Join, readerVars, Heard
  <2>2. Due(c, n)' = Due(c, n) /\ Replayed(c, n)' = Replayed(c, n)
    BY <1>3, <1>4, <2>1 DEF Due, Replayed
  <2> QED BY <1>1, <2>1, <2>2 DEF TwiceInvOf
<1>11. CASE Replay(c)
  <2>1. /\ screen'[c] = <<>> \o scrollback
        /\ replayAt'[c] = Len(scrollback)
        /\ UNCHANGED <<bus, sent, joined, pipe, heardAt>>
    BY <1>2, <1>11 DEF Replay, Cleared, readerVars, redisVars
  <2>2. screen'[c] = scrollback
    BY <1>2, <2>1, ConcatEmptySeq
  <2>3. Count(scrollback, n) <= IF n <= Len(scrollback) THEN 1 ELSE 0
    BY <1>2, <1>3, OutputCount
  <2>4. Count(screen'[c], n) <= Replayed(c, n)'
    BY <2>1, <2>2, <2>3 DEF Replayed
  <2>5. Due(c, n)' = Due(c, n) /\ Due(c, n) \in Nat
    BY <2>1 DEF Due, Heard
  <2>6. Replayed(c, n)' \in Nat /\ Count(screen'[c], n) \in Nat
    BY <1>2, <2>2, PlacesFinite DEF Replayed
  <2>7. Count(pipe[c], n) <= Due(c, n)
    BY <1>1 DEF TwiceInvOf
  <2>8. Count(screen'[c], n) + Count(pipe[c], n) <= Replayed(c, n)' + Due(c, n)
    BY <1>3, <2>4, <2>5, <2>6, <2>7
  <2> QED BY <2>1, <2>5, <2>7, <2>8 DEF TwiceInvOf
<1>12. CASE Disconnect(c)
  <2>1. phase'[c] = "away" /\ pipe'[c] = <<>>
    BY <1>2, <1>12 DEF Disconnect
  <2>2. Count(pipe'[c], n) = 0
    BY <2>1, EmptyCount
  <2>3. Due(c, n)' \in Nat
    BY DEF Due
  <2> QED BY <2>1, <2>2, <2>3 DEF TwiceInvOf
<1>13. ASSUME NEW i \in 1 .. PoolSize, Deliver(c, i) PROVE TwiceInvOf(c, n)'
  <2>1. /\ i \in 1 .. Len(pipe[c])
        /\ screen'[c] = Append(screen[c], pipe[c][i])
        /\ pipe'[c] = RemoveAt(pipe[c], i)
        /\ UNCHANGED <<phase, joined, replayAt, heardAt, sent, bus>>
    BY <1>2, <1>13 DEF Deliver, readerVars, redisVars
  <2>2. pipe[c][i] \in Chunks
    BY <1>3, <2>1
  <2> DEFINE one == IF n = pipe[c][i] THEN 1 ELSE 0
  <2>3. Count(Append(screen[c], pipe[c][i]), n) = Count(screen[c], n) + one
    BY <1>3, <2>2, AppendCount
  <2>4. Count(RemoveAt(pipe[c], i), n) + one <= Count(pipe[c], n)
    BY <1>3, <2>1, RemoveAtCount
  <2>5. RemoveAt(pipe[c], i) \in Seq(Chunks)
    BY <1>3, <2>1, RemoveAtKeepsOthers
  <2>6. Count(RemoveAt(pipe[c], i), n) \in Nat
    BY <2>5, PlacesFinite
  <2>7. Due(c, n)' = Due(c, n) /\ Replayed(c, n)' = Replayed(c, n)
        /\ Due(c, n) \in Nat /\ Replayed(c, n) \in Nat
    BY <2>1 DEF Due, Replayed, Heard
  <2>8. one \in Nat
    OBVIOUS
  <2> HIDE DEF one
  <2>9. /\ Count(pipe'[c], n) = Count(RemoveAt(pipe[c], i), n)
        /\ Count(screen'[c], n) = Count(screen[c], n) + one
    BY <2>1, <2>3
  <2> DEFINE p == Count(pipe'[c], n)
             q == Count(screen'[c], n)
  <2> HIDE DEF p, q
  <2>10. /\ p <= Count(pipe[c], n)
         /\ q + p <= Count(screen[c], n) + Count(pipe[c], n)
         /\ p \in Nat /\ q \in Nat
    BY <1>3, <2>4, <2>6, <2>8, <2>9 DEF p, q
  <2>11. /\ p <= Due(c, n)
         /\ phase[c] = "live" => q + p <= Replayed(c, n) + Due(c, n)
    BY <1>1, <1>3, <2>7, <2>10 DEF TwiceInvOf
  <2> QED BY <2>1, <2>7, <2>11 DEF TwiceInvOf, p, q
<1>14. CASE \E d \in Clients :
              \/ Subscribe(d) \/ Join(d) \/ Replay(d) \/ Disconnect(d)
              \/ \E i \in 1 .. PoolSize : Deliver(d, i)
  BY <1>8, <1>9, <1>10, <1>11, <1>12, <1>13, <1>14
<1> QED BY <1>6, <1>7, <1>14 DEF Next, Reader

\* A live browser is given a chunk twice only if it was in the scrollback it was
\* sent and came back from Redis after its stream was connected, and never three
\* times: also a chunk that was published before.
THEOREM TwiceOnlyWhileJoiningAlways == Spec => []TwiceOnlyWhileJoining
<1>1. BaseInv /\ TwiceInv => TwiceOnlyWhileJoining
  <2> SUFFICES ASSUME ReaderInv, TwiceInv, NEW c \in Clients, phase[c] = "live",
                      NEW n \in 1 .. taken
               PROVE  /\ Copies(c, n) <= 2
                      /\ Copies(c, n) = 2 => heardAt[c] < n /\ n <= replayAt[c]
    BY DEF BaseInv, TwiceOnlyWhileJoining
  <2>1. n \in Chunks
    BY ConstantsOK DEF ReaderInv, TypeOK, Chunks
  <2>2. /\ Copies(c, n) = Count(screen[c], n) + Count(pipe[c], n)
        /\ Count(screen[c], n) \in Nat /\ Count(pipe[c], n) \in Nat
    <3>1. pipe[c] \in Seq(Chunks) /\ screen[c] \in Seq(Chunks)
      BY DEF ReaderInv, TypeOK
    <3>2. Copies(c, n) = Count(screen[c], n) + Count(pipe[c], n)
      BY DEF Copies, Count, Places
    <3> QED BY <3>1, <3>2, PlacesFinite
  <2>3. Copies(c, n) <= Replayed(c, n) + Due(c, n)
    BY <2>1, <2>2 DEF TwiceInv, TwiceInvOf
  <2> QED BY <2>2, <2>3 DEF Replayed, Due
<1> QED BY <1>1, BaseInit, BaseStep, TwiceInit, TwiceStep, PTL DEF Spec
=============================================================================
