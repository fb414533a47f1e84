------------------------- MODULE NaluReceiveProofs -------------------------
(* Proofs about NaluReceive, for every number and size of frames, every    *)
(* packet size and every number of pool threads.                           *)
EXTENDS NaluReceive, FiniteSetTheorems, NaturalsInduction, WellFoundedInduction, TLAPS

USE NaluReceiveAssumption
-----------------------------------------------------------------------------
(* Packets.                                                                *)

\* NUM_PACK is the number of packets of MaxBody bytes that hold size bytes.
LEMMA NumPackFacts ==
  ASSUME NEW size \in Nat \ {0}
  PROVE  /\ NUM_PACK(size) \in Nat \ {0}
         /\ (NUM_PACK(size) - 1) * MaxBody < size
         /\ size <= NUM_PACK(size) * MaxBody
  <1> DEFINE a == size + MaxBody - 1
             q == a \div MaxBody
  <1>1. a \in Nat /\ MaxBody \in Nat /\ MaxBody > 0
    OBVIOUS
  <1>2. q \in Int /\ MaxBody * q <= a /\ a < MaxBody * q + MaxBody
    BY <1>1
  <1>. QED BY <1>1, <1>2 DEF NUM_PACK

\* What the fields of a data packet say, and that its body is not empty.
LEMMA PushFacts ==
  ASSUME NEW f \in Frames, NEW i \in 0 .. NUM_PACK(FrameSize[f]) - 1
  PROVE  LET p == PushPacket(f, i) IN
         /\ p \in Packets
         /\ p.type = "Push" /\ p.timestamp = f /\ p.size = FrameSize[f]
         /\ p.seq = i * MaxBody /\ p.seq \in Nat
         /\ p.MP = (i # NUM_PACK(FrameSize[f]) - 1)
         /\ BODY_SIZE(p) \in Nat \ {0}
         /\ <<p.seq, p.timestamp>> \in Chunks(f)
  <1> DEFINE n == NUM_PACK(FrameSize[f])
  <1>1. FrameSize[f] \in Nat \ {0}
    BY DEF Frames
  <1>2. n \in Nat \ {0} /\ (n - 1) * MaxBody < FrameSize[f]
    BY <1>1, NumPackFacts
  <1>3. i \in Nat /\ i * MaxBody \in Nat
    BY <1>2
  <1>4. PushPacket(f, i) \in Packets
    BY DEF Packets, FramePackets
  <1>5. BODY_SIZE(PushPacket(f, i)) \in Nat \ {0}
    <2>1. CASE i = n - 1
      BY <2>1, <1>1, <1>2, <1>3 DEF BODY_SIZE, PushPacket
    <2>2. CASE i # n - 1
      BY <2>2 DEF BODY_SIZE, PushPacket
    <2>. QED BY <2>1, <2>2
  <1>. HIDE DEF n
  <1>6. <<i * MaxBody, f>> \in Chunks(f)
    BY DEF Chunks
  <1>. QED BY <1>3, <1>4, <1>5, <1>6 DEF PushPacket

\* A packet is Fin or a data packet of one of the frames.
LEMMA PacketCases ==
  ASSUME NEW p \in Packets
  PROVE  \/ p = FinPacket
         \/ \E f \in Frames : \E i \in 0 .. NUM_PACK(FrameSize[f]) - 1 :
              p = PushPacket(f, i)
  BY DEF Packets, FramePackets

\* What a packet of the sender's loop is: a part of a frame of that frame's size, or Fin.
LEMMA PacketFacts ==
  ASSUME NEW p \in Packets
  PROVE  /\ p.timestamp \in 1 .. NumFrames + 1 /\ p.seq \in Nat
         /\ p.type = "Push" => /\ p.timestamp \in Frames
                               /\ p.size = FrameSize[p.timestamp]
                               /\ BODY_SIZE(p) \in Nat \ {0}
                               /\ <<p.seq, p.timestamp>> \in Chunks(p.timestamp)
         /\ p.type # "Push" => p = FinPacket
  <1>1. CASE p = FinPacket
    BY <1>1 DEF FinPacket
  <1>2. CASE \E f \in Frames : \E i \in 0 .. NUM_PACK(FrameSize[f]) - 1 :
               p = PushPacket(f, i)
    <2>1. PICK f \in Frames :
               \E i \in 0 .. NUM_PACK(FrameSize[f]) - 1 : p = PushPacket(f, i)
      BY <1>2
    <2>2. PICK i \in 0 .. NUM_PACK(FrameSize[f]) - 1 : p = PushPacket(f, i)
      BY <2>1
    <2>. QED BY <2>2, PushFacts DEF Frames
  <1>. QED BY <1>1, <1>2, PacketCases

\* Time stamp and seq, by which the queue orders, are numbers.
LEMMA KeyTypes ==
  ASSUME NEW p \in Packets
  PROVE  p.timestamp \in 1 .. NumFrames + 1 /\ p.seq \in Nat
  BY PacketFacts

\* A Push packet belongs to a frame.
LEMMA PushInFrames ==
  ASSUME NEW p \in Packets, p.type = "Push"
  PROVE  p.timestamp \in Frames
  BY PacketFacts

\* The only other packet is Fin.
LEMMA FinIsOnlyOther ==
  ASSUME NEW p \in Packets, p.type # "Push"
  PROVE  p = FinPacket
  BY PacketFacts

\* Time stamp and seq identify a packet.
LEMMA PacketKey ==
  ASSUME NEW p \in Packets, NEW q \in Packets,
         p.timestamp = q.timestamp, p.seq = q.seq
  PROVE  p = q
  <1>1. ASSUME NEW r \in Packets, r.timestamp = NumFrames + 1
        PROVE  r = FinPacket
    <2>1. r.type # "Push"
      BY <1>1, PushInFrames DEF Frames
    <2>. QED BY <2>1, FinIsOnlyOther
  <1>2. CASE p = FinPacket \/ q = FinPacket
    <2>1. p.timestamp = NumFrames + 1 /\ q.timestamp = NumFrames + 1
      BY <1>2 DEF FinPacket
    <2>. QED BY <1>1, <2>1
  <1>3. CASE ~(p = FinPacket \/ q = FinPacket)
    <2>1. PICK f \in Frames :
               \E i \in 0 .. NUM_PACK(FrameSize[f]) - 1 : p = PushPacket(f, i)
      BY <1>3, PacketCases
    <2>2. PICK i \in 0 .. NUM_PACK(FrameSize[f]) - 1 : p = PushPacket(f, i)
      BY <2>1
    <2>3. PICK g \in Frames :
               \E j \in 0 .. NUM_PACK(FrameSize[g]) - 1 : q = PushPacket(g, j)
      BY <1>3, PacketCases
    <2>4. PICK j \in 0 .. NUM_PACK(FrameSize[g]) - 1 : q = PushPacket(g, j)
      BY <2>3
    <2>5. f = g /\ i * MaxBody = j * MaxBody
      BY <2>2, <2>4 DEF PushPacket
    <2>6. i \in Int /\ j \in Int
      BY DEF Frames
    <2>7. i = j
      BY <2>5, <2>6
    <2>. QED BY <2>2, <2>4, <2>5, <2>7
  <1>. QED BY <1>2, <1>3

\* The order of the queue is total on packets, so a queue that is not empty
\* has exactly one first packet.
LEMMA NatLeast ==
  ASSUME NEW T, T \subseteq Nat, T # {}
  PROVE  \E x \in T : \A y \in T : x <= y
  <1>1. IsWellFoundedOn(OpToRel(<, Nat), Nat)
    BY NatLessThanWellFounded
  <1>2. PICK x \in T : \A y \in T : ~(<<y, x>> \in OpToRel(<, Nat))
    BY <1>1, WFMin
  <1>3. ASSUME NEW y \in T PROVE x <= y
    <2>1. ~(y < x)
      BY <1>2 DEF OpToRel
    <2>. QED BY <2>1
  <1>. QED BY <1>3

\* The comparison of the priority queue orders any two packets.
LEMMA BeforeTotal ==
  ASSUME NEW p \in Packets, NEW q \in Packets, p # q, ~Before(q, p)
  PROVE  Before(p, q)
  <1>1. p.timestamp # q.timestamp \/ p.seq # q.seq
    BY PacketKey
  <1>. QED BY <1>1, KeyTypes DEF Before

\* It never orders two packets both ways.
LEMMA BeforeStrict ==
  ASSUME NEW p \in Packets, NEW q \in Packets, Before(p, q)
  PROVE  p # q /\ ~Before(q, p)
  BY KeyTypes DEF Before

\* It is transitive.
LEMMA BeforeTransitive ==
  ASSUME NEW p \in Packets, NEW q \in Packets, NEW r \in Packets,
         Before(p, q), Before(q, r)
  PROVE  Before(p, r)
  BY KeyTypes DEF Before

\* top() returns the packet of a queue that is before all others.
LEMMA TopExists ==
  ASSUME NEW que, que \subseteq Packets, que # {}
  PROVE  /\ Top(que) \in que
         /\ \A q \in que : q # Top(que) => Before(Top(que), q)
  <1> DEFINE T == {p.timestamp : p \in que}
  <1>1. PICK t \in T : \A u \in T : t <= u
    <2>1. T \subseteq Nat /\ T # {}
      BY KeyTypes
    <2>. HIDE DEF T
    <2>. QED BY <2>1, NatLeast
  <1> DEFINE S == {p.seq : p \in {r \in que : r.timestamp = t}}
  <1>2. PICK s \in S : \A u \in S : s <= u
    <2>1. S \subseteq Nat /\ S # {}
      BY KeyTypes
    <2>. HIDE DEF S
    <2>. QED BY <2>1, NatLeast
  <1>3. PICK p \in que : p.timestamp = t /\ p.seq = s
    OBVIOUS
  <1>4. ASSUME NEW q \in que, q # p PROVE Before(p, q)
    <2>1. p.timestamp <= q.timestamp
      BY <1>1, <1>3
    <2>2. p.timestamp = q.timestamp => p.seq <= q.seq
      BY <1>2, <1>3
    <2>3. ~Before(q, p)
      BY <2>1, <2>2, KeyTypes DEF Before
    <2>. QED BY <1>4, <2>3, BeforeTotal
  <1>. QED BY <1>4 DEF Top
-----------------------------------------------------------------------------
(* Type correctness.                                                       *)

\* A Push packet carries some bytes, and the size of its frame.
LEMMA PushSizes ==
  ASSUME NEW p \in Packets, p.type = "Push"
  PROVE  /\ p.size = FrameSize[p.timestamp] /\ p.size \in Nat \ {0}
         /\ BODY_SIZE(p) \in Nat \ {0}
  <1>1. p.timestamp \in Frames /\ p.size = FrameSize[p.timestamp]
        /\ BODY_SIZE(p) \in Nat \ {0}
    BY PacketFacts
  <1>. QED BY <1>1 DEF Frames

\* Copying a packet into the frame under construction keeps its type.
LEMMA CombineType ==
  ASSUME NEW fr \in FrameRecords, NEW p \in Packets, p.type = "Push"
  PROVE  Combine(fr, p) \in FrameRecords
  <1>1. p.timestamp \in Frames /\ p.seq \in Nat
    BY KeyTypes, PushInFrames
  <1>2. p.size \in Nat /\ BODY_SIZE(p) \in Nat
    BY PushSizes
  <1>3. p.timestamp \in 0 .. NumFrames
    BY <1>1 DEF Frames
  <1> DEFINE start == IF p.seq = 0
                        THEN [timestamp |-> p.timestamp, size |-> p.size,
                              data |-> {}, totalSize |-> 0]
                        ELSE fr
  <1>4. start \in FrameRecords
    BY <1>2, <1>3 DEF FrameRecords
  <1>5. start.data \cup {<<p.seq, p.timestamp>>} \in SUBSET (Nat \X Frames)
    BY <1>1, <1>4 DEF FrameRecords
  <1>6. start.totalSize + BODY_SIZE(p) \in Nat
    BY <1>2, <1>4 DEF FrameRecords
  <1>. HIDE DEF start
  <1>7. [start EXCEPT !.data = @ \cup {<<p.seq, p.timestamp>>},
                      !.totalSize = @ + BODY_SIZE(p)] \in FrameRecords
    BY <1>4, <1>5, <1>6 DEF FrameRecords
  <1>. QED BY <1>4, <1>7 DEF Combine, start

\* Every frame has a packet.
LEMMA PackCount ==
  ASSUME NEW f \in Frames
  PROVE  NUM_PACK(FrameSize[f]) \in Nat \ {0}
  <1>1. FrameSize[f] \in Nat \ {0}
    BY DEF Frames
  <1>. QED BY <1>1, NumPackFacts

\* Fin is among the packets of the stream.
LEMMA FinInPackets == FinPacket \in Packets
  BY DEF Packets

\* Every thread keeps the shared state within its types; in particular the
\* decoder thread never calls pop() on an empty queue.
LEMMA ReadEffect ==
  ASSUME TypeOK, ReadCallback
  PROVE  /\ net # <<>>
         /\ UNCHANGED <<encFrame, encPack, running, priQue, lost, pc, ptrPacket, frame, accepted, raced>>
         /\ \/ work' = Append(work, Head(net)) /\ net' = Tail(net)
            \/ work' = work /\ net' = Tail(net)
            \/ work' = work /\ net' = net
         /\ taken' \in 0 .. 1 /\ buffered' \in Nat /\ taken' + buffered' <= 2 * Len(net')
  <1>1. PICK n \in 1 .. 2 * Len(net) - taken - buffered :
          \/ /\ buffered + n = 1
             /\ taken' = 1 - taken /\ buffered' = 0
             /\ net' = IF taken = 1 THEN Tail(net) ELSE net
             /\ UNCHANGED <<encVars, poolVars, priQue, lost, decVars>>
          \/ /\ buffered + n >= 2
             /\ buffered' = buffered + n - 2
             /\ net' = Tail(net)
             /\ work' = IF taken = 0 THEN Append(work, Head(net)) ELSE work
             /\ UNCHANGED <<encVars, taken, running, priQue, lost, decVars>>
    BY DEF ReadCallback
  <1>2. net \in Seq(Packets) /\ taken \in 0 .. 1 /\ buffered \in Nat /\ n \in Nat /\ n >= 1 /\ Len(net) \in Nat
        /\ n <= 2 * Len(net) - taken - buffered
    BY <1>1 DEF TypeOK
  <1>3. net # <<>> /\ Len(Tail(net)) = Len(net) - 1
    BY <1>2
  <1>4. UNCHANGED <<encFrame, encPack, running, priQue, lost, pc, ptrPacket, frame, accepted, raced>>
    BY <1>1 DEF encVars, poolVars, decVars
  <1>5. \/ work' = Append(work, Head(net)) /\ net' = Tail(net)
        \/ work' = work /\ net' = Tail(net)
        \/ work' = work /\ net' = net
    BY <1>1 DEF poolVars
  <1>6. taken' \in 0 .. 1 /\ buffered' \in Nat /\ taken' + buffered' <= 2 * Len(net')
    BY <1>1, <1>2, <1>3
  <1>. QED BY <1>3, <1>4, <1>5, <1>6

\* Sender, dispatcher, pool and get_next_nalu keep their types; in particular pop()
\* is never called on an empty queue, because only the decoder thread removes packets.
THEOREM TypeCorrect == Spec => []TypeOK
  <1>1. Init => TypeOK
    <2> SUFFICES ASSUME Init PROVE TypeOK
      OBVIOUS
    <2>1. 1 \in Frames => 0 < NUM_PACK(FrameSize[1])
      BY PackCount
    <2>2. NoFrame \in FrameRecords
      BY DEF NoFrame, FrameRecords
    <2>3. /\ encFrame \in 1 .. NumFrames + 2 /\ encPack \in Nat
          /\ encFrame \in Frames => encPack < NUM_PACK(FrameSize[encFrame])
      BY <2>1 DEF Init
    <2>4. net \in Seq(Packets) /\ work \in Seq(Packets)
          /\ accepted \in Seq(FrameRecords)
      BY DEF Init
    <2>5. ptrPacket \in Packets /\ frame \in FrameRecords
      BY <2>2, FinInPackets DEF Init
    <2>6. taken \in 0 .. 1 /\ buffered \in Nat /\ taken + buffered <= 2 * Len(net)
      BY DEF Init
    <2>. QED BY <2>3, <2>4, <2>5, <2>6 DEF Init, TypeOK
  <1>2. TypeOK /\ [Next]_vars => TypeOK'
    <2> SUFFICES ASSUME TypeOK, [Next]_vars PROVE TypeOK'
      OBVIOUS
    <2>1. CASE SendPacket
      <3>1. encPack \in 0 .. NUM_PACK(FrameSize[encFrame]) - 1
        BY <2>1, PackCount DEF SendPacket, TypeOK
      <3>2. PushPacket(encFrame, encPack) \in Packets
        BY <2>1, <3>1, PushFacts DEF SendPacket
      <3>3. net' \in Seq(Packets)
        BY <2>1, <3>2 DEF SendPacket, TypeOK
      <3>4. /\ encFrame' \in 1 .. NumFrames + 2 /\ encPack' \in Nat
            /\ encFrame' \in Frames => encPack' < NUM_PACK(FrameSize[encFrame'])
        <4>1. CASE encPack = NUM_PACK(FrameSize[encFrame]) - 1
          <5>1. encFrame' = encFrame + 1 /\ encPack' = 0
            BY <2>1, <4>1 DEF SendPacket
          <5>2. encFrame + 1 \in Frames => 0 < NUM_PACK(FrameSize[encFrame + 1])
            BY PackCount
          <5>3. encFrame \in 1 .. NumFrames
            BY <2>1 DEF SendPacket, Frames
          <5>. QED BY <5>1, <5>2, <5>3
        <4>2. CASE encPack # NUM_PACK(FrameSize[encFrame]) - 1
          <5>1. encFrame' = encFrame /\ encPack' = encPack + 1
            BY <2>1, <4>2 DEF SendPacket
          <5>2. NUM_PACK(FrameSize[encFrame]) \in Nat
            BY <2>1, PackCount DEF SendPacket
          <5>3. encPack + 1 < NUM_PACK(FrameSize[encFrame])
            BY <5>2, <3>1, <4>2
          <5>. QED BY <5>1, <5>3 DEF TypeOK
        <4>. QED BY <4>1, <4>2
      <3>. QED BY <2>1, <3>3, <3>4 DEF SendPacket, TypeOK, poolVars, decVars
    <2>2. CASE SendFin
      BY <2>2, FinInPackets DEF SendFin, TypeOK, poolVars, decVars, Frames
    <2>3. CASE ReadCallback
      <3>1. net \in Seq(Packets) /\ work \in Seq(Packets)
        BY DEF TypeOK
      <3>2. net' \in Seq(Packets) /\ work' \in Seq(Packets)
        <4>1. net # <<>>
          BY <2>3, ReadEffect
        <4>2. Head(net) \in Packets /\ Tail(net) \in Seq(Packets) /\ Append(work, Head(net)) \in Seq(Packets)
          BY <3>1, <4>1
        <4>. QED BY <2>3, <3>1, <4>2, ReadEffect
      <3>. QED BY <2>3, <3>2, ReadEffect DEF TypeOK
    <2>4. CASE StartCallback
      BY <2>4 DEF StartCallback, TypeOK, encVars, netVars, decVars
    <2>5. CASE \E p \in running : MyWorkCallback(p)
      BY <2>5 DEF MyWorkCallback, TypeOK, encVars, netVars, decVars
    <2>6. CASE SetLost
      BY <2>6 DEF SetLost, TypeOK, encVars, netVars, poolVars, decVars
    <2>7. CASE GetTop
      <3>1. Top(priQue) \in Packets
        BY <2>7, TopExists DEF GetTop, TypeOK
      <3>. QED BY <2>7, <3>1 DEF GetTop, TypeOK, encVars, netVars, poolVars
    <2>8. CASE LoopExit
      BY <2>8 DEF LoopExit, TypeOK, encVars, netVars, poolVars
    <2>9. CASE PopFin
      BY <2>9 DEF PopFin, PopTop, TypeOK, encVars, netVars, poolVars
    <2>10. CASE PopPush
      <3>1. frame' \in FrameRecords
        BY <2>10, CombineType DEF PopPush, TypeOK
      <3>. QED BY <2>10, <3>1 DEF PopPush, PopTop, TypeOK, encVars, netVars, poolVars
    <2>11. CASE Accept
      <3>1. NoFrame \in FrameRecords
        BY DEF NoFrame, FrameRecords
      <3>. QED BY <2>11, <3>1 DEF Accept, TypeOK, encVars, netVars, poolVars
    <2>12. CASE Discard
      BY <2>12 DEF Discard, TypeOK, encVars, netVars, poolVars
    <2>13. CASE UNCHANGED vars
      BY <2>13 DEF vars, netVars, decVars, TypeOK
    <2>. QED
      BY <2>1, <2>2, <2>3, <2>4, <2>5, <2>6, <2>7, <2>8, <2>9, <2>10, <2>11,
         <2>12, <2>13 DEF Next
  <1>. QED BY <1>1, <1>2, PTL DEF Spec
-----------------------------------------------------------------------------
(* What a NAL unit is made of.                                             *)

WellFormed(n) ==
  /\ n.timestamp \in Frames
  /\ n.size = FrameSize[n.timestamp]
  /\ n.data \subseteq Chunks(n.timestamp)

FrameInv ==
  /\ frame = NoFrame \/ WellFormed(frame)
  /\ OneFramePerNalu

\* The part a Push packet carries is one of its frame's.
LEMMA PushChunk ==
  ASSUME NEW p \in Packets, p.type = "Push"
  PROVE  <<p.seq, p.timestamp>> \in Chunks(p.timestamp)
  BY PacketFacts

\* After a packet has been copied the frame is zeroed or belongs to one frame.
LEMMA CombineWellFormed ==
  ASSUME NEW fr \in FrameRecords, fr = NoFrame \/ WellFormed(fr),
         NEW p \in Packets, p.type = "Push"
  PROVE  Combine(fr, p) = NoFrame \/ WellFormed(Combine(fr, p))
  <1>1. p.timestamp \in Frames /\ p.timestamp # 0
    BY PushInFrames DEF Frames
  <1>2. p.size = FrameSize[p.timestamp]
    BY PushSizes
  <1>3. <<p.seq, p.timestamp>> \in Chunks(p.timestamp)
    BY PushChunk
  <1> DEFINE start == IF p.seq = 0
                        THEN [timestamp |-> p.timestamp, size |-> p.size,
                              data |-> {}, totalSize |-> 0]
                        ELSE fr
             end == [start EXCEPT !.data = @ \cup {<<p.seq, p.timestamp>>},
                                  !.totalSize = @ + BODY_SIZE(p)]
  <1>4. start = NoFrame \/ WellFormed(start)
    BY <1>1, <1>2 DEF WellFormed
  <1>5. ASSUME start.timestamp = p.timestamp PROVE WellFormed(end)
    <2>1. WellFormed(start)
      BY <1>1, <1>4, <1>5 DEF NoFrame
    <2>2. /\ end.timestamp = start.timestamp /\ end.size = start.size
          /\ end.data = start.data \cup {<<p.seq, p.timestamp>>}
      <3>1. start \in [timestamp : 0 .. NumFrames, size : Nat,
                       data : SUBSET (Nat \X Frames), totalSize : Nat]
        BY <1>1, PushSizes DEF FrameRecords, Frames
      <3>. QED BY <3>1
    <2>. HIDE DEF start, end
    <2>. QED BY <1>3, <1>5, <2>1, <2>2 DEF WellFormed
  <1>. QED BY <1>4, <1>5 DEF Combine

\* The frame under construction and the NAL units handed over each hold
\* bytes of one frame.
THEOREM FrameInvariant == Spec => []FrameInv
  <1>1. Init => FrameInv
    BY DEF Init, FrameInv, OneFramePerNalu
  <1>2. TypeOK /\ FrameInv /\ [Next]_vars => FrameInv'
    <2> SUFFICES ASSUME TypeOK, FrameInv, [Next]_vars PROVE FrameInv'
      OBVIOUS
    <2>1. CASE PopPush
      <3>1. frame' = NoFrame \/ WellFormed(frame')
        BY <2>1, CombineWellFormed DEF PopPush, TypeOK, FrameInv
      <3>2. accepted' = accepted
        BY <2>1 DEF PopPush
      <3>. QED BY <3>1, <3>2 DEF FrameInv, OneFramePerNalu, WellFormed
    <2>2. CASE Accept
      <3>1. frame' = NoFrame /\ accepted' = Append(accepted, frame)
        BY <2>2 DEF Accept
      <3>2. ~IsEmpty(frame) => WellFormed(frame)
        BY DEF FrameInv, IsEmpty, NoFrame
      <3>3. accepted \in Seq(FrameRecords) /\ frame \in FrameRecords
        BY DEF TypeOK
      <3>. QED BY <3>1, <3>2, <3>3 DEF FrameInv, OneFramePerNalu, WellFormed
    <2>3. CASE UNCHANGED <<frame, accepted>>
      BY <2>3 DEF FrameInv, OneFramePerNalu, WellFormed
    <2>4. PopPush \/ Accept \/ UNCHANGED <<frame, accepted>>
      BY DEF Next, vars, netVars, decVars, SendPacket, SendFin, ReadCallback, StartCallback,
             MyWorkCallback, SetLost, GetTop, LoopExit, PopFin, Discard
    <2>. QED BY <2>1, <2>2, <2>3, <2>4
  <1>. QED BY <1>1, <1>2, TypeCorrect, PTL DEF Spec

\* For every schedule of the pool: a NAL unit the decoder keeps has the size
\* of one frame and only bytes of that frame.
THEOREM NaluIntegrity == Spec => []OneFramePerNalu
  BY FrameInvariant, PTL DEF FrameInv
-----------------------------------------------------------------------------
(* Counting bytes: a frame's packets each counted once add up to its size  *)
(* only if none is missing.                                                *)

LastChunk(f) == <<(NUM_PACK(FrameSize[f]) - 1) * MaxBody, f>>

LastBytes(f) == FrameSize[f] - (NUM_PACK(FrameSize[f]) - 1) * MaxBody

ByteCount(f, data) ==
  Cardinality(data \ {LastChunk(f)}) * MaxBody
    + (IF LastChunk(f) \in data THEN LastBytes(f) ELSE 0)

\* Cancelling the size of a full body.
LEMMA TimesCancel ==
  ASSUME NEW a \in Nat, NEW b \in Nat, a * MaxBody = b * MaxBody
  PROVE  a = b
  OBVIOUS

\* A frame has NUM_PACK parts.
LEMMA ChunksFinite ==
  ASSUME NEW f \in Frames
  PROVE  /\ IsFiniteSet(Chunks(f))
         /\ Cardinality(Chunks(f)) = NUM_PACK(FrameSize[f])
  <1> DEFINE n == NUM_PACK(FrameSize[f])
             g == [i \in 0 .. n - 1 |-> <<i * MaxBody, f>>]
  <1>1. n \in Nat \ {0}
    BY PackCount
  <1>. HIDE DEF n
  <1>2. IsFiniteSet(0 .. n - 1) /\ Cardinality(0 .. n - 1) = n
    <2>1. 0 \in Int /\ n - 1 \in Int /\ ~(0 > n - 1) /\ (n - 1) - 0 + 1 = n
      BY <1>1
    <2>. QED BY <2>1, FS_Interval
  <1>3. g \in Bijection(0 .. n - 1, Chunks(f))
    <2>1. g \in [0 .. n - 1 -> Chunks(f)]
      BY DEF Chunks, n
    <2>2. ASSUME NEW i \in 0 .. n - 1, NEW j \in 0 .. n - 1, g[i] = g[j]
          PROVE  i = j
      <3>1. i * MaxBody = j * MaxBody
        BY <2>2
      <3>. QED BY <1>1, <3>1
    <2>3. \A c \in Chunks(f) : \E i \in 0 .. n - 1 : g[i] = c
      BY DEF Chunks, n
    <2>. QED BY <2>1, <2>2, <2>3 DEF Bijection, Injection, Surjection, IsInjective
  <1>4. ExistsBijection(0 .. n - 1, Chunks(f))
    BY <1>3 DEF ExistsBijection
  <1>. QED BY <1>2, <1>4, FS_Bijection DEF n

\* Parts that add up to the size of the frame are all its parts.
LEMMA BytesFull ==
  ASSUME NEW f \in Frames, NEW data, data \subseteq Chunks(f),
         ByteCount(f, data) = FrameSize[f]
  PROVE  data = Chunks(f)
  <1> DEFINE n == NUM_PACK(FrameSize[f])
             L == LastChunk(f)
             c == Cardinality(data \ {L})
  <1>1. FrameSize[f] \in Nat \ {0}
    BY DEF Frames
  <1>2. n \in Nat \ {0} /\ (n - 1) * MaxBody < FrameSize[f]
    BY <1>1, NumPackFacts
  <1>3. IsFiniteSet(Chunks(f)) /\ Cardinality(Chunks(f)) = n
    BY ChunksFinite
  <1>5. n - 1 \in 0 .. n - 1
    BY <1>2
  <1>6. L \in Chunks(f)
    BY <1>5 DEF LastChunk, Chunks
  <1>7. /\ IsFiniteSet(Chunks(f) \ {L})
        /\ Cardinality(Chunks(f) \ {L}) = n - 1
    BY <1>3, <1>6, FS_RemoveElement
  <1>8. /\ data \ {L} \subseteq Chunks(f) \ {L}
        /\ c \in Nat /\ c <= n - 1
        /\ c = n - 1 => data \ {L} = Chunks(f) \ {L}
    BY <1>7, FS_Subset, FS_CardinalityType
  <1>. HIDE DEF n, c, L
  <1>9. c * MaxBody <= (n - 1) * MaxBody
    BY <1>2, <1>8
  <1>10. L \in data
    <2> SUFFICES ASSUME L \notin data PROVE FALSE
      OBVIOUS
    <2>1. c * MaxBody + 0 = FrameSize[f]
      BY DEF ByteCount, c, L
    <2>. QED BY <1>1, <1>2, <1>8, <1>9, <2>1
  <1>11. c * MaxBody + (FrameSize[f] - (n - 1) * MaxBody) = FrameSize[f]
    BY <1>10 DEF ByteCount, LastBytes, c, n, L
  <1>12. c * MaxBody = (n - 1) * MaxBody
    BY <1>1, <1>2, <1>8, <1>11
  <1>13. c = n - 1
    BY <1>2, <1>8, <1>12, TimesCancel
  <1>. QED BY <1>6, <1>8, <1>10, <1>13

\* A part that was not copied before adds its bytes to the count.
LEMMA BytesAdd ==
  ASSUME NEW p \in Packets, p.type = "Push",
         NEW data, data \subseteq Chunks(p.timestamp),
         <<p.seq, p.timestamp>> \notin data
  PROVE  ByteCount(p.timestamp, data \cup {<<p.seq, p.timestamp>>})
           = ByteCount(p.timestamp, data) + BODY_SIZE(p)
  <1> DEFINE f == p.timestamp
             n == NUM_PACK(FrameSize[f])
             L == LastChunk(f)
             x == <<p.seq, f>>
             c == Cardinality(data \ {L})
  <1>1. f \in Frames
    BY PushInFrames
  <1>2. FrameSize[f] \in Nat \ {0}
    BY <1>1 DEF Frames
  <1>3. n \in Nat \ {0}
    BY <1>1, PackCount
  <1>4. IsFiniteSet(data \ {L}) /\ c \in Nat
    BY <1>1, ChunksFinite, FS_Subset, FS_CardinalityType
  <1>5. PICK i \in 0 .. n - 1 : p = PushPacket(f, i)
    <2>1. p # FinPacket
      BY DEF FinPacket
    <2>2. PICK g \in Frames :
               \E j \in 0 .. NUM_PACK(FrameSize[g]) - 1 : p = PushPacket(g, j)
      BY <2>1, PacketCases
    <2>3. g = f
      BY <2>2 DEF PushPacket
    <2>. QED BY <2>2, <2>3
  <1>. HIDE DEF n
  <1>6. p.seq = i * MaxBody /\ p.MP = (i # n - 1) /\ p.size = FrameSize[f]
    BY <1>5, PushSizes DEF PushPacket, n
  <1>7. i \in Nat /\ n - 1 \in Nat
    BY <1>3
  <1>8. x = L <=> i = n - 1
    <2>1. i * MaxBody = (n - 1) * MaxBody <=> i = n - 1
      BY <1>7, TimesCancel
    <2>. QED BY <1>6, <2>1 DEF LastChunk, n
  <1>9. LastBytes(f) \in Int
    BY <1>2, <1>7 DEF LastBytes, n
  <1>10. CASE i = n - 1
    <2>1. BODY_SIZE(p) = LastBytes(f)
      BY <1>6, <1>10 DEF BODY_SIZE, LastBytes, n
    <2>2. (data \cup {x}) \ {L} = data \ {L} /\ L \notin data /\ L \in data \cup {x}
      BY <1>8, <1>10
    <2>3. ByteCount(f, data \cup {x}) = c * MaxBody + LastBytes(f)
      BY <2>2 DEF ByteCount
    <2>4. ByteCount(f, data) = c * MaxBody + 0
      BY <2>2 DEF ByteCount
    <2>. HIDE DEF c, x, f
    <2>. QED BY <1>4, <1>9, <2>1, <2>3, <2>4 DEF x, f
  <1>11. CASE i # n - 1
    <2>1. BODY_SIZE(p) = MaxBody
      BY <1>6, <1>11 DEF BODY_SIZE
    <2>2. /\ (data \cup {x}) \ {L} = (data \ {L}) \cup {x}
          /\ x \notin data \ {L}
          /\ L \in data \cup {x} <=> L \in data
      BY <1>8, <1>11
    <2>3. Cardinality((data \ {L}) \cup {x}) = c + 1
      BY <1>4, <2>2, FS_AddElement
    <2> DEFINE r == IF L \in data THEN LastBytes(f) ELSE 0
    <2>4. r \in Int
      BY <1>9
    <2>5. ByteCount(f, data \cup {x}) = (c + 1) * MaxBody + r
      BY <2>2, <2>3 DEF ByteCount
    <2>6. ByteCount(f, data) = c * MaxBody + r
      BY DEF ByteCount
    <2>. HIDE DEF c, x, f, r
    <2>. QED BY <1>4, <2>1, <2>4, <2>5, <2>6 DEF x, f
  <1>. QED BY <1>10, <1>11
-----------------------------------------------------------------------------
(* The order of the packets on their way.                                  *)

\* Read or not yet read, in the order in which the callbacks will start.
Pipe == work \o net

\* The time stamp and seq of the packet the encoder thread sends next.
Cursor == [timestamp |-> encFrame, seq |-> encPack * MaxBody]

OrderInv ==
  /\ encFrame \notin Frames => encPack = 0
  /\ \A i, j \in 1 .. Len(Pipe) : i < j => Before(Pipe[i], Pipe[j])
  /\ \A i \in 1 .. Len(Pipe) : Before(Pipe[i], Cursor)
  /\ \A p \in running \cup priQue :
       /\ Before(p, Cursor)
       /\ \A i \in 1 .. Len(Pipe) : Before(p, Pipe[i])
  /\ running \cap priQue = {}

\* Appending to the end of two queues in a row.
LEMMA PipeSend ==
  ASSUME NEW S, NEW s \in Seq(S), NEW t \in Seq(S), NEW e \in S
  PROVE  s \o Append(t, e) = Append(s \o t, e)
  OBVIOUS

\* Moving the head of one queue to the end of the queue before it.
LEMMA PipeRead ==
  ASSUME NEW S, NEW s \in Seq(S), NEW t \in Seq(S), t # <<>>
  PROVE  Append(s, Head(t)) \o Tail(t) = s \o t
  OBVIOUS

\* A packet that is not submitted leaves a gap.
LEMMA PipeDrop ==
  ASSUME NEW S, NEW s \in Seq(S), NEW t \in Seq(S), t # <<>>
  PROVE  \A i \in 1 .. Len(s \o Tail(t)) :
           LET k == IF i <= Len(s) THEN i ELSE i + 1
           IN  k \in 1 .. Len(s \o t) /\ (s \o Tail(t))[i] = (s \o t)[k]
  OBVIOUS

\* Taking the head of two queues in a row.
LEMMA PipeStart ==
  ASSUME NEW S, NEW s \in Seq(S), NEW t \in Seq(S), s # <<>>
  PROVE  /\ s \o t \in Seq(S) /\ s \o t # <<>>
         /\ Head(s \o t) = Head(s)
         /\ Tail(s) \o t = Tail(s \o t)
  OBVIOUS

\* The encoder thread sends the packet at its cursor and moves on.
LEMMA SendStep ==
  ASSUME TypeOK, OrderInv, SendPacket \/ SendFin
  PROVE  \E p \in Packets :
           /\ p.timestamp = Cursor.timestamp /\ p.seq = Cursor.seq
           /\ net' = Append(net, p)
           /\ Before(p, Cursor')
           /\ encFrame' \notin Frames => encPack' = 0
           /\ UNCHANGED <<work, running, priQue>>
  <1>1. CASE SendPacket
    <2> DEFINE n == NUM_PACK(FrameSize[encFrame])
               p == PushPacket(encFrame, encPack)
    <2>1. encFrame \in Frames /\ encFrame \in Nat /\ encPack \in Nat /\ encPack < n
      BY <1>1 DEF SendPacket, TypeOK, Frames
    <2>2. n \in Nat \ {0}
      BY <2>1, PackCount
    <2>. HIDE DEF n
    <2>3. encPack \in 0 .. n - 1
      BY <2>1, <2>2
    <2>4. p \in Packets
      BY <2>1, <2>3, PushFacts DEF n
    <2>5. p.timestamp = encFrame /\ p.seq = encPack * MaxBody
      BY DEF PushPacket
    <2>6. net' = Append(net, p) /\ UNCHANGED <<work, running, priQue>>
      BY <1>1 DEF SendPacket, poolVars
    <2>. HIDE DEF p
    <2>7. CASE encFrame' = encFrame + 1 /\ encPack' = 0
      <3>1. Before(p, Cursor')
        BY <2>1, <2>5, <2>7 DEF Before, Cursor
      <3>. QED BY <2>4, <2>5, <2>6, <2>7, <3>1 DEF Cursor
    <2>8. CASE encFrame' = encFrame /\ encPack' = encPack + 1
      <3>1. encPack * MaxBody < (encPack + 1) * MaxBody
        BY <2>1
      <3>2. Before(p, Cursor')
        BY <2>1, <2>5, <2>8, <3>1 DEF Before, Cursor
      <3>. QED BY <2>1, <2>4, <2>5, <2>6, <2>8, <3>2 DEF Cursor
    <2>. QED BY <1>1, <2>7, <2>8 DEF SendPacket
  <1>2. CASE SendFin
    <2>1. encFrame = NumFrames + 1 /\ encFrame \notin Frames /\ encPack = 0
      BY <1>2 DEF SendFin, Frames, OrderInv
    <2>2. encFrame' = encFrame + 1 /\ encPack' = encPack
          /\ net' = Append(net, FinPacket) /\ UNCHANGED <<work, running, priQue>>
      BY <1>2 DEF SendFin, poolVars
    <2>3. encPack * MaxBody = 0
      BY <2>1
    <2>4. Before(FinPacket, Cursor')
      BY <2>1, <2>2 DEF Before, Cursor, FinPacket
    <2>. QED BY <2>1, <2>2, <2>3, <2>4, FinInPackets DEF Cursor, FinPacket
  <1>. QED BY <1>1, <1>2

\* Later than a packet that was just sent is later than all sent before it.
LEMMA BeforeCursor ==
  ASSUME NEW p \in Packets, NEW q \in Packets, NEW a, NEW b,
         a.timestamp \in Int, a.seq \in Int, b.timestamp \in Int, b.seq \in Int,
         p.timestamp = a.timestamp, p.seq = a.seq,
         Before(p, b), Before(q, a)
  PROVE  Before(q, p) /\ Before(q, b)
  BY KeyTypes DEF Before

\* Every step keeps what is on its way in the order it was made.
LEMMA OrderInductive ==
  ASSUME TypeOK, TypeOK', OrderInv, [Next]_vars
  PROVE  OrderInv'
  <1> DEFINE Pend == running \cup priQue
  <1>1. /\ net \in Seq(Packets) /\ work \in Seq(Packets) /\ Pend \subseteq Packets
        /\ Pipe \in Seq(Packets)
    BY DEF TypeOK, Pipe
  <1>2. /\ Cursor.timestamp \in Int /\ Cursor.seq \in Int
        /\ Cursor'.timestamp \in Int /\ Cursor'.seq \in Int
    BY DEF TypeOK, Cursor
  <1>3. CASE SendPacket \/ SendFin
    <2>1. PICK p \in Packets :
           /\ p.timestamp = Cursor.timestamp /\ p.seq = Cursor.seq
           /\ net' = Append(net, p)
           /\ Before(p, Cursor')
           /\ encFrame' \notin Frames => encPack' = 0
           /\ UNCHANGED <<work, running, priQue>>
      BY <1>3, SendStep
    <2>2. Pipe' = Append(Pipe, p)
      BY <1>1, <2>1, PipeSend DEF Pipe
    <2>3. ASSUME NEW q \in Packets, Before(q, Cursor)
          PROVE  Before(q, p) /\ Before(q, Cursor')
      BY <1>2, <2>1, <2>3, BeforeCursor
    <2>4. \A i \in 1 .. Len(Pipe) : Pipe[i] \in Packets /\ Before(Pipe[i], Cursor)
      BY <1>1 DEF OrderInv
    <2>5. \A i \in 1 .. Len(Pipe') : Before(Pipe'[i], Cursor')
      BY <1>1, <2>1, <2>2, <2>3, <2>4
    <2>6. ASSUME NEW i \in 1 .. Len(Pipe'), NEW j \in 1 .. Len(Pipe'), i < j
          PROVE  Before(Pipe'[i], Pipe'[j])
      <3>1. i \in 1 .. Len(Pipe) /\ Pipe'[i] = Pipe[i]
        BY <1>1, <2>2, <2>6
      <3>2. CASE j \in 1 .. Len(Pipe)
        <4>1. Pipe'[j] = Pipe[j]
          BY <1>1, <2>2, <3>2
        <4>. QED BY <2>6, <3>1, <3>2, <4>1 DEF OrderInv
      <3>3. CASE j \notin 1 .. Len(Pipe)
        <4>1. Pipe'[j] = p
          <5>1. Len(Pipe) \in Nat /\ Len(Pipe') = Len(Pipe) + 1
            BY <1>1, <2>2
          <5>2. j = Len(Pipe) + 1
            BY <3>3, <5>1
          <5>. QED BY <1>1, <2>2, <5>2
        <4>. QED BY <2>3, <2>4, <3>1, <4>1
      <3>. QED BY <3>2, <3>3
    <2>7. \A q \in running' \cup priQue' : q \in Packets /\ q \in Pend /\ Before(q, Cursor)
      BY <1>1, <2>1 DEF OrderInv
    <2>8. \A q \in running' \cup priQue' :
            /\ Before(q, Cursor')
            /\ \A i \in 1 .. Len(Pipe') : Before(q, Pipe'[i])
      BY <1>1, <2>2, <2>3, <2>7 DEF OrderInv
    <2>. QED BY <2>1, <2>5, <2>6, <2>8 DEF OrderInv
  <1>4. CASE StartCallback
    <2>1. /\ work # <<>> /\ work' = Tail(work) /\ net' = net
          /\ running' = running \cup {Head(work)}
          /\ UNCHANGED <<encFrame, encPack, priQue>>
      BY <1>4 DEF StartCallback, encVars, netVars
    <2>2. Pipe # <<>> /\ Head(work) = Head(Pipe) /\ Pipe' = Tail(Pipe)
      BY <1>1, <2>1, PipeStart DEF Pipe
    <2>3. Head(Pipe) = Pipe[1] /\ 1 \in 1 .. Len(Pipe) /\ Pipe[1] \in Packets
      BY <1>1, <2>2
    <2>4. \A i \in 1 .. Len(Pipe') : /\ i \in Nat /\ i + 1 \in 1 .. Len(Pipe)
                                     /\ Pipe'[i] = Pipe[i + 1]
      BY <1>1, <2>2
    <2>5. Pipe[1] \notin priQue
      BY <1>1, <2>3, BeforeStrict DEF OrderInv
    <2>6. \A i, j \in 1 .. Len(Pipe') : i < j => Before(Pipe'[i], Pipe'[j])
      BY <2>4 DEF OrderInv
    <2>7. Cursor' = Cursor
      BY <2>1 DEF Cursor
    <2>8. \A i \in 1 .. Len(Pipe') : Before(Pipe'[i], Cursor') /\ Before(Pipe[1], Pipe'[i])
      BY <2>3, <2>4, <2>7 DEF OrderInv
    <2>9. \A q \in running' \cup priQue' :
            /\ Before(q, Cursor')
            /\ \A i \in 1 .. Len(Pipe') : Before(q, Pipe'[i])
      BY <2>1, <2>2, <2>3, <2>4, <2>7, <2>8 DEF OrderInv
    <2>. QED BY <2>1, <2>2, <2>3, <2>5, <2>6, <2>8, <2>9 DEF OrderInv
  <1>5. CASE ReadCallback
    <2>1. net # <<>> /\ UNCHANGED <<encFrame, encPack, running, priQue>>
      BY <1>5, ReadEffect
    <2>2. Cursor' = Cursor
      BY <2>1 DEF Cursor
    <2>3. Pipe' = Pipe \/ Pipe' = work \o Tail(net)
      BY <1>1, <1>5, <2>1, ReadEffect, PipeRead DEF Pipe
    <2>4. CASE Pipe' = Pipe
      BY <2>1, <2>2, <2>4 DEF OrderInv
    <2>5. CASE Pipe' = work \o Tail(net)
      <3> DEFINE k(i) == IF i <= Len(work) THEN i ELSE i + 1
      <3>1. \A i \in 1 .. Len(Pipe') : k(i) \in 1 .. Len(Pipe) /\ Pipe'[i] = Pipe[k(i)]
        BY <1>1, <2>1, <2>5, PipeDrop DEF Pipe
      <3>2. \A i, j \in 1 .. Len(Pipe') : i < j => k(i) < k(j)
        BY <1>1
      <3> HIDE DEF k
      <3>3. \A i, j \in 1 .. Len(Pipe') : i < j => Before(Pipe'[i], Pipe'[j])
        BY <3>1, <3>2 DEF OrderInv
      <3>. QED BY <2>1, <2>2, <3>1, <3>3 DEF OrderInv
    <2>. QED BY <2>3, <2>4, <2>5
  <1>6. CASE \E p \in running : MyWorkCallback(p)
    <2>1. PICK p \in running :
             /\ priQue' = priQue \cup {p} /\ running' = running \ {p}
             /\ UNCHANGED <<encFrame, encPack, net, work>>
      BY <1>6 DEF MyWorkCallback, encVars, netVars
    <2>2. Pipe' = Pipe /\ Cursor' = Cursor /\ running' \cup priQue' = Pend
      BY <2>1 DEF Pipe, Cursor
    <2>. QED BY <2>1, <2>2 DEF OrderInv
  <1>7. CASE PopFin \/ PopPush
    <2>1. /\ priQue' \subseteq priQue
          /\ UNCHANGED <<encFrame, encPack, net, work, running>>
      BY <1>7 DEF PopFin, PopPush, PopTop, encVars, netVars, poolVars
    <2>2. Pipe' = Pipe /\ Cursor' = Cursor
      BY <2>1 DEF Pipe, Cursor
    <2>. QED BY <2>1, <2>2 DEF OrderInv
  <1>8. CASE UNCHANGED <<encFrame, encPack, net, work, running, priQue>>
    <2>1. Pipe' = Pipe /\ Cursor' = Cursor
      BY <1>8 DEF Pipe, Cursor
    <2>. QED BY <1>8, <2>1 DEF OrderInv
  <1>9. \/ SendPacket \/ SendFin \/ StartCallback \/ ReadCallback
        \/ \E p \in running : MyWorkCallback(p)
        \/ PopFin \/ PopPush
        \/ UNCHANGED <<encFrame, encPack, net, work, running, priQue>>
    BY DEF Next, vars, netVars, decVars, SetLost, GetTop, LoopExit, Accept, Discard, encVars, netVars, poolVars
  <1>. QED BY <1>3, <1>4, <1>5, <1>6, <1>7, <1>8, <1>9
-----------------------------------------------------------------------------
(* Without a race no packet is counted twice.                              *)

Key(p) == <<p.seq, p.timestamp>>

ConsumedInv ==
  ~raced =>
    /\ \A p \in running \cup priQue : Key(p) \notin frame.data
    /\ \A i \in 1 .. Len(Pipe) : Key(Pipe[i]) \notin frame.data
    /\ \A p \in Packets : Key(p) \in frame.data => Before(p, Cursor)

CountInv ==
  /\ pc = "pop" => ptrPacket \in priQue
  /\ pc = "returned" /\ ~lost => frame.totalSize = frame.size
  /\ ~raced /\ frame # NoFrame
       => frame.totalSize = ByteCount(frame.timestamp, frame.data)

\* Copying a packet adds no other part than its own.
LEMMA CombineData ==
  ASSUME NEW fr \in FrameRecords, NEW p \in Packets, p.type = "Push"
  PROVE  Combine(fr, p).data \subseteq fr.data \cup {Key(p)}
  <1> DEFINE start == IF p.seq = 0
                        THEN [timestamp |-> p.timestamp, size |-> p.size,
                              data |-> {}, totalSize |-> 0]
                        ELSE fr
             end == [start EXCEPT !.data = @ \cup {<<p.seq, p.timestamp>>},
                                  !.totalSize = @ + BODY_SIZE(p)]
  <1>1. start \in [timestamp : 0 .. NumFrames, size : Nat,
                   data : SUBSET (Nat \X Frames), totalSize : Nat]
    BY PushSizes, PushInFrames DEF FrameRecords, Frames
  <1>2. start.data \subseteq fr.data
    OBVIOUS
  <1>. HIDE DEF start
  <1>3. end.data = start.data \cup {Key(p)}
    BY <1>1 DEF Key
  <1>. HIDE DEF end
  <1>. QED BY <1>2, <1>3 DEF Combine, start, end

\* Copying a new packet keeps totalSize the number of bytes copied.
LEMMA CombineCount ==
  ASSUME NEW fr \in FrameRecords, fr = NoFrame \/ WellFormed(fr),
         fr # NoFrame => fr.totalSize = ByteCount(fr.timestamp, fr.data),
         NEW p \in Packets, p.type = "Push", Key(p) \notin fr.data,
         Combine(fr, p) # NoFrame
  PROVE  Combine(fr, p).totalSize
           = ByteCount(Combine(fr, p).timestamp, Combine(fr, p).data)
  <1>1. p.timestamp \in Frames /\ p.timestamp # 0
    BY PushInFrames DEF Frames
  <1> DEFINE start == IF p.seq = 0
                        THEN [timestamp |-> p.timestamp, size |-> p.size,
                              data |-> {}, totalSize |-> 0]
                        ELSE fr
             end == [start EXCEPT !.data = @ \cup {<<p.seq, p.timestamp>>},
                                  !.totalSize = @ + BODY_SIZE(p)]
  <1>2. start \in [timestamp : 0 .. NumFrames, size : Nat,
                   data : SUBSET (Nat \X Frames), totalSize : Nat]
    BY PushSizes, PushInFrames DEF FrameRecords, Frames
  <1>3. /\ end.timestamp = start.timestamp
        /\ end.data = start.data \cup {<<p.seq, p.timestamp>>}
        /\ end.totalSize = start.totalSize + BODY_SIZE(p)
    <2>. HIDE DEF start
    <2>. QED BY <1>2
  <1>4. ByteCount(p.timestamp, {}) = 0
    <2>1. {} \ {LastChunk(p.timestamp)} = {}
      OBVIOUS
    <2>. QED BY <2>1, FS_EmptySet DEF ByteCount
  <1>5. start # NoFrame =>
          /\ start.totalSize = ByteCount(start.timestamp, start.data)
          /\ start.data \subseteq Chunks(start.timestamp)
    <2>1. CASE p.seq = 0
      BY <1>4, <2>1
    <2>2. CASE p.seq # 0
      BY <2>2 DEF WellFormed
    <2>. QED BY <2>1, <2>2
  <1>6. <<p.seq, p.timestamp>> \notin start.data
    BY DEF Key
  <1>. HIDE DEF start
  <1>7. CASE start.timestamp = p.timestamp
    <2>1. start # NoFrame
      BY <1>1, <1>7 DEF NoFrame
    <2>2. start.totalSize = ByteCount(p.timestamp, start.data)
          /\ start.data \subseteq Chunks(p.timestamp)
      BY <1>5, <1>7, <2>1
    <2>3. ByteCount(p.timestamp, start.data \cup {<<p.seq, p.timestamp>>})
            = ByteCount(p.timestamp, start.data) + BODY_SIZE(p)
      BY <1>6, <2>2, BytesAdd
    <2>4. Combine(fr, p) = end
      BY <1>7 DEF Combine, start
    <2>. HIDE DEF end
    <2>. QED BY <1>3, <1>7, <2>2, <2>3, <2>4
  <1>8. CASE start.timestamp # p.timestamp
    <2>1. Combine(fr, p) = start
      BY <1>8 DEF Combine, start
    <2>. QED BY <1>5, <2>1
  <1>. QED BY <1>7, <1>8

\* Time stamp and seq tell packets apart.
LEMMA KeyInjective ==
  ASSUME NEW p \in Packets, NEW q \in Packets, Key(p) = Key(q)
  PROVE  p = q
  BY PacketKey DEF Key

\* Every step keeps what was copied apart from what is on its way.
LEMMA ConsumedInductive ==
  ASSUME TypeOK, TypeOK', OrderInv, OrderInv', ConsumedInv, CountInv, [Next]_vars
  PROVE  ConsumedInv'
  <1> SUFFICES ASSUME ~raced'
               PROVE  /\ \A p \in running' \cup priQue' : Key(p) \notin frame'.data
                      /\ \A i \in 1 .. Len(Pipe') : Key(Pipe'[i]) \notin frame'.data
                      /\ \A p \in Packets : Key(p) \in frame'.data => Before(p, Cursor')
    BY DEF ConsumedInv
  <1>1. /\ net \in Seq(Packets) /\ work \in Seq(Packets)
        /\ running \cup priQue \subseteq Packets /\ Pipe \in Seq(Packets)
    BY DEF TypeOK, Pipe
  <1>2. /\ Cursor.timestamp \in Int /\ Cursor.seq \in Int
        /\ Cursor'.timestamp \in Int /\ Cursor'.seq \in Int
    BY DEF TypeOK, Cursor
  <1>3. CASE SendPacket \/ SendFin
    <2>1. PICK p \in Packets :
           /\ p.timestamp = Cursor.timestamp /\ p.seq = Cursor.seq
           /\ net' = Append(net, p)
           /\ Before(p, Cursor')
           /\ UNCHANGED <<work, running, priQue>>
      BY <1>3, SendStep
    <2>2. Pipe' = Append(Pipe, p)
      BY <1>1, <2>1, PipeSend DEF Pipe
    <2>3. UNCHANGED <<frame, raced>>
      BY <1>3 DEF SendPacket, SendFin, decVars
    <2>4. \A q \in Packets : Before(q, Cursor) => Before(q, p) /\ Before(q, Cursor')
      BY <1>2, <2>1, BeforeCursor
    <2>5. Key(p) \notin frame.data
      BY <2>3, <2>4, BeforeStrict DEF ConsumedInv
    <2>6. \A i \in 1 .. Len(Pipe') : Pipe'[i] = p \/ (i \in 1 .. Len(Pipe) /\ Pipe'[i] = Pipe[i])
      BY <1>1, <2>2
    <2>. QED BY <2>1, <2>3, <2>4, <2>5, <2>6 DEF ConsumedInv
  <1>4. CASE StartCallback
    <2>1. /\ work # <<>> /\ work' = Tail(work) /\ net' = net
          /\ running' = running \cup {Head(work)}
          /\ UNCHANGED <<encFrame, encPack, priQue, frame, raced>>
      BY <1>4 DEF StartCallback, encVars, netVars, decVars
    <2>2. Pipe # <<>> /\ Head(work) = Head(Pipe) /\ Pipe' = Tail(Pipe)
      BY <1>1, <2>1, PipeStart DEF Pipe
    <2>3. Head(Pipe) = Pipe[1] /\ 1 \in 1 .. Len(Pipe)
      BY <1>1, <2>2
    <2>4. \A i \in 1 .. Len(Pipe') : i + 1 \in 1 .. Len(Pipe) /\ Pipe'[i] = Pipe[i + 1]
      BY <1>1, <2>2
    <2>5. Cursor' = Cursor
      BY <2>1 DEF Cursor
    <2>. QED BY <2>1, <2>2, <2>3, <2>4, <2>5 DEF ConsumedInv
  <1>5. CASE ReadCallback
    <2>1. net # <<>> /\ UNCHANGED <<encFrame, encPack, running, priQue, frame, raced>>
      BY <1>5, ReadEffect
    <2>2. Cursor' = Cursor
      BY <2>1 DEF Cursor
    <2>3. Pipe' = Pipe \/ Pipe' = work \o Tail(net)
      BY <1>1, <1>5, <2>1, ReadEffect, PipeRead DEF Pipe
    <2>4. \A i \in 1 .. Len(work \o Tail(net)) :
            \E j \in 1 .. Len(Pipe) : (work \o Tail(net))[i] = Pipe[j]
      BY <1>1, <2>1, PipeDrop DEF Pipe
    <2>5. \A i \in 1 .. Len(Pipe') : \E j \in 1 .. Len(Pipe) : Pipe'[i] = Pipe[j]
      BY <2>3, <2>4
    <2>. QED BY <2>1, <2>2, <2>5 DEF ConsumedInv
  <1>6. CASE \E p \in running : MyWorkCallback(p)
    <2>1. PICK p \in running :
             /\ priQue' = priQue \cup {p} /\ running' = running \ {p}
             /\ UNCHANGED <<encFrame, encPack, net, work, frame, raced>>
      BY <1>6 DEF MyWorkCallback, encVars, netVars, decVars
    <2>2. Pipe' = Pipe /\ Cursor' = Cursor /\ running' \cup priQue' = running \cup priQue
      BY <2>1 DEF Pipe, Cursor
    <2>. QED BY <2>1, <2>2 DEF ConsumedInv
  <1>7. CASE PopPush
    <2>1. /\ Top(priQue) = ptrPacket /\ ~raced
          /\ priQue' = priQue \ {ptrPacket}
          /\ frame' = Combine(frame, ptrPacket)
          /\ ptrPacket.type = "Push" /\ pc = "pop"
          /\ UNCHANGED <<encFrame, encPack, net, work, running>>
      BY <1>7 DEF PopPush, PopTop, encVars, netVars, poolVars
    <2>2. ptrPacket \in priQue /\ ptrPacket \in Packets /\ frame \in FrameRecords
      BY <2>1 DEF CountInv, TypeOK
    <2>3. frame'.data \subseteq frame.data \cup {Key(ptrPacket)}
      BY <2>1, <2>2, CombineData
    <2>4. Pipe' = Pipe /\ Cursor' = Cursor
      BY <2>1 DEF Pipe, Cursor
    <2>5. \A p \in running' \cup priQue' : p \in running \cup priQue /\ p # ptrPacket
      BY <2>1, <2>2 DEF OrderInv
    <2>6. \A i \in 1 .. Len(Pipe) : Pipe[i] \in Packets /\ Pipe[i] # ptrPacket
      BY <1>1, <2>2, BeforeStrict DEF OrderInv
    <2>7. Before(ptrPacket, Cursor)
      BY <2>2 DEF OrderInv
    <2>8. \A p \in Packets : Key(p) = Key(ptrPacket) => p = ptrPacket
      BY <2>2, KeyInjective
    <2>. QED BY <1>1, <2>1, <2>3, <2>4, <2>5, <2>6, <2>7, <2>8 DEF ConsumedInv
  <1>8. CASE PopFin
    <2>1. /\ priQue' \subseteq priQue /\ (raced' <=> (raced \/ Top(priQue) # ptrPacket))
          /\ UNCHANGED <<encFrame, encPack, net, work, running, frame>>
      BY <1>8 DEF PopFin, PopTop, encVars, netVars, poolVars
    <2>2. Pipe' = Pipe /\ Cursor' = Cursor /\ ~raced
      BY <2>1 DEF Pipe, Cursor
    <2>. QED BY <2>1, <2>2 DEF ConsumedInv
  <1>9. CASE Accept
    BY <1>9 DEF Accept, NoFrame
  <1>10. CASE UNCHANGED <<encFrame, encPack, net, work, running, priQue, frame, raced>>
    <2>1. Pipe' = Pipe /\ Cursor' = Cursor
      BY <1>10 DEF Pipe, Cursor
    <2>. QED BY <1>10, <2>1 DEF ConsumedInv
  <1>11. \/ SendPacket \/ SendFin \/ StartCallback \/ ReadCallback
         \/ \E p \in running : MyWorkCallback(p)
         \/ PopPush \/ PopFin \/ Accept
         \/ UNCHANGED <<encFrame, encPack, net, work, running, priQue, frame, raced>>
    BY DEF Next, vars, netVars, decVars, SetLost, GetTop, LoopExit, Discard, encVars, netVars, poolVars
  <1>. QED BY <1>3, <1>4, <1>5, <1>6, <1>7, <1>8, <1>9, <1>10, <1>11

\* Every step keeps totalSize the number of bytes copied.
LEMMA CountInductive ==
  ASSUME TypeOK, FrameInv, ConsumedInv, CountInv, [Next]_vars
  PROVE  CountInv'
  <1>1. CASE SendPacket \/ SendFin \/ ReadCallback \/ StartCallback \/ SetLost
    BY <1>1 DEF SendPacket, SendFin, ReadCallback, StartCallback, SetLost, CountInv, decVars
  <1>2. CASE \E p \in running : MyWorkCallback(p)
    BY <1>2 DEF MyWorkCallback, CountInv, decVars
  <1>3. CASE GetTop
    BY <1>3, TopExists DEF GetTop, CountInv, TypeOK
  <1>4. CASE LoopExit \/ Discard \/ PopFin
    <2>1. pc' # "pop" /\ frame' = frame /\ (pc' = "returned" => lost') /\ (raced => raced')
      <3>1. CASE LoopExit
        BY <3>1 DEF LoopExit
      <3>2. CASE Discard
        BY <3>2 DEF Discard
      <3>3. CASE PopFin
        BY <3>3, Zenon DEF PopFin, PopTop
      <3>. QED BY <1>4, <3>1, <3>2, <3>3
    <2>. QED BY <2>1 DEF CountInv
  <1>5. CASE PopPush
    <2>1. /\ frame' = Combine(frame, ptrPacket)
          /\ ptrPacket.type = "Push" /\ pc = "pop" /\ (raced => raced')
          /\ pc' = (IF frame'.totalSize = frame'.size THEN "returned" ELSE "poll")
      BY <1>5 DEF PopPush, PopTop
    <2>2. ptrPacket \in priQue /\ ptrPacket \in Packets /\ frame \in FrameRecords
          /\ (frame = NoFrame \/ WellFormed(frame))
      BY <2>1 DEF CountInv, TypeOK, FrameInv
    <2>3. ASSUME ~raced', frame' # NoFrame
          PROVE  frame'.totalSize = ByteCount(frame'.timestamp, frame'.data)
      <3>1. frame # NoFrame => frame.totalSize = ByteCount(frame.timestamp, frame.data)
        BY <2>1, <2>3 DEF CountInv
      <3>2. Key(ptrPacket) \notin frame.data
        BY <2>1, <2>2, <2>3 DEF ConsumedInv
      <3>. QED BY <2>1, <2>2, <2>3, <3>1, <3>2, CombineCount
    <2>. QED BY <2>1, <2>3 DEF CountInv
  <1>6. CASE Accept
    BY <1>6 DEF Accept, CountInv
  <1>7. CASE UNCHANGED vars
    BY <1>7 DEF vars, netVars, decVars, CountInv
  <1>. QED BY <1>1, <1>2, <1>3, <1>4, <1>5, <1>6, <1>7 DEF Next

\* For every schedule of the pool: unless a push() came between a top() and
\* its pop(), every NAL unit the decoder keeps is empty or has all its bytes.
THEOREM NaluComplete == Spec => []CompleteUnlessRaced
  <1> DEFINE IInv == OrderInv /\ ConsumedInv /\ CountInv /\ CompleteUnlessRaced
  <1>1. Init => IInv
    <2> SUFFICES ASSUME Init PROVE IInv
      OBVIOUS
    <2>1. Pipe = <<>> /\ running = {} /\ priQue = {} /\ encPack = 0
      BY DEF Init, Pipe
    <2>2. frame = NoFrame /\ frame.data = {} /\ pc = "poll" /\ accepted = <<>>
      BY DEF Init, NoFrame
    <2>3. OrderInv
      BY <2>1 DEF OrderInv
    <2>4. ConsumedInv
      BY <2>2 DEF ConsumedInv
    <2>. QED BY <2>2, <2>3, <2>4 DEF CountInv, CompleteUnlessRaced
  <1>2. TypeOK /\ TypeOK' /\ FrameInv /\ IInv /\ [Next]_vars => IInv'
    <2> SUFFICES ASSUME TypeOK, TypeOK', FrameInv, IInv, [Next]_vars PROVE IInv'
      OBVIOUS
    <2>1. OrderInv'
      BY OrderInductive
    <2>2. ConsumedInv'
      BY <2>1, ConsumedInductive
    <2>3. CountInv'
      BY CountInductive
    <2>4. CASE Accept
      <3>1. /\ accepted' = Append(accepted, frame) /\ raced' = raced
            /\ pc = "returned" /\ ~lost
        BY <2>4 DEF Accept
      <3>2. accepted \in Seq(FrameRecords) /\ frame \in FrameRecords
        BY DEF TypeOK
      <3>3. ~raced => IsEmpty(frame) \/ IsComplete(frame)
        <4> SUFFICES ASSUME ~raced, frame # NoFrame PROVE IsComplete(frame)
          BY DEF IsEmpty, NoFrame
        <4>1. WellFormed(frame)
          BY DEF FrameInv
        <4>2. ByteCount(frame.timestamp, frame.data) = FrameSize[frame.timestamp]
          BY <3>1, <4>1 DEF CountInv, WellFormed
        <4>3. frame.data = Chunks(frame.timestamp)
          BY <4>1, <4>2, BytesFull DEF WellFormed
        <4>. QED BY <4>1, <4>3 DEF IsComplete, WellFormed
      <3>4. CompleteUnlessRaced'
        BY <3>1, <3>2, <3>3 DEF CompleteUnlessRaced, IsEmpty, IsComplete
      <3>. QED BY <2>1, <2>2, <2>3, <3>4
    <2>5. CASE accepted' = accepted /\ (raced => raced')
      <3>1. CompleteUnlessRaced'
        BY <2>5 DEF CompleteUnlessRaced
      <3>. QED BY <2>1, <2>2, <2>3, <3>1
    <2>6. Accept \/ (accepted' = accepted /\ (raced => raced'))
      BY DEF Next, vars, netVars, decVars, SendPacket, SendFin, ReadCallback, StartCallback,
             MyWorkCallback, SetLost, GetTop, LoopExit, PopFin, PopPush, PopTop, Discard
    <2>. QED BY <2>4, <2>5, <2>6
  <1>3. Spec => []FrameInv
    BY FrameInvariant
  <1>. QED BY <1>1, <1>2, <1>3, TypeCorrect, PTL DEF Spec
=============================================================================
