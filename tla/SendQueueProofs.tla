-------------------------- MODULE SendQueueProofs --------------------------
(* Proofs about SendQueue, for every number of frames and packets, every   *)
(* time base and every number of failed writes.                            *)
EXTENDS SendQueue, SequenceTheorems, TLAPS

USE SendQueueAssumption
-----------------------------------------------------------------------------
(* The types.                                                              *)

\* What has been appended to the wire is in its range.
LEMMA RangeAppend ==
  ASSUME NEW S, NEW s \in Seq(S), NEW x \in S
  PROVE  Append(s, x) \in Seq(S) /\ Range(Append(s, x)) = Range(s) \cup {x}
  <1> DEFINE t == Append(s, x)
  <1>1. /\ t \in Seq(S) /\ Len(t) = Len(s) + 1 /\ t[Len(s) + 1] = x
        /\ \A i \in 1 .. Len(s) : t[i] = s[i]
    BY AppendProperties
  <1>2. Len(s) \in Nat /\ DOMAIN s = 1 .. Len(s) /\ DOMAIN t = 1 .. Len(s) + 1
    BY <1>1, LenProperties
  <1>3. Range(s) = {s[i] : i \in 1 .. Len(s)} /\ Range(t) = {t[i] : i \in 1 .. Len(s) + 1}
    BY <1>2 DEF Range
  <1>4. 1 .. Len(s) + 1 = (1 .. Len(s)) \cup {Len(s) + 1}
    BY <1>2
  <1>. QED BY <1>1, <1>3, <1>4

EncRecords ==
  [frame : 0 .. NumFrames + 1, pack : Nat, timestamp : Nat, at : {"off", "sleep", "push", "enable"}]

UiRecords ==
  [n : 0 .. NumUi, packet : PacketSet \cup {NoPacket}, at : {"idle", "push", "enable"}, late : BOOLEAN]

Entries == [packet : PacketSet, copy : 0 .. MaxFail]

\* The packet that WriteCallback has got from top().
Hand == IF pc \in {"pop", "write"} THEN {ptrPacket} ELSE {}

\* Beyond the types: what the threads hold are packets, a pop() is made on a
\* queue with a packet in it, and the encoder thread is in a frame when it
\* pushes.
Held ==
  /\ pc \in {"pop", "write"} => ptrPacket \in PacketSet
  /\ pc = "pop" => que # {}
  /\ ui.at = "push" => ui.packet \in PacketSet /\ ui.packet.from = "ui" /\ ui.packet.n = ui.n
                       /\ ui.packet.seq = 0
  /\ enc.at \in {"push", "enable"} => enc.frame # 0
  /\ enc.at = "off" => enc.frame = 0

TypeInv == TypeOK /\ Held

\* The entries and packets of the queue after a push and after a pop.
LEMMA QueueFacts ==
  ASSUME TypeOK
  PROVE  /\ que \subseteq Entries /\ Queued \subseteq PacketSet
         /\ que # {} => front \in que /\ front \in Entries /\ front.packet \in Queued
         /\ \A e \in que : e.packet \in Queued
  <1>1. que \subseteq Entries /\ (que # {} => front \in que)
    BY DEF TypeOK, Entries
  <1>2. \A e \in Entries : e.packet \in PacketSet
    BY DEF Entries
  <1>3. Queued = {e.packet : e \in que}
    BY DEF Queued
  <1>4. \A e \in que : e.packet \in Queued
    BY <1>3
  <1>5. Queued \subseteq PacketSet
    BY <1>1, <1>2, <1>3
  <1>. QED BY <1>1, <1>4, <1>5

\* push() adds one entry, at the front or behind it.
LEMMA PushFacts ==
  ASSUME TypeOK, NEW p \in PacketSet, NEW c \in 0 .. MaxFail, Push(p, c)
  PROVE  /\ que' = que \cup {Entry(p, c)} /\ que' \subseteq Entries /\ que' # {}
         /\ Entry(p, c) \in Entries /\ Entry(p, c).packet = p
         /\ Queued' = Queued \cup {p}
         /\ front' \in que' /\ (front' = Entry(p, c) \/ (que # {} /\ front' = front))
         /\ safe' \subseteq PacketSet
         /\ safe' = IF pc = "pop" THEN safe ELSE safe \cup {p}
  <1>1. que' = que \cup {Entry(p, c)} /\ safe' = IF pc = "pop" THEN safe ELSE safe \cup {p}
    BY DEF Push
  <1>2. Entry(p, c) \in Entries /\ Entry(p, c).packet = p
    BY DEF Entry, Entries
  <1>3. que \subseteq Entries /\ (que # {} => front \in que)
    BY QueueFacts
  <1>4. front' = Entry(p, c) \/ (que # {} /\ front' = front)
    BY DEF Push
  <1>5. Queued' = Queued \cup {p}
    BY <1>1, <1>2 DEF Queued
  <1>6. safe' \subseteq PacketSet
    BY <1>1 DEF TypeOK
  <1>. QED BY <1>1, <1>2, <1>3, <1>4, <1>5, <1>6

\* pop() takes the front out and leaves another entry there.
LEMMA PopFacts ==
  ASSUME TypeOK, que # {}, Pop
  PROVE  /\ que' = que \ {front} /\ que' \subseteq Entries
         /\ que' = {} => front' = NoEntry
         /\ que' # {} => front' \in que'
         /\ que' # {} /\ ~broken => \A d \in que' : ~Before(d.packet, front'.packet)
         /\ Queued' \subseteq Queued /\ Queued \subseteq Queued' \cup {front.packet}
  <1>1. que' = que \ {front} /\ que \subseteq Entries
    BY QueueFacts DEF Pop
  <1>2. que' = {} => front' = NoEntry
    BY DEF Pop
  <1>3. que' # {} => front' \in que' /\ (~broken => \A d \in que' : ~Before(d.packet, front'.packet))
    BY DEF Pop
  <1>4. Queued' \subseteq Queued /\ Queued \subseteq Queued' \cup {front.packet}
    BY <1>1 DEF Queued
  <1>. QED BY <1>1, <1>2, <1>3, <1>4

\* The types hold when the dispatcher thread has submitted NewSession.
LEMMA InitType == Init => TypeInv
  <1> SUFFICES ASSUME Init PROVE TypeInv
    OBVIOUS
  <1>1. Packet("ui", 0, 0, 0) \in PacketSet
    BY DEF Packet, PacketSet
  <1>2. front \in Entries /\ front.packet \in PacketSet
    BY <1>1 DEF Init, Entry, Entries
  <1>3. enc \in EncRecords /\ ui \in UiRecords /\ enc.at = "off" /\ enc.frame = 0 /\ ui.at = "idle"
    BY DEF Init, EncRecords, UiRecords
  <1>4. que = {front} /\ que \subseteq Entries /\ safe \subseteq PacketSet /\ freed \subseteq PacketSet
    BY <1>2 DEF Init
  <1>5. clock \in Nat /\ fails \in 0 .. MaxFail /\ wire \in Seq(PacketSet) /\ pc = "wait" /\ ptrPacket = NoPacket
    BY DEF Init
  <1>6. pending \in BOOLEAN /\ raced \in BOOLEAN /\ broken \in BOOLEAN /\ fault \in BOOLEAN
    BY DEF Init
  <1>7. TypeOK
    BY <1>3, <1>4, <1>5, <1>6 DEF TypeOK, EncRecords, UiRecords, Entries
  <1>. QED BY <1>3, <1>5, <1>7 DEF TypeInv, Held

\* Each action changes the types of what it assigns only.
LEMMA StepType == TypeInv /\ [Next]_vars => TypeInv'
  <1> SUFFICES ASSUME TypeInv, [Next]_vars PROVE TypeInv'
    OBVIOUS
  <1> USE DEF TypeInv
  <1>a. enc \in EncRecords /\ ui \in UiRecords
    BY DEF TypeOK, EncRecords, UiRecords
  <1>1. CASE Tick
    BY <1>1 DEF Tick, TypeOK, Held, queVars, writeVars
  <1>2. CASE NextFrame
    <2>1. enc' \in EncRecords /\ enc'.at = "push" /\ enc'.frame # 0
      <3>1. enc.frame + 1 \in 1 .. NumFrames + 1 /\ clock \in Nat
        BY <1>a, <1>2 DEF NextFrame, EncRecords, TypeOK
      <3>. QED BY <3>1, <1>2 DEF NextFrame, EncRecords
    <2>. QED BY <1>2, <2>1 DEF NextFrame, TypeOK, Held, EncRecords, queVars, writeVars
  <1>3. CASE EncPush
    <2>1. Packet("enc", enc.frame, enc.pack, enc.timestamp) \in PacketSet
      BY <1>a DEF EncRecords, Packet, PacketSet
    <2> DEFINE p == Packet("enc", enc.frame, enc.pack, enc.timestamp)
    <2>2. que' \subseteq Entries /\ que' # {} /\ front' \in que' /\ safe' \subseteq PacketSet
      BY <1>3, <2>1, PushFacts DEF EncPush
    <2>3. enc' \in EncRecords /\ enc'.at = "enable" /\ enc'.frame = enc.frame /\ enc.frame # 0
      BY <1>a, <1>3 DEF EncPush, EncRecords, Held
    <2>. QED BY <1>3, <2>2, <2>3 DEF EncPush, TypeOK, Held, EncRecords, Entries, writeVars
  <1>4. CASE EncEnable
    <2>1. enc.frame # 0
      BY <1>4 DEF EncEnable, Held
    <2>2. CASE IsLastPack
      <3>1. enc' \in EncRecords /\ enc'.at = "sleep"
        BY <1>a, <1>4, <2>2 DEF EncEnable, EncRecords
      <3>. QED BY <1>4, <3>1 DEF EncEnable, TypeOK, Held, EncRecords, queVars, writeVars
    <2>3. CASE ~IsLastPack
      <3>1. enc.pack + 1 \in Nat
        BY <1>a DEF EncRecords
      <3>2. enc' = [enc EXCEPT !.at = "push", !.pack = @ + 1]
        BY <1>4, <2>3 DEF EncEnable
      <3>3. enc' \in EncRecords /\ enc'.at = "push" /\ enc'.frame = enc.frame
        BY <1>a, <3>1, <3>2 DEF EncRecords
      <3>. QED BY <1>4, <2>1, <3>3 DEF EncEnable, TypeOK, Held, EncRecords, queVars, writeVars
    <2>. QED BY <2>2, <2>3
  <1>5. CASE UiMake
    <2>1. Packet("ui", ui.n + 1, 0, clock) \in PacketSet
      BY <1>a DEF UiRecords, TypeOK, Packet, PacketSet
    <2>2. ui.n + 1 \in 0 .. NumUi
      BY <1>a, <1>5 DEF UiMake, UiRecords
    <2>3. ui' \in UiRecords /\ ui'.packet.from = "ui" /\ ui'.packet.n = ui'.n /\ ui'.packet.seq = 0
      BY <1>5, <2>1, <2>2 DEF UiMake, UiRecords, Packet
    <2>4. ui'.at = "push" /\ ui'.packet \in PacketSet
      BY <1>5, <2>1 DEF UiMake
    <2>. QED BY <1>5, <2>3, <2>4 DEF UiMake, TypeOK, Held, UiRecords, queVars, writeVars
  <1>6. CASE UiPush
    <2>1. que' \subseteq Entries /\ que' # {} /\ front' \in que' /\ safe' \subseteq PacketSet
      BY <1>6, PushFacts DEF UiPush, Held
    <2>2. ui' \in UiRecords /\ ui'.at = "enable"
      BY <1>a, <1>6 DEF UiPush, UiRecords
    <2>. QED BY <1>6, <2>1, <2>2 DEF UiPush, TypeOK, Held, UiRecords, Entries, writeVars
  <1>7. CASE UiEnable
    <2>1. ui' \in UiRecords /\ ui'.at = "idle"
      BY <1>a, <1>7 DEF UiEnable, UiRecords
    <2>. QED BY <1>7, <2>1 DEF UiEnable, TypeOK, Held, UiRecords, queVars, writeVars
  <1>8. CASE StartEncoder
    <2>1. enc' \in EncRecords /\ enc'.at = "sleep"
      BY <1>a, <1>8 DEF StartEncoder, EncRecords
    <2>. QED BY <1>8, <2>1 DEF StartEncoder, TypeOK, Held, EncRecords, queVars, writeVars
  <1>9. CASE CallWriteCallback
    BY <1>9 DEF CallWriteCallback, TypeOK, Held, threadVars, queVars
  <1>10. CASE GetTop
    <2>1. que # {} => front.packet \in PacketSet
      BY QueueFacts
    <2>. QED BY <1>10, <2>1 DEF GetTop, TypeOK, Held, threadVars, queVars
  <1>11. CASE PopTop
    <2>1. que' \subseteq Entries /\ front' \in IF que' = {} THEN {NoEntry} ELSE que'
      BY <1>11, PopFacts DEF PopTop, Held
    <2>2. raced' \in BOOLEAN /\ pc' = "write" /\ ptrPacket' = ptrPacket /\ ptrPacket \in PacketSet
      BY <1>11 DEF PopTop, Held, TypeOK
    <2>. QED BY <1>11, <2>1, <2>2 DEF PopTop, TypeOK, Held, Entries, threadVars
  <1>12. CASE Write
    <2>0. fault' \in BOOLEAN /\ UNCHANGED <<threadVars, queVars, ptrPacket, fails, raced>>
      BY <1>12 DEF Write, TypeOK
    <2>1. CASE UNCHANGED <<wire, freed, broken, pending, pc>>
      BY <2>0, <2>1 DEF TypeOK, Held, threadVars, queVars
    <2>2. CASE \E p \in PacketSet : WriteAndDelete(p)
      <3>1. PICK p \in PacketSet : WriteAndDelete(p)
        BY <2>2
      <3>2. wire' \in Seq(PacketSet)
        BY <3>1, RangeAppend DEF WriteAndDelete, TypeOK
      <3>3. freed' \subseteq PacketSet /\ broken' \in BOOLEAN /\ pending' \in BOOLEAN /\ pc' = "loop"
        BY <3>1 DEF WriteAndDelete, TypeOK
      <3>. QED BY <2>0, <3>2, <3>3 DEF TypeOK, Held, threadVars, queVars
    <2>3. Queued \subseteq PacketSet /\ ptrPacket \in PacketSet
      BY <1>12, QueueFacts DEF Write, Held
    <2>. QED BY <1>12, <2>1, <2>2, <2>3 DEF Write
  <1>13. CASE WriteFails
    <2>1. fails + 1 \in 0 .. MaxFail /\ ptrPacket \in PacketSet
      BY <1>13 DEF WriteFails, TypeOK, Held
    <2>2. que' \subseteq Entries /\ que' # {} /\ front' \in que' /\ safe' \subseteq PacketSet
      BY <1>13, <2>1, PushFacts DEF WriteFails
    <2>. QED BY <1>13, <2>1, <2>2 DEF WriteFails, TypeOK, Held, Entries, threadVars
  <1>14. CASE UNCHANGED vars
    BY <1>14 DEF vars, TypeOK, Held, threadVars, queVars, writeVars
  <1>. QED BY <1>1, <1>2, <1>3, <1>4, <1>5, <1>6, <1>7, <1>8, <1>9, <1>10, <1>11, <1>12, <1>13, <1>14 DEF Next

\* The three threads keep the types of the sending side, and top() and pop()
\* are never called on an empty queue, though empty() and they are three calls.
THEOREM TypeCorrect == Spec => [](TypeOK /\ (pc = "pop" => que # {}))
  <1>1. TypeInv => TypeOK /\ (pc = "pop" => que # {})
    BY DEF TypeInv, Held
  <1>. QED BY <1>1, InitType, StepType, PTL DEF Spec
-----------------------------------------------------------------------------
(* No packet is lost.                                                      *)

\* The encoder thread and the UI thread have pushed packet x.
Pushed(x) ==
  IF x.from = "enc"
    THEN \/ x.n < enc.frame
         \/ x.n = enc.frame /\ (x.seq < enc.pack \/ (x.seq = enc.pack /\ enc.at # "push"))
    ELSE x.n < ui.n \/ (x.n = ui.n /\ ui.at # "push")

Known == Queued \cup safe \cup freed \cup Hand

\* Every packet that is anywhere has been pushed, so the next one to be pushed
\* is not there yet.
IndexInv == \A x \in Known : Pushed(x)

\* While a pop() is due, the front is the packet that top() returned or one
\* pushed since, and what was deleted is on the wire.
LostInv ==
  /\ pc = "pop" => front.packet = ptrPacket \/ front.packet \notin safe
  /\ freed \subseteq Range(wire)

\* NewSession is in the queue and has been pushed.
LEMMA InitLost == Init => IndexInv /\ LostInv /\ NoneLost
  <1> SUFFICES ASSUME Init PROVE IndexInv /\ LostInv /\ NoneLost
    OBVIOUS
  <1> DEFINE p == Packet("ui", 0, 0, 0)
  <1>1. front.packet = p /\ Queued = {p} /\ safe = {p} /\ freed = {} /\ Hand = {}
    BY DEF Init, Entry, Queued, Hand
  <1>2. Known = {p}
    BY <1>1 DEF Known
  <1>3. Pushed(p)
    BY DEF Init, Packet, Pushed
  <1>4. IndexInv
    BY <1>2, <1>3 DEF IndexInv
  <1>. QED BY <1>1, <1>4 DEF LostInv, NoneLost, Init

\* The packets that a thread is about to push are not known.
LEMMA EncFresh ==
  ASSUME TypeInv, IndexInv, enc.at = "push"
  PROVE  Packet("enc", enc.frame, enc.pack, enc.timestamp) \notin Known
  <1> DEFINE p == Packet("enc", enc.frame, enc.pack, enc.timestamp)
  <1>1. ~Pushed(p)
    BY DEF Pushed, Packet, TypeInv, TypeOK
  <1>. QED BY <1>1 DEF IndexInv

\* Nor is the packet that the UI thread is about to push.
LEMMA UiFresh ==
  ASSUME TypeInv, IndexInv, ui.at = "push"
  PROVE  ui.packet \notin Known
  <1>1. ~Pushed(ui.packet)
    BY DEF Pushed, TypeInv, TypeOK, Held
  <1>. QED BY <1>1 DEF IndexInv

\* A step of the encoder thread or of the UI thread forgets no push.
LEMMA PushedStays ==
  ASSUME TypeInv, [Next]_vars, NEW x \in PacketSet, Pushed(x)
  PROVE  Pushed(x)'
  <1> USE DEF Pushed, PacketSet
  <1>1. CASE NextFrame
    <2>1. enc'.frame = enc.frame + 1 /\ ui' = ui /\ enc.frame \in Nat
      BY <1>1 DEF NextFrame, TypeInv, TypeOK
    <2>2. x.n <= enc.frame => x.n < enc'.frame
      BY <2>1
    <2>. QED BY <2>1, <2>2
  <1>2. CASE EncPush
    BY <1>2 DEF EncPush, TypeInv, TypeOK
  <1>3. CASE EncEnable
    <2>1. CASE IsLastPack
      BY <1>3, <2>1 DEF EncEnable, TypeInv, TypeOK
    <2>2. CASE ~IsLastPack
      <3>1. enc' = [enc EXCEPT !.at = "push", !.pack = @ + 1] /\ ui' = ui
        BY <1>3, <2>2 DEF EncEnable
      <3>2. enc'.frame = enc.frame /\ enc'.pack = enc.pack + 1
        BY <3>1 DEF TypeInv, TypeOK
      <3>. QED BY <3>1, <3>2 DEF TypeInv, TypeOK
    <2>. QED BY <2>1, <2>2
  <1>4. CASE UiMake
    BY <1>4 DEF UiMake, TypeInv, TypeOK
  <1>5. CASE UiPush
    BY <1>5 DEF UiPush, TypeInv, TypeOK
  <1>6. CASE UiEnable
    BY <1>6 DEF UiEnable, TypeInv, TypeOK
  <1>7. CASE StartEncoder
    BY <1>7 DEF StartEncoder, TypeInv, TypeOK
  <1>8. CASE UNCHANGED <<enc, ui>>
    BY <1>8
  <1>9. Tick \/ CallWriteCallback \/ GetTop \/ PopTop \/ Write \/ WriteFails \/ UNCHANGED vars => UNCHANGED <<enc, ui>>
    BY DEF Tick, CallWriteCallback, GetTop, PopTop, Write, WriteFails, vars, threadVars
  <1>. QED BY <1>1, <1>2, <1>3, <1>4, <1>5, <1>6, <1>7, <1>8, <1>9 DEF Next

\* What a step adds to the known packets.
LEMMA KnownGrows ==
  ASSUME TypeInv, [Next]_vars
  PROVE  /\ Known' \subseteq PacketSet
         /\ \A x \in Known' : x \in Known \/ Pushed(x)'
  <1>0. Known \subseteq PacketSet /\ Queued \subseteq PacketSet
    BY QueueFacts DEF Known, Hand, TypeInv, TypeOK, Held
  <1>1. CASE EncPush
    <2> DEFINE p == Packet("enc", enc.frame, enc.pack, enc.timestamp)
    <2>1. p \in PacketSet
      BY DEF TypeInv, TypeOK, Packet, PacketSet
    <2>2. Queued' = Queued \cup {p} /\ safe' \subseteq safe \cup {p} /\ freed' = freed /\ Hand' = Hand
      BY <1>1, <2>1, PushFacts DEF EncPush, TypeInv, Hand, writeVars
    <2>3. \A x : x = p => Pushed(x)'
      BY <1>1 DEF EncPush, Pushed, Packet, TypeInv, TypeOK
    <2>. QED BY <1>0, <2>1, <2>2, <2>3 DEF Known
  <1>2. CASE UiPush
    <2>1. ui.packet \in PacketSet
      BY <1>2 DEF UiPush, TypeInv, Held
    <2>2. Queued' = Queued \cup {ui.packet} /\ safe' \subseteq safe \cup {ui.packet} /\ freed' = freed /\ Hand' = Hand
      BY <1>2, <2>1, PushFacts DEF UiPush, TypeInv, Hand, writeVars
    <2>3. \A x : x = ui.packet => Pushed(x)'
      BY <1>2 DEF UiPush, Pushed, TypeInv, TypeOK, Held
    <2>. QED BY <1>0, <2>1, <2>2, <2>3 DEF Known
  <1>3. CASE GetTop
    <2>1. UNCHANGED <<que, safe, freed>> /\ (que # {} => front.packet \in Queued)
      BY <1>3, QueueFacts DEF GetTop, queVars, TypeInv
    <2>2. Hand' \subseteq Queued
      BY <1>3, <2>1 DEF GetTop, Hand
    <2>. QED BY <1>0, <2>1, <2>2 DEF Known, Queued
  <1>4. CASE PopTop
    <2>1. Queued' \subseteq Queued
      BY <1>4, PopFacts DEF PopTop, TypeInv, Held
    <2>2. UNCHANGED <<safe, freed>> /\ Hand' = Hand
      BY <1>4 DEF PopTop, Hand
    <2>. QED BY <1>0, <2>1, <2>2 DEF Known
  <1>5. CASE Write
    <2>1. UNCHANGED <<que, safe, ptrPacket>> /\ Hand' \subseteq {ptrPacket} /\ Hand = {ptrPacket}
      BY <1>5 DEF Write, queVars, Hand
    <2>2. freed' \subseteq freed \cup {ptrPacket} \cup Queued
      BY <1>5 DEF Write, WriteAndDelete
    <2>. QED BY <1>0, <2>1, <2>2 DEF Known, Queued
  <1>6. CASE WriteFails
    <2>1. ptrPacket \in PacketSet /\ fails + 1 \in 0 .. MaxFail
      BY <1>6 DEF WriteFails, TypeInv, TypeOK, Held
    <2>2. Queued' = Queued \cup {ptrPacket} /\ safe' \subseteq safe \cup {ptrPacket} /\ freed' = freed
      BY <1>6, <2>1, PushFacts DEF WriteFails, TypeInv
    <2>3. Hand' = {} /\ Hand = {ptrPacket}
      BY <1>6 DEF WriteFails, Hand
    <2>. QED BY <1>0, <2>2, <2>3 DEF Known
  <1>7. CASE UNCHANGED <<que, safe, freed>> /\ Hand' \subseteq Hand
    BY <1>0, <1>7 DEF Known, Queued
  <1>8. Tick \/ NextFrame \/ EncEnable \/ UiMake \/ UiEnable \/ StartEncoder \/ CallWriteCallback \/ UNCHANGED vars
          => UNCHANGED <<que, safe, freed>> /\ Hand' \subseteq Hand
    BY DEF Tick, NextFrame, EncEnable, UiMake, UiEnable, StartEncoder, CallWriteCallback, Hand,
           vars, queVars, writeVars
  <1>. QED BY <1>1, <1>2, <1>3, <1>4, <1>5, <1>6, <1>7, <1>8 DEF Next

\* No step makes a packet known that was not pushed.
LEMMA StepIndex == TypeInv /\ IndexInv /\ [Next]_vars => IndexInv'
  <1> SUFFICES ASSUME TypeInv, IndexInv, [Next]_vars, NEW x \in Known' PROVE Pushed(x)'
    BY DEF IndexInv
  <1>1. x \in PacketSet /\ (x \in Known \/ Pushed(x)')
    BY KnownGrows
  <1>. QED BY <1>1, PushedStays DEF IndexInv

\* A push, by whichever thread, keeps NoneLost and what it rests on.
LEMMA PushLost ==
  ASSUME TypeInv, LostInv, NoneLost, NEW p \in PacketSet, NEW c \in 0 .. MaxFail, Push(p, c),
         UNCHANGED <<wire, freed, ptrPacket>>,
         pc = "pop" => p \notin safe,
         pc' = pc \/ (pc = "write" /\ ptrPacket = p /\ pc' = "wait")
  PROVE  LostInv' /\ NoneLost'
  <1>1. /\ Queued' = Queued \cup {p} /\ safe' = IF pc = "pop" THEN safe ELSE safe \cup {p}
        /\ front'.packet = p \/ front' = front
    BY PushFacts DEF TypeInv
  <1>2. NoneLost'
    BY <1>1 DEF NoneLost
  <1>. QED BY <1>1, <1>2 DEF LostInv

\* Each action keeps NoneLost: only a push changes the front while a pop() is due.
LEMMA StepLost == TypeInv /\ IndexInv /\ LostInv /\ NoneLost /\ [Next]_vars => LostInv' /\ NoneLost'
  <1> SUFFICES ASSUME TypeInv, IndexInv, LostInv, NoneLost, [Next]_vars PROVE LostInv' /\ NoneLost'
    OBVIOUS
  <1>1. CASE EncPush
    <2> DEFINE p == Packet("enc", enc.frame, enc.pack, enc.timestamp)
    <2>1. p \in PacketSet /\ p \notin safe
      BY <1>1, EncFresh DEF EncPush, TypeInv, TypeOK, Packet, PacketSet, Known
    <2>. QED BY <1>1, <2>1, PushLost DEF EncPush, writeVars
  <1>2. CASE UiPush
    <2>1. ui.packet \in PacketSet /\ ui.packet \notin safe
      BY <1>2, UiFresh DEF UiPush, TypeInv, Held, Known
    <2>. QED BY <1>2, <2>1, PushLost DEF UiPush, writeVars
  <1>3. CASE CallWriteCallback
    BY <1>3 DEF CallWriteCallback, LostInv, NoneLost, Queued, queVars
  <1>4. CASE GetTop
    BY <1>4 DEF GetTop, LostInv, NoneLost, Queued, queVars
  <1>5. CASE PopTop
    <2>1. Queued \subseteq Queued' \cup {front.packet} /\ UNCHANGED <<safe, ptrPacket, freed, wire>>
      BY <1>5, PopFacts DEF PopTop, TypeInv, Held
    <2>2. pc = "pop" /\ pc' = "write"
      BY <1>5 DEF PopTop
    <2>. QED BY <2>1, <2>2 DEF LostInv, NoneLost
  <1>6. CASE Write
    <2>0. pc = "write" /\ UNCHANGED <<que, front, safe, ptrPacket>> /\ Queued' = Queued
      BY <1>6 DEF Write, queVars, Queued
    <2>1. CASE UNCHANGED <<wire, freed, pc>>
      BY <2>0, <2>1 DEF LostInv, NoneLost
    <2>2. CASE \E p \in PacketSet : WriteAndDelete(p) /\ (p = ptrPacket \/ ptrPacket \in freed)
      <3>1. PICK p \in PacketSet : WriteAndDelete(p) /\ (p = ptrPacket \/ ptrPacket \in freed)
        BY <2>2
      <3>2. Range(wire') = Range(wire) \cup {p} /\ freed' = freed \cup {p} /\ pc' = "loop"
        BY <3>1, RangeAppend DEF WriteAndDelete, TypeInv, TypeOK
      <3>. QED BY <2>0, <3>1, <3>2 DEF LostInv, NoneLost
    <2>3. Queued \subseteq PacketSet /\ ptrPacket \in PacketSet
      BY <1>6, QueueFacts DEF Write, TypeInv, Held
    <2>. QED BY <1>6, <2>1, <2>2, <2>3 DEF Write
  <1>7. CASE WriteFails
    <2>1. ptrPacket \in PacketSet /\ fails + 1 \in 0 .. MaxFail
      BY <1>7 DEF WriteFails, TypeInv, TypeOK, Held
    <2>. QED BY <1>7, <2>1, PushLost DEF WriteFails
  <1>8. CASE UNCHANGED <<queVars, pc, ptrPacket, wire, freed>>
    BY <1>8 DEF LostInv, NoneLost, Queued, queVars
  <1>9. Tick \/ NextFrame \/ EncEnable \/ UiMake \/ UiEnable \/ StartEncoder \/ UNCHANGED vars
          => UNCHANGED <<queVars, pc, ptrPacket, wire, freed>>
    BY DEF Tick, NextFrame, EncEnable, UiMake, UiEnable, StartEncoder, vars, writeVars
  <1>. QED BY <1>1, <1>2, <1>3, <1>4, <1>5, <1>6, <1>7, <1>8, <1>9 DEF Next

\* No packet of the stream and none of the UI thread is lost, in whatever order
\* the encoder thread, the UI thread and WriteCallback take their steps, however
\* often bufferevent_write fails and even with deleted packets in the queue,
\* except those pushed between a top() and its pop().
THEOREM NothingLost == Spec => []NoneLost
  <1>1. Init => TypeInv /\ IndexInv /\ LostInv /\ NoneLost
    BY InitType, InitLost
  <1>2. TypeInv /\ IndexInv /\ LostInv /\ NoneLost /\ [Next]_vars
          => (TypeInv /\ IndexInv /\ LostInv /\ NoneLost)'
    BY StepType, StepIndex, StepLost
  <1>. QED BY <1>1, <1>2, PTL DEF Spec
-----------------------------------------------------------------------------
(* A race takes a packet of the UI thread while the encoder is streaming.  *)

\* Packet x does not come after the packets that are yet to be pushed.
OrderOk(x) ==
  /\ enc.frame = 0 => x.seq = 0 /\ x.timestamp <= clock
  /\ enc.frame # 0 => \/ x.timestamp < enc.timestamp
                      \/ x.timestamp = enc.timestamp /\ x.seq <= enc.pack
  /\ ui.at = "push" => x.timestamp <= ui.packet.timestamp

Ordered == \A x \in Queued \cup Hand : OrderOk(x)

\* The UI thread has sent nothing since the encoder thread was started.
UiEarly ==
  /\ ui.at # "idle" => enc.at = "off"
  /\ ui.at = "push" => ui.packet.timestamp <= clock

\* The queue is a heap of packets that are in it once and not deleted, and
\* pop() will remove what top() returned.
HeapOk ==
  /\ ~raced /\ ~broken
  /\ \A d, e \in que : d.packet = e.packet => d = e
  /\ que # {} => \A d \in que : ~Before(d.packet, front.packet)
  /\ pc = "pop" => front.packet = ptrPacket
  /\ pc = "write" => ptrPacket \notin Queued /\ ptrPacket \notin freed
  /\ \A x \in Queued : x \notin freed

LateInv ==
  /\ ui.late => enc.at # "off"
  /\ ~ui.late => UiEarly /\ Ordered /\ HeapOk

\* At the start the queue is a heap of one packet.
LEMMA InitLate == Init => LateInv
  <1> SUFFICES ASSUME Init PROVE LateInv
    OBVIOUS
  <1> DEFINE p == Packet("ui", 0, 0, 0)
  <1>1. front.packet = p /\ que = {front} /\ Queued = {p} /\ Hand = {} /\ freed = {}
    BY DEF Init, Entry, Queued, Hand
  <1>2. OrderOk(p) /\ ~Before(p, p)
    BY DEF Init, OrderOk, Packet, Before
  <1>3. Ordered
    BY <1>1, <1>2 DEF Ordered
  <1>4. HeapOk
    BY <1>1, <1>2 DEF Init, HeapOk
  <1>. QED BY <1>3, <1>4 DEF Init, LateInv, UiEarly

\* cmp is a strict order in which incomparable packets have the same place.
LEMMA BeforeFacts ==
  ASSUME NEW p \in PacketSet, NEW q \in PacketSet, NEW r \in PacketSet
  PROVE  /\ ~Before(p, p)
         /\ Before(p, q) => ~Before(q, p)
         /\ Before(p, q) /\ ~Before(r, q) => ~Before(r, p)
  BY DEF Before, PacketSet

\* A push keeps the heap, and comes behind what top() returned.
LEMMA PushHeap ==
  ASSUME TypeInv, HeapOk, NEW p \in PacketSet, NEW c \in 0 .. MaxFail, Push(p, c),
         p \notin Queued, p \notin freed,
         pc = "pop" => ~Before(p, front.packet),
         UNCHANGED <<freed, raced, broken, ptrPacket>>,
         (pc' = pc /\ (pc = "write" => p # ptrPacket)) \/ pc' = "wait"
  PROVE  HeapOk'
  <1>0. que \subseteq Entries /\ Queued \subseteq PacketSet /\ (\A e \in que : e.packet \in Queued)
    BY QueueFacts DEF TypeInv
  <1>1. /\ que' = que \cup {Entry(p, c)} /\ Entry(p, c).packet = p /\ Queued' = Queued \cup {p}
        /\ Entry(p, c) \notin que
    BY <1>0, PushFacts DEF TypeInv
  <1>2. \A d, e \in que' : d.packet = e.packet => d = e
    BY <1>0, <1>1 DEF HeapOk
  <1>3. \A d \in que' : ~Before(d.packet, front'.packet)
    <2>1. CASE que = {}
      <3>1. front' = Entry(p, c)
        BY <2>1 DEF Push
      <3>. QED BY <1>1, <2>1, <3>1, BeforeFacts
    <2>2. CASE que # {} /\ Before(p, front.packet)
      <3>1. front' = Entry(p, c) /\ front.packet \in PacketSet
        BY <2>2, QueueFacts DEF Push, HeapOk, TypeInv
      <3>2. \A d \in que : ~Before(d.packet, p)
        BY <1>0, <2>2, <3>1, BeforeFacts DEF HeapOk
      <3>. QED BY <1>1, <3>1, <3>2, BeforeFacts
    <2>3. CASE que # {} /\ ~Before(p, front.packet)
      <3>1. front' = front
        BY <2>3 DEF Push, HeapOk
      <3>. QED BY <1>1, <2>3, <3>1 DEF HeapOk
    <2>. QED BY <2>1, <2>2, <2>3
  <1>4. pc = "pop" => front' = front
    BY DEF Push, HeapOk, TypeInv, Held
  <1>. QED BY <1>1, <1>2, <1>3, <1>4 DEF HeapOk

\* Packets that are in order stay so while the clock and the encoder thread go on.
LEMMA OrderStays ==
  ASSUME TypeInv, LateInv, ~ui.late, NEW x \in PacketSet, OrderOk(x),
         Tick \/ NextFrame \/ EncEnable \/ UiMake \/ UiEnable \/ StartEncoder, ~ui'.late
  PROVE  OrderOk(x)'
  <1>0. UiEarly /\ x.timestamp \in Nat /\ x.seq \in Nat /\ clock \in Nat
        /\ enc.frame \in Nat /\ enc.pack \in Nat /\ enc.timestamp \in Nat
    BY DEF LateInv, TypeInv, TypeOK, PacketSet
  <1>1. CASE Tick
    BY <1>0, <1>1 DEF Tick, OrderOk
  <1>2. CASE NextFrame
    <2>1. enc'.frame # 0 /\ enc'.timestamp = clock /\ enc'.pack = 0 /\ ui' = ui
      BY <1>0, <1>2 DEF NextFrame
    <2>2. ui.at = "idle"
      BY <1>0, <1>2 DEF NextFrame, UiEarly, TypeInv, TypeOK
    <2>3. x.timestamp < clock \/ (x.timestamp = clock /\ x.seq = 0)
      BY <1>0, <1>2 DEF NextFrame, OrderOk
    <2>. QED BY <1>0, <2>1, <2>2, <2>3 DEF OrderOk
  <1>3. CASE EncEnable
    <2>1. enc.frame # 0 /\ ui' = ui /\ clock' = clock
      BY <1>3 DEF EncEnable, TypeInv, Held
    <2>2. enc'.frame = enc.frame /\ enc'.timestamp = enc.timestamp /\ (enc'.pack = enc.pack \/ enc'.pack = enc.pack + 1)
      BY <1>3 DEF EncEnable, TypeInv, TypeOK
    <2>. QED BY <1>0, <2>1, <2>2 DEF OrderOk
  <1>4. CASE UiMake
    <2>1. ui'.packet.timestamp = clock /\ enc' = enc /\ clock' = clock
      BY <1>4 DEF UiMake, Packet
    <2>2. enc.at = "off"
      BY <1>4 DEF UiMake
    <2>3. enc.frame = 0
      BY <2>2 DEF TypeInv, Held
    <2>. QED BY <1>0, <2>1, <2>3 DEF OrderOk
  <1>5. CASE UiEnable
    BY <1>0, <1>5 DEF UiEnable, OrderOk, TypeInv, TypeOK
  <1>6. CASE StartEncoder
    BY <1>0, <1>6 DEF StartEncoder, OrderOk, TypeInv, TypeOK
  <1>. QED BY <1>1, <1>2, <1>3, <1>4, <1>5, <1>6

\* Steps that leave the queue alone keep LateInv.
LEMMA LateQuiet ==
  ASSUME TypeInv, LateInv, Tick \/ NextFrame \/ EncEnable \/ UiMake \/ UiEnable \/ StartEncoder
  PROVE  LateInv'
  <1>0. UNCHANGED <<queVars, writeVars>> /\ Queued' = Queued /\ Hand' = Hand
    BY DEF Tick, NextFrame, EncEnable, UiMake, UiEnable, StartEncoder, queVars, writeVars, Queued, Hand
  <1>1. Queued \cup Hand \subseteq PacketSet
    BY QueueFacts DEF TypeInv, TypeOK, Held, Hand
  <1>2. (ui.late => enc.at # "off") /\ (enc.at # "off" => enc'.at # "off") /\ (ui'.late => ui.late \/ enc'.at # "off")
    <2>1. ui.late => enc.at # "off"
      BY DEF LateInv
    <2>2. enc.at # "off" => enc'.at # "off"
      <3>1. NextFrame => enc'.at = "push"
        BY DEF NextFrame
      <3>2. EncEnable => enc'.at \in {"sleep", "push"}
        BY DEF EncEnable, TypeInv, TypeOK
      <3>3. StartEncoder => enc'.at = "sleep"
        BY DEF StartEncoder, TypeInv, TypeOK
      <3>4. Tick \/ UiMake \/ UiEnable => enc' = enc
        BY DEF Tick, UiMake, UiEnable
      <3>. QED BY <3>1, <3>2, <3>3, <3>4
    <2>3. ui'.late => ui.late \/ enc'.at # "off"
      <3>1. UiMake => enc' = enc /\ (ui'.late => enc.at # "off")
        <4>1. ASSUME UiMake, enc.at = "off" PROVE ~ui'.late
          <5>1. (enc.at # "off") = FALSE
            BY <4>1
          <5>2. ui' = [n |-> ui.n + 1, packet |-> Packet("ui", ui.n + 1, 0, clock), at |-> "push", late |-> FALSE]
            BY <4>1, <5>1, Zenon DEF UiMake
          <5>. QED BY <5>2
        <4>2. UiMake => enc' = enc
          BY DEF UiMake
        <4>. QED BY <4>1, <4>2
      <3>2. Tick \/ NextFrame \/ EncEnable \/ StartEncoder => ui' = ui
        BY DEF Tick, NextFrame, EncEnable, StartEncoder
      <3>3. UiEnable => (ui'.late <=> ui.late)
        BY DEF UiEnable, TypeInv, TypeOK
      <3>. QED BY <3>1, <3>2, <3>3
    <2>. QED BY <2>1, <2>2, <2>3
  <1>3. ~ui'.late => ~ui.late
    BY DEF LateInv, Tick, NextFrame, EncEnable, UiMake, UiEnable, StartEncoder, TypeInv, TypeOK
  <1>4. ASSUME ~ui'.late PROVE UiEarly' /\ Ordered' /\ HeapOk'
    <2>0. ~ui.late /\ UiEarly /\ Ordered /\ HeapOk
      BY <1>3, <1>4 DEF LateInv
    <2>1. Ordered'
      BY <1>0, <1>1, <1>4, <2>0, OrderStays DEF Ordered
    <2>2. HeapOk'
      BY <1>0, <2>0 DEF HeapOk, queVars, writeVars
    <2>3. UiEarly'
      <3>1. CASE Tick
        BY <2>0, <3>1 DEF Tick, UiEarly, TypeInv, TypeOK, Held, PacketSet
      <3>2. CASE NextFrame
        BY <2>0, <3>2 DEF NextFrame, UiEarly, TypeInv, TypeOK
      <3>3. CASE EncEnable
        BY <2>0, <3>3 DEF EncEnable, UiEarly, TypeInv, TypeOK
      <3>4. CASE UiMake
        <4>1. ui'.packet.timestamp = clock /\ enc' = enc /\ clock' = clock /\ clock \in Nat
          BY <3>4 DEF UiMake, Packet, TypeInv, TypeOK
        <4>2. enc.at = "off"
          BY <1>4, <3>4 DEF UiMake
        <4>. QED BY <4>1, <4>2 DEF UiEarly
      <3>5. CASE UiEnable
        BY <2>0, <3>5 DEF UiEnable, UiEarly, TypeInv, TypeOK
      <3>6. CASE StartEncoder
        BY <2>0, <3>6 DEF StartEncoder, UiEarly, TypeInv, TypeOK
      <3>. QED BY <3>1, <3>2, <3>3, <3>4, <3>5, <3>6
    <2>. QED BY <2>1, <2>2, <2>3
  <1>. QED BY <1>2, <1>4 DEF LateInv

\* The encoder thread pushes behind everything that is in the queue.
LEMMA LateEncPush ==
  ASSUME TypeInv, IndexInv, LateInv, EncPush
  PROVE  LateInv'
  <1> DEFINE p == Packet("enc", enc.frame, enc.pack, enc.timestamp)
  <1>0. p \in PacketSet /\ p.timestamp = enc.timestamp /\ p.seq = enc.pack
    BY DEF TypeInv, TypeOK, Packet, PacketSet
  <1>1. /\ enc.at = "push" /\ enc.frame # 0 /\ enc' = [enc EXCEPT !.at = "enable"] /\ ui' = ui /\ clock' = clock
        /\ Push(p, 0) /\ UNCHANGED writeVars
    BY DEF EncPush, TypeInv, Held
  <1>2. enc'.at = "enable" /\ enc'.frame = enc.frame /\ enc'.pack = enc.pack /\ enc'.timestamp = enc.timestamp
    BY <1>1 DEF TypeInv, TypeOK
  <1>3. p \notin Queued /\ p \notin freed /\ p \notin Hand
    BY <1>1, EncFresh DEF Known
  <1>4. ASSUME ~ui.late PROVE UiEarly' /\ Ordered' /\ HeapOk'
    <2>0. UiEarly /\ Ordered /\ HeapOk /\ ui.at = "idle"
      BY <1>1, <1>4 DEF LateInv, UiEarly
    <2>1. \A x \in Queued : x \in PacketSet /\ ~Before(p, x)
      <3> SUFFICES ASSUME NEW x \in Queued PROVE x \in PacketSet /\ ~Before(p, x)
        OBVIOUS
      <3>1. x \in PacketSet
        BY QueueFacts DEF TypeInv
      <3>2. x.timestamp < enc.timestamp \/ (x.timestamp = enc.timestamp /\ x.seq <= enc.pack)
        BY <1>1, <2>0 DEF Ordered, OrderOk
      <3>. QED BY <1>0, <3>1, <3>2 DEF Before, PacketSet
    <2>2. HeapOk'
      <3>1. pc = "pop" => front.packet \in Queued
        BY QueueFacts DEF TypeInv, Held
      <3>2. pc = "write" => p # ptrPacket
        BY <1>3 DEF Hand
      <3>3. pc' = pc /\ UNCHANGED <<freed, raced, broken, ptrPacket>>
        BY <1>1 DEF writeVars
      <3>4. 0 \in 0 .. MaxFail
        OBVIOUS
      <3>. HIDE DEF p
      <3>. QED BY <1>0, <1>1, <1>3, <2>0, <2>1, <3>1, <3>2, <3>3, <3>4, PushHeap
    <2>3. Ordered'
      <3>1. Queued' = Queued \cup {p} /\ Hand' = Hand
        BY <1>0, <1>1, PushFacts DEF TypeInv, Hand, writeVars
      <3>2. \A x : OrderOk(x) => OrderOk(x)'
        BY <1>1, <1>2 DEF OrderOk
      <3>3. \A x : x = p => OrderOk(x)'
        BY <1>0, <1>1, <1>2, <2>0 DEF OrderOk, TypeInv, TypeOK
      <3>. HIDE DEF p
      <3>. QED BY <2>0, <3>1, <3>2, <3>3 DEF Ordered
    <2>4. UiEarly'
      BY <1>1, <2>0 DEF UiEarly
    <2>. QED BY <2>2, <2>3, <2>4
  <1>. QED BY <1>1, <1>2, <1>4 DEF LateInv

\* So does the UI thread, before the encoder thread is started.
LEMMA LateUiPush ==
  ASSUME TypeInv, IndexInv, LateInv, UiPush
  PROVE  LateInv'
  <1> DEFINE p == ui.packet
  <1>0. p \in PacketSet /\ p.seq = 0 /\ p.timestamp \in Nat
    BY DEF UiPush, TypeInv, Held, PacketSet
  <1>1. ui.at = "push" /\ ui' = [ui EXCEPT !.at = "enable"] /\ enc' = enc /\ clock' = clock /\ Push(p, 0) /\ UNCHANGED writeVars
    BY DEF UiPush
  <1>2. ui'.at = "enable" /\ ui'.late = ui.late
    BY <1>1 DEF TypeInv, TypeOK
  <1>3. p \notin Queued /\ p \notin freed /\ p \notin Hand
    BY <1>1, UiFresh DEF Known
  <1>4. ASSUME ~ui.late PROVE UiEarly' /\ Ordered' /\ HeapOk'
    <2>0. UiEarly /\ Ordered /\ HeapOk /\ enc.at = "off" /\ enc.frame = 0 /\ p.timestamp <= clock
      BY <1>1, <1>4 DEF LateInv, UiEarly, TypeInv, Held
    <2>1. \A x \in Queued : x \in PacketSet /\ ~Before(p, x)
      <3> SUFFICES ASSUME NEW x \in Queued PROVE x \in PacketSet /\ ~Before(p, x)
        OBVIOUS
      <3>1. x \in PacketSet
        BY QueueFacts DEF TypeInv
      <3>2. x.timestamp <= p.timestamp /\ x.seq = 0
        BY <1>1, <2>0 DEF Ordered, OrderOk
      <3>. QED BY <1>0, <3>1, <3>2 DEF Before, PacketSet
    <2>2. HeapOk'
      <3>1. pc = "pop" => front.packet \in Queued
        BY QueueFacts DEF TypeInv, Held
      <3>2. pc = "write" => p # ptrPacket
        BY <1>3 DEF Hand
      <3>3. pc' = pc /\ UNCHANGED <<freed, raced, broken, ptrPacket>>
        BY <1>1 DEF writeVars
      <3>4. 0 \in 0 .. MaxFail
        OBVIOUS
      <3>. HIDE DEF p
      <3>. QED BY <1>0, <1>1, <1>3, <2>0, <2>1, <3>1, <3>2, <3>3, <3>4, PushHeap
    <2>3. Ordered'
      <3>1. Queued' = Queued \cup {p} /\ Hand' = Hand
        BY <1>0, <1>1, PushFacts DEF TypeInv, Hand, writeVars
      <3>2. \A x : OrderOk(x) => OrderOk(x)'
        BY <1>1, <1>2 DEF OrderOk
      <3>3. \A x : x = p => OrderOk(x)'
        BY <1>0, <1>1, <1>2, <2>0 DEF OrderOk
      <3>. HIDE DEF p
      <3>. QED BY <2>0, <3>1, <3>2, <3>3 DEF Ordered
    <2>4. UiEarly'
      BY <1>1, <1>2, <2>0 DEF UiEarly
    <2>. QED BY <2>2, <2>3, <2>4
  <1>. QED BY <1>1, <1>2, <1>4 DEF LateInv

\* The steps of WriteCallback keep LateInv.
LEMMA LateWrite ==
  ASSUME TypeInv, LateInv, CallWriteCallback \/ GetTop \/ PopTop \/ Write \/ WriteFails
  PROVE  LateInv'
  <1>0. UNCHANGED <<clock, enc, ui>>
    BY DEF CallWriteCallback, GetTop, PopTop, Write, WriteFails, threadVars
  <1>1. UiEarly => UiEarly'
    BY <1>0 DEF UiEarly
  <1>2. \A x : OrderOk(x) => OrderOk(x)'
    BY <1>0 DEF OrderOk
  <1>3. Ordered /\ Queued' \cup Hand' \subseteq Queued \cup Hand => Ordered'
    BY <1>2 DEF Ordered
  <1>4. ASSUME ~ui.late PROVE HeapOk' /\ Queued' \cup Hand' \subseteq Queued \cup Hand
    <2>0. HeapOk
      BY <1>4 DEF LateInv
    <2>1. CASE CallWriteCallback
      BY <2>0, <2>1 DEF CallWriteCallback, HeapOk, Queued, Hand, queVars
    <2>2. CASE GetTop
      <3>1. UNCHANGED <<que, front, freed, raced, broken>> /\ Queued' = Queued
        BY <2>2 DEF GetTop, queVars, Queued
      <3>2. que # {} => front.packet \in Queued
        BY QueueFacts DEF TypeInv
      <3>3. pc' = "wait" \/ (que # {} /\ pc' = "pop" /\ ptrPacket' = front.packet)
        BY <2>2 DEF GetTop
      <3>. QED BY <2>0, <3>1, <3>2, <3>3 DEF HeapOk, Hand
    <2>3. CASE PopTop
      <3>1. pc = "pop" /\ pc' = "write" /\ UNCHANGED <<freed, broken, ptrPacket>> /\ que # {} /\ Pop
        BY <2>3 DEF PopTop, TypeInv, Held
      <3>2. que' = que \ {front} /\ Queued' \subseteq Queued /\ front \in que
        BY <3>1, PopFacts, QueueFacts DEF TypeInv
      <3>3. que' # {} => \A d \in que' : ~Before(d.packet, front'.packet)
        BY <2>0, <3>1, PopFacts DEF TypeInv, HeapOk
      <3>4. front.packet = ptrPacket /\ raced' = FALSE
        BY <2>0, <2>3, <3>1 DEF PopTop, HeapOk
      <3>5. ptrPacket \notin Queued'
        <4>1. \A e \in que' : e.packet # ptrPacket
          BY <2>0, <3>2, <3>4 DEF HeapOk
        <4>. QED BY <4>1 DEF Queued
      <3>6. ptrPacket \notin freed
        BY <2>0, <3>1, <3>4, QueueFacts DEF HeapOk, TypeInv
      <3>. QED BY <2>0, <3>1, <3>2, <3>3, <3>4, <3>5, <3>6 DEF HeapOk, Hand
    <2>4. CASE Write
      <3>1. pc = "write" /\ ptrPacket \notin freed /\ ptrPacket \notin Queued
        BY <2>0, <2>4 DEF Write, HeapOk
      <3>2. WriteAndDelete(ptrPacket) /\ UNCHANGED <<que, front, ptrPacket, raced>> /\ Queued' = Queued
        BY <2>4, <3>1 DEF Write, queVars, Queued
      <3>3. pc' = "loop" /\ freed' = freed \cup {ptrPacket} /\ broken' = FALSE
        BY <2>0, <3>1, <3>2 DEF WriteAndDelete, HeapOk
      <3>. QED BY <2>0, <3>1, <3>2, <3>3 DEF HeapOk, Hand
    <2>5. CASE WriteFails
      <3>1. pc = "write" /\ pc' = "wait" /\ Push(ptrPacket, fails + 1) /\ UNCHANGED <<freed, raced, broken, ptrPacket>>
        BY <2>5 DEF WriteFails
      <3>2. ptrPacket \in PacketSet /\ fails + 1 \in 0 .. MaxFail
        BY <2>5 DEF WriteFails, TypeInv, TypeOK, Held
      <3>3. ptrPacket \notin Queued /\ ptrPacket \notin freed
        BY <2>0, <3>1 DEF HeapOk
      <3>4. HeapOk'
        BY <2>0, <3>1, <3>2, <3>3, PushHeap
      <3>5. Queued' = Queued \cup {ptrPacket} /\ Hand = {ptrPacket} /\ Hand' = {}
        BY <3>1, <3>2, PushFacts DEF Hand, TypeInv
      <3>. QED BY <3>4, <3>5
    <2>. QED BY <2>1, <2>2, <2>3, <2>4, <2>5
  <1>. QED BY <1>0, <1>1, <1>3, <1>4 DEF LateInv

\* No step makes pop() remove another packet without a late one.
LEMMA StepLate == TypeInv /\ IndexInv /\ LateInv /\ [Next]_vars => LateInv'
  <1> SUFFICES ASSUME TypeInv, IndexInv, LateInv, [Next]_vars PROVE LateInv'
    OBVIOUS
  <1>1. CASE UNCHANGED vars
    BY <1>1 DEF LateInv, UiEarly, Ordered, OrderOk, HeapOk, Queued, Hand, vars, threadVars, queVars, writeVars
  <1>. QED BY <1>1, LateQuiet, LateEncPush, LateUiPush, LateWrite DEF Next

\* With one peer top() and pop() are as good as one call, whatever the number of
\* frames, packets and failed writes: a pop() removes another packet than its
\* top() returned only after the UI thread has sent a packet while the encoder
\* thread was streaming.
THEOREM RaceTakesLatePacket == Spec => []RaceNeedsLate
  <1>1. Init => TypeInv /\ IndexInv /\ LateInv
    BY InitType, InitLost, InitLate
  <1>2. TypeInv /\ IndexInv /\ LateInv /\ [Next]_vars => (TypeInv /\ IndexInv /\ LateInv)'
    BY StepType, StepIndex, StepLate
  <1>3. LateInv => RaceNeedsLate
    BY DEF LateInv, HeapOk, RaceNeedsLate
  <1>. QED BY <1>1, <1>2, <1>3, PTL DEF Spec
=============================================================================
