----------------------------- MODULE SendQueue -----------------------------
(***************************************************************************)
(* The sending side: g_outputQue, into which the encoder thread and the UI *)
(* thread push packets, and the dispatcher thread, whose WriteCallback     *)
(* takes them out and writes them to the connection.  A packet gets its    *)
(* time stamp when it is made, which is before it is pushed.  top() and    *)
(* pop() are two steps: a packet that comes to the front in between is     *)
(* popped and lost, and the one top() returned stays in the queue after it *)
(* was written and deleted.                                                *)
(***************************************************************************)
EXTENDS Integers, Sequences, FiniteSets, SequencesExt

CONSTANTS
  NumFrames,   \* NAL units the encoder thread sends before Fin
  NumPack,     \* packets of each of them
  Timebase,    \* g_timebase, the pause between two of them
  NumUi,       \* bound: packets the UI thread sends
  MaxLate,     \* bound: how long after its pause the encoder thread wakes up
  MaxFail      \* bound on bufferevent_write failures

ASSUME SendQueueAssumption ==
  /\ NumFrames \in Nat /\ NumUi \in Nat /\ MaxFail \in Nat
  /\ Timebase \in Nat \ {0} /\ MaxLate \in Nat
  /\ NumPack \in [1 .. NumFrames -> Nat \ {0}]

VARIABLES
  clock,       \* get_timestamp_ms
  enc,         \* encoder thread: its packet loop and its place in SubmitWork
  ui,          \* UI thread: the packet it makes and its place in SubmitWork
  que,         \* the entries of g_outputQue
  front,       \* the one at the front of the heap
  pending,     \* will libevent call WriteCallback?
  pc,          \* where WriteCallback is
  ptrPacket,   \* WriteCallback: what top() returned
  wire,        \* packets handed to bufferevent_write, in order
  freed,       \* packets that were deleted
  fails,       \* bufferevent_write failures so far
  safe,        \* history: packets pushed other than between a top() and its pop()
  raced,       \* has a pop() removed another packet than top() returned?
  broken,      \* has a packet been deleted that was in the queue?
  fault        \* has the debug heap stopped the program?

threadVars == <<clock, enc, ui>>
queVars == <<que, front, safe>>
writeVars == <<pc, ptrPacket, wire, freed, fails, raced, broken, fault>>
vars == <<threadVars, queVars, pending, writeVars>>
-----------------------------------------------------------------------------
NoPacket == [from |-> "none"]

Packet(from, n, seq, timestamp) ==
  [from |-> from, n |-> n, seq |-> seq, timestamp |-> timestamp]

\* Mutant: the packets of a frame have no order.
Before_NoSeq(p, q) == p.timestamp < q.timestamp

\* Mutant: packets are ordered within their frame only.
Before_NoTime(p, q) == p.seq < q.seq

Before(p, q) ==
  \/ p.timestamp < q.timestamp
  \/ p.timestamp = q.timestamp /\ p.seq < q.seq

\* A pointer that is pushed again after a failed write is another entry.
Entry(p, copy) == [packet |-> p, copy |-> copy]

NoEntry == Entry(NoPacket, 0)

\* A push moves the entry up the heap past those it goes before, or anywhere
\* once cmp reads deleted packets.
Push(p, copy) ==
  /\ que' = que \cup {Entry(p, copy)}
  /\ front' \in IF que = {} THEN {Entry(p, copy)}
                ELSE IF broken THEN {Entry(p, copy), front}
                ELSE IF Before(p, front.packet) THEN {Entry(p, copy)}
                ELSE {front}
  /\ safe' = IF pc = "pop" THEN safe ELSE safe \cup {p}

\* A pop leaves at the front one of the entries that nothing goes before.
Pop ==
  /\ que' = que \ {front}
  /\ IF que' = {}
       THEN front' = NoEntry
       ELSE \E e \in que' :
              front' = e /\ (broken \/ \A d \in que' : ~Before(d.packet, e.packet))

\* The dispatcher thread has submitted NewSession and enabled EV_WRITE.
Init ==
  /\ clock = 1
  /\ enc = [frame |-> 0, pack |-> 0, timestamp |-> 0, at |-> "off"]
  /\ ui = [n |-> 0, packet |-> NoPacket, at |-> "idle", late |-> FALSE]
  /\ front = Entry(Packet("ui", 0, 0, 0), 0) /\ que = {front}
  /\ pending = TRUE
  /\ pc = "wait" /\ ptrPacket = NoPacket /\ wire = <<>> /\ freed = {} /\ fails = 0
  /\ safe = {front.packet} /\ raced = FALSE /\ broken = FALSE /\ fault = FALSE

Tick ==
  /\ clock < enc.timestamp + Timebase + MaxLate
  /\ clock' = clock + 1
  /\ UNCHANGED <<enc, ui, queVars, pending, writeVars>>
-----------------------------------------------------------------------------
(* The encoder thread.                                                     *)

\* The next start code is found, the first at once and the others when
\* msleep( g_timebase ) has ended.
NextFrame ==
  /\ enc.at = "sleep" /\ enc.frame <= NumFrames
  /\ enc.frame = 0 \/ clock >= enc.timestamp + Timebase
  /\ enc' = [frame |-> enc.frame + 1, pack |-> 0, timestamp |-> clock, at |-> "push"]
  /\ UNCHANGED <<clock, ui, queVars, pending, writeVars>>

IsLastPack == enc.frame > NumFrames \/ enc.pack = NumPack[enc.frame] - 1

\* SubmitWork: the packet is pushed and then EV_WRITE enabled.  Fin is the
\* packet of frame NumFrames + 1.
EncPush ==
  /\ enc.at = "push"
  /\ Push(Packet("enc", enc.frame, enc.pack, enc.timestamp), 0)
  /\ enc' = [enc EXCEPT !.at = "enable"]
  /\ UNCHANGED <<clock, ui, pending, writeVars>>

\* Mutant: bufferevent_enable is not called.
EncEnable_None ==
  /\ enc.at = "enable"
  /\ enc' = IF IsLastPack THEN [enc EXCEPT !.at = "sleep"]
            ELSE [enc EXCEPT !.at = "push", !.pack = @ + 1]
  /\ UNCHANGED <<clock, ui, queVars, pending, writeVars>>

EncEnable ==
  /\ enc.at = "enable"
  /\ pending' = TRUE
  /\ enc' = IF IsLastPack THEN [enc EXCEPT !.at = "sleep"]
            ELSE [enc EXCEPT !.at = "push", !.pack = @ + 1]
  /\ UNCHANGED <<clock, ui, queVars, writeVars>>

Encoder == NextFrame \/ EncPush \/ EncEnable
-----------------------------------------------------------------------------
(* The UI thread sends BuildConnect and Accept packets, and starts the     *)
(* encoder thread with the first connection.  Those it makes after that    *)
(* are late: they are for another peer.                                    *)

UiMake ==
  /\ ui.at = "idle" /\ ui.n < NumUi
  /\ ui' = [n |-> ui.n + 1, packet |-> Packet("ui", ui.n + 1, 0, clock), at |-> "push",
            late |-> enc.at # "off"]
  /\ UNCHANGED <<clock, enc, queVars, pending, writeVars>>

UiPush ==
  /\ ui.at = "push"
  /\ Push(ui.packet, 0)
  /\ ui' = [ui EXCEPT !.at = "enable"]
  /\ UNCHANGED <<clock, enc, pending, writeVars>>

UiEnable ==
  /\ ui.at = "enable"
  /\ pending' = TRUE
  /\ ui' = [ui EXCEPT !.at = "idle"]
  /\ UNCHANGED <<clock, enc, queVars, writeVars>>

StartEncoder ==
  /\ ui.at = "idle" /\ enc.at = "off"
  /\ enc' = [enc EXCEPT !.at = "sleep"]
  /\ UNCHANGED <<clock, ui, queVars, pending, writeVars>>
-----------------------------------------------------------------------------
(* The dispatcher thread.                                                  *)

\* libevent calls WriteCallback once EV_WRITE is enabled, and again when
\* what was written has left the output buffer.
CallWriteCallback ==
  /\ pc = "wait" /\ pending
  /\ pending' = FALSE
  /\ pc' = "loop"
  /\ UNCHANGED <<threadVars, queVars, ptrPacket, wire, freed, fails, raced, broken, fault>>

\* empty() and top().
GetTop ==
  /\ pc = "loop"
  /\ IF que = {} THEN pc' = "wait" /\ UNCHANGED ptrPacket
     ELSE pc' = "pop" /\ ptrPacket' = front.packet
  /\ UNCHANGED <<threadVars, queVars, pending, wire, freed, fails, raced, broken, fault>>

PopTop ==
  /\ pc = "pop"
  /\ Pop
  /\ raced' = (raced \/ front.packet # ptrPacket)
  /\ pc' = "write"
  /\ UNCHANGED <<threadVars, pending, safe, ptrPacket, wire, freed, fails, broken, fault>>

Queued == {e.packet : e \in que}

\* bufferevent_write and delete of p.
WriteAndDelete(p) ==
  /\ wire' = Append(wire, p)
  /\ freed' = freed \cup {p}
  /\ broken' = (broken \/ p \in Queued)
  /\ pending' = TRUE
  /\ pc' = "loop"

\* A packet that was deleted before is another one if the memory was used
\* again, or else the heap finds that it is deleted twice.
Write ==
  /\ pc = "write"
  /\ \/ ptrPacket \notin freed /\ WriteAndDelete(ptrPacket) /\ UNCHANGED fault
     \/ /\ ptrPacket \in freed
        /\ \E p \in Queued \ freed : WriteAndDelete(p)
        /\ UNCHANGED fault
     \/ /\ ptrPacket \in freed /\ fault' = TRUE
        /\ UNCHANGED <<wire, freed, broken, pending, pc>>
  /\ UNCHANGED <<threadVars, queVars, ptrPacket, fails, raced>>

\* Mutant: a packet that could not be written is dropped.
WriteFails_Dropped ==
  /\ pc = "write" /\ fails < MaxFail
  /\ fails' = fails + 1
  /\ pc' = "wait"
  /\ UNCHANGED <<threadVars, queVars, pending, ptrPacket, wire, freed, raced, broken, fault>>

\* A packet that could not be written goes back into the queue, where it
\* still is after a race.
WriteFails ==
  /\ pc = "write" /\ fails < MaxFail
  /\ fails' = fails + 1
  /\ Push(ptrPacket, fails + 1)
  /\ pc' = "wait"
  /\ UNCHANGED <<threadVars, pending, ptrPacket, wire, freed, raced, broken, fault>>

WriteCallback == CallWriteCallback \/ GetTop \/ PopTop \/ Write \/ WriteFails

Next ==
  /\ ~fault
  /\ \/ Tick
     \/ NextFrame \/ EncPush \/ EncEnable
     \/ UiMake \/ UiPush \/ UiEnable \/ StartEncoder
     \/ CallWriteCallback \/ GetTop \/ PopTop \/ Write \/ WriteFails

Spec == Init /\ [][Next]_vars

\* Time passes and the threads are scheduled; the UI thread need not make a
\* packet, but it finishes the SubmitWork it has begun, and it starts the
\* encoder thread.
FairSpec ==
  /\ Spec
  /\ WF_vars(~fault /\ Tick)
  /\ WF_vars(~fault /\ Encoder)
  /\ WF_vars(~fault /\ (UiPush \/ UiEnable \/ StartEncoder))
  /\ WF_vars(~fault /\ WriteCallback)
-----------------------------------------------------------------------------
(* Properties.                                                             *)

PacketSet ==
  [from : {"enc", "ui"}, n : Nat, seq : Nat, timestamp : Nat]

\* The type invariant of the queue and of the three threads of main.cpp that
\* use it.
TypeOK ==
  /\ clock \in Nat /\ fails \in 0 .. MaxFail
  /\ enc \in [frame : 0 .. NumFrames + 1, pack : Nat, timestamp : Nat,
              at : {"off", "sleep", "push", "enable"}]
  /\ ui \in [n : 0 .. NumUi, packet : PacketSet \cup {NoPacket},
             at : {"idle", "push", "enable"}, late : BOOLEAN]
  /\ que \subseteq [packet : PacketSet, copy : 0 .. MaxFail]
  /\ front \in IF que = {} THEN {NoEntry} ELSE que
  /\ pc \in {"wait", "loop", "pop", "write"}
  /\ ptrPacket \in PacketSet \cup {NoPacket}
  /\ wire \in Seq(PacketSet) /\ freed \subseteq PacketSet /\ safe \subseteq PacketSet
  /\ pending \in BOOLEAN /\ raced \in BOOLEAN /\ broken \in BOOLEAN /\ fault \in BOOLEAN

FrameStream(f) == [i \in 1 .. NumPack[f] |-> <<f, i - 1>>]

Stream ==
  FlattenSeq([f \in 1 .. NumFrames |-> FrameStream(f)]) \o << <<NumFrames + 1, 0>> >>

IsStream(p) == p.from = "enc"

WireStream ==
  LET s == SelectSeq(wire, IsStream) IN [k \in 1 .. Len(s) |-> <<s[k].n, s[k].seq>>]

Sender == INSTANCE PacketStream WITH sent <- WireStream

\* The priority queue and the three threads notwithstanding, WriteCallback
\* writes the packets of the video stream in the order the encoder thread
\* made them, each once, until a pop() removes another packet than its top()
\* returned.
StreamInOrder == Sender!Init /\ [][raced' \/ Sender!Next]_WireStream

\* A pop() removes another packet than its top() returned only if the UI
\* thread has sent a packet while the encoder thread was streaming: with one
\* peer the two calls of WriteCallback are as good as one.
RaceNeedsLate == raced => ui.late

\* No packet of the stream and none of the UI thread is lost, even if
\* bufferevent_write fails and with deleted packets in the queue: each is in
\* the queue, in WriteCallback's hand or on the wire, except those pushed
\* between a top() and its pop().
NoneLost ==
  safe \subseteq Queued \cup (IF pc = "write" THEN {ptrPacket} ELSE {}) \cup Range(wire)

\* The whole stream is eventually on the wire and nothing stays in g_outputQue:
\* every push is followed by an enable, and an enable that comes while
\* WriteCallback is returning is not lost.
StreamSent == <>[]((WireStream = Stream /\ que = {}) \/ raced \/ fails > 0)
=============================================================================
