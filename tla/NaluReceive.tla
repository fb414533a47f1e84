---------------------------- MODULE NaluReceive ----------------------------
(***************************************************************************)
(* One video stream on its way from the peer's encoder thread to the       *)
(* decoder thread of the window that shows it.  The encoder thread cuts    *)
(* every NAL unit ("frame") into packets; the packets travel in order over *)
(* the connection; the dispatcher thread reads one of them per call of     *)
(* ReadCallback, or loses step when less than a packet has come, and       *)
(* submits a work item; the callbacks of the thread pool run concurrently  *)
(* and push their packet into the priority queue of the window; the        *)
(* decoder thread takes them out and puts the NAL unit together again.     *)
(***************************************************************************)
EXTENDS Integers, Sequences, FiniteSets

CONSTANTS
  NumFrames,   \* number of NAL units the peer sends before Fin
  FrameSize,   \* their sizes in bytes, a function on 1 .. NumFrames
  MaxBody,     \* MAX_BODY_SIZE
  NumThreads   \* callbacks the pool runs at the same time

ASSUME NaluReceiveAssumption ==
  /\ NumFrames \in Nat
  /\ MaxBody \in Nat \ {0}
  /\ NumThreads \in Nat \ {0}
  /\ FrameSize \in [1 .. NumFrames -> Nat \ {0}]

VARIABLES
  encFrame,    \* encoder thread: the NAL unit being sent
  encPack,     \* encoder thread: the next packet of it (i of the loop)
  net,         \* packets in flight, in order, the input buffer included
  taken,       \* halves of the first one that ReadCallback has read already
  buffered,    \* halves of packets in the input buffer of the bufferevent
  work,        \* work items submitted and not started, in order
  running,     \* packets whose callback has started and not pushed
  priQue,      \* the window's fPriQue
  lost,        \* the window's fLostConnection
  pc,          \* where the decoder thread is
  ptrPacket,   \* decoder thread: what top() returned
  frame,       \* decoder thread: the frame under construction
  accepted,    \* NAL units handed to the decoder so far
  raced        \* has a pop() removed another packet than top() returned?

encVars == <<encFrame, encPack>>
netVars == <<net, taken, buffered>>
poolVars == <<work, running>>
decVars == <<pc, ptrPacket, frame, accepted, raced>>
vars == <<encFrame, encPack, netVars, work, running, priQue, lost, decVars>>
-----------------------------------------------------------------------------
(* Packets.                                                                *)

NUM_PACK(size) == (size + MaxBody - 1) \div MaxBody

Frames == 1 .. NumFrames

\* Frames are sent msleep( g_timebase ) apart, so the time stamp of a frame
\* is modelled by its number and that of Fin by NumFrames + 1.
PushPacket(f, i) ==
  [type |-> "Push", timestamp |-> f, seq |-> i * MaxBody,
   size |-> FrameSize[f], MP |-> i # NUM_PACK(FrameSize[f]) - 1]

FinPacket ==
  [type |-> "Fin", timestamp |-> NumFrames + 1, seq |-> 0, size |-> 0,
   MP |-> FALSE]

\* Mutant: the MP flag is ignored.
BODY_SIZE_NoMP(p) == p.size - p.seq

BODY_SIZE(p) == IF p.MP THEN MaxBody ELSE p.size - p.seq

\* PriorityQueue's order: the earlier time stamp first, then the lower seq.
Before(p, q) ==
  \/ p.timestamp < q.timestamp
  \/ p.timestamp = q.timestamp /\ p.seq < q.seq

FramePackets(f) == {PushPacket(f, i) : i \in 0 .. NUM_PACK(FrameSize[f]) - 1}

Packets == (UNION {FramePackets(f) : f \in Frames}) \cup {FinPacket}

Top(que) == CHOOSE p \in que : \A q \in que \ {p} : Before(p, q)

\* The zeroed Frame with which get_next_nalu starts; data is the set of
\* <<offset, frame the bytes at it come from>> copied so far.
NoFrame == [timestamp |-> 0, size |-> 0, data |-> {}, totalSize |-> 0]

Init ==
  /\ encFrame = 1 /\ encPack = 0
  /\ net = <<>> /\ taken = 0 /\ buffered = 0 /\ work = <<>> /\ running = {} /\ priQue = {}
  /\ lost = FALSE
  /\ pc = "poll" /\ ptrPacket = FinPacket /\ frame = NoFrame
  /\ accepted = <<>> /\ raced = FALSE
-----------------------------------------------------------------------------
(* The peer's encoder thread.                                              *)

\* One turn of the packet loop; after the last packet the next frame begins.
SendPacket ==
  /\ encFrame \in Frames
  /\ net' = Append(net, PushPacket(encFrame, encPack))
  /\ IF encPack = NUM_PACK(FrameSize[encFrame]) - 1
       THEN encFrame' = encFrame + 1 /\ encPack' = 0
       ELSE encPack' = encPack + 1 /\ UNCHANGED encFrame
  /\ UNCHANGED <<taken, buffered, poolVars, priQue, lost, decVars>>

SendFin ==
  /\ encFrame = NumFrames + 1
  /\ net' = Append(net, FinPacket)
  /\ encFrame' = encFrame + 1
  /\ UNCHANGED <<encPack, taken, buffered, poolVars, priQue, lost, decVars>>

(* The dispatcher thread and the pool.                                     *)

\* libevent puts n more halves of packets into the input buffer and calls
\* ReadCallback once.  It reads a packet's length: what is left over waits for
\* the next call, and a shorter read is thrown away, so that the packets read
\* from then on begin in the middle.  The header of such a packet is whatever
\* the bodies hold at that place, and nothing in the code checks it.  The model
\* takes the streams whose bodies hold no number of RtmpType there, so that
\* MyWorkCallback leaves by its default case; this is an assumption about the
\* peer's data that the code does not enforce.
ReadCallback ==
  \E n \in 1 .. 2 * Len(net) - taken - buffered :
    \/ /\ buffered + n = 1
       /\ taken' = 1 - taken /\ buffered' = 0
       /\ net' = IF taken = 1 THEN Tail(net) ELSE net
       /\ UNCHANGED <<encVars, poolVars, priQue, lost, decVars>>
    \/ /\ buffered + n >= 2
       /\ buffered' = buffered + n - 2
       /\ net' = Tail(net)
       /\ work' = IF taken = 0 THEN Append(work, Head(net)) ELSE work
       /\ UNCHANGED <<encVars, taken, running, priQue, lost, decVars>>

StartCallback ==
  /\ work # <<>>
  /\ Cardinality(running) < NumThreads
  /\ running' = running \cup {Head(work)}
  /\ work' = Tail(work)
  /\ UNCHANGED <<encVars, netVars, priQue, lost, decVars>>

\* The Push and Fin case of MyWorkCallback: push() under the queue's mutex.
MyWorkCallback(p) ==
  /\ p \in running
  /\ priQue' = priQue \cup {p}
  /\ running' = running \ {p}
  /\ UNCHANGED <<encVars, netVars, work, lost, decVars>>

\* ~RtmpWindow, run by the callback of LostSession or by the UI thread.
SetLost ==
  /\ ~lost
  /\ lost' = TRUE
  /\ UNCHANGED <<encVars, netVars, poolVars, priQue, decVars>>

(* The decoder thread: get_next_nalu and what its callers do with it.      *)

\* The loop condition, empty() and top().
GetTop ==
  /\ pc = "poll" /\ ~lost /\ priQue # {}
  /\ ptrPacket' = Top(priQue)
  /\ pc' = "pop"
  /\ UNCHANGED <<encVars, netVars, poolVars, priQue, lost, frame, accepted, raced>>

LoopExit ==
  /\ pc = "poll" /\ lost
  /\ pc' = "returned"
  /\ UNCHANGED <<encVars, netVars, poolVars, priQue, lost, ptrPacket, frame, accepted, raced>>

\* pop() removes whatever is first now, not what top() returned.
PopTop ==
  /\ priQue' = priQue \ {Top(priQue)}
  /\ raced' = (raced \/ Top(priQue) # ptrPacket)

\* Mutant: Fin ends the call but does not mark the window as lost.
PopFin_NotLost ==
  /\ pc = "pop" /\ ptrPacket.type = "Fin"
  /\ PopTop
  /\ pc' = "returned"
  /\ UNCHANGED <<encVars, netVars, poolVars, lost, ptrPacket, frame, accepted>>

PopFin ==
  /\ pc = "pop" /\ ptrPacket.type = "Fin"
  /\ PopTop
  /\ lost' = TRUE
  /\ pc' = "returned"
  /\ UNCHANGED <<encVars, netVars, poolVars, ptrPacket, frame, accepted>>

\* Mutant: the packet's time stamp is not compared with the frame's.
Combine_AnyFrame(fr, p) ==
  LET start == IF p.seq = 0
                 THEN [timestamp |-> p.timestamp, size |-> p.size,
                       data |-> {}, totalSize |-> 0]
                 ELSE fr
  IN [start EXCEPT !.data = @ \cup {<<p.seq, p.timestamp>>},
                   !.totalSize = @ + BODY_SIZE(p)]

\* A packet with seq 0 starts a frame over; a packet of another frame than
\* the current one is dropped.
Combine(fr, p) ==
  LET start == IF p.seq = 0
                 THEN [timestamp |-> p.timestamp, size |-> p.size,
                       data |-> {}, totalSize |-> 0]
                 ELSE fr
  IN IF start.timestamp = p.timestamp
       THEN [start EXCEPT !.data = @ \cup {<<p.seq, p.timestamp>>},
                          !.totalSize = @ + BODY_SIZE(p)]
       ELSE start

PopPush ==
  /\ pc = "pop" /\ ptrPacket.type = "Push"
  /\ PopTop
  /\ frame' = Combine(frame, ptrPacket)
  /\ pc' = IF frame'.totalSize = frame'.size THEN "returned" ELSE "poll"
  /\ UNCHANGED <<encVars, netVars, poolVars, lost, ptrPacket, accepted>>

\* The callers drop the NAL unit and stop if the connection is lost by now.
Accept ==
  /\ pc = "returned" /\ ~lost
  /\ accepted' = Append(accepted, frame)
  /\ frame' = NoFrame
  /\ pc' = "poll"
  /\ UNCHANGED <<encVars, netVars, poolVars, priQue, lost, ptrPacket, raced>>

Discard ==
  /\ pc = "returned" /\ lost
  /\ pc' = "done"
  /\ UNCHANGED <<encVars, netVars, poolVars, priQue, lost, ptrPacket, frame, accepted, raced>>

Decoder == GetTop \/ LoopExit \/ PopFin \/ PopPush \/ Accept \/ Discard

Next ==
  \/ SendPacket \/ SendFin
  \/ ReadCallback \/ StartCallback
  \/ \E p \in running : MyWorkCallback(p)
  \/ SetLost
  \/ GetTop \/ LoopExit \/ PopFin \/ PopPush \/ Accept \/ Discard

Spec == Init /\ [][Next]_vars

\* The pool's threads and the decoder thread are scheduled by the system.
\* Nothing is assumed of the peer and the network: a packet that is left over
\* in the input buffer stays there when no other follows.
FairSpec ==
  /\ Spec
  /\ WF_vars(StartCallback)
  /\ WF_vars(\E p \in running : MyWorkCallback(p))
  /\ WF_vars(Decoder)
-----------------------------------------------------------------------------
(* Properties.                                                             *)

Chunks(f) == {<<i * MaxBody, f>> : i \in 0 .. NUM_PACK(FrameSize[f]) - 1}

FrameRecords ==
  [timestamp : 0 .. NumFrames, size : Nat, data : SUBSET (Nat \X Frames),
   totalSize : Nat]

\* The type invariant of the stream's state (the threads of main.cpp,
\* RtmpWindow and get_next_nalu).
TypeOK ==
  /\ encFrame \in 1 .. NumFrames + 2 /\ encPack \in Nat
  /\ encFrame \in Frames => encPack < NUM_PACK(FrameSize[encFrame])
  /\ net \in Seq(Packets) /\ work \in Seq(Packets)
  /\ taken \in 0 .. 1 /\ buffered \in Nat
  /\ taken + buffered <= 2 * Len(net)
  /\ running \subseteq Packets /\ priQue \subseteq Packets
  /\ lost \in BOOLEAN /\ raced \in BOOLEAN
  /\ pc \in {"poll", "pop", "returned", "done"}
  /\ pc = "pop" => priQue # {}
  /\ ptrPacket \in Packets
  /\ frame \in FrameRecords
  /\ accepted \in Seq(FrameRecords)

IsEmpty(n) == n.size = 0

IsComplete(n) == n.timestamp \in Frames /\ n.data = Chunks(n.timestamp)

\* Whatever the order in which the pool's callbacks push the packets, a NAL
\* unit that get_next_nalu returns and its caller keeps never mixes two
\* frames: its size and every byte copied into it belong to one frame.
OneFramePerNalu ==
  \A k \in 1 .. Len(accepted) :
    LET n == accepted[k] IN
    ~IsEmpty(n) => /\ n.timestamp \in Frames
                   /\ n.size = FrameSize[n.timestamp]
                   /\ n.data \subseteq Chunks(n.timestamp)

\* As long as no push() came between a top() and its pop(), counting bytes
\* in totalSize is enough: a NAL unit that the caller keeps, and that is not
\* empty, has all its bytes, even when the packets were reordered or the
\* connection was lost half way through the frame.
CompleteUnlessRaced ==
  ~raced => \A k \in 1 .. Len(accepted) :
              IsEmpty(accepted[k]) \/ IsComplete(accepted[k])

\* The decoder thread has been told to stop: ~RtmpWindow has set the flag, or
\* Fin was read and is with the pool or in the queue.
ToldToStop ==
  \/ lost
  \/ FinPacket \in running \cup priQue
  \/ \E i \in 1 .. Len(work) : work[i] = FinPacket

\* Nothing that happens to the other packets, missing ones and those a push
\* between top() and pop() confuses included, can swallow Fin or the flag:
\* the decoder thread leaves get_next_nalu for good, which ~RtmpWindow waits
\* for without a limit.
DecoderStops == ToldToStop ~> pc = "done"
=============================================================================
