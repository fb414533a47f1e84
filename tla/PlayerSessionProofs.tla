------------------------ MODULE PlayerSessionProofs ------------------------
(* Proofs about PlayerSession, for every set of peers and every number of  *)
(* pool threads.                                                           *)
EXTENDS PlayerSession, FiniteSetTheorems, TLAPS

USE PlayerSessionAssumption
-----------------------------------------------------------------------------
(* Sequences as the sets of their elements.                                *)

\* What a queue holds after something was appended.
LEMMA RangeAppend ==
  ASSUME NEW S, NEW s \in Seq(S), NEW x \in S
  PROVE  Append(s, x) \in Seq(S) /\ Range(Append(s, x)) = Range(s) \cup {x}
  <1>1. /\ DOMAIN Append(s, x) = 1 .. Len(s) + 1 /\ DOMAIN s = 1 .. Len(s)
        /\ \A i \in 1 .. Len(s) : Append(s, x)[i] = s[i]
        /\ Append(s, x)[Len(s) + 1] = x /\ Len(s) \in Nat
    OBVIOUS
  <1>2. 1 .. Len(s) + 1 = (1 .. Len(s)) \cup {Len(s) + 1}
    BY <1>1
  <1>. QED BY <1>1, <1>2 DEF Range

\* What a queue holds after its head was taken.
LEMMA RangeTail ==
  ASSUME NEW S, NEW s \in Seq(S), s # <<>>
  PROVE  /\ Tail(s) \in Seq(S) /\ Head(s) \in S /\ Head(s) \in Range(s)
         /\ Range(Tail(s)) \subseteq Range(s)
  <1>1. /\ Tail(s) \in Seq(S) /\ Head(s) = s[1] /\ 1 \in DOMAIN s
        /\ \A i \in DOMAIN Tail(s) : Tail(s)[i] = s[i + 1] /\ i + 1 \in DOMAIN s
    OBVIOUS
  <1>. QED BY <1>1 DEF Range

\* What a stack holds after its top was taken.
LEMMA RangeFront ==
  ASSUME NEW S, NEW s \in Seq(S), s # <<>>
  PROVE  /\ Front(s) \in Seq(S) /\ Last(s) \in S /\ Last(s) \in Range(s)
         /\ Range(Front(s)) \subseteq Range(s)
  <1>1. /\ Front(s) \in Seq(S) /\ Last(s) = s[Len(s)] /\ Len(s) \in DOMAIN s
        /\ \A i \in DOMAIN Front(s) : Front(s)[i] = s[i] /\ i \in DOMAIN s
    BY DEF Front, Last
  <1>. QED BY <1>1 DEF Range

\* An empty queue holds nothing.
LEMMA RangeEmpty == Range(<<>>) = {}
  BY DEF Range
-----------------------------------------------------------------------------
(* Types.                                                                  *)

MessageSet ==
  [type : {"NEW_ONLINEUSER", "DEL_ONLINEUSER", "BuildConnect", "Accept"},
   app : Peers, ptr : Peers \cup {"absent", "null"}]

HandlerSet ==
  [type : {"Request", "Confirm", "create", "check", "insert", "size"}, app : Peers]

\* The types of the variables, one by one.
LEMMA TypeFacts ==
  ASSUME TypeOK
  PROVE  /\ net \in Seq(Packets) /\ work \in Seq(Packets)
         /\ msgs \in Seq(MessageSet) /\ dialogs \in Seq(HandlerSet)
         /\ sessMap \in [Peers -> Peers \cup {"absent", "null"}]
         /\ winMap \in [Keys -> Peers \cup {"absent", "null"}]
         /\ \A c \in running : c \in Callbacks
         /\ peer \in [Peers -> PeerRecords]
  BY DEF TypeOK, MessageSet, HandlerSet

\* The types of the fields of a callback.
LEMMA CallbackFields ==
  ASSUME NEW c \in Callbacks
  PROVE  /\ c.packet \in Packets /\ App(c) \in Peers
         /\ c.packet.type \in PacketTypes /\ c.found \in BOOLEAN
         /\ c.at \in Places /\ c.ptr \in Peers \cup {"absent", "null"}
         /\ c.packet.apps \in Seq(Peers)
  <1>1. /\ c.packet \in Packets /\ c.found \in BOOLEAN /\ c.at \in Places
        /\ c.ptr \in Peers \cup {"absent", "null"}
    BY DEF Callbacks
  <1>2. c.packet.apps \in Seq(Peers) \ {<<>>} /\ c.packet.type \in PacketTypes
    BY <1>1 DEF Packets
  <1>3. App(c) \in Peers
    BY <1>2 DEF App
  <1>. QED BY <1>1, <1>2, <1>3

\* The records a callback is replaced by.
LEMMA CallbackMoves ==
  ASSUME NEW c \in Callbacks
  PROVE  /\ \A at \in Places :
              /\ [c EXCEPT !.at = at] \in Callbacks
              /\ [c EXCEPT !.at = at, !.found = TRUE] \in Callbacks
              /\ \A v \in Peers \cup {"absent", "null"} :
                   [c EXCEPT !.at = at, !.ptr = v] \in Callbacks
         /\ Len(c.packet.apps) # 1 =>
              [c EXCEPT !.at = "start", !.packet.apps = Tail(@)] \in Callbacks
  <1>1. \A at \in Places :
              /\ [c EXCEPT !.at = at] \in Callbacks
              /\ [c EXCEPT !.at = at, !.found = TRUE] \in Callbacks
              /\ \A v \in Peers \cup {"absent", "null"} :
                   [c EXCEPT !.at = at, !.ptr = v] \in Callbacks
    BY DEF Callbacks
  <1>2. ASSUME Len(c.packet.apps) # 1
        PROVE  [c EXCEPT !.at = "start", !.packet.apps = Tail(@)] \in Callbacks
    <2>1. c.packet.apps \in Seq(Peers) /\ c.packet.apps # <<>> /\ c.packet \in Packets
      BY DEF Callbacks, Packets
    <2>2. Tail(c.packet.apps) \in Seq(Peers) /\ Tail(c.packet.apps) # <<>>
      <3>1. Tail(c.packet.apps) \in Seq(Peers)
              /\ Len(Tail(c.packet.apps)) = Len(c.packet.apps) - 1
              /\ Len(c.packet.apps) \in Nat /\ Len(c.packet.apps) # 0
        BY <2>1
      <3>2. Len(Tail(c.packet.apps)) # 0
        BY <1>2, <3>1
      <3>3. \A t : t = <<>> => Len(t) = 0
        OBVIOUS
      <3>. QED BY <3>1, <3>2, <3>3
    <2>3. [c.packet EXCEPT !.apps = Tail(@)] \in Packets
      BY <2>1, <2>2 DEF Packets
    <2>. QED BY <2>3 DEF Callbacks, Places
  <1>. QED BY <1>1, <1>2

\* A packet about one peer is a packet.
LEMMA PacketType ==
  ASSUME NEW p \in Peers, NEW t \in PacketTypes, NEW n \in 0 .. MaxPush
  PROVE  Packet(t, <<p>>, n) \in Packets
  <1>1. <<p>> \in Seq(Peers) \ {<<>>}
    OBVIOUS
  <1>. QED BY <1>1 DEF Packet, Packets

\* What the server and the peers do keeps the types.
LEMMA ServerType ==
  ASSUME TypeOK, Server
  PROVE  TypeOK'
  <1>1. PICK p \in Peers : PeerOnline(p) \/ PeerBuildConnect(p) \/ PeerAccept(p)
                             \/ PeerStream(p) \/ PeerLost(p)
    BY DEF Server
  <1>2. peer' \in [Peers -> PeerRecords]
    <2>1. peer[p] \in PeerRecords
      BY DEF TypeOK
    <2>2. CASE PeerStream(p)
      <3>1. peer[p].sent + 1 \in 0 .. MaxPush + 1
        BY <2>1, <2>2 DEF PeerStream, PeerRecords
      <3>. QED BY <2>1, <2>2, <3>1 DEF PeerStream, TypeOK, PeerRecords
    <2>3. CASE PeerOnline(p)
      BY <2>1, <2>3 DEF PeerOnline, TypeOK, PeerRecords
    <2>4. CASE PeerBuildConnect(p)
      BY <2>1, <2>4 DEF PeerBuildConnect, TypeOK, PeerRecords
    <2>5. CASE PeerAccept(p)
      BY <2>1, <2>5 DEF PeerAccept, TypeOK, PeerRecords
    <2>6. CASE PeerLost(p)
      BY <2>1, <2>6 DEF PeerLost, TypeOK, PeerRecords
    <2>. QED BY <1>1, <2>2, <2>3, <2>4, <2>5, <2>6
  <1>3. \E t \in PacketTypes : \E n \in 0 .. MaxPush : Send(t, p, n)
    <2>1. 0 \in 0 .. MaxPush
      OBVIOUS
    <2>2. CASE PeerStream(p)
      <3>1. peer[p].sent \in 0 .. MaxPush
        BY <2>2 DEF PeerStream, TypeOK, PeerRecords
      <3>. QED BY <2>2, <3>1 DEF PeerStream, PacketTypes
    <2>3. CASE PeerOnline(p) \/ PeerBuildConnect(p) \/ PeerAccept(p) \/ PeerLost(p)
      BY <2>1, <2>3 DEF PeerOnline, PeerBuildConnect, PeerAccept, PeerLost, PacketTypes
    <2>. QED BY <1>1, <2>2, <2>3
  <1>4. net' \in Seq(Packets)
    BY <1>3, PacketType, RangeAppend DEF Send, TypeOK
  <1>. QED BY <1>2, <1>4 DEF Server, TypeOK, poolVars, mapVars, uiVars

\* A callback's step leaves the others alone, and itself moves on or returns.
LEMMA CallbackReplaced ==
  ASSUME TypeOK, NEW c \in running, MyWorkCallback(c)
  PROVE  \/ UNCHANGED running
         \/ running' = running \ {c}
         \/ \E d \in Callbacks : running' = (running \ {c}) \cup {d}
  <1>1. c \in Callbacks /\ App(c) \in Peers /\ App(c) \in Keys
    BY CallbackFields DEF TypeOK, Keys
  <1>2. \A at \in Places :
              /\ [c EXCEPT !.at = at] \in Callbacks
              /\ [c EXCEPT !.at = at, !.found = TRUE] \in Callbacks
              /\ \A v \in Peers \cup {"absent", "null"} :
                   [c EXCEPT !.at = at, !.ptr = v] \in Callbacks
    BY <1>1, CallbackMoves
  <1>3. /\ AtKey(sessMap, App(c)) \in Peers \cup {"absent", "null"}
        /\ AtKey(winMap, App(c)) \in Peers \cup {"absent", "null"}
    BY <1>1, TypeFacts DEF AtKey
  <1>4. ASSUME NEW type, NEW known, NEW place \in Places, NEW what,
               Check(c, type, known, place, what)
        PROVE  UNCHANGED running \/ \E d \in Callbacks : running' = (running \ {c}) \cup {d}
    BY <1>2, <1>4 DEF Check, Fault, Goto, Replace
  <1>5. CASE CheckNewSession(c) \/ CheckWindow(c) \/ CheckSession(c)
    <2>1. "insert" \in Places /\ "window" \in Places /\ "session" \in Places
      BY DEF Places
    <2>. QED BY <1>4, <1>5, <2>1 DEF CheckNewSession, CheckWindow, CheckSession
  <1>6. CASE NotifyNewUser(c)
    BY <1>1, <1>6, CallbackMoves DEF NotifyNewUser, Return, Replace
  <1>7. CASE InsertSession(c) \/ EraseSession(c) \/ EraseWindow(c)
    <2>1. "post" \in Places /\ "delete session" \in Places /\ "delete window" \in Places
      BY DEF Places
    <2>. QED BY <1>2, <1>7, <2>1 DEF InsertSession, EraseSession, EraseWindow, Goto, Replace
  <1>8. CASE FindLostSession(c) \/ FindLostWindow(c)
    <2>1. {"find window", "session", "post", "window"} \subseteq Places
      BY DEF Places
    <2>2. \E at \in Places : Goto(c, at)
      BY <1>8, <2>1 DEF FindLostSession, FindLostWindow
    <2>. QED BY <1>2, <2>2 DEF Goto, Replace
  <1>9. CASE ReadLostSession(c) \/ ReadLostWindow(c)
    <2>1. "erase session" \in Places /\ "erase window" \in Places
      BY DEF Places
    <2>. QED BY <1>2, <1>9, <2>1 DEF ReadLostSession, ReadLostWindow, Goto, Replace, Fault
  <1>10. CASE DeleteSession(c) \/ DeleteWindow(c)
    <2>1. "find window" \in Places /\ "post" \in Places
      BY DEF Places
    <2>. QED BY <1>2, <1>10, <2>1 DEF DeleteSession, DeleteWindow, Replace, Fault
  <1>11. CASE FindWindow(c) \/ FindSession(c)
    <2>1. "push" \in Places /\ "post" \in Places
      BY DEF Places
    <2>. QED BY <1>2, <1>3, <1>11, <2>1 DEF FindWindow, FindSession, Replace
  <1>12. CASE NotifyLostUser(c) \/ PushToWindow(c) \/ NotifyConnection(c)
    BY <1>12 DEF NotifyLostUser, PushToWindow, NotifyConnection, Return, Fault
  <1>. QED BY <1>5, <1>6, <1>7, <1>8, <1>9, <1>10, <1>11, <1>12 DEF MyWorkCallback

\* What a callback's step can do to the maps and to the message queue.
LEMMA CallbackEffects ==
  ASSUME TypeOK, NEW c \in running, MyWorkCallback(c)
  PROVE  /\ UNCHANGED <<peer, net, work, dialogs, menu, encoder, ui>>
         /\ \/ UNCHANGED <<sessMap, sessAlive>>
            \/ InsertSession(c) \/ EraseSession(c) \/ DeleteSession(c) \/ FindSession(c)
         /\ \/ UNCHANGED <<winMap, winAlive>>
            \/ EraseWindow(c) \/ DeleteWindow(c) \/ FindWindow(c)
         /\ \/ UNCHANGED msgs
            \/ NotifyNewUser(c) \/ NotifyLostUser(c) \/ NotifyConnection(c)
  <1>1. UNCHANGED <<peer, net, work>>
    BY DEF MyWorkCallback, peerVars
  <1>2. ASSUME NEW what, Fault(what)
        PROVE  UNCHANGED <<sessMap, sessAlive, winMap, winAlive, msgs, dialogs, menu, encoder, ui>>
    BY <1>2 DEF Fault, mapVars, uiVars
  <1>3. CASE CheckNewSession(c) \/ CheckWindow(c) \/ CheckSession(c)
    BY <1>1, <1>2, <1>3 DEF CheckNewSession, CheckWindow, CheckSession, Check, mapVars, uiVars
  <1>4. CASE InsertSession(c) \/ EraseSession(c) \/ FindSession(c)
    BY <1>1, <1>4 DEF InsertSession, EraseSession, FindSession, uiVars
  <1>5. CASE EraseWindow(c) \/ FindWindow(c)
    BY <1>1, <1>5 DEF EraseWindow, FindWindow, uiVars
  <1>6. CASE DeleteSession(c)
    BY <1>1, <1>2, <1>6 DEF DeleteSession, uiVars
  <1>7. CASE DeleteWindow(c)
    BY <1>1, <1>2, <1>7 DEF DeleteWindow, uiVars
  <1>8. CASE FindLostSession(c) \/ FindLostWindow(c) \/ ReadLostSession(c) \/ ReadLostWindow(c)
    BY <1>1, <1>2, <1>8 DEF FindLostSession, FindLostWindow, ReadLostSession, ReadLostWindow,
                            mapVars, uiVars
  <1>9. CASE PushToWindow(c)
    BY <1>1, <1>2, <1>9 DEF PushToWindow, mapVars, uiVars
  <1>10. CASE NotifyNewUser(c) \/ NotifyLostUser(c) \/ NotifyConnection(c)
    BY <1>1, <1>2, <1>10 DEF NotifyNewUser, NotifyLostUser, NotifyConnection, mapVars
  <1>. QED BY <1>3, <1>4, <1>5, <1>6, <1>7, <1>8, <1>9, <1>10 DEF MyWorkCallback

\* What a callback posts.
LEMMA PostType ==
  ASSUME TypeOK, NEW p \in Peers, NEW v \in Peers \cup {"absent", "null"},
         NEW t \in {"NEW_ONLINEUSER", "DEL_ONLINEUSER", "BuildConnect", "Accept"},
         PostMessage(t, p, v)
  PROVE  /\ msgs' \in Seq(MessageSet)
         /\ Range(msgs') = Range(msgs) \cup {[type |-> t, app |-> p, ptr |-> v]}
  <1>1. [type |-> t, app |-> p, ptr |-> v] \in MessageSet
    BY DEF MessageSet
  <1>. QED BY <1>1, TypeFacts, RangeAppend DEF PostMessage

\* The steps of a callback keep the types.
LEMMA CallbackType ==
  ASSUME TypeOK, NEW c \in running, MyWorkCallback(c)
  PROVE  TypeOK'
  <1>1. /\ App(c) \in Peers /\ App(c) \in Keys /\ c.packet.type \in PacketTypes
        /\ c.ptr \in Peers \cup {"absent", "null"}
    BY TypeFacts, CallbackFields DEF Keys
  <1>2. /\ AtKey(sessMap, App(c)) \in Peers \cup {"absent", "null"}
        /\ AtKey(winMap, App(c)) \in Peers \cup {"absent", "null"}
    BY <1>1, TypeFacts DEF AtKey
  <1>3. \A d \in running' : d \in Callbacks
    BY CallbackReplaced, TypeFacts
  <1>4. /\ sessMap' \in [Peers -> Peers \cup {"absent", "null"}]
        /\ sessAlive' \subseteq Peers
    <2>1. CASE UNCHANGED <<sessMap, sessAlive>>
      BY <2>1 DEF TypeOK
    <2>2. CASE InsertSession(c)
      BY <1>1, <2>2 DEF InsertSession, TypeOK
    <2>3. CASE EraseSession(c)
      BY <1>1, <2>3 DEF EraseSession, TypeOK
    <2>4. CASE DeleteSession(c)
      BY <2>4 DEF DeleteSession, Fault, mapVars, TypeOK
    <2>5. CASE FindSession(c)
      BY <1>1, <1>2, <2>5 DEF FindSession, TypeOK
    <2>. QED BY <2>1, <2>2, <2>3, <2>4, <2>5, CallbackEffects
  <1>5. /\ winMap' \in [Keys -> Peers \cup {"absent", "null"}]
        /\ winAlive' \subseteq Peers
    <2>1. CASE UNCHANGED <<winMap, winAlive>>
      BY <2>1 DEF TypeOK
    <2>2. CASE EraseWindow(c)
      BY <1>1, <2>2 DEF EraseWindow, TypeOK
    <2>3. CASE DeleteWindow(c)
      BY <2>3 DEF DeleteWindow, Fault, mapVars, TypeOK
    <2>4. CASE FindWindow(c)
      BY <1>1, <1>2, <2>4 DEF FindWindow, TypeOK
    <2>. QED BY <2>1, <2>2, <2>3, <2>4, CallbackEffects
  <1>6. msgs' \in Seq(MessageSet)
    <2>1. CASE UNCHANGED msgs
      BY <2>1, TypeFacts
    <2>2. CASE NotifyNewUser(c)
      BY <1>1, <2>2, PostType DEF NotifyNewUser
    <2>3. CASE NotifyLostUser(c)
      BY <1>1, <2>1, <2>3, PostType DEF NotifyLostUser, Fault, uiVars
    <2>4. CASE NotifyConnection(c)
      BY <1>1, <2>4, PostType DEF NotifyConnection
    <2>. QED BY <2>1, <2>2, <2>3, <2>4, CallbackEffects
  <1>. QED BY <1>3, <1>4, <1>5, <1>6, CallbackEffects DEF TypeOK, MessageSet

\* The message and the handler that the UI thread goes on with.
LEMMA UiFacts ==
  ASSUME TypeOK
  PROVE  /\ msgs # <<>> => /\ Who \in Peers /\ Head(msgs) \in MessageSet
                           /\ Head(msgs) \in Range(msgs) /\ Tail(msgs) \in Seq(MessageSet)
                           /\ Range(Tail(msgs)) \subseteq Range(msgs)
         /\ Innermost # "none" =>
              /\ Top \in HandlerSet /\ Top \in Range(dialogs) /\ Innermost = Top.type
              /\ Front(dialogs) \in Seq(HandlerSet)
              /\ Range(Front(dialogs)) \subseteq Range(dialogs)
  <1>1. msgs \in Seq(MessageSet) /\ dialogs \in Seq(HandlerSet)
    BY TypeFacts
  <1>2. ASSUME msgs # <<>>
        PROVE  /\ Who \in Peers /\ Head(msgs) \in MessageSet
               /\ Head(msgs) \in Range(msgs) /\ Tail(msgs) \in Seq(MessageSet)
               /\ Range(Tail(msgs)) \subseteq Range(msgs)
    <2>1. /\ Head(msgs) \in MessageSet
          /\ Head(msgs) \in Range(msgs) /\ Tail(msgs) \in Seq(MessageSet)
          /\ Range(Tail(msgs)) \subseteq Range(msgs)
      BY <1>1, <1>2, RangeTail
    <2>. QED BY <2>1 DEF Who, MessageSet
  <1>3. ASSUME Innermost # "none"
        PROVE  /\ Top \in HandlerSet /\ Top \in Range(dialogs) /\ Innermost = Top.type
               /\ Front(dialogs) \in Seq(HandlerSet)
               /\ Range(Front(dialogs)) \subseteq Range(dialogs)
    <2>1. dialogs # <<>> /\ Innermost = Top.type
      BY <1>3 DEF Innermost, Top
    <2>. QED BY <1>1, <2>1, RangeFront DEF Top
  <1>. QED BY <1>2, <1>3

\* The handler that goes on replaces itself on the stack of dialogs.
LEMMA ResumeFacts ==
  ASSUME TypeOK, NEW place, place # "none",
         NEW next \in {"create", "check", "insert", "size"}, Resume(place, next)
  PROVE  /\ dialogs' \in Seq(HandlerSet)
         /\ Range(dialogs') \subseteq Range(dialogs) \cup {[Top EXCEPT !.type = next]}
  <1>1. Innermost # "none"
    BY DEF Resume
  <1>2. [Top EXCEPT !.type = next] \in HandlerSet
    BY <1>1, UiFacts DEF HandlerSet
  <1>3. Front(dialogs) \in Seq(HandlerSet) /\ Range(Front(dialogs)) \subseteq Range(dialogs)
    BY <1>1, UiFacts
  <1>. QED BY <1>2, <1>3, RangeAppend DEF Resume

\* A failed assertion keeps the types.
LEMMA FaultType ==
  ASSUME TypeOK, NEW what, Fault(what), UNCHANGED <<peer, net, work>>
  PROVE  TypeOK'
  BY DEF Fault, TypeOK, mapVars, uiVars

\* The handlers of the UI thread keep the types.
LEMMA MessagesType ==
  ASSUME TypeOK, Messages
  PROVE  TypeOK'
  <1>0. UNCHANGED <<peer, net, work>>
    BY DEF Messages, HandleNewOnlineUser, HandleDelOnlineUser, HandleNewConnection,
           CreateRtmpWindow, CheckNewWindow, InsertWindow, FinishConnection, peerVars, poolVars
  <1>1. CASE \E what : Fault(what)
    BY <1>0, <1>1, FaultType
  <1>2. CASE HandleNewOnlineUser /\ ~(\E what : Fault(what))
    <2>1. Who \in Peers /\ Tail(msgs) \in Seq(MessageSet)
      BY <1>2, UiFacts DEF HandleNewOnlineUser, Receive
    <2>. QED BY <1>0, <1>2, <2>1 DEF HandleNewOnlineUser, TypeOK, MessageSet, mapVars
  <1>3. CASE HandleDelOnlineUser
    <2>1. Tail(msgs) \in Seq(MessageSet)
      BY <1>3, UiFacts DEF HandleDelOnlineUser, Receive
    <2>. QED BY <1>0, <1>3, <2>1 DEF HandleDelOnlineUser, TypeOK, MessageSet, poolVars, mapVars
  <1>4. CASE HandleNewConnection /\ ~(\E what : Fault(what))
    <2>1. PICK type \in {"BuildConnect", "Accept"} :
            /\ Receive(type)
            /\ dialogs' = Append(dialogs,
                      [type |-> IF type = "Accept" THEN "create" ELSE "Request", app |-> Who])
            /\ msgs' = Tail(msgs)
            /\ UNCHANGED <<running, mapVars, menu, encoder, ui, fault>>
      BY <1>4 DEF HandleNewConnection
    <2>2. Who \in Peers /\ Tail(msgs) \in Seq(MessageSet)
      BY <2>1, UiFacts DEF Receive
    <2>3. [type |-> IF type = "Accept" THEN "create" ELSE "Request", app |-> Who] \in HandlerSet
      BY <2>2 DEF HandlerSet
    <2>4. dialogs' \in Seq(HandlerSet)
      BY <2>1, <2>3, TypeFacts, RangeAppend
    <2>. QED BY <1>0, <2>1, <2>2, <2>4 DEF TypeOK, MessageSet, HandlerSet, mapVars
  <1>5. CASE CreateRtmpWindow /\ ~(\E what : Fault(what))
    <2>1. dialogs' \in Seq(HandlerSet) /\ Top.app \in Peers
      BY <1>5, ResumeFacts, UiFacts DEF CreateRtmpWindow, HandlerSet
    <2>. QED BY <1>0, <1>5, <2>1 DEF CreateRtmpWindow, TypeOK, HandlerSet
  <1>6. CASE CheckNewWindow /\ ~(\E what : Fault(what))
    <2>1. dialogs' \in Seq(HandlerSet)
      BY <1>6, ResumeFacts DEF CheckNewWindow
    <2>. QED BY <1>0, <1>6, <2>1 DEF CheckNewWindow, TypeOK, HandlerSet, mapVars
  <1>7. CASE InsertWindow /\ ~(\E what : Fault(what))
    <2>1. dialogs' \in Seq(HandlerSet) /\ Top.app \in Peers
      BY <1>7, ResumeFacts, UiFacts DEF InsertWindow, HandlerSet
    <2>2. PICK k \in HashOf(Top.app) : winMap' = [winMap EXCEPT ![k] = Top.app]
      BY <1>7 DEF InsertWindow
    <2>3. k \in Keys
      BY <2>1 DEF HashOf, Keys
    <2>4. winMap' \in [Keys -> Peers \cup {"absent", "null"}]
      BY <2>1, <2>2, <2>3, TypeFacts
    <2>. QED BY <1>0, <1>7, <2>1, <2>4 DEF InsertWindow, TypeOK, HandlerSet
  <1>8. CASE FinishConnection /\ ~(\E what : Fault(what))
    <2>1. Front(dialogs) \in Seq(HandlerSet)
      BY <1>8, UiFacts DEF FinishConnection
    <2>. QED BY <1>0, <1>8, <2>1 DEF FinishConnection, TypeOK, HandlerSet, mapVars
  <1>. QED BY <1>1, <1>2, <1>3, <1>4, <1>5, <1>6, <1>7, <1>8 DEF Messages

\* What the user does to the record of a peer keeps its type.
LEMMA PeerUpdates ==
  ASSUME TypeOK, NEW q \in Peers
  PROVE  /\ [peer[q] EXCEPT !.link = TRUE] \in PeerRecords
         /\ [peer[q] EXCEPT !.invited = "yes"] \in PeerRecords
  <1>1. peer[q] \in PeerRecords
    BY TypeFacts
  <1>. QED BY <1>1 DEF PeerRecords

\* So do the user's choices.
LEMMA UserType ==
  ASSUME TypeOK, User
  PROVE  TypeOK'
  <1>1. CASE RequestOk
    <2>1. CASE Fault("dead session") /\ UNCHANGED peer
      BY <1>1, <2>1, FaultType DEF RequestOk
    <2>2. CASE ~(Fault("dead session") /\ UNCHANGED peer)
      <3>1. dialogs' \in Seq(HandlerSet) /\ Top.app \in Peers
        BY <1>1, <2>2, ResumeFacts, UiFacts DEF RequestOk, HandlerSet
      <3>2. [peer[Top.app] EXCEPT !.link = TRUE] \in PeerRecords
        BY <3>1, PeerUpdates
      <3>3. peer' \in [Peers -> PeerRecords]
        BY <1>1, <2>2, <3>1, <3>2 DEF RequestOk, TypeOK
      <3>. QED BY <1>1, <2>2, <3>1, <3>3 DEF RequestOk, TypeOK, HandlerSet, mapVars
    <2>. QED BY <2>1, <2>2
  <1>2. CASE ConfirmOk
    <2>1. Top.app \in Peers /\ Front(dialogs) \in Seq(HandlerSet)
      BY <1>2, UiFacts DEF ConfirmOk, HandlerSet
    <2>2. [peer[Top.app] EXCEPT !.invited = "yes"] \in PeerRecords
      BY <2>1, PeerUpdates
    <2>3. peer' \in [Peers -> PeerRecords]
      BY <1>2, <2>1, <2>2 DEF ConfirmOk, TypeOK
    <2>. QED BY <1>2, <2>1, <2>3 DEF ConfirmOk, TypeOK, HandlerSet, poolVars, mapVars
  <1>3. CASE DialogCancel
    <2>1. Front(dialogs) \in Seq(HandlerSet)
      BY <1>3, UiFacts DEF DialogCancel
    <2>. QED BY <1>3, <2>1 DEF DialogCancel, TypeOK, HandlerSet, peerVars, poolVars, mapVars
  <1>4. CASE \E p \in Peers : ChooseUser(p)
    <2>1. PICK p \in Peers : ChooseUser(p)
      BY <1>4
    <2>2. <<[type |-> "Confirm", app |-> p]>> \in Seq(HandlerSet)
      BY DEF HandlerSet
    <2>. QED BY <2>1, <2>2 DEF ChooseUser, TypeOK, HandlerSet, peerVars, poolVars, mapVars
  <1>5. CASE Destroy
    BY <1>5 DEF Destroy, TypeOK, peerVars, poolVars, mapVars
  <1>. QED BY <1>1, <1>2, <1>3, <1>4, <1>5 DEF User

\* The dispatcher, the start of a callback, WM_DESTROY and the encoder thread.
LEMMA OtherType ==
  ASSUME TypeOK, ReadCallback \/ StartCallback \/ Shutdown \/ EncoderEnds
  PROVE  TypeOK'
  <1>1. CASE ReadCallback
    <2>1. Tail(net) \in Seq(Packets) /\ Append(work, Head(net)) \in Seq(Packets)
      BY <1>1, TypeFacts, RangeTail, RangeAppend DEF ReadCallback
    <2>. QED BY <1>1, <2>1 DEF ReadCallback, TypeOK, mapVars, uiVars
  <1>2. CASE StartCallback
    <2>1. Head(work) \in Packets /\ Tail(work) \in Seq(Packets)
      BY <1>2, TypeFacts, RangeTail DEF StartCallback
    <2>2. [at |-> "start", ptr |-> "absent", found |-> FALSE, packet |-> Head(work)] \in Callbacks
      BY <2>1 DEF Callbacks, Places
    <2>3. \A d \in running' : d \in Callbacks
      BY <1>2, <2>2, TypeFacts DEF StartCallback
    <2>. QED BY <1>2, <2>1, <2>3 DEF StartCallback, TypeOK, peerVars, mapVars, uiVars
  <1>3. CASE Shutdown
    BY <1>3 DEF Shutdown, DeleteSessions, DeleteWindows, Quit, TypeOK, peerVars, poolVars
  <1>4. CASE EncoderEnds
    BY <1>4 DEF EncoderEnds, TypeOK, peerVars, poolVars, mapVars
  <1>. QED BY <1>1, <1>2, <1>3, <1>4

\* The first packet is a list of peers, and nothing else is there.
LEMMA InitPackets ==
  ASSUME Init
  PROVE  /\ net \in Seq(Packets) /\ \A k \in Range(net) : k.type = "OnlineSessions"
         /\ peer \in [Peers -> PeerRecords]
  <1>1. PICK online \in SUBSET Peers : \E apps \in SetToSeqs(online) :
          /\ peer = [p \in Peers |->
                       [state |-> IF p \in online THEN "on" ELSE "off",
                        asks |-> FALSE, invited |-> "no", link |-> FALSE, sent |-> 0]]
          /\ net = IF online = {} THEN <<>> ELSE <<Packet("OnlineSessions", apps, 0)>>
    BY DEF Init
  <1>2. PICK apps \in SetToSeqs(online) :
          net = IF online = {} THEN <<>> ELSE <<Packet("OnlineSessions", apps, 0)>>
    BY <1>1
  <1>3. peer \in [Peers -> PeerRecords]
    <2>1. 0 \in 0 .. MaxPush + 1
      OBVIOUS
    <2>. QED BY <1>1, <2>1 DEF PeerRecords
  <1>4. CASE online = {}
    BY <1>2, <1>3, <1>4, RangeEmpty
  <1>5. CASE online # {}
    <2> DEFINE n == Cardinality(online)
    <2>1. IsFiniteSet(online) /\ n \in Nat /\ n # 0
      BY <1>5, FS_Subset, FS_EmptySet, FS_CardinalityType
    <2>2. apps \in [1 .. n -> online]
      BY DEF SetToSeqs
    <2>. HIDE DEF n
    <2>3. apps \in Seq(online) /\ Len(apps) = n
      BY <2>1, <2>2
    <2>4. apps \in Seq(Peers) /\ apps # <<>>
      <3>1. apps \in [1 .. n -> Peers]
        BY <2>2
      <3>2. \A t : t = <<>> => Len(t) = 0
        OBVIOUS
      <3>. QED BY <2>1, <2>3, <3>1, <3>2
    <2>5. 0 \in 0 .. MaxPush
      OBVIOUS
    <2>6. /\ Packet("OnlineSessions", apps, 0) \in Packets
          /\ Packet("OnlineSessions", apps, 0).type = "OnlineSessions"
      BY <2>4, <2>5 DEF Packet, Packets, PacketTypes
    <2>7. net = <<Packet("OnlineSessions", apps, 0)>>
      BY <1>2, <1>5
    <2>8. \A k \in Range(net) : k = Packet("OnlineSessions", apps, 0)
      BY <2>7 DEF Range
    <2>. QED BY <1>3, <2>6, <2>7, <2>8
  <1>. QED BY <1>4, <1>5

\* The types hold when the server has sent the list of peers.
LEMMA InitType == Init => TypeOK
  <1>. SUFFICES ASSUME Init PROVE TypeOK
    OBVIOUS
  <1>1. net \in Seq(Packets) /\ peer \in [Peers -> PeerRecords]
    BY InitPackets
  <1>2. /\ work = <<>> /\ running = {} /\ msgs = <<>> /\ dialogs = <<>> /\ menu = {}
        /\ sessMap = [p \in Peers |-> "absent"] /\ sessAlive = {}
        /\ winMap = [k \in Keys |-> "absent"] /\ winAlive = {}
        /\ encoder = "off" /\ ui = "loop"
    BY DEF Init
  <1>. QED BY <1>1, <1>2 DEF TypeOK

\* Every step keeps the types.
LEMMA StepType == TypeOK /\ [Next]_vars => TypeOK'
  <1>. SUFFICES ASSUME TypeOK, [Next]_vars PROVE TypeOK'
    OBVIOUS
  <1>1. CASE UNCHANGED vars
    BY <1>1 DEF vars, mapVars, uiVars, TypeOK
  <1>2. CASE \E c \in running : MyWorkCallback(c)
    BY <1>2, CallbackType
  <1>. QED BY <1>1, <1>2, ServerType, OtherType, MessagesType, UserType DEF Next
-----------------------------------------------------------------------------
(* A peer that is not lost keeps its session.                              *)

Lost(k, p) == k.type = "LostSession" /\ Head(k.apps) = p

\* No LostSession of p is on its way.
NoLost(p) ==
  /\ \A k \in Range(net) : ~Lost(k, p)
  /\ \A k \in Range(work) : ~Lost(k, p)
  /\ \A c \in running : ~Lost(c.packet, p)

\* What a callback has found still holds: NewSession past its insertion,
\* BuildConnect, Accept, Push and Fin past their assertion.
CallbackOk(c, p) ==
  App(c) = p =>
    /\ c.packet.type \in {"OnlineSessions", "NewSession"} /\ c.at = "post" => HasSession(p)
    /\ c.packet.type \in {"BuildConnect", "Accept"} =>
         IF c.at = "start" THEN c.ptr = "absent" ELSE HasSession(p)
    /\ c.packet.type \in {"Push", "Fin"} /\ c.at = "window" => winMap[p] # "absent"

UiOk(p) ==
  /\ \A m \in Range(msgs) : m.app = p => HasSession(p)
  /\ \A d \in Range(dialogs) : d.app = p =>
       HasSession(p) /\ (d.type \in {"check", "insert"} => p \in winAlive)
  /\ p \in menu => HasSession(p)

MapOk(p) ==
  /\ sessMap[p] = "absent" \/ HasSession(p)
  /\ winMap[p] # "absent" => HasSession(p) /\ p \in winAlive

PeerInv(p) == NoLost(p) /\ (\A c \in running : CallbackOk(c, p)) /\ UiOk(p) /\ MapOk(p)

\* The inductive invariant of PointersLive.
SessionInv ==
  ui = "loop" => \A p \in Peers : peer[p].state # "gone" => PeerInv(p)

\* At the start no session, window or pointer is there.
LEMMA InitSession == Init => SessionInv
  <1>. SUFFICES ASSUME Init, NEW p \in Peers PROVE PeerInv(p)
    BY DEF SessionInv
  <1>1. \A k \in Range(net) : k.type = "OnlineSessions"
    BY InitPackets
  <1>2. /\ Range(work) = {} /\ Range(msgs) = {} /\ Range(dialogs) = {}
        /\ running = {} /\ menu = {}
        /\ sessMap[p] = "absent" /\ winMap[p] = "absent"
    <2>1. p \in Keys
      BY DEF Keys
    <2>. QED BY <2>1, RangeEmpty DEF Init
  <1>. QED BY <1>1, <1>2 DEF PeerInv, NoLost, Lost, UiOk, MapOk

\* A step that keeps what p has, and adds neither pointers to it nor losses.
LEMMA SessionFrame ==
  ASSUME NEW p \in Peers, PeerInv(p),
         UNCHANGED <<sessMap, sessAlive, winMap, winAlive>>,
         NoLost(p)', \A c \in running' : CallbackOk(c, p), UiOk(p)'
  PROVE  PeerInv(p)'
  BY DEF PeerInv, CallbackOk, App, MapOk, HasSession

\* The states of the peers change, and a packet is sent.
LEMMA SessionServer ==
  ASSUME TypeOK, SessionInv, Server
  PROVE  SessionInv'
  <1>1. UNCHANGED <<work, running, sessMap, sessAlive, winMap, winAlive, msgs, dialogs, menu, ui>>
    BY DEF Server, poolVars, mapVars, uiVars
  <1>. SUFFICES ASSUME ui = "loop", NEW p \in Peers, peer'[p].state # "gone"
                PROVE  PeerInv(p)'
    BY <1>1 DEF SessionInv
  <1>2. PICK q \in Peers : PeerOnline(q) \/ PeerBuildConnect(q) \/ PeerAccept(q)
                             \/ PeerStream(q) \/ PeerLost(q)
    BY DEF Server
  <1>3. peer \in [Peers -> PeerRecords] /\ peer[q] \in PeerRecords /\ peer[p] \in PeerRecords
    BY TypeFacts
  <1>4. peer[p].state # "gone" /\ ~(PeerLost(q) /\ q = p)
    BY <1>2, <1>3 DEF PeerOnline, PeerBuildConnect, PeerAccept, PeerStream, PeerLost, PeerRecords
  <1>5. PeerInv(p)
    BY <1>4 DEF SessionInv
  <1>6. PICK t \in PacketTypes, n \in 0 .. MaxPush :
          Send(t, q, n) /\ (t = "LostSession" => q # p)
    <2>1. 0 \in 0 .. MaxPush
      OBVIOUS
    <2>2. CASE PeerStream(q)
      <3>1. peer[q].sent \in 0 .. MaxPush
        BY <1>3, <2>2 DEF PeerStream, PeerRecords
      <3>. QED BY <2>2, <3>1 DEF PeerStream, PacketTypes
    <2>3. CASE PeerOnline(q) \/ PeerBuildConnect(q) \/ PeerAccept(q) \/ PeerLost(q)
      BY <1>4, <2>1, <2>3 DEF PeerOnline, PeerBuildConnect, PeerAccept, PeerLost, PacketTypes
    <2>. QED BY <1>2, <2>2, <2>3
  <1>7. Range(net') = Range(net) \cup {Packet(t, <<q>>, n)}
    BY <1>6, PacketType, TypeFacts, RangeAppend DEF Send
  <1>8. ~Lost(Packet(t, <<q>>, n), p)
    BY <1>6 DEF Lost, Packet
  <1>9. NoLost(p)'
    BY <1>1, <1>5, <1>7, <1>8 DEF NoLost, PeerInv, Lost
  <1>10. (\A c \in running' : CallbackOk(c, p)) /\ UiOk(p)'
    BY <1>1, <1>5 DEF PeerInv, UiOk, HasSession
  <1>. QED BY <1>1, <1>5, <1>9, <1>10, SessionFrame

\* What a callback's step leaves of the session and the window of p.
LEMMA CallbackKeeps ==
  ASSUME TypeOK, NEW c \in running, MyWorkCallback(c), NEW p \in Peers, PeerInv(p)
  PROVE  /\ HasSession(p) => HasSession(p)'
         /\ winMap[p] # "absent" => winMap'[p] # "absent"
         /\ p \in winAlive => p \in winAlive'
         /\ MapOk(p)'
  <1>1. /\ App(c) \in Peers /\ App(c) \in Keys /\ p \in Keys /\ c \in Callbacks
        /\ c.packet.type = "LostSession" => App(c) # p
        /\ CallbackOk(c, p) /\ MapOk(p)
        /\ p \notin {"absent", "null"}
    BY TypeFacts, CallbackFields DEF PeerInv, NoLost, Lost, App, Keys
  <1>2. /\ sessMap \in [Peers -> Peers \cup {"absent", "null"}]
        /\ winMap \in [Keys -> Peers \cup {"absent", "null"}]
    BY TypeFacts
  <1>3. /\ HasSession(p) => HasSession(p)'
        /\ sessMap'[p] = "absent" \/ HasSession(p)'
    <2>1. CASE UNCHANGED <<sessMap, sessAlive>>
      BY <1>1, <2>1 DEF HasSession, MapOk
    <2>2. CASE InsertSession(c)
      BY <1>1, <1>2, <2>2 DEF InsertSession, HasSession, MapOk
    <2>3. CASE EraseSession(c)
      BY <1>1, <1>2, <2>3 DEF EraseSession, HasSession, MapOk
    <2>4. CASE DeleteSession(c)
      BY <1>1, <2>1, <2>4 DEF DeleteSession, HasSession, MapOk, Fault, mapVars
    <2>5. CASE FindSession(c)
      <3>1. App(c) = p => HasSession(p)
        BY <1>1, <2>5 DEF FindSession, CallbackOk
      <3>. QED BY <1>1, <1>2, <2>5, <3>1 DEF FindSession, AtKey, HasSession, MapOk
    <2>. QED BY <2>1, <2>2, <2>3, <2>4, <2>5, CallbackEffects
  <1>4. /\ winMap[p] # "absent" => winMap'[p] # "absent"
        /\ p \in winAlive => p \in winAlive'
        /\ winMap'[p] # "absent" => winMap[p] # "absent"
    <2>1. CASE UNCHANGED <<winMap, winAlive>>
      BY <2>1
    <2>2. CASE EraseWindow(c)
      BY <1>1, <1>2, <2>2 DEF EraseWindow
    <2>3. CASE DeleteWindow(c)
      BY <1>1, <2>1, <2>3 DEF DeleteWindow, Fault, mapVars
    <2>4. CASE FindWindow(c)
      <3>1. App(c) = p => winMap[p] # "absent"
        BY <1>1, <2>4 DEF FindWindow, CallbackOk
      <3>. QED BY <1>1, <1>2, <2>4, <3>1 DEF FindWindow, AtKey
    <2>. QED BY <2>1, <2>2, <2>3, <2>4, CallbackEffects
  <1>. QED BY <1>1, <1>3, <1>4 DEF MapOk

\* The callback that has moved on still keeps to CallbackOk.
LEMMA CallbackMoved ==
  ASSUME TypeOK, NEW c \in running, MyWorkCallback(c), NEW p \in Peers, PeerInv(p),
         NEW d \in running'
  PROVE  d \in running \/ (~Lost(d.packet, p) /\ CallbackOk(d, p)')
  <1>. SUFFICES ASSUME d \notin running
                PROVE  ~Lost(d.packet, p) /\ CallbackOk(d, p)'
    OBVIOUS
  <1>1. /\ c \in Callbacks /\ App(c) \in Peers /\ ~Lost(c.packet, p)
        /\ CallbackOk(c, p) /\ MapOk(p)
    BY TypeFacts, CallbackFields DEF PeerInv, NoLost
  <1>2. /\ HasSession(p) => HasSession(p)'
        /\ winMap[p] # "absent" => winMap'[p] # "absent"
        /\ MapOk(p)'
    BY CallbackKeeps
  <1>3. ~(\E what : Fault(what))
    BY DEF Fault
  <1>4. ASSUME NEW place, d = [c EXCEPT !.at = place]
        PROVE  /\ d.packet = c.packet /\ d.at = place /\ d.ptr = c.ptr /\ App(d) = App(c)
               /\ ~Lost(d.packet, p)
    BY <1>1, <1>4 DEF Callbacks, App
  <1>5. CASE CheckNewSession(c)
    <2>1. d = [c EXCEPT !.at = "insert"] /\ c.packet.type \in {"OnlineSessions", "NewSession"}
      BY <1>3, <1>5 DEF CheckNewSession, Check, Goto, Replace
    <2>. QED BY <1>4, <2>1 DEF CallbackOk
  <1>6. CASE CheckWindow(c)
    <2>1. /\ d = [c EXCEPT !.at = "window"] /\ c.packet.type \in {"Push", "Fin"}
          /\ winMap[App(c)] # "absent"
      BY <1>3, <1>6 DEF CheckWindow, Check, Goto, Replace
    <2>. QED BY <1>2, <1>4, <2>1 DEF CallbackOk
  <1>7. CASE CheckSession(c)
    <2>1. /\ d = [c EXCEPT !.at = "session"] /\ c.packet.type \in {"BuildConnect", "Accept"}
          /\ sessMap[App(c)] # "absent"
      BY <1>3, <1>7 DEF CheckSession, Check, Goto, Replace
    <2>. QED BY <1>1, <1>2, <1>4, <2>1 DEF CallbackOk, MapOk
  <1>8. CASE InsertSession(c)
    <2>1. /\ d = [c EXCEPT !.at = "post"] /\ c.packet.type \in {"OnlineSessions", "NewSession"}
          /\ sessMap' = [sessMap EXCEPT ![App(c)] = IF @ = "absent" THEN App(c) ELSE @]
      BY <1>8 DEF InsertSession, Goto, Replace
    <2>2. sessMap'[App(c)] # "absent"
      <3>1. App(c) # "absent"
        BY <1>1
      <3>. QED BY <1>1, <2>1, <3>1, TypeFacts
    <2>. QED BY <1>2, <1>4, <2>1, <2>2 DEF CallbackOk, MapOk
  <1>9. CASE NotifyNewUser(c)
    <2>1. /\ d = [c EXCEPT !.at = "start", !.packet.apps = Tail(@)]
          /\ c.packet.type \in {"OnlineSessions", "NewSession"}
      BY <1>9 DEF NotifyNewUser, Return, Replace
    <2>2. d.packet.type = c.packet.type /\ d.at = "start" /\ d.ptr = c.ptr
      BY <1>1, <2>1 DEF Callbacks, Packets
    <2>. QED BY <2>1, <2>2 DEF CallbackOk, Lost
  <1>10. CASE c.packet.type = "LostSession"
    <2>1. CASE \E place : d = [c EXCEPT !.at = place]
      BY <1>1, <1>4, <1>10, <2>1 DEF CallbackOk, Lost, App
    <2>2. CASE \E place : d = [c EXCEPT !.at = place, !.found = TRUE]
      <3>1. d.packet = c.packet
        BY <1>1, <2>2 DEF Callbacks
      <3>. QED BY <1>1, <1>10, <3>1 DEF CallbackOk, Lost, App
    <2>. QED BY <1>3, <1>10, <2>1, <2>2
           DEF MyWorkCallback, CheckNewSession, CheckWindow, CheckSession, Check, InsertSession,
               NotifyNewUser, FindLostSession, ReadLostSession, EraseSession, DeleteSession,
               FindLostWindow, ReadLostWindow, EraseWindow, DeleteWindow, NotifyLostUser,
               FindWindow, PushToWindow, FindSession, NotifyConnection, Goto, Replace, Return
  <1>11. CASE FindWindow(c)
    <2>1. c.packet.type \in {"Push", "Fin"} /\ \E v : d = [c EXCEPT !.at = "push", !.ptr = v]
      BY <1>11 DEF FindWindow, Replace
    <2>2. d.packet = c.packet /\ d.at = "push"
      BY <1>1, <2>1 DEF Callbacks
    <2>. QED BY <1>1, <2>1, <2>2 DEF CallbackOk
  <1>12. CASE FindSession(c)
    <2>1. /\ c.packet.type \in {"BuildConnect", "Accept"} /\ c.at = "session"
          /\ \E v : d = [c EXCEPT !.at = "post", !.ptr = v]
      BY <1>12 DEF FindSession, Replace
    <2>2. d.packet = c.packet /\ d.at = "post"
      BY <1>1, <2>1 DEF Callbacks
    <2>3. App(d) = p => HasSession(p)'
      BY <1>1, <1>2, <2>1, <2>2 DEF CallbackOk, App
    <2>. QED BY <1>1, <2>1, <2>2, <2>3 DEF CallbackOk
  <1>13. CASE PushToWindow(c) \/ NotifyConnection(c)
    BY <1>3, <1>13 DEF PushToWindow, NotifyConnection, Return
  <1>. QED BY <1>5, <1>6, <1>7, <1>8, <1>9, <1>10, <1>11, <1>12, <1>13
         DEF MyWorkCallback, FindLostSession, ReadLostSession, EraseSession, DeleteSession,
             FindLostWindow, ReadLostWindow, EraseWindow, DeleteWindow, NotifyLostUser

\* The steps of MyWorkCallback keep the sessions of peers that are not lost.
LEMMA SessionCallback ==
  ASSUME TypeOK, SessionInv, NEW c \in running, MyWorkCallback(c)
  PROVE  SessionInv'
  <1>1. UNCHANGED <<peer, net, work, dialogs, menu, ui>>
    BY CallbackEffects
  <1>. SUFFICES ASSUME ui = "loop", NEW p \in Peers, peer[p].state # "gone"
                PROVE  PeerInv(p)'
    BY <1>1 DEF SessionInv
  <1>2. PeerInv(p)
    BY DEF SessionInv
  <1>3. /\ HasSession(p) => HasSession(p)'
        /\ winMap[p] # "absent" => winMap'[p] # "absent"
        /\ p \in winAlive => p \in winAlive'
        /\ MapOk(p)'
    BY <1>2, CallbackKeeps
  <1>4. \A d \in running' : d \in running \/ (~Lost(d.packet, p) /\ CallbackOk(d, p)')
    BY <1>2, CallbackMoved
  <1>5. NoLost(p)'
    BY <1>1, <1>2, <1>4 DEF PeerInv, NoLost, Lost
  <1>6. \A d \in running : CallbackOk(d, p)'
    BY <1>2, <1>3 DEF PeerInv, CallbackOk, App
  <1>7. \A m \in Range(msgs') : m.app = p => m \in Range(msgs) \/ HasSession(p)
    <2>1. /\ App(c) \in Peers /\ c.packet.type \in PacketTypes
          /\ c.ptr \in Peers \cup {"absent", "null"} /\ CallbackOk(c, p)
          /\ ~Lost(c.packet, p)
      BY <1>2, TypeFacts, CallbackFields DEF PeerInv, NoLost
    <2>2. CASE UNCHANGED msgs
      BY <2>2
    <2>3. CASE NotifyNewUser(c)
      <3>1. Range(msgs') = Range(msgs) \cup
              {[type |-> "NEW_ONLINEUSER", app |-> App(c), ptr |-> App(c)]}
        BY <2>1, <2>3, PostType DEF NotifyNewUser
      <3>. QED BY <2>1, <2>3, <3>1 DEF NotifyNewUser, CallbackOk
    <2>4. CASE NotifyLostUser(c) /\ ~UNCHANGED msgs
      <3>1. Range(msgs') = Range(msgs) \cup
              {[type |-> "DEL_ONLINEUSER", app |-> App(c), ptr |-> App(c)]}
        BY <2>1, <2>4, PostType DEF NotifyLostUser, Fault, uiVars
      <3>2. App(c) # p
        BY <2>1, <2>4 DEF NotifyLostUser, Lost, App
      <3>. QED BY <3>1, <3>2
    <2>5. CASE NotifyConnection(c)
      <3>1. Range(msgs') = Range(msgs) \cup
              {[type |-> c.packet.type, app |-> App(c), ptr |-> c.ptr]}
        BY <2>1, <2>5, PostType DEF NotifyConnection
      <3>. QED BY <2>1, <2>5, <3>1 DEF NotifyConnection, CallbackOk
    <2>. QED BY <2>2, <2>3, <2>4, <2>5, CallbackEffects
  <1>8. UiOk(p)'
    BY <1>1, <1>2, <1>3, <1>7 DEF PeerInv, UiOk
  <1>. QED BY <1>3, <1>4, <1>5, <1>6, <1>8 DEF PeerInv

\* A step of the UI thread that leaves the callbacks and the sessions alone.
LEMMA SessionUi ==
  ASSUME NEW p \in Peers, PeerInv(p),
         UNCHANGED <<net, work, running, sessMap, sessAlive>>,
         winMap[p] # "absent" => winMap'[p] # "absent", MapOk(p)', UiOk(p)'
  PROVE  PeerInv(p)'
  <1>1. NoLost(p)'
    BY DEF PeerInv, NoLost, Lost
  <1>2. \A c \in running' : CallbackOk(c, p)'
    BY DEF PeerInv, CallbackOk, App, HasSession
  <1>. QED BY <1>1, <1>2 DEF PeerInv

\* So do the handlers of the UI thread.
LEMMA SessionMessages ==
  ASSUME TypeOK, SessionInv, Messages
  PROVE  SessionInv'
  <1>1. /\ UNCHANGED <<peer, net, work, running, sessMap, sessAlive, ui>>
        /\ ui = "loop"
    BY DEF Messages, HandleNewOnlineUser, HandleDelOnlineUser, HandleNewConnection, Receive,
           Pumping, CreateRtmpWindow, CheckNewWindow, InsertWindow, FinishConnection, Fault,
           peerVars, poolVars, mapVars, uiVars
  <1>. SUFFICES ASSUME NEW p \in Peers, peer[p].state # "gone"
                PROVE  PeerInv(p)'
    BY <1>1 DEF SessionInv
  <1>2. PeerInv(p) /\ MapOk(p) /\ UiOk(p)
    BY <1>1 DEF SessionInv, PeerInv
  <1>3. CASE \E what : Fault(what)
    <2>1. UNCHANGED <<winMap, winAlive, msgs, dialogs, menu>>
      BY <1>3 DEF Fault, mapVars, uiVars
    <2>2. MapOk(p)' /\ UiOk(p)'
      BY <1>1, <1>2, <2>1 DEF MapOk, UiOk, HasSession
    <2>. QED BY <1>1, <1>2, <2>1, <2>2, SessionUi
  <1>4. CASE /\ HandleNewOnlineUser \/ HandleDelOnlineUser \/ HandleNewConnection
             /\ ~(\E what : Fault(what))
    <2>1. UNCHANGED <<winMap, winAlive>>
      BY <1>4 DEF HandleNewOnlineUser, HandleDelOnlineUser, HandleNewConnection, mapVars
    <2>2. MapOk(p)'
      BY <1>1, <1>2, <2>1 DEF MapOk, HasSession
    <2>3. msgs # <<>> /\ msgs' = Tail(msgs)
      BY <1>4 DEF HandleNewOnlineUser, HandleDelOnlineUser, HandleNewConnection, Receive
    <2>4. Range(msgs') \subseteq Range(msgs) /\ Head(msgs) \in Range(msgs) /\ Who \in Peers
      BY <2>3, UiFacts
    <2>5. Who = p => HasSession(p)
      BY <1>2, <2>4 DEF UiOk, Who
    <2>6. menu' \subseteq menu \cup {Who}
      BY <1>4 DEF HandleNewOnlineUser, HandleDelOnlineUser, HandleNewConnection
    <2>7. \A d \in Range(dialogs') :
            d \in Range(dialogs) \/ (d.app = Who /\ d.type \in {"create", "Request"})
      <3>1. CASE UNCHANGED dialogs
        BY <3>1
      <3>2. CASE HandleNewConnection
        <4>1. PICK t \in {"create", "Request"} :
                dialogs' = Append(dialogs, [type |-> t, app |-> Who])
          BY <1>4, <3>2 DEF HandleNewConnection
        <4>2. [type |-> t, app |-> Who] \in HandlerSet
          BY <2>4 DEF HandlerSet
        <4>3. Range(dialogs') = Range(dialogs) \cup {[type |-> t, app |-> Who]}
          BY <4>1, <4>2, TypeFacts, RangeAppend
        <4>. QED BY <4>3
      <3>. QED BY <1>4, <3>1, <3>2 DEF HandleNewOnlineUser, HandleDelOnlineUser
    <2>8. UiOk(p)'
      BY <1>1, <1>2, <2>1, <2>4, <2>5, <2>6, <2>7 DEF UiOk, HasSession
    <2>. QED BY <1>1, <1>2, <2>1, <2>2, <2>8, SessionUi
  <1>5. CASE /\ CreateRtmpWindow \/ CheckNewWindow \/ InsertWindow \/ FinishConnection
             /\ ~(\E what : Fault(what))
    <2>1. /\ Top \in HandlerSet /\ Top \in Range(dialogs) /\ Innermost = Top.type
          /\ UNCHANGED <<msgs, menu>>
      BY <1>5, UiFacts DEF CreateRtmpWindow, CheckNewWindow, InsertWindow, FinishConnection
    <2>2. Top.app \in Peers /\ (Top.app = p => HasSession(p))
      BY <1>2, <2>1 DEF HandlerSet, UiOk
    <2>3. \A d \in Range(dialogs') :
            \/ d \in Range(dialogs)
            \/ /\ d.app = Top.app
               /\ d.type = "insert" => Innermost = "check"
               /\ d.type = "check" => CreateRtmpWindow
      <3>1. CASE FinishConnection
        BY <1>5, <3>1, UiFacts DEF FinishConnection
      <3>2. ASSUME NEW place, place # "none", NEW next \in {"check", "insert", "size"},
                   Resume(place, next)
            PROVE  \A d \in Range(dialogs') :
                     d \in Range(dialogs) \/ (d.app = Top.app /\ d.type = next)
        <4>1. Range(dialogs') \subseteq Range(dialogs) \cup {[Top EXCEPT !.type = next]}
          BY <3>2, ResumeFacts
        <4>2. [Top EXCEPT !.type = next].app = Top.app /\ [Top EXCEPT !.type = next].type = next
          BY <2>1 DEF HandlerSet
        <4>. QED BY <4>1, <4>2
      <3>3. CASE CreateRtmpWindow
        BY <1>5, <3>2, <3>3 DEF CreateRtmpWindow
      <3>4. CASE CheckNewWindow
        BY <1>5, <3>2, <3>4 DEF CheckNewWindow
      <3>5. CASE InsertWindow
        BY <1>5, <3>2, <3>5 DEF InsertWindow
      <3>. QED BY <1>5, <3>1, <3>3, <3>4, <3>5
    <2>4. /\ winAlive \subseteq winAlive'
          /\ CreateRtmpWindow => Top.app \in winAlive'
      BY <1>5 DEF CreateRtmpWindow, CheckNewWindow, InsertWindow, FinishConnection, mapVars
    <2>5. UiOk(p)'
      BY <1>1, <1>2, <2>1, <2>2, <2>3, <2>4 DEF UiOk, HasSession
    <2>6. /\ winMap[p] # "absent" => winMap'[p] # "absent"
          /\ winMap'[p] # "absent" => winMap[p] # "absent" \/ (Top.app = p /\ p \in winAlive)
      <3>1. CASE InsertWindow
        <4>1. PICK k \in HashOf(Top.app) : winMap' = [winMap EXCEPT ![k] = Top.app]
          BY <1>5, <3>1 DEF InsertWindow
        <4>2. p \in Keys /\ p # "dead" /\ k \in Keys /\ Top.app # "absent"
          BY <2>2, <4>1 DEF HashOf, Keys
        <4>3. k = p => Top.app = p
          BY <4>1, <4>2 DEF HashOf
        <4>4. Top.app = p => p \in winAlive
          BY <1>2, <2>1, <3>1 DEF InsertWindow, UiOk
        <4>. QED BY <4>1, <4>2, <4>3, <4>4, TypeFacts
      <3>. QED BY <1>5, <3>1 DEF CreateRtmpWindow, CheckNewWindow, FinishConnection, mapVars
    <2>7. MapOk(p)'
      BY <1>1, <1>2, <2>2, <2>4, <2>6 DEF MapOk, HasSession
    <2>. QED BY <1>1, <1>2, <2>5, <2>6, <2>7, SessionUi
  <1>. QED BY <1>3, <1>4, <1>5 DEF Messages

\* So do the user's choices.
LEMMA SessionUser ==
  ASSUME TypeOK, SessionInv, User
  PROVE  SessionInv'
  <1>1. /\ UNCHANGED <<net, work, running, sessMap, sessAlive, winMap, winAlive, msgs, menu>>
        /\ ui = "loop"
    BY DEF User, RequestOk, ConfirmOk, DialogCancel, ChooseUser, Destroy, Fault, Resume,
           peerVars, poolVars, mapVars, uiVars
  <1>2. ASSUME NEW p \in Peers, peer'[p].state # "gone", ~Destroy
        PROVE  peer[p].state # "gone"
    <2>1. CASE UNCHANGED peer
      BY <1>2, <2>1
    <2>2. CASE RequestOk /\ peer' = [peer EXCEPT ![Top.app].link = TRUE]
      BY <1>2, <2>2, TypeFacts DEF PeerRecords
    <2>3. CASE ConfirmOk
      BY <1>2, <2>3, TypeFacts DEF ConfirmOk, PeerRecords
    <2>. QED BY <1>2, <2>1, <2>2, <2>3 DEF User, RequestOk, DialogCancel, ChooseUser, peerVars
  <1>3. CASE Destroy
    BY <1>3 DEF Destroy, SessionInv
  <1>4. CASE ~Destroy
    <2>. SUFFICES ASSUME NEW p \in Peers, peer'[p].state # "gone"
                  PROVE  PeerInv(p)'
      BY DEF SessionInv
    <2>1. PeerInv(p) /\ MapOk(p) /\ UiOk(p)
      BY <1>1, <1>2, <1>4 DEF SessionInv, PeerInv
    <2>2. \A d \in Range(dialogs') :
            d \in Range(dialogs) \/ (d.type \notin {"check", "insert"} /\ (d.app = p => HasSession(p)))
      <3>1. CASE UNCHANGED dialogs
        BY <3>1
      <3>2. CASE RequestOk /\ ~UNCHANGED dialogs
        <4>1. Resume("Request", "create") /\ Innermost = "Request"
          BY <3>2 DEF RequestOk, Fault, uiVars
        <4>2. Range(dialogs') \subseteq Range(dialogs) \cup {[Top EXCEPT !.type = "create"]}
          BY <4>1, ResumeFacts
        <4>3. Top \in HandlerSet /\ Top \in Range(dialogs)
          BY <4>1, UiFacts
        <4>4. [Top EXCEPT !.type = "create"].app = Top.app
                /\ [Top EXCEPT !.type = "create"].type = "create"
          BY <4>3 DEF HandlerSet
        <4>. QED BY <2>1, <4>2, <4>3, <4>4 DEF UiOk
      <3>3. CASE ConfirmOk \/ DialogCancel
        BY <3>3, UiFacts DEF ConfirmOk, DialogCancel
      <3>4. CASE \E q \in Peers : ChooseUser(q)
        <4>1. PICK q \in Peers : ChooseUser(q)
          BY <3>4
        <4>2. \A d \in Range(dialogs') : d = [type |-> "Confirm", app |-> q]
          BY <4>1 DEF ChooseUser, Range
        <4>. QED BY <2>1, <4>1, <4>2 DEF ChooseUser, UiOk
      <3>. QED BY <1>4, <3>1, <3>2, <3>3, <3>4 DEF User
    <2>3. UiOk(p)' /\ MapOk(p)'
      BY <1>1, <2>1, <2>2 DEF UiOk, MapOk, HasSession
    <2>. QED BY <1>1, <2>1, <2>3, SessionUi
  <1>. QED BY <1>3, <1>4

\* So do the dispatcher, the start of a callback, WM_DESTROY and the encoder thread.
LEMMA SessionOther ==
  ASSUME TypeOK, SessionInv, ReadCallback \/ StartCallback \/ Shutdown \/ EncoderEnds
  PROVE  SessionInv'
  <1>1. CASE Shutdown
    BY <1>1 DEF Shutdown, DeleteSessions, DeleteWindows, Quit, SessionInv
  <1>2. CASE ReadCallback \/ StartCallback \/ EncoderEnds
    <2>1. UNCHANGED <<peer, sessMap, sessAlive, winMap, winAlive, msgs, dialogs, menu, ui>>
      BY <1>2 DEF ReadCallback, StartCallback, EncoderEnds, peerVars, mapVars, uiVars
    <2>. SUFFICES ASSUME ui = "loop", NEW p \in Peers, peer[p].state # "gone"
                  PROVE  PeerInv(p)'
      BY <2>1 DEF SessionInv
    <2>2. PeerInv(p)
      BY DEF SessionInv
    <2>3. UiOk(p)'
      BY <2>1, <2>2 DEF PeerInv, UiOk, HasSession
    <2>4. NoLost(p)' /\ \A c \in running' : CallbackOk(c, p)
      <3>1. CASE ReadCallback
        <4>1. /\ Range(net') \subseteq Range(net) /\ Head(net) \in Range(net)
              /\ Range(work') = Range(work) \cup {Head(net)} /\ UNCHANGED running
          BY <3>1, TypeFacts, RangeTail, RangeAppend DEF ReadCallback
        <4>. QED BY <2>2, <4>1 DEF PeerInv, NoLost, Lost
      <3>2. CASE StartCallback
        <4> DEFINE d == [at |-> "start", ptr |-> "absent", found |-> FALSE, packet |-> Head(work)]
        <4>1. /\ Range(work') \subseteq Range(work) /\ Head(work) \in Range(work)
              /\ running' = running \cup {d} /\ UNCHANGED net
          BY <3>2, TypeFacts, RangeTail DEF StartCallback, peerVars
        <4>2. ~Lost(d.packet, p)
          BY <2>2, <4>1 DEF PeerInv, NoLost
        <4>3. CallbackOk(d, p)
          BY DEF CallbackOk
        <4>. HIDE DEF d
        <4>. QED BY <2>2, <4>1, <4>2, <4>3 DEF PeerInv, NoLost, Lost
      <3>3. CASE EncoderEnds
        BY <2>2, <3>3 DEF EncoderEnds, PeerInv, NoLost, Lost, peerVars, poolVars
      <3>. QED BY <1>2, <3>1, <3>2, <3>3
    <2>. QED BY <2>1, <2>2, <2>3, <2>4, SessionFrame
  <1>. QED BY <1>1, <1>2

\* So does every step.
LEMMA SessionStep == TypeOK /\ SessionInv /\ [Next]_vars => SessionInv'
  <1>. SUFFICES ASSUME TypeOK, SessionInv, [Next]_vars PROVE SessionInv'
    OBVIOUS
  <1>1. CASE UNCHANGED vars
    BY <1>1 DEF vars, mapVars, uiVars, SessionInv, PeerInv, NoLost, CallbackOk, UiOk, MapOk,
                HasSession, App
  <1>2. CASE \E c \in running : MyWorkCallback(c)
    BY <1>2, SessionCallback
  <1>. QED BY <1>1, <1>2, SessionServer, SessionOther, SessionMessages, SessionUser DEF Next

\* A peer that keeps its session has live pointers.
LEMMA SessionImplies == TypeOK /\ SessionInv => PointersLive
  <1>. SUFFICES ASSUME TypeOK, SessionInv, ui = "loop", NEW p \in Peers, peer[p].state # "gone"
                PROVE  /\ PointerHeld(p) \/ winMap[p] # "absent" => HasSession(p)
                       /\ sessMap[p] # "null" /\ (winMap[p] # "absent" => p \in winAlive)
    BY DEF PointersLive
  <1>1. PeerInv(p)
    BY DEF SessionInv
  <1>2. PointerHeld(p) => HasSession(p)
    BY <1>1 DEF PointerHeld, PeerInv, UiOk, CallbackOk
  <1>3. sessMap[p] # "null"
    BY <1>1 DEF PeerInv, MapOk, HasSession
  <1>. QED BY <1>1, <1>2, <1>3 DEF PeerInv, MapOk

\* However the callbacks of any number of pool threads, the messages and the
\* user's choices interleave, a peer that is not lost keeps the Session that
\* callbacks, messages and handlers point to, and its window is alive: only
\* LostSession can leave a dead or a null pointer behind.
THEOREM PointersStayLive == Spec => []PointersLive
  <1>1. Spec => []TypeOK
    BY InitType, StepType, PTL DEF Spec
  <1>2. Spec => []SessionInv
    BY <1>1, InitSession, SessionStep, PTL DEF Spec
  <1>. QED BY <1>1, <1>2, SessionImplies, PTL
=============================================================================
