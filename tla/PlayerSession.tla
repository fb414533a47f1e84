--------------------------- MODULE PlayerSession ---------------------------
(***************************************************************************)
(* The client's view of who is online and whom it is connected with: the   *)
(* maps g_umHashToSession and g_umHashToWin, which the callbacks of the    *)
(* thread pool and the UI thread change without a lock, and the window     *)
(* messages by which the callbacks hand pointers to the UI thread.  Each   *)
(* count(), operator[], insert() and erase() is a step of its own, so what *)
(* a callback has checked may be gone when it is used; operator[] of a key *)
(* that is gone inserts the key again with a null pointer.  The server,    *)
(* which is not part of the repository, relays what the peers send in      *)
(* order over one connection.                                              *)
(***************************************************************************)
EXTENDS Integers, Sequences, FiniteSets, SequencesExt

CONSTANTS
  Peers,       \* the other clients, by app; hash_value( app ) is their key
  NumThreads,  \* callbacks the pool runs at the same time
  MaxPush,     \* bound: data packets a peer sends before Fin
  MayExit      \* may the user close the main window?

ASSUME PlayerSessionAssumption ==
  /\ IsFiniteSet(Peers)
  /\ Peers \cap {"absent", "null", "dead"} = {}
  /\ NumThreads \in Nat \ {0} /\ MaxPush \in Nat /\ MayExit \in BOOLEAN

VARIABLES
  peer,        \* external: what each peer and the server know of it
  net,         \* packets from the server, in order
  work,        \* work items submitted and not started, in order
  running,     \* callbacks that have started, with their place in the code
  sessMap,     \* g_umHashToSession: a peer's Session, "null" or "absent"
  sessAlive,   \* peers whose Session object is allocated
  winMap,      \* g_umHashToWin: a peer's RtmpWindow, "null" or "absent"
  winAlive,    \* peers whose RtmpWindow object is constructed
  msgs,        \* the message queue of the main window
  dialogs,     \* handlers that have not returned, innermost last
  menu,        \* entries of the Online Users menu
  encoder,     \* the encoder thread: "off", "on", "done"
  ui,          \* WM_DESTROY: "loop", "stopped", "sessions", "windows", "quit"
  fault        \* the assertion that failed or the dead object that was used

peerVars == <<peer, net>>
poolVars == <<work, running>>
mapVars == <<sessMap, sessAlive, winMap, winAlive>>
uiVars == <<msgs, dialogs, menu, encoder, ui>>
vars == <<peer, net, work, running, mapVars, uiVars, fault>>

Packet(type, apps, n) == [type |-> type, apps |-> apps, n |-> n]

\* The keys of g_umHashToWin: "dead" is the hash a deleted Session yields.
Keys == Peers \cup {"dead"}

Init ==
  /\ \E online \in SUBSET Peers : \E apps \in SetToSeqs(online) :
       /\ peer = [p \in Peers |->
                    [state |-> IF p \in online THEN "on" ELSE "off",
                     asks |-> FALSE, invited |-> "no", link |-> FALSE, sent |-> 0]]
       /\ net = IF online = {} THEN <<>>
                ELSE <<Packet("OnlineSessions", apps, 0)>>
  /\ work = <<>> /\ running = {}
  /\ sessMap = [p \in Peers |-> "absent"] /\ sessAlive = {}
  /\ winMap = [k \in Keys |-> "absent"] /\ winAlive = {}
  /\ msgs = <<>> /\ dialogs = <<>> /\ menu = {}
  /\ encoder = "off" /\ ui = "loop" /\ fault = "none"
-----------------------------------------------------------------------------
(* The server and the peers (external).                                    *)

Send(type, p, n) == net' = Append(net, Packet(type, <<p>>, n))

PeerOnline(p) ==
  /\ peer[p].state = "off"
  /\ peer' = [peer EXCEPT ![p].state = "on"]
  /\ Send("NewSession", p, 0)

\* The peer's user asks for a connection, once.
PeerBuildConnect(p) ==
  /\ peer[p].state = "on" /\ ~peer[p].asks
  /\ peer' = [peer EXCEPT ![p].asks = TRUE]
  /\ Send("BuildConnect", p, 0)

\* The peer's user agrees to our BuildConnect.
PeerAccept(p) ==
  /\ peer[p].state = "on" /\ peer[p].invited = "yes"
  /\ peer' = [peer EXCEPT ![p].invited = "accepted", ![p].link = TRUE]
  /\ Send("Accept", p, 0)

\* Once connected the peer streams, and ends its stream with Fin.
PeerStream(p) ==
  /\ peer[p].state = "on" /\ peer[p].link /\ peer[p].sent <= MaxPush
  /\ peer' = [peer EXCEPT ![p].sent = @ + 1]
  /\ Send(IF peer[p].sent = MaxPush THEN "Fin" ELSE "Push", p, peer[p].sent)

PeerLost(p) ==
  /\ peer[p].state = "on"
  /\ peer' = [peer EXCEPT ![p].state = "gone"]
  /\ Send("LostSession", p, 0)

Server ==
  /\ \E p \in Peers : PeerOnline(p) \/ PeerBuildConnect(p) \/ PeerAccept(p)
                        \/ PeerStream(p) \/ PeerLost(p)
  /\ UNCHANGED <<poolVars, mapVars, uiVars, fault>>
-----------------------------------------------------------------------------
(* The dispatcher thread and the pool.                                     *)

\* Whole packets: NaluReceive has the reads that cut them.  event_base_loopbreak
\* in WM_DESTROY ends the dispatcher's loop.
ReadCallback ==
  /\ ui = "loop" /\ net # <<>>
  /\ work' = Append(work, Head(net))
  /\ net' = Tail(net)
  /\ UNCHANGED <<peer, running, mapVars, uiVars, fault>>

StartCallback ==
  /\ work # <<>> /\ Cardinality(running) < NumThreads
  /\ running' = running \cup
       {[at |-> "start", ptr |-> "absent", found |-> FALSE, packet |-> Head(work)]}
  /\ work' = Tail(work)
  /\ UNCHANGED <<peerVars, mapVars, uiVars, fault>>

App(c) == Head(c.packet.apps)

Replace(c, d) == running' = (running \ {c}) \cup {d}

Goto(c, place) == Replace(c, [c EXCEPT !.at = place])

Return(c) == running' = running \ {c}

PostMessage(type, p, ptr) ==
  msgs' = Append(msgs, [type |-> type, app |-> p, ptr |-> ptr])

Fault(what) == fault' = what /\ UNCHANGED <<running, mapVars, uiVars>>

\* m[k] of std::unordered_map inserts a key that is not there.
AtKey(m, k) == IF m[k] = "absent" THEN "null" ELSE m[k]

\* A callback's step that finds a key missing, or goes on.
Check(c, type, known, place, what) ==
  /\ c.packet.type \in type /\ c.at = "start"
  /\ IF known
       THEN Goto(c, place) /\ UNCHANGED <<mapVars, uiVars, fault>>
       ELSE Fault(what)

\* OnlineSessions and NewSession: one turn of the loop.
CheckNewSession(c) ==
  Check(c, {"OnlineSessions", "NewSession"}, sessMap[App(c)] = "absent", "insert",
        "session known")

\* insert() leaves a key alone that has come meanwhile.
InsertSession(c) ==
  /\ c.packet.type \in {"OnlineSessions", "NewSession"} /\ c.at = "insert"
  /\ sessMap' = [sessMap EXCEPT ![App(c)] = IF @ = "absent" THEN App(c) ELSE @]
  /\ sessAlive' = sessAlive \cup {App(c)}
  /\ Goto(c, "post")
  /\ UNCHANGED <<winMap, winAlive, uiVars, fault>>

NotifyNewUser(c) ==
  /\ c.packet.type \in {"OnlineSessions", "NewSession"} /\ c.at = "post"
  /\ PostMessage("NEW_ONLINEUSER", App(c), App(c))
  /\ IF Len(c.packet.apps) = 1
       THEN Return(c)
       ELSE Replace(c, [c EXCEPT !.at = "start", !.packet.apps = Tail(@)])
  /\ UNCHANGED <<mapVars, dialogs, menu, encoder, ui, fault>>

\* LostSession: the session goes, then the window, then the UI is told.
FindLostSession(c) ==
  /\ c.packet.type = "LostSession" /\ c.at = "start"
  /\ Goto(c, IF sessMap[App(c)] = "absent" THEN "find window" ELSE "session")
  /\ UNCHANGED <<mapVars, uiVars, fault>>

ReadLostSession(c) ==
  /\ c.packet.type = "LostSession" /\ c.at = "session"
  /\ IF AtKey(sessMap, App(c)) = "null"
       THEN Fault("null session")
       ELSE Goto(c, "erase session") /\ UNCHANGED <<mapVars, uiVars, fault>>

EraseSession(c) ==
  /\ c.packet.type = "LostSession" /\ c.at = "erase session"
  /\ sessMap' = [sessMap EXCEPT ![App(c)] = "absent"]
  /\ Goto(c, "delete session")
  /\ UNCHANGED <<sessAlive, winMap, winAlive, uiVars, fault>>

\* Mutant: without a window the callback returns at once.
DeleteSession_NoWindow(c) ==
  /\ c.packet.type = "LostSession" /\ c.at = "delete session"
  /\ sessAlive' = sessAlive \ {App(c)}
  /\ IF winMap[App(c)] = "absent" THEN Return(c)
       ELSE Replace(c, [c EXCEPT !.at = "find window", !.found = TRUE])
  /\ UNCHANGED <<sessMap, winMap, winAlive, uiVars, fault>>

DeleteSession(c) ==
  /\ c.packet.type = "LostSession" /\ c.at = "delete session"
  /\ IF App(c) \notin sessAlive
       THEN Fault("dead session")
       ELSE /\ sessAlive' = sessAlive \ {App(c)}
            /\ Replace(c, [c EXCEPT !.at = "find window", !.found = TRUE])
            /\ UNCHANGED <<sessMap, winMap, winAlive, uiVars, fault>>

FindLostWindow(c) ==
  /\ c.packet.type = "LostSession" /\ c.at = "find window"
  /\ Goto(c, IF winMap[App(c)] = "absent" THEN "post" ELSE "window")
  /\ UNCHANGED <<mapVars, uiVars, fault>>

ReadLostWindow(c) ==
  /\ c.packet.type = "LostSession" /\ c.at = "window"
  /\ IF AtKey(winMap, App(c)) = "null"
       THEN Fault("null window")
       ELSE Goto(c, "erase window") /\ UNCHANGED <<mapVars, uiVars, fault>>

EraseWindow(c) ==
  /\ c.packet.type = "LostSession" /\ c.at = "erase window"
  /\ winMap' = [winMap EXCEPT ![App(c)] = "absent"]
  /\ Goto(c, "delete window")
  /\ UNCHANGED <<sessMap, sessAlive, winAlive, uiVars, fault>>

\* Mutant: the window of a lost peer is taken off the map and kept.
DeleteWindow_Kept(c) ==
  /\ c.packet.type = "LostSession" /\ c.at = "delete window"
  /\ Replace(c, [c EXCEPT !.at = "post", !.found = TRUE])
  /\ UNCHANGED <<mapVars, uiVars, fault>>

\* ~RtmpWindow waits for the decoder thread, which always ends once lost.
DeleteWindow(c) ==
  /\ c.packet.type = "LostSession" /\ c.at = "delete window"
  /\ IF App(c) \notin winAlive
       THEN Fault("dead window")
       ELSE /\ winAlive' = winAlive \ {App(c)}
            /\ Replace(c, [c EXCEPT !.at = "post", !.found = TRUE])
            /\ UNCHANGED <<sessMap, sessAlive, winMap, uiVars, fault>>

NotifyLostUser(c) ==
  /\ c.packet.type = "LostSession" /\ c.at = "post"
  /\ IF ~c.found
       THEN Fault("lost unknown")
       ELSE /\ PostMessage("DEL_ONLINEUSER", App(c), App(c))
            /\ Return(c)
            /\ UNCHANGED <<mapVars, dialogs, menu, encoder, ui, fault>>

\* Push and Fin: the window is looked up, then the packet pushed into it.
CheckWindow(c) ==
  Check(c, {"Push", "Fin"}, winMap[App(c)] # "absent", "window", "push without window")

FindWindow(c) ==
  /\ c.packet.type \in {"Push", "Fin"} /\ c.at = "window"
  /\ winMap' = [winMap EXCEPT ![App(c)] = AtKey(winMap, App(c))]
  /\ Replace(c, [c EXCEPT !.at = "push", !.ptr = AtKey(winMap, App(c))])
  /\ UNCHANGED <<sessMap, sessAlive, winAlive, uiVars, fault>>

PushToWindow(c) ==
  /\ c.packet.type \in {"Push", "Fin"} /\ c.at = "push"
  /\ CASE c.ptr = "null" -> Fault("null window")
       [] c.ptr # "null" /\ App(c) \notin winAlive -> Fault("dead window")
       [] OTHER -> Return(c) /\ UNCHANGED <<mapVars, uiVars, fault>>

\* Mutant: without the assertion a key that is not there is inserted.
CheckSession_None(c) ==
  Check(c, {"BuildConnect", "Accept"}, TRUE, "session", "connect unknown")

\* BuildConnect and Accept: the Session pointer is looked up and posted.
CheckSession(c) ==
  Check(c, {"BuildConnect", "Accept"}, sessMap[App(c)] # "absent", "session",
        "connect unknown")

FindSession(c) ==
  /\ c.packet.type \in {"BuildConnect", "Accept"} /\ c.at = "session"
  /\ sessMap' = [sessMap EXCEPT ![App(c)] = AtKey(sessMap, App(c))]
  /\ Replace(c, [c EXCEPT !.at = "post", !.ptr = AtKey(sessMap, App(c))])
  /\ UNCHANGED <<sessAlive, winMap, winAlive, uiVars, fault>>

NotifyConnection(c) ==
  /\ c.packet.type \in {"BuildConnect", "Accept"} /\ c.at = "post"
  /\ PostMessage(c.packet.type, App(c), c.ptr)
  /\ Return(c)
  /\ UNCHANGED <<mapVars, dialogs, menu, encoder, ui, fault>>

MyWorkCallback(c) ==
  /\ \/ CheckNewSession(c) \/ InsertSession(c) \/ NotifyNewUser(c)
     \/ FindLostSession(c) \/ ReadLostSession(c) \/ EraseSession(c) \/ DeleteSession(c)
     \/ FindLostWindow(c) \/ ReadLostWindow(c) \/ EraseWindow(c) \/ DeleteWindow(c)
     \/ NotifyLostUser(c)
     \/ CheckWindow(c) \/ FindWindow(c) \/ PushToWindow(c)
     \/ CheckSession(c) \/ FindSession(c) \/ NotifyConnection(c)
  /\ UNCHANGED <<peerVars, work>>
-----------------------------------------------------------------------------
(* The UI thread.  A modal dialog runs a message loop of its own, so posted *)
(* messages are handled under it; the main window is disabled meanwhile.   *)

Innermost == IF dialogs = <<>> THEN "none" ELSE Last(dialogs).type

\* Mutant: messages wait until the user has answered.
Pumping_NoDialog == ui = "loop" /\ dialogs = <<>>

\* WM_NEW_CONNECTION past its dialog is not a message loop.
Pumping == ui = "loop" /\ Innermost \in {"none", "Request", "Confirm"}

Receive(type) == Pumping /\ msgs # <<>> /\ Head(msgs).type = type

Who == Head(msgs).app

HandleNewOnlineUser ==
  /\ Receive("NEW_ONLINEUSER")
  /\ IF Who \notin sessAlive
       THEN Fault("dead session")
       ELSE /\ menu' = menu \cup {Who}
            /\ msgs' = Tail(msgs)
            /\ UNCHANGED <<running, mapVars, dialogs, encoder, ui, fault>>
  /\ UNCHANGED <<peerVars, work>>

\* Mutant: the entry stays in the menu.
HandleDelOnlineUser_Kept ==
  /\ Receive("DEL_ONLINEUSER")
  /\ msgs' = Tail(msgs)
  /\ UNCHANGED <<peerVars, poolVars, mapVars, dialogs, menu, encoder, ui, fault>>

HandleDelOnlineUser ==
  /\ Receive("DEL_ONLINEUSER")
  /\ menu' = menu \ {Who}
  /\ msgs' = Tail(msgs)
  /\ UNCHANGED <<peerVars, poolVars, mapVars, dialogs, encoder, ui, fault>>

\* WM_NEW_CONNECTION: with lParam 0 the user is asked first, about whatever
\* menu entry the menuid of a deleted Session names; with a timebase the
\* window is created at once.
HandleNewConnection ==
  /\ \E type \in {"BuildConnect", "Accept"} :
       /\ Receive(type)
       /\ IF Head(msgs).ptr = "null"
            THEN Fault("null session")
            ELSE /\ dialogs' = Append(dialogs,
                      [type |-> IF type = "Accept" THEN "create" ELSE "Request", app |-> Who])
                 /\ msgs' = Tail(msgs)
                 /\ UNCHANGED <<running, mapVars, menu, encoder, ui, fault>>
  /\ UNCHANGED <<peerVars, work>>

Top == Last(dialogs)

\* The innermost handler goes on from one place in the code to the next.
Resume(place, next) ==
  /\ ui = "loop" /\ Innermost = place
  /\ dialogs' = Append(Front(dialogs), [Top EXCEPT !.type = next])

\* IDOK in the request dialog: Accept is sent before the window exists.
RequestOk ==
  /\ ui = "loop" /\ Innermost = "Request"
  /\ IF Top.app \notin sessAlive
       THEN Fault("dead session") /\ UNCHANGED peer
       ELSE /\ Resume("Request", "create")
            /\ peer' = [peer EXCEPT ![Top.app].link = TRUE]
            /\ UNCHANGED <<running, mapVars, msgs, menu, encoder, ui, fault>>
  /\ UNCHANGED <<net, work>>

CreateRtmpWindow ==
  /\ ui = "loop" /\ Innermost = "create"
  /\ IF Top.app \notin sessAlive
       THEN Fault("dead session")
       ELSE /\ Resume("create", "check")
            /\ winAlive' = winAlive \cup {Top.app}
            /\ UNCHANGED <<running, sessMap, sessAlive, winMap, msgs, menu, encoder, ui, fault>>
  /\ UNCHANGED <<peerVars, work>>

\* s->hash: LostSession may delete s just after the read, or just before it.
HashOf(p) == IF p \in sessAlive THEN {p} ELSE {p, "dead"}

CheckNewWindow ==
  /\ ui = "loop" /\ Innermost = "check"
  /\ \E k \in HashOf(Top.app) :
       IF winMap[k] # "absent"
         THEN Fault("window known")
         ELSE Resume("check", "insert")
                /\ UNCHANGED <<running, mapVars, msgs, menu, encoder, ui, fault>>
  /\ UNCHANGED <<peerVars, work>>

\* s->hash and s->win: the pointer read of a deleted Session is no window.
InsertWindow ==
  /\ ui = "loop" /\ Innermost = "insert"
  /\ \/ /\ Resume("insert", "size")
        /\ \E k \in HashOf(Top.app) : winMap' = [winMap EXCEPT ![k] = Top.app]
        /\ UNCHANGED <<running, sessMap, sessAlive, winAlive, msgs, menu, encoder, ui, fault>>
     \/ Top.app \notin sessAlive /\ Fault("dead session")
  /\ UNCHANGED <<peerVars, work>>

\* WM_SIZE moves every window of the map; the first connection starts the
\* encoder thread.
FinishConnection ==
  /\ ui = "loop" /\ Innermost = "size"
  /\ IF \E k \in Keys : winMap[k] = "null"
       THEN Fault("null window")
       ELSE /\ dialogs' = Front(dialogs)
            /\ encoder' = IF encoder = "off" THEN "on" ELSE encoder
            /\ UNCHANGED <<running, mapVars, msgs, menu, ui, fault>>
  /\ UNCHANGED <<peerVars, work>>

\* The user chooses a peer from the menu; GetMenuString has copied its name.
ChooseUser(p) ==
  /\ ui = "loop" /\ dialogs = <<>> /\ p \in menu /\ peer[p].invited = "no"
  /\ dialogs' = <<[type |-> "Confirm", app |-> p]>>
  /\ UNCHANGED <<peerVars, poolVars, mapVars, msgs, menu, encoder, ui, fault>>

ConfirmOk ==
  /\ ui = "loop" /\ Innermost = "Confirm"
  /\ peer' = [peer EXCEPT ![Top.app].invited = "yes"]
  /\ dialogs' = Front(dialogs)
  /\ UNCHANGED <<net, poolVars, mapVars, msgs, menu, encoder, ui, fault>>

DialogCancel ==
  /\ ui = "loop" /\ Innermost \in {"Request", "Confirm"}
  /\ dialogs' = Front(dialogs)
  /\ UNCHANGED <<peerVars, poolVars, mapVars, msgs, menu, encoder, ui, fault>>

\* WM_DESTROY: the dispatcher's loop is broken, the handles are closed.
Destroy ==
  /\ MayExit /\ ui = "loop" /\ dialogs = <<>>
  /\ ui' = "stopped"
  /\ UNCHANGED <<peerVars, poolVars, mapVars, msgs, dialogs, menu, encoder, fault>>

DeleteSessions ==
  /\ ui = "stopped"
  /\ sessAlive' = sessAlive \ Range(sessMap)
  /\ ui' = "sessions"
  /\ UNCHANGED <<peerVars, poolVars, sessMap, winMap, winAlive, msgs, dialogs, menu, encoder, fault>>

DeleteWindows ==
  /\ ui = "sessions"
  /\ sessMap' = [p \in Peers |-> "absent"]
  /\ winAlive' = winAlive \ Range(winMap)
  /\ ui' = "windows"
  /\ UNCHANGED <<peerVars, poolVars, sessAlive, winMap, msgs, dialogs, menu, encoder, fault>>

Quit ==
  /\ ui = "windows"
  /\ winMap' = [k \in Keys |-> "absent"]
  /\ ui' = "quit"
  /\ UNCHANGED <<peerVars, poolVars, sessMap, sessAlive, winAlive, msgs, dialogs, menu, encoder, fault>>

\* The encoder thread comes to the end of its file and sends Fin.
EncoderEnds ==
  /\ encoder = "on"
  /\ encoder' = "done"
  /\ UNCHANGED <<peerVars, poolVars, mapVars, msgs, dialogs, menu, ui, fault>>
-----------------------------------------------------------------------------
Messages ==
  \/ HandleNewOnlineUser \/ HandleDelOnlineUser \/ HandleNewConnection
  \/ CreateRtmpWindow \/ CheckNewWindow \/ InsertWindow \/ FinishConnection

User ==
  \/ RequestOk \/ ConfirmOk \/ DialogCancel
  \/ \E p \in Peers : ChooseUser(p)
  \/ Destroy

Shutdown == DeleteSessions \/ DeleteWindows \/ Quit

\* A failed assertion ends the program, and in the debug build, which is the
\* one that streams, so does the use of an object its heap has overwritten.
Next ==
  /\ fault = "none" /\ ui # "quit"
  /\ \/ Server \/ ReadCallback \/ StartCallback
     \/ \E c \in running : MyWorkCallback(c)
     \/ Messages \/ User \/ Shutdown \/ EncoderEnds

Spec == Init /\ [][Next]_vars

\* The pool and the UI thread are scheduled; nothing is assumed of the users,
\* the peers and the server.  libevent calls ReadCallback once for what has
\* come, and the callback reads one packet, so the ones behind it may stay.
Alive(A) == fault = "none" /\ ui # "quit" /\ A

FairSpec ==
  /\ Spec
  /\ WF_vars(Alive(StartCallback))
  /\ WF_vars(Alive(\E c \in running : MyWorkCallback(c)))
  /\ WF_vars(Alive(Messages))
-----------------------------------------------------------------------------
(* Properties.                                                             *)

PacketTypes ==
  {"OnlineSessions", "NewSession", "LostSession", "BuildConnect", "Accept", "Push", "Fin"}

PeerRecords ==
  [state : {"off", "on", "gone"}, asks : BOOLEAN, invited : {"no", "yes", "accepted"},
   link : BOOLEAN, sent : 0 .. MaxPush + 1]

Packets == [type : PacketTypes, apps : Seq(Peers) \ {<<>>}, n : 0 .. MaxPush]

Places ==
  {"start", "insert", "post", "session", "erase session", "delete session",
   "find window", "window", "erase window", "delete window", "push"}

Callbacks ==
  [at : Places, ptr : Peers \cup {"absent", "null"}, found : BOOLEAN, packet : Packets]

\* The type invariant of the maps, the queues and the UI thread of main.cpp.
TypeOK ==
  /\ peer \in [Peers -> PeerRecords]
  /\ net \in Seq(Packets) /\ work \in Seq(Packets)
  /\ \A c \in running : c \in Callbacks
  /\ sessMap \in [Peers -> Peers \cup {"absent", "null"}] /\ sessAlive \subseteq Peers
  /\ winMap \in [Keys -> Peers \cup {"absent", "null"}] /\ winAlive \subseteq Peers
  /\ menu \subseteq Peers
  /\ msgs \in Seq([type : {"NEW_ONLINEUSER", "DEL_ONLINEUSER", "BuildConnect", "Accept"},
                   app : Peers, ptr : Peers \cup {"absent", "null"}])
  /\ dialogs \in Seq([type : {"Request", "Confirm", "create", "check", "insert", "size"},
                      app : Peers])
  /\ encoder \in {"off", "on", "done"}
  /\ ui \in {"loop", "stopped", "sessions", "windows", "quit"}

\* Is there a callback of one of these packets that has not finished?
Busy(types, p) ==
  \E c \in running : c.packet.type \in types /\ p \in Range(c.packet.apps)

Posted(type, p) == \E m \in Range(msgs) : m.type = type /\ m.app = p

HasSession(p) == sessMap[p] = p /\ p \in sessAlive

\* Does a callback, a message or a handler hold the Session pointer of p?
PointerHeld(p) ==
  \/ \E c \in running : App(c) = p /\ c.ptr # "absent"
                          /\ c.packet.type \in {"BuildConnect", "Accept"}
  \/ \E m \in Range(msgs) : m.app = p
  \/ \E d \in Range(dialogs) : d.app = p

\* Until a peer is lost no order of callbacks and messages harms it: whoever
\* holds its Session pointer holds the live session of the map, never a null
\* pointer that operator[] has inserted, and its window is alive and has a
\* session.
PointersLive ==
  ui = "loop" => \A p \in Peers : peer[p].state # "gone" =>
    /\ PointerHeld(p) \/ winMap[p] # "absent" => HasSession(p)
    /\ sessMap[p] # "null" /\ (winMap[p] # "absent" => p \in winAlive)

\* The Online Users menu follows g_umHashToSession through the messages of
\* any number of callbacks: when nothing about a peer is on its way, the
\* menu lists it only if the map holds its live session, and lists every
\* session of a peer that is not lost.
MenuShowsSessions ==
  ui = "loop" => \A p \in Peers :
    ~(\/ Busy({"OnlineSessions", "NewSession", "LostSession"}, p)
      \/ Posted("NEW_ONLINEUSER", p) \/ Posted("DEL_ONLINEUSER", p))
    => /\ p \in menu => HasSession(p)
       /\ sessMap[p] # "absent" /\ peer[p].state # "gone" => p \in menu

\* The assertions of MyWorkCallback about sessions: no session is inserted
\* that is known, none is lost or connected before it is known.
CallbackAsserts ==
  fault \notin {"session known", "lost unknown", "connect unknown"}

\* An Accept that was posted leads to a window, even while the user leaves a
\* dialog open, unless the program stops.
AcceptConnects ==
  \A p \in Peers :
    Posted("Accept", p) ~> (p \in winAlive \/ fault # "none" \/ ui # "loop")

\* Is the LostSession of p read, and its callback not begun?
LostWaiting(p) ==
  \/ Packet("LostSession", <<p>>, 0) \in Range(work)
  \/ \E c \in running : c.at = "start" /\ c.packet = Packet("LostSession", <<p>>, 0)

\* A peer that has a session when its LostSession is about to be handled
\* disappears from the menu for good, whatever other callbacks of it are
\* still running or waiting.
LostLeavesMenu ==
  \A p \in Peers :
    (LostWaiting(p) /\ sessMap[p] # "absent")
      ~> ([](p \notin menu) \/ fault # "none" \/ ui # "loop")

\* A window that is in the map when the LostSession of its peer is about to
\* be handled is deleted, with packets for it still being pushed.
LostClosesWindow ==
  \A p \in Peers :
    (LostWaiting(p) /\ winMap[p] # "absent")
      ~> (p \notin winAlive \/ fault # "none" \/ ui # "loop")
=============================================================================
