------------------------------- MODULE Swarm --------------------------------
(***************************************************************************)
(* The connections of one torrent: peer_worker dials discovered peers and  *)
(* sweeps the disconnected ones, connection_worker carries the requests    *)
(* through connect and handshake, tcp_listener attaches incoming peers,    *)
(* every connection has a thread that runs the piece callback, and         *)
(* remove_torrent takes it all down.                                       *)
(*                                                                         *)
(* Connections are shared_ptr objects: the one who drops the last          *)
(* reference runs ~PeerConnection, which joins the connection's thread.    *)
(* Who drops it, and which lock it holds then, is what this module is      *)
(* about.  One action is one critical section of TorrentManager::mutex_,   *)
(* or what a thread does between two of them.                              *)
(***************************************************************************)
EXTENDS Integers, FiniteSets

CONSTANTS
    Addrs,      \* peer addresses
    Conns,      \* bound: connection objects alive at the same time
    MaxPeers    \* the peer cap, 50 in the code

ASSUME SwarmAssumption ==
    /\ MaxPeers \in Nat
    /\ Addrs # {}
    /\ Conns \cap {"free", "peer_worker", "tcp_listener", "remover", "others"} = {}

Actors == Conns \cup {"peer_worker", "tcp_listener", "remover"}

VARIABLES
    conn,      \* conn[c]: the PeerConnection objects, see Unused
    held,      \* held[a]: a's copy of peers: peers_snapshot of the callback in
               \* a connection's thread, peers_copy of peer_worker
    pending,   \* pending_connections
    mutex,     \* TorrentManager::mutex_: its owner or "free"; "others" are the
               \* API and the threads of other torrents
    pw,        \* peer_worker: pc and the discovered peers still to dial
    paused,    \* Torrent::paused
    tl,        \* tcp_listener: accepting, or locking mutex_ a second time
    dying,     \* dying[a]: objects whose destructor a is running, in disconnect()
    phase,     \* live, removed, destroying
    crashed    \* the process died: a thread joined itself, or SIGPIPE

vars == <<conn, held, pending, mutex, pw, paused, tl, dying, phase, crashed>>

\* place: the list that owns the object, or the request's progress.  broken:
\* the socket is dead, so a blocked recv returns.
Unused == [addr |-> CHOOSE a \in Addrs : TRUE, incoming |-> FALSE, place |-> "unused",
           connected |-> FALSE, broken |-> FALSE, thread |-> "none"]

Peers == {c \in Conns : conn[c].place = "peers"}
Active == {c \in Conns : conn[c].place \in {"new", "connecting", "handshaking"}}
InFlight == {c \in Conns : conn[c].place = "queue"} \cup Active
Free == {c \in Conns : conn[c].place = "unused"}

Init ==
    /\ conn = [c \in Conns |-> Unused]
    /\ held = [a \in Actors |-> {}]
    /\ pending = {}
    /\ mutex = "free"
    /\ pw = [pc |-> "top", todo |-> {}]
    /\ paused = FALSE
    /\ tl = "accepting"
    /\ dying = [a \in Actors |-> {}]
    /\ phase = "live"
    /\ crashed = FALSE

\* The next critical section of mutex_ can begin.
CanLock == ~crashed /\ mutex = "free"

\* Mutant: the snapshot of a callback holds plain pointers.
HeldByWorker(c, others) == "peer_worker" \in others /\ c \in held["peer_worker"]

\* One of the others owns a reference to c in its copy of peers.
Held(c, others) == \E a \in others : c \in held[a]

\* Mutant: the callback captures its connection, so the count never drops to 0.
NoLastRefs(a) == {}

\* The objects that a's copy of peers is the last to own.
LastRefs(a) == {c \in held[a] : conn[c].place = "released" /\ ~Held(c, Actors \ {a})}

\* disconnect() in the destructor: clear connected_, then join.
Disconnect(cs) ==
    [c \in Conns |-> IF c \in cs THEN [conn[c] EXCEPT !.connected = FALSE] ELSE conn[c]]

\* A send on a dead socket that returns: send_message clears connected_.
SendsFail(cs) ==
    conn' = [c \in Conns |-> IF c \in cs
                             THEN [conn[c] EXCEPT !.connected = FALSE, !.broken = TRUE]
                             ELSE conn[c]]

\* It may also raise SIGPIPE: send() gets no flags and nobody handles the signal.
Killed(cs) == (\E c \in cs : conn[c].broken) /\ crashed' = TRUE /\ UNCHANGED conn

\* thread_.join() returns in actor a; the object is gone.
Join(a, c) ==
    /\ ~crashed
    /\ c \in dying[a]
    /\ conn[c].thread = "exited"
    /\ conn' = [conn EXCEPT ![c] = Unused]
    /\ dying' = [dying EXCEPT ![a] = @ \ {c}]
    /\ UNCHANGED <<held, pending, mutex, pw, paused, tl, phase, crashed>>

-----------------------------------------------------------------------------
(* peer_worker, section 1 and the sends of section 2.  It passes top, copy,  *)
(* dial, sweep and unwind, the end of the block that owns peers_copy.        *)

\* Find the torrent, look at stopping and at paused.
PW_Top ==
    /\ CanLock
    /\ pw.pc = "top"
    /\ phase = "live" => ~paused
    /\ pw' = [pw EXCEPT !.pc = IF phase = "live" THEN "copy" ELSE "exited"]
    /\ UNCHANGED <<conn, held, pending, mutex, paused, tl, dying, phase, crashed>>

\* The copies of discovered_peers (any addresses) and of peers: the cap is
\* tested on the copy, once for all.
PW_Copy ==
    LET copy == IF phase = "live" THEN Peers ELSE {} IN
    /\ CanLock
    /\ pw.pc = "copy"
    /\ \E todo \in SUBSET Addrs :
         pw' = [pc |-> "dial", todo |-> IF Cardinality(copy) >= MaxPeers THEN {} ELSE todo]
    /\ held' = [held EXCEPT !["peer_worker"] = copy]
    /\ UNCHANGED <<conn, pending, mutex, paused, tl, dying, phase, crashed>>

\* Mutant: the key is inserted without looking.
EnqueueUnchecked(a, c) ==
    /\ pending' = pending \cup {a}
    /\ conn' = [conn EXCEPT ![c] = [Unused EXCEPT !.addr = a, !.place = "queue"]]

\* A key that is already pending destroys the new object at once.
Enqueue(a, c) ==
    IF a \in pending
    THEN UNCHANGED <<pending, conn>>
    ELSE /\ pending' = pending \cup {a}
         /\ conn' = [conn EXCEPT ![c] = [Unused EXCEPT !.addr = a, !.place = "queue"]]

PW_Dial(a, c) ==
    /\ ~crashed
    /\ pw.pc = "dial"
    /\ a \in pw.todo
    /\ c \in Free
    /\ Enqueue(a, c)
    /\ pw' = [pw EXCEPT !.todo = @ \ {a}]
    /\ UNCHANGED <<held, mutex, paused, tl, dying, phase, crashed>>

Swept == {c \in Peers : ~conn[c].connected}

\* Erase the disconnected peers, under mutex_; nothing when the torrent has left
\* the map.  (Dialling ends early when the model is out of connection objects.)
PW_Sweep ==
    LET swept == IF phase = "live" THEN Swept ELSE {} IN
    /\ CanLock
    /\ pw.pc = "dial"
    /\ pw.todo = {} \/ Free = {}
    /\ conn' = [c \in Conns |-> IF c \in swept THEN [conn[c] EXCEPT !.place = "released"]
                                              ELSE conn[c]]
    /\ dying' = [dying EXCEPT !["peer_worker"] = {c \in swept : ~Held(c, Actors)}]
    /\ mutex' = "peer_worker"
    /\ pw' = [pc |-> "sweep", todo |-> {}]
    /\ UNCHANGED <<held, pending, paused, tl, phase, crashed>>

\* The erase is done: unlock, and destroy peers_copy.
PW_Swept ==
    /\ ~crashed
    /\ pw.pc = "sweep"
    /\ dying["peer_worker"] = {}
    /\ mutex' = "free"
    /\ held' = [held EXCEPT !["peer_worker"] = {}]
    /\ dying' = [dying EXCEPT !["peer_worker"] = LastRefs("peer_worker")]
    /\ pw' = [pw EXCEPT !.pc = "unwind"]
    /\ UNCHANGED <<conn, pending, paused, tl, phase, crashed>>

Connected(cs) == {c \in cs : conn[c].connected}

\* peers_copy is gone; lock mutex_ for the download part.
PW_Download ==
    /\ CanLock
    /\ pw.pc = "unwind"
    /\ dying["peer_worker"] = {}
    /\ IF phase = "live"
       THEN pw' = [pw EXCEPT !.pc = "send"] /\ mutex' = "peer_worker"
       ELSE pw' = [pw EXCEPT !.pc = "exited"] /\ UNCHANGED mutex
    /\ UNCHANGED <<conn, held, pending, paused, tl, dying, phase, crashed>>

\* Requests and INTERESTED went out under mutex_; any of the sends may have
\* failed.  They block while a peer does not read, maybe for ever.
PW_Sent ==
    /\ ~crashed
    /\ pw.pc = "send"
    /\ \/ /\ \E cs \in SUBSET Connected(Peers) : SendsFail(cs)
          /\ pw' = [pw EXCEPT !.pc = "top"]
          /\ mutex' = "free"
          /\ UNCHANGED crashed
       \/ Killed(Connected(Peers)) /\ UNCHANGED <<pw, mutex>>
    /\ UNCHANGED <<held, pending, paused, tl, dying, phase>>

-----------------------------------------------------------------------------
(* connection_worker *)

CW_Drain ==
    /\ ~crashed
    /\ \E c \in Conns : conn[c].place = "queue"
    /\ conn' = [c \in Conns |-> IF conn[c].place = "queue"
                                THEN [conn[c] EXCEPT !.place = "new"] ELSE conn[c]]
    /\ UNCHANGED <<held, pending, mutex, pw, paused, tl, dying, phase, crashed>>

\* The cap is tested here, for the last time.
CW_Start(c) ==
    /\ CanLock
    /\ conn[c].place = "new"
    /\ phase = "live"
    /\ Cardinality(Peers) < MaxPeers
    /\ conn' = [conn EXCEPT ![c].place = "connecting"]
    /\ UNCHANGED <<held, pending, mutex, pw, paused, tl, dying, phase, crashed>>

\* check_connect_result and send_handshake succeed.
CW_Connected(c) ==
    /\ ~crashed
    /\ conn[c].place = "connecting"
    /\ conn' = [conn EXCEPT ![c].place = "handshaking"]
    /\ UNCHANGED <<held, pending, mutex, pw, paused, tl, dying, phase, crashed>>

\* Mutant: a failed request keeps its key.
ForgetKey(c) == UNCHANGED pending

ReleaseKey(c) == pending' = IF phase = "live" THEN pending \ {conn[c].addr} ELSE pending

\* Mutant: the 30 seconds do not cover the handshake.
MayDropEarly(c) == conn[c].place \in {"new", "connecting"}

MayDrop(c) == c \in Active

\* No socket, cap reached, torrent gone, connect or handshake failed or partial,
\* 30 seconds passed: the request ends and its object with it (no thread yet).
CW_Drop(c) ==
    /\ CanLock
    /\ MayDrop(c)
    /\ ReleaseKey(c)
    /\ conn' = [conn EXCEPT ![c] = Unused]
    /\ UNCHANGED <<held, mutex, pw, paused, tl, dying, phase, crashed>>

\* Mutant: start() is forgotten.
Unstarted(o) == [o EXCEPT !.place = "peers", !.connected = TRUE]

\* start() and peers.push_back.
Started(o) == [o EXCEPT !.place = "peers", !.connected = TRUE, !.thread = "recv"]

\* The handshake is complete: start() and peers.push_back, whatever the cap.
CW_Finish(c) ==
    /\ CanLock
    /\ conn[c].place = "handshaking"
    /\ ReleaseKey(c)
    /\ conn' = [conn EXCEPT ![c] = IF phase = "live"
                                             THEN Started(@) ELSE Unused]
    /\ UNCHANGED <<held, mutex, pw, paused, tl, dying, phase, crashed>>

CW_Step(c) == CW_Start(c) \/ CW_Connected(c) \/ CW_Drop(c) \/ CW_Finish(c)

-----------------------------------------------------------------------------
(* tcp_listener *)

TL_MayAttach(a) ==
    /\ tl = "accepting"
    /\ phase = "live"
    /\ Cardinality(Peers) < MaxPeers
    /\ a \notin pending
    /\ \A c \in Peers : conn[c].addr # a

TL_Attach(a, c) ==
    /\ CanLock
    /\ TL_MayAttach(a)
    /\ c \in Free
    /\ conn' = [conn EXCEPT ![c] = Started([Unused EXCEPT !.addr = a, !.incoming = TRUE])]
    /\ UNCHANGED <<held, pending, mutex, pw, paused, tl, dying, phase, crashed>>

\* respond_to_handshake fails: the handler locks mutex_, which its thread owns.
TL_AnswerFails(a) ==
    /\ CanLock
    /\ TL_MayAttach(a)
    /\ pending' = pending \cup {a}
    /\ mutex' = "tcp_listener"
    /\ tl' = "relocking"
    /\ UNCHANGED <<conn, held, pw, paused, dying, phase, crashed>>

-----------------------------------------------------------------------------
(* The thread of a connection: recv blocked in receive_message, wait at the  *)
(* callback's first lock, count at its second, announce while it sends HAVE, *)
(* unwind while its snapshot is destroyed.                                   *)

Goto(c, where) == conn' = [conn EXCEPT ![c].thread = where]

\* The loop test of run(): on to the next message, or out.
Loop(c) == Goto(c, IF conn[c].connected THEN "recv" ELSE "exited")

CT_Piece(c) ==
    /\ ~crashed
    /\ conn[c].thread = "recv"
    /\ ~conn[c].broken
    /\ Goto(c, "wait")
    /\ UNCHANGED <<held, pending, mutex, pw, paused, tl, dying, phase, crashed>>

\* Any other message is handled without mutex_; then the loop test.
CT_Message(c) ==
    /\ ~crashed
    /\ conn[c].thread = "recv"
    /\ ~conn[c].broken
    /\ ~conn[c].connected
    /\ Loop(c)
    /\ UNCHANGED <<held, pending, mutex, pw, paused, tl, dying, phase, crashed>>

\* Mutant: run() leaves its loop without clearing connected_.
LeaveRun(c) == Goto(c, "exited")

ConnectionLost(c) == conn' = [conn EXCEPT ![c].thread = "exited", ![c].connected = FALSE]

\* recv on a dead socket returns.
CT_Lost(c) ==
    /\ ~crashed
    /\ conn[c].thread = "recv"
    /\ conn[c].broken
    /\ ConnectionLost(c)
    /\ UNCHANGED <<held, pending, mutex, pw, paused, tl, dying, phase, crashed>>

\* The peer closes, resets or falls silent beyond the receive timeout.
CT_PeerCloses(c) ==
    /\ ~crashed
    /\ conn[c].thread # "none"
    /\ ~conn[c].broken
    /\ conn' = [conn EXCEPT ![c].broken = TRUE]
    /\ UNCHANGED <<held, pending, mutex, pw, paused, tl, dying, phase, crashed>>

\* The callback gets mutex_.  An outgoing connection's copies the peers and
\* releases it, an incoming one's keeps it to the end.
CT_Enter(c) ==
    /\ CanLock
    /\ conn[c].thread = "wait"
    /\ IF phase = "live"
       THEN /\ held' = [held EXCEPT ![c] = Peers]
            /\ Goto(c, IF conn[c].incoming THEN "announce" ELSE "count")
            /\ mutex' = IF conn[c].incoming THEN c ELSE mutex
       ELSE /\ Loop(c)
            /\ UNCHANGED <<held, mutex>>
    /\ UNCHANGED <<pending, pw, paused, tl, dying, phase, crashed>>

\* The second lock, for downloaded_bytes.
CT_Count(c) ==
    /\ CanLock
    /\ conn[c].thread = "count"
    /\ Goto(c, "announce")
    /\ UNCHANGED <<held, pending, mutex, pw, paused, tl, dying, phase, crashed>>

\* HAVE to the peers of the snapshot; a send may fail, or block as above.
CT_Announce(c) ==
    /\ ~crashed
    /\ conn[c].thread = "announce"
    /\ \/ (\E d \in Connected(held[c]) : SendsFail({d})) /\ UNCHANGED crashed
       \/ Killed(Connected(held[c]))
    /\ UNCHANGED <<held, pending, mutex, pw, paused, tl, dying, phase>>

\* The callback returns and its snapshot goes (of an incoming connection:
\* before mutex_ is released).  Dropping the last reference to the thread's own
\* connection makes the thread join itself.
CT_Return(c) ==
    LET last == LastRefs(c) IN
    /\ ~crashed
    /\ conn[c].thread \in {"count", "announce"}
    /\ IF c \in last
       THEN /\ crashed' = TRUE
            /\ UNCHANGED <<conn, held, dying>>
       ELSE /\ held' = [held EXCEPT ![c] = {}]
            /\ dying' = [dying EXCEPT ![c] = last]
            /\ conn' = [Disconnect(last) EXCEPT ![c].thread = "unwind"]
            /\ UNCHANGED crashed
    /\ UNCHANGED <<pending, mutex, pw, paused, tl, phase>>

CT_Unwound(c) ==
    /\ ~crashed
    /\ conn[c].thread = "unwind"
    /\ dying[c] = {}
    /\ Loop(c)
    /\ mutex' = IF mutex = c THEN "free" ELSE mutex
    /\ UNCHANGED <<held, pending, pw, paused, tl, dying, phase, crashed>>

CT_Callback(c) == CT_Enter(c) \/ CT_Count(c) \/ CT_Return(c) \/ CT_Unwound(c)

-----------------------------------------------------------------------------
(* remove_torrent and ~Torrent: the peers go one by one, without mutex_.   *)

RemoveTorrent ==
    /\ CanLock
    /\ phase = "live"
    /\ phase' = "removed"
    /\ UNCHANGED <<conn, held, pending, mutex, pw, paused, tl, dying, crashed>>

\* pause_torrent and resume_torrent.
SetPaused(p) ==
    /\ CanLock
    /\ phase = "live"
    /\ paused' = p
    /\ UNCHANGED <<conn, held, pending, mutex, pw, tl, dying, phase, crashed>>

\* peer_thread.join() returned.
RT_Destroy ==
    /\ ~crashed
    /\ phase = "removed"
    /\ pw.pc = "exited"
    /\ phase' = "destroying"
    /\ UNCHANGED <<conn, held, pending, mutex, pw, paused, tl, dying, crashed>>

RT_DropPeer(c) ==
    LET last == {c} \ {d \in Conns : Held(d, Actors)} IN
    /\ ~crashed
    /\ phase = "destroying"
    /\ dying["remover"] = {}
    /\ c \in Peers
    /\ conn' = [Disconnect(last) EXCEPT ![c].place = "released"]
    /\ dying' = [dying EXCEPT !["remover"] = last]
    /\ UNCHANGED <<held, pending, mutex, pw, paused, tl, phase, crashed>>

-----------------------------------------------------------------------------
(* The threads of other torrents also dial, sweep and send under mutex_.    *)

OthersLock ==
    /\ CanLock
    /\ mutex' = "others"
    /\ UNCHANGED <<conn, held, pending, pw, paused, tl, dying, phase, crashed>>

OthersUnlock ==
    /\ ~crashed
    /\ mutex = "others"
    /\ mutex' = "free"
    /\ UNCHANGED <<conn, held, pending, pw, paused, tl, dying, phase, crashed>>

-----------------------------------------------------------------------------
PeerWorker == PW_Top \/ PW_Copy \/ PW_Sweep \/ PW_Swept \/ PW_Download
              \/ \E a \in Addrs, c \in Conns : PW_Dial(a, c)

Joins(a) == \E c \in Conns : Join(a, c)

\* In send(), on a blocking socket without a time limit.
Sending(a) ==
    \/ a = "peer_worker" /\ pw.pc = "send"
    \/ a \in Conns /\ conn[a].thread = "announce"

ConnectionWorker == CW_Drain \/ \E c \in Conns : CW_Step(c)

Listener == \/ \E a \in Addrs, c \in Conns : TL_Attach(a, c)
            \/ \E a \in Addrs : TL_AnswerFails(a)

ConnThread(c) == CT_Piece(c) \/ CT_Message(c) \/ CT_Lost(c) \/ CT_PeerCloses(c)
                 \/ CT_Announce(c) \/ CT_Callback(c)

User == RemoveTorrent \/ (\E p \in BOOLEAN : SetPaused(p)) \/ RT_Destroy \/ \E c \in Conns : RT_DropPeer(c)

Next ==
    \/ PeerWorker \/ PW_Sent
    \/ ConnectionWorker
    \/ Listener
    \/ \E c \in Conns : ConnThread(c)
    \/ User
    \/ OthersLock \/ OthersUnlock
    \/ \E a \in Actors : Joins(a)

Spec == Init /\ [][Next]_vars

\* Every thread goes on that is not in send(); one that waits for mutex_ gets it
\* when it is free again and again.  connection_worker gives up on a request
\* after 30 seconds, if nothing else ends it.  A dead socket ends recv.  Nothing
\* is promised of peers, sends, the user, the other torrents, or messages on a
\* healthy connection.
Fairness ==
    /\ SF_vars(PeerWorker \/ Joins("peer_worker"))
    /\ WF_vars(CW_Drain)
    /\ \A c \in Conns : SF_vars(CW_Drop(c))
    /\ \A c \in Conns : SF_vars(~Sending(c) /\ (CT_Callback(c) \/ CT_Lost(c) \/ Joins(c)))
    /\ WF_vars(RT_Destroy \/ (\E c \in Conns : RT_DropPeer(c)) \/ Joins("remover"))

FairSpec == Spec /\ Fairness

-----------------------------------------------------------------------------
(* Properties *)

Places == {"unused", "queue", "new", "connecting", "handshaking", "peers", "released"}
ThreadPcs == {"none", "recv", "wait", "count", "announce", "unwind", "exited"}

\* Every variable has its type, and an object has a thread exactly when its
\* handshake is done.
TypeOK ==
    /\ conn \in [Conns -> [addr : Addrs, incoming : BOOLEAN, place : Places,
                           connected : BOOLEAN, broken : BOOLEAN, thread : ThreadPcs]]
    /\ \A c \in Conns : conn[c].thread = "none" <=> conn[c].place \notin {"peers", "released"}
    /\ held \in [Actors -> SUBSET Conns]
    /\ pending \in SUBSET Addrs
    /\ mutex \in Actors \cup {"free", "others"}
    /\ pw \in [pc : {"top", "copy", "dial", "sweep", "unwind", "send", "exited"}, todo : SUBSET Addrs]
    /\ paused \in BOOLEAN
    /\ tl \in {"accepting", "relocking"}
    /\ dying \in [Actors -> SUBSET Conns]
    /\ phase \in {"live", "removed", "destroying"}
    /\ crashed \in BOOLEAN

\* pending_connections holds the addresses of the requests in flight, no more
\* (a key left behind would never be dialled again) and no less; the listener's
\* own key stays when it has blocked itself.
PendingExact ==
    phase = "live" =>
      {conn[c].addr : c \in InFlight} =
        IF tl = "accepting" THEN pending
        ELSE pending \ {a \in pending : \A c \in InFlight : conn[c].addr # a}

\* Never two requests in flight to the same address.
OneRequestPerAddress ==
    \A c, d \in InFlight : conn[c].addr = conn[d].addr => c = d

\* Nobody reaches an object whose destructor runs or has run: it is in no list,
\* in no snapshot, and destroyed by one actor only.
DestroyedByOne ==
    \A c \in Conns :
      (conn[c].place = "unused" \/ \E a \in Actors : c \in dying[a]) =>
        /\ ~Held(c, Actors)
        /\ c \notin Peers \cup InFlight
        /\ \A a, b \in Actors : c \in dying[a] /\ c \in dying[b] => a = b

\* Every object that left the lists is referenced or being destroyed: none leaks
\* with its thread and socket.
NoLeak ==
    \A c \in Conns :
      conn[c].place = "released" =>
        Held(c, Actors) \/ \E a \in Actors : c \in dying[a]

\* a waits for b: for its lock, or for its thread to end.
WaitsFor(a, b) ==
    \/ b \in dying[a]
    \/ a \in Conns /\ conn[a].thread \in {"wait", "count"} /\ mutex = b
    \/ a = "tcp_listener" /\ tl = "relocking" /\ mutex = b

Deadlocked ==
    \E group \in SUBSET Actors \ {{}} :
      \A a \in group : \E b \in group : WaitsFor(a, b)

\* No thread stays in send() for ever, every peer goes on reading or is lost; and
\* the threads of the other torrents release mutex_, for which they need as much.
SendsReturn ==
    /\ \A a \in Conns \cup {"peer_worker"} : []<>~Sending(a)
    /\ []<>(mutex # "others")

\* Every request comes to an end, if sends do and unless threads wait for each
\* other for ever or the process has died: connection_worker has no state of its
\* own in which it keeps one.
RequestEnds ==
    SendsReturn =>
      \A c \in Conns : c \in InFlight ~> (c \notin InFlight \/ Deadlocked \/ crashed)

\* A peer whose connection broke leaves the list, as above.
BrokenPeerLeaves ==
    SendsReturn =>
      \A c \in Conns :
        (c \in Peers /\ conn[c].broken) ~>
          (c \notin Peers \/ Deadlocked \/ crashed \/ paused \/ phase # "live")
=============================================================================
