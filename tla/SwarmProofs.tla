---------------------------- MODULE SwarmProofs -----------------------------
(***************************************************************************)
(* What is proved of Swarm for any number of connections, addresses and    *)
(* any peer cap: the addresses booked in pending_connections, and who owns *)
(* a connection object.                                                    *)
(***************************************************************************)
EXTENDS Swarm, TLAPS

ConnType == [addr : Addrs, incoming : BOOLEAN, place : Places,
             connected : BOOLEAN, broken : BOOLEAN, thread : ThreadPcs]

\* Every request in flight has its key booked; while the torrent lives and the
\* listener runs there are no other keys.
Booked ==
    /\ \A c \in InFlight : conn[c].addr \in pending
    /\ phase = "live" /\ tl = "accepting" =>
         \A a \in pending : \E c \in InFlight : conn[c].addr = a

\* A copy of peers owns only objects that were peers.
HeldArePeers ==
    \A a \in Actors : \A c \in held[a] : conn[c].place \in {"peers", "released"}

\* A destructor runs once, on an object nobody else can reach.
DyingUnreachable ==
    \A a \in Actors : \A c \in dying[a] :
      /\ conn[c].place = "released"
      /\ \A b \in Actors : c \notin held[b]
      /\ \A b \in Actors : c \in dying[b] => a = b

\* An actor owns a copy, or runs destructors, only where its code can.
OwnersBusy ==
    /\ \A c \in Conns : /\ held[c] # {} => conn[c].thread \in {"count", "announce"}
                        /\ dying[c] # {} => conn[c].thread = "unwind"
    /\ held["peer_worker"] # {} => pw.pc \in {"dial", "sweep"}
    /\ dying["peer_worker"] # {} => pw.pc \in {"sweep", "unwind"}
    /\ held["tcp_listener"] = {} /\ held["remover"] = {}
    /\ dying["tcp_listener"] = {}

Owned == HeldArePeers /\ DyingUnreachable /\ OwnersBusy /\ NoLeak
Books == Booked /\ OneRequestPerAddress
IInv == TypeOK /\ Books /\ Owned

LEMMA UnusedType ==
    Unused \in ConnType /\ Unused.place = "unused" /\ Unused.thread = "none"
BY SwarmAssumption DEF Unused, ConnType, Places, ThreadPcs

LEMMA TypeOfConn == TypeOK => conn \in [Conns -> ConnType]
BY DEF TypeOK, ConnType

\* A failed send, and disconnect(), leave place, thread and address alone.
LEMMA SendsFailFrame ==
    ASSUME TypeOK, NEW cs, SendsFail(cs)
    PROVE  /\ conn' \in [Conns -> ConnType]
           /\ \A c \in Conns : /\ conn'[c].place = conn[c].place
                               /\ conn'[c].thread = conn[c].thread
                               /\ conn'[c].addr = conn[c].addr
BY TypeOfConn DEF SendsFail, ConnType

\* What the sends leave alone, whether they return or kill the process.
SendFrame ==
    /\ conn' \in [Conns -> ConnType]
    /\ \A c \in Conns : /\ conn'[c].place = conn[c].place
                        /\ conn'[c].thread = conn[c].thread
                        /\ conn'[c].addr = conn[c].addr
    /\ UNCHANGED <<held, pending, paused, tl, dying, phase>>
    /\ crashed' \in BOOLEAN

LEMMA SentFrame ==
    ASSUME TypeOK, PW_Sent
    PROVE  /\ SendFrame
           /\ \/ pw' = pw /\ mutex' = mutex
              \/ pw' = [pw EXCEPT !.pc = "top"] /\ mutex' = "free"
<1>1. UNCHANGED <<held, pending, paused, tl, dying, phase>>
  BY DEF PW_Sent
<1>2. CASE /\ \E cs \in SUBSET Connected(Peers) : SendsFail(cs)
           /\ pw' = [pw EXCEPT !.pc = "top"] /\ mutex' = "free" /\ UNCHANGED crashed
  <2>1. PICK cs \in SUBSET Connected(Peers) : SendsFail(cs)
    BY <1>2
  <2> QED
    BY <1>1, <1>2, <2>1, SendsFailFrame DEF SendFrame, TypeOK
<1>3. CASE Killed(Connected(Peers)) /\ UNCHANGED <<pw, mutex>>
  <2>1. conn' = conn /\ crashed' \in BOOLEAN
    BY <1>3 DEF Killed
  <2>2. conn' \in [Conns -> ConnType]
    BY <2>1, TypeOfConn
  <2>3. SendFrame
    BY <1>1, <2>1, <2>2 DEF SendFrame
  <2>4. pw' = pw /\ mutex' = mutex
    BY <1>3
  <2> QED
    BY <2>3, <2>4
<1> QED
  BY <1>2, <1>3 DEF PW_Sent

LEMMA AnnounceFrame ==
    ASSUME TypeOK, NEW c \in Conns, CT_Announce(c)
    PROVE  SendFrame /\ UNCHANGED <<pw, mutex>>
<1>1. UNCHANGED <<held, pending, mutex, pw, paused, tl, dying, phase>>
  BY DEF CT_Announce
<1>2. CASE (\E d \in Connected(held[c]) : SendsFail({d})) /\ UNCHANGED crashed
  <2>1. PICK d \in Connected(held[c]) : SendsFail({d})
    BY <1>2
  <2> QED
    BY <1>1, <1>2, <2>1, SendsFailFrame DEF SendFrame, TypeOK
<1>3. CASE Killed(Connected(held[c]))
  BY <1>1, <1>3, TypeOfConn DEF SendFrame, Killed
<1> QED
  BY <1>2, <1>3 DEF CT_Announce

LEMMA DisconnectFrame ==
    ASSUME TypeOK, NEW cs
    PROVE  /\ Disconnect(cs) \in [Conns -> ConnType]
           /\ \A c \in Conns : /\ Disconnect(cs)[c].place = conn[c].place
                               /\ Disconnect(cs)[c].thread = conn[c].thread
                               /\ Disconnect(cs)[c].addr = conn[c].addr
BY TypeOfConn DEF Disconnect, ConnType

\* What the two steps of a connection's thread that touch more than its pc do
\* to conn.
LEMMA ReturnFrame ==
    ASSUME TypeOK, NEW c \in Conns, CT_Return(c), c \notin LastRefs(c)
    PROVE  /\ conn' \in [Conns -> ConnType]
           /\ \A d \in Conns :
                /\ conn'[d].place = conn[d].place
                /\ conn'[d].addr = conn[d].addr
                /\ conn'[d].thread = IF d = c THEN "unwind" ELSE conn[d].thread
<1> DEFINE D == Disconnect(LastRefs(c))
<1>1. conn' = [D EXCEPT ![c].thread = "unwind"]
  BY DEF CT_Return, TypeOK
<1>2. /\ D \in [Conns -> ConnType]
      /\ \A d \in Conns : D[d].place = conn[d].place /\ D[d].thread = conn[d].thread
                          /\ D[d].addr = conn[d].addr
  BY DisconnectFrame
<1> HIDE DEF D
<1> QED
  BY <1>1, <1>2 DEF ConnType, ThreadPcs

LEMMA DropPeerFrame ==
    ASSUME TypeOK, NEW c \in Conns, RT_DropPeer(c)
    PROVE  /\ conn' \in [Conns -> ConnType]
           /\ \A d \in Conns :
                /\ conn'[d].place = IF d = c THEN "released" ELSE conn[d].place
                /\ conn'[d].addr = conn[d].addr
                /\ conn'[d].thread = conn[d].thread
<1> DEFINE D == Disconnect({c} \ {d \in Conns : Held(d, Actors)})
<1>1. conn' = [D EXCEPT ![c].place = "released"]
  BY DEF RT_DropPeer
<1>2. /\ D \in [Conns -> ConnType]
      /\ \A d \in Conns : D[d].place = conn[d].place /\ D[d].thread = conn[d].thread
                          /\ D[d].addr = conn[d].addr
  BY DisconnectFrame
<1> HIDE DEF D
<1> QED
  BY <1>1, <1>2 DEF ConnType, Places

\* Enqueue takes a free object for a, or changes nothing.
LEMMA EnqueueFrame ==
    ASSUME TypeOK, NEW a \in Addrs, NEW c \in Free, Enqueue(a, c)
    PROVE  /\ conn' \in [Conns -> ConnType]
           /\ \A d \in Conns \ {c} : conn'[d] = conn[d]
           /\ \/ a \in pending /\ conn' = conn /\ pending' = pending
              \/ /\ a \notin pending
                 /\ pending' = pending \cup {a}
                 /\ conn'[c].place = "queue" /\ conn'[c].thread = "none"
                 /\ conn'[c].addr = a
<1> DEFINE o == [Unused EXCEPT !.addr = a, !.place = "queue"]
<1>1. o \in ConnType /\ o.place = "queue" /\ o.thread = "none" /\ o.addr = a
  BY UnusedType DEF ConnType, Places
<1> HIDE DEF o
<1>2. CASE a \in pending
  BY <1>2, TypeOfConn DEF Enqueue
<1>3. CASE a \notin pending
  <2>1. conn' = [conn EXCEPT ![c] = o] /\ pending' = pending \cup {a}
    BY <1>3 DEF Enqueue, o
  <2> QED
    BY <1>1, <1>3, <2>1, TypeOfConn DEF Free
<1> QED
  BY <1>2, <1>3

\* Only the pc of a connection's thread changes.
LEMMA GotoFrame ==
    ASSUME TypeOK, NEW c \in Conns, NEW w \in ThreadPcs, Goto(c, w)
    PROVE  /\ conn' \in [Conns -> ConnType]
           /\ \A d \in Conns :
                /\ conn'[d].place = conn[d].place
                /\ conn'[d].addr = conn[d].addr
                /\ conn'[d].thread = IF d = c THEN w ELSE conn[d].thread
BY TypeOfConn DEF Goto, ConnType

LEMMA InitIInv == Init => IInv
<1> SUFFICES ASSUME Init PROVE IInv
  OBVIOUS
<1>1. TypeOK
  BY UnusedType DEF Init, TypeOK, ConnType
<1>2. Books
  BY DEF Init, Books, Booked, OneRequestPerAddress, InFlight, Active, Unused
<1>3. Owned
  BY SwarmAssumption
     DEF Init, Owned, HeldArePeers, DyingUnreachable, OwnersBusy, NoLeak, Unused,
         Actors
<1> QED
  BY <1>1, <1>2, <1>3 DEF IInv

LEMMA TypeStep == TypeOK /\ [Next]_vars => TypeOK'
<1> SUFFICES ASSUME TypeOK, [Next]_vars PROVE TypeOK'
  OBVIOUS
<1>1. CASE PW_Top
  BY <1>1 DEF PW_Top, TypeOK, ConnType
<1>2. CASE PW_Copy
  BY <1>2 DEF PW_Copy, Peers, TypeOK, ConnType, Actors
<1>3. ASSUME NEW a \in Addrs, NEW c \in Conns, PW_Dial(a, c) PROVE TypeOK'
  BY <1>3, EnqueueFrame, UnusedType DEF PW_Dial, Free, TypeOK, ConnType
<1>4. CASE PW_Sweep
  BY <1>4 DEF PW_Sweep, Swept, Peers, TypeOK, ConnType, Places, Actors
<1>5. CASE PW_Swept
  BY <1>5 DEF PW_Swept, LastRefs, TypeOK, ConnType
<1>6. CASE PW_Download
  BY <1>6 DEF PW_Download, TypeOK, ConnType, Actors
<1>7. CASE CW_Drain
  BY <1>7 DEF CW_Drain, TypeOK, ConnType, Places
<1>8. ASSUME NEW c \in Conns, CW_Start(c) PROVE TypeOK'
  BY <1>8 DEF CW_Start, TypeOK, ConnType, Places
<1>9. ASSUME NEW c \in Conns, CW_Connected(c) PROVE TypeOK'
  BY <1>9 DEF CW_Connected, TypeOK, ConnType, Places
<1>10. ASSUME NEW c \in Conns, CW_Drop(c) PROVE TypeOK'
  BY <1>10, UnusedType DEF CW_Drop, MayDrop, ReleaseKey, TypeOK, ConnType
<1>11. ASSUME NEW c \in Conns, CW_Finish(c) PROVE TypeOK'
  BY <1>11, UnusedType, SwarmAssumption
     DEF CW_Finish, ReleaseKey, Started, TypeOK, ConnType, Places, ThreadPcs
<1>12. ASSUME NEW a \in Addrs, NEW c \in Conns, TL_Attach(a, c) PROVE TypeOK'
  BY <1>12, UnusedType
     DEF TL_Attach, Started, Free, TypeOK, ConnType, Places, ThreadPcs
<1>13. ASSUME NEW a \in Addrs, TL_AnswerFails(a) PROVE TypeOK'
  BY <1>13 DEF TL_AnswerFails, TL_MayAttach, TypeOK, ConnType, Actors
<1>14. ASSUME NEW c \in Conns, CT_Piece(c) PROVE TypeOK'
  BY <1>14 DEF CT_Piece, Goto, TypeOK, ConnType, ThreadPcs
<1>15. ASSUME NEW c \in Conns, CT_Message(c) PROVE TypeOK'
  BY <1>15 DEF CT_Message, Loop, Goto, TypeOK, ConnType, ThreadPcs
<1>16. ASSUME NEW c \in Conns, CT_Lost(c) PROVE TypeOK'
  <2>1. /\ conn' \in [Conns -> ConnType]
        /\ \A d \in Conns : /\ conn'[d].place = conn[d].place
                            /\ conn'[d].thread = "none" <=> conn[d].thread = "none"
    BY <1>16, TypeOfConn DEF CT_Lost, ConnectionLost, ConnType, ThreadPcs
  <2> QED
    BY <1>16, <2>1 DEF CT_Lost, TypeOK, ConnType
<1>17. ASSUME NEW c \in Conns, CT_PeerCloses(c) PROVE TypeOK'
  BY <1>17, UnusedType DEF CT_PeerCloses, TypeOK, ConnType
<1>18. ASSUME NEW c \in Conns, CT_Announce(c) PROVE TypeOK'
  BY <1>18, AnnounceFrame DEF SendFrame, TypeOK, ConnType
<1>19. ASSUME NEW c \in Conns, CT_Enter(c) PROVE TypeOK'
  <2>1. PICK w \in ThreadPcs \ {"none"} : Goto(c, w)
    BY <1>19 DEF CT_Enter, Loop, ThreadPcs
  <2>2. conn[c].thread = "wait"
    BY <1>19 DEF CT_Enter
  <2> QED
    BY <1>19, <2>1, <2>2, GotoFrame DEF CT_Enter, Peers, TypeOK, ConnType, Actors
<1>20. ASSUME NEW c \in Conns, CT_Count(c) PROVE TypeOK'
  BY <1>20 DEF CT_Count, Goto, TypeOK, ConnType, ThreadPcs
<1>21. ASSUME NEW c \in Conns, CT_Return(c) PROVE TypeOK'
  <2>1. CASE c \in LastRefs(c)
    BY <1>21, <2>1 DEF CT_Return, TypeOK
  <2>2. CASE c \notin LastRefs(c)
    <3>1. held' \in [Actors -> SUBSET Conns] /\ dying' \in [Actors -> SUBSET Conns]
      BY <1>21, <2>2 DEF CT_Return, LastRefs, TypeOK
    <3>2. conn[c].thread # "none"
      BY <1>21 DEF CT_Return
    <3>3. \A d \in Conns :
             conn'[d].thread = "none" <=> conn'[d].place \notin {"peers", "released"}
      BY <1>21, <2>2, <3>2, ReturnFrame DEF TypeOK
    <3> QED
      BY <1>21, <2>2, <3>1, <3>3, ReturnFrame DEF CT_Return, TypeOK, ConnType
  <2> QED
    BY <2>1, <2>2
<1>22. ASSUME NEW c \in Conns, CT_Unwound(c) PROVE TypeOK'
  BY <1>22 DEF CT_Unwound, Loop, Goto, TypeOK, ConnType, ThreadPcs
<1>23. CASE RemoveTorrent
  BY <1>23 DEF RemoveTorrent, TypeOK, ConnType
<1>24. ASSUME NEW p \in BOOLEAN, SetPaused(p) PROVE TypeOK'
  BY <1>24 DEF SetPaused, TypeOK, ConnType
<1>25. CASE RT_Destroy
  BY <1>25 DEF RT_Destroy, TypeOK, ConnType
<1>26. ASSUME NEW c \in Conns, RT_DropPeer(c) PROVE TypeOK'
  <2>1. dying' \in [Actors -> SUBSET Conns]
    BY <1>26 DEF RT_DropPeer, TypeOK
  <2>2. \A d \in Conns :
             conn'[d].thread = "none" <=> conn'[d].place \notin {"peers", "released"}
    <3>1. conn[c].place = "peers"
      BY <1>26 DEF RT_DropPeer, Peers
    <3> QED
      BY <1>26, <3>1, DropPeerFrame DEF TypeOK
  <2> QED
    BY <1>26, <2>1, <2>2, DropPeerFrame DEF RT_DropPeer, TypeOK, ConnType
<1>27. ASSUME NEW a \in Actors, NEW c \in Conns, Join(a, c) PROVE TypeOK'
  BY <1>27, UnusedType DEF Join, TypeOK, ConnType
<1>28. CASE UNCHANGED vars
  BY <1>28 DEF vars, TypeOK, ConnType
<1>29. CASE PW_Sent
  <2>1. pw' \in [pc : {"top", "copy", "dial", "sweep", "unwind", "send", "exited"},
                 todo : SUBSET Addrs] /\ mutex' \in Actors \cup {"free", "others"}
    BY <1>29, SentFrame DEF TypeOK
  <2> QED
    BY <1>29, <2>1, SentFrame DEF SendFrame, TypeOK, ConnType
<1>30. CASE OthersLock \/ OthersUnlock
  BY <1>30 DEF OthersLock, OthersUnlock, TypeOK, ConnType
<1> QED
  BY <1>1, <1>2, <1>3, <1>4, <1>5, <1>6, <1>7, <1>8, <1>9, <1>10, <1>11, <1>12, <1>13,
     <1>14, <1>15, <1>16, <1>17, <1>18, <1>19, <1>20, <1>21, <1>22, <1>23, <1>24, <1>25,
     <1>26, <1>27, <1>28, <1>29, <1>30
     DEF Next, PeerWorker, ConnectionWorker, CW_Step, Listener, ConnThread,
         CT_Callback, User, Joins

\* A step that moves no request leaves the books alone.
LEMMA BookedFrame ==
    ASSUME Books, UNCHANGED <<pending, phase, tl>>,
           InFlight' = InFlight, \A c \in Conns : conn'[c].addr = conn[c].addr
    PROVE  Books'
<1>1. InFlight \subseteq Conns
  BY DEF InFlight, Active
<1> QED
  BY <1>1 DEF Books, Booked, OneRequestPerAddress

LEMMA BookedStep == TypeOK /\ Books /\ [Next]_vars => Books'
<1> SUFFICES ASSUME TypeOK, Books, [Next]_vars
             PROVE  Books'
  OBVIOUS
<1>1. CASE PW_Top
  BY <1>1 DEF PW_Top, TypeOK, Books, Booked, OneRequestPerAddress, InFlight, Active
<1>2. CASE PW_Copy
  BY <1>2
     DEF PW_Copy, Peers, TypeOK, Books, Booked, OneRequestPerAddress, InFlight, Active
<1>3. ASSUME NEW a \in Addrs, NEW c \in Conns, PW_Dial(a, c) PROVE Books'
  <2>1. c \in Free /\ Enqueue(a, c) /\ phase' = phase /\ tl' = tl
    BY <1>3 DEF PW_Dial
  <2> QED
    BY <2>1, EnqueueFrame
       DEF Free, Books, Booked, OneRequestPerAddress, InFlight, Active
<1>4. CASE PW_Sweep
  <2>1. \A d \in Conns : /\ conn'[d].addr = conn[d].addr
                         /\ d \in InFlight' <=> d \in InFlight
    BY <1>4 DEF PW_Sweep, Swept, Peers, TypeOK, InFlight, Active
  <2> QED
    BY <1>4, <2>1 DEF PW_Sweep, Books, Booked, OneRequestPerAddress, InFlight, Active
<1>5. CASE PW_Swept
  BY <1>5
     DEF PW_Swept, LastRefs, TypeOK, Books, Booked, OneRequestPerAddress, InFlight,
         Active
<1>6. CASE PW_Download
  BY <1>6
     DEF PW_Download, TypeOK, Books, Booked, OneRequestPerAddress, InFlight, Active
<1>7. CASE CW_Drain
  BY <1>7, SwarmAssumption
     DEF CW_Drain, TypeOK, Books, Booked, OneRequestPerAddress, InFlight, Active
<1>8. ASSUME NEW c \in Conns, CW_Start(c) PROVE Books'
  BY <1>8 DEF CW_Start, TypeOK, Books, Booked, OneRequestPerAddress, InFlight, Active
<1>9. ASSUME NEW c \in Conns, CW_Connected(c) PROVE Books'
  BY <1>9
     DEF CW_Connected, TypeOK, Books, Booked, OneRequestPerAddress, InFlight, Active
<1>10. ASSUME NEW c \in Conns, CW_Drop(c) PROVE Books'
  BY <1>10
     DEF CW_Drop, MayDrop, ReleaseKey, Active, TypeOK, Books, Booked,
         OneRequestPerAddress, InFlight, Unused
<1>11. ASSUME NEW c \in Conns, CW_Finish(c) PROVE Books'
  BY <1>11
     DEF CW_Finish, ReleaseKey, Started, TypeOK, Books, Booked, OneRequestPerAddress,
         InFlight, Active, Unused
<1>12. ASSUME NEW a \in Addrs, NEW c \in Conns, TL_Attach(a, c) PROVE Books'
  BY <1>12
     DEF TL_Attach, Started, Free, TypeOK, Books, Booked, OneRequestPerAddress,
         InFlight, Active
<1>13. ASSUME NEW a \in Addrs, TL_AnswerFails(a) PROVE Books'
  BY <1>13
     DEF TL_AnswerFails, TL_MayAttach, TypeOK, Books, Booked, OneRequestPerAddress,
         InFlight, Active
<1>14. ASSUME NEW c \in Conns, CT_Piece(c) PROVE Books'
  BY <1>14
     DEF CT_Piece, Goto, TypeOK, Books, Booked, OneRequestPerAddress, InFlight, Active
<1>15. ASSUME NEW c \in Conns, CT_Message(c) PROVE Books'
  BY <1>15
     DEF CT_Message, Loop, Goto, TypeOK, Books, Booked, OneRequestPerAddress,
         InFlight, Active
<1>16. ASSUME NEW c \in Conns, CT_Lost(c) PROVE Books'
  BY <1>16
     DEF CT_Lost, ConnectionLost, TypeOK, Books, Booked, OneRequestPerAddress,
         InFlight, Active
<1>17. ASSUME NEW c \in Conns, CT_PeerCloses(c) PROVE Books'
  BY <1>17
     DEF CT_PeerCloses, TypeOK, Books, Booked, OneRequestPerAddress, InFlight, Active
<1>18. ASSUME NEW c \in Conns, CT_Announce(c) PROVE Books'
  BY <1>18, AnnounceFrame
     DEF SendFrame, TypeOK, Books, Booked, OneRequestPerAddress, InFlight, Active
<1>19. ASSUME NEW c \in Conns, CT_Enter(c) PROVE Books'
  BY <1>19, SwarmAssumption
     DEF CT_Enter, Goto, Loop, Peers, TypeOK, Books, Booked, OneRequestPerAddress,
         InFlight, Active
<1>20. ASSUME NEW c \in Conns, CT_Count(c) PROVE Books'
  BY <1>20
     DEF CT_Count, Goto, TypeOK, Books, Booked, OneRequestPerAddress, InFlight, Active
<1>21. ASSUME NEW c \in Conns, CT_Return(c) PROVE Books'
  <2>1. CASE c \in LastRefs(c)
    BY <1>21, <2>1
       DEF CT_Return, Books, Booked, OneRequestPerAddress, InFlight, Active, TypeOK
  <2>2. CASE c \notin LastRefs(c)
    <3>1. UNCHANGED <<pending, phase, tl>>
      BY <1>21 DEF CT_Return
    <3>2. InFlight' = InFlight
      BY <1>21, <2>2, ReturnFrame DEF InFlight, Active
    <3> QED
      BY <1>21, <2>2, <3>1, <3>2, ReturnFrame, BookedFrame
  <2> QED
    BY <2>1, <2>2
<1>22. ASSUME NEW c \in Conns, CT_Unwound(c) PROVE Books'
  BY <1>22
     DEF CT_Unwound, Loop, Goto, TypeOK, Books, Booked, OneRequestPerAddress,
         InFlight, Active
<1>23. CASE RemoveTorrent
  BY <1>23
     DEF RemoveTorrent, TypeOK, Books, Booked, OneRequestPerAddress, InFlight, Active
<1>24. ASSUME NEW p \in BOOLEAN, SetPaused(p) PROVE Books'
  BY <1>24
     DEF SetPaused, TypeOK, Books, Booked, OneRequestPerAddress, InFlight, Active
<1>25. CASE RT_Destroy
  BY <1>25
     DEF RT_Destroy, TypeOK, Books, Booked, OneRequestPerAddress, InFlight, Active
<1>26. ASSUME NEW c \in Conns, RT_DropPeer(c) PROVE Books'
  <2>1. conn[c].place = "peers" /\ UNCHANGED <<pending, phase, tl>>
    BY <1>26 DEF RT_DropPeer, Peers
  <2>2. InFlight' = InFlight
    BY <1>26, <2>1, DropPeerFrame DEF InFlight, Active
  <2> QED
    BY <1>26, <2>1, <2>2, DropPeerFrame, BookedFrame
<1>27. ASSUME NEW a \in Actors, NEW c \in Conns, Join(a, c) PROVE Books'
  BY <1>27
     DEF Join, TypeOK, Books, Booked, OneRequestPerAddress, InFlight, Active, Unused
<1>28. CASE UNCHANGED vars
  BY <1>28 DEF vars, TypeOK, Books, Booked, OneRequestPerAddress, InFlight, Active
<1>29. CASE PW_Sent
  BY <1>29, SentFrame
     DEF SendFrame, TypeOK, Books, Booked, OneRequestPerAddress, InFlight, Active
<1>30. CASE OthersLock \/ OthersUnlock
  BY <1>30, BookedFrame DEF OthersLock, OthersUnlock, InFlight, Active
<1> QED
  BY <1>1, <1>2, <1>3, <1>4, <1>5, <1>6, <1>7, <1>8, <1>9, <1>10, <1>11, <1>12, <1>13,
     <1>14, <1>15, <1>16, <1>17, <1>18, <1>19, <1>20, <1>21, <1>22, <1>23, <1>24, <1>25,
     <1>26, <1>27, <1>28, <1>29, <1>30
     DEF Next, PeerWorker, ConnectionWorker, CW_Step, Listener, ConnThread,
         CT_Callback, User, Joins

\* A step by which no object leaves the lists, while the owners of copies stay.
LEMMA OwnedFrame ==
    ASSUME TypeOK, Owned, UNCHANGED <<held, dying, pw>>,
           \A d \in Conns :
             /\ conn[d].place = "peers" => conn'[d].place = "peers"
             /\ conn'[d].place = "released" <=> conn[d].place = "released"
             /\ conn[d].thread \in {"count", "announce", "unwind"} =>
                  conn'[d].thread = conn[d].thread
    PROVE  Owned'
<1>1. HeldArePeers'
  BY DEF Owned, HeldArePeers, TypeOK
<1>4. DyingUnreachable'
  BY DEF Owned, DyingUnreachable, TypeOK
<1>2. OwnersBusy'
  BY DEF Owned, OwnersBusy
<1>3. NoLeak'
  BY DEF Owned, NoLeak, Held
<1> QED
  BY <1>1, <1>2, <1>3, <1>4 DEF Owned

LEMMA OwnedStep == TypeOK /\ Owned /\ [Next]_vars => Owned'
<1> SUFFICES ASSUME TypeOK, Owned, [Next]_vars PROVE Owned'
  OBVIOUS
<1>1. CASE PW_Top
  BY <1>1
     DEF PW_Top, TypeOK, Owned, HeldArePeers, DyingUnreachable, OwnersBusy, NoLeak,
         Held
<1>2. CASE PW_Copy
  BY <1>2, SwarmAssumption
     DEF PW_Copy, Peers, TypeOK, Owned, HeldArePeers, DyingUnreachable, OwnersBusy,
         NoLeak, Held
<1>3. ASSUME NEW a \in Addrs, NEW c \in Conns, PW_Dial(a, c) PROVE Owned'
  <2>1. c \in Free /\ Enqueue(a, c) /\ UNCHANGED <<held, dying>> /\ pw'.pc = pw.pc
    BY <1>3 DEF PW_Dial, TypeOK
  <2> QED
    <3>1. /\ \A d \in Conns \ {c} : conn'[d] = conn[d]
          /\ conn[c].place = "unused"
          /\ \/ conn'[c] = conn[c]
             \/ conn'[c].place = "queue" /\ conn'[c].thread = "none"
      BY <2>1, EnqueueFrame DEF Free
    <3>2. conn[c].thread = "none"
      BY <3>1 DEF TypeOK, Free
    <3>3. \A d \in Conns :
             /\ conn'[d].place = "peers" <=> conn[d].place = "peers"
             /\ conn'[d].place = "released" <=> conn[d].place = "released"
             /\ conn'[d].thread = conn[d].thread
      BY <3>1, <3>2
    <3>4. HeldArePeers'
      BY <2>1, <3>3 DEF Owned, HeldArePeers, TypeOK
    <3>5. DyingUnreachable'
      BY <2>1, <3>3 DEF Owned, DyingUnreachable, TypeOK
    <3>6. OwnersBusy'
      BY <2>1, <3>3 DEF Owned, OwnersBusy
    <3>7. NoLeak'
      BY <2>1, <3>3 DEF Owned, NoLeak, Held
    <3> QED
      BY <3>4, <3>5, <3>6, <3>7 DEF Owned
<1>4. CASE PW_Sweep
  BY <1>4, SwarmAssumption
     DEF PW_Sweep, Swept, Peers, TypeOK, Owned, HeldArePeers, DyingUnreachable,
         OwnersBusy, NoLeak, Held, Actors
<1>5. CASE PW_Swept
  BY <1>5, SwarmAssumption
     DEF PW_Swept, LastRefs, TypeOK, Owned, HeldArePeers, DyingUnreachable,
         OwnersBusy, NoLeak, Held, Actors
<1>6. CASE PW_Download
  BY <1>6
     DEF PW_Download, TypeOK, Owned, HeldArePeers, DyingUnreachable, OwnersBusy,
         NoLeak, Held
<1>7. CASE CW_Drain
  BY <1>7
     DEF CW_Drain, TypeOK, Owned, HeldArePeers, DyingUnreachable, OwnersBusy, NoLeak,
         Held
<1>8. ASSUME NEW c \in Conns, CW_Start(c) PROVE Owned'
  BY <1>8, OwnedFrame, TypeOfConn DEF CW_Start, ConnType
<1>9. ASSUME NEW c \in Conns, CW_Connected(c) PROVE Owned'
  BY <1>9
     DEF CW_Connected, TypeOK, Owned, HeldArePeers, DyingUnreachable, OwnersBusy,
         NoLeak, Held
<1>10. ASSUME NEW c \in Conns, CW_Drop(c) PROVE Owned'
  BY <1>10
     DEF CW_Drop, MayDrop, ReleaseKey, Active, TypeOK, Owned, HeldArePeers,
         DyingUnreachable, OwnersBusy, NoLeak, Held, Unused
<1>11. ASSUME NEW c \in Conns, CW_Finish(c) PROVE Owned'
  <2>1. conn[c].place = "handshaking" /\ conn[c].thread = "none"
    BY <1>11 DEF CW_Finish, TypeOK
  <2>2. conn'[c].place \in {"peers", "unused"}
        /\ \A d \in Conns \ {c} : conn'[d] = conn[d]
    BY <1>11, TypeOfConn, UnusedType DEF CW_Finish, Started, ConnType
  <2> QED
    BY <1>11, <2>1, <2>2, OwnedFrame DEF CW_Finish
<1>12. ASSUME NEW a \in Addrs, NEW c \in Conns, TL_Attach(a, c) PROVE Owned'
  BY <1>12
     DEF TL_Attach, Started, Free, TypeOK, Owned, HeldArePeers, DyingUnreachable,
         OwnersBusy, NoLeak, Held
<1>13. ASSUME NEW a \in Addrs, TL_AnswerFails(a) PROVE Owned'
  BY <1>13
     DEF TL_AnswerFails, TL_MayAttach, TypeOK, Owned, HeldArePeers, DyingUnreachable,
         OwnersBusy, NoLeak, Held
<1>14. ASSUME NEW c \in Conns, CT_Piece(c) PROVE Owned'
  BY <1>14, GotoFrame, OwnedFrame DEF CT_Piece, ThreadPcs
<1>15. ASSUME NEW c \in Conns, CT_Message(c) PROVE Owned'
  <2>1. PICK w \in {"recv", "exited"} : Goto(c, w)
    BY <1>15 DEF CT_Message, Loop
  <2> QED
    BY <1>15, <2>1, GotoFrame, OwnedFrame DEF CT_Message, ThreadPcs
<1>16. ASSUME NEW c \in Conns, CT_Lost(c) PROVE Owned'
  BY <1>16, TypeOfConn, OwnedFrame DEF CT_Lost, ConnectionLost, ConnType
<1>17. ASSUME NEW c \in Conns, CT_PeerCloses(c) PROVE Owned'
  BY <1>17, TypeOfConn, OwnedFrame DEF CT_PeerCloses, ConnType
<1>18. ASSUME NEW c \in Conns, CT_Announce(c) PROVE Owned'
  BY <1>18, AnnounceFrame
     DEF SendFrame, TypeOK, Owned, HeldArePeers, DyingUnreachable, OwnersBusy,
         NoLeak, Held
<1>19. ASSUME NEW c \in Conns, CT_Enter(c) PROVE Owned'
  <2>1. CASE phase = "live"
    <3>1. PICK w \in {"announce", "count"} : Goto(c, w)
      BY <1>19, <2>1 DEF CT_Enter
    <3>2. held[c] = {} /\ dying[c] = {} /\ held' = [held EXCEPT ![c] = Peers]
          /\ UNCHANGED <<dying, pw>>
      BY <1>19, <2>1 DEF CT_Enter, Owned, OwnersBusy
    <3>f. /\ conn' \in [Conns -> ConnType]
          /\ \A d \in Conns :
                /\ conn'[d].place = conn[d].place
                /\ conn'[d].thread = IF d = c THEN w ELSE conn[d].thread
      BY <3>1, GotoFrame DEF ThreadPcs
    <3>3. HeldArePeers'
      BY <3>2, <3>f DEF HeldArePeers, Owned, Peers, TypeOK
    <3>4. DyingUnreachable'
      BY <3>2, <3>f DEF DyingUnreachable, Owned, Peers, TypeOK
    <3>5. OwnersBusy'
      BY <3>2, <3>f, SwarmAssumption DEF OwnersBusy, Owned, TypeOK
    <3>6. NoLeak'
      BY <3>2, <3>f DEF NoLeak, Held, Owned, TypeOK
    <3> QED
      BY <3>3, <3>4, <3>5, <3>6 DEF Owned
  <2>2. CASE phase # "live"
    <3>1. PICK w \in {"recv", "exited"} : Goto(c, w)
      BY <1>19, <2>2 DEF CT_Enter, Loop
    <3>2. conn[c].thread = "wait" /\ UNCHANGED <<held, dying, pw>>
      BY <1>19, <2>2 DEF CT_Enter
    <3>3. \A d \in Conns : /\ conn'[d].place = conn[d].place
                           /\ conn'[d].thread = IF d = c THEN w ELSE conn[d].thread
      BY <3>1, GotoFrame DEF ThreadPcs
    <3> QED
      BY <3>2, <3>3, SwarmAssumption
         DEF TypeOK, Owned, HeldArePeers, DyingUnreachable, OwnersBusy, NoLeak, Held
  <2> QED
    BY <2>1, <2>2
<1>20. ASSUME NEW c \in Conns, CT_Count(c) PROVE Owned'
  <2>1. Goto(c, "announce") /\ conn[c].thread = "count" /\ UNCHANGED <<held, dying, pw>>
    BY <1>20 DEF CT_Count
  <2> QED
    BY <2>1, GotoFrame
       DEF ThreadPcs, TypeOK, Owned, HeldArePeers, DyingUnreachable, OwnersBusy,
           NoLeak, Held
<1>21. ASSUME NEW c \in Conns, CT_Return(c) PROVE Owned'
  <2>1. CASE c \in LastRefs(c)
    BY <1>21, <2>1
       DEF CT_Return, TypeOK, Owned, HeldArePeers, DyingUnreachable, OwnersBusy,
           NoLeak, Held
  <2>2. CASE c \notin LastRefs(c)
    <3>1. /\ held' = [held EXCEPT ![c] = {}]
          /\ dying' = [dying EXCEPT ![c] = LastRefs(c)]
          /\ dying[c] = {} /\ UNCHANGED pw
      BY <1>21, <2>2 DEF CT_Return, Owned, OwnersBusy
    <3>f. \A d \in Conns :
             /\ conn'[d].place = conn[d].place
             /\ conn'[d].thread = IF d = c THEN "unwind" ELSE conn[d].thread
      BY <1>21, <2>2, ReturnFrame
    <3>3. HeldArePeers'
      BY <3>1, <3>f DEF HeldArePeers, Owned, TypeOK
    <3>4. DyingUnreachable'
      BY <3>1, <3>f DEF DyingUnreachable, LastRefs, Held, Owned, TypeOK
    <3>5. OwnersBusy'
      BY <3>1, <3>f, SwarmAssumption DEF OwnersBusy, Owned, TypeOK, Actors
    <3>6. NoLeak'
      BY <3>1, <3>f DEF NoLeak, LastRefs, Held, Owned, TypeOK
    <3> QED
      BY <3>3, <3>4, <3>5, <3>6 DEF Owned
  <2> QED
    BY <2>1, <2>2
<1>22. ASSUME NEW c \in Conns, CT_Unwound(c) PROVE Owned'
  <2>1. PICK w \in {"recv", "exited"} : Goto(c, w)
    BY <1>22 DEF CT_Unwound, Loop
  <2> QED
    BY <1>22, <2>1, GotoFrame
       DEF ThreadPcs, CT_Unwound, TypeOK, Owned, HeldArePeers, DyingUnreachable,
           OwnersBusy, NoLeak, Held
<1>23. CASE RemoveTorrent
  BY <1>23
     DEF RemoveTorrent, TypeOK, Owned, HeldArePeers, DyingUnreachable, OwnersBusy,
         NoLeak, Held
<1>24. ASSUME NEW p \in BOOLEAN, SetPaused(p) PROVE Owned'
  BY <1>24
     DEF SetPaused, TypeOK, Owned, HeldArePeers, DyingUnreachable, OwnersBusy, NoLeak,
         Held
<1>25. CASE RT_Destroy
  BY <1>25
     DEF RT_Destroy, TypeOK, Owned, HeldArePeers, DyingUnreachable, OwnersBusy,
         NoLeak, Held
<1>26. ASSUME NEW c \in Conns, RT_DropPeer(c) PROVE Owned'
  <2>1. /\ UNCHANGED <<held, pw>>
        /\ dying["remover"] = {}
        /\ dying' = [dying EXCEPT !["remover"] = {c} \ {d \in Conns : Held(d, Actors)}]
        /\ conn[c].place = "peers"
    BY <1>26 DEF RT_DropPeer, Peers
  <2>f. \A d \in Conns :
           /\ conn'[d].place = IF d = c THEN "released" ELSE conn[d].place
           /\ conn'[d].thread = conn[d].thread
    BY <1>26, DropPeerFrame
  <2>3. HeldArePeers'
    BY <2>1, <2>f DEF HeldArePeers, Owned, TypeOK
  <2>4. DyingUnreachable'
    BY <2>1, <2>f DEF DyingUnreachable, Held, Owned, TypeOK
  <2>5. OwnersBusy'
    BY <2>1, <2>f, SwarmAssumption DEF OwnersBusy, Owned, TypeOK
  <2>6. NoLeak'
    BY <2>1, <2>f DEF NoLeak, Held, Owned, TypeOK, Actors
  <2> QED
    BY <2>3, <2>4, <2>5, <2>6 DEF Owned
<1>27. ASSUME NEW a \in Actors, NEW c \in Conns, Join(a, c) PROVE Owned'
  BY <1>27
     DEF Join, TypeOK, Owned, HeldArePeers, DyingUnreachable, OwnersBusy, NoLeak,
         Held, Actors, Unused
<1>28. CASE UNCHANGED vars
  BY <1>28
     DEF vars, TypeOK, Owned, HeldArePeers, DyingUnreachable, OwnersBusy, NoLeak, Held
<1>29. CASE PW_Sent
  <2>1. held["peer_worker"] = {} /\ dying["peer_worker"] = {}
    BY <1>29 DEF PW_Sent, Owned, OwnersBusy
  <2> QED
    BY <1>29, <2>1, SentFrame
       DEF SendFrame, TypeOK, Owned, HeldArePeers, DyingUnreachable, OwnersBusy,
           NoLeak, Held
<1>30. CASE OthersLock \/ OthersUnlock
  BY <1>30, OwnedFrame DEF OthersLock, OthersUnlock
<1> QED
  BY <1>1, <1>2, <1>3, <1>4, <1>5, <1>6, <1>7, <1>8, <1>9, <1>10, <1>11, <1>12, <1>13,
     <1>14, <1>15, <1>16, <1>17, <1>18, <1>19, <1>20, <1>21, <1>22, <1>23, <1>24, <1>25,
     <1>26, <1>27, <1>28, <1>29, <1>30
     DEF Next, PeerWorker, ConnectionWorker, CW_Step, Listener, ConnThread,
         CT_Callback, User, Joins

LEMMA Invariance == Spec => []IInv
<1>1. IInv /\ [Next]_vars => IInv'
  BY TypeStep, BookedStep, OwnedStep DEF IInv
<1> QED
  BY InitIInv, <1>1, PTL DEF Spec

\* Type correctness; in particular a connection object has a thread exactly from
\* its completed handshake to its destruction.
THEOREM TypeCorrect == Spec => []TypeOK
<1>1. IInv => TypeOK
  BY DEF IInv
<1> QED
  BY Invariance, <1>1, PTL

\* However dialling, draining, timeouts, failures and the listener interleave,
\* pending_connections is exactly the set of addresses being dialled.
THEOREM KeysAreExact == Spec => []PendingExact
<1>1. IInv => PendingExact
  <2> SUFFICES ASSUME IInv, phase = "live" PROVE PendingExact
    BY DEF PendingExact
  <2>1. /\ \A c \in InFlight : conn[c].addr \in pending
        /\ tl = "accepting" => \A a \in pending : \E c \in InFlight : conn[c].addr = a
    BY DEF IInv, Books, Booked
  <2> QED
    BY <2>1 DEF PendingExact
<1> QED
  BY Invariance, <1>1, PTL

\* Never two requests in flight to one address, whatever the number of
\* connections: the key is taken under the lock and given back at the end only.
THEOREM DialledOnce == Spec => []OneRequestPerAddress
<1>1. IInv => OneRequestPerAddress
  BY DEF IInv, Books
<1> QED
  BY Invariance, <1>1, PTL

\* A connection object is destroyed once, by one thread, when no list and no
\* snapshot can reach it.
THEOREM DestroyedOnce == Spec => []DestroyedByOne
<1>1. IInv => DestroyedByOne
  BY
     DEF IInv, Owned, HeldArePeers, DyingUnreachable, DestroyedByOne, Held, Peers,
         InFlight, Active
<1> QED
  BY Invariance, <1>1, PTL

\* An object that left the lists is owned by a snapshot or being destroyed.
THEOREM NothingLeaks == Spec => []NoLeak
<1>1. IInv => NoLeak
  BY DEF IInv, Owned
<1> QED
  BY Invariance, <1>1, PTL
=============================================================================
