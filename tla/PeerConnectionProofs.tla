------------------------ MODULE PeerConnectionProofs ------------------------
(***************************************************************************)
(* The safety invariants of PeerConnection, for every torrent, every set   *)
(* of blocks a remote may ask for and every size of the handshake.         *)
(***************************************************************************)
EXTENDS PeerConnection, TLAPS

Frames == {"none", "PIECE", "HAVE", "INTERESTED", "REQUEST"}

ThreadState ==
    [pc : {"idle", "announce", "first", "rest"},
     frame : Frames,
     piece : Pieces \union {Nobody},
     locked : BOOLEAN]

ConnState ==
    [stage : {"new", "accepted", "handshaking", "ready", "running", "ended", "failed", "closed"},
     connected : BOOLEAN, received : Int, unsent : BOOLEAN,
     am_choking : BOOLEAN, am_interested : BOOLEAN, peer_choking : BOOLEAN,
     bitfield : SUBSET Pieces]

\* The types the invariants need.
Typed ==
    /\ conn \in ConnState
    /\ mutex \in Threads \union {Nobody}
    /\ th \in [Threads -> ThreadState]
    /\ have \subseteq Pieces

\* What set_have_piece announces was verified first.
AnnouncedHeld == \A t \in Threads : th[t].pc = "announce" => th[t].piece \in have

\* A frame is written under the connection's mutex, or it is a REQUEST.
FramesLocked ==
    \A t \in Threads :
      Sending(t) => IF th[t].locked THEN mutex = t ELSE th[t].frame = "REQUEST"

\* No interest is noted before the thread of the connection runs, which is when
\* connected_ is set.
InterestLate ==
    conn.stage \in {"new", "accepted", "handshaking", "ready"} =>
      ~conn.am_interested

IInv == Typed /\ AnnouncedHeld /\ FramesLocked /\ AvailabilityExact /\ TornOnlyByRequests

\* The flag of our interest, on top of IInv.
ToldState == [unchoked : BOOLEAN, interested : BOOLEAN]
InterestInv == told \in ToldState /\ InterestLate /\ InterestTold

-----------------------------------------------------------------------------

USE DEF Threads, Nobody, Frames

LEMMA InitIInv == Init => IInv
<1> SUFFICES ASSUME Init PROVE IInv
  OBVIOUS
<1>1. Typed
  BY DEF Init, Typed, ConnState, ThreadState, Resting
<1>2. AnnouncedHeld /\ FramesLocked
  BY DEF Init, AnnouncedHeld, FramesLocked, Resting, Sending
<1>3. AvailabilityExact /\ TornOnlyByRequests
  BY DEF Init, AvailabilityExact, TornOnlyByRequests
<1> QED
  BY <1>1, <1>2, <1>3 DEF IInv

\* Two threads within a frame: one of them sends a REQUEST.
LEMMA OneIsRequest ==
    ASSUME FramesLocked, NEW t \in Threads, NEW u \in Threads, t # u,
           Sending(t), Sending(u)
    PROVE  th[t].frame = "REQUEST" \/ th[u].frame = "REQUEST"
BY DEF FramesLocked

\* What becomes of the thread that enters send_message, and of the others.
LEMMA EnterTyped ==
    ASSUME Typed, NEW t \in Threads, NEW frame \in Frames,
           NEW piece \in Pieces \union {Nobody}, NEW locked \in BOOLEAN,
           Enter(t, frame, piece, locked)
    PROVE  /\ th' \in [Threads -> ThreadState]
           /\ th'[t].pc \in {"idle", "first"}
           /\ \A u \in Threads \ {t} : th'[u] = th[u]
<1> DEFINE new == IF conn.connected
                  THEN [pc |-> "first", frame |-> frame, piece |-> piece, locked |-> locked]
                  ELSE Resting
<1>1. th' = [th EXCEPT ![t] = new]
  BY DEF Enter
<1>2. new \in ThreadState /\ new.pc \in {"idle", "first"}
  BY DEF ThreadState, Resting, Frames
<1> HIDE DEF new
<1> QED
  BY <1>1, <1>2 DEF Typed

\* The steps of a frame.
LEMMA SendKeeps ==
    ASSUME IInv, NEW t \in Threads, SendStep(t)
    PROVE  IInv'
<1> USE DEF IInv
<1>1. CASE SendPart(t)
  <2>1. Typed' /\ AnnouncedHeld' /\ FramesLocked'
    BY <1>1 DEF SendPart, Typed, AnnouncedHeld, FramesLocked, ThreadState, Sending
  <2>2. AvailabilityExact'
    BY <1>1 DEF SendPart, AvailabilityExact
  <2>3. TornOnlyByRequests'
    <3>1. CASE Halfway = {}
      BY <1>1, <3>1 DEF SendPart, TornOnlyByRequests
    <3>2. CASE Halfway # {}
      <4>1. PICK u \in Threads : th[u].pc = "rest"
        BY <3>2 DEF Halfway
      <4>2. u # t /\ Sending(t) /\ Sending(u)
        BY <1>1, <4>1 DEF SendPart, Sending
      <4>3. th[t].frame = "REQUEST" \/ th[u].frame = "REQUEST"
        BY <4>2, OneIsRequest
      <4>4. u \in Halfway
        BY <4>1 DEF Halfway
      <4> QED
        BY <1>1, <3>2, <4>3, <4>4 DEF SendPart, TornOnlyByRequests
    <3> QED
      BY <3>1, <3>2
  <2> QED
    BY <2>1, <2>2, <2>3
<1>2. CASE SendRest(t)
  <2>1. Typed' /\ AnnouncedHeld'
    BY <1>2 DEF SendRest, Typed, AnnouncedHeld, ThreadState, Resting, Unlocked
  <2>2. FramesLocked'
    BY <1>2 DEF SendRest, Typed, FramesLocked, ThreadState, Resting, Unlocked, Sending
  <2>3. AvailabilityExact'
    BY <1>2 DEF SendRest, AvailabilityExact
  <2>4. TornOnlyByRequests'
    <3>1. CASE Halfway = {t}
      BY <1>2, <3>1 DEF SendRest, TornOnlyByRequests
    <3>2. CASE Halfway # {t}
      <4>1. t \in Halfway
        BY <1>2 DEF SendRest, Halfway
      <4>2. PICK u \in Halfway : u # t
        BY <3>2, <4>1
      <4>3. u \in Threads /\ Sending(t) /\ Sending(u)
        BY <4>1, <4>2 DEF Halfway, Sending
      <4>4. th[t].frame = "REQUEST" \/ th[u].frame = "REQUEST"
        BY <4>2, <4>3, OneIsRequest
      <4> QED
        BY <1>2, <3>2, <4>1, <4>2, <4>4 DEF SendRest, TornOnlyByRequests
    <3> QED
      BY <3>1, <3>2
  <2> QED
    BY <2>1, <2>2, <2>3, <2>4
<1>3. CASE SendFails(t)
  <2>1. Typed' /\ AnnouncedHeld'
    BY <1>3 DEF SendFails, Typed, AnnouncedHeld, ThreadState, ConnState, Resting, Unlocked
  <2>2. FramesLocked'
    BY <1>3 DEF SendFails, Typed, FramesLocked, ThreadState, Resting, Unlocked, Sending
  <2>3. AvailabilityExact' /\ TornOnlyByRequests'
    BY <1>3 DEF SendFails, AvailabilityExact, TornOnlyByRequests, Typed, ConnState
  <2> QED
    BY <2>1, <2>2, <2>3
<1> QED
  BY <1>1, <1>2, <1>3 DEF SendStep

\* An announcement takes the mutex, marks the piece in bitfield_ and begins a
\* frame if the connection stands.
LEMMA AnnounceKeeps ==
    ASSUME IInv, NEW t \in Threads, set_have_piece(t)
    PROVE  IInv'
<1> USE DEF IInv
<1>1. th[t].piece \in have /\ th[t].piece \in Pieces
  BY DEF set_have_piece, AnnouncedHeld, Typed
<1>2. Typed'
  <2>1. conn' \in ConnState /\ have' \subseteq Pieces
    BY <1>1 DEF set_have_piece, Typed, ConnState
  <2>2. mutex' \in Threads \union {Nobody}
    BY DEF set_have_piece, Typed
  <2>3. th' \in [Threads -> ThreadState]
    BY <1>1, EnterTyped DEF set_have_piece
  <2> QED
    BY <2>1, <2>2, <2>3 DEF Typed
<1>3. AnnouncedHeld'
  BY DEF set_have_piece, Enter, Typed, AnnouncedHeld, Resting
<1>4. FramesLocked'
  BY DEF set_have_piece, Enter, Typed, FramesLocked, Resting, Sending
<1>5. AvailabilityExact'
  BY <1>1 DEF set_have_piece, AvailabilityExact, Typed, ConnState
<1>6. TornOnlyByRequests'
  BY DEF set_have_piece, TornOnlyByRequests
<1> QED
  BY <1>2, <1>3, <1>4, <1>5, <1>6

\* The buffer of the handshake is emptied.
LEMMA Rewound ==
    \A c \in ConnState :
      /\ [c EXCEPT !.stage = "failed", !.received = 0] \in ConnState
      /\ [c EXCEPT !.stage = "closed", !.received = 0] \in ConnState
      /\ [c EXCEPT !.stage = "ready", !.received = 0, !.am_choking = FALSE] \in ConnState
<1> TAKE c \in ConnState
<1>1. /\ [c EXCEPT !.stage = "failed"] \in ConnState
      /\ [c EXCEPT !.stage = "closed"] \in ConnState
      /\ [c EXCEPT !.stage = "ready"] \in ConnState
  BY DEF ConnState
<1>2. \A d \in ConnState : [d EXCEPT !.received = 0] \in ConnState
  BY DEF ConnState
<1>3. \A d \in ConnState : [d EXCEPT !.am_choking = FALSE] \in ConnState
  BY DEF ConnState
<1> QED
  BY <1>1, <1>2, <1>3

\* The handshake and disconnect() touch the flags of the object only.
LEMMA FlagsKeep ==
    ASSUME IInv, Handshake \/ disconnect
    PROVE  IInv'
<1> USE DEF IInv
<1>1. UNCHANGED <<mutex, th, have, theirs, torn>>
  BY DEF Handshake, SendHandshake, RespondToHandshake, StartThread, ReceiveHandshake, disconnect
<1>2. conn' \in ConnState /\ conn'.bitfield = conn.bitfield
  <2>1. CASE SendHandshake
    BY <2>1 DEF SendHandshake, Typed, ConnState
  <2>2. CASE RespondToHandshake
    BY <2>2 DEF RespondToHandshake, Typed, ConnState
  <2>3. CASE StartThread
    BY <2>3 DEF StartThread, Typed, ConnState
  <2>4. CASE \E n \in 0 .. HandshakeSize, valid \in BOOLEAN : ReceiveHandshake(n, valid)
    <3>1. \/ conn' = [conn EXCEPT !.stage = "ready", !.received = 0, !.am_choking = FALSE]
          \/ conn' = [conn EXCEPT !.stage = "failed", !.received = 0]
      BY <2>4 DEF ReceiveHandshake
    <3>2. [conn EXCEPT !.stage = "failed", !.received = 0] \in ConnState
      BY Rewound DEF Typed
    <3>3. [conn EXCEPT !.stage = "ready", !.received = 0, !.am_choking = FALSE] \in ConnState
      BY Rewound DEF Typed
    <3> QED
      BY <3>1, <3>2, <3>3 DEF Typed, ConnState
  <2>5. CASE disconnect
    <3>1. \/ conn' = [conn EXCEPT !.connected = FALSE]
          \/ conn' = [conn EXCEPT !.stage = "closed", !.received = 0]
      BY <2>5 DEF disconnect
    <3>2. [conn EXCEPT !.stage = "closed", !.received = 0] \in ConnState
      BY Rewound DEF Typed
    <3>3. [conn EXCEPT !.connected = FALSE] \in ConnState
      BY DEF Typed, ConnState
    <3> QED
      BY <3>1, <3>2, <3>3 DEF Typed, ConnState
  <2> QED
    BY <2>1, <2>2, <2>3, <2>4, <2>5 DEF Handshake
<1> QED
  BY <1>1, <1>2 DEF Typed, AnnouncedHeld, FramesLocked, AvailabilityExact, TornOnlyByRequests, Sending

\* What the remote sends.
LEMMA MessageKeeps ==
    ASSUME IInv, Message
    PROVE  IInv'
<1> USE DEF IInv
<1>1. CASE (\E value \in BOOLEAN : CT_Choke(value)) \/ CT_Lost
  <2>1. UNCHANGED <<mutex, th, have, theirs, torn>>
    BY <1>1 DEF CT_Choke, CT_Lost
  <2>2. conn' \in ConnState /\ conn'.bitfield = conn.bitfield
    BY <1>1 DEF CT_Choke, CT_Lost, Typed, ConnState
  <2> QED
    BY <2>1, <2>2 DEF Typed, AnnouncedHeld, FramesLocked, AvailabilityExact, TornOnlyByRequests, Sending
<1>2. ASSUME NEW i \in Pieces, CT_Have(i) PROVE IInv'
  <2>1. Typed' /\ AvailabilityExact'
    BY <1>2 DEF CT_Have, Typed, ConnState, AvailabilityExact
  <2>2. AnnouncedHeld' /\ FramesLocked' /\ TornOnlyByRequests'
    BY <1>2 DEF CT_Have, AnnouncedHeld, FramesLocked, TornOnlyByRequests, Sending
  <2> QED
    BY <2>1, <2>2
<1>3. ASSUME NEW covered \in SUBSET Pieces, NEW set \in SUBSET covered, CT_Bitfield(covered, set)
      PROVE  IInv'
  <2>1. Typed' /\ AvailabilityExact'
    BY <1>3 DEF CT_Bitfield, Typed, ConnState, AvailabilityExact
  <2>2. AnnouncedHeld' /\ FramesLocked' /\ TornOnlyByRequests'
    BY <1>3 DEF CT_Bitfield, AnnouncedHeld, FramesLocked, TornOnlyByRequests, Sending
  <2> QED
    BY <2>1, <2>2
<1>4. ASSUME NEW i \in Pieces, NEW b \in Blocks, CT_Request(i, b[1], b[2]) PROVE IInv'
  <2>1. Typed' /\ AnnouncedHeld'
    <3>1. Enter("ct", "PIECE", i, TRUE) /\ mutex' = "ct" /\ UNCHANGED <<conn, have>>
      BY <1>4 DEF CT_Request
    <3> QED
      BY <3>1, EnterTyped DEF Typed, AnnouncedHeld
  <2>2. FramesLocked'
    BY <1>4 DEF CT_Request, Receives, Enter, Typed, ThreadState, FramesLocked, Sending
  <2>3. AvailabilityExact' /\ TornOnlyByRequests'
    BY <1>4 DEF CT_Request, AvailabilityExact, TornOnlyByRequests
  <2> QED
    BY <2>1, <2>2, <2>3
<1>5. ASSUME NEW i \in Pieces, NEW b \in Blocks, CT_Ignore(i, b[1], b[2]) PROVE IInv'
  BY <1>5 DEF CT_Ignore, vars, Typed, AnnouncedHeld, FramesLocked, AvailabilityExact,
              TornOnlyByRequests, Sending
<1>6. ASSUME NEW i \in Pieces, NEW verified \in BOOLEAN, CT_Piece(i, verified) PROVE IInv'
  <2> DEFINE new == [pc |-> "announce", frame |-> "none", piece |-> i, locked |-> FALSE]
  <2>0. \/ th' = [th EXCEPT !["ct"] = new] /\ have' = have \union {i}
        \/ UNCHANGED <<th, have>>
    BY <1>6 DEF CT_Piece, Resting
  <2>a. new \in ThreadState /\ new.pc = "announce" /\ new.piece = i
    BY DEF ThreadState
  <2> HIDE DEF new
  <2>1. Typed' /\ AnnouncedHeld'
    BY <1>6, <2>0, <2>a DEF CT_Piece, Typed, AnnouncedHeld
  <2>2. FramesLocked'
    BY <1>6, <2>0, <2>a DEF CT_Piece, Typed, FramesLocked, Sending
  <2>3. AvailabilityExact' /\ TornOnlyByRequests'
    BY <1>6 DEF CT_Piece, AvailabilityExact, TornOnlyByRequests
  <2> QED
    BY <2>1, <2>2, <2>3
<1> QED
  BY <1>1, <1>2, <1>3, <1>4, <1>5, <1>6 DEF Message

\* The loop of peer_worker, and a piece verified by another connection.
LEMMA OthersKeep ==
    ASSUME IInv, PeerWorker \/ \E i \in Pieces : OT_Verified(i)
    PROVE  IInv'
<1> USE DEF IInv
<1>1. ASSUME NEW i \in Pieces, PW_Interested(i) PROVE IInv'
  <2>1. Typed' /\ AnnouncedHeld'
    <3>1. /\ Enter("pw", "INTERESTED", Nobody, TRUE)
          /\ mutex' \in {"pw", Nobody} /\ UNCHANGED have
      BY <1>1 DEF PW_Interested
    <3>2. conn' \in ConnState
      BY <1>1 DEF PW_Interested, Typed, ConnState
    <3> QED
      BY <3>1, <3>2, EnterTyped DEF Typed, AnnouncedHeld
  <2>2. FramesLocked'
    <3>1. mutex = Nobody /\ th["pw"].pc = "idle"
      BY <1>1 DEF PW_Interested, Selected
    <3>2. \A t \in Threads : Sending(t) => ~th[t].locked /\ th[t].frame = "REQUEST"
      BY <3>1 DEF FramesLocked
    <3>3. CASE conn.connected
      BY <1>1, <3>2, <3>3 DEF PW_Interested, Enter, Typed, FramesLocked, Sending
    <3>4. CASE ~conn.connected
      BY <1>1, <3>2, <3>4 DEF PW_Interested, Enter, Typed, FramesLocked, Sending, Resting
    <3> QED
      BY <3>3, <3>4
  <2>3. AvailabilityExact' /\ TornOnlyByRequests'
    BY <1>1 DEF PW_Interested, Typed, ConnState, AvailabilityExact, TornOnlyByRequests
  <2> QED
    BY <2>1, <2>2, <2>3
<1>2. ASSUME NEW i \in Pieces, PW_Request(i) PROVE IInv'
  <2>1. Typed' /\ AnnouncedHeld'
    <3>1. Enter("pw", "REQUEST", i, FALSE) /\ UNCHANGED <<conn, mutex, have>>
      BY <1>2 DEF PW_Request
    <3> QED
      BY <3>1, EnterTyped DEF Typed, AnnouncedHeld
  <2>2. FramesLocked'
    <3>1. \A t \in Threads \ {"pw"} : th'[t] = th[t]
      BY <1>2 DEF PW_Request, Enter, Typed
    <3>2. th'["pw"].pc = "first" =>
             th'["pw"].locked = FALSE /\ th'["pw"].frame = "REQUEST"
      BY <1>2 DEF PW_Request, Enter, Typed, Resting
    <3>3. th'["pw"].pc \in {"idle", "first"} /\ mutex' = mutex
      BY <1>2 DEF PW_Request, Enter, Typed, Resting
    <3> QED
      BY <3>1, <3>2, <3>3 DEF FramesLocked, Sending
  <2>3. AvailabilityExact' /\ TornOnlyByRequests'
    BY <1>2 DEF PW_Request, AvailabilityExact, TornOnlyByRequests
  <2> QED
    BY <2>1, <2>2, <2>3
<1>3. ASSUME NEW i \in Pieces, OT_Verified(i) PROVE IInv'
  <2>1. Typed' /\ AnnouncedHeld'
    BY <1>3 DEF OT_Verified, Typed, ThreadState, AnnouncedHeld, Resting
  <2>2. FramesLocked'
    BY <1>3 DEF OT_Verified, Typed, ThreadState, FramesLocked, Resting, Sending
  <2>3. AvailabilityExact' /\ TornOnlyByRequests'
    BY <1>3 DEF OT_Verified, AvailabilityExact, TornOnlyByRequests
  <2> QED
    BY <2>1, <2>2, <2>3
<1> QED
  BY <1>1, <1>2, <1>3 DEF PeerWorker

LEMMA StutterKeeps == IInv /\ UNCHANGED vars => IInv'
BY DEF IInv, vars, Typed, AnnouncedHeld, FramesLocked, AvailabilityExact,
       TornOnlyByRequests, Sending

\* The inductive invariant holds throughout.
THEOREM Invariance == Spec => []IInv
<1>1. IInv /\ [Next]_vars => IInv'
  <2> SUFFICES ASSUME IInv, Next PROVE IInv'
    BY StutterKeeps
  <2>1. CASE Handshake \/ disconnect
    BY <2>1, FlagsKeep
  <2>2. CASE Message
    BY <2>2, MessageKeeps
  <2>3. CASE PeerWorker \/ \E i \in Pieces : OT_Verified(i)
    BY <2>3, OthersKeep
  <2>4. ASSUME NEW t \in Threads, SendStep(t) \/ set_have_piece(t) PROVE IInv'
    BY <2>4, SendKeeps, AnnounceKeeps
  <2> QED
    BY <2>1, <2>2, <2>3, <2>4 DEF Next
<1> QED
  BY InitIInv, <1>1, PTL DEF Spec

\* bitfield_, shared by both directions, misleads no download, whatever the remote
\* sends and whoever announces pieces meanwhile.
THEOREM NoPhantomPieces == Spec => []AvailabilityExact
<1>1. IInv => AvailabilityExact
  BY DEF IInv
<1> QED
  BY Invariance, <1>1, PTL

\* Frames of send_message mix on the wire only where send_request takes part.
THEOREM OnlyRequestsTear == Spec => []TornOnlyByRequests
<1>1. IInv => TornOnlyByRequests
  BY DEF IInv
<1> QED
  BY Invariance, <1>1, PTL

-----------------------------------------------------------------------------
(* What set_interested notes and what the remote hears.                     *)

\* A step that leaves the flag, and what the worker of the torrent sends, alone.
LEMMA InterestFrame ==
    ASSUME Typed, InterestInv,
           conn'.am_interested = conn.am_interested,
           conn'.connected => conn.connected \/ conn.stage = "ready",
           conn'.stage \in {"new", "accepted", "handshaking", "ready"} =>
             conn.stage \in {"new", "accepted", "handshaking", "ready"},
           told' \in ToldState, told.interested => told'.interested,
           th'["pw"] = th["pw"]
    PROVE  InterestInv'
BY DEF InterestInv, InterestLate, InterestTold, Sending

LEMMA InterestStep == IInv /\ InterestInv /\ [Next]_vars => InterestInv'
<1> SUFFICES ASSUME Typed, InterestInv, [Next]_vars PROVE InterestInv'
  BY DEF IInv
<1>1. CASE Handshake
  <2>1. th' = th /\ told' \in ToldState /\ (told.interested => told'.interested)
    <3>1. CASE UNCHANGED told
      BY <1>1, <3>1
         DEF InterestInv, Handshake, SendHandshake, RespondToHandshake, StartThread, ReceiveHandshake
    <3>2. CASE told' = [told EXCEPT !.unchoked = TRUE]
      BY <1>1, <3>2
         DEF InterestInv, ToldState, Handshake, SendHandshake, RespondToHandshake, StartThread, ReceiveHandshake
    <3> QED
      BY <1>1, <3>1, <3>2
         DEF Handshake, SendHandshake, RespondToHandshake, StartThread, ReceiveHandshake,
             TellFirst
  <2>2. /\ conn'.am_interested = conn.am_interested
        /\ conn'.connected => conn.connected \/ conn.stage = "ready"
        /\ conn.stage \in {"new", "accepted", "handshaking", "ready"}
    <3>1. CASE SendHandshake \/ RespondToHandshake
      BY <3>1 DEF SendHandshake, RespondToHandshake, Typed, ConnState
    <3>2. CASE StartThread
      BY <3>2 DEF StartThread, Typed, ConnState
    <3>3. CASE \E n \in 0 .. HandshakeSize, valid \in BOOLEAN : ReceiveHandshake(n, valid)
      BY <3>3 DEF ReceiveHandshake, Typed, ConnState
    <3> QED
      BY <1>1, <3>1, <3>2, <3>3 DEF Handshake
  <2> QED
    BY <2>1, <2>2, InterestFrame
<1>2. CASE Message
  BY <1>2, InterestFrame
     DEF InterestInv, Message, CT_Choke, CT_Have, CT_Bitfield, CT_Request, CT_Ignore, CT_Piece, CT_Lost,
         Receives, Enter, Typed, ConnState, vars
<1>3. CASE disconnect
  BY <1>3, InterestFrame DEF InterestInv, disconnect, Typed, ConnState
<1>4. ASSUME NEW i \in Pieces, PW_Interested(i) PROVE InterestInv'
  <2>1. conn'.connected = conn.connected /\ conn'.stage \in {"running", "ended"}
    BY <1>4 DEF PW_Interested, Selected, Typed, ConnState
  <2>2. conn.connected => th'["pw"].pc = "first" /\ th'["pw"].frame = "INTERESTED"
    BY <1>4 DEF PW_Interested, Enter, Typed
  <2>3. told' = told
    BY <1>4 DEF PW_Interested
  <2> QED
    BY <2>1, <2>2, <2>3 DEF InterestInv, InterestLate, InterestTold, Sending
<1>5. ASSUME NEW i \in Pieces, PW_Request(i) PROVE InterestInv'
  BY <1>5 DEF PW_Request, Selected, Enter, Resting, InterestInv, InterestLate, InterestTold,
              Sending, Typed, ConnState
<1>6. ASSUME NEW i \in Pieces, OT_Verified(i) PROVE InterestInv'
  BY <1>6, InterestFrame DEF InterestInv, OT_Verified, Typed
<1>7. ASSUME NEW t \in Threads, SendPart(t) PROVE InterestInv'
  BY <1>7 DEF SendPart, InterestInv, InterestLate, InterestTold, Sending, Typed, ThreadState
<1>8. ASSUME NEW t \in Threads, SendRest(t) PROVE InterestInv'
  BY <1>8 DEF ToldState, SendRest, Tell, InterestInv, InterestLate, InterestTold, Sending, Typed, ThreadState
<1>9. ASSUME NEW t \in Threads, SendFails(t) PROVE InterestInv'
  BY <1>9 DEF SendFails, InterestInv, InterestLate, InterestTold, Typed, ConnState
<1>10. ASSUME NEW t \in Threads, set_have_piece(t) PROVE InterestInv'
  BY <1>10 DEF set_have_piece, Enter, InterestInv, InterestLate, InterestTold, Sending, Typed,
               ConnState, ThreadState, Resting
<1>11. CASE UNCHANGED vars
  BY <1>11, InterestFrame DEF InterestInv, vars
<1> QED
  BY <1>1, <1>2, <1>3, <1>4, <1>5, <1>6, <1>7, <1>8, <1>9, <1>10, <1>11
     DEF Next, PeerWorker, SendStep

\* am_interested_ never claims what the remote was not told, whenever the connection
\* is lost or the frame is interrupted.
THEOREM InterestIsTold == Spec => []InterestTold
<1>1. Init => InterestInv
  BY DEF Init, ToldState, InterestInv, InterestLate, InterestTold
<1>2. IInv /\ InterestInv /\ [Next]_vars => InterestInv'
  BY InterestStep
<1>3. InterestInv => InterestTold
  BY DEF InterestInv
<1> QED
  BY Invariance, <1>1, <1>2, <1>3, PTL DEF Spec
=============================================================================
