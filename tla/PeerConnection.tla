--------------------------- MODULE PeerConnection ---------------------------
(***************************************************************************)
(* One PeerConnection (peer/connection.cpp) and the threads that use it:   *)
(* the thread that shakes hands (connection_worker or tcp_listener), the   *)
(* connection's own thread ct, peer_worker pw, and a connection thread ot  *)
(* of another peer that announces a piece.  The remote peer may send any   *)
(* message at any time, stay silent or close.                              *)
(*                                                                         *)
(* bitfield_ starts as our own bitfield and then takes what the remote     *)
(* announces and what we announce.  send_message writes a frame in several *)
(* calls; some callers hold the connection's mutex and some do not.        *)
(***************************************************************************)
EXTENDS Integers, Sequences, FiniteSets

CONSTANTS
    Pieces,
    PieceLength,   \* bytes of a piece
    Blocks,        \* the pairs <<begin, length>> a remote may request
    U32,           \* 2^32; smaller in instances, as TLC's integers are
    HandshakeSize  \* 68

ASSUME ConnectionAssumption ==
    /\ PieceLength \in Nat \ {0}
    /\ U32 \in Nat /\ PieceLength < U32
    /\ Blocks \subseteq (0 .. U32 - 1) \X (0 .. U32 - 1)
    /\ HandshakeSize \in Nat \ {0}

Threads == {"ct", "pw", "ot"}
Nobody == "nobody"

VARIABLES
    conn,       \* the object's own state
    mutex,      \* mutex_: the thread that holds it
    th,         \* where each thread is and the frame it sends
    have,       \* PieceManager's bitfield
    requested,  \* pieces all of whose blocks are requested
    theirs,     \* history: what the remote announced last
    told,       \* history: what the remote was told
    torn        \* history: the kinds of frames mixed up last

vars == <<conn, mutex, th, have, requested, theirs, told, torn>>

Resting == [pc |-> "idle", frame |-> "none", piece |-> Nobody, locked |-> FALSE]

\* The constructors: an outgoing connection has no socket yet.  peer_interested_
\* and dht_port_ are left out, nothing reads them.
Init ==
    /\ have \in SUBSET Pieces
    /\ \E stage \in {"new", "accepted"} :
         conn = [stage |-> stage, connected |-> FALSE, received |-> 0, unsent |-> FALSE,
                 am_choking |-> TRUE, am_interested |-> FALSE,
                 peer_choking |-> TRUE, bitfield |-> have]
    /\ mutex = Nobody
    /\ th = [t \in Threads |-> Resting]
    /\ requested = {}
    /\ theirs = {}
    /\ told = [unchoked |-> FALSE, interested |-> FALSE]
    /\ torn = {}

-----------------------------------------------------------------------------
(* Sending *)

Sending(t) == th[t].pc \in {"first", "rest"}
Halfway == {t \in Threads : th[t].pc = "rest"}

\* Thread t enters send_message; nothing happens when connected_ is false.
Enter(t, frame, piece, locked) ==
    IF conn.connected
    THEN th' = [th EXCEPT ![t] = [pc |-> "first", frame |-> frame, piece |-> piece,
                                  locked |-> locked]]
    ELSE th' = [th EXCEPT ![t] = Resting]

\* send() writes a part of the frame; the kernel may let another thread write
\* before the rest.
SendPart(t) ==
    /\ th[t].pc = "first"
    /\ th' = [th EXCEPT ![t].pc = "rest"]
    /\ torn' = IF Halfway = {} THEN torn
               ELSE {th[t].frame} \union {th[u].frame : u \in Halfway}
    /\ UNCHANGED <<conn, mutex, have, requested, theirs, told>>

Unlocked(t) == IF th[t].locked THEN Nobody ELSE mutex

Tell(t) ==
    told' = IF th[t].frame = "INTERESTED" THEN [told EXCEPT !.interested = TRUE] ELSE told

SendRest(t) ==
    /\ th[t].pc = "rest"
    /\ Tell(t)
    /\ th' = [th EXCEPT ![t] = Resting]
    /\ mutex' = Unlocked(t)
    /\ torn' = IF Halfway = {t} THEN torn
               ELSE {th[u].frame : u \in Halfway}
    /\ UNCHANGED <<conn, have, requested, theirs>>

\* send() fails: the connection is marked as lost.
SendFails(t) ==
    /\ Sending(t)
    /\ conn' = [conn EXCEPT !.connected = FALSE]
    /\ th' = [th EXCEPT ![t] = Resting]
    /\ mutex' = Unlocked(t)
    /\ UNCHANGED <<have, requested, theirs, told, torn>>

-----------------------------------------------------------------------------
(* Shaking hands *)

\* start_connect, check_connect_result and send_handshake of connection_worker.
\* What send() did not take waits in write_buffer_, which nobody flushes.
SendHandshake ==
    /\ conn.stage = "new"
    /\ \/ \E unsent \in BOOLEAN :
            conn' = [conn EXCEPT !.stage = "handshaking", !.unsent = unsent]
       \/ conn' = [conn EXCEPT !.stage = "failed"]
    /\ UNCHANGED <<mutex, th, have, requested, theirs, told, torn>>

\* The messages sent before connected_ is set are dropped in send_message.
TellFirst ==
    IF conn.connected
    THEN told' = [told EXCEPT !.unchoked = TRUE]
    ELSE UNCHANGED told

\* receive_handshake_nonblocking, and what connection_worker makes of it: false
\* is a failure, also when more bytes were to come.
ReceiveHandshake(n, valid) ==
    /\ conn.stage = "handshaking"
    /\ n \in 0 .. HandshakeSize - conn.received
    /\ IF n = HandshakeSize - conn.received /\ valid
       THEN /\ conn' = [conn EXCEPT !.stage = "ready", !.received = 0, !.am_choking = FALSE]
            /\ TellFirst
       ELSE /\ conn' = [conn EXCEPT !.stage = "failed", !.received = 0]
            /\ UNCHANGED told
    /\ UNCHANGED <<mutex, th, have, requested, theirs, torn>>

\* respond_to_handshake of tcp_listener.
RespondToHandshake ==
    /\ conn.stage = "accepted"
    /\ \/ conn' = [conn EXCEPT !.stage = "ready", !.am_choking = FALSE] /\ TellFirst
       \/ conn' = [conn EXCEPT !.stage = "failed"] /\ UNCHANGED told
    /\ UNCHANGED <<mutex, th, have, requested, theirs, torn>>

\* start()
StartThread ==
    /\ conn.stage = "ready"
    /\ conn' = [conn EXCEPT !.stage = "running", !.connected = TRUE]
    /\ UNCHANGED <<mutex, th, have, requested, theirs, told, torn>>

-----------------------------------------------------------------------------
(* The connection's thread: run, receive_message, handle_message *)

Receives ==
    /\ conn.stage = "running" /\ conn.connected
    /\ th["ct"].pc = "idle"
    /\ mutex = Nobody

\* CHOKE and UNCHOKE.
CT_Choke(value) ==
    /\ Receives
    /\ conn' = [conn EXCEPT !.peer_choking = value]
    /\ UNCHANGED <<mutex, th, have, requested, theirs, told, torn>>

CT_Have(i) ==
    /\ Receives
    /\ conn' = [conn EXCEPT !.bitfield = @ \union {i}]
    /\ theirs' = theirs \union {i}
    /\ UNCHANGED <<mutex, th, have, requested, told, torn>>

\* Mutant: a bitfield only adds pieces.
BitfieldAdds(covered, set) ==
    /\ Receives
    /\ conn' = [conn EXCEPT !.bitfield = @ \union set]
    /\ theirs' = (theirs \ covered) \union set
    /\ UNCHANGED <<mutex, th, have, requested, told, torn>>

\* BITFIELD: the payload may cover a part of the pieces only.
CT_Bitfield(covered, set) ==
    /\ Receives
    /\ conn' = [conn EXCEPT !.bitfield = (@ \ covered) \union set]
    /\ theirs' = (theirs \ covered) \union set
    /\ UNCHANGED <<mutex, th, have, requested, told, torn>>

\* begin + length <= piece_data.size(), in 32 bits.
Fits(begin, length) == (begin + length) % U32 <= PieceLength

\* "If we have the piece and are not choking": the first test is of bitfield_, the
\* second, in read_piece, of what we have.
Served(i, begin, length) ==
    ~conn.am_choking /\ i \in conn.bitfield /\ i \in have /\ Fits(begin, length)

\* REQUEST: the answer goes out under the mutex.
CT_Request(i, begin, length) ==
    /\ Receives
    /\ Served(i, begin, length)
    /\ Enter("ct", "PIECE", i, TRUE)
    /\ mutex' = "ct"
    /\ UNCHANGED <<conn, have, requested, theirs, told, torn>>

\* Not served, or the piece's files cannot be read.
CT_Ignore(i, begin, length) ==
    /\ Receives
    /\ UNCHANGED vars

\* PIECE: the callback runs without the mutex; it may complete and verify the
\* piece, and then announces it to this peer too.
CT_Piece(i, verified) ==
    /\ Receives
    /\ IF verified
       THEN /\ i \in requested \ have
            /\ have' = have \union {i}
            /\ th' = [th EXCEPT !["ct"] = [Resting EXCEPT !.pc = "announce", !.piece = i]]
       ELSE UNCHANGED <<have, th>>
    /\ UNCHANGED <<conn, mutex, requested, theirs, told, torn>>

\* The remote closes or sends what receive_message refuses; an accepted socket
\* also gives up after three silent seconds.
CT_Lost ==
    /\ conn.stage = "running"
    /\ th["ct"].pc = "idle"
    /\ conn' = [conn EXCEPT !.connected = FALSE, !.stage = "ended"]
    /\ UNCHANGED <<mutex, th, have, requested, theirs, told, torn>>

-----------------------------------------------------------------------------
(* Other threads *)

\* A piece is verified by the thread of another connection.
OT_Verified(i) ==
    /\ th["ot"].pc = "idle"
    /\ i \notin have
    /\ have' = have \union {i}
    /\ th' = [th EXCEPT !["ot"] = IF conn.stage = "running"
                                  THEN [Resting EXCEPT !.pc = "announce", !.piece = i]
                                  ELSE Resting]
    /\ UNCHANGED <<conn, mutex, requested, theirs, told, torn>>

\* Mutant: the announcement is sent without the mutex.
SetHaveUnlocked(t) ==
    /\ th[t].pc = "announce"
    /\ conn' = [conn EXCEPT !.bitfield = @ \union {th[t].piece}]
    /\ Enter(t, "HAVE", th[t].piece, FALSE)
    /\ UNCHANGED <<mutex, have, requested, theirs, told, torn>>

\* set_have_piece of a connection that is_connected.
set_have_piece(t) ==
    /\ th[t].pc = "announce"
    /\ mutex = Nobody
    /\ conn' = [conn EXCEPT !.bitfield = @ \union {th[t].piece}]
    /\ Enter(t, "HAVE", th[t].piece, TRUE)
    /\ mutex' = IF conn.connected THEN t ELSE Nobody
    /\ UNCHANGED <<have, requested, theirs, told, torn>>

\* peer_worker selects one piece for the whole swarm, any that is missing and not
\* fully requested: the bitfields of the other peers decide.  This peer is told or
\* asked only if it has that one; it is left alone while the torrent is paused, and
\* for good when the completion reaches 100 percent early.  is_connected() was
\* tested a moment before.
Selected(i) ==
    /\ i \notin have \union requested
    /\ i \in conn.bitfield
    /\ conn.stage \in {"running", "ended"}
    /\ th["pw"].pc = "idle"

\* Mutant: set_interested sets its flag and forgets the message.
InterestedUnsaid(i) ==
    /\ Selected(i)
    /\ mutex = Nobody
    /\ conn.peer_choking /\ ~conn.am_interested
    /\ conn' = [conn EXCEPT !.am_interested = TRUE]
    /\ UNCHANGED <<mutex, th, have, requested, theirs, told, torn>>

\* set_interested, while the peer chokes us.
PW_Interested(i) ==
    /\ Selected(i)
    /\ mutex = Nobody
    /\ conn.peer_choking /\ ~conn.am_interested
    /\ conn' = [conn EXCEPT !.am_interested = TRUE]
    /\ Enter("pw", "INTERESTED", Nobody, TRUE)
    /\ mutex' = IF conn.connected THEN "pw" ELSE Nobody
    /\ UNCHANGED <<have, requested, theirs, told, torn>>

\* request_block and send_request, without the connection's mutex.
PW_Request(i) ==
    /\ Selected(i)
    /\ ~conn.peer_choking
    /\ requested' = requested \union {i}
    /\ Enter("pw", "REQUEST", i, FALSE)
    /\ UNCHANGED <<conn, mutex, have, theirs, told, torn>>

\* disconnect(): connected_ is cleared, the join waits for the thread, which may
\* be in recv(), and then the socket is closed.
disconnect ==
    /\ \/ /\ conn.stage = "running" /\ conn.connected
          /\ conn' = [conn EXCEPT !.connected = FALSE]
       \/ /\ conn.stage \in {"ended", "failed"}
          /\ th = [t \in Threads |-> Resting]
          /\ conn' = [conn EXCEPT !.stage = "closed", !.received = 0]
    /\ UNCHANGED <<mutex, th, have, requested, theirs, told, torn>>

-----------------------------------------------------------------------------

Message ==
    \/ \E value \in BOOLEAN : CT_Choke(value)
    \/ \E i \in Pieces : CT_Have(i)
    \/ \E covered \in SUBSET Pieces : \E set \in SUBSET covered : CT_Bitfield(covered, set)
    \/ \E i \in Pieces : \E b \in Blocks :
         CT_Request(i, b[1], b[2]) \/ CT_Ignore(i, b[1], b[2])
    \/ \E i \in Pieces, verified \in BOOLEAN : CT_Piece(i, verified)
    \/ CT_Lost

Handshake ==
    \/ SendHandshake \/ RespondToHandshake \/ StartThread
    \/ \E n \in 0 .. HandshakeSize, valid \in BOOLEAN : ReceiveHandshake(n, valid)

SendStep(t) == SendPart(t) \/ SendRest(t) \/ SendFails(t)

PeerWorker == \E i \in Pieces : PW_Interested(i) \/ PW_Request(i)

Next ==
    \/ Handshake \/ Message \/ PeerWorker \/ disconnect
    \/ \E i \in Pieces : OT_Verified(i)
    \/ \E t \in Threads : SendStep(t) \/ set_have_piece(t)

Spec == Init /\ [][Next]_vars

-----------------------------------------------------------------------------
(* Properties *)

\* bitfield_ serves two masters and misleads no download: it holds all the remote
\* announced last, and of the other pieces only such as we have ourselves.  So
\* select_rarest_piece never counts a piece we lack for a peer that lacks it.
AvailabilityExact ==
    conn.bitfield \ have \subseteq theirs /\ theirs \subseteq conn.bitfield

\* Whoever interrupts whom, frames are mixed up on the wire only where a REQUEST
\* takes part, the one message that is sent without the connection's mutex.
TornOnlyByRequests == torn # {} => "REQUEST" \in torn

\* am_interested_ says what the remote was told: the message is out or on its way,
\* or the connection is lost.  set_interested sends it once and never again, so a
\* flag set for a message that is dropped, as of UNCHOKE below, would be for good.
InterestTold ==
    conn.am_interested =>
      \/ told.interested
      \/ Sending("pw") /\ th["pw"].frame = "INTERESTED"
      \/ ~conn.connected

\* "Become willing to upload": a peer that is not choked has been told.
UnchokeTold == conn.stage = "running" /\ ~conn.am_choking => told.unchoked
=============================================================================
