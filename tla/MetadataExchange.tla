-------------------------- MODULE MetadataExchange --------------------------
(***************************************************************************)
(* MetadataExchange (peer/metadata_exchange.cpp) over ExtensionProtocol    *)
(* (peer/extension_protocol.cpp): the info dictionary of a magnet link is  *)
(* collected piece by piece from every peer that offers it.  One exchange  *)
(* serves all peers: the size and the extension id it keeps are those of   *)
(* whichever handshake came first and last.  A peer may announce any size  *)
(* and id, and send any piece, wrong, short, twice or unasked for.         *)
(*                                                                         *)
(* A message is a record: how many id bytes stand before its dictionary,   *)
(* whether the dictionary is one, its fields, and the bytes after it.      *)
(***************************************************************************)
EXTENDS Integers, Sequences, SequencesExt, FiniteSets

CONSTANTS
    Peers,
    Info,       \* the metadata whose hash the magnet link names
    Bytes,      \* what a byte of metadata may be
    Sizes,      \* the metadata sizes peers announce, as size_t; 0: none
    Ids,        \* the values of "ut_metadata" peers announce
    PieceSize,  \* METADATA_PIECE_SIZE
    DataMax,    \* bound: the longest data a peer sends
    U8,         \* 2^8, smaller in instances
    SizeMod     \* 2^64, smaller in instances

ASSUME MetadataAssumption ==
    /\ Info \in Seq(Bytes) /\ Info # <<>>
    /\ PieceSize \in Nat \ {0}
    /\ DataMax \in Nat /\ SizeMod \in Nat /\ U8 \in Nat \ {0}
    /\ Sizes \subseteq 0 .. SizeMod - 1
    /\ Ids \subseteq Nat
    /\ Len(Info) + PieceSize < SizeMod

None == [none |-> TRUE]   \* an empty std::optional
Some(v) == [some |-> v]
NoRoom == [noRoom |-> TRUE]   \* a flag of piece_status_ without its piece

VARIABLES
    size,      \* metadata_size_
    utId,      \* peer_ut_metadata_id_
    received,  \* piece_status_ with received_pieces_: None, NoRoom or Some(data)
    metadata,  \* complete_metadata_
    complete,  \* metadata_complete_
    called,    \* history: what complete_callback_ was called with
    sent       \* the messages the last step sent, with their peer

vars == <<size, utId, received, metadata, complete, called, sent>>

Data == UNION {[1 .. n -> Bytes] : n \in 0 .. DataMax}

-----------------------------------------------------------------------------
(* ExtensionProtocol.  A peer's dictionaries may lack any key; one with a   *)
(* key of another type reads as one without it.                             *)

\* Our own id of ut_metadata.
UT_METADATA == 1

\* parse_extended_handshake of a dictionary; a "m" of its own replaces what an
\* earlier one said, but each call starts from a new ExtensionProtocol.
parse_extended_handshake(h) ==
    IF ~h.ok THEN None
    ELSE Some([id |-> IF h.m = None THEN None ELSE Some(h.m.some % U8), size |-> h.size])

\* The handshake this program would send: the size only when it is known.
build_extended_handshake(n) == [ok |-> TRUE, m |-> Some(UT_METADATA), size |-> n]

Message(type, piece, data) ==
    [ids |-> 1, ok |-> TRUE, msg_type |-> type, piece |-> piece, data |-> data]
build_metadata_request(i) == Message(0, i, <<>>)
build_metadata_data(i, data) == Message(1, i, data)
build_metadata_reject(i) == Message(2, i, <<>>)

\* send_extended_message puts the id before a payload that already has one.
send_extended_message(id, payload) == [id |-> id, payload |-> [payload EXCEPT !.ids = @ + 1]]

\* parse_metadata_message is given what follows the id byte that selected it;
\* a further id byte is not the beginning of a dictionary.
parse_metadata_message(payload) == payload.ok /\ payload.ids = 0

\* The extended message dispatcher, which is not written yet: it strips one id.
Dispatch(payload) == [payload EXCEPT !.ids = @ - 1]

-----------------------------------------------------------------------------
NumPiecesFloor(n) == n \div PieceSize   \* mutant: rounds down

\* The number of pieces, computed in size_t.
NumPieces(n) == ((n + PieceSize - 1) % SizeMod) \div PieceSize

AllIn(r) == \A i \in DOMAIN r : r[i] \notin {None, NoRoom}

\* verify_metadata: SHA-1 of the buffer is the info hash.
verify_metadata(buffer) == buffer # <<>> /\ buffer = Info

\* assemble_metadata with the pieces r: a buffer of the right size replaces
\* complete_metadata_ whether or not it verifies.
assemble_metadata(r) ==
    LET buffer == FlattenSeq([i \in DOMAIN r |-> r[i].some])
    IN  IF AllIn(r) /\ Len(buffer) = size.some
        THEN /\ metadata' = buffer
             /\ complete' = (complete \/ verify_metadata(buffer))
             /\ called' = IF verify_metadata(buffer) THEN Append(called, buffer) ELSE called
        ELSE UNCHANGED <<metadata, complete, called>>

Init ==
    /\ size = None /\ utId = None /\ received = <<>>
    /\ metadata = <<>> /\ complete = FALSE /\ called = <<>>
    /\ sent = {}

Handshakes ==
    [ok : BOOLEAN, m : {None} \cup {Some(i) : i \in Ids}, size : Sizes]
      \cup {build_extended_handshake(n) : n \in Sizes}

\* The two resizes: there may be no memory for the first one, or for the second
\* one, when a large size was announced; the exception leaves what was done.
Resized(n) ==
    {<<>>} \cup {[i \in 1 .. NumPieces(n) |-> slot] : slot \in {None, NoRoom}}

\* handle_extension_handshake: the id of the last peer, the size of the first.
handle_extension_handshake ==
    \E h \in Handshakes :
      LET ext == parse_extended_handshake(h)
      IN  /\ ext # None
          /\ utId' = ext.some.id
          /\ IF ext.some.size > 0 /\ size = None
             THEN /\ size' = Some(ext.some.size)
                  /\ received' \in Resized(ext.some.size)
             ELSE UNCHANGED <<size, received>>
          /\ sent' = {}
          /\ UNCHANGED <<metadata, complete, called>>

\* handle_metadata_message, case Request: a reject, when some id is known.
HandleRequest ==
    \E p \in Peers, i \in 0 .. Len(received) :
      LET msg == Dispatch(build_metadata_request(i))
      IN  /\ parse_metadata_message(msg)
          /\ sent' = IF utId = None THEN {}
                     ELSE {<<p, send_extended_message(utId.some, build_metadata_reject(msg.piece))>>}
          /\ UNCHANGED <<size, utId, received, metadata, complete, called>>

StoreAgain(i, data) ==   \* mutant: a piece that came is stored again
    /\ size # None /\ i < Len(received)
    /\ received[i + 1] # NoRoom
    /\ received' = [received EXCEPT ![i + 1] = Some(data)]
    /\ assemble_metadata(received')

\* Case Data: the first bytes that come for a piece are the ones kept.  A piece
\* that has no room is written outside of the empty vector, which ends the process.
Store(i, data) ==
    /\ size # None /\ i < Len(received)
    /\ received[i + 1] = None
    /\ received' = [received EXCEPT ![i + 1] = Some(data)]
    /\ assemble_metadata(received')

HandleData ==
    \E i \in 0 .. Len(received), data \in Data :
      LET msg == Dispatch(build_metadata_data(i, data))
      IN  /\ parse_metadata_message(msg)
          /\ Store(msg.piece, msg.data)
          /\ sent' = {}
          /\ UNCHANGED <<size, utId>>

\* Case Reject, an unknown type or a message that does not parse (the answers
\* this program itself sends among them) change nothing.
HandleOther ==
    \E msg \in {Dispatch(build_metadata_reject(0)), Dispatch(Message(3, 0, <<>>)),
                Dispatch(send_extended_message(UT_METADATA, build_metadata_reject(0)).payload)} :
      /\ sent' = {}
      /\ (parse_metadata_message(msg) => msg.msg_type \notin {0, 1})
      /\ UNCHANGED <<size, utId, received, metadata, complete, called>>

\* request_metadata: every piece that is missing is asked of one peer.
request_metadata ==
    \E p \in Peers :
      /\ utId # None /\ size # None /\ ~complete
      /\ sent' = {<<p, send_extended_message(utId.some, build_metadata_request(i - 1))>> :
                    i \in {j \in DOMAIN received : received[j] \in {None, NoRoom}}}
      /\ UNCHANGED <<size, utId, received, metadata, complete, called>>

Next ==
    \/ handle_extension_handshake
    \/ HandleRequest
    \/ HandleData
    \/ HandleOther
    \/ request_metadata

Spec == Init /\ [][Next]_vars

-----------------------------------------------------------------------------
\* The piece i (from 1) of the true metadata.
RightPiece(i) == SubSeq(Info, (i - 1) * PieceSize + 1, IF i * PieceSize < Len(Info) THEN i * PieceSize ELSE Len(Info))

\* Whatever sizes and pieces the peers of the exchange mix up, the callback of
\* set_metadata_complete_callback is called at most once, with the metadata the
\* magnet link names, and is_complete() and get_metadata() say so from then on
\* (handle_metadata_message, assemble_metadata, verify_metadata).
CompletedOnce ==
    /\ Len(called) <= 1
    /\ complete <=> (Len(called) = 1)
    /\ complete => metadata = Info /\ called[1] = Info

\* When the size kept is the true one, there was memory for its pieces and no wrong
\* piece was kept, the exchange completes as soon as the last piece is in: the
\* number of slots made from the size, the slot a piece goes to and the size test
\* of assemble_metadata agree, for a short last piece too (metadata_exchange.cpp:36, 76, 123-142).
HonestCompletes ==
    (/\ size = Some(Len(Info)) /\ received # <<>>
     /\ \A i \in DOMAIN received : received[i] \in {None, Some(RightPiece(i))}
     /\ AllIn(received)) => complete
=============================================================================
