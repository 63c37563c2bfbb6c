---------------------------- MODULE PieceManager ----------------------------
(***************************************************************************)
(* PieceManager of PixelScrape: the pieces of one torrent, from the block  *)
(* requests of peer_worker through the piece callbacks of the connection   *)
(* threads to the disk thread, up to the destructor.                       *)
(*                                                                         *)
(* Threads: the peer worker (requests), one thread per peer connection     *)
(* (it runs the piece callback), the disk worker, and whoever removes the  *)
(* torrent.  One action is one critical section.  pieces_mutex_ is held    *)
(* within an action only; mutex_ (TorrentManager) is a variable because it *)
(* spans several actions.                                                  *)
(***************************************************************************)
EXTENDS Integers, Sequences, FiniteSets, FiniteSetsExt

CONSTANTS
    NumPieces,     \* metadata_.piece_hashes.size()
    PieceLength,   \* metadata_.piece_length
    TotalLength,   \* metadata_.total_length
    BlockSize,     \* 16384 in the code
    WrongLength,   \* length of a block that is not the data asked for
    Segments,      \* Segments[p] = piece_file_mappings_[p].size()
    Priority,      \* Priority[p] = highest priority of the files of piece p
    Conns,         \* peer connections, each with its thread
    Incoming,      \* those accepted by tcp_listener: other locking
    MaxPerRound,   \* requests per peer_worker iteration (4 in the code)
    MaxDiscarded   \* bound: no wrong block is sent once this much was discarded

Pieces == 0 .. NumPieces - 1

ASSUME SizesAssumption ==
    /\ NumPieces \in Nat \ {0}
    /\ PieceLength \in Nat \ {0}
    /\ BlockSize \in Nat \ {0}
    /\ TotalLength \in Nat \ {0}
    /\ (NumPieces - 1) * PieceLength < TotalLength
    /\ TotalLength <= NumPieces * PieceLength
    /\ WrongLength \in Nat
    /\ MaxPerRound \in Nat \ {0}
    /\ MaxDiscarded \in Nat

ASSUME MappingsAssumption == Segments \in [Pieces -> Nat \ {0}]

ASSUME PriorityAssumption == Priority \in [Pieces -> Nat]

ASSUME ConnsAssumption ==
    /\ IsFiniteSet(Conns)
    /\ Incoming \subseteq Conns
    /\ Conns \cap {"free", "peer_worker", "others"} = {}

-----------------------------------------------------------------------------
(* Sizes *)

PieceSize(p) ==
    LET last == TotalLength % PieceLength IN
    IF p = NumPieces - 1 /\ last # 0 THEN last ELSE PieceLength

TotalBlocks(p) == (PieceSize(p) + BlockSize - 1) \div BlockSize

Blocks(p) == 0 .. TotalBlocks(p) - 1

BlockLength(p, b) ==
    LET left == PieceSize(p) - b * BlockSize IN
    IF left < BlockSize THEN left ELSE BlockSize

\* What a peer sends for a block: its bytes, or anything else.
Payloads == {"good", "wrong"}
NoData == "none"

PayloadSize(p, b, d) ==
    CASE d = "good" -> BlockLength(p, b)
      [] d = "wrong" -> WrongLength
      [] OTHER -> 0

-----------------------------------------------------------------------------
VARIABLES
    have,        \* have_pieces_, as a set
    active,      \* pieces whose PieceDownload is initialised
    requested,   \* blocks_requested
    data,        \* block_data; a block is received iff its data is not NoData
    queue,       \* disk_queue_
    dw,          \* disk_worker: pc, request in hand, mapping it writes
    notified,    \* disk_cv_ was notified while the disk worker slept
    running,     \* disk_running_
    disk,        \* disk[p][s]: what mapping s of piece p holds in its file
    mutex,       \* TorrentManager::mutex_: its owner or "free"; "others" are
                 \* tcp_listener, the API and the threads of other torrents
    cb,          \* cb[c]: the piece callback of connection c
    pw,          \* the download part of peer_worker
    phase,       \* live, removed (from torrents_), closing, destroyed
    downloaded,  \* Torrent::downloaded_bytes, less what load_state restored
    announced,   \* pieces for which HAVE was sent
    (* history *)
    restored,    \* pieces claimed by the saved bitfield
    failed,      \* pieces of which a write did not reach its file
    discarded,   \* bytes thrown away by failed verifications
    ub           \* a destroyed PieceManager was used

pieceVars == <<have, active, requested, data>>
diskVars  == <<queue, dw, notified, running, disk, failed>>
swarmVars == <<mutex, cb, pw, downloaded, announced>>
vars == <<pieceVars, diskVars, swarmVars, phase, restored, discarded, ub>>

Idle == [pc |-> "idle", piece |-> 0, block |-> 0, payload |-> NoData]
Resting == [pc |-> "idle", piece |-> 0, block |-> 0, count |-> 0]
Checking == [pc |-> "check", req |-> <<>>, seg |-> 1]

Empty(p) == [b \in Blocks(p) |-> NoData]

Received(p) == {b \in Blocks(p) : data[p][b] # NoData}
Complete(p) == p \in active /\ Received(p) = Blocks(p)
\* Mutant: the hash covers the first block only.
HashOfFirstBlock(p) == data[p][0] = "good"

HashMatches(p) == \A b \in Blocks(p) : data[p][b] = "good"
FullyRequested(p) == p \in active /\ requested[p] = Blocks(p)

\* The constructor truncates the files; load_state then takes a saved bitfield.
Init ==
    /\ have \in SUBSET Pieces
    /\ restored = have
    /\ active = {}
    /\ requested = [p \in Pieces |-> {}]
    /\ data = [p \in Pieces |-> Empty(p)]
    /\ queue = <<>>
    /\ dw = Checking
    /\ notified = FALSE
    /\ running = TRUE
    /\ disk = [p \in Pieces |-> [s \in 1 .. Segments[p] |-> "unwritten"]]
    /\ mutex = "free"
    /\ cb = [c \in Conns |-> Idle]
    /\ pw = Resting
    /\ phase = "live"
    /\ downloaded = 0
    /\ announced = {}
    /\ failed = {}
    /\ discarded = 0
    /\ ub = FALSE

Alive == phase # "destroyed" /\ ~ub

-----------------------------------------------------------------------------
(* The peer worker.  It holds mutex_ from the completion check to the last *)
(* request.  The bitfields of the peers are whatever they sent.            *)

BlockSizes(p, bytes) == [b \in Blocks(p) |-> PayloadSize(p, b, bytes[b])]
ReceivedBytes(p) == SumFunction(BlockSizes(p, data[p]))
ReceivedInAll == SumFunction([p \in Pieces |-> ReceivedBytes(p)])

VerifiedSize(p) ==
    IF p = NumPieces - 1 THEN TotalLength - (NumPieces - 1) * PieceLength
                         ELSE PieceLength

get_total_downloaded_bytes ==
    SumFunction([p \in have |-> VerifiedSize(p)]) + ReceivedInAll

\* get_completion_percentage() >= 100.0
Seeding == get_total_downloaded_bytes >= TotalLength

ReleaseWorker == pw' = Resting /\ mutex' = "free"

PW_CheckCompletion ==
    /\ Alive
    /\ phase = "live"
    /\ pw.pc = "idle"
    /\ mutex = "free"
    /\ ~Seeding
    /\ pw' = [pw EXCEPT !.pc = "select"]
    /\ mutex' = "peer_worker"
    /\ UNCHANGED <<pieceVars, diskVars, cb, downloaded, announced,
                   phase, restored, discarded, ub>>

Wanted(avail) ==
    {p \in Pieces \ have : avail[p] > 0 /\ ~FullyRequested(p)}

\* select_rarest_piece: lowest availability, then highest priority, then
\* lowest index.
Preferred(avail, p, q) ==
    \/ avail[p] < avail[q]
    \/ avail[p] = avail[q] /\ Priority[p] > Priority[q]
    \/ avail[p] = avail[q] /\ Priority[p] = Priority[q] /\ p <= q

select_rarest_piece(avail) ==
    {p \in Wanted(avail) : \A q \in Wanted(avail) : Preferred(avail, p, q)}

\* Nothing to select: next iteration.
PW_NothingToRequest ==
    /\ Alive
    /\ pw.pc = "select"
    /\ \E avail \in [Pieces -> 0 .. Cardinality(Conns)] : Wanted(avail) = {}
    /\ ReleaseWorker
    /\ UNCHANGED <<pieceVars, diskVars, cb, downloaded, announced,
                   phase, restored, discarded, ub>>

PW_Select ==
    /\ Alive
    /\ pw.pc = "select"
    /\ \E avail \in [Pieces -> 0 .. Cardinality(Conns)] :
         \E p \in select_rarest_piece(avail) :
           pw' = [pw EXCEPT !.pc = "request", !.piece = p]
    /\ UNCHANGED <<pieceVars, diskVars, mutex, cb, downloaded, announced,
                   phase, restored, discarded, ub>>

\* All who have the piece choke us: each is told of our interest, which is sent
\* under mutex_ like the requests below.
PW_Interested ==
    /\ Alive
    /\ pw.pc = "request" /\ pw.block = 0
    /\ ReleaseWorker
    /\ UNCHANGED <<pieceVars, diskVars, cb, downloaded, announced,
                   phase, restored, discarded, ub>>

\* request_block, once per block index, at most MaxPerRound new requests.
request_block(p, b) ==
    /\ active' = active \cup {p}
    /\ requested' = [requested EXCEPT ![p] = @ \cup {b}]
    /\ UNCHANGED <<have, data>>

\* send_request is a blocking send: the step ends when the peer reads, or never.
PW_Request ==
    /\ Alive
    /\ pw.pc = "request"
    /\ LET fresh == pw.block \notin requested[pw.piece]
           count == IF fresh THEN pw.count + 1 ELSE pw.count
       IN  /\ request_block(pw.piece, pw.block)
           /\ IF pw.block + 1 \in Blocks(pw.piece) /\ count < MaxPerRound
              THEN /\ pw' = [pw EXCEPT !.block = @ + 1, !.count = count]
                   /\ UNCHANGED mutex
              ELSE ReleaseWorker
    /\ UNCHANGED <<diskVars, cb, downloaded, announced,
                   phase, restored, discarded, ub>>

-----------------------------------------------------------------------------
(* The piece callback of a connection: handle_message(PIECE) calls it.     *)
(* An incoming connection's callback holds mutex_ from start to end, an    *)
(* outgoing one's only while it copies the pointers and adds the bytes.    *)

PieceMessage(c, p, b, d) ==
    /\ Alive
    /\ phase = "live"
    /\ cb[c].pc = "idle"
    /\ mutex = "free"
    /\ d # "good" => discarded < MaxDiscarded
    /\ cb' = [cb EXCEPT ![c] = [pc |-> "receive", piece |-> p, block |-> b,
                                payload |-> d]]
    /\ mutex' = IF c \in Incoming THEN c ELSE mutex
    /\ UNCHANGED <<pieceVars, diskVars, pw, downloaded, announced,
                   phase, restored, discarded, ub>>

Goto(c, pc) == cb' = [cb EXCEPT ![c].pc = pc] /\ UNCHANGED mutex

Return(c) ==
    /\ cb' = [cb EXCEPT ![c] = Idle]
    /\ mutex' = IF c \in Incoming THEN "free" ELSE mutex

\* Mutant: a block that was already received is stored again.
AcceptsAgain(p, b) == p \in active /\ b \in Blocks(p)

Accepts(p, b) == p \in active /\ b \in Blocks(p) /\ data[p][b] = NoData

receive_block(c) ==
    LET p == cb[c].piece  b == cb[c].block IN
    /\ Alive
    /\ cb[c].pc = "receive"
    /\ IF Accepts(p, b)
       THEN data' = [data EXCEPT ![p][b] = cb[c].payload] /\ Goto(c, "count")
       ELSE UNCHANGED data /\ Return(c)
    /\ UNCHANGED <<have, active, requested, diskVars, pw, downloaded, announced,
                   phase, restored, discarded, ub>>

AddDownloadedBytes(c) ==
    /\ ~ub
    /\ cb[c].pc = "count"
    /\ mutex \in {"free", c}
    /\ downloaded' = IF phase = "live"
                     THEN downloaded + PayloadSize(cb[c].piece, cb[c].block,
                                                   cb[c].payload)
                     ELSE downloaded
    /\ Goto(c, "complete")
    /\ UNCHANGED <<pieceVars, diskVars, pw, announced,
                   phase, restored, discarded, ub>>

\* Mutant: only the last block of a piece is expected to complete it.
CompleteInOrder(c) ==
    /\ Alive
    /\ cb[c].pc = "complete"
    /\ IF Complete(cb[c].piece) /\ cb[c].block = TotalBlocks(cb[c].piece) - 1
       THEN Goto(c, "verify") ELSE Return(c)
    /\ UNCHANGED <<pieceVars, diskVars, pw, downloaded, announced,
                   phase, restored, discarded, ub>>

is_piece_complete(c) ==
    /\ Alive
    /\ cb[c].pc = "complete"
    /\ IF Complete(cb[c].piece) THEN Goto(c, "verify") ELSE Return(c)
    /\ UNCHANGED <<pieceVars, diskVars, pw, downloaded, announced,
                   phase, restored, discarded, ub>>

\* Mutant: the push does not take disk_mutex_.
PushUnlocked(p) ==
    /\ queue' = Append(queue, [piece |-> p, data |-> data[p]])
    /\ notified' = (notified \/ dw.pc = "asleep")

\* Mutant: the push does not notify the disk worker.
PushSilently(p) ==
    /\ dw.pc # "blocking"
    /\ queue' = Append(queue, [piece |-> p, data |-> data[p]])
    /\ UNCHANGED notified

\* disk_queue_.push under disk_mutex_, then disk_cv_.notify_one().
PushWrite(p) ==
    /\ dw.pc # "blocking"
    /\ queue' = Append(queue, [piece |-> p, data |-> data[p]])
    /\ notified' = (notified \/ dw.pc = "asleep")

verify_piece(c) ==
    LET p == cb[c].piece IN
    /\ Alive
    /\ cb[c].pc = "verify"
    /\ \/ /\ ~Complete(p)
          /\ Return(c)
          /\ UNCHANGED <<pieceVars, queue, notified, discarded>>
       \/ /\ Complete(p) /\ HashMatches(p)
          /\ have' = have \cup {p}
          /\ PushWrite(p)
          /\ Goto(c, "announce")
          /\ UNCHANGED <<active, requested, data, discarded>>
       \/ /\ Complete(p) /\ ~HashMatches(p)
          /\ active' = active \ {p}
          /\ requested' = [requested EXCEPT ![p] = {}]
          /\ data' = [data EXCEPT ![p] = Empty(p)]
          /\ discarded' = discarded + ReceivedBytes(p)
          /\ Return(c)
          /\ UNCHANGED <<have, queue, notified>>
    /\ UNCHANGED <<dw, running, disk, failed, pw, downloaded, announced,
                   phase, restored, ub>>


\* set_have_piece on every connected peer of the snapshot: one blocking send each,
\* the step is the end of the last.
AnnounceHave(c) ==
    /\ ~ub
    /\ cb[c].pc = "announce"
    /\ announced' = announced \cup {cb[c].piece}
    /\ Return(c)
    /\ UNCHANGED <<pieceVars, diskVars, pw, downloaded,
                   phase, restored, discarded, ub>>

\* A callback that took the raw pointer calls a PieceManager that is gone.
UseAfterFree(c) ==
    /\ ~ub
    /\ phase = "destroyed"
    /\ cb[c].pc \in {"receive", "complete", "verify"}
    /\ ub' = TRUE
    /\ UNCHANGED <<pieceVars, diskVars, swarmVars, phase, restored, discarded>>

-----------------------------------------------------------------------------
(* The disk worker.  "blocking" is the moment between evaluating the wait  *)
(* predicate and sleeping: disk_mutex_ is held.                            *)

DW_Check ==
    /\ ~ub
    /\ dw.pc = "check"
    /\ CASE ~running -> dw' = [dw EXCEPT !.pc = "exited"] /\ UNCHANGED queue
         [] running /\ queue = <<>> ->
              dw' = [dw EXCEPT !.pc = "blocking"] /\ UNCHANGED queue
         [] running /\ queue # <<>> ->
              /\ dw' = [pc |-> "write", req |-> Head(queue), seg |-> 1]
              /\ queue' = Tail(queue)
    /\ UNCHANGED <<pieceVars, notified, running, disk, failed, swarmVars,
                   phase, restored, discarded, ub>>

DW_Sleep ==
    /\ ~ub
    /\ dw.pc = "blocking"
    /\ dw' = [dw EXCEPT !.pc = "asleep"]
    /\ UNCHANGED <<pieceVars, queue, notified, running, disk, failed, swarmVars,
                   phase, restored, discarded, ub>>

DW_Wake ==
    /\ ~ub
    /\ dw.pc = "asleep"
    /\ notified
    /\ dw' = Checking
    /\ notified' = FALSE
    /\ UNCHANGED <<pieceVars, queue, running, disk, failed, swarmVars,
                   phase, restored, discarded, ub>>

\* A condition variable may also wake for no reason.
DW_SpuriousWake ==
    /\ ~ub
    /\ dw.pc = "asleep"
    /\ ~notified
    /\ dw' = Checking
    /\ UNCHANGED <<pieceVars, queue, notified, running, disk, failed, swarmVars,
                   phase, restored, discarded, ub>>

\* Mutant: the last mapping is skipped.
NextMappingShort ==
    IF dw.seg + 1 < Segments[dw.req.piece] THEN [dw EXCEPT !.seg = @ + 1] ELSE Checking

\* Mutant: one mapping too many.
NextMappingLong ==
    IF dw.seg <= Segments[dw.req.piece] THEN [dw EXCEPT !.seg = @ + 1] ELSE Checking

\* write_piece goes from mapping to mapping.
NextMapping ==
    IF dw.seg < Segments[dw.req.piece] THEN [dw EXCEPT !.seg = @ + 1] ELSE Checking

Content(bytes) ==
    IF \A b \in DOMAIN bytes : bytes[b] = "good" THEN "good" ELSE "wrong"

DW_WriteMapping ==
    /\ ~ub
    /\ dw.pc = "write"
    /\ disk' = [disk EXCEPT ![dw.req.piece][dw.seg] = Content(dw.req.data)]
    /\ dw' = NextMapping
    /\ UNCHANGED <<pieceVars, queue, notified, running, failed, swarmVars,
                   phase, restored, discarded, ub>>

\* A mapping does not reach its file: write_piece returns FALSE, which is only
\* logged, or the error shows when the stream is closed, which nobody sees.
DW_WriteFails ==
    /\ ~ub
    /\ dw.pc = "write"
    /\ failed' = failed \cup {dw.req.piece}
    /\ dw' \in {Checking, NextMapping}
    /\ UNCHANGED <<pieceVars, queue, notified, running, disk, swarmVars,
                   phase, restored, discarded, ub>>

-----------------------------------------------------------------------------
(* remove_torrent, ~TorrentManager: the torrent leaves the map under       *)
(* mutex_; peer_worker is joined; ~PieceManager stops the disk worker.     *)
(* Callbacks that copied the pointer before are not waited for: each holds *)
(* a snapshot of peers that keeps its own connection alive.                *)

RemoveTorrent ==
    /\ ~ub
    /\ phase = "live"
    /\ mutex = "free"
    /\ phase' = "removed"
    /\ UNCHANGED <<pieceVars, diskVars, swarmVars, restored, discarded, ub>>

StopDisk ==
    /\ ~ub
    /\ phase = "removed"
    /\ pw.pc = "idle"
    /\ phase' = "closing"
    /\ running' = FALSE
    /\ notified' = (notified \/ dw.pc = "asleep")
    /\ UNCHANGED <<pieceVars, queue, dw, disk, failed, swarmVars,
                   restored, discarded, ub>>

DiskThreadJoined ==
    /\ ~ub
    /\ phase = "closing"
    /\ dw.pc = "exited"
    /\ phase' = "destroyed"
    /\ UNCHANGED <<pieceVars, diskVars, swarmVars, restored, discarded, ub>>

-----------------------------------------------------------------------------
(* The rest of the program keeps mutex_ as long as it likes: peer_worker     *)
(* joins threads under it, tcp_listener may lock it twice.                   *)

OthersLock ==
    /\ mutex = "free"
    /\ mutex' = "others"
    /\ UNCHANGED <<pieceVars, diskVars, cb, pw, downloaded, announced,
                   phase, restored, discarded, ub>>

OthersUnlock ==
    /\ mutex = "others"
    /\ mutex' = "free"
    /\ UNCHANGED <<pieceVars, diskVars, cb, pw, downloaded, announced,
                   phase, restored, discarded, ub>>

-----------------------------------------------------------------------------
\* A PIECE message may name an index beyond the last piece or block.
PieceIndex == 0 .. NumPieces
BlockIndex == 0 .. TotalBlocks(0)

Callback(c) ==
    \/ receive_block(c)
    \/ AddDownloadedBytes(c)
    \/ is_piece_complete(c)
    \/ verify_piece(c)
    \/ AnnounceHave(c)
    \/ UseAfterFree(c)

PeerWorker == \/ PW_CheckCompletion \/ PW_NothingToRequest \/ PW_Select
              \/ PW_Interested \/ PW_Request

DiskWorker == DW_Check \/ DW_Sleep \/ DW_Wake \/ DW_WriteMapping \/ DW_WriteFails

Others == OthersLock \/ OthersUnlock

Close == RemoveTorrent \/ StopDisk \/ DiskThreadJoined

Next ==
    \/ PeerWorker
    \/ \E c \in Conns, p \in PieceIndex, b \in BlockIndex, d \in Payloads :
         PieceMessage(c, p, b, d)
    \/ \E c \in Conns : Callback(c)
    \/ DiskWorker
    \/ DW_SpuriousWake
    \/ Others
    \/ Close

Spec == Init /\ [][Next]_vars

\* In send(), on a blocking socket without a time limit.
Announcing(c) == cb[c].pc = "announce"
Requesting == pw.pc = "request"

\* Every thread goes on that is not in send(), and one that waits for mutex_ gets
\* it when it is free again and again.  Nothing makes a send end, the others
\* release mutex_, a peer send, the peer worker find work or the user remove the
\* torrent; nothing promises a spurious wake-up.
Fairness ==
    /\ WF_vars(DiskWorker)
    /\ WF_vars(PW_NothingToRequest \/ PW_Select)
    /\ WF_vars(DiskThreadJoined)
    /\ \A c \in Conns : SF_vars(~Announcing(c) /\ Callback(c))

FairSpec == Spec /\ Fairness

-----------------------------------------------------------------------------
(* Properties *)

BlockTable(p) == [Blocks(p) -> Payloads \cup {NoData}]
BlockTables == UNION {BlockTable(p) : p \in Pieces}
Write == [piece : Pieces, data : BlockTables]

CbPc == {"idle", "receive", "count", "complete", "verify", "announce"}
CbState == [pc : CbPc, piece : PieceIndex, block : Nat,
            payload : Payloads \cup {NoData}]
PwState == [pc : {"idle", "select", "request"}, piece : Pieces, block : Nat,
            count : Nat]
DwState == [pc : {"check", "blocking", "asleep", "write", "exited"},
            req : Write \cup {<<>>}, seg : Nat \ {0}]

\* Every variable holds values of its C++ type: block tables have total_blocks
\* entries, the disk worker writes a mapping that exists.  (The byte counters
\* are the subject of BytesAccounted.)
TypeOK ==
    /\ have \in SUBSET Pieces
    /\ active \in SUBSET Pieces
    /\ requested \in [Pieces -> SUBSET Nat]
    /\ data \in [Pieces -> BlockTables]
    /\ \A p \in Pieces : data[p] \in BlockTable(p)
    /\ queue \in Seq(Write)
    /\ dw \in DwState
    /\ dw.pc = "write" => dw.req \in Write /\ dw.seg <= Segments[dw.req.piece]
    /\ notified \in BOOLEAN
    /\ running \in BOOLEAN
    /\ ub \in BOOLEAN
    /\ DOMAIN disk = Pieces
    /\ \A p \in Pieces : disk[p] \in [1 .. Segments[p] -> {"unwritten", "good", "wrong"}]
    /\ mutex \in Conns \cup {"free", "peer_worker", "others"}
    /\ cb \in [Conns -> CbState]
    /\ pw \in PwState
    /\ phase \in {"live", "removed", "closing", "destroyed"}
    /\ announced \in SUBSET PieceIndex
    /\ restored \in SUBSET Pieces
    /\ failed \in SUBSET Pieces

Pending(p) ==
    \/ running /\ \E i \in DOMAIN queue : queue[i].piece = p
    \/ dw.pc = "write" /\ dw.req.piece = p

OnDisk(p) == \A s \in 1 .. Segments[p] : disk[p][s] = "good"

\* Two threads that finish the same piece both run is_piece_complete and
\* verify_piece, in critical sections of their own: whatever their order with
\* each other and with late blocks, a piece we claim keeps all its blocks, and
\* they are the ones that were hashed.
HeldPiecesIntact ==
    \A p \in have \ restored : Complete(p) /\ HashMatches(p)

\* Bytes that failed the hash never reach a file, and a file receives bytes of
\* a piece only after have_pieces_ says so (verify_piece, disk_worker).
OnlyVerifiedBytesWritten ==
    \A p \in Pieces : \A s \in 1 .. Segments[p] :
      disk[p][s] # "unwritten" => disk[p][s] = "good" /\ p \in have \ restored

\* A piece we claim is in the files, on its way to them, or missing for one of
\* the reasons the code ignores: a failed write, a destructor that drops the
\* queue, a bitfield loaded after the files were truncated.
HeldPiecesAccounted ==
    \A p \in have \ restored :
      OnDisk(p) \/ Pending(p) \/ p \in failed \/ ~running

\* verify_piece pushes under disk_mutex_, so the disk worker never sleeps over
\* a non-empty queue.
NoLostWakeup == dw.pc = "asleep" /\ queue # <<>> => notified

\* downloaded_bytes, from which tracker_worker computes "left", counts every
\* accepted block once: it exceeds what we hold by what was discarded.
UncountedBy(r) ==
    IF r.pc = "count" THEN PayloadSize(r.piece, r.block, r.payload) ELSE 0
Uncounted == SumFunction([c \in Conns |-> UncountedBy(cb[c])])

BytesAccounted ==
    phase = "live" => downloaded + Uncounted = ReceivedInAll + discarded

\* A received block is given up only with its whole piece, only when that piece
\* holds a wrong block, and never when we claim the piece.
BlocksKept ==
    [][\A p \in Pieces :
         data'[p] # data[p] =>
           \/ \E b \in Blocks(p) : data[p][b] = NoData
                  /\ \A a \in Blocks(p) \ {b} : data'[p][a] = data[p][a]
           \/ /\ p \notin have
              /\ data'[p] = Empty(p)
              /\ \E b \in Blocks(p) : data[p][b] = "wrong"]_vars

\* mutex_ comes free: the sends under it end (every peer goes on reading, or is
\* lost), and so do the joins and relocks of the others.
LocksReleased ==
    /\ []<>(mutex # "others")
    /\ []<>~Requesting
    /\ \A c \in Conns : []<>~Announcing(c)

\* A piece whose last block arrived is verified or thrown away, if mutex_ comes
\* free: the thread that stored the last block sees the piece complete, whatever
\* the others do.
CompletePieceSettled ==
    LocksReleased =>
      \A p \in Pieces :
        Complete(p) ~> (p \in have \/ ~Complete(p) \/ phase = "destroyed" \/ ub)

\* A verified piece reaches the files unless a write fails or the torrent goes.
HeldPieceReachesDisk ==
    \A p \in Pieces :
      (p \in have \ restored) ~> (OnDisk(p) \/ p \in failed \/ ~running)


-----------------------------------------------------------------------------
(* The inductive invariant of the proofs *)

\* load_state happens once, before any thread runs: a restored piece is held
\* from the start and no download of it is ever opened.
RestoredUntouched ==
    /\ restored \subseteq have
    /\ active \cap restored = {}
    /\ pw.pc = "request" => pw.piece \notin restored

\* What waits for the disk, or is in the disk worker's hands, was verified.
RequestsVerified ==
    /\ \A i \in DOMAIN queue :
         Content(queue[i].data) = "good" /\ queue[i].piece \in have \ restored
    /\ dw.pc = "write" =>
         Content(dw.req.data) = "good" /\ dw.req.piece \in have \ restored

\* The mappings before the current one are written, or the piece is at fault.
WriteProgress ==
    dw.pc = "write" =>
      \/ dw.req.piece \in failed
      \/ \A s \in 1 .. dw.seg - 1 : disk[dw.req.piece][s] = "good"

\* The disk worker decides to sleep on an empty queue, and nobody pushes until
\* it sleeps.
SleepsOnEmptyQueue == dw.pc = "blocking" => queue = <<>>

IInv ==
    /\ TypeOK
    /\ RestoredUntouched
    /\ HeldPiecesIntact
    /\ RequestsVerified
    /\ OnlyVerifiedBytesWritten
    /\ WriteProgress
    /\ HeldPiecesAccounted
    /\ SleepsOnEmptyQueue
    /\ NoLostWakeup

-----------------------------------------------------------------------------
(* The promise this implements *)

Status(p) ==
    CASE p \notin have -> "missing"
      [] p \in have /\ OnDisk(p) -> "durable"
      [] p \in have /\ ~OnDisk(p) /\ Pending(p) -> "verified"
      [] OTHER -> "lost"

Store == INSTANCE PieceStore WITH
    Piece <- Pieces,
    status <- [p \in Pieces |-> Status(p)],
    faulty <- failed,
    open <- running

\* Every step of the threads is a step of the piece store or none.
ImplementsPieceStore == Store!Spec
=============================================================================
