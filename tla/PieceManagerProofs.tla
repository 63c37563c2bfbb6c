------------------------- MODULE PieceManagerProofs -------------------------
(***************************************************************************)
(* The invariants of PieceManager, for every torrent and every number of   *)
(* connections, and that its threads implement the piece store: every step *)
(* is a step of PieceStore, under the mapping Status, or leaves it alone.  *)
(***************************************************************************)
EXTENDS PieceManager, TLAPS, FiniteSetTheorems, WellFoundedInduction

USE DEF Pieces

LEMMA EmptyIsTable == \A p \in Pieces : Empty(p) \in BlockTable(p)
BY DEF Empty, BlockTable

LEMMA TablesOfPieces == \A p \in Pieces : BlockTable(p) \subseteq BlockTables
BY DEF BlockTables

LEMMA InitTypeOK == Init => TypeOK
<1> SUFFICES ASSUME Init PROVE TypeOK
  OBVIOUS
<1>1. data \in [Pieces -> BlockTables] /\ \A p \in Pieces : data[p] \in BlockTable(p)
  BY EmptyIsTable, TablesOfPieces DEF Init
<1>2. dw \in DwState /\ dw.pc = "check"
  BY DEF Init, Checking, DwState
<1>3. cb \in [Conns -> CbState]
  BY SizesAssumption DEF Init, Idle, CbState, CbPc, PieceIndex, NoData
<1>4. pw \in PwState
  BY SizesAssumption DEF Init, Resting, PwState
<1>5. queue \in Seq(Write)
  BY DEF Init
<1>6. DOMAIN disk = Pieces
      /\ \A p \in Pieces : disk[p] \in [1 .. Segments[p] -> {"unwritten", "good", "wrong"}]
  BY DEF Init
<1>7. /\ have \in SUBSET Pieces
      /\ active \in SUBSET Pieces
      /\ requested \in [Pieces -> SUBSET Nat]
      /\ mutex \in Conns \cup {"free", "peer_worker", "others"}
      /\ phase \in {"live", "removed", "closing", "destroyed"}
      /\ announced \in SUBSET PieceIndex
      /\ restored \in SUBSET Pieces
      /\ failed \in SUBSET Pieces
  BY DEF Init
<1>8. notified \in BOOLEAN /\ running \in BOOLEAN /\ ub \in BOOLEAN
  BY DEF Init
<1>9. QED
  BY <1>1, <1>2, <1>3, <1>4, <1>5, <1>6, <1>7, <1>8 DEF TypeOK

\* Init establishes the inductive invariant.
THEOREM InitIInv == Init => IInv
<1> SUFFICES ASSUME Init PROVE IInv
  OBVIOUS
<1>1. TypeOK
  BY InitTypeOK
<1>2. RestoredUntouched
  BY DEF Init, RestoredUntouched, Resting
<1>3. HeldPiecesIntact /\ HeldPiecesAccounted
  BY DEF Init, HeldPiecesIntact, HeldPiecesAccounted
<1>4. RequestsVerified /\ WriteProgress /\ SleepsOnEmptyQueue /\ NoLostWakeup
  BY DEF Init, RequestsVerified, WriteProgress, SleepsOnEmptyQueue, NoLostWakeup, Checking
<1>5. OnlyVerifiedBytesWritten
  BY DEF Init, OnlyVerifiedBytesWritten
<1>6. QED
  BY <1>1, <1>2, <1>3, <1>4, <1>5 DEF IInv

-----------------------------------------------------------------------------
(* Every action keeps the types.                                           *)

LEMMA CallbackMoves ==
    ASSUME TypeOK, NEW c \in Conns,
           (\E pc \in CbPc : Goto(c, pc)) \/ Return(c)
    PROVE  cb' \in [Conns -> CbState] /\ mutex' \in Conns \cup {"free", "peer_worker", "others"}
<1>1. CASE \E pc \in CbPc : Goto(c, pc)
  BY <1>1 DEF TypeOK, Goto, CbState
<1>2. CASE Return(c)
  <2>1. Idle \in CbState
    BY SizesAssumption DEF Idle, CbState, CbPc, PieceIndex, NoData
  <2>2. QED
    BY <1>2, <2>1 DEF TypeOK, Return
<1>3. QED
  BY <1>1, <1>2

\* The steps that change neither the pieces nor the disk.
SwarmAction ==
    \/ PW_CheckCompletion \/ PW_NothingToRequest \/ PW_Select
    \/ PW_Interested \/ Others \/ RemoveTorrent \/ DiskThreadJoined
    \/ \E c \in Conns :
         \/ \E p \in PieceIndex, b \in BlockIndex, d \in Payloads : PieceMessage(c, p, b, d)
         \/ AddDownloadedBytes(c) \/ is_piece_complete(c) \/ AnnounceHave(c)
         \/ UseAfterFree(c)

LEMMA SwarmActionsTypeOK ==
    ASSUME IInv, SwarmAction
    PROVE  /\ TypeOK'
           /\ UNCHANGED <<pieceVars, diskVars, restored>>
           /\ pw'.pc = "request" => pw' = pw \/ pw'.piece \notin have
<1> USE DEF IInv, TypeOK, pieceVars, diskVars, swarmVars
<1>a. Resting \in PwState /\ Resting.pc = "idle"
  BY SizesAssumption DEF Resting, PwState
<1>1. CASE PW_CheckCompletion
  BY <1>1 DEF PW_CheckCompletion, PwState
<1>2. CASE PW_NothingToRequest
  BY <1>2, <1>a DEF PW_NothingToRequest, ReleaseWorker
<1>9. CASE PW_Interested
  BY <1>9, <1>a DEF PW_Interested, ReleaseWorker
<1>10. CASE Others
  BY <1>10 DEF Others, OthersLock, OthersUnlock
<1>3. CASE PW_Select
  BY <1>3 DEF PW_Select, select_rarest_piece, Wanted, PwState
<1>4. ASSUME NEW c \in Conns, NEW p \in PieceIndex, NEW b \in BlockIndex,
             NEW d \in Payloads, PieceMessage(c, p, b, d)
      PROVE  /\ TypeOK'
             /\ UNCHANGED <<pieceVars, diskVars, restored, pw>>
  BY <1>4 DEF PieceMessage, BlockIndex, CbState, CbPc
<1>5. ASSUME NEW c \in Conns,
             AddDownloadedBytes(c) \/ is_piece_complete(c) \/ AnnounceHave(c)
      PROVE  /\ TypeOK'
             /\ UNCHANGED <<pieceVars, diskVars, restored, pw>>
  <2>1. (\E pc \in CbPc : Goto(c, pc)) \/ Return(c)
    BY <1>5 DEF AddDownloadedBytes, is_piece_complete, AnnounceHave, CbPc
  <2>2. cb' \in [Conns -> CbState] /\ mutex' \in Conns \cup {"free", "peer_worker", "others"}
    BY <2>1, CallbackMoves
  <2>3. announced' \in SUBSET PieceIndex
    BY <1>5 DEF AddDownloadedBytes, is_piece_complete, AnnounceHave, CbState
  <2>4. QED
    BY <1>5, <2>2, <2>3 DEF AddDownloadedBytes, is_piece_complete, AnnounceHave
<1>6. ASSUME NEW c \in Conns, UseAfterFree(c)
      PROVE  /\ TypeOK'
             /\ UNCHANGED <<pieceVars, diskVars, restored, pw>>
  BY <1>6 DEF UseAfterFree
<1>7. CASE RemoveTorrent \/ DiskThreadJoined
  BY <1>7 DEF RemoveTorrent, DiskThreadJoined
<1> HIDE DEF IInv, TypeOK, pieceVars, diskVars, swarmVars
<1>8. QED
  BY <1>1, <1>2, <1>3, <1>4, <1>5, <1>6, <1>7, <1>9, <1>10 DEF SwarmAction

LEMMA SwarmActionsIInv ==
    ASSUME IInv, TypeOK', UNCHANGED <<pieceVars, diskVars, restored>>,
           pw'.pc = "request" => pw' = pw \/ pw'.piece \notin have
    PROVE  IInv'
<1> USE DEF pieceVars, diskVars
<1>1. RestoredUntouched'
  BY DEF IInv, RestoredUntouched
<1>2. HeldPiecesIntact'
  BY DEF IInv, HeldPiecesIntact, Complete, HashMatches, Received
<1>3. RequestsVerified'
  BY DEF IInv, RequestsVerified
<1>4. OnlyVerifiedBytesWritten'
  BY DEF IInv, OnlyVerifiedBytesWritten
<1>5. WriteProgress'
  BY DEF IInv, WriteProgress
<1>6. HeldPiecesAccounted'
  BY DEF IInv, HeldPiecesAccounted, OnDisk, Pending
<1>7. SleepsOnEmptyQueue' /\ NoLostWakeup'
  BY DEF IInv, SleepsOnEmptyQueue, NoLostWakeup
<1>8. QED
  BY <1>1, <1>2, <1>3, <1>4, <1>5, <1>6, <1>7 DEF IInv

-----------------------------------------------------------------------------
(* The steps that change the pieces.                                       *)

LEMMA RequestIInv == IInv /\ PW_Request => IInv'
<1> SUFFICES ASSUME IInv, PW_Request PROVE IInv'
  OBVIOUS
<1> USE DEF pieceVars, diskVars
<1>0. TypeOK /\ pw.piece \in Pieces /\ pw.block \in Nat /\ pw.count \in Nat
  BY DEF IInv, TypeOK, PwState
<1>1. UNCHANGED <<have, data, diskVars, restored>> /\ active' = active \cup {pw.piece}
      /\ requested' = [requested EXCEPT ![pw.piece] = @ \cup {pw.block}]
      /\ UNCHANGED <<cb, announced, phase, ub>>
  BY DEF PW_Request, request_block
<1>2. pw' \in PwState /\ (pw'.pc = "request" => pw'.piece = pw.piece)
      /\ mutex' \in {mutex, "free"}
  <2>1. Resting \in PwState /\ Resting.pc = "idle"
    BY SizesAssumption DEF Resting, PwState
  <2> DEFINE n == IF pw.block \notin requested[pw.piece] THEN pw.count + 1 ELSE pw.count
  <2>2. n \in Nat
    BY <1>0
  <2>3. \/ pw' = Resting /\ mutex' = "free"
        \/ pw' = [pw EXCEPT !.block = @ + 1, !.count = n] /\ mutex' = mutex
    BY DEF PW_Request, ReleaseWorker
  <2>4. CASE pw' = [pw EXCEPT !.block = @ + 1, !.count = n] /\ mutex' = mutex
    <3> HIDE DEF n
    <3>1. pw \in PwState
      BY <1>0 DEF TypeOK
    <3>2. pw' = [pc |-> pw.pc, piece |-> pw.piece, block |-> pw.block + 1, count |-> n]
      BY <2>4, <3>1 DEF PwState
    <3>3. pw.pc \in {"idle", "select", "request"} /\ pw.block + 1 \in Nat
      BY <1>0, <3>1 DEF PwState
    <3>4. pw' \in PwState /\ pw'.piece = pw.piece
      BY <1>0, <2>2, <3>2, <3>3 DEF PwState
    <3>5. QED
      BY <2>4, <3>4
  <2>5. QED
    BY <2>1, <2>3, <2>4
<1>3. TypeOK'
  BY <1>0, <1>1, <1>2 DEF TypeOK
<1>4. RestoredUntouched'
  BY <1>1, <1>2 DEF IInv, RestoredUntouched, PW_Request
<1>5. HeldPiecesIntact'
  BY <1>1 DEF IInv, HeldPiecesIntact, Complete, HashMatches, Received
<1>6. RequestsVerified' /\ OnlyVerifiedBytesWritten' /\ WriteProgress'
  BY <1>1 DEF IInv, RequestsVerified, OnlyVerifiedBytesWritten, WriteProgress
<1>7. HeldPiecesAccounted' /\ SleepsOnEmptyQueue' /\ NoLostWakeup'
  BY <1>1 DEF IInv, HeldPiecesAccounted, OnDisk, Pending, SleepsOnEmptyQueue, NoLostWakeup
<1>8. QED
  BY <1>3, <1>4, <1>5, <1>6, <1>7 DEF IInv

\* A block is stored only where none is: a held piece has no such place.
LEMMA ReceiveIInv == ASSUME NEW c \in Conns PROVE IInv /\ receive_block(c) => IInv'
<1> SUFFICES ASSUME IInv, receive_block(c) PROVE IInv'
  OBVIOUS
<1> USE DEF pieceVars, diskVars
<1> DEFINE p == cb[c].piece  b == cb[c].block
<1>0. TypeOK /\ cb[c] \in CbState
  BY DEF IInv, TypeOK
<1>1. UNCHANGED <<have, active, requested, diskVars, restored, pw, announced, phase, ub>>
  BY DEF receive_block
<1>2. cb' \in [Conns -> CbState] /\ mutex' \in Conns \cup {"free", "peer_worker", "others"}
  <2>1. (\E pc \in CbPc : Goto(c, pc)) \/ Return(c)
    BY DEF receive_block, CbPc
  <2>2. QED
    BY <1>0, <2>1, CallbackMoves
<1>3. \/ data' = data
      \/ /\ p \in active /\ b \in Blocks(p) /\ data[p][b] = NoData
         /\ data' = [data EXCEPT ![p][b] = cb[c].payload]
  BY DEF receive_block, Accepts
<1>4. data' \in [Pieces -> BlockTables] /\ \A q \in Pieces : data'[q] \in BlockTable(q)
  <2>1. CASE data' = data
    BY <1>0, <2>1 DEF TypeOK
  <2>2. CASE /\ p \in active /\ b \in Blocks(p)
             /\ data' = [data EXCEPT ![p][b] = cb[c].payload]
    <3>1. \A q \in Pieces : data'[q] \in BlockTable(q)
      BY <1>0, <2>2 DEF TypeOK, BlockTable, CbState
    <3>2. QED
      BY <1>0, <2>2, <3>1, TablesOfPieces DEF TypeOK
  <2>3. QED
    BY <1>3, <2>1, <2>2
<1>5. TypeOK'
  BY <1>0, <1>1, <1>2, <1>4 DEF TypeOK
<1>6. \A q \in have \ restored : data'[q] = data[q]
  <2> SUFFICES ASSUME NEW q \in have \ restored PROVE data'[q] = data[q]
    OBVIOUS
  <2>1. \A a \in Blocks(q) : data[q][a] # NoData
    BY DEF IInv, HeldPiecesIntact, HashMatches, NoData
  <2>2. QED
    BY <1>0, <1>3, <2>1 DEF TypeOK
<1>7. HeldPiecesIntact'
  BY <1>1, <1>6 DEF IInv, HeldPiecesIntact, Complete, HashMatches, Received
<1>8. RestoredUntouched' /\ RequestsVerified' /\ OnlyVerifiedBytesWritten' /\ WriteProgress'
  BY <1>1 DEF IInv, RestoredUntouched, RequestsVerified, OnlyVerifiedBytesWritten, WriteProgress
<1>9. HeldPiecesAccounted' /\ SleepsOnEmptyQueue' /\ NoLostWakeup'
  BY <1>1 DEF IInv, HeldPiecesAccounted, OnDisk, Pending, SleepsOnEmptyQueue, NoLostWakeup
<1>10. QED
  BY <1>5, <1>7, <1>8, <1>9 DEF IInv
\* verify_piece: a held piece matches its hash, so it is never thrown away;
\* what is pushed was hashed, and nobody pushes while the disk worker holds
\* disk_mutex_ on its way to sleep.
LEMMA VerifyIInv == ASSUME NEW c \in Conns PROVE IInv /\ verify_piece(c) => IInv'
<1> SUFFICES ASSUME IInv, verify_piece(c) PROVE IInv'
  OBVIOUS
<1> USE DEF pieceVars, diskVars
<1> DEFINE p == cb[c].piece
<1>0. TypeOK
  BY DEF IInv
<1>1. UNCHANGED <<dw, running, disk, failed, pw, announced, phase, restored, ub>>
  BY DEF verify_piece
<1>2. cb' \in [Conns -> CbState] /\ mutex' \in Conns \cup {"free", "peer_worker", "others"}
  <2>1. (\E pc \in CbPc : Goto(c, pc)) \/ Return(c)
    BY DEF verify_piece, CbPc
  <2>2. QED
    BY <1>0, <2>1, CallbackMoves
<1>3. CASE UNCHANGED <<pieceVars, queue, notified>>
  <2>1. TypeOK'
    BY <1>0, <1>1, <1>2, <1>3 DEF TypeOK
  <2>2. QED
    BY <1>1, <1>3, <2>1, SwarmActionsIInv
<1>4. CASE /\ Complete(p) /\ HashMatches(p)
           /\ have' = have \cup {p}
           /\ PushWrite(p)
           /\ UNCHANGED <<active, requested, data>>
  <2>1. p \in Pieces /\ p \in active /\ p \in Pieces \ restored
    BY <1>0, <1>4 DEF Complete, TypeOK, IInv, RestoredUntouched
  <2> DEFINE w == [piece |-> p, data |-> data[p]]
  <2>2. w \in Write /\ queue' = Append(queue, w)
    BY <1>0, <1>4, <2>1 DEF TypeOK, Write, PushWrite
  <2>3. queue \in Seq(Write) /\ queue' \in Seq(Write) /\ notified' \in BOOLEAN
    BY <1>0, <1>4, <2>2 DEF TypeOK, PushWrite
  <2>4. TypeOK'
    BY <1>0, <1>1, <1>2, <1>4, <2>1, <2>3 DEF TypeOK
  <2>5. Content(w.data) = "good" /\ w.piece \in have' \ restored
    BY <1>0, <1>4, <2>1 DEF Content, HashMatches, TypeOK, BlockTable
  <2>6. \A i \in DOMAIN queue' : queue'[i] = w \/ (i \in DOMAIN queue /\ queue'[i] = queue[i])
    BY <2>2, <2>3
  <2>7. \A i \in DOMAIN queue : i \in DOMAIN queue' /\ queue'[i] = queue[i]
    BY <2>2, <2>3
  <2>8. Len(queue) + 1 \in DOMAIN queue' /\ queue'[Len(queue) + 1] = w /\ queue' # <<>>
    BY <2>2, <2>3
  <2>9. RestoredUntouched'
    BY <1>1, <1>4 DEF IInv, RestoredUntouched
  <2>10. HeldPiecesIntact'
    BY <1>1, <1>4 DEF IInv, HeldPiecesIntact, Complete, HashMatches, Received
  <2>11. RequestsVerified'
    <3>1. \A i \in DOMAIN queue' :
            Content(queue'[i].data) = "good" /\ queue'[i].piece \in have' \ restored
      BY <1>4, <2>5, <2>6 DEF IInv, RequestsVerified
    <3>2. QED
      BY <1>1, <1>4, <3>1 DEF IInv, RequestsVerified
  <2>12. OnlyVerifiedBytesWritten' /\ WriteProgress'
    BY <1>1, <1>4 DEF IInv, OnlyVerifiedBytesWritten, WriteProgress
  <2>13. HeldPiecesAccounted'
    <3> SUFFICES ASSUME NEW q \in have' \ restored
                 PROVE  (OnDisk(q) \/ Pending(q) \/ q \in failed \/ ~running)'
      BY <1>1 DEF HeldPiecesAccounted
    <3>1. CASE q = p
      BY <1>1, <2>8, <3>1 DEF Pending
    <3>2. CASE q # p
      <4>1. OnDisk(q) \/ Pending(q) \/ q \in failed \/ ~running
        BY <1>4, <3>2 DEF IInv, HeldPiecesAccounted
      <4>2. QED
        BY <1>1, <2>7, <4>1 DEF OnDisk, Pending
    <3>3. QED
      BY <3>1, <3>2
  <2>14. SleepsOnEmptyQueue' /\ NoLostWakeup'
    BY <1>1, <1>4 DEF IInv, SleepsOnEmptyQueue, NoLostWakeup, PushWrite
  <2>15. QED
    BY <2>4, <2>9, <2>10, <2>11, <2>12, <2>13, <2>14 DEF IInv
<1>5. CASE /\ Complete(p) /\ ~HashMatches(p)
           /\ active' = active \ {p}
           /\ requested' = [requested EXCEPT ![p] = {}]
           /\ data' = [data EXCEPT ![p] = Empty(p)]
           /\ UNCHANGED <<have, queue, notified>>
  <2>1. p \in Pieces
    BY <1>0, <1>5 DEF Complete, TypeOK
  <2>2. data' \in [Pieces -> BlockTables] /\ \A q \in Pieces : data'[q] \in BlockTable(q)
    BY <1>0, <1>5, <2>1, EmptyIsTable, TablesOfPieces DEF TypeOK
  <2>3. TypeOK'
    BY <1>0, <1>1, <1>2, <1>5, <2>1, <2>2 DEF TypeOK
  <2>4. RestoredUntouched'
    BY <1>1, <1>5 DEF IInv, RestoredUntouched
  <2>5. p \notin have \ restored
    BY <1>5 DEF IInv, HeldPiecesIntact
  <2>6. \A q \in have \ restored : data'[q] = data[q] /\ q # p
    BY <1>0, <1>5, <2>5 DEF TypeOK
  <2>7. HeldPiecesIntact'
    BY <1>1, <1>5, <2>6 DEF IInv, HeldPiecesIntact, Complete, HashMatches, Received
  <2>8. RequestsVerified' /\ OnlyVerifiedBytesWritten' /\ WriteProgress'
    BY <1>1, <1>5 DEF IInv, RequestsVerified, OnlyVerifiedBytesWritten, WriteProgress
  <2>9. HeldPiecesAccounted' /\ SleepsOnEmptyQueue' /\ NoLostWakeup'
    BY <1>1, <1>5 DEF IInv, HeldPiecesAccounted, OnDisk, Pending, SleepsOnEmptyQueue, NoLostWakeup
  <2>10. QED
    BY <2>3, <2>4, <2>7, <2>8, <2>9 DEF IInv
<1>6. QED
  BY <1>3, <1>4, <1>5 DEF verify_piece
-----------------------------------------------------------------------------
(* The disk worker and the destructor.                                     *)

LEMMA SleepIInv == IInv /\ (DW_Sleep \/ DW_Wake \/ DW_SpuriousWake) => IInv'
<1> SUFFICES ASSUME IInv, DW_Sleep \/ DW_Wake \/ DW_SpuriousWake PROVE IInv'
  OBVIOUS
<1> USE DEF pieceVars, swarmVars
<1>0. TypeOK
  BY DEF IInv
<1>1. UNCHANGED <<pieceVars, queue, running, disk, failed, swarmVars, phase, restored, ub>>
      /\ notified' \in {notified, FALSE}
  BY DEF DW_Sleep, DW_Wake, DW_SpuriousWake
<1>2. dw' \in DwState /\ dw'.pc \in {"check", "asleep"} /\ dw.pc # "write"
  BY <1>0 DEF DW_Sleep, DW_Wake, DW_SpuriousWake, Checking, TypeOK, DwState
<1>3. TypeOK'
  BY <1>0, <1>1, <1>2 DEF TypeOK
<1>4. RestoredUntouched' /\ HeldPiecesIntact'
  BY <1>1 DEF IInv, RestoredUntouched, HeldPiecesIntact, Complete, HashMatches, Received
<1>5. RequestsVerified' /\ OnlyVerifiedBytesWritten' /\ WriteProgress'
  BY <1>1, <1>2 DEF IInv, RequestsVerified, OnlyVerifiedBytesWritten, WriteProgress
<1>6. HeldPiecesAccounted'
  BY <1>1, <1>2 DEF IInv, HeldPiecesAccounted, OnDisk, Pending
<1>7. SleepsOnEmptyQueue'
  BY <1>2 DEF SleepsOnEmptyQueue
<1>8. NoLostWakeup'
  BY <1>0 DEF IInv, NoLostWakeup, SleepsOnEmptyQueue, DW_Sleep, DW_Wake, DW_SpuriousWake,
              Checking, TypeOK, DwState
<1>9. QED
  BY <1>3, <1>4, <1>5, <1>6, <1>7, <1>8 DEF IInv

LEMMA StopIInv == IInv /\ StopDisk => IInv'
<1> SUFFICES ASSUME IInv, StopDisk PROVE IInv'
  OBVIOUS
<1> USE DEF pieceVars, swarmVars
<1>1. UNCHANGED <<pieceVars, queue, dw, disk, failed, swarmVars, restored, ub>>
      /\ running' = FALSE /\ phase' = "closing"
      /\ notified' = (notified \/ dw.pc = "asleep")
  BY DEF StopDisk
<1>2. TypeOK'
  BY <1>1 DEF IInv, TypeOK
<1>3. RestoredUntouched' /\ HeldPiecesIntact'
  BY <1>1 DEF IInv, RestoredUntouched, HeldPiecesIntact, Complete, HashMatches, Received
<1>4. RequestsVerified' /\ OnlyVerifiedBytesWritten' /\ WriteProgress'
  BY <1>1 DEF IInv, RequestsVerified, OnlyVerifiedBytesWritten, WriteProgress
<1>5. HeldPiecesAccounted'
  BY <1>1 DEF HeldPiecesAccounted
<1>6. SleepsOnEmptyQueue' /\ NoLostWakeup'
  BY <1>1 DEF IInv, SleepsOnEmptyQueue, NoLostWakeup
<1>7. QED
  BY <1>2, <1>3, <1>4, <1>5, <1>6 DEF IInv

\* Taking the first request moves a piece from the queue into the worker's hands.
LEMMA CheckIInv == IInv /\ DW_Check => IInv'
<1> SUFFICES ASSUME IInv, DW_Check PROVE IInv'
  OBVIOUS
<1> USE DEF pieceVars, swarmVars
<1>0. TypeOK /\ queue \in Seq(Write) /\ dw \in DwState /\ dw.pc = "check"
  BY DEF IInv, TypeOK, DW_Check
<1>1. UNCHANGED <<pieceVars, notified, running, disk, failed, swarmVars, phase, restored, ub>>
  BY DEF DW_Check
<1>2. CASE /\ dw' = [dw EXCEPT !.pc = "exited"] \/ (queue = <<>> /\ dw' = [dw EXCEPT !.pc = "blocking"])
           /\ queue' = queue
  <2>1. dw' \in DwState /\ dw'.pc \in {"exited", "blocking"} /\ (dw'.pc = "blocking" => queue = <<>>)
    BY <1>0, <1>2 DEF DwState
  <2>2. TypeOK'
    BY <1>0, <1>1, <1>2, <2>1 DEF TypeOK
  <2>3. RestoredUntouched' /\ HeldPiecesIntact'
    BY <1>1 DEF IInv, RestoredUntouched, HeldPiecesIntact, Complete, HashMatches, Received
  <2>4. RequestsVerified' /\ OnlyVerifiedBytesWritten' /\ WriteProgress'
    BY <1>1, <1>2, <2>1 DEF IInv, RequestsVerified, OnlyVerifiedBytesWritten, WriteProgress
  <2>5. HeldPiecesAccounted'
    BY <1>0, <1>1, <1>2 DEF IInv, HeldPiecesAccounted, OnDisk, Pending
  <2>6. SleepsOnEmptyQueue' /\ NoLostWakeup'
    BY <1>2, <2>1 DEF SleepsOnEmptyQueue, NoLostWakeup
  <2>7. QED
    BY <2>2, <2>3, <2>4, <2>5, <2>6 DEF IInv
<1>3. CASE /\ running /\ queue # <<>>
           /\ dw' = [pc |-> "write", req |-> Head(queue), seg |-> 1]
           /\ queue' = Tail(queue)
  <2>1. Head(queue) \in Write /\ Head(queue) = queue[1] /\ 1 \in DOMAIN queue
        /\ queue' \in Seq(Write)
    BY <1>0, <1>3
  <2>2. \A i \in DOMAIN queue' : i + 1 \in DOMAIN queue /\ queue'[i] = queue[i + 1]
    BY <1>0, <1>3
  <2>3. \A i \in DOMAIN queue : i = 1 \/ (i - 1 \in DOMAIN queue' /\ queue'[i - 1] = queue[i])
    BY <1>0, <1>3
  <2>4. dw' \in DwState /\ dw'.pc = "write" /\ dw'.req = Head(queue) /\ dw'.seg = 1
    BY <1>3, <2>1 DEF DwState
  <2>5. TypeOK'
    <3>1. Head(queue).piece \in Pieces
      BY <2>1 DEF Write
    <3>2. dw'.seg <= Segments[dw'.req.piece]
      BY <2>4, <3>1, MappingsAssumption
    <3>3. QED
      BY <1>0, <1>1, <2>1, <2>4, <3>2 DEF TypeOK
  <2>6. RestoredUntouched' /\ HeldPiecesIntact'
    BY <1>1 DEF IInv, RestoredUntouched, HeldPiecesIntact, Complete, HashMatches, Received
  <2>7. RequestsVerified'
    BY <1>1, <2>1, <2>2, <2>4 DEF IInv, RequestsVerified
  <2>8. OnlyVerifiedBytesWritten' /\ WriteProgress'
    BY <1>1, <2>4 DEF IInv, OnlyVerifiedBytesWritten, WriteProgress
  <2>9. HeldPiecesAccounted'
    <3> SUFFICES ASSUME NEW q \in have \ restored
                 PROVE  (OnDisk(q) \/ Pending(q) \/ q \in failed \/ ~running)'
      BY <1>1 DEF HeldPiecesAccounted
    <3>1. OnDisk(q) \/ Pending(q) \/ q \in failed \/ ~running
      BY DEF IInv, HeldPiecesAccounted
    <3>2. CASE Pending(q)
      <4>1. PICK i \in DOMAIN queue : queue[i].piece = q
        BY <1>0, <3>2 DEF Pending
      <4>2. QED
        BY <1>1, <1>3, <2>1, <2>3, <2>4, <4>1 DEF Pending
    <3>3. QED
      BY <1>1, <3>1, <3>2 DEF OnDisk
  <2>10. SleepsOnEmptyQueue' /\ NoLostWakeup'
    BY <2>4 DEF SleepsOnEmptyQueue, NoLostWakeup
  <2>11. QED
    BY <2>5, <2>6, <2>7, <2>8, <2>9, <2>10 DEF IInv
<1>4. QED
  BY <1>0, <1>2, <1>3 DEF DW_Check, TypeOK
\* Writing or failing to write one mapping.
LEMMA WriteIInv == IInv /\ (DW_WriteMapping \/ DW_WriteFails) => IInv'
<1> SUFFICES ASSUME IInv, DW_WriteMapping \/ DW_WriteFails PROVE IInv'
  OBVIOUS
<1> USE DEF pieceVars, swarmVars
<1> DEFINE p == dw.req.piece
<1>0. /\ TypeOK /\ dw \in DwState /\ dw.pc = "write" /\ dw.req \in Write
      /\ p \in Pieces /\ dw.seg \in Nat \ {0} /\ dw.seg <= Segments[p]
      /\ Segments[p] \in Nat
  BY MappingsAssumption DEF IInv, TypeOK, DwState, Write, DW_WriteMapping, DW_WriteFails
<1>1. UNCHANGED <<pieceVars, queue, notified, running, swarmVars, phase, restored, ub>>
  BY DEF DW_WriteMapping, DW_WriteFails
<1>2. Content(dw.req.data) = "good" /\ p \in have \ restored
  BY <1>0 DEF IInv, RequestsVerified
<1>3. Checking \in DwState /\ Checking.pc = "check"
  BY DEF Checking, DwState
<1>4. \/ dw' = Checking
      \/ dw.seg < Segments[p] /\ dw' = [dw EXCEPT !.seg = @ + 1]
  BY DEF DW_WriteMapping, DW_WriteFails, NextMapping
<1>5. /\ dw' \in DwState /\ dw'.pc \in {"check", "write"}
      /\ dw'.pc = "write" => dw'.req = dw.req /\ dw'.seg = dw.seg + 1 /\ dw.seg < Segments[p]
  <2>1. CASE dw.seg < Segments[p] /\ dw' = [dw EXCEPT !.seg = @ + 1]
    BY <1>0, <2>1 DEF DwState
  <2>2. QED
    BY <1>3, <1>4, <2>1
<1>6. \/ disk' = disk /\ failed' = failed \cup {p}
      \/ /\ disk' = [disk EXCEPT ![p][dw.seg] = "good"] /\ failed' = failed
         /\ dw' = NextMapping
  BY <1>2 DEF DW_WriteMapping, DW_WriteFails
<1>7. /\ DOMAIN disk' = Pieces
      /\ \A q \in Pieces : disk'[q] \in [1 .. Segments[q] -> {"unwritten", "good", "wrong"}]
      /\ \A q \in Pieces : \A s \in 1 .. Segments[q] :
           disk'[q][s] = disk[q][s] \/ (q = p /\ s = dw.seg /\ disk'[q][s] = "good")
  <2>1. CASE disk' = disk
    BY <1>0, <2>1 DEF TypeOK
  <2>2. CASE disk' = [disk EXCEPT ![p][dw.seg] = "good"]
    <3>1. DOMAIN disk' = Pieces /\ \A q \in Pieces : q # p => disk'[q] = disk[q]
      BY <1>0, <2>2 DEF TypeOK
    <3>2. disk'[p] = [disk[p] EXCEPT ![dw.seg] = "good"]
          /\ disk[p] \in [1 .. Segments[p] -> {"unwritten", "good", "wrong"}]
      BY <1>0, <2>2 DEF TypeOK
    <3>3. /\ disk'[p] \in [1 .. Segments[p] -> {"unwritten", "good", "wrong"}]
          /\ \A s \in 1 .. Segments[p] :
               disk'[p][s] = disk[p][s] \/ (s = dw.seg /\ disk'[p][s] = "good")
      BY <1>0, <3>2
    <3>4. QED
      BY <1>0, <3>1, <3>3 DEF TypeOK
  <2>3. QED
    BY <1>6, <2>1, <2>2
<1>8. TypeOK'
  <2>1. failed' \in SUBSET Pieces
    BY <1>0, <1>6 DEF TypeOK
  <2>2. dw'.pc = "write" => dw'.req \in Write /\ dw'.seg <= Segments[dw'.req.piece]
    BY <1>0, <1>5
  <2>3. QED
    BY <1>0, <1>1, <1>5, <1>7, <2>1, <2>2 DEF TypeOK
<1>9. RestoredUntouched' /\ HeldPiecesIntact'
  BY <1>1 DEF IInv, RestoredUntouched, HeldPiecesIntact, Complete, HashMatches, Received
<1>10. RequestsVerified'
  BY <1>1, <1>2, <1>5 DEF IInv, RequestsVerified
<1>11. OnlyVerifiedBytesWritten'
  BY <1>1, <1>2, <1>7 DEF IInv, OnlyVerifiedBytesWritten
<1>12. \/ p \in failed'
       \/ \A s \in 1 .. dw.seg : disk'[p][s] = "good"
  <2>1. CASE p \in failed
    BY <1>6, <2>1
  <2>2. CASE p \notin failed
    <3>1. \A s \in 1 .. dw.seg - 1 : disk[p][s] = "good"
      BY <1>0, <2>2 DEF IInv, WriteProgress
    <3>2. CASE /\ disk' = [disk EXCEPT ![p][dw.seg] = "good"]
      <4> SUFFICES ASSUME NEW s \in 1 .. dw.seg PROVE disk'[p][s] = "good"
        OBVIOUS
      <4>1. disk[p] \in [1 .. Segments[p] -> {"unwritten", "good", "wrong"}] /\ DOMAIN disk = Pieces
        BY <1>0 DEF TypeOK
      <4>2. CASE s = dw.seg
        BY <1>0, <3>2, <4>1, <4>2
      <4>3. CASE s # dw.seg
        BY <1>0, <3>1, <3>2, <4>1, <4>3
      <4>4. QED
        BY <4>2, <4>3
    <3>3. QED
      BY <1>6, <3>2
  <2>3. QED
    BY <2>1, <2>2
<1>13. WriteProgress'
  <2> SUFFICES ASSUME dw'.pc = "write", p \notin failed'
               PROVE  \A s \in 1 .. dw'.seg - 1 : disk'[dw'.req.piece][s] = "good"
    BY <1>5 DEF WriteProgress
  <2>1. dw'.req = dw.req /\ dw'.seg - 1 = dw.seg
    BY <1>0, <1>5
  <2>2. QED
    BY <1>12, <2>1
<1>14. HeldPiecesAccounted'
  <2> SUFFICES ASSUME NEW q \in have \ restored
               PROVE  (OnDisk(q) \/ Pending(q) \/ q \in failed \/ ~running)'
    BY <1>1 DEF HeldPiecesAccounted
  <2>1. q \in Pieces
    BY <1>0 DEF TypeOK
  <2>2. OnDisk(q) \/ Pending(q) \/ q \in failed \/ ~running
    BY DEF IInv, HeldPiecesAccounted
  <2>3. CASE OnDisk(q)
    BY <1>7, <2>1, <2>3 DEF OnDisk
  <2>4. CASE q \in failed \/ ~running
    BY <1>1, <1>6, <2>4
  <2>5. CASE Pending(q) /\ q # p
    BY <1>1, <2>5 DEF Pending
  <2>6. CASE q = p /\ p \notin failed'
    <3>1. \A s \in 1 .. dw.seg : disk'[p][s] = "good"
      BY <1>12, <2>6
    <3>2. dw' = NextMapping
      BY <1>6, <2>6
    <3>3. CASE dw.seg < Segments[p]
      <4>1. dw' = [dw EXCEPT !.seg = @ + 1]
        BY <3>2, <3>3 DEF NextMapping
      <4>2. dw'.pc = "write" /\ dw'.req = dw.req
        BY <1>0, <4>1 DEF DwState
      <4>3. QED
        BY <2>6, <4>2 DEF Pending
    <3>4. CASE ~(dw.seg < Segments[p])
      <4>1. dw.seg = Segments[p]
        BY <1>0, <3>4
      <4>2. QED
        BY <2>6, <3>1, <4>1 DEF OnDisk
    <3>5. QED
      BY <3>3, <3>4
  <2>7. QED
    BY <2>2, <2>3, <2>4, <2>5, <2>6
<1>15. SleepsOnEmptyQueue' /\ NoLostWakeup'
  BY <1>5 DEF SleepsOnEmptyQueue, NoLostWakeup
<1>16. QED
  BY <1>8, <1>9, <1>10, <1>11, <1>13, <1>14, <1>15 DEF IInv

-----------------------------------------------------------------------------
\* Every step keeps the inductive invariant.
THEOREM NextIInv == IInv /\ [Next]_vars => IInv'
<1> SUFFICES ASSUME IInv, [Next]_vars PROVE IInv'
  OBVIOUS
<1>1. CASE SwarmAction
  BY <1>1, SwarmActionsTypeOK, SwarmActionsIInv
<1>2. CASE PW_Request
  BY <1>2, RequestIInv
<1>3. CASE \E c \in Conns : receive_block(c) \/ verify_piece(c)
  BY <1>3, ReceiveIInv, VerifyIInv
<1>4. CASE DW_Check
  BY <1>4, CheckIInv
<1>5. CASE DW_Sleep \/ DW_Wake \/ DW_SpuriousWake
  BY <1>5, SleepIInv
<1>6. CASE DW_WriteMapping \/ DW_WriteFails
  BY <1>6, WriteIInv
<1>7. CASE StopDisk
  BY <1>7, StopIInv
<1>8. CASE UNCHANGED vars
  <2>1. UNCHANGED <<pieceVars, diskVars, restored>> /\ pw' = pw
    BY <1>8 DEF vars, swarmVars
  <2>2. TypeOK'
    BY <1>8 DEF IInv, TypeOK, vars, pieceVars, diskVars, swarmVars
  <2>3. QED
    BY <2>1, <2>2, SwarmActionsIInv
<1>9. QED
  BY <1>1, <1>2, <1>3, <1>4, <1>5, <1>6, <1>7, <1>8
     DEF Next, PeerWorker, Callback, DiskWorker, Close, SwarmAction

\* IInv holds in every reachable state.
THEOREM Invariance == Spec => []IInv
<1>1. QED
  BY InitIInv, NextIInv, PTL DEF Spec

\* The variables keep their types.
THEOREM TypeCorrect == Spec => []TypeOK
<1>1. IInv => TypeOK
  BY DEF IInv
<1>2. QED
  BY <1>1, Invariance, PTL

\* A claimed piece keeps the blocks that were hashed, whatever the order of the
\* callbacks of the connection threads.
THEOREM HeldPiecesStayIntact == Spec => []HeldPiecesIntact
<1>1. IInv => HeldPiecesIntact
  BY DEF IInv
<1>2. QED
  BY <1>1, Invariance, PTL

\* Only bytes of verified pieces are written to the files.
THEOREM FilesHoldVerifiedBytes == Spec => []OnlyVerifiedBytesWritten
<1>1. IInv => OnlyVerifiedBytesWritten
  BY DEF IInv
<1>2. QED
  BY <1>1, Invariance, PTL

\* No claimed piece gets lost between verify_piece and the files without one of
\* the known causes.
THEOREM NoPieceForgotten == Spec => []HeldPiecesAccounted
<1>1. IInv => HeldPiecesAccounted
  BY DEF IInv
<1>2. QED
  BY <1>1, Invariance, PTL

\* The disk worker never sleeps over a non-empty queue without having been
\* notified.
THEOREM WorkerNeverOversleeps == Spec => []NoLostWakeup
<1>1. IInv => NoLostWakeup
  BY DEF IInv
<1>2. QED
  BY <1>1, Invariance, PTL
-----------------------------------------------------------------------------
(* What a step may do to received blocks.                                  *)

KeepsBlocks ==
    \A p \in Pieces :
      data'[p] # data[p] =>
        \/ \E b \in Blocks(p) : data[p][b] = NoData
               /\ \A a \in Blocks(p) \ {b} : data'[p][a] = data[p][a]
        \/ /\ p \notin have
           /\ data'[p] = Empty(p)
           /\ \E b \in Blocks(p) : data[p][b] = "wrong"

\* A received block is given up only with its whole piece, for a wrong block,
\* and never once the piece is claimed.
THEOREM BlocksAreKept == Spec => BlocksKept
<1>1. IInv /\ [Next]_vars => [KeepsBlocks]_vars
  <2> SUFFICES ASSUME IInv, Next, NEW p \in Pieces, data'[p] # data[p]
               PROVE  \/ \E b \in Blocks(p) : data[p][b] = NoData
                             /\ \A a \in Blocks(p) \ {b} : data'[p][a] = data[p][a]
                      \/ /\ p \notin have
                         /\ data'[p] = Empty(p)
                         /\ \E b \in Blocks(p) : data[p][b] = "wrong"
    BY DEF KeepsBlocks
  <2>0. TypeOK
    BY DEF IInv
  <2>1. PICK c \in Conns : receive_block(c) \/ verify_piece(c)
    <3>1. CASE SwarmAction
      BY <3>1, SwarmActionsTypeOK DEF pieceVars
    <3>2. CASE PW_Request \/ DW_Check \/ DW_Sleep \/ DW_Wake \/ DW_SpuriousWake
      BY <3>2 DEF PW_Request, request_block, DW_Check, DW_Sleep, DW_Wake, DW_SpuriousWake,
                  pieceVars
    <3>3. CASE DW_WriteMapping \/ DW_WriteFails \/ StopDisk
      BY <3>3 DEF DW_WriteMapping, DW_WriteFails, StopDisk, pieceVars
    <3>4. QED
      BY <3>1, <3>2, <3>3 DEF Next, PeerWorker, Callback, DiskWorker, Close, SwarmAction
  <2>2. CASE receive_block(c)
    <3> DEFINE b == cb[c].block
    <3>1. /\ cb[c].piece \in active /\ b \in Blocks(cb[c].piece)
          /\ data[cb[c].piece][b] = NoData
          /\ data' = [data EXCEPT ![cb[c].piece][b] = cb[c].payload]
      BY <2>2 DEF receive_block, Accepts
    <3>2. cb[c].piece = p
      BY <2>0, <3>1 DEF TypeOK
    <3>3. \A a \in Blocks(p) \ {b} : data'[p][a] = data[p][a]
      BY <2>0, <3>1, <3>2 DEF TypeOK, BlockTable
    <3>4. QED
      BY <3>1, <3>2, <3>3
  <2>3. CASE verify_piece(c)
    <3>1. /\ Complete(cb[c].piece) /\ ~HashMatches(cb[c].piece)
          /\ data' = [data EXCEPT ![cb[c].piece] = Empty(cb[c].piece)]
      BY <2>3 DEF verify_piece, pieceVars
    <3>2. cb[c].piece = p /\ data'[p] = Empty(p)
      BY <2>0, <3>1 DEF TypeOK
    <3>3. p \in active /\ p \notin have
      BY <3>1, <3>2 DEF IInv, HeldPiecesIntact, RestoredUntouched, Complete
    <3>4. PICK b \in Blocks(p) : data[p][b] # "good"
      BY <3>1, <3>2 DEF HashMatches
    <3>5. data[p][b] # NoData /\ data[p][b] \in Payloads \cup {NoData}
      BY <2>0, <3>1, <3>2 DEF Complete, Received, TypeOK, BlockTable
    <3>6. data[p][b] = "wrong"
      BY <3>4, <3>5 DEF Payloads
    <3>7. QED
      BY <3>2, <3>3, <3>6
  <2>4. QED
    BY <2>1, <2>2, <2>3
<1>2. BlocksKept <=> [][KeepsBlocks]_vars
  BY DEF BlocksKept, KeepsBlocks
<1>3. QED
  BY <1>1, <1>2, Invariance, PTL DEF Spec

-----------------------------------------------------------------------------
(* The refinement of the piece store *)

statuses == [p \in Pieces |-> Status(p)]
storeVars == <<statuses, failed, running>>

\* The disk worker runs until the destructor stops it.
RunsUntilClosed == phase \in {"live", "removed"} => running

LEMMA RunInvariance == Spec => []RunsUntilClosed
<1>1. Init => RunsUntilClosed
  BY DEF Init, RunsUntilClosed
<1>2. RunsUntilClosed /\ [Next]_vars => RunsUntilClosed'
  <2> SUFFICES ASSUME RunsUntilClosed, [Next]_vars PROVE RunsUntilClosed'
    OBVIOUS
  <2>1. CASE RemoveTorrent \/ DiskThreadJoined \/ StopDisk
    BY <2>1 DEF RemoveTorrent, DiskThreadJoined, StopDisk, RunsUntilClosed, diskVars
  <2>2. CASE UNCHANGED <<phase, running>>
    BY <2>2 DEF RunsUntilClosed
  <2>3. CASE PeerWorker
    BY <2>2, <2>3 DEF PeerWorker, PW_CheckCompletion, PW_NothingToRequest, PW_Select,
                      PW_Interested, PW_Request, diskVars
  <2>4. CASE \E c \in Conns : Callback(c)
    BY <2>2, <2>4 DEF Callback, receive_block, AddDownloadedBytes, is_piece_complete,
                      verify_piece, AnnounceHave, UseAfterFree, diskVars
  <2>5. CASE \E c \in Conns, p \in PieceIndex, b \in BlockIndex, d \in Payloads :
               PieceMessage(c, p, b, d)
    BY <2>2, <2>5 DEF PieceMessage, diskVars
  <2>6. CASE DiskWorker \/ DW_SpuriousWake
    BY <2>2, <2>6 DEF DiskWorker, DW_Check, DW_Sleep, DW_Wake, DW_SpuriousWake,
                      DW_WriteMapping, DW_WriteFails
  <2>7. CASE Others \/ UNCHANGED vars
    BY <2>2, <2>7 DEF Others, OthersLock, OthersUnlock, vars, diskVars
  <2>8. QED
    BY <2>1, <2>3, <2>4, <2>5, <2>6, <2>7 DEF Next, Close
<1>3. QED
  BY <1>1, <1>2, PTL DEF Spec

\* Initially every piece is missing, or claimed by the saved bitfield alone.
LEMMA InitRefines == Init => Store!Init
<1> SUFFICES ASSUME Init PROVE Store!Init
  OBVIOUS
<1>1. ASSUME NEW p \in Pieces PROVE Status(p) \in {"missing", "lost"}
  <2>1. ~OnDisk(p)
    BY MappingsAssumption DEF Init, OnDisk
  <2>2. ~Pending(p)
    BY DEF Init, Pending, Checking
  <2>3. QED
    BY <2>1, <2>2 DEF Status
<1>2. QED
  BY <1>1 DEF Store!Init, Init

\* What is neither held nor written nor waiting changes no status.
LEMMA SameStatus ==
    ASSUME UNCHANGED <<have, disk, failed, running>>,
           \A p \in Pieces : Pending(p)' <=> Pending(p)
    PROVE  UNCHANGED storeVars
<1>1. ASSUME NEW p \in Pieces PROVE Status(p)' = Status(p)
  BY DEF Status, OnDisk
<1>2. QED
  BY <1>1 DEF storeVars, statuses

\* A piece with no byte in the files is not on disk.
LEMMA NothingWritten ==
    ASSUME IInv, NEW p \in Pieces, p \notin have PROVE ~OnDisk(p)
BY MappingsAssumption DEF IInv, OnlyVerifiedBytesWritten, OnDisk

LEMMA VerifyRefines ==
    ASSUME IInv, NEW c \in Conns, verify_piece(c)
    PROVE  Store!Next \/ UNCHANGED storeVars
<1>0. TypeOK /\ UNCHANGED <<dw, running, disk, failed, restored>>
  BY DEF IInv, verify_piece
<1>1. CASE UNCHANGED <<have, queue>>
  BY <1>0, <1>1, SameStatus DEF Pending
<1>2. ASSUME NEW p, p = cb[c].piece, Complete(p), have' = have \cup {p}, PushWrite(p)
      PROVE  Store!Next \/ UNCHANGED storeVars
  <2>1. p \in Pieces /\ p \notin restored
    BY <1>0, <1>2 DEF Complete, TypeOK, IInv, RestoredUntouched
  <2> DEFINE w == [piece |-> p, data |-> data[p]]
  <2>2. queue' = Append(queue, w) /\ queue \in Seq(Write) /\ w \in Write
    BY <1>0, <1>2, <2>1 DEF TypeOK, PushWrite, Write
  <2>3. \A i \in DOMAIN queue' : queue'[i] = w \/ (i \in DOMAIN queue /\ queue'[i] = queue[i])
    BY <2>2
  <2>4. \A i \in DOMAIN queue : i \in DOMAIN queue' /\ queue'[i] = queue[i]
    BY <2>2
  <2>5. Len(queue) + 1 \in DOMAIN queue' /\ queue'[Len(queue) + 1] = w
    BY <2>2
  <2>6. ASSUME NEW q \in Pieces, q # p PROVE Status(q)' = Status(q)
    <3>1. Pending(q)' <=> Pending(q)
      BY <1>0, <2>3, <2>4, <2>6 DEF Pending
    <3>2. QED
      BY <1>0, <1>2, <2>6, <3>1 DEF Status, OnDisk
  <2>7. running => Pending(p)'
    BY <1>0, <2>5 DEF Pending
  <2>8. OnDisk(p)' <=> OnDisk(p)
    BY <1>0 DEF OnDisk
  <2>9. ~running => (Pending(p)' <=> Pending(p))
    BY <1>0 DEF Pending
  <2>10. p \in have'
    BY <1>2
  <2>11. statuses' = [statuses EXCEPT ![p] = Status(p)']
    BY <2>1, <2>6 DEF statuses
  <2>12. CASE p \notin have
    <3>1. ~OnDisk(p)
      BY <2>1, <2>12, NothingWritten
    <3>2. Status(p) = "missing"
      BY <2>12 DEF Status
    <3>3. \/ Status(p)' = "verified"
          \/ ~running /\ Status(p)' = "lost"
      BY <2>7, <2>8, <2>10, <3>1 DEF Status
    <3>4. Store!Verify(p)
      BY <1>0, <2>1, <2>11, <3>2, <3>3 DEF Store!Verify, statuses
    <3>5. QED
      BY <2>1, <3>4 DEF Store!Next
  <2>13. CASE p \in have /\ (OnDisk(p) \/ Pending(p) \/ ~running)
    <3>1. Pending(p) => Pending(p)'
      BY <1>0, <2>4 DEF Pending
    <3>2. Status(p)' = Status(p)
      BY <2>7, <2>8, <2>9, <2>10, <2>13, <3>1 DEF Status
    <3>3. QED
      BY <1>0, <2>1, <2>11, <3>2 DEF storeVars, statuses
  <2>14. CASE p \in have /\ ~OnDisk(p) /\ ~Pending(p) /\ running
    <3>1. p \in failed
      BY <2>1, <2>14 DEF IInv, HeldPiecesAccounted
    <3>2. Status(p) = "lost" /\ Status(p)' = "verified"
      BY <2>7, <2>8, <2>10, <2>14 DEF Status
    <3>3. Store!Requeue(p)
      BY <1>0, <2>1, <2>11, <2>14, <3>1, <3>2 DEF Store!Requeue, statuses
    <3>4. QED
      BY <2>1, <3>3 DEF Store!Next
  <2>15. QED
    BY <2>12, <2>13, <2>14
<1>3. QED
  BY <1>1, <1>2 DEF verify_piece, pieceVars
\* Taking a request from the queue keeps its piece pending.
LEMMA CheckRefines == ASSUME IInv, DW_Check PROVE UNCHANGED storeVars
<1>0. TypeOK /\ queue \in Seq(Write) /\ dw \in DwState /\ dw.pc = "check"
      /\ UNCHANGED <<have, disk, failed, running>>
  BY DEF IInv, TypeOK, DW_Check, pieceVars
<1>1. CASE /\ dw' = [dw EXCEPT !.pc = "exited"] \/ dw' = [dw EXCEPT !.pc = "blocking"]
           /\ queue' = queue
  <2>1. dw'.pc # "write"
    BY <1>0, <1>1 DEF DwState
  <2>2. \A p \in Pieces : Pending(p)' <=> Pending(p)
    BY <1>0, <1>1, <2>1 DEF Pending
  <2>3. QED
    BY <1>0, <2>2, SameStatus
<1>2. CASE /\ running /\ queue # <<>>
           /\ dw' = [pc |-> "write", req |-> Head(queue), seg |-> 1]
           /\ queue' = Tail(queue)
  <2>1. dw'.pc = "write" /\ dw'.req = queue[1] /\ 1 \in DOMAIN queue
    BY <1>0, <1>2
  <2>2. \A i \in DOMAIN queue' : i + 1 \in DOMAIN queue /\ queue'[i] = queue[i + 1]
    BY <1>0, <1>2
  <2>3. \A i \in DOMAIN queue : i = 1 \/ (i - 1 \in DOMAIN queue' /\ queue'[i - 1] = queue[i])
    BY <1>0, <1>2
  <2>4. ASSUME NEW p \in Pieces PROVE Pending(p)' <=> Pending(p)
    <3>1. ASSUME Pending(p) PROVE Pending(p)'
      <4>1. PICK i \in DOMAIN queue : queue[i].piece = p
        BY <1>0, <3>1 DEF Pending
      <4>2. QED
        BY <1>0, <1>2, <2>1, <2>3, <4>1 DEF Pending
    <3>2. ASSUME Pending(p)' PROVE Pending(p)
      <4>1. \/ \E i \in DOMAIN queue' : queue'[i].piece = p
            \/ queue[1].piece = p
        BY <2>1, <3>2 DEF Pending
      <4>2. QED
        BY <1>2, <2>1, <2>2, <4>1 DEF Pending
    <3>3. QED
      BY <3>1, <3>2
  <2>5. QED
    BY <1>0, <2>4, SameStatus
<1>3. QED
  BY <1>0, <1>1, <1>2 DEF DW_Check, TypeOK

\* A written mapping completes the piece (Flush), ends a faulty write (GiveUp),
\* fails (Fail) or changes nothing.
LEMMA WriteRefines ==
    ASSUME IInv, DW_WriteMapping \/ DW_WriteFails
    PROVE  Store!Next \/ UNCHANGED storeVars
<1>0. /\ TypeOK /\ dw \in DwState /\ dw.pc = "write" /\ dw.req \in Write
      /\ UNCHANGED <<have, queue, running, restored>>
  BY DEF IInv, TypeOK, DW_WriteMapping, DW_WriteFails, pieceVars
<1>1. PICK p \in Pieces : p = dw.req.piece
  BY <1>0 DEF Write
<1>2. Content(dw.req.data) = "good" /\ p \in have \ restored
  BY <1>0, <1>1 DEF IInv, RequestsVerified
<1>3. IInv' /\ TypeOK'
  BY WriteIInv DEF IInv
<1>4. dw' = Checking \/ dw' = [dw EXCEPT !.seg = @ + 1]
  BY DEF DW_WriteMapping, DW_WriteFails, NextMapping
<1>5. \/ dw'.pc # "write"
      \/ dw'.pc = "write" /\ dw'.req = dw.req
  BY <1>0, <1>4 DEF Checking, DwState
<1>6. DOMAIN disk = Pieces /\ disk[p] \in [1 .. Segments[p] -> {"unwritten", "good", "wrong"}]
  BY <1>0 DEF TypeOK
<1>7. \/ disk' = disk /\ failed' = failed \cup {p}
      \/ disk' = [disk EXCEPT ![p][dw.seg] = "good"] /\ failed' = failed
  BY <1>1, <1>2 DEF DW_WriteMapping, DW_WriteFails
<1>8. ASSUME NEW q \in Pieces, q # p PROVE Status(q)' = Status(q)
  <2>1. disk'[q] = disk[q]
    BY <1>6, <1>7, <1>8
  <2>2. Pending(q)' <=> Pending(q)
    BY <1>0, <1>1, <1>5, <1>8 DEF Pending
  <2>3. QED
    BY <1>0, <2>1, <2>2 DEF Status, OnDisk
<1>9. statuses' = [statuses EXCEPT ![p] = Status(p)']
  BY <1>8 DEF statuses
<1>10. Pending(p) /\ (Status(p) = "verified" \/ Status(p) = "durable")
  BY <1>0, <1>1, <1>2 DEF Pending, Status
<1>11. OnDisk(p) => OnDisk(p)'
  <2>1. CASE disk' = disk
    BY <2>1 DEF OnDisk
  <2>2. CASE disk' = [disk EXCEPT ![p][dw.seg] = "good"]
    <3>1. \A s \in 1 .. Segments[p] : disk'[p][s] = disk[p][s] \/ disk'[p][s] = "good"
      BY <1>6, <2>2
    <3>2. QED
      BY <3>1 DEF OnDisk
  <2>3. QED
    BY <1>7, <2>1, <2>2
<1>12. p \in have'
  BY <1>0, <1>2
<1>13. CASE Status(p)' = Status(p)
  <2>1. statuses' = statuses
    BY <1>9, <1>13 DEF statuses
  <2>2. CASE failed' = failed
    BY <1>0, <2>1, <2>2 DEF storeVars
  <2>3. CASE failed' = failed \cup {p}
    <3>1. Store!Fail(p)
      BY <1>0, <2>1, <2>3 DEF Store!Fail, statuses
    <3>2. QED
      BY <3>1 DEF Store!Next
  <2>4. QED
    BY <1>7, <2>2, <2>3
<1>14. CASE Status(p)' # Status(p)
  <2>1. Status(p) = "verified" /\ ~OnDisk(p)
    <3>1. OnDisk(p) => Status(p) = "durable" /\ Status(p)' = "durable"
      BY <1>2, <1>11, <1>12 DEF Status
    <3>2. ~OnDisk(p) => Status(p) # "durable"
      BY <1>2 DEF Status
    <3>3. QED
      BY <1>10, <1>14, <3>1, <3>2
  <2>2. CASE OnDisk(p)'
    <3>1. Status(p)' = "durable"
      BY <1>12, <2>2 DEF Status
    <3>2. disk' # disk
      BY <2>1, <2>2 DEF OnDisk
    <3>3. failed' = failed
      BY <1>7, <3>2
    <3>4. Store!Flush(p)
      BY <1>0, <1>9, <2>1, <3>1, <3>3 DEF Store!Flush, statuses
    <3>5. QED
      BY <3>4 DEF Store!Next
  <2>3. CASE ~OnDisk(p)'
    <3>1. Status(p)' = "lost" /\ ~Pending(p)'
      BY <1>12, <1>14, <2>1, <2>3 DEF Status
    <3>2. CASE failed' = failed \cup {p}
      <4>1. Store!Fail(p)
        BY <1>0, <1>9, <2>1, <3>1, <3>2 DEF Store!Fail, statuses
      <4>2. QED
        BY <4>1 DEF Store!Next
    <3>3. CASE failed' = failed /\ p \in failed
      <4>1. Store!GiveUp(p)
        BY <1>0, <1>9, <2>1, <3>1, <3>3 DEF Store!GiveUp, statuses
      <4>2. QED
        BY <4>1 DEF Store!Next
    <3>4. CASE failed' = failed /\ p \notin failed
      <4>1. DW_WriteMapping /\ dw' = NextMapping
        BY <1>1, <3>4 DEF DW_WriteMapping, DW_WriteFails
      <4>2. dw'.pc # "write"
        BY <1>1, <1>5, <3>1 DEF Pending
      <4>3. ~(dw.seg < Segments[p]) /\ dw.seg <= Segments[p] /\ dw.seg \in Nat
            /\ Segments[p] \in Nat
        BY <1>0, <1>1, <4>1, <4>2, MappingsAssumption DEF NextMapping, TypeOK, DwState
      <4>4. dw.seg = Segments[p]
        BY <4>3
      <4>5. \A s \in 1 .. dw.seg - 1 : disk[p][s] = "good"
        BY <1>0, <1>1, <3>4 DEF IInv, WriteProgress
      <4>6. disk' = [disk EXCEPT ![p][dw.seg] = "good"]
        BY <1>1, <1>2, <4>1 DEF DW_WriteMapping
      <4>7. ASSUME NEW s \in 1 .. Segments[p] PROVE disk'[p][s] = "good"
        <5>1. CASE s = dw.seg
          BY <1>6, <4>6, <5>1
        <5>2. CASE s # dw.seg
          BY <1>6, <4>3, <4>4, <4>5, <4>6, <5>2
        <5>3. QED
          BY <5>1, <5>2
      <4>8. QED
        BY <2>3, <4>7 DEF OnDisk
    <3>5. QED
      BY <1>7, <3>2, <3>3, <3>4
  <2>4. QED
    BY <2>2, <2>3
<1>15. QED
  BY <1>13, <1>14

\* The destructor drops the queue, not the request in the worker's hands.
LEMMA StopRefines == ASSUME IInv, RunsUntilClosed, StopDisk PROVE Store!Next
<1>0. TypeOK /\ running = TRUE /\ running' = FALSE
      /\ UNCHANGED <<have, disk, failed, dw, queue>>
  BY DEF IInv, TypeOK, StopDisk, RunsUntilClosed, pieceVars
<1> DEFINE dropped == {p \in Pieces : Status(p) = "verified" /\ Status(p)' = "lost"}
<1>1. ASSUME NEW p \in Pieces
      PROVE  Status(p)' = IF p \in dropped THEN "lost" ELSE Status(p)
  <2>1. OnDisk(p)' <=> OnDisk(p)
    BY <1>0 DEF OnDisk
  <2>2. Pending(p)' => Pending(p)
    BY <1>0 DEF Pending
  <2>3. Status(p)' = Status(p) \/ (Status(p) = "verified" /\ Status(p)' = "lost")
    BY <1>0, <2>1, <2>2 DEF Status
  <2>4. QED
    BY <2>3
<1>2. dropped \in SUBSET {p \in Pieces : statuses[p] = "verified"}
  BY DEF statuses
<1>3. statuses' = [p \in Pieces |-> IF p \in dropped THEN "lost" ELSE statuses[p]]
  BY <1>1 DEF statuses
<1>4. Store!Close
  <2> HIDE DEF dropped
  <2>1. QED
    BY <1>0, <1>2, <1>3 DEF Store!Close, statuses
<1>5. QED
  BY <1>4 DEF Store!Next

LEMMA NextRefines ==
    ASSUME IInv, RunsUntilClosed, [Next]_vars
    PROVE  Store!Next \/ UNCHANGED storeVars
<1>1. CASE UNCHANGED <<have, disk, failed, running, queue, dw>>
  BY <1>1, SameStatus DEF Pending
<1>2. CASE SwarmAction
  BY <1>1, <1>2, SwarmActionsTypeOK DEF pieceVars, diskVars
<1>3. CASE PW_Request \/ \E c \in Conns : receive_block(c)
  BY <1>1, <1>3 DEF PW_Request, request_block, receive_block, diskVars
<1>4. CASE \E c \in Conns : verify_piece(c)
  BY <1>4, VerifyRefines
<1>5. CASE DW_Check
  BY <1>5, CheckRefines
<1>6. CASE DW_Sleep \/ DW_Wake \/ DW_SpuriousWake
  <2>1. UNCHANGED <<have, disk, failed, running, queue>> /\ dw.pc # "write" /\ dw'.pc # "write"
    BY <1>6 DEF IInv, TypeOK, DwState, DW_Sleep, DW_Wake, DW_SpuriousWake, Checking, pieceVars
  <2>2. QED
    BY <2>1, SameStatus DEF Pending
<1>7. CASE DW_WriteMapping \/ DW_WriteFails
  BY <1>7, WriteRefines
<1>8. CASE StopDisk
  BY <1>8, StopRefines
<1>9. CASE UNCHANGED vars
  BY <1>1, <1>9 DEF vars, pieceVars, diskVars
<1>10. QED
  BY <1>2, <1>3, <1>4, <1>5, <1>6, <1>7, <1>8, <1>9
     DEF Next, PeerWorker, Callback, DiskWorker, Close, SwarmAction

\* PieceManager's threads implement the piece store, for every torrent: a piece
\* is claimed once, reaches the files or is lost for one of the known causes,
\* and a durable piece stays durable.
THEOREM Refinement == Spec => ImplementsPieceStore
<1>1. IInv /\ RunsUntilClosed /\ [Next]_vars => [Store!Next]_(Store!sVars)
  BY NextRefines DEF Store!sVars, storeVars, statuses
<1>2. QED
  BY <1>1, InitRefines, Invariance, RunInvariance, PTL
     DEF Spec, ImplementsPieceStore, Store!Spec

-----------------------------------------------------------------------------
(* Sums of numbers over a finite set *)

\* A set of numbers has a least one.
LEMMA Least ==
    ASSUME NEW S \in SUBSET Nat, S # {}
    PROVE  \E m \in S : \A k \in S : m <= k
<1> DEFINE R == OpToRel(<, Nat)
<1>1. IsWellFoundedOn(R, Nat)
  BY NatLessThanWellFounded
<1>2. R = {p \in Nat \X Nat : p[1] < p[2]}
  BY DEF OpToRel
<1> HIDE DEF R
<1>3. PICK m \in S : \A k \in S : ~ (<<k, m>> \in R)
  BY <1>1, WFMin
<1>4. ASSUME NEW k \in S, ~(m <= k) PROVE FALSE
  <2>1. k \in Nat /\ m \in Nat /\ k < m
    BY <1>4
  <2>2. <<k, m>> \in R
    BY <2>1, <1>2
  <2> QED
    BY <1>3, <2>2
<1> QED
  BY <1>4

\* A set of finite sets has a smallest one.
LEMMA Smallest ==
    ASSUME NEW S, IsFiniteSet(S), NEW Bad \in SUBSET (SUBSET S), Bad # {}
    PROVE  \E s \in Bad : \A t \in Bad : Cardinality(s) <= Cardinality(t)
<1>1. \A s \in Bad : Cardinality(s) \in Nat
  BY FS_Subset, FS_CardinalityType
<1> DEFINE Sizes == {Cardinality(s) : s \in Bad}
<1>2. Sizes \in SUBSET Nat /\ Sizes # {}
  BY <1>1
<1> HIDE DEF Sizes
<1>3. PICK m \in Sizes : \A k \in Sizes : m <= k
  BY <1>2, Least
<1> QED
  BY <1>3 DEF Sizes

\* A smaller set is left when the element that a fold chooses is taken out.
Chosen(s) == CHOOSE x \in s : TRUE

LEMMA Shrinks ==
    ASSUME NEW S, IsFiniteSet(S), NEW s \in SUBSET S, NEW x \in s
    PROVE  /\ s \ {x} \in SUBSET S /\ Chosen(s) \in s
           /\ Cardinality(s) \in Nat /\ Cardinality(s) # 0
           /\ Cardinality(s \ {x}) = Cardinality(s) - 1
           /\ ~(Cardinality(s) <= Cardinality(s \ {x}))
<1>1. IsFiniteSet(s)
  BY FS_Subset
<1>2. Cardinality(s) \in Nat
  BY <1>1, FS_CardinalityType
<1>3. Cardinality(s \ {x}) = Cardinality(s) - 1
  BY <1>1, FS_RemoveElement
<1>4. Cardinality(s) # 0
  BY <1>1, FS_EmptySet
<1>5. Chosen(s) \in s
  BY DEF Chosen
<1> QED
  BY <1>2, <1>3, <1>4, <1>5

\* g has the sums of f over the subsets of S, as the fold computes them.
AddsUp(f, S, g) ==
    \A s \in SUBSET S : g[s] = IF s = {} THEN 0 ELSE f[Chosen(s)] + g[s \ {Chosen(s)}]

\* There is one such table.
LEMMA AddsUpUnique ==
    ASSUME NEW f, NEW S, IsFiniteSet(S), NEW g, NEW h, AddsUp(f, S, g), AddsUp(f, S, h)
    PROVE  \A s \in SUBSET S : g[s] = h[s]
<1> DEFINE Bad == {s \in SUBSET S : g[s] # h[s]}
<1> SUFFICES ASSUME Bad # {} PROVE FALSE
  OBVIOUS
<1>1. PICK s \in Bad : \A t \in Bad : Cardinality(s) <= Cardinality(t)
  BY Smallest
<1>2. s \in SUBSET S /\ g[s] # h[s]
  BY <1>1
<1>3. s # {}
  BY <1>2 DEF AddsUp
<1>4. Chosen(s) \in s
  BY <1>3 DEF Chosen
<1>5. s \ {Chosen(s)} \in SUBSET S /\ ~(Cardinality(s) <= Cardinality(s \ {Chosen(s)}))
  BY <1>2, <1>4, Shrinks
<1>6. g[s \ {Chosen(s)}] = h[s \ {Chosen(s)}]
  BY <1>1, <1>5
<1> QED
  BY <1>2, <1>3, <1>6 DEF AddsUp

\* There is one: the tables for ever larger subsets extend each other.
LEMMA AddsUpExists ==
    ASSUME NEW f, NEW S, IsFiniteSet(S)
    PROVE  \E g : AddsUp(f, S, [s \in SUBSET S |-> g[s]])
<1> DEFINE Upto(n, g) ==
      \A s \in SUBSET S : Cardinality(s) <= n =>
        g[s] = IF s = {} THEN 0 ELSE f[Chosen(s)] + g[s \ {Chosen(s)}]
    Bad == {n \in Nat : ~ \E g : Upto(n, g)}
<1>1. Bad = {}
  <2> SUFFICES ASSUME Bad # {} PROVE FALSE
    OBVIOUS
  <2>1. PICK n \in Bad : \A k \in Bad : n <= k
    <3>1. Bad \in SUBSET Nat
      OBVIOUS
    <3> HIDE DEF Bad
    <3> QED
      BY <3>1, Least
  <2>2. n \in Nat /\ ~ \E g : Upto(n, g)
    BY <2>1
  <2>3. CASE n = 0
    <3> DEFINE g == [s \in SUBSET S |-> 0]
    <3>1. ASSUME NEW s \in SUBSET S, Cardinality(s) <= 0
          PROVE  s = {}
      <4>1. IsFiniteSet(s) /\ Cardinality(s) \in Nat
        BY FS_Subset, FS_CardinalityType
      <4>2. Cardinality(s) = 0
        BY <3>1, <4>1
      <4> QED
        BY <4>1, <4>2, FS_EmptySet
    <3>2. Upto(0, g)
      BY <3>1
    <3> QED
      BY <2>2, <2>3, <3>2
  <2>4. CASE n # 0
    <3>1. n - 1 \in Nat /\ ~(n <= n - 1) /\ n = (n - 1) + 1
      BY <2>2, <2>4
    <3>2. PICK g : Upto(n - 1, g)
      BY <2>1, <3>1
    <3> DEFINE h == [s \in SUBSET S |->
                       IF Cardinality(s) <= n - 1 THEN g[s]
                       ELSE f[Chosen(s)] + g[s \ {Chosen(s)}]]
    <3>3. ASSUME NEW s \in SUBSET S, Cardinality(s) <= n
          PROVE  h[s] = IF s = {} THEN 0 ELSE f[Chosen(s)] + h[s \ {Chosen(s)}]
      <4>1. CASE s = {}
        <5>1. Cardinality(s) <= n - 1
          BY <3>1, <4>1, FS_EmptySet
        <5>2. h[s] = g[s]
          BY <5>1
        <5> QED
          BY <3>2, <4>1, <5>1, <5>2
      <4>2. CASE s # {}
        <5> DEFINE t == s \ {Chosen(s)}
        <5>1. Chosen(s) \in s
          BY <4>2 DEF Chosen
        <5>2. /\ t \in SUBSET S /\ Cardinality(s) \in Nat
              /\ Cardinality(t) = Cardinality(s) - 1
          BY <5>1, Shrinks
        <5>3. Cardinality(t) <= n - 1
          BY <3>1, <3>3, <5>2
        <5> HIDE DEF t
        <5>4. h[t] = g[t]
          BY <5>2, <5>3
        <5>5. CASE Cardinality(s) <= n - 1
          BY <3>2, <4>2, <5>4, <5>5 DEF t
        <5>6. CASE ~(Cardinality(s) <= n - 1)
          BY <4>2, <5>4, <5>6 DEF t
        <5> QED
          BY <5>5, <5>6
      <4> QED
        BY <4>1, <4>2
    <3> HIDE DEF h
    <3>4. Upto(n, h)
      BY <3>3
    <3> QED
      BY <2>2, <3>4
  <2> QED
    BY <2>3, <2>4
<1>2. Cardinality(S) \in Nat
  BY FS_CardinalityType
<1>3. PICK g : Upto(Cardinality(S), g)
  BY <1>1, <1>2
<1>4. \A s \in SUBSET S : Cardinality(s) <= Cardinality(S)
  BY FS_Subset
<1>5. \A s \in SUBSET S : s # {} => s \ {Chosen(s)} \in SUBSET S
  OBVIOUS
<1>6. AddsUp(f, S, [s \in SUBSET S |-> g[s]])
  BY <1>3, <1>4, <1>5 DEF AddsUp
<1> QED
  BY <1>6

\* The library's fold is that table.
LEMMA SumTable ==
    ASSUME NEW f, NEW S, IsFiniteSet(S)
    PROVE  \E g : /\ AddsUp(f, S, g)
                  /\ SumFunctionOnSet(f, S) = g[S]
<1> DEFINE Step(h) == [s \in SUBSET S |->
                         IF s = {} THEN 0
                         ELSE f[CHOOSE x \in s : TRUE] + h[s \ {CHOOSE x \in s : TRUE}]]
           g == CHOOSE h : h = Step(h)
<1>1. PICK w : AddsUp(f, S, [s \in SUBSET S |-> w[s]])
  BY AddsUpExists
<1> DEFINE v == [s \in SUBSET S |-> w[s]]
<1>2. v = Step(v)
  <2>1. \A s \in SUBSET S : v[s] = Step(v)[s]
    BY <1>1 DEF AddsUp, Chosen
  <2> HIDE DEF Step
  <2>2. Step(v) = [s \in SUBSET S |-> Step(v)[s]]
    BY DEF Step
  <2> QED
    BY <2>1, <2>2
<1> HIDE DEF v
<1>3. g = Step(g)
  BY <1>2
<1>4. SumFunctionOnSet(f, S) = g[S]
  BY DEF SumFunctionOnSet, FoldFunctionOnSet, MapThenFoldSet
<1> HIDE DEF g
<1>5. AddsUp(f, S, g)
  BY <1>3 DEF AddsUp, Chosen
<1> QED
  BY <1>4, <1>5

\* Any table with the sums over subsets gives the sum of each subset.
LEMMA SumOfSubset ==
    ASSUME NEW f, NEW S, IsFiniteSet(S), NEW g, AddsUp(f, S, g), NEW T \in SUBSET S
    PROVE  SumFunctionOnSet(f, T) = g[T]
<1>1. IsFiniteSet(T)
  BY FS_Subset
<1>2. PICK h : AddsUp(f, T, h) /\ SumFunctionOnSet(f, T) = h[T]
  BY <1>1, SumTable
<1>3. AddsUp(f, T, g)
  BY DEF AddsUp
<1> QED
  BY <1>1, <1>2, <1>3, AddsUpUnique

\* The order in which a fold takes the elements does not matter.
LEMMA SumTakesAny ==
    ASSUME NEW S, IsFiniteSet(S), NEW f, \A x \in S : f[x] \in Int, NEW g, AddsUp(f, S, g)
    PROVE  \A s \in SUBSET S : g[s] \in Int /\ \A x \in s : g[s] = f[x] + g[s \ {x}]
<1> DEFINE Bad == {s \in SUBSET S : ~(g[s] \in Int /\ \A x \in s : g[s] = f[x] + g[s \ {x}])}
<1> SUFFICES ASSUME Bad # {} PROVE FALSE
  OBVIOUS
<1>1. PICK s \in Bad : \A t \in Bad : Cardinality(s) <= Cardinality(t)
  <2>1. Bad \in SUBSET (SUBSET S)
    OBVIOUS
  <2> HIDE DEF Bad
  <2> QED
    BY <2>1, Smallest
<1>2. s \in SUBSET S /\ ~(g[s] \in Int /\ \A x \in s : g[s] = f[x] + g[s \ {x}])
  BY <1>1
<1>3. ASSUME NEW x \in s
      PROVE  /\ s \ {x} \in SUBSET S /\ g[s \ {x}] \in Int
             /\ \A y \in s \ {x} : g[s \ {x}] = f[y] + g[(s \ {x}) \ {y}]
  <2>1. s \ {x} \in SUBSET S /\ ~(Cardinality(s) <= Cardinality(s \ {x}))
    BY <1>2, Shrinks
  <2>2. s \ {x} \notin Bad
    BY <1>1, <2>1
  <2> QED
    BY <2>1, <2>2
<1> HIDE DEF Bad
<1>4. s # {}
  <2> SUFFICES ASSUME s = {} PROVE FALSE
    OBVIOUS
  <2>1. g[s] = 0
    BY <1>2 DEF AddsUp
  <2>2. \A x \in s : g[s] = f[x] + g[s \ {x}]
    OBVIOUS
  <2>3. g[s] \in Int
    BY <2>1
  <2> QED
    BY <1>2, <2>2, <2>3, Zenon
<1> DEFINE c == Chosen(s)
<1>5. c \in s /\ c \in S
  BY <1>2, <1>4 DEF Chosen
<1>6. g[s] = f[c] + g[s \ {c}]
  BY <1>2, <1>4 DEF AddsUp
<1> HIDE DEF c
<1>7. g[s] \in Int
  <2>1. f[c] \in Int /\ g[s \ {c}] \in Int
    BY <1>3, <1>5
  <2> QED
    BY <1>6, <2>1
<1>8. ASSUME NEW x \in s PROVE g[s] = f[x] + g[s \ {x}]
  <2>1. CASE x = c
    BY <1>6, <2>1
  <2>2. CASE x # c
    <3>1. x \in s \ {c} /\ c \in s \ {x} /\ (s \ {c}) \ {x} = (s \ {x}) \ {c}
      BY <1>5, <2>2
    <3>2. g[s \ {c}] = f[x] + g[(s \ {x}) \ {c}]
      BY <1>3, <1>5, <3>1
    <3>3. g[s \ {x}] = f[c] + g[(s \ {x}) \ {c}]
      BY <1>3, <3>1
    <3>4. (s \ {x}) \ {c} \in SUBSET S
      BY <1>2
    <3> DEFINE rest == g[(s \ {x}) \ {c}]
    <3>5. rest \in Int
      <4>1. Cardinality(s) \in Nat /\ Cardinality(s \ {x}) = Cardinality(s) - 1
            /\ Cardinality((s \ {x}) \ {c}) = Cardinality(s \ {x}) - 1
        BY <1>2, <1>3, <3>1, Shrinks
      <4>2. ~(Cardinality(s) <= Cardinality((s \ {x}) \ {c}))
        BY <4>1
      <4>3. (s \ {x}) \ {c} \notin Bad
        BY <1>1, <4>2
      <4> QED
        BY <3>4, <4>3 DEF Bad
    <3>6. f[x] \in Int /\ f[c] \in Int
      BY <1>2, <1>5
    <3> HIDE DEF rest
    <3>7. g[s \ {c}] = f[x] + rest /\ g[s \ {x}] = f[c] + rest
      BY <3>2, <3>3 DEF rest
    <3> QED
      BY <1>6, <3>5, <3>6, <3>7
  <2> QED
    BY <2>1, <2>2
<1> QED
  BY <1>2, <1>7, <1>8

\* What a sum is: a number, of nothing 0, one element and the sum of the others.
LEMMA SumFacts ==
    ASSUME NEW S, IsFiniteSet(S), NEW f, \A x \in S : f[x] \in Int
    PROVE  /\ SumFunctionOnSet(f, S) \in Int
           /\ \A x \in S : /\ SumFunctionOnSet(f, S \ {x}) \in Int
                           /\ SumFunctionOnSet(f, S) = f[x] + SumFunctionOnSet(f, S \ {x})
<1>1. PICK g : AddsUp(f, S, g) /\ SumFunctionOnSet(f, S) = g[S]
  BY SumTable
<1>2. \A s \in SUBSET S : g[s] \in Int /\ \A x \in s : g[s] = f[x] + g[s \ {x}]
  BY <1>1, SumTakesAny
<1>3. ASSUME NEW x \in S
      PROVE  SumFunctionOnSet(f, S \ {x}) = g[S \ {x}] /\ S \ {x} \in SUBSET S
  BY <1>1, SumOfSubset
<1> QED
  BY <1>1, <1>2, <1>3

\* Functions that agree have the same sum.
LEMMA SumAgrees ==
    ASSUME NEW S, IsFiniteSet(S), NEW f, NEW g, \A x \in S : f[x] = g[x]
    PROVE  SumFunctionOnSet(f, S) = SumFunctionOnSet(g, S)
<1>1. PICK h : AddsUp(f, S, h) /\ SumFunctionOnSet(f, S) = h[S]
  BY SumTable
<1>2. AddsUp(g, S, h)
  <2> SUFFICES ASSUME NEW s \in SUBSET S
               PROVE  h[s] = IF s = {} THEN 0 ELSE g[Chosen(s)] + h[s \ {Chosen(s)}]
    BY DEF AddsUp
  <2>1. s # {} => Chosen(s) \in S
    BY DEF Chosen
  <2> QED
    BY <1>1, <2>1 DEF AddsUp
<1> QED
  BY <1>1, <1>2, SumOfSubset

\* A sum of zeros is zero.
LEMMA SumOfZeros ==
    ASSUME NEW S, IsFiniteSet(S), NEW f, \A x \in S : f[x] = 0
    PROVE  SumFunctionOnSet(f, S) = 0
<1> DEFINE g == [s \in SUBSET S |-> 0]
<1>1. AddsUp(f, S, g)
  <2> SUFFICES ASSUME NEW s \in SUBSET S
               PROVE  g[s] = IF s = {} THEN 0 ELSE f[Chosen(s)] + g[s \ {Chosen(s)}]
    BY DEF AddsUp
  <2>1. s # {} => f[Chosen(s)] = 0 /\ s \ {Chosen(s)} \in SUBSET S
    BY DEF Chosen
  <2> QED
    BY <2>1
<1> QED
  BY <1>1, SumOfSubset

\* A change of one value changes the sum by as much.
LEMMA SumChanges ==
    ASSUME NEW S, IsFiniteSet(S), NEW f \in [S -> Int], NEW g \in [S -> Int],
           NEW x \in S, \A y \in S \ {x} : g[y] = f[y]
    PROVE  SumFunction(f) \in Int /\ SumFunction(g) = SumFunction(f) - f[x] + g[x]
<1>1. SumFunction(f) = SumFunctionOnSet(f, S) /\ SumFunction(g) = SumFunctionOnSet(g, S)
  BY DEF SumFunction
<1>2. IsFiniteSet(S \ {x})
  BY FS_RemoveElement
<1>3. SumFunctionOnSet(f, S \ {x}) = SumFunctionOnSet(g, S \ {x})
  BY <1>2, SumAgrees
<1>4. /\ SumFunctionOnSet(f, S) \in Int /\ SumFunctionOnSet(f, S \ {x}) \in Int
      /\ SumFunctionOnSet(f, S) = f[x] + SumFunctionOnSet(f, S \ {x})
      /\ SumFunctionOnSet(g, S) = g[x] + SumFunctionOnSet(g, S \ {x})
  BY SumFacts
<1>5. f[x] \in Int /\ g[x] \in Int
  OBVIOUS
<1> QED
  BY <1>1, <1>3, <1>4, <1>5

LEMMA SumTyped ==
    ASSUME NEW S, IsFiniteSet(S), NEW f \in [S -> Int]
    PROVE  SumFunction(f) \in Int
BY SumFacts DEF SumFunction

-----------------------------------------------------------------------------
(* The byte counter of the torrent *)

LEMMA SizesAreNumbers ==
    ASSUME NEW p \in PieceIndex, NEW b \in Nat, NEW d
    PROVE  PayloadSize(p, b, d) \in Int
<1>1. PieceSize(p) \in Int
  BY SizesAssumption DEF PieceSize
<1>2. BlockLength(p, b) \in Int
  BY <1>1, SizesAssumption DEF BlockLength
<1> QED
  BY <1>2, SizesAssumption DEF PayloadSize

LEMMA FinitelyMany ==
    /\ IsFiniteSet(Pieces) /\ Pieces \subseteq PieceIndex
    /\ \A p \in Pieces : IsFiniteSet(Blocks(p)) /\ Blocks(p) \subseteq Nat
<1>1. IsFiniteSet(0 .. NumPieces - 1) /\ Pieces \subseteq PieceIndex
  BY SizesAssumption, FS_Interval DEF PieceIndex
<1>2. ASSUME NEW p \in Pieces
      PROVE  IsFiniteSet(Blocks(p)) /\ Blocks(p) \subseteq Nat
  <2>1. PieceSize(p) \in Int
    BY SizesAssumption DEF PieceSize
  <2>2. TotalBlocks(p) \in Int
    BY <2>1, SizesAssumption DEF TotalBlocks
  <2> QED
    BY <2>2, FS_Interval DEF Blocks
<1> QED
  BY <1>1, <1>2

\* What the sums are over.
ReceivedOf == [p \in Pieces |-> ReceivedBytes(p)]
UncountedOf == [c \in Conns |-> UncountedBy(cb[c])]

LEMMA BlockSizesTyped ==
    ASSUME NEW p \in Pieces, NEW bytes
    PROVE  BlockSizes(p, bytes) \in [Blocks(p) -> Int]
BY SizesAreNumbers, FinitelyMany DEF BlockSizes

LEMMA ReceivedTyped ==
    /\ ReceivedOf \in [Pieces -> Int]
    /\ ReceivedInAll = SumFunction(ReceivedOf)
    /\ ReceivedInAll \in Int
<1>1. \A p \in Pieces : ReceivedBytes(p) \in Int
  BY BlockSizesTyped, FinitelyMany, SumTyped DEF ReceivedBytes
<1>2. ReceivedOf \in [Pieces -> Int]
  BY <1>1 DEF ReceivedOf
<1>3. ReceivedInAll = SumFunction(ReceivedOf)
  BY DEF ReceivedInAll, ReceivedOf
<1>4. SumFunction(ReceivedOf) \in Int
  BY <1>2, FinitelyMany, SumTyped
<1> QED
  BY <1>2, <1>3, <1>4

LEMMA UncountedByTyped == \A r \in CbState : UncountedBy(r) \in Int
<1> TAKE r \in CbState
<1>1. r.piece \in PieceIndex /\ r.block \in Nat
  BY DEF CbState
<1>2. PayloadSize(r.piece, r.block, r.payload) \in Int
  BY <1>1, SizesAreNumbers
<1> QED
  BY <1>2 DEF UncountedBy

LEMMA UncountedTyped ==
    ASSUME TypeOK
    PROVE  /\ UncountedOf \in [Conns -> Int]
           /\ Uncounted = SumFunction(UncountedOf)
           /\ Uncounted \in Int
<1>1. \A c \in Conns : UncountedBy(cb[c]) \in Int
  BY UncountedByTyped DEF TypeOK
<1>2. UncountedOf \in [Conns -> Int]
  BY <1>1 DEF UncountedOf
<1>3. Uncounted = SumFunction(UncountedOf)
  BY DEF Uncounted, UncountedOf
<1>4. SumFunction(UncountedOf) \in Int
  BY <1>2, ConnsAssumption, SumTyped
<1> QED
  BY <1>2, <1>3, <1>4

\* When the blocks of one piece change, the sum changes by as much.
LEMMA PieceChanges ==
    ASSUME NEW p \in Pieces, \A q \in Pieces \ {p} : data'[q] = data[q]
    PROVE  ReceivedInAll' = ReceivedInAll - ReceivedBytes(p) + SumFunction(BlockSizes(p, data'[p]))
<1> DEFINE f == ReceivedOf
           g == [q \in Pieces |-> SumFunction(BlockSizes(q, data'[q]))]
<1>1. f \in [Pieces -> Int] /\ ReceivedInAll = SumFunction(f)
  BY ReceivedTyped
<1>2. ReceivedInAll' = SumFunction(g)
  BY DEF ReceivedInAll, ReceivedBytes
<1>3. \A q \in Pieces : SumFunction(BlockSizes(q, data'[q])) \in Int
  BY BlockSizesTyped, FinitelyMany, SumTyped
<1>4. g \in [Pieces -> Int]
  BY <1>3
<1>5. \A q \in Pieces \ {p} : g[q] = f[q]
  BY DEF ReceivedOf, ReceivedBytes
<1>6. f[p] = ReceivedBytes(p) /\ g[p] = SumFunction(BlockSizes(p, data'[p]))
  BY DEF ReceivedOf
<1>7. IsFiniteSet(Pieces)
  BY FinitelyMany
<1> HIDE DEF f, g
<1>8. f \in [Pieces -> Int] /\ p \in Pieces
  BY <1>1
<1>9. SumFunction(g) = SumFunction(f) - f[p] + g[p]
  BY ONLY <1>4, <1>5, <1>7, <1>8, SumChanges
<1> QED
  BY <1>1, <1>2, <1>6, <1>9

\* A block that is stored adds its size.
LEMMA StoredBlockAdds ==
    ASSUME TypeOK, NEW p \in Pieces, NEW b \in Blocks(p), NEW d,
           data[p][b] = NoData, data' = [data EXCEPT ![p][b] = d]
    PROVE  ReceivedInAll' = ReceivedInAll + PayloadSize(p, b, d)
<1>1. data'[p] = [data[p] EXCEPT ![b] = d] /\ \A q \in Pieces \ {p} : data'[q] = data[q]
  BY DEF TypeOK
<1>2. data[p] \in BlockTable(p)
  BY DEF TypeOK
<1>3. \A a \in Blocks(p) : data'[p][a] = IF a = b THEN d ELSE data[p][a]
  BY <1>1, <1>2 DEF BlockTable
<1> DEFINE f == BlockSizes(p, data[p])
           g == BlockSizes(p, data'[p])
<1>4. f \in [Blocks(p) -> Int] /\ g \in [Blocks(p) -> Int] /\ IsFiniteSet(Blocks(p))
  BY BlockSizesTyped, FinitelyMany
<1>5. \A a \in Blocks(p) \ {b} : g[a] = f[a]
  BY <1>3 DEF BlockSizes
<1>6. f[b] = 0 /\ g[b] = PayloadSize(p, b, d)
  BY <1>3 DEF BlockSizes, PayloadSize, NoData
<1> HIDE DEF f, g
<1>7. SumFunction(f) \in Int /\ SumFunction(g) = SumFunction(f) - f[b] + g[b]
  BY <1>4, <1>5, SumChanges
<1>8. g[b] \in Int
  BY <1>4
<1>9. SumFunction(g) = SumFunction(f) + PayloadSize(p, b, d) /\ PayloadSize(p, b, d) \in Int
  BY <1>6, <1>7, <1>8
<1>10. ReceivedInAll' = ReceivedInAll - SumFunction(f) + SumFunction(g)
  BY <1>1, PieceChanges DEF f, g, ReceivedBytes
<1> QED
  BY <1>7, <1>9, <1>10, ReceivedTyped

\* A piece that is thrown away takes its bytes along.
LEMMA DroppedPieceSubtracts ==
    ASSUME TypeOK, NEW p \in Pieces, data' = [data EXCEPT ![p] = Empty(p)]
    PROVE  ReceivedInAll' = ReceivedInAll - ReceivedBytes(p) /\ ReceivedBytes(p) \in Int
<1>1. data'[p] = Empty(p) /\ \A q \in Pieces \ {p} : data'[q] = data[q]
  BY DEF TypeOK
<1> DEFINE g == BlockSizes(p, Empty(p))
<1>2. g \in [Blocks(p) -> Int] /\ IsFiniteSet(Blocks(p))
  BY BlockSizesTyped, FinitelyMany
<1>3. \A a \in Blocks(p) : g[a] = 0
  BY DEF BlockSizes, PayloadSize, NoData, Empty
<1> HIDE DEF g
<1>4. SumFunction(g) = 0
  BY <1>2, <1>3, SumOfZeros DEF SumFunction
<1>5. ReceivedInAll' = ReceivedInAll - ReceivedBytes(p) + SumFunction(g)
  BY <1>1, PieceChanges DEF g
<1>6. ReceivedBytes(p) \in Int
  BY BlockSizesTyped, FinitelyMany, SumTyped DEF ReceivedBytes
<1> QED
  BY <1>4, <1>5, <1>6, ReceivedTyped

\* A callback that moves changes only what is uncounted of its own block.
LEMMA CallbackCounts ==
    ASSUME TypeOK, TypeOK', NEW c \in Conns, \A k \in Conns \ {c} : cb'[k] = cb[k]
    PROVE  Uncounted' = Uncounted - UncountedBy(cb[c]) + UncountedBy(cb'[c])
<1> DEFINE f == UncountedOf
           g == [k \in Conns |-> UncountedBy(cb'[k])]
<1>1. f \in [Conns -> Int] /\ Uncounted = SumFunction(f)
  BY UncountedTyped
<1>2. Uncounted' = SumFunction(g)
  BY DEF Uncounted
<1>3. g = UncountedOf'
  BY DEF UncountedOf
<1>4. UncountedOf' \in [Conns -> Int]
  <2>1. \A k \in Conns : UncountedBy(cb'[k]) \in Int
    BY UncountedByTyped DEF TypeOK
  <2> QED
    BY <2>1 DEF UncountedOf
<1>5. \A k \in Conns \ {c} : g[k] = f[k]
  BY DEF UncountedOf
<1>6. f[c] = UncountedBy(cb[c]) /\ g[c] = UncountedBy(cb'[c])
  BY DEF UncountedOf
<1> HIDE DEF f, g
<1>7. SumFunction(g) = SumFunction(f) - f[c] + g[c]
  BY <1>1, <1>3, <1>4, <1>5, ConnsAssumption, SumChanges
<1> QED
  BY <1>1, <1>2, <1>6, <1>7

BytesInv ==
    /\ downloaded \in Int /\ discarded \in Int
    /\ BytesAccounted

LEMMA InitBytes == Init => BytesInv
<1> SUFFICES ASSUME Init PROVE BytesInv
  OBVIOUS
<1>1. \A c \in Conns : UncountedOf[c] = 0
  BY DEF Init, Idle, UncountedOf, UncountedBy
<1>2. DOMAIN UncountedOf = Conns
  BY DEF UncountedOf
<1>3. Uncounted = 0
  <2> HIDE DEF UncountedOf
  <2>1. SumFunctionOnSet(UncountedOf, Conns) = 0
    BY <1>1, ConnsAssumption, SumOfZeros
  <2>2. SumFunction(UncountedOf) = 0
    BY <1>2, <2>1 DEF SumFunction
  <2> QED
    BY <2>2 DEF Uncounted, UncountedOf
<1>4. ASSUME NEW p \in Pieces PROVE ReceivedBytes(p) = 0
  <2> DEFINE g == BlockSizes(p, Empty(p))
  <2>1. g \in [Blocks(p) -> Int] /\ IsFiniteSet(Blocks(p))
    BY BlockSizesTyped, FinitelyMany
  <2>2. \A a \in Blocks(p) : g[a] = 0
    BY DEF BlockSizes, PayloadSize, NoData, Empty
  <2>3. data[p] = Empty(p)
    BY DEF Init
  <2> HIDE DEF g
  <2>4. SumFunction(g) = 0
    BY <2>1, <2>2, SumOfZeros DEF SumFunction
  <2> QED
    BY <2>3, <2>4 DEF ReceivedBytes, g
<1>5. \A p \in Pieces : ReceivedOf[p] = 0
  BY <1>4 DEF ReceivedOf
<1>6. DOMAIN ReceivedOf = Pieces
  BY DEF ReceivedOf
<1>7. ReceivedInAll = 0
  BY <1>5, <1>6, FinitelyMany, ReceivedTyped, SumOfZeros DEF SumFunction
<1> QED
  BY <1>3, <1>7 DEF Init, BytesInv, BytesAccounted

\* Steps of no callback, and those that neither store, count nor drop a block.
LEMMA OthersKeepBytes ==
    ASSUME BytesInv, UNCHANGED <<data, cb, downloaded, discarded>>,
           phase' = "live" => phase = "live"
    PROVE  BytesInv'
<1>1. ReceivedInAll' = ReceivedInAll
  BY DEF ReceivedInAll, ReceivedBytes
<1>2. Uncounted' = Uncounted
  BY DEF Uncounted
<1> QED
  BY <1>1, <1>2 DEF BytesInv, BytesAccounted

LEMMA MovesKeepBytes ==
    ASSUME IInv, IInv', BytesInv, NEW c \in Conns,
           \/ \E p \in PieceIndex, b \in BlockIndex, d \in Payloads : PieceMessage(c, p, b, d)
           \/ is_piece_complete(c) \/ AnnounceHave(c)
    PROVE  BytesInv'
<1>1. UNCHANGED <<data, downloaded, discarded, phase>>
  BY DEF PieceMessage, is_piece_complete, AnnounceHave, pieceVars
<1>2. TypeOK /\ TypeOK' /\ cb \in [Conns -> CbState]
  BY DEF IInv, TypeOK
<1>3. /\ cb[c].pc # "count" /\ cb'[c].pc # "count"
      /\ \A k \in Conns \ {c} : cb'[k] = cb[k]
  BY <1>2 DEF PieceMessage, is_piece_complete, AnnounceHave, Goto, Return, Idle, CbState
<1>4. UncountedBy(cb[c]) = 0 /\ UncountedBy(cb'[c]) = 0
  BY <1>3 DEF UncountedBy
<1>5. Uncounted' = Uncounted - UncountedBy(cb[c]) + UncountedBy(cb'[c])
  BY <1>2, <1>3, CallbackCounts
<1>6. Uncounted \in Int
  BY <1>2, UncountedTyped
<1>7. Uncounted' = Uncounted
  BY <1>4, <1>5, <1>6
<1>8. ReceivedInAll' = ReceivedInAll
  BY <1>1 DEF ReceivedInAll, ReceivedBytes
<1> QED
  BY <1>1, <1>7, <1>8 DEF BytesInv, BytesAccounted

\* receive_block: the block stored is not counted yet.
LEMMA ReceiveKeepsBytes ==
    ASSUME IInv, IInv', BytesInv, NEW c \in Conns, receive_block(c)
    PROVE  BytesInv'
<1>1. UNCHANGED <<downloaded, discarded, phase>> /\ cb[c].pc = "receive"
  BY DEF receive_block
<1>2. TypeOK /\ TypeOK' /\ cb \in [Conns -> CbState]
  BY DEF IInv, TypeOK
<1>3. \A k \in Conns \ {c} : cb'[k] = cb[k]
  BY <1>2 DEF receive_block, Goto, Return
<1>4. Uncounted' = Uncounted - UncountedBy(cb[c]) + UncountedBy(cb'[c])
  BY <1>2, <1>3, CallbackCounts
<1>5. UncountedBy(cb[c]) = 0 /\ Uncounted \in Int /\ ReceivedInAll \in Int
  BY <1>1, <1>2, UncountedTyped, ReceivedTyped DEF UncountedBy
<1> DEFINE size == PayloadSize(cb[c].piece, cb[c].block, cb[c].payload)
<1>6. CASE Accepts(cb[c].piece, cb[c].block)
  <2>1. /\ cb[c].piece \in Pieces /\ cb[c].block \in Blocks(cb[c].piece)
        /\ data[cb[c].piece][cb[c].block] = NoData
        /\ data' = [data EXCEPT ![cb[c].piece][cb[c].block] = cb[c].payload]
        /\ cb' = [cb EXCEPT ![c].pc = "count"]
    BY <1>2, <1>6 DEF receive_block, Accepts, Goto, TypeOK
  <2>2. /\ cb'[c].pc = "count" /\ cb'[c].piece = cb[c].piece
        /\ cb'[c].block = cb[c].block /\ cb'[c].payload = cb[c].payload
    BY <1>2, <2>1 DEF CbState
  <2>3. UncountedBy(cb'[c]) = size
    BY <2>2 DEF UncountedBy
  <2>4. PICK p \in Pieces : p = cb[c].piece
    BY <2>1
  <2>5. PICK b \in Blocks(p) : b = cb[c].block
    BY <2>1, <2>4
  <2>6. PICK d : d = cb[c].payload
    OBVIOUS
  <2>7. data[p][b] = NoData /\ data' = [data EXCEPT ![p][b] = d]
    BY <2>1, <2>4, <2>5, <2>6
  <2>8. ReceivedInAll' = ReceivedInAll + PayloadSize(p, b, d)
    BY <1>2, <2>7, StoredBlockAdds
  <2>9. size \in Int /\ size = PayloadSize(p, b, d)
    BY <2>4, <2>5, <2>6, SizesAreNumbers, FinitelyMany
  <2> HIDE DEF size
  <2>10. Uncounted' = Uncounted + size /\ ReceivedInAll' = ReceivedInAll + size
    BY <1>4, <1>5, <2>3, <2>8, <2>9
  <2> QED
    BY <1>1, <1>5, <2>9, <2>10 DEF BytesInv, BytesAccounted
<1>7. CASE ~Accepts(cb[c].piece, cb[c].block)
  <2>1. data' = data /\ cb'[c].pc = "idle"
    BY <1>2, <1>7 DEF receive_block, Return, Idle
  <2>2. UncountedBy(cb'[c]) = 0
    BY <2>1 DEF UncountedBy
  <2>3. Uncounted' = Uncounted
    BY <1>4, <1>5, <2>2
  <2>4. ReceivedInAll' = ReceivedInAll
    BY <2>1 DEF ReceivedInAll, ReceivedBytes
  <2> QED
    BY <1>1, <2>3, <2>4 DEF BytesInv, BytesAccounted
<1> QED
  BY <1>6, <1>7

\* AddDownloadedBytes: the block is counted, if the torrent is still there.
LEMMA CountKeepsBytes ==
    ASSUME IInv, IInv', BytesInv, NEW c \in Conns, AddDownloadedBytes(c)
    PROVE  BytesInv'
<1> DEFINE size == PayloadSize(cb[c].piece, cb[c].block, cb[c].payload)
<1>1. /\ UNCHANGED <<data, discarded, phase>> /\ cb[c].pc = "count"
      /\ downloaded' = IF phase = "live" THEN downloaded + size ELSE downloaded
      /\ cb' = [cb EXCEPT ![c].pc = "complete"]
  BY DEF AddDownloadedBytes, Goto, pieceVars
<1>2. TypeOK /\ TypeOK' /\ cb \in [Conns -> CbState]
  BY DEF IInv, TypeOK
<1>3. cb'[c].pc = "complete" /\ \A k \in Conns \ {c} : cb'[k] = cb[k]
  BY <1>1, <1>2 DEF CbState
<1>4. Uncounted' = Uncounted - UncountedBy(cb[c]) + UncountedBy(cb'[c])
  BY <1>2, <1>3, CallbackCounts
<1>5. UncountedBy(cb[c]) = size /\ UncountedBy(cb'[c]) = 0
  BY <1>1, <1>3 DEF UncountedBy
<1>6. Uncounted \in Int /\ ReceivedInAll \in Int
  BY <1>2, UncountedTyped, ReceivedTyped
<1>7. size \in Int
  <2>1. cb[c].piece \in PieceIndex /\ cb[c].block \in Nat
    BY <1>2 DEF CbState
  <2> QED
    BY <2>1, SizesAreNumbers
<1>8. ReceivedInAll' = ReceivedInAll
  BY <1>1 DEF ReceivedInAll, ReceivedBytes
<1> HIDE DEF size
<1>9. Uncounted' = Uncounted - size
  BY <1>4, <1>5, <1>6, <1>7
<1> QED
  BY <1>1, <1>6, <1>7, <1>8, <1>9 DEF BytesInv, BytesAccounted

\* verify_piece: the bytes of a piece that fails its hash are discarded.
LEMMA VerifyKeepsBytes ==
    ASSUME IInv, IInv', BytesInv, NEW c \in Conns, verify_piece(c)
    PROVE  BytesInv'
<1>1. UNCHANGED <<downloaded, phase>> /\ cb[c].pc = "verify"
  BY DEF verify_piece
<1>2. TypeOK /\ TypeOK' /\ cb \in [Conns -> CbState]
  BY DEF IInv, TypeOK
<1>3. cb'[c].pc # "count" /\ \A k \in Conns \ {c} : cb'[k] = cb[k]
  BY <1>2 DEF verify_piece, Goto, Return, Idle, CbState
<1>4. UncountedBy(cb[c]) = 0 /\ UncountedBy(cb'[c]) = 0
  BY <1>1, <1>3 DEF UncountedBy
<1>5. Uncounted \in Int /\ ReceivedInAll \in Int
  BY <1>2, UncountedTyped, ReceivedTyped
<1>6. Uncounted' = Uncounted
  <2>1. Uncounted' = Uncounted - UncountedBy(cb[c]) + UncountedBy(cb'[c])
    BY <1>2, <1>3, CallbackCounts
  <2> QED
    BY <1>4, <1>5, <2>1
<1>7. CASE UNCHANGED <<data, discarded>>
  <2>1. ReceivedInAll' = ReceivedInAll
    BY <1>7 DEF ReceivedInAll, ReceivedBytes
  <2> QED
    BY <1>1, <1>6, <1>7, <2>1 DEF BytesInv, BytesAccounted
<1>8. CASE ~UNCHANGED <<data, discarded>>
  <2>1. /\ Complete(cb[c].piece)
        /\ data' = [data EXCEPT ![cb[c].piece] = Empty(cb[c].piece)]
        /\ discarded' = discarded + ReceivedBytes(cb[c].piece)
    BY <1>8 DEF verify_piece, pieceVars
  <2>2. PICK p \in Pieces : p = cb[c].piece
    BY <1>2, <2>1 DEF Complete, TypeOK
  <2>3. data' = [data EXCEPT ![p] = Empty(p)] /\ discarded' = discarded + ReceivedBytes(p)
    BY <2>1, <2>2
  <2>4. ReceivedInAll' = ReceivedInAll - ReceivedBytes(p) /\ ReceivedBytes(p) \in Int
    BY <1>2, <2>3, DroppedPieceSubtracts
  <2> QED
    BY <1>1, <1>5, <1>6, <2>3, <2>4 DEF BytesInv, BytesAccounted
<1> QED
  BY <1>7, <1>8

LEMMA NextBytes == IInv /\ IInv' /\ BytesInv /\ [Next]_vars => BytesInv'
<1> SUFFICES ASSUME IInv, IInv', BytesInv, [Next]_vars PROVE BytesInv'
  OBVIOUS
<1> USE DEF pieceVars, diskVars, swarmVars
<1>1. CASE PeerWorker
  BY <1>1, OthersKeepBytes
     DEF PeerWorker, PW_CheckCompletion, PW_NothingToRequest, PW_Select,
         PW_Interested, ReleaseWorker, PW_Request, request_block
<1>2. ASSUME NEW c \in Conns,
             \/ \E p \in PieceIndex, b \in BlockIndex, d \in Payloads : PieceMessage(c, p, b, d)
             \/ Callback(c)
      PROVE  BytesInv'
  <2>1. CASE UseAfterFree(c)
    BY <2>1, OthersKeepBytes DEF UseAfterFree
  <2> QED
    BY <1>2, <2>1, MovesKeepBytes, ReceiveKeepsBytes, CountKeepsBytes, VerifyKeepsBytes
       DEF Callback
<1>3. CASE DiskWorker \/ DW_SpuriousWake
  BY <1>3, OthersKeepBytes
     DEF DiskWorker, DW_Check, DW_Sleep, DW_Wake, DW_WriteMapping, DW_WriteFails, DW_SpuriousWake
<1>4. CASE Close
  BY <1>4, OthersKeepBytes DEF Close, RemoveTorrent, StopDisk, DiskThreadJoined
<1>6. CASE Others
  BY <1>6, OthersKeepBytes DEF Others, OthersLock, OthersUnlock
<1>5. CASE UNCHANGED vars
  BY <1>5, OthersKeepBytes DEF vars
<1> QED
  BY <1>1, <1>2, <1>3, <1>4, <1>5, <1>6 DEF Next

\* downloaded_bytes counts every block that receive_block accepted once, however
\* the callbacks of the connections overlap: it exceeds what is held by what was
\* thrown away, and falls short of it by the blocks whose callback has still to
\* add them.
THEOREM BytesAreAccounted == Spec => []BytesAccounted
<1>1. IInv /\ BytesInv /\ [Next]_vars => IInv' /\ BytesInv'
  BY NextIInv, NextBytes
<1>2. Init => IInv /\ BytesInv
  BY InitIInv, InitBytes
<1>3. BytesInv => BytesAccounted
  BY DEF BytesInv
<1> QED
  BY <1>1, <1>2, <1>3, PTL DEF Spec
=============================================================================
