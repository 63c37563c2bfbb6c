----------------------------- MODULE PieceStore -----------------------------
(***************************************************************************)
(* What PieceManager promises about the pieces of one torrent, without     *)
(* threads, blocks or queues.  A piece is missing, verified (its hash      *)
(* matched, its bytes are still in memory), durable (every byte is in the  *)
(* files) or lost (we claim the piece and the files do not hold it).       *)
(* A piece can only be lost for a reason: it was claimed by a saved        *)
(* bitfield, one of its writes failed, or the store was closed.            *)
(***************************************************************************)
CONSTANT Piece

VARIABLES
    status,   \* status[p]: missing, verified, durable or lost
    faulty,   \* pieces of which some write failed
    open      \* FALSE once the destructor has run

sVars == <<status, faulty, open>>

Init ==
    /\ status \in [Piece -> {"missing", "lost"}]
    /\ faulty = {}
    /\ open = TRUE

\* The hash of a piece matched: its bytes wait to be written.
Verify(p) ==
    /\ status[p] = "missing"
    /\ \/ status' = [status EXCEPT ![p] = "verified"]
       \/ ~open /\ status' = [status EXCEPT ![p] = "lost"]
    /\ UNCHANGED <<faulty, open>>

\* A second thread verifies a piece whose first write failed: a second copy
\* of the bytes is queued.
Requeue(p) ==
    /\ open
    /\ p \in faulty
    /\ status[p] = "lost"
    /\ status' = [status EXCEPT ![p] = "verified"]
    /\ UNCHANGED <<faulty, open>>

\* The last byte of the piece reaches its file.
Flush(p) ==
    /\ status[p] = "verified"
    /\ status' = [status EXCEPT ![p] = "durable"]
    /\ UNCHANGED <<faulty, open>>

\* A write of the piece fails; the piece is lost unless another copy waits
\* or an earlier write already put it into the files.
Fail(p) ==
    /\ faulty' = faulty \cup {p}
    /\ \/ UNCHANGED status
       \/ status[p] = "verified" /\ status' = [status EXCEPT ![p] = "lost"]
    /\ UNCHANGED open

\* A write that ended leaves a piece lost after an earlier fault.
GiveUp(p) ==
    /\ p \in faulty
    /\ status[p] = "verified"
    /\ status' = [status EXCEPT ![p] = "lost"]
    /\ UNCHANGED <<faulty, open>>

\* The destructor drops what is still queued.
Close ==
    /\ open
    /\ open' = FALSE
    /\ \E dropped \in SUBSET {p \in Piece : status[p] = "verified"} :
         status' = [p \in Piece |-> IF p \in dropped THEN "lost" ELSE status[p]]
    /\ UNCHANGED faulty

Next ==
    \/ \E p \in Piece : Verify(p) \/ Requeue(p) \/ Flush(p) \/ Fail(p) \/ GiveUp(p)
    \/ Close

Spec == Init /\ [][Next]_sVars
=============================================================================
