---------------------------- MODULE FileMapping -----------------------------
(***************************************************************************)
(* Where the bytes of a piece go: the loop of parse_files, which gives     *)
(* every file its offset in the torrent, and the nested loop of            *)
(* calculate_file_mappings, which cuts the files at piece boundaries.  One *)
(* action is one iteration.  The torrent is well formed: it has as many    *)
(* hashes as its length asks for, and its piece length is positive.        *)
(***************************************************************************)
EXTENDS Integers, Sequences, FiniteSetsExt

CONSTANTS
    MaxFiles,      \* bound on the number of files
    Lengths,       \* lengths a file may have
    PieceLengths   \* piece lengths a torrent may have

ASSUME LengthsAssumption ==
    /\ MaxFiles \in Nat
    /\ Lengths \subseteq Nat
    /\ PieceLengths \subseteq Nat \ {0}

VARIABLES
    pc,            \* parse, map, done
    piece_length,
    files,         \* metadata_.files: length and offset
    total,         \* current_offset, in the end total_length
    num_pieces,    \* piece_hashes.size()
    file,          \* file_idx + 1; 0 before the first file
    remaining,     \* file_remaining
    piece,         \* current_piece
    offset,        \* piece_offset
    mappings       \* piece_file_mappings_

vars == <<pc, piece_length, files, total, num_pieces, file, remaining, piece,
          offset, mappings>>

Init ==
    /\ pc = "parse"
    /\ piece_length \in PieceLengths
    /\ files = <<>>
    /\ total = 0
    /\ num_pieces = 0
    /\ file = 0
    /\ remaining = 0
    /\ piece = 0
    /\ offset = 0
    /\ mappings = [p \in {} |-> <<>>]

-----------------------------------------------------------------------------
\* Mutant: the offset is taken after the file's length was added.
ParseFileLate(l) ==
    /\ pc = "parse"
    /\ Len(files) < MaxFiles
    /\ files' = Append(files, [length |-> l, offset |-> total + l])
    /\ total' = total + l
    /\ UNCHANGED <<pc, piece_length, num_pieces, file, remaining, piece, offset,
                   mappings>>

ParseFile(l) ==
    /\ pc = "parse"
    /\ Len(files) < MaxFiles
    /\ files' = Append(files, [length |-> l, offset |-> total])
    /\ total' = total + l
    /\ UNCHANGED <<pc, piece_length, num_pieces, file, remaining, piece, offset,
                   mappings>>

\* As many hashes as pieces, the last of which is not empty.
WellFormed(n) == (n - 1) * piece_length < total /\ total <= n * piece_length

StartMapping ==
    /\ pc = "parse"
    /\ \E n \in 0 .. total :
         /\ WellFormed(n) \/ (total = 0 /\ n = 0)
         /\ num_pieces' = n
         /\ mappings' = [p \in 0 .. n - 1 |-> <<>>]
    /\ pc' = "map"
    /\ UNCHANGED <<piece_length, files, total, file, remaining, piece, offset>>

\* Mutant: the loop does not get past an empty file.
NextNonemptyFile ==
    /\ pc = "map"
    /\ remaining = 0 \/ piece >= num_pieces
    /\ IF file < Len(files)
       THEN /\ files[file + 1].length > 0
            /\ file' = file + 1
            /\ remaining' = files[file + 1].length
            /\ UNCHANGED pc
       ELSE /\ pc' = "done"
            /\ UNCHANGED <<file, remaining>>
    /\ UNCHANGED <<piece_length, files, total, num_pieces, piece, offset, mappings>>

\* The outer loop.
NextFile ==
    /\ pc = "map"
    /\ remaining = 0 \/ piece >= num_pieces
    /\ IF file < Len(files)
       THEN /\ file' = file + 1
            /\ remaining' = files[file + 1].length
            /\ UNCHANGED pc
       ELSE /\ pc' = "done"
            /\ UNCHANGED <<file, remaining>>
    /\ UNCHANGED <<piece_length, files, total, num_pieces, piece, offset, mappings>>

\* Mutant: the room left in the piece is forgotten.
ChunkUncut == IF remaining < piece_length THEN remaining ELSE piece_length

\* bytes_in_this_piece
Chunk ==
    LET room == piece_length - offset IN
    IF remaining < room THEN remaining ELSE room

\* Mutant: the boundary is crossed only by going beyond it.
AdvanceLate ==
    IF offset + Chunk > piece_length
    THEN piece' = piece + 1 /\ offset' = 0
    ELSE piece' = piece /\ offset' = offset + Chunk

\* piece_offset += bytes, then the step to the next piece.
Advance ==
    IF offset + Chunk >= piece_length
    THEN piece' = piece + 1 /\ offset' = 0
    ELSE piece' = piece /\ offset' = offset + Chunk

\* Mutant: every chunk of a file starts at the file's first byte.
MappingFromStart == [file |-> file, offset |-> 0, length |-> Chunk]

Mapping == [file |-> file, offset |-> files[file].length - remaining,
            length |-> Chunk]

\* The inner loop.
MapChunk ==
    /\ pc = "map"
    /\ remaining > 0
    /\ piece < num_pieces
    /\ mappings' = [mappings EXCEPT ![piece] = Append(@, Mapping)]
    /\ remaining' = remaining - Chunk
    /\ Advance
    /\ UNCHANGED <<pc, piece_length, files, total, num_pieces, file>>

Next ==
    \/ \E l \in Lengths : ParseFile(l)
    \/ StartMapping
    \/ NextFile
    \/ MapChunk

Spec == Init /\ [][Next]_vars

\* The constructor runs its loops to the end.
FairSpec == Spec /\ WF_vars(NextFile \/ MapChunk)

-----------------------------------------------------------------------------
(* How the mappings are used *)

Pieces == 0 .. num_pieces - 1

\* write_piece and read_piece: the place in the piece's buffer of mapping i.
BufferOffset(p, i) ==
    LET at[j \in 1 .. Len(mappings[p]) + 1] ==
          IF j = 1 THEN 0 ELSE at[j - 1] + mappings[p][j - 1].length
    IN  at[i]

\* Mutant: no special case for a last piece of full length.
PieceSizeRemainder(p) ==
    IF p = num_pieces - 1 THEN total % piece_length ELSE piece_length

\* piece_size of read_piece, the size of its buffer.
PieceSize(p) ==
    LET last == total % piece_length IN
    IF p = num_pieces - 1 /\ last # 0 THEN last ELSE piece_length

\* get_file_range: from a byte of a piece to a byte of a file by the offsets.
get_file_range(p, o) ==
    LET at == p * piece_length + o
        found == {f \in DOMAIN files : files[f].offset <= at
                                       /\ at < files[f].offset + files[f].length}
    IN  IF found = {} THEN [file |-> 0, offset |-> 0]
        ELSE [file |-> Min(found), offset |-> at - files[Min(found)].offset]

-----------------------------------------------------------------------------
(* Properties *)

FileEntry == [length : Nat, offset : Nat]
FileMap == [file : Nat \ {0}, offset : Nat, length : Nat \ {0}]

\* Every variable has its C++ type, no index runs out of its vector and no
\* unsigned subtraction wraps around.
TypeOK ==
    /\ pc \in {"parse", "map", "done"}
    /\ piece_length \in Nat \ {0}
    /\ files \in Seq(FileEntry)
    /\ total \in Nat
    /\ num_pieces \in Nat
    /\ file \in 0 .. Len(files)
    /\ remaining \in Nat
    /\ file > 0 => remaining <= files[file].length
    /\ piece \in Nat
    /\ offset \in 0 .. piece_length - 1
    /\ mappings \in [Pieces -> Seq(FileMap)]

PieceEnd(p) ==
    IF (p + 1) * piece_length < total THEN (p + 1) * piece_length ELSE total

\* The place of a mapping in the torrent.
Place(fs, m) == fs[m.file].offset + m.offset

\* A run of mappings covers a range of the torrent without gap or overlap and
\* stays inside its files.
Covers(fs, ms, from, to) ==
    /\ \A i \in DOMAIN ms :
         /\ ms[i].file \in DOMAIN fs
         /\ ms[i].offset + ms[i].length <= fs[ms[i].file].length
    /\ ms = <<>> => from = to
    /\ ms # <<>> => /\ Place(fs, ms[1]) = from
                    /\ Place(fs, ms[Len(ms)]) + ms[Len(ms)].length = to
    /\ \A i \in 1 .. Len(ms) - 1 :
         Place(fs, ms[i + 1]) = Place(fs, ms[i]) + ms[i].length

\* The mappings of a piece tile it: write_piece and read_piece, which walk them
\* in order, put every byte of the piece where it belongs, across files of any
\* length, empty ones included, and no piece is without a mapping.
Tiled ==
    pc = "done" =>
      \A p \in Pieces : /\ mappings[p] # <<>>
                        /\ Covers(files, mappings[p], p * piece_length, PieceEnd(p))

\* The two ways from a byte of a piece to a byte of a file, the walk of
\* write_piece along the mappings and get_file_range, agree.
LookupAgrees ==
    pc = "done" =>
      \A p \in Pieces : \A i \in DOMAIN mappings[p] :
        LET m == mappings[p][i] IN
        \A x \in 0 .. m.length - 1 :
          get_file_range(p, BufferOffset(p, i) + x)
            = [file |-> m.file, offset |-> m.offset + x]

\* read_piece sizes its buffer by the remainder of total_length and fills it by
\* the mappings, and write_piece reads verified data of that size by the
\* mappings: they never leave the buffer and never leave a part of it.
BufferFits ==
    pc = "done" =>
      \A p \in Pieces : BufferOffset(p, Len(mappings[p]) + 1) = PieceSize(p)

\* The bytes of file f that mapping j of piece q holds.
Holds(q, j, f, x) ==
    LET m == mappings[q][j] IN
    m.file = f /\ m.offset <= x /\ x < m.offset + m.length

MappedOnce(f, x) ==
    \E p \in Pieces : \E i \in DOMAIN mappings[p] :
      \A q \in Pieces : \A j \in DOMAIN mappings[q] :
        Holds(q, j, f, x) <=> (q = p /\ j = i)

\* Every byte of every file belongs to exactly one mapping of one piece.
EveryByteOnce ==
    pc = "done" =>
      \A f \in DOMAIN files : \A x \in 0 .. files[f].length - 1 : MappedOnce(f, x)

\* The loops end, whatever the lengths: zero bytes never keep them going.
MappingEnds == pc = "map" ~> pc = "done"

-----------------------------------------------------------------------------
(* The inductive invariant of the proof *)

\* parse_files lays the files out one after the other.
FilesLaidOut ==
    /\ \A f \in DOMAIN files : files[f].offset + files[f].length <= total
    /\ files = <<>> => total = 0
    /\ files # <<>> => /\ files[1].offset = 0
                       /\ files[Len(files)].offset + files[Len(files)].length = total
    /\ \A f \in 1 .. Len(files) - 1 :
         files[f + 1].offset = files[f].offset + files[f].length

\* The two loops are at the same place of the torrent.
Consumed ==
    IF file = 0 THEN 0 ELSE files[file].offset + files[file].length - remaining

InStep ==
    /\ piece * piece_length + offset = Consumed
    /\ file = 0 => remaining = 0
    /\ pc = "parse" => file = 0 /\ piece = 0 /\ num_pieces = 0
    /\ pc # "parse" => WellFormed(num_pieces) \/ (total = 0 /\ num_pieces = 0)
    /\ pc = "done" => file = Len(files) /\ remaining = 0

\* Full pieces are tiled, the current one up to the current place.
TiledSoFar ==
    \A p \in Pieces :
      /\ p < piece => mappings[p] # <<>>
                      /\ Covers(files, mappings[p], p * piece_length, (p + 1) * piece_length)
      /\ p = piece => Covers(files, mappings[p], p * piece_length, p * piece_length + offset)
      /\ p > piece => mappings[p] = <<>>

\* Of the files up to the current place every byte is mapped once, and no byte
\* after it is mapped.
MappedSoFar ==
    /\ \A q \in Pieces : \A j \in DOMAIN mappings[q] :
         LET m == mappings[q][j] IN
         \/ m.file < file
         \/ m.file = file /\ m.offset + m.length <= files[file].length - remaining
    /\ \A f \in 1 .. file :
         \A x \in 0 .. files[f].length - 1 :
           (f < file \/ x < files[f].length - remaining) => MappedOnce(f, x)

IInv == TypeOK /\ FilesLaidOut /\ InStep /\ TiledSoFar /\ MappedSoFar
=============================================================================
