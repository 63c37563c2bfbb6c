-------------------------- MODULE FileMappingProofs -------------------------
(***************************************************************************)
(* The mappings of calculate_file_mappings tile every piece, for every     *)
(* well-formed torrent.                                                    *)
(***************************************************************************)
EXTENDS FileMapping, TLAPS, WellFoundedInduction

\* Multiples of the piece length.
LEMMA MulSucc == ASSUME NEW a \in Int, NEW c \in Int PROVE (a + 1) * c = a * c + c
  OBVIOUS

LEMMA MulMono ==
    ASSUME NEW a \in Int, NEW b \in Int, NEW c \in Nat, a <= b
    PROVE  a * c <= b * c
<1>1. PICK d \in Nat : b = a + d
  <2>1. b - a \in Nat /\ b = a + (b - a)
    OBVIOUS
  <2>2. QED
    BY <2>1
<1>2. b * c = a * c + d * c
  BY <1>1
<1>3. d * c >= 0
  BY <1>1
<1>4. QED
  BY <1>2, <1>3

\* A run of mappings grows by a mapping that starts where it ends.
LEMMA CoversAppend ==
    ASSUME NEW fs \in Seq(FileEntry), NEW ms \in Seq(FileMap), NEW m \in FileMap,
           NEW from \in Int, NEW to \in Int,
           Covers(fs, ms, from, to),
           m.file \in DOMAIN fs, m.offset + m.length <= fs[m.file].length,
           Place(fs, m) = to
    PROVE  Covers(fs, Append(ms, m), from, to + m.length)
<1> DEFINE ns == Append(ms, m)
<1>1. /\ ns \in Seq(FileMap) /\ Len(ns) = Len(ms) + 1 /\ Len(ms) \in Nat
      /\ ns[Len(ns)] = m
      /\ \A i \in 1 .. Len(ms) : ns[i] = ms[i]
      /\ DOMAIN ms = 1 .. Len(ms) /\ DOMAIN ns = 1 .. Len(ms) + 1
  OBVIOUS
<1>2. ns # <<>> /\ Len(ms) \in Nat /\ Len(ns) = Len(ms) + 1
  BY <1>1
<1> HIDE DEF ns
<1>3. \A i \in DOMAIN ns : /\ ns[i].file \in DOMAIN fs
                           /\ ns[i].offset + ns[i].length <= fs[ns[i].file].length
  BY <1>1 DEF Covers
<1>4. Place(fs, ns[1]) = from
  <2>1. CASE ms = <<>>
    BY <1>1, <2>1 DEF Covers
  <2>2. CASE ms # <<>>
    BY <1>1, <2>2 DEF Covers
  <2>3. QED
    BY <2>1, <2>2
<1>5. Place(fs, ns[Len(ns)]) + ns[Len(ns)].length = to + m.length
  BY <1>1
<1>6. ASSUME NEW i \in 1 .. Len(ns) - 1
      PROVE  Place(fs, ns[i + 1]) = Place(fs, ns[i]) + ns[i].length
  <2>1. CASE i < Len(ms)
    BY <1>1, <2>1 DEF Covers
  <2>2. CASE i = Len(ms)
    BY <1>1, <2>2 DEF Covers
  <2>3. i < Len(ms) \/ i = Len(ms)
    BY <1>2
  <2>4. QED
    BY <2>1, <2>2, <2>3
<1>7. QED
  BY <1>2, <1>3, <1>4, <1>5, <1>6 DEF Covers, ns

\* Lengths and offsets of files are numbers.
LEMMA FileTypes ==
    ASSUME NEW fs \in Seq(FileEntry)
    PROVE  /\ Len(fs) \in Nat /\ DOMAIN fs = 1 .. Len(fs)
           /\ \A f \in 1 .. Len(fs) : fs[f].offset \in Nat /\ fs[f].length \in Nat
<1>1. \A f \in 1 .. Len(fs) : fs[f] \in FileEntry
  OBVIOUS
<1>2. QED
  BY <1>1 DEF FileEntry

LEMMA InitIInv == Init => IInv
<1> SUFFICES ASSUME Init PROVE IInv
  OBVIOUS
<1>1. TypeOK
  BY LengthsAssumption DEF Init, TypeOK, Pieces
<1>2. FilesLaidOut
  BY DEF Init, FilesLaidOut
<1>3. InStep
  BY <1>1 DEF Init, InStep, Consumed, TypeOK
<1>4. TiledSoFar
  BY DEF Init, TiledSoFar, Pieces
<1>5. MappedSoFar
  BY DEF Init, MappedSoFar, Pieces
<1> QED
  BY <1>1, <1>2, <1>3, <1>4, <1>5 DEF IInv

LEMMA ParseIInv == ASSUME NEW l \in Lengths PROVE IInv /\ ParseFile(l) => IInv'
<1> SUFFICES ASSUME IInv, ParseFile(l) PROVE IInv'
  OBVIOUS
<1> DEFINE e == [length |-> l, offset |-> total]
<1>1. TypeOK /\ FilesLaidOut /\ InStep /\ l \in Nat /\ e \in FileEntry /\ pc = "parse"
  BY LengthsAssumption DEF IInv, TypeOK, FileEntry, ParseFile
<1>2. /\ files' = Append(files, e) /\ total' = total + l /\ total \in Nat
      /\ files \in Seq(FileEntry)
      /\ UNCHANGED <<pc, piece_length, num_pieces, file, remaining, piece, offset, mappings>>
  BY <1>1 DEF ParseFile, TypeOK
<1>3. /\ Len(files') = Len(files) + 1 /\ files' \in Seq(FileEntry) /\ Len(files) \in Nat
      /\ files'[Len(files) + 1] = e
      /\ \A f \in 1 .. Len(files) : files'[f] = files[f] /\ files[f] \in FileEntry
      /\ DOMAIN files = 1 .. Len(files) /\ DOMAIN files' = 1 .. Len(files) + 1
  BY <1>1, <1>2
<1>4. file = 0 /\ piece = 0 /\ num_pieces = 0 /\ remaining = 0
  BY <1>1 DEF InStep
<1>5. TypeOK'
  BY <1>1, <1>2, <1>3, <1>4 DEF TypeOK, Pieces
<1>6. FilesLaidOut'
  <2>1. \A f \in DOMAIN files' : files'[f].offset + files'[f].length <= total'
    BY <1>1, <1>2, <1>3 DEF FilesLaidOut, FileEntry
  <2>2. files' # <<>>
    BY <1>3
  <2>3. files'[1].offset = 0
    <3>1. CASE files = <<>>
      BY <1>1, <1>3, <3>1 DEF FilesLaidOut
    <3>2. CASE files # <<>>
      BY <1>1, <1>3, <3>2 DEF FilesLaidOut
    <3>3. QED
      BY <3>1, <3>2
  <2>4. files'[Len(files')].offset + files'[Len(files')].length = total'
    BY <1>2, <1>3
  <2>5. ASSUME NEW f \in 1 .. Len(files') - 1
        PROVE  files'[f + 1].offset = files'[f].offset + files'[f].length
    <3>1. CASE f < Len(files)
      BY <1>1, <1>3, <3>1 DEF FilesLaidOut
    <3>2. CASE f = Len(files)
      BY <1>1, <1>3, <3>2 DEF FilesLaidOut
    <3>3. Len(files') = Len(files) + 1 /\ Len(files) \in Nat
      BY <1>3
    <3>4. f < Len(files) \/ f = Len(files)
      BY <3>3
    <3>5. QED
      BY <3>1, <3>2, <3>4
  <2>6. QED
    BY <2>1, <2>2, <2>3, <2>4, <2>5 DEF FilesLaidOut
<1>7. InStep'
  BY <1>1, <1>2, <1>4 DEF InStep, Consumed
<1>8. TiledSoFar'
  BY <1>2, <1>4 DEF TiledSoFar, Pieces
<1>9. MappedSoFar'
  BY <1>2, <1>4 DEF MappedSoFar, Pieces
<1> QED
  BY <1>5, <1>6, <1>7, <1>8, <1>9 DEF IInv

LEMMA StartIInv == IInv /\ StartMapping => IInv'
<1> SUFFICES ASSUME IInv, StartMapping PROVE IInv'
  OBVIOUS
<1>1. /\ TypeOK /\ FilesLaidOut /\ InStep /\ pc = "parse" /\ pc' = "map"
      /\ UNCHANGED <<piece_length, files, total, file, remaining, piece, offset>>
  BY DEF IInv, StartMapping
<1>2. PICK n \in 0 .. total : /\ WellFormed(n) \/ (total = 0 /\ n = 0)
                              /\ num_pieces' = n
                              /\ mappings' = [p \in 0 .. n - 1 |-> <<>>]
  BY DEF StartMapping
<1>3. file = 0 /\ piece = 0 /\ remaining = 0 /\ offset = 0
  BY <1>1 DEF InStep, Consumed, TypeOK
<1>4. TypeOK'
  BY <1>1, <1>2 DEF TypeOK, Pieces
<1>5. FilesLaidOut'
  BY <1>1 DEF FilesLaidOut
<1>6. InStep'
  BY <1>1, <1>2, <1>3 DEF InStep, Consumed, WellFormed, TypeOK
<1>7. TiledSoFar'
  <2>1. Pieces' = 0 .. n - 1
    BY <1>2 DEF Pieces
  <2>2. ASSUME NEW p \in 0 .. n - 1
        PROVE  Covers(files', mappings'[p], p * piece_length', p * piece_length' + offset')
    <3>1. mappings'[p] = <<>>
      BY <1>2
    <3>2. p * piece_length' + offset' = p * piece_length'
      BY <1>1, <1>3 DEF TypeOK
    <3>3. QED
      BY <3>1, <3>2 DEF Covers
  <2>3. \A p \in 0 .. n - 1 : p >= piece' /\ mappings'[p] = <<>>
    BY <1>1, <1>2, <1>3
  <2>4. QED
    BY <1>1, <1>3, <2>1, <2>2, <2>3 DEF TiledSoFar
<1>8. MappedSoFar'
  BY <1>1, <1>2, <1>3 DEF MappedSoFar, Pieces
<1> QED
  BY <1>4, <1>5, <1>6, <1>7, <1>8 DEF IInv

\* The cursor leaves a file only at its end: when no piece is left, no byte is.
LEMMA FileFinished ==
    ASSUME IInv, NextFile
    PROVE  remaining = 0
<1>1. /\ TypeOK /\ FilesLaidOut /\ InStep /\ pc = "map"
      /\ remaining = 0 \/ piece >= num_pieces
  BY DEF IInv, NextFile
<1>2. /\ files \in Seq(FileEntry) /\ Len(files) \in Nat /\ DOMAIN files = 1 .. Len(files)
      /\ \A f \in 1 .. Len(files) : files[f].offset \in Nat /\ files[f].length \in Nat
  BY <1>1, FileTypes DEF TypeOK
<1> SUFFICES ASSUME piece >= num_pieces, remaining # 0 PROVE FALSE
  BY <1>1
<1>3. file \in 1 .. Len(files) /\ remaining > 0
  BY <1>1, <1>2 DEF InStep, TypeOK
<1>4. piece * piece_length + offset < total
  <2>1. piece * piece_length + offset = files[file].offset + files[file].length - remaining
    BY <1>1, <1>3 DEF InStep, Consumed
  <2>2. files[file].offset + files[file].length <= total
    BY <1>1, <1>2, <1>3 DEF FilesLaidOut
  <2>3. files[file].offset \in Nat /\ files[file].length \in Nat /\ total \in Nat
        /\ remaining \in Nat
    BY <1>1, <1>2, <1>3 DEF TypeOK
  <2> QED
    BY <1>3, <2>1, <2>2, <2>3
<1>5. total <= num_pieces * piece_length
  BY <1>1 DEF InStep, WellFormed, TypeOK
<1>6. num_pieces * piece_length <= piece * piece_length
  BY <1>1, MulMono DEF TypeOK
<1> DEFINE a == num_pieces * piece_length
           b == piece * piece_length
<1>7. a \in Int /\ b \in Int /\ offset \in Nat
  BY <1>1 DEF TypeOK
<1> HIDE DEF a, b
<1>8. b + offset < total /\ total <= a /\ a <= b
  BY <1>4, <1>5, <1>6 DEF a, b
<1> QED
  BY <1>1, <1>7, <1>8 DEF TypeOK

\* The files before the new one are mapped up to their ends.
LEMMA NextFileMaps ==
    ASSUME IInv, NextFile
    PROVE  MappedSoFar'
<1>1. /\ TypeOK /\ MappedSoFar /\ remaining = 0
      /\ UNCHANGED <<piece_length, files, total, num_pieces, piece, offset, mappings>>
  BY FileFinished DEF IInv, NextFile
<1>2. /\ files \in Seq(FileEntry) /\ Len(files) \in Nat /\ file \in 0 .. Len(files)
      /\ \A f \in 1 .. Len(files) : files[f].offset \in Nat /\ files[f].length \in Nat
      /\ mappings \in [Pieces -> Seq(FileMap)]
  BY <1>1, FileTypes DEF TypeOK
<1>3. \A f, x : MappedOnce(f, x) => MappedOnce(f, x)'
  BY <1>1 DEF MappedOnce, Holds, Pieces
<1>4. CASE file < Len(files)
  <2>1. file' = file + 1 /\ remaining' = files[file + 1].length
    BY <1>4 DEF NextFile
  <2>2. files[file + 1].length \in Nat
    BY <1>2, <1>4
  <2>3. ASSUME NEW q \in Pieces', NEW j \in DOMAIN mappings'[q]
        PROVE  mappings'[q][j].file < file'
    <3>1. q \in Pieces /\ j \in DOMAIN mappings[q] /\ mappings' = mappings
      BY <1>1 DEF Pieces
    <3>2. mappings[q][j] \in FileMap
      BY <1>2, <3>1
    <3>3. mappings[q][j].file \in Nat /\ file \in Nat
      BY <1>2, <3>2 DEF FileMap
    <3>4. mappings[q][j].file < file \/ mappings[q][j].file = file
      BY <1>1, <3>1 DEF MappedSoFar
    <3> QED
      BY <2>1, <3>1, <3>3, <3>4
  <2>4. ASSUME NEW f \in 1 .. file', NEW x \in 0 .. files'[f].length - 1,
               f < file' \/ x < files'[f].length - remaining'
        PROVE  MappedOnce(f, x)'
    <3>1. f \in 1 .. file
      <4>1. f = file + 1 => x < 0
        BY <1>1, <1>2, <2>1, <2>2, <2>4
      <4>2. f \in 1 .. Len(files) /\ x \in Nat
        BY <1>1, <1>2, <1>4, <2>1
      <4> QED
        BY <1>2, <2>1, <4>1, <4>2
    <3>2. f < file \/ x < files[f].length - remaining
      BY <1>1, <1>2, <3>1
    <3> QED
      BY <1>1, <1>3, <3>1, <3>2 DEF MappedSoFar
  <2> QED
    BY <2>3, <2>4 DEF MappedSoFar
<1>5. CASE ~(file < Len(files))
  <2>1. UNCHANGED <<file, remaining>>
    BY <1>5 DEF NextFile
  <2> QED
    BY <1>1, <2>1 DEF MappedSoFar, MappedOnce, Holds, Pieces
<1> QED
  BY <1>4, <1>5

LEMMA NextFileIInv == IInv /\ NextFile => IInv'
<1> SUFFICES ASSUME IInv, NextFile PROVE IInv'
  OBVIOUS
<1>1. /\ TypeOK /\ FilesLaidOut /\ InStep /\ TiledSoFar /\ pc = "map"
      /\ remaining = 0 \/ piece >= num_pieces
      /\ UNCHANGED <<piece_length, files, total, num_pieces, piece, offset, mappings>>
  BY DEF IInv, NextFile
<1>2. FilesLaidOut' /\ TiledSoFar'
  BY <1>1 DEF FilesLaidOut, TiledSoFar, Pieces
<1> MappedSoFar'
  BY NextFileMaps
<1>3. /\ files \in Seq(FileEntry) /\ Len(files) \in Nat /\ DOMAIN files = 1 .. Len(files)
      /\ \A f \in 1 .. Len(files) : files[f].offset \in Nat /\ files[f].length \in Nat
  BY <1>1, FileTypes DEF TypeOK
<1>4. remaining = 0
  BY FileFinished
<1>5. CASE file < Len(files)
  <2>1. file' = file + 1 /\ remaining' = files[file + 1].length /\ pc' = pc
    BY <1>5 DEF NextFile
  <2>2. file + 1 \in 1 .. Len(files)
    BY <1>1, <1>3, <1>5 DEF TypeOK
  <2>3. TypeOK'
    BY <1>1, <1>3, <2>1, <2>2 DEF TypeOK, Pieces
  <2>4. Consumed = files[file + 1].offset
    <3>1. CASE file = 0
      BY <1>1, <1>3, <1>5, <3>1 DEF Consumed, FilesLaidOut
    <3>2. CASE file > 0
      BY <1>1, <1>3, <1>4, <1>5, <3>2 DEF Consumed, FilesLaidOut, TypeOK
    <3>3. QED
      BY <1>1, <3>1, <3>2 DEF TypeOK
  <2>5. Consumed' = Consumed
    BY <1>1, <1>3, <2>1, <2>2, <2>4 DEF Consumed
  <2>6. InStep'
    BY <1>1, <1>3, <2>1, <2>2, <2>5 DEF InStep, WellFormed
  <2>7. QED
    BY <1>2, <2>3, <2>6 DEF IInv
<1>6. CASE ~(file < Len(files))
  <2>1. pc' = "done" /\ UNCHANGED <<file, remaining>>
    BY <1>6 DEF NextFile
  <2>2. TypeOK'
    BY <1>1, <2>1 DEF TypeOK, Pieces
  <2>3. file = Len(files)
    BY <1>1, <1>3, <1>6 DEF TypeOK
  <2>4. InStep'
    BY <1>1, <1>4, <2>1, <2>3 DEF InStep, WellFormed, Consumed
  <2>5. QED
    BY <1>2, <2>2, <2>4 DEF IInv
<1>7. QED
  BY <1>5, <1>6

\* The chunk is not empty and fits both the file and the piece.
LEMMA ChunkFits ==
    ASSUME IInv, MapChunk
    PROVE  /\ Chunk \in Nat \ {0} /\ Chunk <= remaining /\ offset + Chunk <= piece_length
           /\ file \in 1 .. Len(files) /\ piece \in Pieces
           /\ Mapping \in FileMap
           /\ Mapping.file = file /\ Mapping.length = Chunk
           /\ Mapping.offset + Chunk <= files[file].length
           /\ Place(files, Mapping) = piece * piece_length + offset
<1>1. /\ TypeOK /\ InStep /\ remaining > 0 /\ piece < num_pieces
  BY DEF IInv, MapChunk
<1>2. /\ piece_length \in Nat \ {0} /\ remaining \in Nat /\ offset \in 0 .. piece_length - 1
      /\ piece \in Nat /\ num_pieces \in Nat /\ Len(files) \in Nat
      /\ file \in 0 .. Len(files) /\ (file > 0 => remaining <= files[file].length)
  BY <1>1 DEF TypeOK
<1>3. Chunk \in Nat \ {0} /\ Chunk <= remaining /\ offset + Chunk <= piece_length
  BY <1>1, <1>2 DEF Chunk
<1>4. file # 0
  BY <1>1 DEF InStep
<1>5. file \in 1 .. Len(files) /\ piece \in Pieces
  BY <1>1, <1>2, <1>4 DEF Pieces
<1>6. files[file].offset \in Nat /\ files[file].length \in Nat
      /\ remaining <= files[file].length
  BY <1>1, <1>2, <1>5, FileTypes DEF TypeOK
<1>7. /\ Mapping.file = file /\ Mapping.length = Chunk
      /\ Mapping.offset = files[file].length - remaining
  BY DEF Mapping
<1>8. Mapping \in FileMap
  BY <1>2, <1>3, <1>5, <1>6 DEF Mapping, FileMap
<1>9. Mapping.offset + Chunk <= files[file].length
  BY <1>2, <1>3, <1>6, <1>7
<1>10. Place(files, Mapping) = piece * piece_length + offset
  <2>1. piece * piece_length + offset = files[file].offset + files[file].length - remaining
    BY <1>1, <1>4 DEF InStep, Consumed
  <2>2. QED
    BY <1>2, <1>6, <1>7, <2>1 DEF Place
<1>11. QED
  BY <1>3, <1>5, <1>7, <1>8, <1>9, <1>10

\* The new mapping holds the bytes of the file that follow those mapped before.
LEMMA MapChunkMaps ==
    ASSUME IInv, MapChunk
    PROVE  MappedSoFar'
<1>1. /\ TypeOK /\ MappedSoFar
      /\ UNCHANGED <<files, num_pieces, file>>
      /\ mappings' = [mappings EXCEPT ![piece] = Append(@, Mapping)]
      /\ remaining' = remaining - Chunk
  BY DEF IInv, MapChunk
<1>2. /\ Chunk \in Nat \ {0} /\ Chunk <= remaining
      /\ file \in 1 .. Len(files) /\ piece \in Pieces
      /\ Mapping \in FileMap /\ Mapping.file = file /\ Mapping.length = Chunk
  BY ChunkFits
<1>3. /\ remaining \in Nat /\ files \in Seq(FileEntry) /\ Len(files) \in Nat
      /\ mappings \in [Pieces -> Seq(FileMap)] /\ Pieces' = Pieces
      /\ files[file].length \in Nat
  BY <1>1, <1>2, FileTypes DEF TypeOK, Pieces
<1>4. Mapping.offset = files[file].length - remaining
  BY DEF Mapping
<1> DEFINE ms == mappings[piece]
           n == Len(ms)
           end == files[file].length - remaining
<1>5. ms \in Seq(FileMap) /\ n \in Nat /\ DOMAIN ms = 1 .. n
  BY <1>2, <1>3
<1>6. /\ mappings'[piece] = Append(ms, Mapping)
      /\ \A q \in Pieces \ {piece} : mappings'[q] = mappings[q]
  BY <1>1, <1>2, <1>3
<1>7. /\ DOMAIN mappings'[piece] = 1 .. n + 1
      /\ mappings'[piece][n + 1] = Mapping
      /\ \A j \in 1 .. n : mappings'[piece][j] = mappings[piece][j]
  BY <1>2, <1>5, <1>6
<1>8. \A q \in Pieces : \A j \in DOMAIN mappings[q] :
        /\ j \in DOMAIN mappings'[q] /\ mappings'[q][j] = mappings[q][j]
        /\ ~(q = piece /\ j = n + 1)
  BY <1>5, <1>6, <1>7
<1>9. \A q \in Pieces : \A j \in DOMAIN mappings'[q] :
        j \in DOMAIN mappings[q] \/ (q = piece /\ j = n + 1)
  BY <1>5, <1>6, <1>7
<1>10. \A q \in Pieces : \A j \in DOMAIN mappings[q] : mappings[q][j] \in FileMap
  BY <1>3
<1>11. end \in Int /\ Mapping.offset = end /\ Mapping.offset + Mapping.length = end + Chunk
       /\ files[file].length - remaining' = end + Chunk
  BY <1>1, <1>2, <1>3, <1>4
<1>12. \A q \in Pieces : \A j \in DOMAIN mappings[q] :
         \/ mappings[q][j].file < file
         \/ mappings[q][j].file = file /\ mappings[q][j].offset + mappings[q][j].length <= end
  BY <1>1 DEF MappedSoFar
<1> HIDE DEF n, ms, end
<1>13. ASSUME NEW q \in Pieces', NEW j \in DOMAIN mappings'[q]
       PROVE  \/ mappings'[q][j].file < file'
              \/ mappings'[q][j].file = file' /\ mappings'[q][j].offset + mappings'[q][j].length
                                                   <= files'[file'].length - remaining'
  <2>1. CASE j \in DOMAIN mappings[q]
    <3>1. q \in Pieces /\ mappings'[q][j] = mappings[q][j] /\ mappings[q][j] \in FileMap
      BY <1>3, <1>8, <1>10, <2>1
    <3>2. mappings[q][j].offset \in Nat /\ mappings[q][j].length \in Nat
      BY <3>1 DEF FileMap
    <3>3. \/ mappings[q][j].file < file
          \/ mappings[q][j].file = file /\ mappings[q][j].offset + mappings[q][j].length <= end
      BY <1>12, <2>1, <3>1
    <3>4. mappings[q][j].offset + mappings[q][j].length <= end
            => mappings[q][j].offset + mappings[q][j].length <= end + Chunk
      BY <1>2, <1>11, <3>2
    <3> QED
      BY <1>1, <1>11, <3>1, <3>3, <3>4
  <2>2. CASE q = piece /\ j = n + 1
    <3>1. mappings'[q][j] = Mapping
      BY <1>7, <2>2
    <3>2. Mapping.offset + Mapping.length <= end + Chunk
      BY <1>2, <1>11
    <3> QED
      BY <1>1, <1>2, <1>11, <3>1, <3>2
  <2> QED
    BY <1>3, <1>9, <2>1, <2>2
<1>14. ASSUME NEW f \in 1 .. file', NEW x \in 0 .. files'[f].length - 1,
              f < file' \/ x < files'[f].length - remaining'
       PROVE  MappedOnce(f, x)'
  <2>0. f \in 1 .. file /\ x \in Nat /\ f \in Nat /\ file \in Nat
    BY <1>1, <1>2, <1>3
  <2>1. CASE f < file \/ x < end
    <3>1. MappedOnce(f, x)
      <4>1. x \in 0 .. files[f].length - 1
        BY <1>1
      <4>2. f < file \/ x < files[f].length - remaining
        BY <2>0, <2>1 DEF end
      <4> QED
        BY <1>1, <2>0, <4>1, <4>2 DEF MappedSoFar
    <3>p. PICK p \in Pieces : \E i \in DOMAIN mappings[p] :
            \A q \in Pieces : \A j \in DOMAIN mappings[q] : Holds(q, j, f, x) <=> (q = p /\ j = i)
      BY <3>1 DEF MappedOnce
    <3>2. PICK i \in DOMAIN mappings[p] :
            \A q \in Pieces : \A j \in DOMAIN mappings[q] : Holds(q, j, f, x) <=> (q = p /\ j = i)
      BY <3>p
    <3>3. ASSUME NEW q \in Pieces, NEW j \in DOMAIN mappings'[q]
          PROVE  Holds(q, j, f, x)' <=> (q = p /\ j = i)
      <4>1. CASE j \in DOMAIN mappings[q]
        <5>1. mappings'[q][j] = mappings[q][j]
          BY <1>8, <4>1
        <5> QED
          BY <3>2, <4>1, <5>1 DEF Holds
      <4>2. CASE q = piece /\ j = n + 1
        <5>1. mappings'[q][j] = Mapping
          BY <1>7, <4>2
        <5>2. ~(f = file /\ end <= x)
          BY <1>11, <2>0, <2>1
        <5>3. ~Holds(q, j, f, x)'
          BY <1>2, <1>11, <5>1, <5>2 DEF Holds
        <5>4. ~(q = p /\ j = i)
          BY <1>8, <3>2, <4>2
        <5> QED
          BY <5>3, <5>4
      <4> QED
        BY <1>9, <4>1, <4>2
    <3>4. i \in DOMAIN mappings'[p]
      BY <1>8
    <3> QED
      BY <1>3, <3>3, <3>4 DEF MappedOnce
  <2>2. CASE ~(f < file \/ x < end)
    <3>1. f = file /\ end <= x
      BY <1>11, <2>0, <2>2
    <3>2. x < end + Chunk
      BY <1>1, <1>11, <1>14, <2>0, <3>1
    <3>3. ASSUME NEW q \in Pieces, NEW j \in DOMAIN mappings'[q]
          PROVE  Holds(q, j, f, x)' <=> (q = piece /\ j = n + 1)
      <4>1. CASE j \in DOMAIN mappings[q]
        <5>1. mappings'[q][j] = mappings[q][j] /\ mappings[q][j] \in FileMap
              /\ ~(q = piece /\ j = n + 1)
          BY <1>8, <1>10, <4>1
        <5>2. mappings[q][j].offset \in Nat /\ mappings[q][j].length \in Nat
              /\ mappings[q][j].file \in Nat
          BY <5>1 DEF FileMap
        <5>3. \/ mappings[q][j].file < file
              \/ mappings[q][j].offset + mappings[q][j].length <= end
          BY <1>12, <4>1
        <5>4. ~(mappings[q][j].file = file /\ x < mappings[q][j].offset + mappings[q][j].length)
          BY <1>11, <2>0, <3>1, <5>2, <5>3
        <5> QED
          BY <3>1, <5>1, <5>4 DEF Holds
      <4>2. CASE q = piece /\ j = n + 1
        <5>1. mappings'[q][j] = Mapping
          BY <1>7, <4>2
        <5> QED
          BY <1>2, <1>11, <3>1, <3>2, <4>2, <5>1 DEF Holds
      <4> QED
        BY <1>9, <4>1, <4>2
    <3>4. piece \in Pieces' /\ n + 1 \in DOMAIN mappings'[piece]
      BY <1>2, <1>3, <1>5, <1>7
    <3> QED
      BY <1>3, <3>3, <3>4 DEF MappedOnce
  <2> QED
    BY <2>1, <2>2
<1> QED
  BY <1>13, <1>14 DEF MappedSoFar

LEMMA MapChunkIInv == IInv /\ MapChunk => IInv'
<1> SUFFICES ASSUME IInv, MapChunk PROVE IInv'
  OBVIOUS
<1>1. /\ TypeOK /\ FilesLaidOut /\ InStep /\ TiledSoFar /\ pc = "map"
      /\ UNCHANGED <<pc, piece_length, files, total, num_pieces, file>>
      /\ mappings' = [mappings EXCEPT ![piece] = Append(@, Mapping)]
      /\ remaining' = remaining - Chunk
      /\ Advance
  BY DEF IInv, MapChunk
<1>2. /\ Chunk \in Nat \ {0} /\ Chunk <= remaining /\ offset + Chunk <= piece_length
      /\ file \in 1 .. Len(files) /\ piece \in Pieces
      /\ Mapping \in FileMap /\ Mapping.file = file /\ Mapping.length = Chunk
      /\ Mapping.offset + Chunk <= files[file].length
      /\ Place(files, Mapping) = piece * piece_length + offset
  BY ChunkFits
<1>3. /\ piece_length \in Nat \ {0} /\ remaining \in Nat /\ offset \in 0 .. piece_length - 1
      /\ piece \in Nat /\ num_pieces \in Nat /\ files \in Seq(FileEntry)
      /\ Len(files) \in Nat /\ DOMAIN files = 1 .. Len(files)
      /\ mappings \in [Pieces -> Seq(FileMap)] /\ Pieces' = Pieces
      /\ files[file].offset \in Nat /\ files[file].length \in Nat
  BY <1>1, <1>2, FileTypes DEF TypeOK, Pieces
<1>4. mappings' \in [Pieces -> Seq(FileMap)]
  BY <1>1, <1>2, <1>3
<1>5. /\ piece' \in Nat /\ offset' \in 0 .. piece_length - 1
      /\ \/ piece' = piece /\ offset' = offset + Chunk
         \/ piece' = piece + 1 /\ offset' = 0 /\ offset + Chunk = piece_length
  <2> HIDE DEF Chunk
  <2>1. Chunk \in Int /\ offset \in Int /\ offset >= 0 /\ Chunk >= 0
        /\ offset + Chunk <= piece_length /\ piece_length >= 1
    BY <1>2, <1>3
  <2>2. CASE offset + Chunk >= piece_length
    <3>1. piece' = piece + 1 /\ offset' = 0
      BY <1>1, <2>2 DEF Advance
    <3> QED
      BY <1>3, <2>1, <2>2, <3>1
  <2>3. CASE ~(offset + Chunk >= piece_length)
    <3>1. piece' = piece /\ offset' = offset + Chunk
      BY <1>1, <2>3 DEF Advance
    <3> QED
      BY <1>3, <2>1, <2>3, <3>1
  <2> QED
    BY <2>2, <2>3
<1>6. TypeOK'
  BY <1>1, <1>2, <1>3, <1>4, <1>5 DEF TypeOK
<1>7. FilesLaidOut'
  BY <1>1 DEF FilesLaidOut
<1>8. piece' * piece_length + offset' = piece * piece_length + offset + Chunk
  <2> DEFINE here == piece * piece_length
             there == piece' * piece_length
  <2>1. piece \in Int /\ piece_length \in Int
    BY <1>3
  <2>2. (piece + 1) * piece_length = here + piece_length
    BY <2>1, MulSucc
  <2>3. here \in Int
    BY <2>1
  <2>4. CASE piece' = piece /\ offset' = offset + Chunk
    <3>1. there = here
      BY <2>4
    <3> HIDE DEF here, there
    <3>2. there + offset' = here + offset + Chunk
      BY <1>2, <1>3, <2>3, <2>4, <3>1
    <3> QED
      BY <3>2 DEF here, there
  <2>5. CASE piece' = piece + 1 /\ offset' = 0 /\ offset + Chunk = piece_length
    <3>1. there = here + piece_length
      BY <2>2, <2>5
    <3> HIDE DEF here, there
    <3>2. there + offset' = here + offset + Chunk
      BY <1>2, <1>3, <2>3, <2>5, <3>1
    <3> QED
      BY <3>2 DEF here, there
  <2> QED
    BY <1>5, <2>4, <2>5
<1>9. InStep'
  <2>1. Consumed' = Consumed + Chunk
    <3> DEFINE start == files[file].offset
               size  == files[file].length
    <3>1. file # 0 /\ remaining \in Int /\ Chunk \in Int /\ start \in Int /\ size \in Int
      BY <1>2, <1>3
    <3>2. files' = files /\ file' = file /\ remaining' = remaining - Chunk
      BY <1>1
    <3>3. Consumed = start + (size - remaining)
      BY <3>1 DEF Consumed
    <3>4. Consumed' = start + (size - remaining')
      BY <3>1, <3>2 DEF Consumed
    <3> HIDE DEF start, size
    <3>5. QED
      BY <3>1, <3>2, <3>3, <3>4
  <2>2. piece' * piece_length' + offset' = Consumed'
    BY <1>1, <1>8, <2>1 DEF InStep
  <2>3. QED
    BY <1>1, <1>2, <2>2 DEF InStep, WellFormed
<1>10. Covers(files, mappings'[piece], piece * piece_length, piece * piece_length + offset + Chunk)
       /\ mappings'[piece] # <<>>
  <2> DEFINE ms == mappings[piece]
             from == piece * piece_length
  <2>1. mappings'[piece] = Append(ms, Mapping) /\ ms \in Seq(FileMap)
    BY <1>1, <1>2, <1>3
  <2>2. from \in Int /\ from + offset \in Int
    BY <1>3
  <2>3. Covers(files, ms, from, from + offset)
    BY <1>1, <1>2 DEF TiledSoFar
  <2> HIDE DEF ms, from
  <2>4. Covers(files, Append(ms, Mapping), from, from + offset + Mapping.length)
    <3>1. Place(files, Mapping) = from + offset
      BY <1>2 DEF from
    <3>2. QED
      BY <1>2, <1>3, <2>1, <2>2, <2>3, <3>1, CoversAppend
  <2>5. Append(ms, Mapping) # <<>>
    BY <2>1, <1>2
  <2>6. QED
    BY <1>2, <2>1, <2>4, <2>5 DEF from
<1>11. \A p \in Pieces : p # piece => mappings'[p] = mappings[p]
  BY <1>1, <1>3
<1>12. TiledSoFar'
  <2> SUFFICES ASSUME NEW p \in Pieces
      PROVE  /\ p < piece' => mappings'[p] # <<>>
                 /\ Covers(files, mappings'[p], p * piece_length, (p + 1) * piece_length)
             /\ p = piece' => Covers(files, mappings'[p], p * piece_length,
                                     p * piece_length + offset')
             /\ p > piece' => mappings'[p] = <<>>
    BY <1>1, <1>3 DEF TiledSoFar
  <2>0. p \in Nat /\ p * piece_length \in Int
    BY <1>3 DEF Pieces
  <2>1. CASE p < piece
    BY <1>1, <1>3, <1>5, <1>11, <2>0, <2>1 DEF TiledSoFar
  <2>2. CASE p = piece /\ piece' = piece
    <3>1. offset' = offset + Chunk
      BY <1>3, <1>5, <2>2
    <3>2. p * piece_length + offset' = p * piece_length + offset + Chunk
      <4> DEFINE here == p * piece_length
      <4>1. here \in Int
        BY <2>0
      <4> HIDE DEF here
      <4>2. here + offset' = here + offset + Chunk
        BY <1>2, <1>3, <3>1, <4>1
      <4> QED
        BY <4>2 DEF here
    <3>3. Covers(files, mappings'[p], p * piece_length, p * piece_length + offset')
      BY <1>10, <2>2, <3>2
    <3>4. QED
      BY <1>3, <2>0, <2>2, <3>3
  <2>3. CASE p = piece /\ piece' = piece + 1
    <3>1. (p + 1) * piece_length = p * piece_length + offset + Chunk
      <4>1. (p + 1) * piece_length = p * piece_length + piece_length
        BY <1>3, <2>0, MulSucc
      <4>2. offset + Chunk = piece_length
        BY <1>3, <1>5, <2>3
      <4> DEFINE here == p * piece_length
      <4>3. here \in Int /\ (p + 1) * piece_length = here + piece_length
        BY <2>0, <4>1
      <4> HIDE DEF here
      <4>4. here + piece_length = here + offset + Chunk
        BY <1>2, <1>3, <4>2, <4>3
      <4> QED
        BY <4>3, <4>4 DEF here
    <3>2. QED
      BY <1>3, <1>10, <2>0, <2>3, <3>1
  <2>4. CASE p > piece
    <3>1. mappings'[p] = <<>>
      BY <1>1, <1>3, <1>11, <2>0, <2>4 DEF TiledSoFar
    <3>2. CASE p = piece'
      <4>1. offset' = 0
        BY <1>3, <1>5, <2>4, <3>2
      <4>2. p * piece_length + offset' = p * piece_length
        BY <2>0, <4>1
      <4>3. Covers(files, <<>>, p * piece_length, p * piece_length)
        BY DEF Covers
      <4>4. QED
        BY <1>5, <2>0, <3>1, <3>2, <4>2, <4>3
    <3>3. QED
      BY <1>3, <1>5, <2>0, <2>4, <3>1, <3>2
  <2>5. QED
    BY <1>3, <1>5, <2>0, <2>1, <2>2, <2>3, <2>4
<1>13. QED
  BY <1>6, <1>7, <1>9, <1>12, MapChunkMaps DEF IInv

\* The loops of parse_files and calculate_file_mappings keep their invariant.
THEOREM Invariance == Spec => []IInv
<1>1. IInv /\ [Next]_vars => IInv'
  <2> SUFFICES ASSUME IInv, [Next]_vars PROVE IInv'
    OBVIOUS
  <2>1. CASE UNCHANGED vars
    BY <2>1 DEF vars, IInv, TypeOK, FilesLaidOut, InStep, TiledSoFar, Pieces, Consumed,
                WellFormed, MappedSoFar, MappedOnce, Holds
  <2>2. QED
    BY <2>1, ParseIInv, StartIInv, NextFileIInv, MapChunkIInv DEF Next
<1>2. QED
  BY <1>1, InitIInv, PTL DEF Spec

\* No index of the two loops runs out of its vector and no unsigned subtraction
\* wraps around, for every list of file lengths.
THEOREM TypeCorrect == Spec => []TypeOK
<1>1. IInv => TypeOK
  BY DEF IInv
<1>2. QED
  BY <1>1, Invariance, PTL

\* When the loops end they are at the end of the torrent.
LEMMA EndReached ==
    ASSUME IInv, pc = "done", num_pieces > 0
    PROVE  piece * piece_length + offset = total
<1>1. /\ TypeOK /\ FilesLaidOut /\ InStep /\ file = Len(files) /\ remaining = 0
      /\ WellFormed(num_pieces)
  BY DEF IInv, InStep
<1>2. /\ piece_length \in Nat \ {0} /\ num_pieces \in Nat /\ total \in Nat /\ piece \in Nat
      /\ offset \in Nat /\ remaining \in Nat /\ files \in Seq(FileEntry)
  BY <1>1 DEF TypeOK
<1> DEFINE all == num_pieces * piece_length
           before == (num_pieces - 1) * piece_length
           done == piece * piece_length
<1>3. all \in Int /\ before \in Int /\ done \in Int /\ before >= 0
  <2>1. 0 * piece_length <= before
    BY <1>2, MulMono
  <2>2. QED
    BY <1>2, <2>1
<1>4. before < total /\ total <= all
  BY <1>1 DEF WellFormed
<1>5. piece >= num_pieces => all <= done
  BY <1>2, MulMono
<1>6. file \in 1 .. Len(files)
  <2>1. files # <<>>
    BY <1>1, <1>2, <1>3, <1>4 DEF FilesLaidOut
  <2>2. QED
    BY <1>1, <1>2, <2>1
<1>7. files[file].offset + files[file].length = total
  BY <1>1, <1>6 DEF FilesLaidOut
<1>8. files[file].offset \in Nat /\ files[file].length \in Nat
  BY <1>2, <1>6, FileTypes
<1>9. done + offset = total - remaining
  <2>1. done + offset = files[file].offset + files[file].length - remaining
    BY <1>1, <1>6 DEF InStep, Consumed
  <2>2. QED
    BY <1>2, <1>7, <1>8, <2>1
<1> HIDE DEF all, before, done
<1>10. done + offset = total
  BY <1>1, <1>2, <1>3, <1>4, <1>5, <1>9
<1>11. QED
  BY <1>10 DEF done

\* When the loops have ended every piece is tiled.
LEMMA DoneTiled ==
    ASSUME IInv, pc = "done", NEW p \in Pieces
    PROVE  /\ mappings[p] # <<>>
           /\ Covers(files, mappings[p], p * piece_length, PieceEnd(p))
<1>1. /\ TypeOK /\ InStep /\ TiledSoFar
      /\ piece_length \in Nat \ {0} /\ num_pieces \in Nat /\ total \in Nat /\ piece \in Nat
      /\ offset \in 0 .. piece_length - 1
      /\ p \in Nat /\ p <= num_pieces - 1 /\ num_pieces > 0
  BY DEF IInv, TypeOK, Pieces
<1>2. piece * piece_length + offset = total
  BY <1>1, EndReached
<1> DEFINE here == p * piece_length
           next == (p + 1) * piece_length
           head == piece * piece_length
<1>3. here \in Int /\ next \in Int /\ head \in Int /\ next = here + piece_length
  BY <1>1, MulSucc
<1>4. here < total
  <2>1. (num_pieces - 1) * piece_length < total
    BY <1>1 DEF InStep, WellFormed
  <2>2. here <= (num_pieces - 1) * piece_length
    BY <1>1, MulMono
  <2>3. (num_pieces - 1) * piece_length \in Int
    BY <1>1
  <2>4. QED
    BY <1>1, <1>3, <2>1, <2>2, <2>3
<1>5. p < piece => next <= head
  BY <1>1, MulMono
<1>6. p > piece => head + piece_length <= here
  <2>1. (piece + 1) * piece_length = head + piece_length
    BY <1>1, MulSucc
  <2>2. p > piece => (piece + 1) * piece_length <= here
    BY <1>1, MulMono
  <2> QED
    BY <2>1, <2>2
<1>7. /\ p = piece => here = head
      /\ PieceEnd(p) = IF next < total THEN next ELSE total
      /\ head + offset = total
  BY <1>2 DEF PieceEnd
<1>8. /\ p < piece => mappings[p] # <<>> /\ Covers(files, mappings[p], here, next)
      /\ p = piece => Covers(files, mappings[p], here, here + offset)
  BY <1>1 DEF TiledSoFar
<1> SUFFICES mappings[p] # <<>> /\ Covers(files, mappings[p], here, PieceEnd(p))
  OBVIOUS
<1> HIDE DEF here, next, head
<1>9. CASE p < piece
  <2>1. PieceEnd(p) = next
    BY <1>1, <1>3, <1>5, <1>7, <1>9
  <2> QED
    BY <1>8, <1>9, <2>1
<1>10. CASE p = piece
  <2>1. PieceEnd(p) = total /\ total = here + offset
    BY <1>1, <1>3, <1>7, <1>10
  <2>2. Covers(files, mappings[p], here, total)
    BY <1>8, <1>10, <2>1
  <2>3. mappings[p] # <<>>
    BY <1>1, <1>3, <1>4, <2>2 DEF Covers
  <2> QED
    BY <2>1, <2>2, <2>3
<1>11. CASE p > piece
  BY <1>1, <1>3, <1>4, <1>6, <1>7, <1>11
<1> QED
  BY <1>1, <1>9, <1>10, <1>11

\* The mappings that calculate_file_mappings computes tile every piece, for
\* every well-formed torrent: any number of files of any length.
THEOREM PiecesTiled == Spec => []Tiled
<1>1. IInv => Tiled
  BY DoneTiled DEF Tiled
<1> QED
  BY <1>1, Invariance, PTL

\* Every byte of every file is in one mapping of one piece, and in no other: no
\* byte of the torrent is written twice or left out, empty files, files that end
\* within a piece and pieces that span many files included
\* (calculate_file_mappings).
THEOREM BytesMappedOnce == Spec => []EveryByteOnce
<1>1. IInv => EveryByteOnce
  <2> SUFFICES ASSUME IInv, pc = "done",
                      NEW f \in DOMAIN files, NEW x \in 0 .. files[f].length - 1
               PROVE  MappedOnce(f, x)
    BY DEF EveryByteOnce
  <2>1. file = Len(files) /\ remaining = 0 /\ MappedSoFar /\ files \in Seq(FileEntry)
    BY DEF IInv, InStep, TypeOK
  <2>2. f \in 1 .. file /\ files[f].length \in Nat
    BY <2>1, FileTypes
  <2>3. x < files[f].length - remaining
    BY <2>1, <2>2
  <2> QED
    BY <2>1, <2>2, <2>3 DEF MappedSoFar
<1> QED
  BY <1>1, Invariance, PTL

-----------------------------------------------------------------------------
(* The buffer of a piece and the lookup by offsets *)

\* A set of numbers has a least one.
LEMMA Least ==
    ASSUME NEW S \in SUBSET Nat, S # {}
    PROVE  \E m \in S : \A k \in S : m <= k
<1> DEFINE R == OpToRel(<, Nat)
<1>1. IsWellFoundedOn(R, Nat)
  BY NatLessThanWellFounded
<1>2. R = {p \in Nat \X Nat : p[1] < p[2]}
  BY DEF OpToRel
<1> HIDE DEF R
<1>3. PICK m \in S : \A k \in S : ~ (<<k, m>> \in R)
  BY <1>1, WFMin
<1>4. ASSUME NEW k \in S, ~(m <= k) PROVE FALSE
  <2>1. k \in Nat /\ m \in Nat /\ k < m
    BY <1>4
  <2>2. <<k, m>> \in R
    BY <2>1, <1>2
  <2> QED
    BY <1>3, <2>2
<1> QED
  BY <1>4

\* w is the running sum of n lengths.
Sums(n, len, w) == w[1] = 0 /\ \A j \in 1 .. n : w[j + 1] = w[j] + len[j]

\* There is one running sum.
LEMMA SumsUnique ==
    ASSUME NEW n \in Nat, NEW len, NEW w, NEW at, Sums(n, len, w), Sums(n, len, at)
    PROVE  \A j \in 1 .. n + 1 : at[j] = w[j]
<1> USE DEF Sums
<1> DEFINE Bad == {j \in 1 .. n + 1 : at[j] # w[j]}
<1> SUFFICES ASSUME Bad # {} PROVE FALSE
  OBVIOUS
<1>1. PICK m \in Bad : \A k \in Bad : m <= k
  <2>1. Bad \in SUBSET Nat
    OBVIOUS
  <2> HIDE DEF Bad
  <2> QED
    BY <2>1, Least
<1>2. m \in 1 .. n + 1 /\ at[m] # w[m]
  BY <1>1
<1>3. m # 1
  BY <1>2
<1>4. m - 1 \in 1 .. n /\ m - 1 \in 1 .. n + 1 /\ (m - 1) + 1 = m /\ ~(m <= m - 1)
  BY <1>2, <1>3
<1>5. at[m - 1] = w[m - 1]
  BY <1>1, <1>4
<1>6. at[m] = at[m - 1] + len[m - 1]
  BY <1>4
<1>7. w[m] = w[m - 1] + len[m - 1]
  BY <1>4
<1> QED
  BY <1>2, <1>5, <1>6, <1>7

\* Files do not overlap: a file ends where a later one starts, or before.
LEMMA FilesOrdered ==
    ASSUME TypeOK, FilesLaidOut, NEW f \in DOMAIN files, NEW g \in DOMAIN files, f < g
    PROVE  files[f].offset + files[f].length <= files[g].offset
<1>1. /\ Len(files) \in Nat /\ DOMAIN files = 1 .. Len(files)
      /\ \A h \in 1 .. Len(files) : files[h].offset \in Nat /\ files[h].length \in Nat
  BY FileTypes DEF TypeOK
<1> DEFINE Bad == {h \in DOMAIN files : f < h /\ ~(files[f].offset + files[f].length <= files[h].offset)}
<1> SUFFICES ASSUME Bad # {} PROVE FALSE
  OBVIOUS
<1>2. PICK m \in Bad : \A k \in Bad : m <= k
  <2>1. Bad \in SUBSET Nat
    BY <1>1
  <2> HIDE DEF Bad
  <2> QED
    BY <2>1, Least
<1>3. m \in 1 .. Len(files) /\ f \in 1 .. Len(files) /\ f < m
      /\ ~(files[f].offset + files[f].length <= files[m].offset)
  BY <1>1, <1>2
<1>4. m - 1 \in 1 .. Len(files) - 1 /\ m - 1 \in 1 .. Len(files) /\ (m - 1) + 1 = m
      /\ ~(m <= m - 1)
  BY <1>1, <1>3
<1>5. files[m].offset = files[m - 1].offset + files[m - 1].length
  BY <1>4 DEF FilesLaidOut
<1>6. f # m - 1
  BY <1>1, <1>3, <1>5
<1>7. f < m - 1
  <2>1. f \in Nat /\ m \in Nat /\ f < m
    BY <1>1, <1>3
  <2> QED
    BY <1>6, <2>1
<1>8. files[f].offset + files[f].length <= files[m - 1].offset
  <2>1. m - 1 \in DOMAIN files /\ m - 1 \notin Bad
    BY <1>1, <1>2, <1>4
  <2> QED
    BY <1>7, <2>1
<1> HIDE DEF Bad
<1>9. /\ files[f].offset + files[f].length \in Nat
      /\ files[m - 1].offset \in Nat /\ files[m - 1].length \in Nat
  <2>1. files[f].offset \in Nat /\ files[f].length \in Nat
    BY <1>1, <1>3
  <2>2. files[m - 1].offset \in Nat /\ files[m - 1].length \in Nat
    BY <1>1, <1>4
  <2> QED
    BY <2>1, <2>2
<1> DEFINE end == files[f].offset + files[f].length
           start == files[m - 1].offset
           size == files[m - 1].length
<1>10. /\ end \in Nat /\ start \in Nat /\ size \in Nat /\ end <= start
       /\ ~(end <= start + size)
  BY <1>3, <1>5, <1>8, <1>9
<1> HIDE DEF end, start, size
<1> QED
  BY <1>10

\* The walk along the mappings is in the buffer where the mapping is in the piece.
LEMMA BufferPlaces ==
    ASSUME IInv, pc = "done", NEW p \in Pieces
    PROVE  /\ \A i \in DOMAIN mappings[p] :
                BufferOffset(p, i) = Place(files, mappings[p][i]) - p * piece_length
           /\ BufferOffset(p, Len(mappings[p]) + 1) = PieceEnd(p) - p * piece_length
<1> DEFINE ms == mappings[p]
           n == Len(ms)
           from == p * piece_length
           to == PieceEnd(p)
           w == [j \in 1 .. n + 1 |-> IF j <= n THEN Place(files, ms[j]) - from ELSE to - from]
           len == [j \in 1 .. n |-> ms[j].length]
           Step(g) == [j \in 1 .. Len(mappings[p]) + 1 |->
                         IF j = 1 THEN 0 ELSE g[j - 1] + mappings[p][j - 1].length]
           at == CHOOSE g : g = Step(g)
<1>1. /\ TypeOK /\ ms \in Seq(FileMap) /\ n \in Nat /\ DOMAIN ms = 1 .. n
      /\ files \in Seq(FileEntry) /\ p \in Nat /\ piece_length \in Nat /\ total \in Nat
  BY DEF IInv, TypeOK, Pieces
<1>2. ms # <<>> /\ Covers(files, ms, from, to)
  BY DoneTiled
<1>3. from \in Int /\ to \in Int
  BY <1>1 DEF PieceEnd
<1>4. n >= 1
  BY <1>1, <1>2
<1>5. \A j \in 1 .. n : Place(files, ms[j]) \in Int /\ ms[j].length \in Int
  <2> TAKE j \in 1 .. n
  <2>1. ms[j] \in FileMap
    BY <1>1
  <2>2. ms[j].file \in DOMAIN files
    BY <1>1, <1>2 DEF Covers
  <2>3. files[ms[j].file].offset \in Nat
    BY <1>1, <2>2, FileTypes
  <2> QED
    BY <2>1, <2>3 DEF Place, FileMap
<1>6. w[1] = 0
  <2>1. Place(files, ms[1]) = from
    BY <1>2 DEF Covers
  <2> QED
    BY <1>3, <1>4, <1>1, <2>1
<1>7. \A j \in 1 .. n : w[j + 1] = w[j] + len[j]
  <2> TAKE j \in 1 .. n
  <2>1. len[j] = ms[j].length /\ w[j] = Place(files, ms[j]) - from
    BY <1>1
  <2>2. CASE j < n
    <3>1. Place(files, ms[j + 1]) = Place(files, ms[j]) + ms[j].length
      BY <1>1, <1>2, <2>2 DEF Covers
    <3>2. w[j + 1] = Place(files, ms[j + 1]) - from
      BY <1>1, <2>2
    <3> QED
      BY <1>3, <1>5, <2>1, <3>1, <3>2
  <2>3. CASE j = n
    <3>1. Place(files, ms[n]) + ms[n].length = to
      BY <1>2 DEF Covers
    <3>2. w[n + 1] = to - from
      BY <1>1
    <3> QED
      BY <1>3, <1>5, <2>1, <2>3, <3>1, <3>2
  <2> QED
    BY <1>1, <2>2, <2>3
<1>8. w = Step(w)
  <2>1. ASSUME NEW j \in 1 .. n + 1
        PROVE  w[j] = IF j = 1 THEN 0 ELSE w[j - 1] + mappings[p][j - 1].length
    <3>1. CASE j = 1
      BY <1>6, <3>1
    <3>2. CASE j # 1
      <4>1. j - 1 \in 1 .. n /\ (j - 1) + 1 = j
        BY <1>1, <3>2
      <4> HIDE DEF w, ms
      <4>2. w[j] = w[j - 1] + len[j - 1] /\ len[j - 1] = ms[j - 1].length
        BY <1>7, <4>1
      <4> QED
        BY <3>2, <4>2 DEF ms
    <3> QED
      BY <3>1, <3>2
  <2> QED
    BY <2>1
<1> HIDE DEF w
<1>9. at = Step(at)
  BY <1>8
<1>10. \A i : BufferOffset(p, i) = at[i]
  BY DEF BufferOffset
<1> HIDE DEF at
<1>11. at[1] = 0 /\ \A j \in 1 .. n : at[j + 1] = at[j] + len[j]
  <2>1. \A j \in 1 .. n : len[j] = mappings[p][j].length
    BY <1>1
  <2>2. \A j \in 1 .. n + 1 : at[j] = IF j = 1 THEN 0 ELSE at[j - 1] + mappings[p][j - 1].length
    BY <1>9
  <2> HIDE DEF len, ms, n
  <2>3. \A j \in 1 .. n : j + 1 \in 1 .. n + 1 /\ j + 1 # 1 /\ (j + 1) - 1 = j
    BY <1>1
  <2>4. 1 \in 1 .. n + 1
    BY <1>1
  <2> QED
    BY <2>1, <2>2, <2>3, <2>4
<1> HIDE DEF len, ms, n
<1>12. \A j \in 1 .. n + 1 : at[j] = w[j]
  <2>1. n \in Nat
    BY <1>1
  <2>2. Sums(n, len, w) /\ Sums(n, len, at)
    BY <1>6, <1>7, <1>11 DEF Sums
  <2> QED
    BY <2>1, <2>2, SumsUnique
<1>13. ASSUME NEW i \in DOMAIN mappings[p]
       PROVE  BufferOffset(p, i) = Place(files, mappings[p][i]) - p * piece_length
  <2>1. i \in 1 .. n + 1 /\ i <= n
    BY <1>1 DEF ms
  <2> QED
    BY <1>10, <1>12, <2>1 DEF w, ms
<1>14. BufferOffset(p, n + 1) = to - from
  <2>1. n + 1 \in 1 .. n + 1 /\ ~(n + 1 <= n)
    BY <1>1
  <2> QED
    BY <1>10, <1>12, <2>1 DEF w
<1> QED
  BY <1>13, <1>14 DEF n, ms

\* The two ways from a byte of a piece to a byte of a file agree: get_file_range,
\* which goes by the offsets of the files, finds the byte to which write_piece
\* walks along the mappings.
THEOREM LookupsAgree == Spec => []LookupAgrees
<1>1. IInv => LookupAgrees
  <2> SUFFICES ASSUME IInv, pc = "done", NEW p \in Pieces, NEW i \in DOMAIN mappings[p],
                      NEW x \in 0 .. mappings[p][i].length - 1
               PROVE  get_file_range(p, BufferOffset(p, i) + x)
                        = [file |-> mappings[p][i].file, offset |-> mappings[p][i].offset + x]
    BY DEF LookupAgrees
  <2> DEFINE m == mappings[p][i]
             at == p * piece_length + (BufferOffset(p, i) + x)
             found == {f \in DOMAIN files : files[f].offset <= at
                                            /\ at < files[f].offset + files[f].length}
  <2>1. /\ TypeOK /\ FilesLaidOut /\ files \in Seq(FileEntry) /\ m \in FileMap
        /\ p * piece_length \in Int
    BY DEF IInv, TypeOK, Pieces
  <2>2. m.file \in DOMAIN files /\ m.offset + m.length <= files[m.file].length
    BY DoneTiled DEF Covers
  <2>3. /\ DOMAIN files = 1 .. Len(files)
        /\ \A f \in DOMAIN files : files[f].offset \in Nat /\ files[f].length \in Nat
    BY <2>1, FileTypes
  <2>4. m.offset \in Nat /\ m.length \in Nat /\ x \in 0 .. m.length - 1
    BY <2>1 DEF FileMap
  <2>5. at = files[m.file].offset + (m.offset + x)
    <3>1. BufferOffset(p, i) = Place(files, m) - p * piece_length
      BY BufferPlaces
    <3>2. Place(files, m) = files[m.file].offset + m.offset /\ Place(files, m) \in Int
      BY <2>2, <2>3, <2>4 DEF Place
    <3> DEFINE here == p * piece_length
    <3>3. here \in Int /\ at = here + ((Place(files, m) - here) + x)
      BY <2>1, <3>1
    <3>4. files[m.file].offset \in Nat
      BY <2>2, <2>3
    <3> DEFINE start == files[m.file].offset
               within == m.offset
    <3>5. Place(files, m) = start + within /\ start \in Nat /\ within \in Nat /\ x \in Int
      BY <2>4, <3>2, <3>4
    <3> HIDE DEF here, at, m, start, within
    <3>6. at = start + (within + x)
      BY <3>3, <3>5
    <3> QED
      BY <3>6 DEF start, within
  <2>6. m.file \in found
    <3>1. files[m.file].offset \in Nat /\ files[m.file].length \in Nat
      BY <2>2, <2>3
    <3> DEFINE start == files[m.file].offset
               size == files[m.file].length
               within == m.offset
               length == m.length
    <3>2. /\ start \in Nat /\ size \in Nat /\ within \in Nat /\ length \in Nat
          /\ x \in 0 .. length - 1 /\ within + length <= size /\ at = start + (within + x)
      BY <2>2, <2>4, <2>5, <3>1
    <3> HIDE DEF at, m, start, size, within, length
    <3>3. start <= at /\ at < start + size
      BY <3>2
    <3> QED
      BY <2>2, <3>3 DEF start, size, m
  <2>7. ASSUME NEW f \in found PROVE f = m.file
    <3>1. f \in DOMAIN files /\ files[f].offset <= at /\ at < files[f].offset + files[f].length
      OBVIOUS
    <3>2. files[m.file].offset <= at /\ at < files[m.file].offset + files[m.file].length
      BY <2>6
    <3>3. at \in Int
      BY <2>2, <2>3, <2>4, <2>5
    <3> DEFINE g == m.file
    <3>4. g \in DOMAIN files
      BY <2>2
    <3> HIDE DEF at, m, g, found
    <3>5. ASSUME f < g PROVE FALSE
      <4>1. files[f].offset + files[f].length <= files[g].offset
        BY <2>1, <3>1, <3>4, <3>5, FilesOrdered
      <4>2. /\ files[f].offset + files[f].length \in Nat /\ files[g].offset \in Nat
            /\ files[g].offset <= at /\ at < files[f].offset + files[f].length
        BY <2>3, <3>1, <3>2, <3>4 DEF g
      <4> QED
        BY <3>3, <4>1, <4>2
    <3>6. ASSUME g < f PROVE FALSE
      <4>1. files[g].offset + files[g].length <= files[f].offset
        BY <2>1, <3>1, <3>4, <3>6, FilesOrdered
      <4>2. /\ files[g].offset + files[g].length \in Nat /\ files[f].offset \in Nat
            /\ files[f].offset <= at /\ at < files[g].offset + files[g].length
        BY <2>3, <3>1, <3>2, <3>4 DEF g
      <4> QED
        BY <3>3, <4>1, <4>2
    <3>7. Len(files) \in Nat
      BY <2>1
    <3>8. f \in Int /\ g \in Int
      BY <2>3, <3>1, <3>4, <3>7
    <3> QED
      BY <3>5, <3>6, <3>8 DEF g
  <2>8. found = {m.file}
    BY <2>6, <2>7
  <2>9. Min(found) = m.file
    BY <2>2, <2>3, <2>8 DEF Min
  <2>10. get_file_range(p, BufferOffset(p, i) + x)
           = IF found = {} THEN [file |-> 0, offset |-> 0]
             ELSE [file |-> Min(found), offset |-> at - files[Min(found)].offset]
    BY DEF get_file_range
  <2>11. at - files[m.file].offset = m.offset + x
    BY <2>2, <2>3, <2>4, <2>5
  <2> QED
    BY <2>8, <2>9, <2>10, <2>11
<1> QED
  BY <1>1, Invariance, PTL

\* A quotient and a remainder are unique.
LEMMA Remainder ==
    ASSUME NEW c \in Nat \ {0}, NEW q \in Nat, NEW r \in 0 .. c - 1
    PROVE  (q * c + r) % c = r
<1> DEFINE t == q * c + r
           a == t % c
           b == t \div c
<1>1. t \in Int /\ a \in 0 .. c - 1 /\ b \in Int /\ t = b * c + a
  OBVIOUS
<1>2. ~(b < q)
  <2> SUFFICES ASSUME b < q PROVE FALSE
    OBVIOUS
  <2>1. (b + 1) * c <= q * c /\ (b + 1) * c = b * c + c
    BY <1>1, MulMono, MulSucc
  <2> QED
    BY <1>1, <2>1
<1>3. ~(q < b)
  <2> SUFFICES ASSUME q < b PROVE FALSE
    OBVIOUS
  <2>1. (q + 1) * c <= b * c /\ (q + 1) * c = q * c + c
    BY <1>1, MulMono, MulSucc
  <2> QED
    BY <1>1, <2>1
<1>4. b = q
  BY <1>1, <1>2, <1>3
<1> QED
  BY <1>1, <1>4

\* read_piece's buffer, sized by the remainder of total_length, is filled exactly
\* by the mappings, and write_piece reads exactly the verified data.
THEOREM BuffersFit == Spec => []BufferFits
<1>1. IInv => BufferFits
  <2> SUFFICES ASSUME IInv, pc = "done", NEW p \in Pieces
               PROVE  PieceEnd(p) - p * piece_length = PieceSize(p)
    BY BufferPlaces DEF BufferFits
  <2>1. /\ piece_length \in Nat \ {0} /\ num_pieces \in Nat /\ total \in Nat
        /\ p \in Nat /\ p <= num_pieces - 1 /\ num_pieces > 0 /\ WellFormed(num_pieces)
    BY DEF IInv, TypeOK, Pieces, InStep
  <2> DEFINE here == p * piece_length
             next == (p + 1) * piece_length
  <2>2. here \in Nat /\ next = here + piece_length
    BY <2>1, MulSucc
  <2>3. CASE p = num_pieces - 1
    <3>1. here < total /\ total <= next
      BY <2>1, <2>3 DEF WellFormed
    <3>2. PICK r \in Nat : total = here + r
      <4> HIDE DEF here
      <4>1. total - here \in Nat /\ total = here + (total - here)
        BY <2>1, <2>2, <3>1
      <4> QED
        BY <4>1
    <3>3. r \in 1 .. piece_length /\ PieceEnd(p) = total
      <4>1. PieceEnd(p) = IF next < total THEN next ELSE total
        BY DEF PieceEnd
      <4> HIDE DEF here, next
      <4> QED
        BY <2>1, <2>2, <3>1, <3>2, <4>1
    <3>4. CASE r = piece_length
      <4>1. total = (p + 1) * piece_length + 0 /\ 0 \in 0 .. piece_length - 1
        BY <2>1, <2>2, <3>2, <3>4
      <4>2. total % piece_length = 0
        BY <2>1, <4>1, Remainder
      <4>3. PieceSize(p) = piece_length
        BY <4>2 DEF PieceSize
      <4> HIDE DEF here
      <4>4. total - here = piece_length
        BY <2>1, <2>2, <3>2, <3>4
      <4> QED
        BY <3>3, <4>3, <4>4 DEF here
    <3>5. CASE r # piece_length
      <4>1. r \in 0 .. piece_length - 1 /\ r # 0
        BY <2>1, <3>3, <3>5
      <4>2. total % piece_length = r
        BY <2>1, <3>2, <4>1, Remainder
      <4>3. PieceSize(p) = r
        BY <2>3, <4>1, <4>2 DEF PieceSize
      <4> HIDE DEF here
      <4>4. total - here = r
        BY <2>1, <2>2, <3>2
      <4> QED
        BY <3>3, <4>3, <4>4 DEF here
    <3> QED
      BY <3>4, <3>5
  <2>4. CASE p < num_pieces - 1
    <3>1. next <= (num_pieces - 1) * piece_length
      BY <2>1, <2>4, MulMono
    <3>2. next < total
      <4>1. (num_pieces - 1) * piece_length < total /\ (num_pieces - 1) * piece_length \in Int
        BY <2>1 DEF WellFormed
      <4> HIDE DEF here
      <4> QED
        BY <2>1, <2>2, <3>1, <4>1
    <3>3. PieceEnd(p) = next /\ PieceSize(p) = piece_length
      BY <2>1, <2>4, <3>2 DEF PieceEnd, PieceSize
    <3> HIDE DEF here, next
    <3>4. next - here = piece_length
      BY <2>1, <2>2
    <3> QED
      BY <3>3, <3>4 DEF here
  <2> QED
    BY <2>1, <2>3, <2>4
<1> QED
  BY <1>1, Invariance, PTL
=============================================================================
