----------------------- MODULE MetadataExchangeProofs -----------------------
(***************************************************************************)
(* What MetadataExchange hands over, for any number of peers, any sizes    *)
(* and ids they announce and any bytes they send.                          *)
(***************************************************************************)
EXTENDS MetadataExchange, TLAPS, SequenceTheorems, WellFoundedInduction

Slots == {None, NoRoom} \cup {Some(d) : d \in Data}

\* What was handed over is the metadata, once.
Handed ==
    /\ called \in {<<>>, <<Info>>}
    /\ complete \in BOOLEAN
    /\ complete <=> (called = <<Info>>)
    /\ complete => metadata = Info

\* From then on no slot is free, so that no piece is stored any more.
Filled ==
    /\ received \in Seq(Slots)
    /\ complete => size # None /\ AllIn(received)

IInv == Handed /\ Filled

-----------------------------------------------------------------------------

LEMMA NotEmpty == <<>> # <<Info>> /\ Append(<<>>, Info) = <<Info>>
<1>1. Len(<<>>) = 0 /\ Len(<<Info>>) = 1
  OBVIOUS
<1>2. <<>> # <<Info>>
  BY <1>1
<1>3. Append(<<>>, Info) = <<Info>>
  OBVIOUS
<1> QED
  BY <1>2, <1>3

\* The number of slots, in size_t, is a number.
LEMMA SlotsCount == \A n \in Sizes : NumPieces(n) \in Nat
<1> TAKE n \in Sizes
<1>1. n \in Nat /\ PieceSize \in Nat \ {0} /\ SizeMod \in Nat
  BY MetadataAssumption
<1>2. SizeMod > 0
  BY <1>1, MetadataAssumption
<1> DEFINE m == (n + PieceSize - 1) % SizeMod
<1>3. m \in Nat
  BY <1>1, <1>2
<1> HIDE DEF m
<1>4. m \div PieceSize \in Nat
  BY <1>1, <1>3
<1> QED
  BY <1>4 DEF NumPieces, m

\* The slots made for a size: none, or as many as it has pieces, none of them filled.
LEMMA ResizedTyped ==
    ASSUME NEW n \in Sizes, NEW r \in Resized(n)
    PROVE  /\ r \in Seq(Slots)
           /\ r = <<>> \/ Len(r) = NumPieces(n)
           /\ AllIn(r) => DOMAIN r = {}
<1>1. NumPieces(n) \in Nat
  BY SlotsCount
<1>2. CASE r = <<>>
  BY <1>2
<1>3. ASSUME NEW slot \in {None, NoRoom}, r = [i \in 1 .. NumPieces(n) |-> slot]
      PROVE  /\ r \in Seq(Slots) /\ Len(r) = NumPieces(n)
             /\ AllIn(r) => DOMAIN r = {}
  <2>1. slot \in Slots
    BY DEF Slots
  <2>2. r \in [1 .. NumPieces(n) -> Slots]
    BY <1>3, <2>1
  <2>3. r \in Seq(Slots) /\ Len(r) = NumPieces(n)
    BY <1>1, <2>2
  <2> QED
    BY <1>3, <2>3 DEF AllIn
<1> QED
  BY <1>2, <1>3 DEF Resized

LEMMA InitIInv == Init => IInv
<1> SUFFICES ASSUME Init PROVE IInv
  OBVIOUS
<1>1. Handed
  BY NotEmpty DEF Init, Handed
<1>2. received \in Seq(Slots)
  BY DEF Init
<1>3. Filled
  BY <1>2 DEF Init, Filled
<1> QED
  BY <1>1, <1>3 DEF IInv

\* A handshake makes the slots once, before anything is complete.
LEMMA HandshakeKeeps ==
    ASSUME IInv, handle_extension_handshake
    PROVE  IInv'
<1> USE DEF IInv
<1>1. Handed'
  BY DEF handle_extension_handshake, Handed
<1>2. Filled'
  <2>1. PICK h \in Handshakes :
          /\ parse_extended_handshake(h) # None
          /\ IF parse_extended_handshake(h).some.size > 0 /\ size = None
             THEN received' \in Resized(parse_extended_handshake(h).some.size)
             ELSE UNCHANGED <<size, received>>
          /\ UNCHANGED complete
    BY DEF handle_extension_handshake
  <2>2. parse_extended_handshake(h).some.size \in Sizes
    <3>1. h.size \in Sizes
      BY DEF Handshakes, build_extended_handshake
    <3>2. parse_extended_handshake(h).some.size = h.size
      BY <2>1 DEF parse_extended_handshake, Some
    <3> QED
      BY <3>1, <3>2
  <2>3. CASE parse_extended_handshake(h).some.size > 0 /\ size = None
    <3>1. ~complete /\ ~complete'
      BY <2>1, <2>3 DEF Filled
    <3>2. received' \in Resized(parse_extended_handshake(h).some.size)
      BY <2>1, <2>3
    <3>3. received' \in Seq(Slots)
      BY <2>2, <3>2, ResizedTyped
    <3> QED
      BY <3>1, <3>3 DEF Filled
  <2>4. CASE ~(parse_extended_handshake(h).some.size > 0 /\ size = None)
    BY <2>1, <2>4 DEF Filled, AllIn
  <2> QED
    BY <2>3, <2>4
<1> QED
  BY <1>1, <1>2

\* A piece is stored only before the metadata is complete; what is handed over
\* then has passed the hash.
LEMMA DataKeeps ==
    ASSUME IInv, HandleData
    PROVE  IInv'
<1> USE DEF IInv
<1>1. PICK i \in 0 .. Len(received), data \in Data : Store(i, data) /\ UNCHANGED size
  BY DEF HandleData, Dispatch, build_metadata_data, Message
<1>2. received \in Seq(Slots) /\ i + 1 \in 1 .. Len(received) /\ received[i + 1] = None
  BY <1>1 DEF Store, Filled
<1>3. ~complete
  BY <1>2 DEF Filled, AllIn
<1>4. called = <<>>
  BY <1>3 DEF Handed
<1>5. received' = [received EXCEPT ![i + 1] = Some(data)] /\ size # None
      /\ assemble_metadata(received')
  BY <1>1 DEF Store
<1>6. received' \in Seq(Slots)
  BY <1>2, <1>5 DEF Slots
<1> DEFINE buffer == FlattenSeq([j \in DOMAIN received' |-> received'[j].some])
<1>7. CASE AllIn(received') /\ Len(buffer) = size.some
  <2>1. /\ metadata' = buffer
        /\ complete' = (complete \/ verify_metadata(buffer))
        /\ called' = IF verify_metadata(buffer) THEN Append(called, buffer) ELSE called
    BY <1>5, <1>7 DEF assemble_metadata
  <2>2. verify_metadata(buffer) => buffer = Info
    BY DEF verify_metadata
  <2> HIDE DEF buffer
  <2>3. CASE verify_metadata(buffer)
    <3>1. complete' = TRUE /\ metadata' = Info /\ called' = <<Info>>
      BY <1>4, <2>1, <2>2, <2>3, NotEmpty
    <3>2. Handed'
      BY <3>1 DEF Handed
    <3>3. Filled'
      BY <1>1, <1>5, <1>6, <1>7 DEF Filled, AllIn
    <3> QED
      BY <3>2, <3>3
  <2>4. CASE ~verify_metadata(buffer)
    <3>1. complete' = FALSE /\ called' = <<>>
      BY <1>3, <1>4, <2>1, <2>4 DEF verify_metadata, Handed
    <3> QED
      BY <1>6, <3>1, NotEmpty DEF Handed, Filled
  <2> QED
    BY <2>3, <2>4
<1>8. CASE ~(AllIn(received') /\ Len(buffer) = size.some)
  <2>1. UNCHANGED <<metadata, complete, called>>
    BY <1>5, <1>8 DEF assemble_metadata
  <2> QED
    BY <1>3, <1>6, <2>1 DEF Handed, Filled
<1> QED
  BY <1>7, <1>8

\* Everything else sends or ignores messages.
LEMMA OthersKeep ==
    ASSUME IInv,
           HandleRequest \/ HandleOther \/ request_metadata \/ UNCHANGED vars
    PROVE  IInv'
<1>1. UNCHANGED <<size, received, metadata, complete, called>>
  BY DEF HandleRequest, HandleOther, request_metadata, vars
<1> QED
  BY <1>1 DEF IInv, Handed, Filled, AllIn

\* The inductive invariant holds throughout.
THEOREM Invariance == Spec => []IInv
<1>1. IInv /\ [Next]_vars => IInv'
  BY HandshakeKeeps, DataKeeps, OthersKeep DEF Next
<1> QED
  BY InitIInv, <1>1, PTL DEF Spec

\* However peers mix sizes, ids, wrong, short and repeated pieces, the callback of
\* set_metadata_complete_callback runs at most once and only with the metadata
\* that the hash names, and get_metadata() keeps it.
THEOREM HandedOverOnce == Spec => []CompletedOnce
<1>1. IInv => CompletedOnce
  <2> SUFFICES ASSUME IInv PROVE CompletedOnce
    OBVIOUS
  <2>1. CASE called = <<>>
    BY <2>1, NotEmpty DEF IInv, Handed, CompletedOnce
  <2>2. CASE called = <<Info>>
    BY <2>2 DEF IInv, Handed, CompletedOnce
  <2> QED
    BY <2>1, <2>2 DEF IInv, Handed
<1> QED
  BY Invariance, <1>1, PTL

-----------------------------------------------------------------------------
(* Right pieces of the right size make the metadata *)

\* There are as many slots as the size kept asks for, unless there was no memory.
Counted ==
    IF size = None THEN received = <<>>
    ELSE \E n \in Sizes \ {0} :
           size = Some(n) /\ (received = <<>> \/ Len(received) = NumPieces(n))

Completing == Counted /\ HonestCompletes

\* A set of numbers has a least one.
LEMMA Least ==
    ASSUME NEW S \in SUBSET Nat, S # {}
    PROVE  \E m \in S : \A k \in S : m <= k
<1> DEFINE R == OpToRel(<, Nat)
<1>1. IsWellFoundedOn(R, Nat)
  BY NatLessThanWellFounded
<1>2. R = {p \in Nat \X Nat : p[1] < p[2]}
  BY DEF OpToRel
<1> HIDE DEF R
<1>3. PICK m \in S : \A k \in S : ~ (<<k, m>> \in R)
  BY <1>1, WFMin
<1>4. ASSUME NEW k \in S, ~(m <= k) PROVE FALSE
  <2>1. k \in Nat /\ m \in Nat /\ k < m
    BY <1>4
  <2>2. <<k, m>> \in R
    BY <2>1, <1>2
  <2> QED
    BY <1>3, <2>2
<1> QED
  BY <1>4

\* w[j] is the concatenation of the first j of n sequences.
Joins(n, seqs, w) == w[1] = seqs[1] /\ \A j \in 1 .. n - 1 : w[j + 1] = w[j] \o seqs[j + 1]

\* There is one such table.
LEMMA JoinsUnique ==
    ASSUME NEW n \in Nat, NEW seqs, NEW w, NEW v, Joins(n, seqs, w), Joins(n, seqs, v)
    PROVE  \A j \in 1 .. n : v[j] = w[j]
<1> USE DEF Joins
<1> DEFINE Bad == {j \in 1 .. n : v[j] # w[j]}
<1> SUFFICES ASSUME Bad # {} PROVE FALSE
  OBVIOUS
<1>1. PICK m \in Bad : \A k \in Bad : m <= k
  <2>1. Bad \in SUBSET Nat
    OBVIOUS
  <2> HIDE DEF Bad
  <2> QED
    BY <2>1, Least
<1>2. m \in 1 .. n /\ v[m] # w[m]
  BY <1>1
<1>3. m # 1
  BY <1>2
<1>4. m - 1 \in 1 .. n - 1 /\ m - 1 \in 1 .. n /\ (m - 1) + 1 = m /\ ~(m <= m - 1)
  BY <1>2, <1>3
<1>5. v[m - 1] = w[m - 1]
  BY <1>1, <1>4
<1>6. v[m] = v[m - 1] \o seqs[m] /\ w[m] = w[m - 1] \o seqs[m]
  BY <1>4
<1> QED
  BY <1>2, <1>5, <1>6

\* FlattenSeq is the last entry of the table, when there is one.
LEMMA Flattened ==
    ASSUME NEW n \in Nat \ {0}, NEW seqs, Len(seqs) = n,
           NEW w, w = [j \in 1 .. n |-> w[j]], Joins(n, seqs, w)
    PROVE  FlattenSeq(seqs) = w[n]
<1> DEFINE Step(g) == [i \in 1 .. Len(seqs) |-> IF i = 1 THEN seqs[i] ELSE g[i - 1] \o seqs[i]]
           v == CHOOSE g : g = Step(g)
<1>1. w = Step(w)
  <2>1. ASSUME NEW i \in 1 .. n PROVE w[i] = IF i = 1 THEN seqs[i] ELSE w[i - 1] \o seqs[i]
    <3>1. CASE i = 1
      BY <3>1 DEF Joins
    <3>2. CASE i # 1
      <4>1. i - 1 \in 1 .. n - 1 /\ (i - 1) + 1 = i
        BY <3>2
      <4> QED
        BY <3>2, <4>1 DEF Joins
    <3> QED
      BY <3>1, <3>2
  <2>2. Step(w) = [i \in 1 .. n |-> w[i]]
    BY <2>1
  <2> QED
    BY <2>2
<1>2. v = Step(v)
  BY <1>1
<1>3. FlattenSeq(seqs) = v[n]
  BY DEF FlattenSeq
<1> HIDE DEF v
<1>4. Joins(n, seqs, v)
  <2>1. \A i \in 1 .. n : v[i] = IF i = 1 THEN seqs[i] ELSE v[i - 1] \o seqs[i]
    BY <1>2
  <2>2. 1 \in 1 .. n /\ \A j \in 1 .. n - 1 : j + 1 \in 1 .. n /\ j + 1 # 1 /\ (j + 1) - 1 = j
    OBVIOUS
  <2> QED
    BY <2>1, <2>2 DEF Joins
<1>5. v[n] = w[n]
  BY <1>4, JoinsUnique
<1> QED
  BY <1>3, <1>5

\* The last piece of the true metadata is not empty and ends it.
LEMMA PiecesOfInfo ==
    ASSUME NEW n, n = NumPieces(Len(Info))
    PROVE  /\ n \in Nat \ {0}
           /\ (n - 1) * PieceSize < Len(Info) /\ Len(Info) <= n * PieceSize
<1> DEFINE a == Len(Info) + PieceSize - 1
           r == a % PieceSize
<1>1. PICK l \in Nat \ {0} : l = Len(Info)
  BY MetadataAssumption
<1>2. PieceSize \in Nat \ {0} /\ SizeMod \in Nat /\ l + PieceSize < SizeMod
  BY <1>1, MetadataAssumption
<1>3. a \in Nat /\ a < SizeMod /\ a = l + PieceSize - 1
  BY <1>1, <1>2
<1> HIDE DEF a
<1>4. a % SizeMod = a
  BY <1>2, <1>3
<1>5. n = a \div PieceSize
  BY <1>4 DEF NumPieces, a
<1>6. n \in Nat /\ r \in 0 .. PieceSize - 1 /\ a = n * PieceSize + r
  BY <1>2, <1>3, <1>5
<1>7. PICK m \in Nat : m = n * PieceSize
  BY <1>2, <1>6
<1>8. (n - 1) * PieceSize = m - PieceSize
  BY <1>2, <1>6, <1>7
<1> HIDE DEF r
<1>9. m - PieceSize < l /\ l <= m
  <2>1. a = m + r /\ r \in 0 .. PieceSize - 1
    BY <1>6, <1>7
  <2> QED
    BY <1>1, <1>2, <1>3, <2>1
<1>10. n # 0
  BY <1>1, <1>2, <1>7, <1>9
<1> QED
  BY <1>1, <1>6, <1>7, <1>8, <1>9, <1>10

\* Put together, the right pieces are the metadata, a short last one included.
LEMMA RightPiecesFlatten ==
    ASSUME NEW n, n = NumPieces(Len(Info)), NEW seqs \in [1 .. n -> Seq(Bytes)],
           \A i \in 1 .. n : seqs[i] = RightPiece(i)
    PROVE  FlattenSeq(seqs) = Info
<1>1. /\ n \in Nat \ {0} /\ PieceSize \in Nat \ {0} /\ Info \in Seq(Bytes)
      /\ (n - 1) * PieceSize < Len(Info) /\ Len(Info) <= n * PieceSize
  BY PiecesOfInfo, MetadataAssumption
<1> DEFINE End(j) == IF j * PieceSize < Len(Info) THEN j * PieceSize ELSE Len(Info)
           w == [j \in 1 .. n |-> SubSeq(Info, 1, End(j))]
<1>2. Len(seqs) = n
  BY <1>1
<1>3. End(n) = Len(Info)
  BY <1>1
<1>4. Joins(n, seqs, w)
  <2>1. w[1] = seqs[1]
    <3>1. (1 - 1) * PieceSize + 1 = 1 /\ 1 \in 1 .. n
      BY <1>1
    <3>2. seqs[1] = SubSeq(Info, (1 - 1) * PieceSize + 1, End(1))
      BY <3>1 DEF RightPiece
    <3> QED
      BY <3>1, <3>2
  <2>2. ASSUME NEW j \in 1 .. n - 1
        PROVE  w[j + 1] = w[j] \o seqs[j + 1]
    <3>1. PICK l \in Nat : l = Len(Info)
      BY <1>1
    <3>2. PICK k \in Nat : k = j * PieceSize
      BY <1>1
    <3>3. k < l
      <4>1. PICK d \in Nat : n - 1 = j + d
        <5>1. (n - 1) - j \in Nat /\ n - 1 = j + ((n - 1) - j)
          BY <1>1
        <5> QED
          BY <5>1
      <4>2. (n - 1) * PieceSize = k + d * PieceSize /\ d * PieceSize \in Nat
        BY <1>1, <3>2, <4>1
      <4>3. k + d * PieceSize < l
        BY <1>1, <3>1, <4>2
      <4> HIDE DEF End
      <4> QED
        BY <3>1, <3>2, <4>2, <4>3
    <3>4. (j + 1) * PieceSize = k + PieceSize
      <4>1. j \in Int /\ PieceSize \in Int
        BY <1>1
      <4>2. (j + 1) * PieceSize = j * PieceSize + PieceSize
        BY <4>1
      <4> QED
        BY <3>2, <4>2
    <3>5. PICK e \in Nat : e = End(j + 1)
      <4>1. End(j + 1) = IF k + PieceSize < l THEN k + PieceSize ELSE l
        BY <3>1, <3>4
      <4>2. End(j + 1) \in Nat
        BY <1>1, <4>1
      <4> HIDE DEF End
      <4> QED
        BY <4>2
    <3>6. k + 1 <= e /\ e <= l
      BY <1>1, <3>1, <3>3, <3>4, <3>5
    <3>7. End(j) = k
      BY <3>1, <3>2, <3>3
    <3>8. w[j] = SubSeq(Info, 1, k) /\ w[j + 1] = SubSeq(Info, 1, e)
      BY <1>1, <3>5, <3>7
    <3>9. seqs[j + 1] = SubSeq(Info, k + 1, e)
      <4>1. j + 1 \in 1 .. n /\ (j + 1) - 1 = j
        BY <1>1
      <4>2. seqs[j + 1] = SubSeq(Info, ((j + 1) - 1) * PieceSize + 1, End(j + 1))
        BY <4>1 DEF RightPiece
      <4> QED
        BY <3>2, <3>5, <4>1, <4>2
    <3> HIDE DEF w, End
    <3>10. SubSeq(Info, 1, k) \o SubSeq(Info, k + 1, e) = SubSeq(Info, 1, e)
      <4>1. 1 \in 1 .. Len(Info) + 1 /\ k \in 1 - 1 .. Len(Info) /\ e \in k .. Len(Info)
        BY <3>1, <3>6
      <4>2. Info \in Seq(Bytes)
        BY <1>1
      <4> QED
        BY <4>1, <4>2, ConcatAdjacentSubSeq
    <3> QED
      BY <3>8, <3>9, <3>10
  <2> HIDE DEF w
  <2> QED
    BY <2>1, <2>2 DEF Joins
<1>5. w = [j \in 1 .. n |-> w[j]] /\ w[n] = SubSeq(Info, 1, Len(Info))
  BY <1>1, <1>3
<1> HIDE DEF w, End
<1>6. FlattenSeq(seqs) = w[n]
  BY <1>1, <1>2, <1>4, <1>5, Flattened
<1> QED
  BY <1>1, <1>5, <1>6, SubSeqFull

LEMMA InitCompleting == Init => Completing
  BY DEF Init, Completing, Counted, HonestCompletes, None, Some

LEMMA HandshakeCompletes ==
    ASSUME IInv, Completing, handle_extension_handshake
    PROVE  Completing'
<1>1. PICK h \in Handshakes :
        /\ parse_extended_handshake(h) # None
        /\ IF parse_extended_handshake(h).some.size > 0 /\ size = None
           THEN /\ size' = Some(parse_extended_handshake(h).some.size)
                /\ received' \in Resized(parse_extended_handshake(h).some.size)
           ELSE UNCHANGED <<size, received>>
        /\ UNCHANGED complete
  BY DEF handle_extension_handshake
<1> DEFINE n == parse_extended_handshake(h).some.size
<1>2. n \in Sizes
  <2>1. h.size \in Sizes
    BY DEF Handshakes, build_extended_handshake
  <2>2. n = h.size
    BY <1>1 DEF parse_extended_handshake, Some
  <2> QED
    BY <2>1, <2>2
<1>3. CASE n > 0 /\ size = None
  <2>1. size' = Some(n) /\ received' \in Resized(n)
    BY <1>1, <1>3
  <2> HIDE DEF n
  <2>2. n \in Sizes \ {0}
    BY <1>2, <1>3, MetadataAssumption
  <2>3. /\ received' \in Seq(Slots)
        /\ received' = <<>> \/ Len(received') = NumPieces(n)
        /\ AllIn(received') => DOMAIN received' = {}
    BY <2>1, <2>2, ResizedTyped
  <2>4. Counted'
    <3>1. Some(n) # None
      BY DEF Some, None
    <3> QED
      BY <2>1, <2>2, <2>3, <3>1 DEF Counted
  <2>5. HonestCompletes'
    <3> SUFFICES ASSUME AllIn(received'), received' # <<>> PROVE FALSE
      BY DEF HonestCompletes, AllIn
    <3> QED
      BY <2>3
  <2> QED
    BY <2>4, <2>5 DEF Completing
<1>4. CASE ~(n > 0 /\ size = None)
  <2>1. UNCHANGED <<size, received, complete>>
    BY <1>1, <1>4
  <2> QED
    BY <2>1 DEF Completing, Counted, HonestCompletes, AllIn
<1> QED
  BY <1>3, <1>4

LEMMA DataCompletes ==
    ASSUME IInv, IInv', Completing, HandleData
    PROVE  Completing'
<1>1. PICK i \in 0 .. Len(received), data \in Data : Store(i, data) /\ UNCHANGED size
  BY DEF HandleData, Dispatch, build_metadata_data, Message
<1>2. received \in Seq(Slots) /\ i + 1 \in 1 .. Len(received) /\ size # None /\ size' = size
      /\ received' = [received EXCEPT ![i + 1] = Some(data)] /\ assemble_metadata(received')
  BY <1>1 DEF Store, IInv, Filled
<1>3. Len(received') = Len(received) /\ DOMAIN received' = 1 .. Len(received)
      /\ received' \in Seq(Slots)
  BY <1>2 DEF IInv, Filled
<1>4. Counted'
  <2>1. received # <<>>
    BY <1>2
  <2> QED
    BY <1>2, <1>3, <2>1 DEF Completing, Counted
<1>5. HonestCompletes'
  <2> SUFFICES ASSUME size = Some(Len(Info)), AllIn(received'),
                      \A j \in DOMAIN received' : received'[j] \in {None, Some(RightPiece(j))}
               PROVE  complete'
    BY <1>2 DEF HonestCompletes, AllIn
  <2> DEFINE n == NumPieces(Len(Info))
             seqs == [j \in DOMAIN received' |-> received'[j].some]
  <2>1. Len(received) = n
    <3>1. received # <<>>
      BY <1>2
    <3> QED
      BY <1>2, <3>1 DEF Completing, Counted, Some
  <2>2. n \in Nat \ {0}
    BY PiecesOfInfo
  <2>3. DOMAIN received' = 1 .. n
    BY <1>3, <2>1
  <2>4. \A j \in 1 .. n : received'[j] = Some(RightPiece(j))
    BY <2>3 DEF AllIn
  <2>5. \A j \in 1 .. n : seqs[j] = RightPiece(j)
    BY <2>3, <2>4 DEF Some
  <2>6. \A j \in 1 .. n : RightPiece(j) \in Seq(Bytes)
    BY <2>2, MetadataAssumption, SubSeqProperties DEF RightPiece
  <2>7. seqs \in [1 .. n -> Seq(Bytes)]
    BY <2>3, <2>5, <2>6
  <2> HIDE DEF seqs, n
  <2>8. FlattenSeq(seqs) = Info
    BY <2>5, <2>7, RightPiecesFlatten DEF n
  <2>9. Len(FlattenSeq(seqs)) = size.some
    BY <2>8 DEF Some
  <2>10. complete' = (complete \/ verify_metadata(FlattenSeq(seqs)))
    BY <1>2, <2>9 DEF assemble_metadata, seqs
  <2>11. verify_metadata(FlattenSeq(seqs))
    BY <2>8, MetadataAssumption DEF verify_metadata
  <2> QED
    BY <2>10, <2>11
<1> QED
  BY <1>4, <1>5 DEF Completing

LEMMA OthersComplete ==
    ASSUME Completing,
           HandleRequest \/ HandleOther \/ request_metadata \/ UNCHANGED vars
    PROVE  Completing'
<1>1. UNCHANGED <<size, received, complete>>
  BY DEF HandleRequest, HandleOther, request_metadata, vars
<1> QED
  BY <1>1 DEF Completing, Counted, HonestCompletes, AllIn

\* An exchange that kept the true size and only right pieces completes with the
\* last of them: the number of slots computed in size_t, the slot of a piece and
\* the size test of assemble_metadata agree for metadata of any length.
THEOREM HonestExchangeCompletes == Spec => []HonestCompletes
<1>1. Init => IInv /\ Completing
  BY InitIInv, InitCompleting
<1>2. IInv /\ [Next]_vars => IInv'
  BY HandshakeKeeps, DataKeeps, OthersKeep DEF Next
<1>3. IInv /\ Completing /\ [Next]_vars => IInv' /\ Completing'
  BY <1>2, HandshakeCompletes, DataCompletes, OthersComplete DEF Next
<1>4. Completing => HonestCompletes
  BY DEF Completing
<1> QED
  BY <1>1, <1>3, <1>4, PTL DEF Spec
=============================================================================
