-------------------------- MODULE DhtServiceProofs --------------------------
(***************************************************************************)
(* Proofs about DhtService and about the routing table it keeps.  The      *)
(* operators on tables and lists are recursive functions: what they        *)
(* compute is proved by induction over sets of natural numbers, which      *)
(* needs no operator as a parameter.                                       *)
(***************************************************************************)
EXTENDS DhtService, TLAPS, WellFoundedInduction, FiniteSetTheorems

-----------------------------------------------------------------------------
(* Induction *)

\* A set of natural numbers has a least one.
LEMMA Least ==
    ASSUME NEW S \in SUBSET Nat, S # {}
    PROVE  \E m \in S : \A k \in S : m <= k
<1> DEFINE R == OpToRel(<, Nat)
<1>1. IsWellFoundedOn(R, Nat)
  BY NatLessThanWellFounded
<1>2. R = {p \in Nat \X Nat : p[1] < p[2]}
  BY DEF OpToRel
<1> HIDE DEF R
<1>3. PICK m \in S : \A k \in S : ~ (<<k, m>> \in R)
  BY <1>1, WFMin
<1>4. ASSUME NEW k \in S, ~(m <= k) PROVE FALSE
  <2>1. k \in Nat /\ m \in Nat /\ k < m
    BY <1>4
  <2>2. <<k, m>> \in R
    BY <2>1, <1>2
  <2> QED BY <1>3, <2>2
<1> QED BY <1>4

\* What holds of 0 and goes from each number to the next holds up to n.
LEMMA UpTo ==
    ASSUME NEW n \in Nat, NEW S, 0 \in S, \A i \in 1 .. n : i - 1 \in S => i \in S
    PROVE  \A i \in 0 .. n : i \in S
<1> DEFINE Out == {i \in 0 .. n : i \notin S}
<1> SUFFICES ASSUME Out # {} PROVE FALSE
  OBVIOUS
<1>1. PICK m \in Out : \A k \in Out : m <= k
  <2>1. Out \in SUBSET Nat
    OBVIOUS
  <2> HIDE DEF Out
  <2> QED BY <2>1, Least
<1>2. m \in 1 .. n /\ m - 1 \in 0 .. n
  BY <1>1
<1>3. m - 1 \in S
  BY <1>1, <1>2
<1> QED BY <1>1, <1>2, <1>3

\* f is defined recursively over 0 .. n, with values in T.
Unfolds(f, T, n, base, step) ==
    /\ f \in [0 .. n -> T]
    /\ f[0] = base
    /\ \A i \in 1 .. n : f[i] = step[<<f[i - 1], i>>]

\* A recursive definition over 0 .. n has a solution.
LEMMA Recursion ==
    ASSUME NEW T, NEW n \in Nat, NEW base \in T, NEW step \in [T \X (1 .. n) -> T]
    PROVE  \E f : Unfolds(f, T, n, base, step)
<1> DEFINE Solves(f, m) == f[0] = base /\ \A i \in 1 .. m : f[i] = step[<<f[i - 1], i>>]
           S == {m \in 0 .. n : \E f \in [0 .. m -> T] : Solves(f, m)}
<1>1. 0 \in S
  <2> DEFINE f == [i \in 0 .. 0 |-> base]
  <2>1. f \in [0 .. 0 -> T] /\ Solves(f, 0)
    OBVIOUS
  <2>2. 0 \in 0 .. n
    OBVIOUS
  <2> HIDE DEF f, Solves
  <2> QED BY <2>1, <2>2
<1>2. ASSUME NEW i \in 1 .. n, i - 1 \in S PROVE i \in S
  <2>1. PICK f \in [0 .. i - 1 -> T] : Solves(f, i - 1)
    BY <1>2
  <2> DEFINE g == [j \in 0 .. i |-> IF j = i THEN step[<<f[i - 1], i>>] ELSE f[j]]
  <2>2. f[i - 1] \in T /\ <<f[i - 1], i>> \in T \X (1 .. n)
    BY <2>1
  <2>3. g \in [0 .. i -> T]
    BY <2>1, <2>2
  <2>4. Solves(g, i)
    <3>1. g[0] = base
      BY <2>1
    <3>2. ASSUME NEW j \in 1 .. i PROVE g[j] = step[<<g[j - 1], j>>]
      <4>0. i \in Nat /\ j \in Nat /\ j - 1 \in 0 .. i /\ j \in 0 .. i /\ j - 1 # i
        OBVIOUS
      <4>1. g[j - 1] = f[j - 1]
        BY <4>0
      <4>2. CASE j = i
        <5>1. g[j] = step[<<f[i - 1], i>>]
          BY <4>0, <4>2
        <5> QED BY <4>1, <4>2, <5>1
      <4>3. CASE j # i
        <5>1. g[j] = f[j] /\ j \in 1 .. i - 1
          BY <4>0, <4>3
        <5> QED BY <4>1, <5>1, <2>1
      <4> QED BY <4>2, <4>3
    <3> QED BY <3>1, <3>2
  <2>5. i \in 0 .. n
    OBVIOUS
  <2> HIDE DEF g, Solves
  <2> QED BY <2>3, <2>4, <2>5
<1> HIDE DEF S
<1>3. n \in S
  BY <1>1, <1>2, UpTo
<1> QED BY <1>3 DEF S, Unfolds

-----------------------------------------------------------------------------
(* Kept *)

\* The elements of r are those of s in S, in their order.
Selects(r, s, S, T) ==
    /\ r \in Seq(T)
    /\ Len(r) <= Len(s)
    /\ \A j \in 1 .. Len(s) : s[j] \in S => \E a \in DOMAIN r : r[a] = s[j]
    /\ \A a \in DOMAIN r : r[a] \in S /\ \E j \in 1 .. Len(s) : r[a] = s[j]
    /\ \A a, b \in DOMAIN r : a < b =>
         \E j, k \in 1 .. Len(s) : j < k /\ r[a] = s[j] /\ r[b] = s[k]

\* Kept is the selection it is meant to be.
LEMMA KeptSelects ==
    ASSUME NEW T, NEW s \in Seq(T), NEW S
    PROVE  Selects(Kept(s, S), s, S, T)
<1> DEFINE n == Len(s)
           E == <<>>
           Add(q, i) == IF s[i] \in S THEN Append(q, s[i]) ELSE q
           Eq(g) == g = [i \in 0 .. n |-> IF i = 0 THEN E ELSE Add(g[i - 1], i)]
<1>0. n \in Nat /\ DOMAIN s = 1 .. n /\ \A i \in 1 .. n : s[i] \in T
  OBVIOUS
<1> HIDE DEF n
<1>1. \E g : Eq(g)
  <2> DEFINE Q == Seq(T)
             step == [p \in Q \X (1 .. n) |-> Add(p[1], p[2])]
  <2>1. \A q \in Q, i \in 1 .. n : Add(q, i) \in Q
    BY <1>0
  <2>2. E \in Q
    OBVIOUS
  <2> HIDE DEF Q, Add, E
  <2>3. step \in [Q \X (1 .. n) -> Q]
    BY <2>1
  <2>4. \A q \in Q, i \in 1 .. n : step[<<q, i>>] = Add(q, i)
    OBVIOUS
  <2> HIDE DEF step
  <2>5. PICK f : Unfolds(f, Q, n, E, step)
    BY <1>0, <2>2, <2>3, Recursion
  <2>6. f \in [0 .. n -> Q] /\ f[0] = E /\ \A i \in 1 .. n : f[i] = Add(f[i - 1], i)
    <3>1. f \in [0 .. n -> Q] /\ f[0] = E /\ \A i \in 1 .. n : f[i] = step[<<f[i - 1], i>>]
      BY <2>5 DEF Unfolds
    <3>2. \A i \in 1 .. n : f[i - 1] \in Q
      BY <1>0, <3>1
    <3> QED BY <2>4, <3>1, <3>2
  <2>7. Eq(f)
    <3>1. \A i \in 0 .. n : i # 0 => i \in 1 .. n
      BY <1>0
    <3>2. \A i \in 0 .. n : f[i] = IF i = 0 THEN E ELSE Add(f[i - 1], i)
      BY <2>6, <3>1
    <3> QED BY <2>6, <3>2
  <2> QED BY <2>7
<1> DEFINE kept == CHOOSE g : Eq(g)
<1>2. Eq(kept)
  BY <1>1
<1>3. Kept(s, S) = kept[n]
  BY DEF Kept, n
<1> HIDE DEF kept
<1>4. kept[0] = <<>> /\ \A i \in 1 .. n : kept[i] = Add(kept[i - 1], i)
  <2> HIDE DEF Add
  <2> QED BY <1>0, <1>2
<1> DEFINE Good1(r, i) == r \in Seq(T) /\ Len(r) <= i
           Good2(r, i) == \A j \in 1 .. i : s[j] \in S => \E a \in DOMAIN r : r[a] = s[j]
           Good3(r, i) == \A a \in DOMAIN r : r[a] \in S /\ \E j \in 1 .. i : r[a] = s[j]
           Good4(r, i) == \A a, b \in DOMAIN r : a < b =>
                            \E j, k \in 1 .. i : j < k /\ r[a] = s[j] /\ r[b] = s[k]
           All(r, i) == Good1(r, i) /\ Good2(r, i) /\ Good3(r, i) /\ Good4(r, i)
           Done == {i \in 0 .. n : All(kept[i], i)}
<1>5. 0 \in Done
  <2>1. 0 \in 0 .. n
    BY <1>0
  <2>2. Good1(<<>>, 0) /\ Good2(<<>>, 0) /\ Good3(<<>>, 0) /\ Good4(<<>>, 0)
    OBVIOUS
  <2> HIDE DEF Good1, Good2, Good3, Good4
  <2> QED BY <2>1, <2>2, <1>4
<1>6. ASSUME NEW i \in 1 .. n, i - 1 \in Done PROVE i \in Done
  <2> DEFINE q == kept[i - 1]
             r == kept[i]
  <2>0. i \in Nat /\ i - 1 \in Nat /\ s[i] \in T /\ r = Add(q, i)
    BY <1>0, <1>4
  <2>1. Good1(q, i - 1) /\ Good2(q, i - 1) /\ Good3(q, i - 1) /\ Good4(q, i - 1)
    BY <1>6
  <2> HIDE DEF q, r
  <2>2. ASSUME s[i] \notin S PROVE All(r, i)
    <3>1. r = q
      BY <2>0, <2>2
    <3>2. Good1(q, i)
      BY <2>0, <2>1
    <3>3. Good2(q, i)
      BY <2>0, <2>1, <2>2
    <3>4. Good3(q, i) /\ Good4(q, i)
      BY <2>0, <2>1
    <3> HIDE DEF Good1, Good2, Good3, Good4
    <3> QED BY <3>1, <3>2, <3>3, <3>4
  <2>3. ASSUME s[i] \in S PROVE All(r, i)
    <3>1. /\ r = Append(q, s[i]) /\ q \in Seq(T) /\ Len(q) \in Nat /\ r \in Seq(T)
          /\ Len(r) = Len(q) + 1 /\ DOMAIN q = 1 .. Len(q) /\ DOMAIN r = 1 .. Len(q) + 1
          /\ r[Len(q) + 1] = s[i] /\ \A a \in 1 .. Len(q) : r[a] = q[a]
      BY <2>0, <2>1, <2>3
    <3>2. Good1(r, i)
      BY <2>0, <2>1, <3>1
    <3>3. Good2(r, i)
      <4> SUFFICES ASSUME NEW j \in 1 .. i, s[j] \in S PROVE \E a \in DOMAIN r : r[a] = s[j]
        OBVIOUS
      <4>1. CASE j = i
        BY <3>1, <4>1
      <4>2. CASE j # i
        BY <2>0, <2>1, <3>1, <4>2
      <4> QED BY <4>1, <4>2
    <3>4. Good3(r, i)
      BY <2>0, <2>1, <2>3, <3>1
    <3>5. Good4(r, i)
      <4> SUFFICES ASSUME NEW a \in DOMAIN r, NEW b \in DOMAIN r, a < b
                   PROVE \E j, k \in 1 .. i : j < k /\ r[a] = s[j] /\ r[b] = s[k]
        OBVIOUS
      <4>1. a \in 1 .. Len(q) /\ r[a] = q[a]
        BY <3>1
      <4>2. CASE b = Len(q) + 1
        <5>1. PICK j \in 1 .. i - 1 : q[a] = s[j]
          BY <2>1, <3>1, <4>1
        <5>2. j \in 1 .. i /\ i \in 1 .. i /\ j < i
          BY <2>0
        <5> QED BY <5>1, <5>2, <4>1, <4>2, <3>1
      <4>3. CASE b # Len(q) + 1
        <5>1. b \in 1 .. Len(q) /\ r[b] = q[b]
          BY <3>1, <4>3
        <5>2. PICK j \in 1 .. i - 1, k \in 1 .. i - 1 : j < k /\ q[a] = s[j] /\ q[b] = s[k]
          BY <2>1, <3>1, <4>1, <5>1
        <5>3. j \in 1 .. i /\ k \in 1 .. i
          BY <2>0
        <5> QED BY <5>1, <5>2, <5>3, <4>1
      <4> QED BY <4>2, <4>3
    <3> HIDE DEF Good1, Good2, Good3, Good4
    <3> QED BY <3>2, <3>3, <3>4, <3>5
  <2>4. All(kept[i], i)
    BY <2>2, <2>3 DEF r
  <2> HIDE DEF All
  <2> QED BY <2>4
<1> HIDE DEF Done
<1>7. n \in Done
  BY <1>0, <1>5, <1>6, UpTo
<1>8. All(kept[n], n)
  BY <1>7 DEF Done
<1>9. n = Len(s)
  BY DEF n
<1>10. All(Kept(s, S), Len(s))
  <2> HIDE DEF All
  <2> QED BY <1>3, <1>8, <1>9
<1> QED BY <1>10 DEF Selects

-----------------------------------------------------------------------------
(* Buckets *)

\* A row of values over the places of a sequence is a sequence.
LEMMA RowIsSeq ==
    ASSUME NEW X, NEW b \in Seq(X), NEW T, NEW f \in [DOMAIN b -> T]
    PROVE  f \in Seq(T) /\ Len(f) = Len(b) /\ DOMAIN f = DOMAIN b
<1>1. Len(b) \in Nat /\ DOMAIN b = 1 .. Len(b)
  OBVIOUS
<1>2. f \in [1 .. Len(b) -> T]
  BY <1>1
<1> QED BY <1>1, <1>2

LEMMA DistanceTyped == \A a, b \in NodeID : distance(a, b) \in NodeID
<1> SUFFICES ASSUME NEW a \in NodeID, NEW b \in NodeID, NEW i \in 1 .. IdBits
             PROVE (a[i] + b[i]) % 2 \in {0, 1}
  BY DEF distance, NodeID
<1>1. a[i] \in {0, 1} /\ b[i] \in {0, 1}
  BY DEF NodeID
<1> QED BY <1>1

\* Every distance has a bucket.
LEMMA IndexTyped == \A d \in NodeID : bucket_index(d) \in Buckets
<1> SUFFICES ASSUME NEW d \in NodeID PROVE bucket_index(d) \in Buckets
  OBVIOUS
<1>0. IdBits \in Nat /\ IdBits > 0
  BY TableAssumption
<1>1. CASE d = ZeroID
  BY <1>0, <1>1 DEF bucket_index, Buckets
<1>2. CASE d # ZeroID
  <2> DEFINE Ones == {i \in 1 .. IdBits : d[i] = 1}
  <2>1. Ones # {}
    <3>1. \A i \in 1 .. IdBits : d[i] \in {0, 1}
      BY DEF NodeID
    <3>2. ASSUME Ones = {} PROVE d = ZeroID
      BY <3>1, <3>2 DEF ZeroID, NodeID
    <3> QED BY <1>2, <3>2
  <2>2. PICK m \in Ones : \A k \in Ones : m <= k
    <3>1. Ones \in SUBSET Nat
      BY <1>0
    <3> HIDE DEF Ones
    <3> QED BY <2>1, <3>1, Least
  <2>3. m \in 1 .. IdBits /\ d[m] = 1 /\ \A j \in 1 .. m - 1 : d[j] = 0
    <3>1. \A j \in 1 .. m - 1 : j \in 1 .. IdBits /\ j \notin Ones /\ d[j] \in {0, 1}
      BY <1>0, <2>2 DEF NodeID
    <3> QED BY <2>2, <3>1
  <2> DEFINE First(i) == d[i] = 1 /\ \A j \in 1 .. i - 1 : d[j] = 0
  <2>4. (CHOOSE i \in 1 .. IdBits : First(i)) \in 1 .. IdBits
    BY <2>3
  <2>5. bucket_index(d) = IdBits - (CHOOSE i \in 1 .. IdBits : First(i))
    BY <1>2 DEF bucket_index
  <2> HIDE DEF First
  <2> QED BY <1>0, <2>4, <2>5 DEF Buckets
<1> QED BY <1>1, <1>2

\* The id belongs into the i-th bucket of a table with this own id.
Filed(o, i, id) == id # o /\ bucket_index(distance(o, id)) = i

BucketOK(o, i, b) ==
    /\ b \in Seq(Node)
    /\ Len(b) <= K
    /\ \A j \in DOMAIN b : Filed(o, i, b[j].id)
    /\ \A j, k \in DOMAIN b : b[k].id = b[j].id => k = j

SoundTables == {t \in RoutingTables : Sound(t)}

\* Sound, bucket by bucket.
LEMMA SoundByBuckets ==
    \A t \in RoutingTables : t \in SoundTables <=> \A i \in Buckets : BucketOK(t.own, i, t.buckets[i])
<1> SUFFICES ASSUME NEW t \in RoutingTables
             PROVE Sound(t) <=> \A i \in Buckets : BucketOK(t.own, i, t.buckets[i])
  BY DEF SoundTables
<1>1. \A i \in Buckets : t.buckets[i] \in Seq(Node)
  BY DEF RoutingTables
<1> QED BY <1>1 DEF Sound, BucketOK, Filed, get_bucket_index

\* add_node of a bucket keeps it in order, whichever of its branches is taken,
\* and loses no good node.
LEMMA BucketAdd ==
    ASSUME NEW o, NEW i, NEW b, BucketOK(o, i, b), NEW n \in Node, Filed(o, i, n.id)
    PROVE  /\ BucketOK(o, i, KBucketAdd(b, n))
           /\ \A j \in DOMAIN b : Good(b[j]) =>
                \E k \in DOMAIN KBucketAdd(b, n) : KBucketAdd(b, n)[k].id = b[j].id
<1>0. /\ b \in Seq(Node) /\ Len(b) \in Nat /\ DOMAIN b = 1 .. Len(b) /\ K \in Nat
      /\ \A j \in DOMAIN b : b[j] \in Node
  BY TableAssumption DEF BucketOK
<1>1. CASE Position(b, n.id) # {}
  <2> DEFINE r == [j \in DOMAIN b |-> IF b[j].id = n.id THEN n ELSE b[j]]
  <2>1. KBucketAdd(b, n) = r
    BY <1>1 DEF KBucketAdd
  <2>2. r \in [DOMAIN b -> Node]
    BY <1>0
  <2>3. \A j \in DOMAIN b : r[j].id = b[j].id
    OBVIOUS
  <2> HIDE DEF r
  <2>4. r \in Seq(Node) /\ Len(r) = Len(b) /\ DOMAIN r = DOMAIN b
    BY <1>0, <2>2, RowIsSeq
  <2> QED BY <2>1, <2>3, <2>4 DEF BucketOK
<1>2. CASE Position(b, n.id) = {} /\ Len(b) < K
  <2> DEFINE r == Append(b, n)
  <2>1. KBucketAdd(b, n) = r
    BY <1>2 DEF KBucketAdd
  <2>2. /\ r \in Seq(Node) /\ Len(r) = Len(b) + 1 /\ DOMAIN r = 1 .. Len(b) + 1
        /\ r[Len(b) + 1] = n /\ \A j \in 1 .. Len(b) : r[j] = b[j]
    BY <1>0
  <2> HIDE DEF r
  <2>3. \A j \in DOMAIN b : b[j].id # n.id
    BY <1>2 DEF Position
  <2>4. Len(r) <= K
    BY <1>0, <1>2, <2>2
  <2>5. \A j \in DOMAIN r : Filed(o, i, r[j].id)
    BY <1>0, <2>2 DEF BucketOK
  <2>6. \A j, k \in DOMAIN r : r[k].id = r[j].id => k = j
    <3> SUFFICES ASSUME NEW j \in DOMAIN r, NEW k \in DOMAIN r, r[k].id = r[j].id
                 PROVE k = j
      OBVIOUS
    <3>1. CASE j = Len(b) + 1 \/ k = Len(b) + 1
      BY <1>0, <2>2, <2>3, <3>1
    <3>2. CASE j \in 1 .. Len(b) /\ k \in 1 .. Len(b)
      BY <1>0, <2>2, <3>2 DEF BucketOK
    <3> QED BY <1>0, <2>2, <3>1, <3>2
  <2>7. \A j \in DOMAIN b : j \in DOMAIN r /\ r[j].id = b[j].id
    BY <1>0, <2>2
  <2> QED BY <2>1, <2>2, <2>4, <2>5, <2>6, <2>7 DEF BucketOK
<1>3. CASE Position(b, n.id) = {} /\ ~(Len(b) < K)
  <2> DEFINE r == [j \in DOMAIN b |-> IF j \in FirstBad(b) THEN n ELSE b[j]]
  <2>1. KBucketAdd(b, n) = r
    BY <1>3 DEF KBucketAdd
  <2>2. r \in [DOMAIN b -> Node]
    BY <1>0
  <2>3. \A j \in DOMAIN b : r[j] = IF j \in FirstBad(b) THEN n ELSE b[j]
    OBVIOUS
  <2> HIDE DEF r
  <2>4. r \in Seq(Node) /\ Len(r) = Len(b) /\ DOMAIN r = DOMAIN b
    BY <1>0, <2>2, RowIsSeq
  <2>5. \A j \in DOMAIN b : b[j].id # n.id
    BY <1>3 DEF Position
  <2>6. \A j, k \in FirstBad(b) : j = k
    BY <1>0 DEF FirstBad
  <2>7. \A j \in DOMAIN r : Filed(o, i, r[j].id)
    BY <2>3, <2>4 DEF BucketOK
  <2>8. \A j, k \in DOMAIN r : r[k].id = r[j].id => k = j
    BY <2>3, <2>4, <2>5, <2>6 DEF BucketOK
  <2>9. \A j \in DOMAIN b : Good(b[j]) => r[j] = b[j]
    <3>1. \A m \in Node : ~(Good(m) /\ Bad(m))
      BY TableAssumption DEF Node, Good, Bad
    <3> QED BY <1>0, <2>3, <3>1 DEF FirstBad
  <2> QED BY <2>1, <2>4, <2>7, <2>8, <2>9 DEF BucketOK
<1> QED BY <1>1, <1>2, <1>3

-----------------------------------------------------------------------------
(* Tables *)

\* Records of a table and of what an operator changes in it.
LEMMA TableParts ==
    ASSUME NEW t \in SoundTables
    PROVE  /\ t = [own |-> t.own, buckets |-> t.buckets]
           /\ t.own \in NodeID
           /\ t.buckets \in [Buckets -> Seq(Node)]
           /\ \A i \in Buckets : BucketOK(t.own, i, t.buckets[i])
<1>1. t \in RoutingTables
  BY DEF SoundTables
<1> QED BY <1>1, SoundByBuckets DEF RoutingTables

\* A table of sound buckets is sound.
LEMMA TableMade ==
    ASSUME NEW o \in NodeID, NEW f, DOMAIN f = Buckets, f = [i \in Buckets |-> f[i]],
           \A i \in Buckets : BucketOK(o, i, f[i])
    PROVE  [own |-> o, buckets |-> f] \in SoundTables
<1>1. f \in [Buckets -> Seq(Node)]
  BY DEF BucketOK
<1>2. [own |-> o, buckets |-> f] \in RoutingTables
  BY <1>1 DEF RoutingTables
<1> QED BY <1>2, SoundByBuckets

LEMMA EmptySound == \A o \in NodeID : EmptyTable(o) \in SoundTables
<1> SUFFICES ASSUME NEW o \in NodeID PROVE EmptyTable(o) \in SoundTables
  OBVIOUS
<1> DEFINE f == [i \in Buckets |-> <<>>]
<1>1. \A i \in Buckets : BucketOK(o, i, f[i])
  BY TableAssumption DEF BucketOK
<1>2. DOMAIN f = Buckets /\ f = [i \in Buckets |-> f[i]]
  OBVIOUS
<1>3. EmptyTable(o) = [own |-> o, buckets |-> f]
  BY DEF EmptyTable
<1> HIDE DEF f
<1> QED BY <1>1, <1>2, <1>3, TableMade

\* A table in which one bucket is exchanged for a sound one is sound.
LEMMA OneBucket ==
    ASSUME NEW t \in SoundTables, NEW i \in Buckets, NEW b, BucketOK(t.own, i, b)
    PROVE  [t EXCEPT !.buckets[i] = b] \in SoundTables
<1> DEFINE f == [t.buckets EXCEPT ![i] = b]
<1>1. DOMAIN f = Buckets /\ f = [j \in Buckets |-> f[j]]
  BY TableParts
<1>2. \A j \in Buckets : BucketOK(t.own, j, f[j])
  BY TableParts
<1>3. [t EXCEPT !.buckets[i] = b] = [own |-> t.own, buckets |-> f]
  <2>1. ASSUME NEW o, NEW g
        PROVE  [[own |-> o, buckets |-> g] EXCEPT !.buckets[i] = b]
                 = [own |-> o, buckets |-> [g EXCEPT ![i] = b]]
    OBVIOUS
  <2> QED BY <2>1, TableParts
<1>4. t.own \in NodeID
  BY TableParts
<1> HIDE DEF f
<1> QED BY <1>1, <1>2, <1>3, <1>4, TableMade

LEMMA BucketOf ==
    ASSUME NEW t \in SoundTables, NEW id \in NodeID
    PROVE  get_bucket_index(t, id) \in Buckets
BY TableParts, DistanceTyped, IndexTyped DEF get_bucket_index

\* RoutingTable::add_node keeps the table sound and its good nodes.
LEMMA AddSound ==
    ASSUME NEW t \in SoundTables, NEW n \in Node
    PROVE  /\ add_node(t, n) \in SoundTables
           /\ \A g \in get_good_nodes(t) : \E m \in get_all_nodes(add_node(t, n)) : m.id = g.id
<1>1. CASE n.id = t.own
  <2>1. add_node(t, n) = t
    BY <1>1 DEF add_node
  <2>2. get_good_nodes(t) \subseteq get_all_nodes(t)
    BY DEF get_good_nodes
  <2> QED BY <2>1, <2>2
<1>2. CASE n.id # t.own
  <2> DEFINE i == get_bucket_index(t, n.id)
             b == t.buckets[i]
             r == KBucketAdd(b, n)
             u == [t EXCEPT !.buckets[i] = r]
  <2>1. n.id \in NodeID
    BY DEF Node
  <2>2. i \in Buckets
    BY <2>1, BucketOf
  <2>3. BucketOK(t.own, i, b) /\ Filed(t.own, i, n.id)
    BY <1>2, <2>2, TableParts DEF Filed, get_bucket_index
  <2>4. add_node(t, n) = u
    BY <1>2 DEF add_node
  <2> HIDE DEF i
  <2>5. /\ BucketOK(t.own, i, r)
        /\ \A j \in DOMAIN b : Good(b[j]) => \E k \in DOMAIN r : r[k].id = b[j].id
    BY <2>3, BucketAdd
  <2> HIDE DEF r
  <2>6. u \in SoundTables
    BY <2>2, <2>5, OneBucket
  <2>7. u.buckets = [t.buckets EXCEPT ![i] = r] /\ t.buckets \in [Buckets -> Seq(Node)]
    BY TableParts
  <2> HIDE DEF u
  <2>8. ASSUME NEW g \in get_good_nodes(t)
        PROVE  \E m \in get_all_nodes(u) : m.id = g.id
    <3>1. PICK h \in Buckets : \E j \in DOMAIN t.buckets[h] : g = t.buckets[h][j]
      BY DEF get_good_nodes, get_all_nodes, ToSet
    <3>2. PICK j \in DOMAIN t.buckets[h] : g = t.buckets[h][j]
      BY <3>1
    <3>3. Good(g)
      BY DEF get_good_nodes
    <3>4. \E k \in DOMAIN u.buckets[h] : u.buckets[h][k].id = g.id
      <4>1. CASE h = i
        <5>1. u.buckets[h] = r
          BY <2>2, <2>7, <4>1
        <5> QED BY <2>5, <3>2, <3>3, <4>1, <5>1
      <4>2. CASE h # i
        <5>1. u.buckets[h] = t.buckets[h]
          BY <2>7, <4>2
        <5> QED BY <3>2, <5>1
      <4> QED BY <4>1, <4>2
    <3> QED BY <3>4 DEF get_all_nodes, ToSet
  <2> QED BY <2>4, <2>6, <2>8
<1> QED BY <1>1, <1>2

LEMMA HeardTyped == \A c \in Contacts : Heard(c) \in Node
BY TableAssumption DEF Heard, Contacts, Node

\* So does loading a list of nodes one after the other.
LEMMA AddAllSound ==
    ASSUME NEW t \in SoundTables, NEW cs \in Seq(Contacts)
    PROVE  add_nodes(t, cs) \in SoundTables
<1> DEFINE n == Len(cs)
           Add(u, i) == add_node(u, Heard(cs[i]))
           Eq(g) == g = [i \in 0 .. n |-> IF i = 0 THEN t ELSE Add(g[i - 1], i)]
<1>0. n \in Nat /\ \A i \in 1 .. n : Heard(cs[i]) \in Node
  BY HeardTyped
<1>1. \A u \in SoundTables, i \in 1 .. n : Add(u, i) \in SoundTables
  BY <1>0, AddSound
<1>2. add_nodes(t, cs) = (CHOOSE g : Eq(g))[n]
  BY DEF add_nodes
<1> HIDE DEF n, Add
<1>3. \E g : Eq(g)
  <2> DEFINE step == [p \in SoundTables \X (1 .. n) |-> Add(p[1], p[2])]
  <2>1. step \in [SoundTables \X (1 .. n) -> SoundTables]
    BY <1>1
  <2>2. \A u \in SoundTables, i \in 1 .. n : step[<<u, i>>] = Add(u, i)
    OBVIOUS
  <2> HIDE DEF step
  <2>3. PICK f : Unfolds(f, SoundTables, n, t, step)
    BY <1>0, <2>1, Recursion
  <2>4. f \in [0 .. n -> SoundTables] /\ f[0] = t /\ \A i \in 1 .. n : f[i] = Add(f[i - 1], i)
    <3>1. /\ f \in [0 .. n -> SoundTables] /\ f[0] = t
          /\ \A i \in 1 .. n : f[i] = step[<<f[i - 1], i>>]
      BY <2>3 DEF Unfolds
    <3>2. \A i \in 1 .. n : f[i - 1] \in SoundTables
      BY <1>0, <3>1
    <3> QED BY <2>2, <3>1, <3>2
  <2>5. Eq(f)
    <3>1. \A i \in 0 .. n : i # 0 => i \in 1 .. n
      BY <1>0
    <3>2. \A i \in 0 .. n : f[i] = IF i = 0 THEN t ELSE Add(f[i - 1], i)
      BY <2>4, <3>1
    <3> QED BY <2>4, <3>2
  <2> QED BY <2>5
<1> DEFINE f == CHOOSE g : Eq(g)
<1>4. Eq(f)
  BY <1>3
<1> HIDE DEF f
<1>5. f[0] = t /\ \A i \in 1 .. n : f[i] = Add(f[i - 1], i)
  BY <1>0, <1>4
<1> DEFINE S == {i \in 0 .. n : f[i] \in SoundTables}
<1>6. 0 \in S
  BY <1>0, <1>5
<1>7. ASSUME NEW i \in 1 .. n, i - 1 \in S PROVE i \in S
  <2>1. f[i - 1] \in SoundTables /\ i \in 0 .. n
    BY <1>0, <1>7
  <2>2. f[i] \in SoundTables
    BY <1>1, <1>5, <2>1
  <2> QED BY <2>1, <2>2
<1> HIDE DEF S
<1>8. n \in S
  <2>1. \A i \in 0 .. n : i \in S
    BY <1>0, <1>6, <1>7, UpTo
  <2> QED BY <1>0, <2>1
<1> QED BY <1>2, <1>8 DEF S, f

\* u is sound and lists every id of t.
Renews(u, t) ==
    /\ u \in SoundTables
    /\ \A g \in get_all_nodes(t) : \E m \in get_all_nodes(u) : m.id = g.id

\* The buckets f hold nodes with the ids of those of t.
SameIds(f, t) ==
    /\ f = [i \in Buckets |-> f[i]]
    /\ \A i \in Buckets : /\ f[i] \in [DOMAIN t.buckets[i] -> Node]
                          /\ \A j \in DOMAIN t.buckets[i] : f[i][j].id = t.buckets[i][j].id

\* Changes of nodes in their places that leave the ids alone.
LEMMA Refiled ==
    ASSUME NEW t \in SoundTables, NEW f, SameIds(f, t)
    PROVE  Renews([t EXCEPT !.buckets = f], t)
<1> USE DEF SameIds
<1> DEFINE u == [t EXCEPT !.buckets = f]
<1>1. u = [own |-> t.own, buckets |-> f]
  BY TableParts
<1>2. ASSUME NEW i \in Buckets
      PROVE  BucketOK(t.own, i, f[i]) /\ DOMAIN f[i] = DOMAIN t.buckets[i]
  <2> DEFINE b == t.buckets[i]
             r == f[i]
  <2>1. BucketOK(t.own, i, b) /\ b \in Seq(Node)
    BY TableParts DEF BucketOK
  <2>2. r \in [DOMAIN b -> Node] /\ \A j \in DOMAIN b : r[j].id = b[j].id
    OBVIOUS
  <2> HIDE DEF b, r
  <2>3. r \in Seq(Node) /\ Len(r) = Len(b) /\ DOMAIN r = DOMAIN b
    BY <2>1, <2>2, RowIsSeq
  <2>4. BucketOK(t.own, i, r)
    BY <2>1, <2>2, <2>3 DEF BucketOK
  <2> QED BY <2>3, <2>4 DEF b, r
<1>3. u \in SoundTables
  <2>1. t.own \in NodeID /\ DOMAIN f = Buckets
    BY TableParts
  <2> QED BY <1>1, <1>2, <2>1, TableMade
<1>4. ASSUME NEW g \in get_all_nodes(t) PROVE \E m \in get_all_nodes(u) : m.id = g.id
  <2>1. PICK i \in Buckets : \E j \in DOMAIN t.buckets[i] : g = t.buckets[i][j]
    BY DEF get_all_nodes, ToSet
  <2>2. PICK j \in DOMAIN t.buckets[i] : g = t.buckets[i][j]
    BY <2>1
  <2>3. f[i][j].id = g.id /\ j \in DOMAIN f[i]
    BY <1>2, <2>2
  <2>4. u.buckets = f
    BY <1>1
  <2> HIDE DEF u
  <2>5. f[i][j] \in get_all_nodes(u)
    BY <2>3, <2>4 DEF get_all_nodes, ToSet
  <2> QED BY <2>3, <2>5
<1> QED BY <1>3, <1>4 DEF Renews

\* Pings and time change marks and ages only.
LEMMA MarkSound ==
    ASSUME NEW t \in SoundTables, NEW ids
    PROVE  Renews(mark_queries_sent(t, ids), t)
<1> DEFINE One(n) == IF n.id \in ids THEN [n EXCEPT !.query = 0] ELSE n
           f == [i \in Buckets |-> [j \in DOMAIN t.buckets[i] |-> One(t.buckets[i][j])]]
<1>1. \A n \in Node : One(n) \in Node /\ One(n).id = n.id
  BY TableAssumption DEF Node
<1>2. mark_queries_sent(t, ids) = [t EXCEPT !.buckets = f]
  BY DEF mark_queries_sent
<1> HIDE DEF One
<1>3. \A i \in Buckets : \A j \in DOMAIN t.buckets[i] : t.buckets[i][j] \in Node
  BY TableParts
<1>4. SameIds(f, t)
  BY <1>1, <1>3 DEF SameIds
<1> HIDE DEF f
<1> QED BY <1>2, <1>4, Refiled

LEMMA OlderSound ==
    ASSUME NEW t \in SoundTables
    PROVE  Renews(Older(t), t)
<1> DEFINE One(n) == [n EXCEPT !.seen = IF @ < BadAfter THEN @ + 1 ELSE @,
                               !.query = IF @ < RefreshAfter THEN @ + 1 ELSE @]
           f == [i \in Buckets |-> [j \in DOMAIN t.buckets[i] |-> One(t.buckets[i][j])]]
<1>1. \A n \in Node : One(n) \in Node /\ One(n).id = n.id
  <2> SUFFICES ASSUME NEW n \in Node PROVE One(n) \in Node /\ One(n).id = n.id
    OBVIOUS
  <2> DEFINE seen == IF n.seen < BadAfter THEN n.seen + 1 ELSE n.seen
             query == IF n.query < RefreshAfter THEN n.query + 1 ELSE n.query
  <2>1. n.seen \in 0 .. BadAfter /\ n.query \in 0 .. RefreshAfter
    BY DEF Node
  <2>2. seen \in 0 .. BadAfter /\ query \in 0 .. RefreshAfter
    BY <2>1, TableAssumption
  <2>3. One(n) = [n EXCEPT !.seen = seen, !.query = query]
    OBVIOUS
  <2> HIDE DEF seen, query, One
  <2> QED BY <2>2, <2>3 DEF Node
<1>2. Older(t) = [t EXCEPT !.buckets = f]
  BY DEF Older
<1> HIDE DEF One
<1>3. \A i \in Buckets : \A j \in DOMAIN t.buckets[i] : t.buckets[i][j] \in Node
  BY TableParts
<1>4. SameIds(f, t)
  BY <1>1, <1>3 DEF SameIds
<1> HIDE DEF f
<1> QED BY <1>2, <1>4, Refiled

\* remove_node takes the node with this id away and no other.
LEMMA RemoveSound ==
    ASSUME NEW t \in SoundTables, NEW id \in NodeID
    PROVE  /\ remove_node(t, id) \in SoundTables
           /\ \A g \in get_all_nodes(t) : g.id # id => g \in get_all_nodes(remove_node(t, id))
<1> DEFINE i == get_bucket_index(t, id)
           b == t.buckets[i]
           S == {n \in ToSet(b) : n.id # id}
           r == Kept(b, S)
           u == [t EXCEPT !.buckets[i] = r]
<1>1. i \in Buckets
  BY BucketOf
<1>2. remove_node(t, id) = u
  BY DEF remove_node, KBucketRemove
<1> HIDE DEF i
<1>3. BucketOK(t.own, i, b) /\ b \in Seq(Node)
  BY <1>1, TableParts DEF BucketOK
<1>4. \A j \in DOMAIN b : b[j].id # id => b[j] \in S
  BY DEF ToSet
<1> HIDE DEF S
<1>5. Selects(r, b, S, Node)
  BY <1>3, KeptSelects
<1> HIDE DEF r, b
<1>6. DOMAIN b = 1 .. Len(b) /\ Len(b) \in Nat /\ K \in Nat /\ DOMAIN r = 1 .. Len(r) /\ Len(r) \in Nat
  BY <1>3, <1>5, TableAssumption DEF Selects
<1>7. BucketOK(t.own, i, r)
  <2>1. r \in Seq(Node) /\ Len(r) <= K
    <3>1. r \in Seq(Node) /\ Len(r) <= Len(b)
      BY <1>5 DEF Selects
    <3>2. Len(b) <= K
      BY <1>3 DEF BucketOK
    <3> QED BY <1>6, <3>1, <3>2
  <2>2. \A a \in DOMAIN r : Filed(t.own, i, r[a].id)
    <3>1. \A a \in DOMAIN r : \E j \in DOMAIN b : r[a] = b[j]
      BY <1>5, <1>6 DEF Selects
    <3>2. \A j \in DOMAIN b : Filed(t.own, i, b[j].id)
      BY <1>3 DEF BucketOK
    <3> QED BY <3>1, <3>2
  <2>3. \A a, c \in DOMAIN r : a < c => r[a].id # r[c].id
    <3> SUFFICES ASSUME NEW a \in DOMAIN r, NEW c \in DOMAIN r, a < c PROVE r[a].id # r[c].id
      OBVIOUS
    <3>1. PICK j \in 1 .. Len(b), k \in 1 .. Len(b) : j < k /\ r[a] = b[j] /\ r[c] = b[k]
      BY <1>5 DEF Selects
    <3>2. b[j].id # b[k].id
      BY <1>3, <1>6, <3>1 DEF BucketOK
    <3> QED BY <3>1, <3>2
  <2>4. \A a, c \in DOMAIN r : r[c].id = r[a].id => c = a
    BY <1>6, <2>3
  <2> QED BY <2>1, <2>2, <2>4 DEF BucketOK
<1>8. u \in SoundTables
  BY <1>1, <1>7, OneBucket
<1>9. u.buckets = [t.buckets EXCEPT ![i] = r] /\ DOMAIN t.buckets = Buckets
  BY TableParts
<1> HIDE DEF u
<1>10. ASSUME NEW g \in get_all_nodes(t), g.id # id PROVE g \in get_all_nodes(u)
  <2>1. PICK h \in Buckets : \E j \in DOMAIN t.buckets[h] : g = t.buckets[h][j]
    BY DEF get_all_nodes, ToSet
  <2>2. \E k \in DOMAIN u.buckets[h] : u.buckets[h][k] = g
    <3>1. CASE h = i
      <4>1. u.buckets[h] = r /\ t.buckets[h] = b
        BY <1>1, <1>9, <3>1 DEF b
      <4>2. PICK j \in DOMAIN b : g = b[j]
        BY <2>1, <4>1
      <4>3. b[j] \in S /\ j \in 1 .. Len(b)
        BY <1>4, <1>6, <1>10, <4>2
      <4> QED BY <1>5, <4>1, <4>2, <4>3 DEF Selects
    <3>2. CASE h # i
      BY <1>9, <2>1, <3>2
    <3> QED BY <3>1, <3>2
  <2> QED BY <2>2 DEF get_all_nodes, ToSet
<1> QED BY <1>2, <1>8, <1>10

\* A list of lists is flattened to one list.
LEMMA FlattenTyped ==
    ASSUME NEW T, NEW n \in Nat \ {0}, NEW ss \in [1 .. n -> Seq(T)]
    PROVE  FlattenSeq(ss) \in Seq(T)
<1> DEFINE Q == Seq(T)
           Eq(g) == g = [i \in 1 .. n |-> IF i = 1 THEN ss[i] ELSE g[i - 1] \o ss[i]]
<1>0. Len(ss) = n /\ \A i \in 1 .. n : ss[i] \in Q
  <2>1. ss \in Seq(Seq(T))
    OBVIOUS
  <2> QED BY <2>1
<1>1. FlattenSeq(ss) = (CHOOSE g : Eq(g))[n]
  BY <1>0 DEF FlattenSeq
<1>2. \A q \in Q, r \in Q : q \o r \in Q
  OBVIOUS
<1>3. <<>> \in Q
  OBVIOUS
<1> HIDE DEF Q
<1>4. \E g : Eq(g)
  <2> DEFINE step == [p \in Q \X (1 .. n) |-> IF p[2] = 1 THEN ss[1] ELSE p[1] \o ss[p[2]]]
  <2>1. step \in [Q \X (1 .. n) -> Q]
    BY <1>0, <1>2
  <2>2. \A q \in Q, i \in 1 .. n : step[<<q, i>>] = IF i = 1 THEN ss[1] ELSE q \o ss[i]
    OBVIOUS
  <2> HIDE DEF step
  <2>3. PICK f : Unfolds(f, Q, n, <<>>, step)
    BY <1>3, <2>1, Recursion
  <2>4. /\ f \in [0 .. n -> Q]
        /\ \A i \in 1 .. n : f[i] = IF i = 1 THEN ss[1] ELSE f[i - 1] \o ss[i]
    <3>1. f \in [0 .. n -> Q] /\ \A i \in 1 .. n : f[i] = step[<<f[i - 1], i>>]
      BY <2>3 DEF Unfolds
    <3>2. \A i \in 1 .. n : f[i - 1] \in Q
      BY <3>1
    <3> QED BY <2>2, <3>1, <3>2
  <2> DEFINE g == [i \in 1 .. n |-> f[i]]
  <2>5. \A i \in 1 .. n : i # 1 => g[i - 1] = f[i - 1]
    OBVIOUS
  <2>6. \A i \in 1 .. n : g[i] = IF i = 1 THEN ss[i] ELSE g[i - 1] \o ss[i]
    BY <2>4, <2>5
  <2>7. DOMAIN g = 1 .. n /\ g = [i \in 1 .. n |-> g[i]]
    OBVIOUS
  <2> HIDE DEF g
  <2>8. Eq(g)
    BY <2>6, <2>7
  <2> QED BY <2>8
<1> DEFINE f == CHOOSE g : Eq(g)
<1>5. Eq(f)
  BY <1>4
<1> HIDE DEF f
<1>6. \A i \in 1 .. n : f[i] = IF i = 1 THEN ss[i] ELSE f[i - 1] \o ss[i]
  BY <1>5
<1> DEFINE S == {i \in 0 .. n : i = 0 \/ f[i] \in Q}
<1>7. 0 \in S
  OBVIOUS
<1>8. ASSUME NEW i \in 1 .. n, i - 1 \in S PROVE i \in S
  <2>1. CASE i = 1
    BY <1>0, <1>6, <2>1
  <2>2. CASE i # 1
    <3>1. f[i - 1] \in Q /\ ss[i] \in Q
      BY <1>0, <1>8, <2>2
    <3>2. f[i] = f[i - 1] \o ss[i]
      BY <1>6, <2>2
    <3>3. f[i] \in Q /\ i \in 0 .. n
      BY <1>2, <3>1, <3>2
    <3> QED BY <3>3
  <2> QED BY <2>1, <2>2
<1> HIDE DEF S
<1>9. n \in S
  <2>1. \A i \in 0 .. n : i \in S
    BY <1>7, <1>8, UpTo
  <2> QED BY <2>1
<1> QED BY <1>1, <1>9 DEF S, f, Q

-----------------------------------------------------------------------------
(* The nodes of a table *)

\* They are nodes, and finitely many.
LEMMA NodesTyped ==
    ASSUME NEW t \in SoundTables
    PROVE  get_all_nodes(t) \subseteq Node /\ IsFiniteSet(get_all_nodes(t))
<1>0. \A i \in Buckets : t.buckets[i] \in Seq(Node)
  BY TableParts
<1>1. ASSUME NEW b \in Seq(Node) PROVE ToSet(b) \subseteq Node /\ IsFiniteSet(ToSet(b))
  <2>1. DOMAIN b = 1 .. Len(b) /\ Len(b) \in Nat /\ \A j \in DOMAIN b : b[j] \in Node
    OBVIOUS
  <2>2. IsFiniteSet(DOMAIN b)
    BY <2>1, FS_Interval
  <2> DEFINE f == [j \in DOMAIN b |-> b[j]]
  <2>3. f \in Surjection(DOMAIN b, ToSet(b))
    BY DEF Surjection, ToSet
  <2> HIDE DEF f
  <2>4. IsFiniteSet(ToSet(b))
    BY <2>2, <2>3, FS_Surjection
  <2> QED BY <2>1, <2>4 DEF ToSet
<1> DEFINE All == {ToSet(t.buckets[i]) : i \in Buckets}
<1>2. IsFiniteSet(All)
  <2>1. IsFiniteSet(Buckets)
    BY TableAssumption, FS_Interval DEF Buckets
  <2> DEFINE f == [i \in Buckets |-> ToSet(t.buckets[i])]
  <2>2. f \in Surjection(Buckets, All)
    BY DEF Surjection
  <2> HIDE DEF f, All
  <2> QED BY <2>1, <2>2, FS_Surjection
<1>3. \A S \in All : S \subseteq Node /\ IsFiniteSet(S)
  BY <1>0, <1>1
<1> HIDE DEF All
<1>4. IsFiniteSet(UNION All)
  BY <1>2, <1>3, FS_UNION
<1> QED BY <1>3, <1>4 DEF get_all_nodes, All

\* What is listed for another node is a list of contacts.
LEMMA ListTyped ==
    ASSUME NEW t \in SoundTables, NEW target, NEW n,
           NEW s \in Sorted({Contact(m) : m \in find_closest_nodes(t, target, n)}, target)
    PROVE  s \in Seq(Contacts)
<1> DEFINE S == find_closest_nodes(t, target, n)
           C == {Contact(m) : m \in S}
<1>1. S \subseteq get_all_nodes(t)
  BY DEF find_closest_nodes, get_good_nodes
<1> HIDE DEF S
<1>2. IsFiniteSet(S) /\ S \subseteq Node
  BY <1>1, NodesTyped, FS_Subset
<1>3. C \subseteq Contacts
  BY <1>2 DEF Contact, Contacts, Node
<1>4. IsFiniteSet(C)
  <2> DEFINE f == [m \in S |-> Contact(m)]
  <2>1. f \in Surjection(S, C)
    BY DEF Surjection
  <2> HIDE DEF f, C
  <2> QED BY <1>2, <2>1, FS_Surjection
<1>5. s \in Sorted(C, target)
  BY DEF S
<1> HIDE DEF C
<1>6. Cardinality(C) \in Nat
  BY <1>4, FS_CardinalityType
<1>7. s \in [1 .. Cardinality(C) -> C]
  BY <1>5 DEF Sorted
<1> QED BY <1>3, <1>6, <1>7

-----------------------------------------------------------------------------
(* The file *)

Files == [own : NodeID, nodes : Seq(Contacts)]

LEMMA SerializeTyped == \A t \in SoundTables : serialize(t) \in Files
<1> SUFFICES ASSUME NEW t \in SoundTables PROVE serialize(t) \in Files
  OBVIOUS
<1> DEFINE GoodOf(b) == Kept(b, {n \in ToSet(b) : Good(n)})
           Saved(b) == [j \in DOMAIN GoodOf(b) |-> Contact(GoodOf(b)[j])]
           ss == [i \in 1 .. IdBits |-> Saved(t.buckets[i - 1])]
<1>1. ASSUME NEW b \in Seq(Node) PROVE Saved(b) \in Seq(Contacts)
  <2>1. GoodOf(b) \in Seq(Node)
    BY KeptSelects DEF Selects
  <2> HIDE DEF GoodOf
  <2>2. Saved(b) \in [DOMAIN GoodOf(b) -> Contacts]
    <3>1. \A n \in Node : Contact(n) \in Contacts
      BY DEF Contact, Contacts, Node
    <3>2. \A j \in DOMAIN GoodOf(b) : GoodOf(b)[j] \in Node
      BY <2>1
    <3> QED BY <3>1, <3>2
  <2> HIDE DEF Saved
  <2> QED BY <2>1, <2>2, RowIsSeq
<1>2. serialize(t) = [own |-> t.own, nodes |-> FlattenSeq(ss)]
  BY DEF serialize
<1> HIDE DEF Saved
<1>3. IdBits \in Nat \ {0}
  BY TableAssumption
<1>4. ss \in [1 .. IdBits -> Seq(Contacts)]
  <2>1. \A i \in 1 .. IdBits : i - 1 \in Buckets
    BY <1>3 DEF Buckets
  <2>2. \A i \in 1 .. IdBits : t.buckets[i - 1] \in Seq(Node)
    BY <2>1, TableParts
  <2> QED BY <1>1, <2>2
<1> HIDE DEF ss
<1>5. FlattenSeq(ss) \in Seq(Contacts)
  BY <1>3, <1>4, FlattenTyped
<1> QED BY <1>2, <1>5, TableParts DEF Files

LEMMA DeserializeSound ==
    ASSUME NEW o \in NodeID, NEW f \in Files
    PROVE  deserialize(EmptyTable(o), f) \in SoundTables
<1>1. [EmptyTable(o) EXCEPT !.own = f.own] = EmptyTable(f.own)
  BY DEF EmptyTable
<1>2. f.own \in NodeID /\ f.nodes \in Seq(Contacts)
  BY DEF Files
<1>3. EmptyTable(f.own) \in SoundTables
  BY <1>2, EmptySound
<1> QED BY <1>1, <1>2, <1>3, AddAllSound DEF deserialize

-----------------------------------------------------------------------------
(* The inductive invariant, in four parts *)

\* What the threads hold between two steps: a sound table, a file of contacts, a
\* query from an endpoint with a port.
HeldOK ==
    /\ own \in NodeID
    /\ load \in Workloads
    /\ table \in SoundTables
    /\ file \in Files \union {None}
    /\ mt \in [pc : {"wait", "rotate", "rotating", "refresh", "health", "drop", "save", "saving"},
               bad : SUBSET NodeID, data : Files \union {None}]
    /\ mt.pc = "saving" => mt.data \in Files
    /\ nt.pc = "answer" => nt.from \in Endpoints /\ nt.query.port \in Ports \union {None}

Tokens == [ip : Ips, gen : 0 .. Torn, age : 0 .. 2 * RotateAfter + 1]

\* A secret is replaced in the round in which it comes of age.
SecretOK ==
    /\ since \in 0 .. RotateAfter
    /\ mt.pc \notin {"rotate", "rotating"} => since < RotateAfter
    /\ mt.pc = "rotating" => since = RotateAfter

\* A token of the current secret is not older than the secret, one of the previous
\* secret is older than the current one by at most the time that one was used, one
\* that is being overwritten by at most two periods.
AgesOK ==
    /\ given \in Tokens \union {None}
    /\ given # None =>
         /\ given.gen = 0 => /\ given.age <= since
                             /\ mt.pc = "rotating" => given.age = 0
         /\ given.gen = 1 => IF mt.pc = "rotating" THEN given.age <= RotateAfter
                             ELSE since <= given.age /\ given.age <= RotateAfter + since
         /\ given.gen = 2 => RotateAfter <= given.age
         /\ given.gen = 2 /\ mt.pc = "rotating" => given.age <= 2 * RotateAfter
         /\ given.gen = Forgotten => RotateAfter <= given.age
         /\ given.gen = Torn => mt.pc = "rotating" \/ since <= given.age

Address == [ip : Ips, port : Ports]
Stored == [ep : Address, age : Nat]

StoreOK ==
    /\ store \in Seq(Stored)
    /\ Len(store) <= MaxPeers
    /\ \A i, j \in DOMAIN store : store[i].ep = store[j].ep => i = j

IInv == HeldOK /\ SecretOK /\ AgesOK /\ StoreOK /\ AnswersDecodable

LEMMA InitIInv == Init => IInv
<1> SUFFICES ASSUME Init PROVE IInv
  OBVIOUS
<1>1. ZeroID \in NodeID
  BY TableAssumption DEF ZeroID, NodeID
<1>2. HeldOK
  <2>1. EmptyTable(ZeroID) \in SoundTables
    BY <1>1, EmptySound
  <2> QED BY <1>1, <2>1 DEF Init, HeldOK, Waiting, Idle
<1>3. SecretOK /\ AgesOK
  BY ServiceAssumption DEF Init, SecretOK, AgesOK, Waiting
<1>4. StoreOK
  BY ServiceAssumption DEF Init, StoreOK
<1>5. AnswersDecodable
  BY DEF Init, AnswersDecodable
<1> QED BY <1>2, <1>3, <1>4, <1>5 DEF IInv

-----------------------------------------------------------------------------
(* The table, the file and the copies of the threads *)

\* Every datagram decodes to a query with a node id and a port, if any.
LEMMA DatagramTyped ==
    ASSUME NEW c \in Contacts, NEW kind \in QueryType \union {"answer"}, NEW d \in Datagrams(kind, c),
           DecodeQuery(d) # None
    PROVE  DecodeQuery(d).id \in NodeID /\ DecodeQuery(d).port \in Ports \union {None}
<1>1. ZeroID \in NodeID
  BY TableAssumption DEF ZeroID, NodeID
<1>2. c.id \in NodeID /\ Swap(c.ep.port) \in Ports
  BY ServiceAssumption DEF Contacts, Swap, Ports
<1>3. d.a.id \in NodeID \union {None} /\ d.a.port \in Ports \union {None}
  <2> USE DEF EncodeQuery, EncodeResponse, NoArgs
  <2> HIDE DEF Ports, NodeID
  <2>1. CASE kind = "ping"
    BY <1>2, <2>1 DEF Datagrams, query_ping
  <2>2. CASE kind = "find_node"
    BY <1>2, <2>2 DEF Datagrams, query_find_node, query_ping
  <2>3. CASE kind = "get_peers"
    BY <1>2, <2>3 DEF Datagrams, query_get_peers, query_ping
  <2>4. CASE kind = "announce_peer"
    <3>1. PICK port \in {None, Swap(c.ep.port)}, tok \in Presented :
            d = EncodeQuery(query_announce_peer(c.id, Hash, port, tok, "t"))
      BY <2>4 DEF Datagrams
    <3> QED BY <1>2, <3>1 DEF query_announce_peer, query_ping
  <2>5. CASE kind = "answer"
    BY <2>5 DEF Datagrams
  <2> QED BY <2>1, <2>2, <2>3, <2>4, <2>5 DEF QueryType
<1> QED BY <1>1, <1>3 DEF DecodeQuery

LEMMA GoneHeld ==
    ASSUME HeldOK, Gone, file' \in Files \union {None}
    PROVE  HeldOK'
<1>1. ZeroID \in NodeID
  BY TableAssumption DEF ZeroID, NodeID
<1>2. EmptyTable(ZeroID) \in SoundTables
  BY <1>1, EmptySound
<1> QED BY <1>1, <1>2 DEF Gone, HeldOK, Waiting, Idle

LEMMA HeldStep == HeldOK /\ Next => HeldOK'
<1> SUFFICES ASSUME HeldOK, Next PROVE HeldOK'
  OBVIOUS
<1>0. ZeroID \in NodeID
  BY TableAssumption DEF ZeroID, NodeID
<1>1. ASSUME Start PROVE HeldOK'
  <2>1. own' \in NodeID
    BY <1>1, ServiceAssumption DEF Start
  <2>2. table' \in SoundTables
    <3>1. CASE file = None
      BY <1>1, <2>1, <3>1, EmptySound DEF Start
    <3>2. CASE file # None
      <4> DEFINE loaded == deserialize(EmptyTable(own'), file)
      <4>1. file \in Files
        BY <3>2 DEF HeldOK
      <4>2. loaded \in SoundTables
        BY <2>1, <4>1, DeserializeSound
      <4>3. table' = mark_queries_sent(loaded, {n.id : n \in get_all_nodes(loaded)})
        BY <1>1, <3>2 DEF Start, Ping
      <4> HIDE DEF loaded
      <4> QED BY <4>2, <4>3, MarkSound DEF Renews
    <3> QED BY <3>1, <3>2
  <2> QED BY <1>1, <2>1, <2>2 DEF Start, HeldOK
<1>2. ASSUME Stop PROVE HeldOK'
  <2>1. file' \in Files /\ Gone
    BY <1>2, SerializeTyped DEF Stop, HeldOK
  <2> QED BY <2>1, GoneHeld
<1>3. ASSUME Crash PROVE HeldOK'
  <2>1. CASE mt.pc = "saving"
    <3>1. CASE file' = None
      BY <1>3, <3>1, GoneHeld DEF Crash
    <3>2. CASE file' # None
      <4>1. PICK n \in 0 .. Len(mt.data.nodes) :
              file' = [mt.data EXCEPT !.nodes = SubSeq(@, 1, n)]
        BY <1>3, <2>1, <3>2 DEF Crash
      <4>2. mt.data \in Files
        BY <2>1 DEF HeldOK
      <4>3. mt.data.nodes \in Seq(Contacts)
        BY <4>2 DEF Files
      <4>4. SubSeq(mt.data.nodes, 1, n) \in Seq(Contacts)
        <5>1. \A i \in 1 .. n : mt.data.nodes[i] \in Contacts
          BY <4>3
        <5> QED BY <4>3, <5>1
      <4>5. file' \in Files
        BY <4>1, <4>2, <4>4 DEF Files
      <4> QED BY <1>3, <4>5, GoneHeld DEF Crash
    <3> QED BY <3>1, <3>2
  <2>2. CASE mt.pc # "saving"
    <3>1. file' \in Files \union {None} /\ Gone
      BY <1>3, <2>2 DEF Crash, HeldOK
    <3> QED BY <3>1, GoneHeld
  <2> QED BY <2>1, <2>2
<1>4. ASSUME NEW c \in load.senders, NEW kind \in load.types, NEW d \in Datagrams(kind, c),
             NT_Receive(d, c.ep)
      PROVE  HeldOK'
  <2> DEFINE m == DecodeQuery(d)
  <2>1. c \in Contacts /\ kind \in QueryType \union {"answer"}
    BY ServiceAssumption DEF HeldOK
  <2>2. m.id \in NodeID /\ m.port \in Ports \union {None}
    BY <1>4, <2>1, DatagramTyped DEF NT_Receive
  <2>3. c.ep \in Endpoints
    BY <2>1 DEF Contacts
  <2>4. PICK type \in SwitchValues(m) :
          /\ table' = add_node(table, Heard([id |-> m.id, ep |-> c.ep]))
          /\ nt' = [pc |-> "answer", query |-> [m EXCEPT !.query_type = type], from |-> c.ep]
    BY <1>4 DEF NT_Receive
  <2>5. [m EXCEPT !.query_type = type].port = m.port
    BY <1>4 DEF NT_Receive, DecodeQuery
  <2> HIDE DEF m
  <2>6. table' \in SoundTables
    <3>1. [id |-> m.id, ep |-> c.ep] \in Contacts
      BY <2>2, <2>3 DEF Contacts
    <3> QED BY <2>4, <3>1, HeardTyped, AddSound DEF HeldOK
  <2> QED BY <1>4, <2>2, <2>3, <2>4, <2>5, <2>6 DEF NT_Receive, HeldOK
<1>5. ASSUME NEW c \in load.senders, NT_Refuse(c.ep) PROVE HeldOK'
  BY <1>5 DEF NT_Refuse, vars, HeldOK
<1>6. ASSUME NEW i \in Ips, SecondPasses(i) PROVE HeldOK'
  BY <1>6 DEF SecondPasses, HeldOK
<1>7. ASSUME NT_Answer PROVE HeldOK'
  BY <1>7 DEF NT_Answer, Idle, HeldOK
<1>8. ASSUME Minute PROVE HeldOK'
  <2>1. table' \in SoundTables
    BY <1>8, OlderSound DEF Minute, HeldOK, Renews
  <2> QED BY <1>8, <2>1 DEF Minute, HeldOK
<1>9. ASSUME MT_Rotate PROVE HeldOK'
  BY <1>9 DEF MT_Rotate, HeldOK
<1>10. ASSUME MT_Rotated PROVE HeldOK'
  BY <1>10 DEF MT_Rotated, HeldOK
<1>11. ASSUME MT_Refresh PROVE HeldOK'
  <2>1. table' \in SoundTables
    BY <1>11, MarkSound DEF MT_Refresh, Ping, HeldOK, Renews
  <2> QED BY <1>11, <2>1 DEF MT_Refresh, HeldOK
<1>12. ASSUME MT_Health PROVE HeldOK'
  <2>1. \A n \in get_all_nodes(table) : n.id \in NodeID
    BY NodesTyped DEF HeldOK, Node
  <2> DEFINE bad == {n.id : n \in {m \in get_all_nodes(table) : Bad(m)}}
  <2>2. bad \in SUBSET NodeID
    BY <2>1
  <2>3. mt' = [mt EXCEPT !.pc = "drop", !.bad = bad]
    BY <1>12 DEF MT_Health
  <2> HIDE DEF bad
  <2> QED BY <1>12, <2>2, <2>3 DEF MT_Health, HeldOK
<1>13. ASSUME MT_Expire PROVE HeldOK'
  BY <1>13 DEF MT_Expire, HeldOK
<1>14. ASSUME MT_Save PROVE HeldOK'
  <2>1. serialize(table) \in Files
    BY SerializeTyped DEF HeldOK
  <2> QED BY <1>14, <2>1 DEF MT_Save, HeldOK
<1>15. ASSUME MT_Saved PROVE HeldOK'
  BY <1>15 DEF MT_Saved, Waiting, HeldOK
<1>16. ASSUME NEW id \in NodeID, MT_Drop(id) PROVE HeldOK'
  <2>1. table' \in SoundTables
    BY <1>16, RemoveSound DEF MT_Drop, HeldOK
  <2> QED BY <1>16, <2>1 DEF MT_Drop, HeldOK
<1> QED BY <1>1, <1>2, <1>3, <1>4, <1>5, <1>6, <1>7, <1>8, <1>9, <1>10, <1>11, <1>12, <1>13,
           <1>14, <1>15, <1>16 DEF Next

-----------------------------------------------------------------------------
(* The secrets and the token somebody remembers *)

Cleaning ==
    \/ MT_Refresh \/ MT_Health \/ MT_Expire \/ MT_Save \/ MT_Saved
    \/ \E id \in NodeID : MT_Drop(id)

\* The rest of a round leaves secrets and tokens alone.
LEMMA CleaningQuiet ==
    ASSUME HeldOK, Cleaning
    PROVE  /\ UNCHANGED <<since, given>>
           /\ mt.pc \notin {"wait", "rotate", "rotating"} /\ mt'.pc \notin {"rotate", "rotating"}
<1>0. ASSUME NEW pc PROVE [mt EXCEPT !.pc = pc].pc = pc
  BY DEF HeldOK
<1>1. CASE MT_Refresh
  BY <1>0, <1>1 DEF MT_Refresh
<1>2. CASE MT_Health
  <2>1. ASSUME NEW bad PROVE [mt EXCEPT !.pc = "drop", !.bad = bad].pc = "drop"
    BY DEF HeldOK
  <2> QED BY <1>2, <2>1 DEF MT_Health
<1>3. CASE MT_Expire
  BY <1>0, <1>3 DEF MT_Expire
<1>4. CASE MT_Save
  <2>1. ASSUME NEW data PROVE [mt EXCEPT !.pc = "saving", !.data = data].pc = "saving"
    BY DEF HeldOK
  <2> QED BY <1>4, <2>1 DEF MT_Save
<1>5. CASE MT_Saved
  BY <1>5 DEF MT_Saved, Waiting
<1>6. ASSUME NEW id \in NodeID, MT_Drop(id)
      PROVE  /\ UNCHANGED <<since, given>>
             /\ mt.pc = "drop" /\ mt'.pc = "drop"
  <2>1. ASSUME NEW bad PROVE [mt EXCEPT !.bad = bad].pc = mt.pc
    BY DEF HeldOK
  <2> QED BY <1>6, <2>1 DEF MT_Drop
<1> QED BY <1>1, <1>2, <1>3, <1>4, <1>5, <1>6 DEF Cleaning

LEMMA SecretStep == HeldOK /\ SecretOK /\ Next => SecretOK'
<1> SUFFICES ASSUME HeldOK, SecretOK, Next PROVE SecretOK'
  OBVIOUS
<1> USE ServiceAssumption DEF SecretOK
<1>1. ASSUME Gone PROVE SecretOK'
  BY <1>1 DEF Gone, Waiting
<1>2. CASE Start \/ NT_Answer \/ \E i \in Ips : SecondPasses(i)
  BY <1>2 DEF Start, NT_Answer, SecondPasses
<1>3. CASE Stop \/ Crash
  BY <1>1, <1>3 DEF Stop, Crash
<1>4. ASSUME NEW d, NEW ep, NT_Receive(d, ep) \/ NT_Refuse(ep) PROVE SecretOK'
  BY <1>4 DEF NT_Receive, NT_Refuse, vars
<1>5. CASE Minute \/ MT_Rotate \/ MT_Rotated
  BY <1>5 DEF Minute, MT_Rotate, MT_Rotated, HeldOK
<1>6. CASE Cleaning
  <2>1. since' = since /\ mt.pc \notin {"rotate", "rotating"} /\ mt'.pc \notin {"rotate", "rotating"}
    BY <1>6, CleaningQuiet
  <2> QED BY <2>1
<1> QED BY <1>2, <1>3, <1>4, <1>5, <1>6 DEF Next, Cleaning

LEMMA AgesStep == HeldOK /\ SecretOK /\ AgesOK /\ Next => AgesOK'
<1> SUFFICES ASSUME HeldOK, SecretOK, AgesOK, Next PROVE AgesOK'
  OBVIOUS
<1>0. RotateAfter \in Nat /\ RotateAfter > 0 /\ since \in 0 .. RotateAfter
  BY ServiceAssumption DEF SecretOK
<1>1. ASSUME Gone PROVE AgesOK'
  BY <1>1 DEF Gone, AgesOK
<1>2. ASSUME UNCHANGED <<given, since, mt>> PROVE AgesOK'
  BY <1>2 DEF AgesOK
<1>3. ASSUME UNCHANGED <<given, since>>, mt.pc # "rotating", mt'.pc # "rotating" PROVE AgesOK'
  BY <1>3 DEF AgesOK
<1>4. CASE NT_Answer
  <2>1. CASE given' = given
    BY <1>2, <1>4, <2>1 DEF NT_Answer
  <2>2. CASE given' # given
    <3>1. PICK tok \in generate_token(nt.from.ip) : given' = tok
      <4>1. AnswerGetPeers
        BY <1>4, <2>2 DEF NT_Answer, AnswerPing, AnswerFindNode, AnswerAnnounce, NoAnswer
      <4> QED BY <2>2, <4>1 DEF AnswerGetPeers
    <3>2. nt.from.ip \in Ips
      BY <1>4, ServiceAssumption DEF NT_Answer, HeldOK
    <3>3. PICK g \in {0, 1, Torn} :
            tok = [ip |-> nt.from.ip, gen |-> g, age |-> 0] /\ (g # 0 => mt.pc = "rotating")
      BY <3>1 DEF generate_token
    <3>4. tok \in Tokens
      <4>1. g \in 0 .. Torn /\ 0 \in 0 .. 2 * RotateAfter + 1
        BY <1>0 DEF Torn
      <4> QED BY <3>2, <3>3, <4>1 DEF Tokens
    <3>5. mt' = mt /\ since' = since
      BY <1>4 DEF NT_Answer
    <3>6. tok.gen = g /\ tok.age = 0 /\ g \in {0, 1, 4}
      BY <3>3 DEF Torn
    <3> QED BY <1>0, <3>1, <3>3, <3>4, <3>5, <3>6 DEF AgesOK, Forgotten, Torn
  <2> QED BY <2>1, <2>2
<1>5. CASE Minute
  <2>1. since < RotateAfter /\ mt.pc = "wait" /\ mt'.pc = "rotate" /\ since' = since + 1
    BY <1>0, <1>5 DEF Minute, SecretOK, HeldOK
  <2>2. CASE given = None
    BY <1>5, <2>2 DEF Minute, Older1, AgesOK
  <2>3. CASE given # None
    <3> DEFINE age == IF given.age <= 2 * RotateAfter THEN given.age + 1 ELSE given.age
    <3>1. given \in Tokens /\ given' = [given EXCEPT !.age = age]
      BY <1>5, <2>3 DEF Minute, Older1, AgesOK
    <3>2. given.age \in 0 .. 2 * RotateAfter + 1 /\ given.gen \in 0 .. Torn
      BY <3>1 DEF Tokens
    <3>3. age \in 0 .. 2 * RotateAfter + 1
      BY <1>0, <3>2
    <3>4. given' \in Tokens /\ given'.gen = given.gen /\ given'.age = age
      BY <3>1, <3>3 DEF Tokens
    <3>5. /\ given.gen = 0 => given.age <= since
          /\ given.gen = 1 => since <= given.age /\ given.age <= RotateAfter + since
          /\ given.gen \in {2, Forgotten} => RotateAfter <= given.age
          /\ given.gen = Torn => since <= given.age
      BY <2>1, <2>3 DEF AgesOK
    <3>6. /\ given.gen = 0 => age <= since + 1
          /\ given.gen = 1 => since + 1 <= age /\ age <= RotateAfter + (since + 1)
          /\ given.gen \in {2, Forgotten} => RotateAfter <= age
          /\ given.gen = Torn => since + 1 <= age
      BY <1>0, <2>1, <3>2, <3>5
    <3> QED BY <2>1, <3>4, <3>6 DEF AgesOK
  <2> QED BY <2>2, <2>3
<1>6. CASE MT_Rotate
  <2>1. CASE since >= RotateAfter
    <3>1. since = RotateAfter /\ mt.pc = "rotate" /\ mt'.pc = "rotating"
      BY <1>0, <1>6, <2>1 DEF MT_Rotate, HeldOK
    <3>2. CASE given = None
      BY <1>6, <2>1, <3>2 DEF MT_Rotate, OldGeneration, AgesOK
    <3>3. CASE given # None
      <4> DEFINE gen == IF given.gen < Forgotten THEN given.gen + 1 ELSE Forgotten
      <4>1. given \in Tokens /\ given' = [given EXCEPT !.gen = gen]
        BY <1>6, <2>1, <3>3 DEF MT_Rotate, OldGeneration, AgesOK
      <4>2. given.gen \in 0 .. 4 /\ given.age \in 0 .. 2 * RotateAfter + 1
        BY <4>1 DEF Tokens, Torn
      <4>3. gen \in 1 .. 3 /\ gen \in 0 .. Torn
        BY <4>2 DEF Forgotten, Torn
      <4>4. given' \in Tokens /\ given'.gen = gen /\ given'.age = given.age
        BY <4>1, <4>3 DEF Tokens
      <4>5. /\ given.gen = 0 => given.age <= since
            /\ given.gen = 1 => since <= given.age /\ given.age <= RotateAfter + since
            /\ given.gen \in {2, 3} => RotateAfter <= given.age
            /\ given.gen = 4 => since <= given.age
        BY <3>1, <3>3 DEF AgesOK, Forgotten, Torn
      <4>6. /\ gen = 1 => given.age <= RotateAfter
            /\ gen = 2 => RotateAfter <= given.age /\ given.age <= 2 * RotateAfter
            /\ gen = 3 => RotateAfter <= given.age
        BY <1>0, <3>1, <4>2, <4>5 DEF Forgotten
      <4> QED BY <3>1, <4>3, <4>4, <4>6 DEF AgesOK, Forgotten, Torn
    <3> QED BY <3>2, <3>3
  <2>2. CASE ~(since >= RotateAfter)
    BY <1>3, <1>6, <2>2 DEF MT_Rotate, HeldOK
  <2> QED BY <2>1, <2>2
<1>7. CASE MT_Rotated
  <2>1. mt.pc = "rotating" /\ mt'.pc = "refresh" /\ since' = 0 /\ given' = given
    BY <1>7 DEF MT_Rotated, HeldOK
  <2> QED BY <1>0, <2>1 DEF AgesOK, Tokens
<1>8. CASE Start \/ \E i \in Ips : SecondPasses(i)
  BY <1>2, <1>8 DEF Start, SecondPasses
<1>9. CASE Stop \/ Crash
  BY <1>1, <1>9 DEF Stop, Crash
<1>10. ASSUME NEW d, NEW ep, NT_Receive(d, ep) \/ NT_Refuse(ep) PROVE AgesOK'
  BY <1>2, <1>10 DEF NT_Receive, NT_Refuse, vars
<1>11. CASE Cleaning
  BY <1>3, <1>11, CleaningQuiet
<1> QED BY <1>4, <1>5, <1>6, <1>7, <1>8, <1>9, <1>10, <1>11 DEF Next, Cleaning

-----------------------------------------------------------------------------
(* The stored peers *)

\* A list of stored peers: each once, no more than there is room for.
PeersOK(r) ==
    /\ r \in Seq(Stored)
    /\ Len(r) <= MaxPeers
    /\ \A i, j \in DOMAIN r : r[i].ep = r[j].ep => i = j

\* What may become of the peers of s in r.
KeepsPeers(s, r) ==
    \A i \in DOMAIN s :
      \/ \E j \in DOMAIN r : r[j].ep = s[i].ep
      \/ s[i].age > ExpireAfter
      \/ Len(s) = MaxPeers /\ \E j \in DOMAIN r : \A k \in DOMAIN s : s[k].ep # r[j].ep

\* Other ages, the same peers.
LEMMA SamePeers ==
    ASSUME NEW s, PeersOK(s), NEW r \in [DOMAIN s -> Stored],
           \A i \in DOMAIN s : r[i].ep = s[i].ep
    PROVE  PeersOK(r) /\ KeepsPeers(s, r)
<1>1. s \in Seq(Stored)
  BY DEF PeersOK
<1>2. r \in Seq(Stored) /\ Len(r) = Len(s) /\ DOMAIN r = DOMAIN s
  BY <1>1, RowIsSeq
<1> QED BY <1>1, <1>2 DEF PeersOK, KeepsPeers

\* store_peer, whether the peer is known, the list has room or is full.
LEMMA StorePeer ==
    ASSUME StoreOK, NEW ep \in Address
    PROVE  PeersOK(store_peer(ep)) /\ KeepsPeers(store, store_peer(ep))
<1>0. /\ PeersOK(store) /\ store \in Seq(Stored) /\ Len(store) \in Nat
      /\ DOMAIN store = 1 .. Len(store) /\ \A i \in DOMAIN store : store[i] \in Stored
  BY DEF StoreOK, PeersOK
<1>1. CASE \E i \in DOMAIN store : store[i].ep = ep
  <2> DEFINE Young(p) == IF p.ep = ep THEN [p EXCEPT !.age = 0] ELSE p
             r == [i \in DOMAIN store |-> Young(store[i])]
  <2>1. \A p \in Stored : Young(p) \in Stored /\ Young(p).ep = p.ep
    BY DEF Stored
  <2>2. store_peer(ep) = r
    BY <1>1 DEF store_peer
  <2> HIDE DEF Young
  <2>3. r \in [DOMAIN store -> Stored] /\ \A i \in DOMAIN store : r[i].ep = store[i].ep
    BY <1>0, <2>1
  <2> HIDE DEF r
  <2> QED BY <1>0, <2>2, <2>3, SamePeers
<1>2. CASE \A i \in DOMAIN store : store[i].ep # ep
  <2> DEFINE new == [ep |-> ep, age |-> 0]
  <2>0. new \in Stored /\ new.ep = ep
    BY DEF Stored
  <2> HIDE DEF new
  <2>1. MaxPeers \in Nat /\ MaxPeers > 0 /\ Len(store) <= MaxPeers
    BY ServiceAssumption DEF StoreOK
  <2>2. \A i, j \in DOMAIN store : store[i].ep = store[j].ep => i = j
    BY DEF StoreOK
  <2>3. CASE Len(store) >= MaxPeers
    <3> DEFINE n == Len(store)
               q == Tail(store)
               r == q \o <<new>>
    <3>1. store_peer(ep) = r
      BY <1>2, <2>3 DEF store_peer, new
    <3>2. q \in Seq(Stored) /\ Len(q) = n - 1 /\ n \in Nat /\ n > 0 /\ n = MaxPeers
          /\ \A i \in 1 .. n - 1 : q[i] = store[i + 1]
      <4>1. n \in Nat /\ n > 0 /\ n = MaxPeers
        <5>1. n \in Nat /\ n <= MaxPeers /\ n >= MaxPeers
          BY <1>0, <2>1, <2>3
        <5> HIDE DEF n
        <5> QED BY <2>1, <5>1
      <4>2. store # <<>>
        BY <1>0, <4>1
      <4>3. q \in Seq(Stored) /\ Len(q) = n - 1 /\ \A i \in 1 .. n - 1 : q[i] = store[i + 1]
        BY <1>0, <4>1, <4>2
      <4> QED BY <4>1, <4>3
    <3> HIDE DEF q, n
    <3>3. r \in Seq(Stored) /\ Len(r) = n /\ DOMAIN r = 1 .. n
          /\ r[n] = new /\ \A i \in 1 .. n - 1 : r[i] = store[i + 1]
      BY <2>0, <3>2
    <3> HIDE DEF r
    <3>4. \A i \in 1 .. n - 1 : i + 1 \in DOMAIN store
      BY <1>0, <3>2 DEF n
    <3>5. \A i, j \in DOMAIN r : r[i].ep = r[j].ep => i = j
      <4> SUFFICES ASSUME NEW i \in 1 .. n, NEW j \in 1 .. n, r[i].ep = r[j].ep PROVE i = j
        BY <3>3
      <4>1. CASE i = n \/ j = n
        BY <1>2, <2>0, <3>2, <3>3, <3>4, <4>1
      <4>2. CASE i # n /\ j # n
        <5>1. i \in 1 .. n - 1 /\ j \in 1 .. n - 1
          BY <3>2, <4>2
        <5>2. i + 1 = j + 1
          BY <2>2, <3>3, <3>4, <5>1
        <5> QED BY <5>1, <5>2
      <4> QED BY <4>1, <4>2
    <3>6. PeersOK(r)
      BY <3>2, <3>3, <3>5 DEF PeersOK
    <3>7. KeepsPeers(store, r)
      <4>1. n \in DOMAIN r /\ r[n].ep = ep
        BY <2>0, <3>2, <3>3
      <4>2. \A k \in DOMAIN store : store[k].ep # r[n].ep
        BY <1>2, <4>1
      <4> QED BY <3>2, <4>1, <4>2 DEF KeepsPeers, n
    <3> QED BY <3>1, <3>6, <3>7
  <2>4. CASE ~(Len(store) >= MaxPeers)
    <3> DEFINE n == Len(store)
               r == store \o <<new>>
    <3>1. store_peer(ep) = r
      BY <1>2, <2>4 DEF store_peer, new
    <3>2. /\ r \in Seq(Stored) /\ Len(r) = n + 1 /\ DOMAIN r = 1 .. n + 1 /\ n \in Nat
          /\ r[n + 1] = new /\ \A i \in 1 .. n : r[i] = store[i]
      BY <1>0, <2>0
    <3> HIDE DEF r
    <3>3. \A i, j \in DOMAIN r : r[i].ep = r[j].ep => i = j
      <4> SUFFICES ASSUME NEW i \in 1 .. n + 1, NEW j \in 1 .. n + 1, r[i].ep = r[j].ep
                   PROVE i = j
        BY <3>2
      <4>1. CASE i = n + 1 \/ j = n + 1
        BY <1>0, <1>2, <2>0, <3>2, <4>1
      <4>2. CASE i # n + 1 /\ j # n + 1
        BY <1>0, <2>2, <3>2, <4>2
      <4> QED BY <4>1, <4>2
    <3>4. PeersOK(r)
      BY <2>1, <2>4, <3>2, <3>3 DEF PeersOK
    <3>5. KeepsPeers(store, r)
      BY <1>0, <3>2 DEF KeepsPeers
    <3> QED BY <3>1, <3>4, <3>5
  <2> QED BY <2>3, <2>4
<1> QED BY <1>1, <1>2

\* Every step keeps the list in order, and its peers unless the process ends.
LEMMA StoreStep ==
    ASSUME HeldOK, StoreOK, [Next]_vars
    PROVE  StoreOK' /\ (running /\ running' => KeepsPeers(store, store'))
<1>0. /\ PeersOK(store) /\ store \in Seq(Stored) /\ Len(store) \in Nat
      /\ DOMAIN store = 1 .. Len(store) /\ \A i \in DOMAIN store : store[i] \in Stored
  BY DEF StoreOK, PeersOK
<1> SUFFICES PeersOK(store') /\ (running /\ running' => KeepsPeers(store, store'))
  BY DEF StoreOK, PeersOK
<1>1. ASSUME store' = store PROVE PeersOK(store') /\ KeepsPeers(store, store')
  BY <1>0, <1>1 DEF KeepsPeers
<1>2. ASSUME Gone PROVE PeersOK(store') /\ ~running'
  BY <1>2, ServiceAssumption DEF Gone, PeersOK
<1>3. ASSUME Minute PROVE PeersOK(store') /\ KeepsPeers(store, store')
  <2> DEFINE One(p) == [p EXCEPT !.age = IF @ <= ExpireAfter THEN @ + 1 ELSE @]
             r == [i \in DOMAIN store |-> One(store[i])]
  <2>1. \A p \in Stored : One(p) \in Stored /\ One(p).ep = p.ep
    <3> SUFFICES ASSUME NEW p \in Stored PROVE One(p) \in Stored /\ One(p).ep = p.ep
      OBVIOUS
    <3> DEFINE age == IF p.age <= ExpireAfter THEN p.age + 1 ELSE p.age
    <3>1. p.age \in Nat
      BY DEF Stored
    <3>2. age \in Nat
      BY <3>1
    <3>3. One(p) = [p EXCEPT !.age = age]
      OBVIOUS
    <3> HIDE DEF age, One
    <3> QED BY <3>2, <3>3 DEF Stored
  <2>2. store' = r
    BY <1>3 DEF Minute
  <2> HIDE DEF One
  <2>3. r \in [DOMAIN store -> Stored] /\ \A i \in DOMAIN store : r[i].ep = store[i].ep
    BY <1>0, <2>1
  <2> HIDE DEF r
  <2> QED BY <1>0, <2>2, <2>3, SamePeers
<1>4. ASSUME MT_Expire PROVE PeersOK(store') /\ KeepsPeers(store, store')
  <2> DEFINE S == {p \in ToSet(store) : p.age <= ExpireAfter}
             r == Kept(store, S)
  <2>1. store' = r
    BY <1>4 DEF MT_Expire
  <2>2. \A i \in DOMAIN store : ~(store[i].age > ExpireAfter) => store[i] \in S
    <3>1. \A i \in DOMAIN store : store[i].age \in Nat /\ ExpireAfter \in Nat
      BY <1>0, ServiceAssumption DEF Stored
    <3> QED BY <3>1 DEF ToSet
  <2> HIDE DEF S
  <2>3. Selects(r, store, S, Stored)
    BY <1>0, KeptSelects
  <2> HIDE DEF r
  <2>4. r \in Seq(Stored) /\ Len(r) \in Nat /\ DOMAIN r = 1 .. Len(r) /\ Len(r) <= Len(store)
    BY <2>3 DEF Selects
  <2>5. Len(r) <= MaxPeers
    BY <1>0, <2>4, ServiceAssumption DEF StoreOK
  <2>6. \A a, b \in DOMAIN r : a < b => r[a].ep # r[b].ep
    <3> SUFFICES ASSUME NEW a \in DOMAIN r, NEW b \in DOMAIN r, a < b PROVE r[a].ep # r[b].ep
      OBVIOUS
    <3>1. PICK j \in 1 .. Len(store), k \in 1 .. Len(store) :
            j < k /\ r[a] = store[j] /\ r[b] = store[k]
      BY <2>3 DEF Selects
    <3>2. store[j].ep # store[k].ep
      BY <1>0, <3>1 DEF PeersOK
    <3> QED BY <3>1, <3>2
  <2>7. \A a, b \in DOMAIN r : r[a].ep = r[b].ep => a = b
    BY <2>4, <2>6
  <2>8. PeersOK(r)
    BY <2>4, <2>5, <2>7 DEF PeersOK
  <2>9. KeepsPeers(store, r)
    <3> SUFFICES ASSUME NEW i \in DOMAIN store, ~(store[i].age > ExpireAfter)
                 PROVE \E j \in DOMAIN r : r[j].ep = store[i].ep
      BY DEF KeepsPeers
    <3>1. store[i] \in S /\ i \in 1 .. Len(store)
      BY <1>0, <2>2
    <3>2. PICK j \in DOMAIN r : r[j] = store[i]
      BY <2>3, <3>1 DEF Selects
    <3> QED BY <3>2
  <2> QED BY <2>1, <2>8, <2>9
<1>5. ASSUME NT_Answer PROVE PeersOK(store') /\ KeepsPeers(store, store')
  <2>1. CASE store' = store
    BY <1>1, <2>1
  <2>2. CASE store' # store
    <3>1. AnswerAnnounce
      BY <1>5, <2>2 DEF NT_Answer, AnswerPing, AnswerFindNode, AnswerGetPeers, NoAnswer
    <3> DEFINE port == IF nt.query.port = None THEN nt.from.port ELSE nt.query.port
               ep == [nt.from EXCEPT !.port = port]
    <3>2. store' = store_peer(ep)
      BY <2>2, <3>1 DEF AnswerAnnounce
    <3>3. nt.from \in Address /\ nt.query.port \in Ports \union {None}
      BY <1>5, ServiceAssumption DEF NT_Answer, HeldOK, Address
    <3>4. port \in Ports
      BY <3>3 DEF Address
    <3> HIDE DEF port
    <3>5. ep \in Address
      BY <3>3, <3>4 DEF Address
    <3> HIDE DEF ep
    <3> QED BY <3>2, <3>5, StorePeer
  <2> QED BY <2>1, <2>2
<1>6. CASE Start
  BY <1>1, <1>6 DEF Start
<1>7. CASE Stop \/ Crash
  BY <1>2, <1>7 DEF Stop, Crash
<1>8. ASSUME NEW d, NEW ep, NT_Receive(d, ep) \/ NT_Refuse(ep) PROVE store' = store
  BY <1>8 DEF NT_Receive, NT_Refuse, vars
<1>9. ASSUME NEW i \in Ips, SecondPasses(i) PROVE store' = store
  BY <1>9 DEF SecondPasses
<1>10. CASE MT_Rotate \/ MT_Rotated \/ MT_Refresh \/ MT_Health \/ MT_Save \/ MT_Saved
  BY <1>1, <1>10 DEF MT_Rotate, MT_Rotated, MT_Refresh, MT_Health, MT_Save, MT_Saved
<1>11. ASSUME NEW id \in NodeID, MT_Drop(id) PROVE store' = store
  BY <1>11 DEF MT_Drop
<1>12. CASE UNCHANGED vars
  BY <1>1, <1>12 DEF vars
<1> QED BY <1>1, <1>3, <1>4, <1>5, <1>6, <1>7, <1>8, <1>9, <1>10, <1>11, <1>12 DEF Next

-----------------------------------------------------------------------------
(* The answers *)

\* What decode makes of what encode wrote.
ReadsBack(m) ==
    DecodeResponse(EncodeResponse(m)) = [m EXCEPT !.nodes = IF @ = <<>> THEN None ELSE @]

Message(tid, id, nodes, peers, token) ==
    [tid |-> tid, id |-> id, nodes |-> nodes, peers |-> peers, token |-> token]

\* encode and decode agree on the bytes of an id, an address and a port.
LEMMA Decodes ==
    ASSUME NEW tid, NEW o \in NodeID, NEW token,
           NEW nodes \in Seq(Contacts) \union {None}, NEW peers \in Seq(Address) \union {None},
           peers # <<>>
    PROVE  ReadsBack(Message(tid, o, nodes, peers, token))
<1> DEFINE m == Message(tid, o, nodes, peers, token)
           wn == IF nodes \in {None, <<>>} THEN None
                 ELSE [i \in DOMAIN nodes |-> WireNode(nodes[i])]
           wp == IF peers \in {None, <<>>} THEN None
                 ELSE [i \in DOMAIN peers |-> WirePeer(peers[i])]
           rn == IF wn = None THEN None ELSE [i \in DOMAIN wn |-> UnwireNode(wn[i])]
           rp == IF wp \in {None, <<>>} THEN None ELSE [i \in DOMAIN wp |-> UnwirePeer(wp[i])]
<1>0. \A p \in Ports : p = <<p[1], p[2]>> /\ Swap(p) = <<p[2], p[1]>> /\ Swap(p) \in Ports
                     /\ Swap(Swap(p)) = p
  BY DEF Ports, Swap
<1>1. rn = IF nodes = <<>> THEN None ELSE nodes
  <2>1. CASE nodes \in {None, <<>>}
    BY <2>1
  <2>2. CASE nodes \notin {None, <<>>}
    <3>1. nodes \in Seq(Contacts) /\ \A i \in DOMAIN nodes : nodes[i] \in Contacts
      BY <2>2
    <3> DEFINE w == [i \in DOMAIN nodes |-> WireNode(nodes[i])]
               W == [id : NodeID, ip : Ips, bytes : Ports]
    <3>2. \A c \in Contacts : WireNode(c) \in W /\ UnwireNode(WireNode(c)) = c
      <4> SUFFICES ASSUME NEW c \in Contacts PROVE WireNode(c) \in W /\ UnwireNode(WireNode(c)) = c
        OBVIOUS
      <4>1. c.id \in NodeID /\ c.ep.ip \in Ips /\ c.ep.port \in Ports
            /\ c = [id |-> c.id, ep |-> [ip |-> c.ep.ip, port |-> c.ep.port]]
        <5>1. c.ep \in [ip : Ips, port : Ports] /\ c = [id |-> c.id, ep |-> c.ep] /\ c.id \in NodeID
          BY ServiceAssumption DEF Contacts
        <5>2. c.ep = [ip |-> c.ep.ip, port |-> c.ep.port]
          BY <5>1
        <5> QED BY <5>1, <5>2
      <4>2. Swap(c.ep.port) \in Ports /\ Swap(Swap(c.ep.port)) = c.ep.port
        BY <1>0, <4>1
      <4>3. WireNode(c) = [id |-> c.id, ip |-> c.ep.ip, bytes |-> Swap(c.ep.port)]
        BY DEF WireNode
      <4>4. UnwireNode(WireNode(c)) = [id |-> c.id, ep |-> [ip |-> c.ep.ip, port |-> Swap(Swap(c.ep.port))]]
        BY <4>3 DEF UnwireNode
      <4> HIDE DEF Swap
      <4> QED BY <4>1, <4>2, <4>3, <4>4
    <3>3. w \in [DOMAIN nodes -> W]
      BY <3>1, <3>2
    <3>4. w = wn \/ nodes \in {None, <<>>}
      OBVIOUS
    <3>5. DOMAIN w = DOMAIN nodes /\ \A i \in DOMAIN nodes : UnwireNode(w[i]) = nodes[i]
      BY <3>1, <3>2
    <3> HIDE DEF w, wn
    <3>6. w \in Seq(W)
      BY <3>1, <3>3, RowIsSeq
    <3>7. w # None
      BY <3>6, ServiceAssumption
    <3>8. [i \in DOMAIN w |-> UnwireNode(w[i])] = nodes
      BY <3>1, <3>5
    <3> QED BY <2>2, <3>4, <3>7, <3>8
  <2> QED BY <2>1, <2>2
<1>2. rp = peers
  <2>1. CASE peers = None
    BY <2>1
  <2>2. CASE peers # None
    <3>1. peers \in Seq(Address) /\ \A i \in DOMAIN peers : peers[i] \in Address
      BY <2>2
    <3> DEFINE w == [i \in DOMAIN peers |-> WirePeer(peers[i])]
               W == [ip : Ips, bytes : Ports]
    <3>2. \A a \in Address : WirePeer(a) \in W /\ UnwirePeer(WirePeer(a)) = a
      BY DEF Address, WirePeer, UnwirePeer
    <3>3. w \in [DOMAIN peers -> W]
      BY <3>1, <3>2
    <3>4. w = wp
      BY <2>2
    <3>5. DOMAIN w = DOMAIN peers /\ \A i \in DOMAIN peers : UnwirePeer(w[i]) = peers[i]
      BY <3>1, <3>2
    <3> HIDE DEF w, wp
    <3>6. w \in Seq(W) /\ Len(w) = Len(peers)
      BY <3>1, <3>3, RowIsSeq
    <3>7. w # None /\ w # <<>>
      <4>1. Len(peers) # 0
        BY <3>1
      <4> QED BY <3>6, <4>1, ServiceAssumption
    <3>8. [i \in DOMAIN w |-> UnwirePeer(w[i])] = peers
      BY <3>1, <3>5
    <3> QED BY <3>4, <3>7, <3>8
  <2> QED BY <2>1, <2>2
<1>3. EncodeResponse(m).r = [id |-> o, nodes |-> wn, values |-> wp, token |-> token]
      /\ EncodeResponse(m).t = tid
  BY DEF EncodeResponse, Message
<1>4. DecodeResponse(EncodeResponse(m)) = Message(tid, IF o = None THEN ZeroID ELSE o, rn, rp, token)
  <2> HIDE DEF wn, wp, m
  <2> QED BY <1>3 DEF DecodeResponse, Message
<1>5. o # None
  BY ServiceAssumption
<1>6. [m EXCEPT !.nodes = IF @ = <<>> THEN None ELSE @]
        = Message(tid, o, IF nodes = <<>> THEN None ELSE nodes, peers, token)
  BY DEF Message
<1> HIDE DEF rn, rp, m
<1>7. DecodeResponse(EncodeResponse(m)) = [m EXCEPT !.nodes = IF @ = <<>> THEN None ELSE @]
  BY <1>1, <1>2, <1>4, <1>5, <1>6
<1> QED BY <1>7 DEF ReadsBack, m

LEMMA SentDecodes ==
    ASSUME NEW m, ReadsBack(m), Send(m)
    PROVE  AnswersDecodable'
<1>1. sent'.meant = m /\ sent'.dict = EncodeResponse(m)
  BY DEF Send
<1> QED BY <1>1 DEF AnswersDecodable, ReadsBack

LEMMA AnswersStep == HeldOK /\ StoreOK /\ AnswersDecodable /\ Next => AnswersDecodable'
<1> SUFFICES ASSUME HeldOK, StoreOK, AnswersDecodable, Next PROVE AnswersDecodable'
  OBVIOUS
<1>1. ASSUME sent' = None \/ sent' = sent PROVE AnswersDecodable'
  BY <1>1 DEF AnswersDecodable
<1>2. ASSUME NT_Answer PROVE AnswersDecodable'
  <2>0. own \in NodeID /\ None # <<>>
    <3>1. <<>> \in Seq([ip : Ips, bytes : Ports])
      OBVIOUS
    <3> QED BY <3>1, ServiceAssumption DEF HeldOK
  <2>1. ASSUME NEW tid, Send(response_ping(own, tid)) PROVE AnswersDecodable'
    <3>1. response_ping(own, tid) = Message(tid, own, None, None, None)
      BY DEF response_ping, Message
    <3> QED BY <2>0, <2>1, <3>1, Decodes, SentDecodes
  <2>2. CASE AnswerPing
    BY <2>1, <2>2 DEF AnswerPing
  <2>3. CASE AnswerFindNode
    <3>1. PICK nodes \in ClosestContacts(nt.query.target) :
            Send(response_find_node(own, nodes, nt.query.tid))
      BY <2>3 DEF AnswerFindNode
    <3>2. nodes \in Seq(Contacts)
      BY ListTyped DEF ClosestContacts, HeldOK
    <3>3. response_find_node(own, nodes, nt.query.tid) = Message(nt.query.tid, own, nodes, None, None)
      BY DEF response_find_node, response_ping, Message
    <3> QED BY <2>0, <3>1, <3>2, <3>3, Decodes, SentDecodes
  <2>4. CASE AnswerGetPeers
    <3>1. PICK tok \in generate_token(nt.from.ip) :
            IF store # <<>>
            THEN Send(response_get_peers_with_values(own,
                        [i \in DOMAIN store |-> store[i].ep], tok, nt.query.tid))
            ELSE \E nodes \in ClosestContacts(nt.query.info_hash) :
                   Send(response_get_peers_with_nodes(own, nodes, tok, nt.query.tid))
      BY <2>4 DEF AnswerGetPeers
    <3>2. CASE store # <<>>
      <4> DEFINE peers == [i \in DOMAIN store |-> store[i].ep]
      <4>1. store \in Seq(Stored)
        BY DEF StoreOK
      <4>2. peers \in [DOMAIN store -> Address]
        <5>1. \A i \in DOMAIN store : store[i] \in Stored
          BY <4>1
        <5>2. \A p \in Stored : p.ep \in Address
          BY DEF Stored
        <5> QED BY <5>1, <5>2
      <4>3. Send(response_get_peers_with_values(own, peers, tok, nt.query.tid))
        BY <3>1, <3>2
      <4> HIDE DEF peers
      <4>4. peers \in Seq(Address) /\ Len(peers) = Len(store)
        BY <4>1, <4>2, RowIsSeq
      <4>5. peers # <<>>
        BY <3>2, <4>1, <4>4
      <4>6. response_get_peers_with_values(own, peers, tok, nt.query.tid)
              = Message(nt.query.tid, own, None, peers, tok)
        BY DEF response_get_peers_with_values, Message
      <4> QED BY <2>0, <4>3, <4>4, <4>5, <4>6, Decodes, SentDecodes
    <3>3. CASE store = <<>>
      <4>1. PICK nodes \in ClosestContacts(nt.query.info_hash) :
              Send(response_get_peers_with_nodes(own, nodes, tok, nt.query.tid))
        BY <3>1, <3>3
      <4>2. nodes \in Seq(Contacts)
        BY ListTyped DEF ClosestContacts, HeldOK
      <4>3. response_get_peers_with_nodes(own, nodes, tok, nt.query.tid)
              = Message(nt.query.tid, own, nodes, None, tok)
        <5>1. response_find_node(own, nodes, nt.query.tid)
                = Message(nt.query.tid, own, nodes, None, None)
          BY DEF response_find_node, response_ping, Message
        <5>2. [Message(nt.query.tid, own, nodes, None, None) EXCEPT !.token = tok]
                = Message(nt.query.tid, own, nodes, None, tok)
          BY DEF Message
        <5> QED BY <5>1, <5>2 DEF response_get_peers_with_nodes
      <4> QED BY <2>0, <4>1, <4>2, <4>3, Decodes, SentDecodes
    <3> QED BY <3>2, <3>3
  <2>5. CASE AnswerAnnounce
    BY <1>1, <2>1, <2>5 DEF AnswerAnnounce
  <2>6. CASE NoAnswer
    BY <1>1, <2>6 DEF NoAnswer
  <2> QED BY <1>2, <2>2, <2>3, <2>4, <2>5, <2>6 DEF NT_Answer
<1>3. CASE Start
  BY <1>1, <1>3 DEF Start
<1>4. CASE Stop \/ Crash
  BY <1>1, <1>4 DEF Stop, Crash, Gone
<1>5. ASSUME NEW d, NEW ep, NT_Receive(d, ep) \/ NT_Refuse(ep) PROVE AnswersDecodable'
  BY <1>1, <1>5 DEF NT_Receive, NT_Refuse, vars
<1>6. ASSUME NEW i \in Ips, SecondPasses(i) PROVE AnswersDecodable'
  BY <1>1, <1>6 DEF SecondPasses
<1>7. CASE Minute \/ MT_Rotate \/ MT_Rotated \/ MT_Refresh
  BY <1>1, <1>7 DEF Minute, MT_Rotate, MT_Rotated, MT_Refresh
<1>8. CASE MT_Health \/ MT_Expire \/ MT_Save \/ MT_Saved
  BY <1>1, <1>8 DEF MT_Health, MT_Expire, MT_Save, MT_Saved
<1>9. ASSUME NEW id \in NodeID, MT_Drop(id) PROVE AnswersDecodable'
  BY <1>1, <1>9 DEF MT_Drop
<1> QED BY <1>2, <1>3, <1>4, <1>5, <1>6, <1>7, <1>8, <1>9 DEF Next

-----------------------------------------------------------------------------
(* The theorems *)

\* The invariant of DhtService: whatever other nodes send, whenever the process
\* stops or crashes, and however the two threads interleave.
THEOREM Invariance == Spec => []IInv
<1>1. Init => IInv
  BY InitIInv
<1>2. IInv /\ [Next]_vars => IInv'
  <2> SUFFICES ASSUME IInv, [Next]_vars PROVE IInv'
    OBVIOUS
  <2>1. CASE Next
    <3>1. HeldOK' /\ SecretOK' /\ AgesOK' /\ AnswersDecodable'
      BY <2>1, HeldStep, SecretStep, AgesStep, AnswersStep DEF IInv
    <3>2. StoreOK'
      BY StoreStep DEF IInv
    <3> QED BY <3>1, <3>2 DEF IInv
  <2>2. CASE UNCHANGED vars
    BY <2>2 DEF vars, IInv, HeldOK, SecretOK, AgesOK, StoreOK, AnswersDecodable
  <2> QED BY <2>1, <2>2
<1> QED BY <1>1, <1>2, PTL DEF Spec

\* The routing table is always one of Kademlia's: RoutingTable::add_node,
\* remove_node, the marks, the ageing and deserialize of a file that was saved
\* under another id or cut short keep every node once, in its bucket.
THEOREM TableIsSound == Spec => []TableSound
<1>1. IInv => TableSound
  BY DEF IInv, HeldOK, TableSound, SoundTables
<1> QED BY <1>1, Invariance, PTL

\* Except while rotate_secrets overwrites the secrets, validate_token accepts a
\* token for one rotation period, and it never accepts one after two, for every
\* period and whenever generate_token was called.
THEOREM TokensAreTimely == Spec => []TokensTimely
<1>1. IInv => TokensTimely
  <2> SUFFICES ASSUME IInv, given # None, given.gen # Torn
               PROVE  /\ given.age < RotateAfter /\ mt.pc # "rotating" =>
                           validate_token(given, given.ip) = {TRUE}
                      /\ given.age > 2 * RotateAfter =>
                           TRUE \notin validate_token(given, given.ip)
    BY DEF TokensTimely
  <2>1. RotateAfter \in Nat /\ since \in 0 .. RotateAfter
    BY ServiceAssumption DEF IInv, SecretOK
  <2>2. given.gen \in 0 .. 3 /\ given.age \in 0 .. 2 * RotateAfter + 1
    <3>1. given.gen \in 0 .. 4 /\ given.age \in 0 .. 2 * RotateAfter + 1
      BY DEF IInv, AgesOK, Tokens, Torn
    <3> QED BY <3>1 DEF Torn
  <2>3. ASSUME given.age < RotateAfter, mt.pc # "rotating"
        PROVE  validate_token(given, given.ip) = {TRUE}
    <3>1. given.gen \in {2, 3} => RotateAfter <= given.age
      BY DEF IInv, AgesOK, Forgotten
    <3>2. given.gen <= 1 /\ given.gen # Forgotten
      BY <2>1, <2>2, <2>3, <3>1 DEF Forgotten
    <3> QED BY <2>3, <3>2 DEF validate_token
  <2>4. ASSUME given.age > 2 * RotateAfter
        PROVE  TRUE \notin validate_token(given, given.ip)
    <3>1. /\ given.gen = 0 => given.age <= since
          /\ given.gen = 1 => given.age <= RotateAfter \/ given.age <= RotateAfter + since
          /\ given.gen = 2 /\ mt.pc = "rotating" => given.age <= 2 * RotateAfter
      BY DEF IInv, AgesOK
    <3>2. given.gen = Forgotten \/ (mt.pc # "rotating" /\ ~(given.gen <= 1))
      BY <2>1, <2>2, <2>4, <3>1 DEF Forgotten
    <3> QED BY <3>2 DEF validate_token
  <2> QED BY <2>3, <2>4
<1> QED BY <1>1, Invariance, PTL

\* What ResponseMessage::encode writes, ResponseMessage::decode reads back, for
\* every id, every list of nodes and peers, every port and every token; which
\* decoder run() gives it to is not part of it.
THEOREM AnswersAreDecodable == Spec => []AnswersDecodable
<1>1. IInv => AnswersDecodable
  BY DEF IInv
<1> QED BY <1>1, Invariance, PTL

\* As long as the process runs, store_peer and expire_peers give a peer up only when
\* its time is over or when a full list makes room for a peer it did not have.
THEOREM PeersAreKept == Spec => StoreKeeps
<1> DEFINE Keeps == running /\ running' =>
             /\ \A i, j \in DOMAIN store' : store'[i].ep = store'[j].ep => i = j
             /\ Len(store') <= MaxPeers
             /\ \A i \in DOMAIN store :
                  \/ \E j \in DOMAIN store' : store'[j].ep = store[i].ep
                  \/ store[i].age > ExpireAfter
                  \/ Len(store) = MaxPeers /\ \E j \in DOMAIN store' :
                       \A k \in DOMAIN store : store[k].ep # store'[j].ep
<1>1. IInv /\ [Next]_vars => [Keeps]_vars
  <2> SUFFICES ASSUME IInv, [Next]_vars, running, running' PROVE Keeps
    OBVIOUS
  <2>1. StoreOK' /\ KeepsPeers(store, store')
    BY StoreStep DEF IInv
  <2> QED BY <2>1 DEF StoreOK, KeepsPeers
<1>2. StoreKeeps <=> [][Keeps]_vars
  BY DEF StoreKeeps
<1> HIDE DEF Keeps
<1>3. Spec => [][Keeps]_vars
  BY <1>1, Invariance, PTL DEF Spec
<1> QED BY <1>2, <1>3, PTL

\* add_node, the pings, the ageing and check_node_health lose no node heard of
\* lately, except one that was bad in the copy check_node_health works from.
THEOREM GoodNodesAreKept == Spec => GoodNodesKept
<1> DEFINE Keeps == running /\ running' =>
             \A n \in get_good_nodes(table) :
               \/ \E m \in get_all_nodes(table') : m.id = n.id
               \/ n.id \in mt.bad
<1>1. IInv /\ [Next]_vars => [Keeps]_vars
  <2> SUFFICES ASSUME IInv, [Next]_vars, running, running',
                      NEW n \in get_good_nodes(table), n.id \notin mt.bad
               PROVE  \E m \in get_all_nodes(table') : m.id = n.id
    OBVIOUS
  <2>0. n \in get_all_nodes(table) /\ table \in SoundTables /\ HeldOK
    BY DEF get_good_nodes, IInv, HeldOK
  <2>1. ASSUME table' = table PROVE \E m \in get_all_nodes(table') : m.id = n.id
    BY <2>0, <2>1
  <2>2. ASSUME Gone \/ Start PROVE FALSE
    BY <2>2 DEF Gone, Start
  <2>3. ASSUME NEW c \in load.senders, NEW kind \in load.types, NEW d \in Datagrams(kind, c),
               NT_Receive(d, c.ep)
        PROVE  \E m \in get_all_nodes(table') : m.id = n.id
    <3> DEFINE q == DecodeQuery(d)
               new == [id |-> q.id, ep |-> c.ep]
    <3>1. c \in Contacts /\ kind \in QueryType \union {"answer"}
      BY <2>0, ServiceAssumption DEF HeldOK
    <3>2. q.id \in NodeID
      BY <2>3, <3>1, DatagramTyped DEF NT_Receive
    <3>3. table' = add_node(table, Heard(new))
      BY <2>3 DEF NT_Receive
    <3> HIDE DEF q
    <3>4. Heard(new) \in Node
      BY <3>1, <3>2, HeardTyped DEF Contacts
    <3> HIDE DEF new
    <3> QED BY <2>0, <3>3, <3>4, AddSound
  <2>4. CASE Minute
    BY <2>0, <2>4, OlderSound DEF Minute, Renews
  <2>5. CASE MT_Refresh
    BY <2>0, <2>5, MarkSound DEF MT_Refresh, Ping, Renews
  <2>6. ASSUME NEW id \in NodeID, MT_Drop(id)
        PROVE  \E m \in get_all_nodes(table') : m.id = n.id
    <3>1. n.id # id /\ table' = remove_node(table, id)
      BY <2>6 DEF MT_Drop
    <3> QED BY <2>0, <3>1, RemoveSound
  <2>7. CASE Start \/ Stop \/ Crash
    BY <2>2, <2>7 DEF Stop, Crash
  <2>8. CASE UNCHANGED vars \/ (\E c \in load.senders : NT_Refuse(c.ep)) \/ NT_Answer
    BY <2>1, <2>8 DEF NT_Refuse, NT_Answer, vars
  <2>9. CASE MT_Rotate \/ MT_Rotated \/ MT_Health \/ MT_Expire \/ MT_Save \/ MT_Saved
    BY <2>1, <2>9 DEF MT_Rotate, MT_Rotated, MT_Health, MT_Expire, MT_Save, MT_Saved
  <2>10. CASE \E i \in Ips : SecondPasses(i)
    BY <2>1, <2>10 DEF SecondPasses
  <2> QED BY <2>3, <2>4, <2>5, <2>6, <2>7, <2>8, <2>9, <2>10 DEF Next
<1>2. GoodNodesKept <=> [][Keeps]_vars
  BY DEF GoodNodesKept
<1> HIDE DEF Keeps
<1>3. Spec => [][Keeps]_vars
  BY <1>1, Invariance, PTL DEF Spec
<1> QED BY <1>2, <1>3, PTL
=============================================================================
