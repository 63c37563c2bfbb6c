--------------------------- MODULE DhtLookupProofs ---------------------------
(***************************************************************************)
(* Proofs about one lookup of the DHT: its count of open queries, how it   *)
(* ends, when it stalls, and which tokens it announces with.  They rest on *)
(* the order of the XOR metric, which lets a bounded number of contacts be *)
(* the closest ones, and on an inductive invariant that says who has been  *)
(* asked and what became of the query.                                     *)
(***************************************************************************)
EXTENDS DhtLookup, TLAPS, WellFoundedInduction, FiniteSetTheorems

-----------------------------------------------------------------------------
(* The order of the XOR metric *)

\* A set of natural numbers has a least one.
LEMMA Least ==
    ASSUME NEW S \in SUBSET Nat, S # {}
    PROVE  \E m \in S : \A k \in S : m <= k
<1> DEFINE R == OpToRel(<, Nat)
<1>1. IsWellFoundedOn(R, Nat)
  BY NatLessThanWellFounded
<1>2. R = {p \in Nat \X Nat : p[1] < p[2]}
  BY DEF OpToRel
<1> HIDE DEF R
<1>3. PICK m \in S : \A k \in S : ~ (<<k, m>> \in R)
  BY <1>1, WFMin
<1>4. ASSUME NEW k \in S, ~(m <= k) PROVE FALSE
  <2>1. k \in Nat /\ m \in Nat /\ k < m
    BY <1>4
  <2>2. <<k, m>> \in R
    BY <2>1, <1>2
  <2> QED BY <1>3, <2>2
<1> QED BY <1>4

LEMMA DistanceTyped == \A a, b \in NodeID : distance(a, b) \in NodeID
<1> SUFFICES ASSUME NEW a \in NodeID, NEW b \in NodeID, NEW i \in 1 .. IdBits
             PROVE (a[i] + b[i]) % 2 \in {0, 1}
  BY DEF distance, NodeID
<1>1. a[i] \in {0, 1} /\ b[i] \in {0, 1}
  BY DEF NodeID
<1> QED BY <1>1

\* Different ids have different distances from any id.
LEMMA DistanceInjective ==
    ASSUME NEW a \in NodeID, NEW b \in NodeID, NEW t \in NodeID, distance(a, t) = distance(b, t)
    PROVE  a = b
<1>0. a = [i \in 1 .. IdBits |-> a[i]] /\ b = [i \in 1 .. IdBits |-> b[i]]
  BY DEF NodeID
<1> SUFFICES ASSUME NEW i \in 1 .. IdBits PROVE a[i] = b[i]
  <2>1. (\A i \in 1 .. IdBits : a[i] = b[i]) => [i \in 1 .. IdBits |-> a[i]] = [i \in 1 .. IdBits |-> b[i]]
    OBVIOUS
  <2> QED BY <1>0, <2>1
<1>1. a[i] \in {0, 1} /\ b[i] \in {0, 1} /\ t[i] \in {0, 1}
  BY DEF NodeID
<1>2. (a[i] + t[i]) % 2 = (b[i] + t[i]) % 2
  <2>1. distance(a, t)[i] = distance(b, t)[i]
    OBVIOUS
  <2> QED BY <2>1 DEF distance
<1> QED BY <1>1, <1>2

LEMMA LessTransitive ==
    ASSUME NEW a \in NodeID, NEW b \in NodeID, NEW c \in NodeID, Less(a, b), Less(b, c)
    PROVE  Less(a, c)
<1>0. IdBits \in Nat /\ \A i \in 1 .. IdBits : a[i] \in {0, 1} /\ b[i] \in {0, 1} /\ c[i] \in {0, 1}
  BY TableAssumption DEF NodeID
<1>1. PICK i \in 1 .. IdBits : a[i] < b[i] /\ \A j \in 1 .. i - 1 : a[j] = b[j]
  BY DEF Less
<1>2. PICK k \in 1 .. IdBits : b[k] < c[k] /\ \A j \in 1 .. k - 1 : b[j] = c[j]
  BY DEF Less
<1>3. CASE i < k
  BY <1>0, <1>1, <1>2, <1>3 DEF Less
<1>4. CASE i = k
  BY <1>0, <1>1, <1>2, <1>4 DEF Less
<1>5. CASE k < i
  BY <1>0, <1>1, <1>2, <1>5 DEF Less
<1> QED BY <1>3, <1>4, <1>5

LEMMA LessTotal ==
    ASSUME NEW a \in NodeID, NEW b \in NodeID, a # b
    PROVE  Less(a, b) \/ Less(b, a)
<1>0. IdBits \in Nat /\ \A i \in 1 .. IdBits : a[i] \in {0, 1} /\ b[i] \in {0, 1}
  BY TableAssumption DEF NodeID
<1> DEFINE S == {i \in 1 .. IdBits : a[i] # b[i]}
<1>1. S # {}
  <2>1. a = [i \in 1 .. IdBits |-> a[i]] /\ b = [i \in 1 .. IdBits |-> b[i]]
    BY DEF NodeID
  <2>2. (\A i \in 1 .. IdBits : a[i] = b[i]) => [i \in 1 .. IdBits |-> a[i]] = [i \in 1 .. IdBits |-> b[i]]
    OBVIOUS
  <2> QED BY <2>1, <2>2
<1>2. PICK m \in S : \A k \in S : m <= k
  <2>1. S \in SUBSET Nat
    BY <1>0
  <2> HIDE DEF S
  <2> QED BY <1>1, <2>1, Least
<1>3. \A j \in 1 .. m - 1 : a[j] = b[j]
  BY <1>0, <1>2
<1>4. m \in 1 .. IdBits /\ (a[m] < b[m] \/ b[m] < a[m])
  BY <1>0, <1>2
<1> QED BY <1>3, <1>4 DEF Less

LEMMA LessIrreflexive == \A a \in NodeID : ~Less(a, a)
<1> SUFFICES ASSUME NEW a \in NodeID, NEW i \in 1 .. IdBits, a[i] < a[i] PROVE FALSE
  BY DEF Less
<1>1. a[i] \in {0, 1}
  BY DEF NodeID
<1> QED BY <1>1

\* Closer orders contacts with different ids.
LEMMA CloserOrders ==
    /\ \A a \in Contacts : ~Closer(Target, a, a)
    /\ \A a, b, c \in Contacts : Closer(Target, a, b) /\ Closer(Target, b, c) => Closer(Target, a, c)
    /\ \A a, b \in Contacts : a.id # b.id => Closer(Target, a, b) \/ Closer(Target, b, a)
<1>1. \A c \in Contacts : c.id \in NodeID /\ distance(c.id, Target) \in NodeID
  BY DistanceTyped, LookupAssumption DEF Contacts
<1>2. \A a, b \in Contacts : a.id # b.id => distance(a.id, Target) # distance(b.id, Target)
  BY <1>1, DistanceInjective, LookupAssumption
<1>3. \A a \in Contacts : ~Closer(Target, a, a)
  BY <1>1, LessIrreflexive DEF Closer
<1>4. ASSUME NEW a \in Contacts, NEW b \in Contacts, NEW c \in Contacts,
             Closer(Target, a, b), Closer(Target, b, c)
      PROVE  Closer(Target, a, c)
  BY <1>1, <1>4, LessTransitive DEF Closer
<1>5. ASSUME NEW a \in Contacts, NEW b \in Contacts, a.id # b.id
      PROVE  Closer(Target, a, b) \/ Closer(Target, b, a)
  BY <1>1, <1>2, <1>5, LessTotal DEF Closer
<1> QED BY <1>3, <1>4, <1>5

-----------------------------------------------------------------------------
(* Shortlists and what is chosen from them *)

\* Finitely many contacts with different ids.
Shortlist(list) ==
    /\ list \subseteq Contacts
    /\ IsFiniteSet(list)
    /\ \A c, d \in list : c.id = d.id => c = d


LEMMA SubShortlist ==
    ASSUME NEW list, Shortlist(list), NEW S \in SUBSET list
    PROVE  Shortlist(S)
BY FS_Subset DEF Shortlist

\* No two contacts have the same rank, and the rank of the closest is 0.
LEMMA Ranks ==
    ASSUME NEW list, Shortlist(list)
    PROVE  /\ \A c \in list : Rank(list, c) \in Nat
           /\ \A c, d \in list : Rank(list, c) = Rank(list, d) => c = d
           /\ list # {} => \E c \in list : Rank(list, c) = 0 /\ \A o \in list : ~Closer(Target, o, c)
<1> DEFINE Before(c) == {o \in list : Closer(Target, o, c)}
<1>0. list \subseteq Contacts /\ IsFiniteSet(list) /\ \A c, d \in list : c.id = d.id => c = d
  BY DEF Shortlist
<1>1. \A c \in list : IsFiniteSet(Before(c)) /\ Cardinality(Before(c)) \in Nat
  <2> SUFFICES ASSUME NEW c \in list PROVE IsFiniteSet(Before(c)) /\ Cardinality(Before(c)) \in Nat
    OBVIOUS
  <2>1. Before(c) \in SUBSET list
    OBVIOUS
  <2> HIDE DEF Before
  <2> QED BY <1>0, <2>1, FS_Subset, FS_CardinalityType
<1>2. ASSUME NEW c \in list, NEW d \in list, Closer(Target, c, d)
      PROVE  Cardinality(Before(c)) < Cardinality(Before(d))
  <2>1. Before(c) \in SUBSET Before(d)
    BY <1>0, <1>2, CloserOrders
  <2>2. c \in Before(d) /\ c \notin Before(c)
    BY <1>0, <1>2, CloserOrders
  <2> HIDE DEF Before
  <2>3. Cardinality(Before(c)) <= Cardinality(Before(d)) /\ Cardinality(Before(c)) # Cardinality(Before(d))
    BY <1>1, <2>1, <2>2, FS_Subset
  <2> QED BY <1>1, <2>3
<1>3. \A c \in list : Rank(list, c) = Cardinality(Before(c))
  BY DEF Rank
<1> HIDE DEF Before
<1>4. \A c, d \in list : Rank(list, c) = Rank(list, d) => c = d
  <2> SUFFICES ASSUME NEW c \in list, NEW d \in list, c # d PROVE Rank(list, c) # Rank(list, d)
    OBVIOUS
  <2>1. Closer(Target, c, d) \/ Closer(Target, d, c)
    BY <1>0, CloserOrders
  <2> QED BY <1>1, <1>2, <1>3, <2>1
<1>5. ASSUME list # {}
      PROVE  \E c \in list : Rank(list, c) = 0 /\ \A o \in list : ~Closer(Target, o, c)
  <2> DEFINE S == {Rank(list, c) : c \in list}
  <2>1. S \in SUBSET Nat /\ S # {}
    BY <1>1, <1>3, <1>5
  <2>2. PICK m \in S : \A k \in S : m <= k
    <3> HIDE DEF S
    <3> QED BY <2>1, Least
  <2>3. PICK c \in list : Rank(list, c) = m
    BY <2>2
  <2>4. \A o \in list : ~Closer(Target, o, c)
    <3> SUFFICES ASSUME NEW o \in list, Closer(Target, o, c) PROVE FALSE
      OBVIOUS
    <3>1. Rank(list, o) < Rank(list, c) /\ Rank(list, o) \in S
      BY <1>2, <1>3
    <3>2. m <= Rank(list, o) /\ Rank(list, o) \in Nat /\ m \in Nat
      BY <2>1, <2>2, <3>1
    <3> HIDE DEF S
    <3> QED BY <2>3, <3>1, <3>2
  <2>5. Before(c) = {}
    BY <2>4 DEF Before
  <2> QED BY <1>3, <2>4, <2>5, FS_EmptySet
<1> QED BY <1>1, <1>3, <1>4, <1>5

\* At most n contacts have a rank below n.
LEMMA FewAreClose ==
    ASSUME NEW list, Shortlist(list), NEW n \in Nat
    PROVE  /\ Cardinality({c \in list : Rank(list, c) < n}) \in Nat
           /\ Cardinality({c \in list : Rank(list, c) < n}) <= n
<1> DEFINE S == {c \in list : Rank(list, c) < n}
           f == [c \in S |-> Rank(list, c)]
<1>0. S \in SUBSET list /\ \A c \in S : Rank(list, c) < n
  OBVIOUS
<1> HIDE DEF S
<1>1. f \in Injection(S, 0 .. n - 1)
  <2>1. \A c \in S : Rank(list, c) \in 0 .. n - 1
    BY <1>0, Ranks
  <2>2. \A c, d \in S : Rank(list, c) = Rank(list, d) => c = d
    BY <1>0, Ranks
  <2>3. f \in [S -> 0 .. n - 1]
    BY <2>1
  <2>4. \A c, d \in S : f[c] = f[d] => c = d
    BY <2>2
  <2> HIDE DEF f
  <2> QED BY <2>3, <2>4 DEF Injection, IsInjective
<1> HIDE DEF f
<1>2. IsFiniteSet(0 .. n - 1) /\ Cardinality(0 .. n - 1) = n
  BY FS_Interval
<1>3. IsFiniteSet(S) /\ Cardinality(S) <= n
  BY <1>1, <1>2, FS_Injection
<1>4. Cardinality(S) \in Nat
  BY <1>3, FS_CardinalityType
<1> QED BY <1>3, <1>4 DEF S

EpsOf(s) == {s[i].ep : i \in DOMAIN s}
Distinct(s) == \A i, j \in DOMAIN s : s[i].ep = s[j].ep => i = j


\* What may be chosen: no more than there is room for, nobody twice, nobody who
\* was asked; when nothing is chosen or open, everybody was asked.
Chosen(todo, list, keys, flight) ==
    /\ todo \in Seq(Contacts)
    /\ flight + Len(todo) <= ALPHA
    /\ Distinct(todo)
    /\ EpsOf(todo) \subseteq {c.ep : c \in list}
    /\ EpsOf(todo) \intersect keys = {}
    /\ flight + Len(todo) = 0 => {c.ep : c \in list} \subseteq keys

LEMMA ToQueryChooses ==
    ASSUME NEW list, Shortlist(list), NEW keys, NEW flight \in Nat, flight <= ALPHA,
           NEW todo \in ToQuery(list, keys, flight)
    PROVE  Chosen(todo, list, keys, flight)
<1> DEFINE fresh == Fresh(list, keys)
           S == {c \in fresh : Rank(fresh, c) < ALPHA - flight}
<1>0. ALPHA \in Nat /\ ALPHA > 0 /\ ALPHA - flight \in Nat
  BY LookupAssumption
<1>1. /\ fresh \in SUBSET list
      /\ \A c \in fresh : c.ep \notin keys /\ \A o \in list : o.ep = c.ep => ~Closer(Target, o, c)
  BY DEF Fresh
<1>2. \A c, d \in fresh : c.ep = d.ep => c = d
  <2> SUFFICES ASSUME NEW c \in fresh, NEW d \in fresh, c.ep = d.ep, c # d PROVE FALSE
    OBVIOUS
  <2>1. c \in list /\ d \in list /\ ~Closer(Target, c, d) /\ ~Closer(Target, d, c)
    BY <1>1
  <2>2. c \in Contacts /\ d \in Contacts /\ c.id # d.id
    BY <2>1 DEF Shortlist
  <2> QED BY <2>1, <2>2, CloserOrders
<1>3. ASSUME fresh = {} PROVE {c.ep : c \in list} \subseteq keys
  <2> SUFFICES ASSUME NEW c \in list, c.ep \notin keys PROVE FALSE
    OBVIOUS
  <2> DEFINE same == {o \in list : o.ep = c.ep}
  <2>1. same \in SUBSET list /\ same # {}
    OBVIOUS
  <2>2. \A o \in same : o \in list /\ o.ep = c.ep
    OBVIOUS
  <2>3. \A o \in list : o.ep = c.ep => o \in same
    OBVIOUS
  <2> HIDE DEF same
  <2>4. PICK d \in same : \A o \in same : ~Closer(Target, o, d)
    BY <2>1, SubShortlist, Ranks
  <2>5. d \in fresh
    BY <2>2, <2>3, <2>4 DEF Fresh
  <2> QED BY <1>3, <2>5
<1>4. todo \in Sorted(S, Target)
  BY DEF ToQuery
<1> HIDE DEF fresh
<1>5. Shortlist(fresh)
  BY <1>1, SubShortlist
<1>6. Cardinality(S) \in Nat /\ Cardinality(S) <= ALPHA - flight
  BY <1>0, <1>5, FewAreClose
<1>7. S \subseteq fresh /\ S \subseteq Contacts
  BY <1>5 DEF Shortlist
<1>8. S = {} => fresh = {} \/ flight = ALPHA
  <2> SUFFICES ASSUME fresh # {}, flight # ALPHA PROVE S # {}
    OBVIOUS
  <2>1. PICK c \in fresh : Rank(fresh, c) = 0
    BY <1>5, Ranks
  <2>2. 0 < ALPHA - flight
    BY <1>0
  <2> QED BY <2>1, <2>2
<1>9. IsFiniteSet(S)
  <2>1. S \in SUBSET fresh
    OBVIOUS
  <2> HIDE DEF S
  <2> QED BY <1>5, <2>1, FS_Subset DEF Shortlist
<1> HIDE DEF S
<1> DEFINE n == Cardinality(S)
<1>10. /\ todo \in [1 .. n -> S]
       /\ \A i, j \in 1 .. n : i < j => Closer(Target, todo[i], todo[j])
  BY <1>4 DEF Sorted
<1>11. todo \in Seq(Contacts) /\ Len(todo) = n /\ DOMAIN todo = 1 .. n
  BY <1>6, <1>7, <1>10
<1>12. \A i, j \in 1 .. n : todo[i].ep = todo[j].ep => i = j
  <2> SUFFICES ASSUME NEW i \in 1 .. n, NEW j \in 1 .. n, todo[i].ep = todo[j].ep, i < j PROVE FALSE
    BY <1>6
  <2>1. todo[i] \in fresh /\ todo[j] \in fresh /\ todo[i] \in Contacts
    BY <1>7, <1>10
  <2>2. todo[i] = todo[j]
    BY <1>2, <2>1
  <2> QED BY <1>10, <2>1, <2>2, CloserOrders
<1>13. EpsOf(todo) \subseteq {c.ep : c \in fresh}
  BY <1>7, <1>10, <1>11 DEF EpsOf
<1>14. flight + n = 0 => {c.ep : c \in list} \subseteq keys
  <2> SUFFICES ASSUME flight + n = 0 PROVE {c.ep : c \in list} \subseteq keys
    OBVIOUS
  <2>1. flight = 0 /\ n = 0
    BY <1>6
  <2>2. S = {}
    BY <1>9, <2>1, FS_EmptySet
  <2>3. fresh = {}
    BY <1>0, <1>8, <2>1, <2>2
  <2> QED BY <1>3, <2>3
<1>15. flight + n <= ALPHA
  BY <1>0, <1>6
<1> HIDE DEF n
<1> QED BY <1>1, <1>11, <1>12, <1>13, <1>14, <1>15 DEF Chosen, Distinct

\* The shortlist of a new lookup.
LEMMA StartList ==
    ASSUME NEW t \in Known
    PROVE  Shortlist({Contact(n) : n \in find_closest_nodes(t, Target, LOOKUP_K)})
<1> DEFINE S == find_closest_nodes(t, Target, LOOKUP_K)
           C == {Contact(n) : n \in S}
<1>0. t \in RoutingTables /\ Sound(t) /\ \A i \in Buckets : t.buckets[i] \in Seq(Node)
  BY LookupAssumption DEF RoutingTables
<1>1. S \subseteq get_all_nodes(t)
  BY DEF find_closest_nodes, get_good_nodes
<1> HIDE DEF S
<1>2. \A n \in get_all_nodes(t) : \E i \in Buckets : \E j \in DOMAIN t.buckets[i] : n = t.buckets[i][j]
  BY DEF get_all_nodes, ToSet
<1>3. get_all_nodes(t) \subseteq Node
  BY <1>0, <1>2
<1>4. \A n, m \in get_all_nodes(t) : n.id = m.id => n = m
  <2> SUFFICES ASSUME NEW n \in get_all_nodes(t), NEW m \in get_all_nodes(t), n.id = m.id PROVE n = m
    OBVIOUS
  <2>1. PICK i \in Buckets : \E j \in DOMAIN t.buckets[i] : n = t.buckets[i][j]
    BY <1>2
  <2>2. PICK k \in Buckets : \E j \in DOMAIN t.buckets[k] : m = t.buckets[k][j]
    BY <1>2
  <2>3. \A h \in Buckets : \A j \in DOMAIN t.buckets[h] :
          /\ get_bucket_index(t, t.buckets[h][j].id) = h
          /\ \A l \in DOMAIN t.buckets[h] : t.buckets[h][l].id = t.buckets[h][j].id => l = j
    BY <1>0 DEF Sound
  <2>4. i = k
    BY <2>1, <2>2, <2>3
  <2> QED BY <2>1, <2>2, <2>3, <2>4
<1>5. IsFiniteSet(get_all_nodes(t))
  <2> DEFINE All == {ToSet(t.buckets[i]) : i \in Buckets}
             f == [i \in Buckets |-> ToSet(t.buckets[i])]
  <2>1. ASSUME NEW b \in Seq(Node) PROVE IsFiniteSet(ToSet(b))
    <3>1. IsFiniteSet(DOMAIN b)
      BY FS_Interval
    <3> DEFINE g == [j \in DOMAIN b |-> b[j]]
    <3>2. g \in Surjection(DOMAIN b, ToSet(b))
      BY DEF Surjection, ToSet
    <3> HIDE DEF g
    <3> QED BY <3>1, <3>2, FS_Surjection
  <2>2. IsFiniteSet(Buckets)
    BY TableAssumption, FS_Interval DEF Buckets
  <2>3. f \in Surjection(Buckets, All)
    BY DEF Surjection
  <2>4. \A T \in All : IsFiniteSet(T)
    BY <1>0, <2>1
  <2>5. UNION All = get_all_nodes(t)
    BY DEF get_all_nodes
  <2> HIDE DEF f, All
  <2>6. IsFiniteSet(All)
    BY <2>2, <2>3, FS_Surjection
  <2> QED BY <2>4, <2>5, <2>6, FS_UNION
<1>6. IsFiniteSet(S)
  BY <1>1, <1>5, FS_Subset
<1>7. IsFiniteSet(C)
  <2> DEFINE f == [m \in S |-> Contact(m)]
  <2>1. f \in Surjection(S, C)
    BY DEF Surjection
  <2> HIDE DEF f, C
  <2> QED BY <1>6, <2>1, FS_Surjection
<1>8. C \subseteq Contacts
  BY <1>1, <1>3 DEF Contact, Contacts, Node
<1>9. \A c, d \in C : c.id = d.id => c = d
  <2>1. \A n \in Node : Contact(n).id = n.id
    BY DEF Contact
  <2> QED BY <1>1, <1>3, <1>4, <2>1
<1> QED BY <1>7, <1>8, <1>9 DEF Shortlist, S

\* The shortlist after an answer: sort and unique leave one contact of an id.
LEMMA ContinuedList ==
    ASSUME NEW list, Shortlist(list), NEW nodes \in Seq(Contacts) \union {None},
           NEW some \in Deduplicated(Discovered(list, nodes))
    PROVE  Shortlist(Capped(some))
<1> DEFINE all == Discovered(list, nodes)
<1>0. list \subseteq Contacts /\ IsFiniteSet(list)
  BY DEF Shortlist
<1>1. all \subseteq Contacts /\ IsFiniteSet(all)
  <2>1. CASE nodes = None
    BY <1>0, <2>1 DEF Discovered
  <2>2. CASE nodes # None
    <3> DEFINE New == {j \in DOMAIN nodes :
                         /\ \A o \in list : o.ep # nodes[j].ep
                         /\ \A k \in 1 .. j - 1 : nodes[k].ep # nodes[j].ep}
               f == [j \in New |-> nodes[j]]
               added == {nodes[j] : j \in New}
    <3>1. nodes \in Seq(Contacts) /\ New \in SUBSET DOMAIN nodes
      BY <2>2
    <3>2. all = list \union added
      BY <2>2 DEF Discovered
    <3> HIDE DEF New
    <3>3. IsFiniteSet(DOMAIN nodes)
      BY <3>1, FS_Interval
    <3>4. IsFiniteSet(New)
      BY <3>1, <3>3, FS_Subset
    <3>5. f \in Surjection(New, added)
      BY DEF Surjection
    <3>6. added \subseteq Contacts
      BY <3>1
    <3> HIDE DEF f, added
    <3>7. IsFiniteSet(added)
      BY <3>4, <3>5, FS_Surjection
    <3> QED BY <1>0, <3>2, <3>6, <3>7, FS_Union
  <2> QED BY <2>1, <2>2
<1>2. some \in SUBSET all /\ \A c \in all : Cardinality({d \in some : d.id = c.id}) = 1
  BY DEF Deduplicated
<1> HIDE DEF all
<1>3. IsFiniteSet(some) /\ some \subseteq Contacts
  BY <1>1, <1>2, FS_Subset
<1>4. \A c, d \in some : c.id = d.id => c = d
  <2> SUFFICES ASSUME NEW c \in some, NEW d \in some, c.id = d.id PROVE c = d
    OBVIOUS
  <2> DEFINE same == {e \in some : e.id = c.id}
  <2>1. same \in SUBSET some /\ c \in same /\ d \in same
    OBVIOUS
  <2>2. Cardinality(same) = 1
    BY <1>2
  <2> HIDE DEF same
  <2>3. IsFiniteSet(same)
    BY <1>3, <2>1, FS_Subset
  <2>4. \E e : same = {e}
    BY <2>2, <2>3, FS_Singleton
  <2> QED BY <2>1, <2>4
<1>5. Shortlist(some) /\ Capped(some) \in SUBSET some
  BY <1>3, <1>4 DEF Shortlist, Capped
<1> QED BY <1>5, SubShortlist

LEMMA AmongTyped ==
    ASSUME NEW list, Shortlist(list), NEW keys
    PROVE  Among(list, keys) \in Nat /\ (keys = {} => Among(list, keys) = 0)
<1> DEFINE S == {c \in list : Rank(list, c) < LOOKUP_K /\ c.ep \in keys}
<1>1. S \in SUBSET list /\ (keys = {} => S = {})
  OBVIOUS
<1>2. Among(list, keys) = Cardinality(S)
  BY DEF Among
<1> HIDE DEF S
<1>3. IsFiniteSet(S)
  BY <1>1, FS_Subset DEF Shortlist
<1> QED BY <1>1, <1>2, <1>3, FS_CardinalityType, FS_EmptySet

-----------------------------------------------------------------------------
(* The inductive invariant *)

LookupStates ==
    [list : SUBSET Contacts, queried : SUBSET Endpoints, responding : SUBSET Endpoints,
     flight : Nat, tokens : [Endpoints -> Nat \union {None}]]

Messages ==
    [tid : Nat, id : NodeID, nodes : Seq(Contacts) \union {None},
     peers : Seq(Endpoints) \union {None}, token : Nat \union {None}]

QueryRecords == [to : Contacts, lookup : BOOLEAN, callback : BOOLEAN]

\* What the threads hold.
Typed ==
    /\ lk \in LookupStates /\ Shortlist(lk.list) /\ IsFiniteSet(lk.queried)
    /\ queries \in Seq(QueryRecords)
    /\ pending \subseteq DOMAIN queries /\ lost \subseteq DOMAIN queries
    /\ caller \in [pc : {"new", "send", "idle", "stuck"}, todo : Seq(Contacts), active : Nat]
    /\ nt \in [pc : {"idle", "lookup", "send", "close"}, tid : Nat,
               answer : Messages \union {None}, todo : Seq(Contacts), active : Nat,
               counted : BOOLEAN]
    /\ done \in Nat

\* Where the threads are tells what they hold.
Threads ==
    /\ caller.pc = "new" => /\ table \in Known /\ lk.queried = {} /\ lk.flight = 0
                            /\ queries = <<>> /\ nt = Idle /\ lost = {} /\ done = 0
    /\ caller.pc # "send" => caller.todo = <<>>
    /\ caller.pc = "send" => caller.active = 0
    /\ nt.pc # "send" => nt.todo = <<>>
    /\ nt.pc # "idle" => /\ nt.tid \in DOMAIN queries
                         /\ nt.answer \in Messages /\ nt.answer.token \in {None, nt.tid}
    /\ nt.pc \in {"idle", "lookup"} => ~nt.counted
    /\ nt.pc = "send" => nt.counted
    /\ nt.pc = "lookup" => queries[nt.tid].lookup
    /\ nt.pc = "close" /\ ~nt.counted => nt.tid \notin pending \/ ~queries[nt.tid].lookup

Lookups == {tid \in DOMAIN queries : queries[tid].lookup}
Asked == {queries[tid].to.ep : tid \in Lookups}

\* An address is asked once, or waits to be asked once.
AskedOnce ==
    /\ lk.queried = Asked \union EpsOf(caller.todo) \union EpsOf(nt.todo)
    /\ Asked \intersect EpsOf(caller.todo) = {}
    /\ Asked \intersect EpsOf(nt.todo) = {}
    /\ EpsOf(caller.todo) \intersect EpsOf(nt.todo) = {}
    /\ Distinct(caller.todo) /\ Distinct(nt.todo)
    /\ \A s, t \in Lookups : queries[s].to.ep = queries[t].to.ep => s = t

\* A query of the lookup is open, forgotten or answered.
Answered ==
    /\ lost \intersect pending = {}
    /\ \A tid \in Lookups :
         tid \in OpenQueries \/ tid \in lost \/ queries[tid].to.ep \in lk.responding

\* How far the lookup is.
Progress ==
    /\ caller.pc # "new" /\ lk.flight = 0 => {c.ep : c \in lk.list} \subseteq lk.queried
    /\ lk.flight > 0 => lk.queried # {}
    /\ caller.pc = "stuck" => lk.queried = {}
    /\ caller.pc = "idle" => lk.queried # {}
    /\ nt.pc = "send" /\ lk.flight = 0 => nt.active = Among(lk.list, lk.queried)
    /\ nt.pc # "send" /\ done = 0 /\ lk.flight = 0 /\ lk.queried # {} =>
         Among(lk.list, lk.queried) # Cardinality(lk.queried)
    /\ done <= 1
    /\ done = 1 => lk.flight = 0 /\ nt.pc \in {"idle", "close"} /\ caller.pc = "idle"

Given(e, tid) == tid \in DOMAIN queries /\ queries[tid].to.ep = e

TokensOK ==
    /\ \A e \in Endpoints : lk.tokens[e] # None => Given(e, lk.tokens[e])
    /\ \A a \in announced : Given(a.to, a.token)

IInv == Typed /\ Threads /\ AskedOnce /\ Answered /\ FlightAccounted /\ Progress /\ TokensOK

LEMMA InitIInv == Init => IInv
<1> SUFFICES ASSUME Init PROVE IInv
  OBVIOUS
<1>1. Typed
  BY FS_EmptySet DEF Init, Typed, LookupStates, Shortlist, Idle
<1>2. Threads
  BY DEF Init, Threads, Idle
<1>3. AskedOnce /\ Answered
  BY DEF Init, AskedOnce, Answered, Lookups, Asked, EpsOf, Distinct, Idle
<1>4. FlightAccounted
  <2>1. OpenQueries = {} /\ Len(caller.todo) = 0 /\ Len(nt.todo) = 0
    BY DEF Init, OpenQueries, Idle
  <2> QED BY <2>1, FS_EmptySet, LookupAssumption DEF Init, FlightAccounted
<1>5. Progress
  BY DEF Init, Progress, Idle
<1>6. TokensOK
  BY DEF Init, TokensOK
<1> QED BY <1>1, <1>2, <1>3, <1>4, <1>5, <1>6 DEF IInv

-----------------------------------------------------------------------------
(* Facts every step uses *)

\* Sets of transaction ids are finite.
LEMMA TidsFinite ==
    ASSUME Typed
    PROVE  /\ IsFiniteSet(OpenQueries) /\ Cardinality(OpenQueries) \in Nat
           /\ IsFiniteSet(lost) /\ Cardinality(lost) \in Nat
           /\ Cardinality(lk.queried) \in Nat /\ (Cardinality(lk.queried) = 0 <=> lk.queried = {})
<1>1. queries \in Seq(QueryRecords) /\ DOMAIN queries = 1 .. Len(queries) /\ Len(queries) \in Nat
  BY DEF Typed
<1>2. IsFiniteSet(DOMAIN queries)
  BY <1>1, FS_Interval
<1>3. OpenQueries \in SUBSET DOMAIN queries /\ lost \in SUBSET DOMAIN queries
  BY DEF Typed, OpenQueries
<1>4. IsFiniteSet(OpenQueries) /\ IsFiniteSet(lost)
  BY <1>2, <1>3, FS_Subset
<1> QED BY <1>4, FS_CardinalityType, FS_EmptySet DEF Typed

\* The parts of the states the threads hold.
LEMMA Parts ==
    ASSUME Typed
    PROVE  /\ caller = [pc |-> caller.pc, todo |-> caller.todo, active |-> caller.active]
           /\ caller.todo \in Seq(Contacts) /\ Len(caller.todo) \in Nat /\ caller.active \in Nat
           /\ nt = [pc |-> nt.pc, tid |-> nt.tid, answer |-> nt.answer, todo |-> nt.todo,
                    active |-> nt.active, counted |-> nt.counted]
           /\ nt.todo \in Seq(Contacts) /\ Len(nt.todo) \in Nat /\ nt.active \in Nat
           /\ nt.tid \in Nat /\ nt.counted \in BOOLEAN
           /\ lk.flight \in Nat /\ lk.list \subseteq Contacts /\ lk.queried \subseteq Endpoints
BY DEF Typed, LookupStates

\* More queries, the old ones unchanged.
Extended ==
    /\ queries' \in Seq(QueryRecords)
    /\ DOMAIN queries \subseteq DOMAIN queries'
    /\ \A tid \in DOMAIN queries : queries'[tid] = queries[tid]

LEMMA TokensStay ==
    ASSUME TokensOK, Extended, lk'.tokens = lk.tokens, announced' = announced
    PROVE  TokensOK'
BY DEF TokensOK, Given, Extended

\* One query more.
LEMMA OneMore ==
    ASSUME Typed, NEW q \in QueryRecords, queries' = Append(queries, q)
    PROVE  /\ Extended
           /\ Len(queries) + 1 \in DOMAIN queries' /\ Len(queries) + 1 \notin DOMAIN queries
           /\ queries'[Len(queries) + 1] = q
           /\ DOMAIN queries' = DOMAIN queries \union {Len(queries) + 1}
<1>1. queries \in Seq(QueryRecords) /\ DOMAIN queries = 1 .. Len(queries) /\ Len(queries) \in Nat
  BY DEF Typed
<1>2. /\ queries' \in Seq(QueryRecords) /\ DOMAIN queries' = 1 .. Len(queries) + 1
      /\ queries'[Len(queries) + 1] = q
      /\ \A i \in 1 .. Len(queries) : queries'[i] = queries[i]
  BY <1>1
<1> QED BY <1>1, <1>2 DEF Extended

\* What is asked depends on the queries and on what waits to be sent.
LEMMA SameAsked ==
    ASSUME AskedOnce, queries' = queries, lk'.queried = lk.queried, caller'.todo = caller.todo,
           nt'.todo = nt.todo
    PROVE  AskedOnce' /\ Lookups' = Lookups
<1>1. Lookups' = Lookups
  BY DEF Lookups
<1>2. Asked' = Asked
  BY <1>1 DEF Asked
<1>3. EpsOf(caller.todo)' = EpsOf(caller.todo) /\ EpsOf(nt.todo)' = EpsOf(nt.todo)
  BY DEF EpsOf
<1>4. Distinct(caller.todo)' /\ Distinct(nt.todo)'
  BY DEF AskedOnce, Distinct
<1> QED BY <1>1, <1>2, <1>3, <1>4 DEF AskedOnce

LEMMA SameAnswered ==
    ASSUME Answered, queries' = queries, pending' = pending, lost' = lost,
           lk'.responding = lk.responding, OpenQueries' = OpenQueries, Lookups' = Lookups
    PROVE  Answered'
BY DEF Answered

-----------------------------------------------------------------------------
(* Steps that send nothing *)

LEMMA CheckStep == IInv /\ CT_Check => IInv'
<1> SUFFICES ASSUME IInv, CT_Check PROVE IInv'
  OBVIOUS
<1> USE DEF IInv
<1>0. /\ caller.pc = "send" /\ caller.todo = <<>> /\ caller.active = 0
      /\ caller'.pc = (IF Terminates(caller.active) THEN "stuck" ELSE "idle")
      /\ caller'.todo = caller.todo /\ caller'.active = caller.active
      /\ UNCHANGED <<table, lk, queries, pending, nt, found, announced, done, lost>>
  BY Parts DEF CT_Check, Threads
<1>1. Typed'
  BY <1>0 DEF CT_Check, Typed
<1>2. Threads'
  BY <1>0 DEF Threads
<1>3. AskedOnce' /\ Answered'
  <2>1. OpenQueries' = OpenQueries
    BY <1>0 DEF OpenQueries, Uncounted
  <2>2. AskedOnce' /\ Lookups' = Lookups
    BY <1>0, SameAsked
  <2> QED BY <1>0, <2>1, <2>2, SameAnswered
<1>4. FlightAccounted'
  BY <1>0 DEF FlightAccounted, OpenQueries, Uncounted
<1>5. Progress'
  <2>1. lk.flight \in Nat /\ done # 1
    BY <1>0, Parts DEF Progress
  <2>2. Terminates(0) => lk.queried = {}
    BY TidsFinite DEF Terminates
  <2>3. ~Terminates(0) => lk.queried # {}
    <3>1. ~Terminates(0) => lk.flight > 0 \/ Cardinality(lk.queried) # 0
      BY <2>1 DEF Terminates
    <3> QED BY <3>1, TidsFinite DEF Progress
  <2> QED BY <1>0, <2>1, <2>2, <2>3 DEF Progress, Among, Rank
<1>6. TokensOK'
  BY <1>0 DEF TokensOK, Given
<1> QED BY <1>1, <1>2, <1>3, <1>4, <1>5, <1>6

\* A datagram taken for a query changes the table only.
LEMMA QueryStep ==
    ASSUME IInv, NEW d, NEW ep, NT_Query(d, ep), caller.pc # "new"
    PROVE  IInv'
<1> USE DEF IInv
<1>0. UNCHANGED <<lk, queries, pending, caller, nt, found, announced, done, lost>>
  BY DEF NT_Query
<1>1. Typed' /\ Threads' /\ TokensOK'
  BY <1>0 DEF Typed, Threads, TokensOK, Given
<1>2. OpenQueries' = OpenQueries
  BY <1>0 DEF OpenQueries, Uncounted
<1>3. AskedOnce' /\ Answered'
  BY <1>0, <1>2, SameAsked, SameAnswered
<1>4. FlightAccounted' /\ Progress'
  BY <1>0, <1>2 DEF FlightAccounted, Progress, Among, Rank
<1> QED BY <1>1, <1>3, <1>4

\* The network thread goes on to close without counting the answer.
LEMMA LateStep == IInv /\ NT_Late => IInv'
<1> SUFFICES ASSUME IInv, NT_Late PROVE IInv'
  OBVIOUS
<1> USE DEF IInv
<1>0. /\ nt.pc = "lookup" /\ nt.tid \notin pending /\ ~nt.counted
      /\ nt'.pc = "close" /\ nt'.tid = nt.tid /\ nt'.answer = nt.answer /\ nt'.todo = nt.todo
      /\ nt'.active = nt.active /\ nt'.counted = nt.counted
      /\ UNCHANGED <<table, lk, queries, pending, caller, found, announced, done, lost>>
  BY Parts DEF NT_Late, Threads
<1>1. Typed'
  BY <1>0 DEF NT_Late, Typed
<1>2. Threads'
  BY <1>0 DEF Threads, Idle
<1>3. AskedOnce' /\ Answered'
  <2>1. OpenQueries' = OpenQueries
    BY <1>0 DEF OpenQueries, Uncounted
  <2>2. AskedOnce' /\ Lookups' = Lookups
    BY <1>0, SameAsked
  <2> QED BY <1>0, <2>1, <2>2, SameAnswered
<1>4. FlightAccounted'
  BY <1>0 DEF FlightAccounted, OpenQueries, Uncounted
<1>5. Progress'
  BY <1>0 DEF Progress, Among, Rank
<1>6. TokensOK'
  BY <1>0 DEF TokensOK, Given
<1> QED BY <1>1, <1>2, <1>3, <1>4, <1>5, <1>6

LEMMA GoOnStep == IInv /\ NT_GoOn => IInv'
<1> SUFFICES ASSUME IInv, NT_GoOn PROVE IInv'
  OBVIOUS
<1> USE DEF IInv
<1>0. /\ nt.pc = "send" /\ nt.todo = <<>> /\ ~Terminates(nt.active) /\ nt.counted
      /\ nt'.pc = "close" /\ nt'.tid = nt.tid /\ nt'.answer = nt.answer /\ nt'.todo = nt.todo
      /\ nt'.active = nt.active /\ nt'.counted = nt.counted
      /\ UNCHANGED <<table, lk, queries, pending, caller, found, announced, done, lost>>
  BY Parts DEF NT_GoOn, Threads
<1>1. Typed'
  BY <1>0 DEF NT_GoOn, Typed
<1>2. Threads'
  BY <1>0 DEF Threads, Idle
<1>3. AskedOnce' /\ Answered'
  <2>1. OpenQueries' = OpenQueries
    BY <1>0 DEF OpenQueries, Uncounted
  <2>2. AskedOnce' /\ Lookups' = Lookups
    BY <1>0, SameAsked
  <2> QED BY <1>0, <2>1, <2>2, SameAnswered
<1>4. FlightAccounted'
  BY <1>0 DEF FlightAccounted, OpenQueries, Uncounted
<1>5. Progress'
  <2>1. lk.flight = 0 => nt.active = Among(lk.list, lk.queried) /\ nt.active # Cardinality(lk.queried)
    BY <1>0 DEF Progress, Terminates
  <2>2. lk' = lk /\ Among(lk'.list, lk'.queried) = Among(lk.list, lk.queried)
    BY <1>0 DEF Among, Rank
  <2> HIDE DEF IInv
  <2> QED BY <1>0, <2>1, <2>2 DEF IInv, Progress
<1>6. TokensOK'
  BY <1>0 DEF TokensOK, Given
<1> QED BY <1>1, <1>2, <1>3, <1>4, <1>5, <1>6

LEMMA CloseStep == IInv /\ NT_Close => IInv'
<1> SUFFICES ASSUME IInv, NT_Close PROVE IInv'
  OBVIOUS
<1> USE DEF IInv
<1>0. /\ nt.pc = "close" /\ nt.todo = <<>> /\ nt' = Idle /\ pending' = pending \ {nt.tid}
      /\ UNCHANGED <<lk, queries, caller, announced, done, lost>>
  BY DEF NT_Close, Threads
<1>1. caller.pc # "new"
  BY <1>0 DEF Threads, Idle
<1>2. Typed'
  BY <1>0 DEF Typed, Idle
<1>3. Threads'
  BY <1>0, <1>1 DEF Threads, Idle
<1>4. OpenQueries' = OpenQueries
  <2>1. nt.tid \notin OpenQueries
    BY <1>0 DEF Threads, OpenQueries, Uncounted
  <2>2. nt'.counted = FALSE
    BY <1>0 DEF Idle
  <2> QED BY <1>0, <2>1, <2>2 DEF OpenQueries, Uncounted
<1>5. AskedOnce' /\ Lookups' = Lookups
  BY <1>0, SameAsked DEF Idle
<1>6. Answered'
  BY <1>0, <1>4, <1>5 DEF Answered
<1>7. FlightAccounted' /\ Progress'
  BY <1>0, <1>4 DEF FlightAccounted, Progress, Among, Rank, Idle
<1>8. TokensOK'
  BY <1>0 DEF TokensOK, Given
<1> QED BY <1>2, <1>3, <1>5, <1>6, <1>7, <1>8

-----------------------------------------------------------------------------
(* Queries that are not the lookup's *)

\* Queries that are not the lookup's leave alone who was asked.
LEMMA OtherQueries ==
    ASSUME Extended, \A tid \in DOMAIN queries' : tid \notin DOMAIN queries => ~queries'[tid].lookup
    PROVE  Lookups' = Lookups /\ Asked' = Asked
<1>1. Lookups' = Lookups
  BY DEF Extended, Lookups
<1>2. \A tid \in Lookups : queries'[tid] = queries[tid]
  BY DEF Extended, Lookups
<1> QED BY <1>1, <1>2 DEF Asked

LEMMA OthersAsked ==
    ASSUME AskedOnce, Extended, Lookups' = Lookups, Asked' = Asked, lk'.queried = lk.queried,
           caller'.todo = caller.todo, nt'.todo = nt.todo
    PROVE  AskedOnce'
<1>1. EpsOf(caller.todo)' = EpsOf(caller.todo) /\ EpsOf(nt.todo)' = EpsOf(nt.todo)
  BY DEF EpsOf
<1>2. Distinct(caller.todo)' /\ Distinct(nt.todo)'
  BY DEF AskedOnce, Distinct
<1>3. \A tid \in Lookups : queries'[tid] = queries[tid]
  BY DEF Extended, Lookups
<1> QED BY <1>1, <1>2, <1>3 DEF AskedOnce

LEMMA OthersAnswered ==
    ASSUME Answered, Extended, Lookups' = Lookups, OpenQueries' = OpenQueries, lost' = lost,
           lk'.responding = lk.responding, lost' \intersect pending' = {}
    PROVE  Answered'
<1>1. \A tid \in Lookups : queries'[tid] = queries[tid]
  BY DEF Extended, Lookups
<1> QED BY <1>1 DEF Answered

\* What another node answers is decoded to a message about the query it answers.
LEMMA AnswersTyped ==
    ASSUME NEW tid \in Nat, queries[tid].to \in Contacts, NEW id \in NodeID,
           NEW d \in AnswersTo(tid, id)
    PROVE  /\ DecodeResponse(d) \in Messages
           /\ DecodeResponse(d).tid = tid
           /\ DecodeResponse(d).token \in {None, tid}
<1> DEFINE to == queries[tid].to
<1>0. to.id \in NodeID /\ to.ep \in Endpoints /\ ZeroID \in NodeID
  BY TableAssumption DEF Contacts, ZeroID, NodeID
<1> HIDE DEF to
<1> DEFINE Msgs == {response_get_peers_with_nodes(id, nodes, tid, tid) : nodes \in Replies}
                     \union {response_get_peers_with_values(id, <<to.ep>>, tid, tid),
                             response_ping(id, tid)}
<1>1. PICK m \in Msgs, q \in {None, "other"} : d = [EncodeResponse(m) EXCEPT !.q = q]
  BY DEF AnswersTo, to
<1>2. /\ m.tid = tid /\ m.id = id /\ m.token \in {None, tid}
      /\ m.nodes \in Seq(Contacts) \union {None} /\ m.peers \in {None, <<to.ep>>}
  <2>1. ASSUME NEW nodes \in Replies, m = response_get_peers_with_nodes(id, nodes, tid, tid)
        PROVE  /\ m.tid = tid /\ m.id = id /\ m.token = tid /\ m.nodes = nodes /\ m.peers = None
    BY <2>1 DEF response_get_peers_with_nodes, response_find_node, response_ping
  <2>2. CASE m = response_get_peers_with_values(id, <<to.ep>>, tid, tid)
    BY <2>2 DEF response_get_peers_with_values
  <2>3. CASE m = response_ping(id, tid)
    BY <2>3 DEF response_ping
  <2> QED BY <2>1, <2>2, <2>3, LookupAssumption
<1> HIDE DEF Msgs
<1> DEFINE wn == IF m.nodes \in {None, <<>>} THEN None
                 ELSE [i \in DOMAIN m.nodes |-> WireNode(m.nodes[i])]
           wp == IF m.peers \in {None, <<>>} THEN None
                 ELSE [i \in DOMAIN m.peers |-> WirePeer(m.peers[i])]
           rn == IF wn = None THEN None ELSE [i \in DOMAIN wn |-> UnwireNode(wn[i])]
           rp == IF wp \in {None, <<>>} THEN None ELSE [i \in DOMAIN wp |-> UnwirePeer(wp[i])]
<1>3. d.t = tid /\ d.r = [id |-> id, nodes |-> wn, values |-> wp, token |-> m.token]
  BY <1>1, <1>2 DEF EncodeResponse
<1>4. DecodeResponse(d) = [tid |-> tid, id |-> IF id = None THEN ZeroID ELSE id,
                          nodes |-> rn, peers |-> rp, token |-> m.token]
  <2> HIDE DEF wn, wp
  <2> QED BY <1>3 DEF DecodeResponse
<1>5. \A e \in Endpoints : e = [ip |-> e.ip, port |-> e.port] /\ e.port \in Ports
  BY LookupAssumption
<1>6. rn \in Seq(Contacts) \union {None}
  <2>1. CASE wn = None
    BY <2>1
  <2>2. CASE wn # None
    <3>1. m.nodes \in Seq(Contacts) /\ wn = [i \in DOMAIN m.nodes |-> WireNode(m.nodes[i])]
      BY <1>2, <2>2
    <3>2. \A c \in Contacts : UnwireNode(WireNode(c)) \in Contacts
      <4> SUFFICES ASSUME NEW c \in Contacts PROVE UnwireNode(WireNode(c)) \in Contacts
        OBVIOUS
      <4>1. c.id \in NodeID /\ c.ep \in Endpoints /\ c.ep.port \in Ports
            /\ c.ep = [ip |-> c.ep.ip, port |-> c.ep.port]
        BY <1>5 DEF Contacts
      <4>2. Swap(Swap(c.ep.port)) = c.ep.port
        BY <4>1 DEF Swap, Ports
      <4>3. WireNode(c) = [id |-> c.id, ip |-> c.ep.ip, bytes |-> Swap(c.ep.port)]
        BY DEF WireNode
      <4>4. UnwireNode(WireNode(c)) = [id |-> c.id, ep |-> [ip |-> c.ep.ip, port |-> c.ep.port]]
        BY <4>2, <4>3 DEF UnwireNode
      <4> QED BY <4>1, <4>4 DEF Contacts
    <3>3. DOMAIN m.nodes = 1 .. Len(m.nodes) /\ Len(m.nodes) \in Nat
          /\ \A i \in DOMAIN m.nodes : m.nodes[i] \in Contacts
      BY <3>1
    <3> HIDE DEF wn
    <3>4. rn = [i \in 1 .. Len(m.nodes) |-> UnwireNode(WireNode(m.nodes[i]))]
      BY <2>2, <3>1, <3>3
    <3>5. rn \in [1 .. Len(m.nodes) -> Contacts]
      BY <3>2, <3>3, <3>4
    <3> QED BY <3>3, <3>5
  <2> QED BY <2>1, <2>2
<1>7. rp \in Seq(Endpoints) \union {None}
  <2>1. CASE wp \in {None, <<>>}
    BY <2>1
  <2>2. CASE wp \notin {None, <<>>}
    <3>1. m.peers = <<to.ep>> /\ wp = [i \in DOMAIN m.peers |-> WirePeer(m.peers[i])]
      BY <1>2, <2>2
    <3>2. DOMAIN wp = 1 .. 1 /\ wp[1] = WirePeer(to.ep)
      BY <3>1
    <3>3. UnwirePeer(WirePeer(to.ep)) = to.ep
      <4>1. to.ep = [ip |-> to.ep.ip, port |-> to.ep.port]
        BY <1>0, <1>5
      <4> QED BY <4>1 DEF WirePeer, UnwirePeer
    <3> HIDE DEF wp
    <3>4. rp \in [1 .. 1 -> Endpoints]
      BY <1>0, <2>2, <3>2, <3>3
    <3> QED BY <3>4
  <2> QED BY <2>1, <2>2
<1> HIDE DEF rn, rp
<1> QED BY <1>0, <1>2, <1>4, <1>6, <1>7 DEF Messages

LEMMA ResponseStep ==
    ASSUME IInv, NEW tid \in DOMAIN queries, NEW id \in NodeID, NEW d \in AnswersTo(tid, id),
           NT_Response(d)
    PROVE  IInv'
<1> USE DEF IInv
<1> DEFINE m == DecodeResponse(d)
<1>0. queries \in Seq(QueryRecords) /\ tid \in Nat /\ queries[tid] \in QueryRecords
      /\ queries[tid].to \in Contacts /\ queries[tid].lookup \in BOOLEAN
  <2>1. queries \in Seq(QueryRecords) /\ DOMAIN queries = 1 .. Len(queries)
    BY DEF Typed
  <2>2. tid \in Nat /\ queries[tid] \in QueryRecords
    BY <2>1
  <2> QED BY <2>1, <2>2 DEF QueryRecords
<1>1. m \in Messages /\ m.tid = tid /\ m.token \in {None, tid}
  BY <1>0, AnswersTyped
<1>2. /\ nt.pc = "idle" /\ tid \in pending /\ AnnounceOn(tid, m)
      /\ nt' = [Idle EXCEPT !.pc = IF queries[tid].lookup THEN "lookup" ELSE "close",
                            !.tid = tid, !.answer = m]
      /\ UNCHANGED <<lk, caller, found, done, lost>>
  BY <1>1 DEF NT_Response
<1> HIDE DEF m
<1>3. /\ nt'.pc = (IF queries[tid].lookup THEN "lookup" ELSE "close")
      /\ nt'.tid = tid /\ nt'.answer = m /\ nt'.todo = <<>> /\ nt'.counted = FALSE /\ nt'.active = 0
      /\ nt' = [pc |-> nt'.pc, tid |-> nt'.tid, answer |-> nt'.answer, todo |-> nt'.todo,
                active |-> nt'.active, counted |-> nt'.counted]
  BY <1>2 DEF Idle
<1>4. caller.pc # "new" /\ nt.todo = <<>> /\ nt.counted = FALSE
  <2>1. queries # <<>>
    BY <1>0
  <2> QED BY <1>2, <2>1, Parts DEF Threads
<1>5. /\ Extended /\ (\A t \in DOMAIN queries' : t \notin DOMAIN queries => ~queries'[t].lookup)
      /\ pending \subseteq pending' /\ pending' \subseteq DOMAIN queries'
      /\ \A t \in pending' : t \in pending \/ (t \notin DOMAIN queries /\ ~queries'[t].lookup)
  <2>1. CASE UNCHANGED <<announced, queries, pending>>
    BY <1>0, <2>1 DEF Extended, Typed
  <2>2. CASE ~UNCHANGED <<announced, queries, pending>>
    <3> DEFINE q == [to |-> queries[tid].to, lookup |-> FALSE, callback |-> FALSE]
    <3>1. queries' = Append(queries, q) /\ pending' = pending \union {Len(queries) + 1}
      BY <1>2, <2>2 DEF AnnounceOn
    <3>2. q \in QueryRecords /\ q.lookup = FALSE
      BY <1>0 DEF QueryRecords
    <3> HIDE DEF q
    <3> QED BY <3>1, <3>2, OneMore DEF Typed
  <2> QED BY <2>1, <2>2
<1>6. queries'[tid] = queries[tid] /\ tid \in DOMAIN queries'
  BY <1>5 DEF Extended
<1>7. Typed'
  <2>0. <<>> \in Seq(Contacts)
    OBVIOUS
  <2>1. /\ nt'.pc \in {"idle", "lookup", "send", "close"} /\ nt'.tid \in Nat
        /\ nt'.answer \in Messages \union {None} /\ nt'.todo \in Seq(Contacts) /\ nt'.active \in Nat
        /\ nt'.counted \in BOOLEAN
    <3>1. nt'.counted \in BOOLEAN
      BY <1>3, Zenon
    <3>2. nt'.tid \in Nat /\ nt'.answer \in Messages
      BY <1>0, <1>1, <1>3, Zenon
    <3>3. nt'.pc \in {"idle", "lookup", "send", "close"}
      BY <1>3
    <3>4. nt'.todo \in Seq(Contacts) /\ nt'.active \in Nat
      BY <1>3, <2>0
    <3> QED BY <3>1, <3>2, <3>3, <3>4
  <2>2. nt' \in [pc : {"idle", "lookup", "send", "close"}, tid : Nat,
                 answer : Messages \union {None}, todo : Seq(Contacts), active : Nat,
                 counted : BOOLEAN]
    BY <1>3, <2>1
  <2> QED BY <1>2, <1>5, <2>2 DEF Typed, Extended
<1>8. Threads'
  <2>1. nt'.pc = "lookup" => queries'[nt'.tid].lookup
    BY <1>3, <1>6
  <2>2. nt'.pc = "close" => ~queries'[nt'.tid].lookup
    BY <1>3, <1>6
  <2>3. nt'.pc \in {"lookup", "close"} /\ ~nt'.counted
    BY <1>3
  <2>4. nt'.tid \in DOMAIN queries' /\ nt'.answer \in Messages /\ nt'.answer.token \in {None, nt'.tid}
    BY <1>1, <1>3, <1>6
  <2>5. nt'.todo = <<>> /\ caller' = caller
    BY <1>2, <1>3
  <2> HIDE DEF IInv
  <2> QED BY <1>4, <2>1, <2>2, <2>3, <2>4, <2>5 DEF IInv, Threads
<1>9. Lookups' = Lookups /\ Asked' = Asked
  BY <1>5, OtherQueries
<1>10. OpenQueries' = OpenQueries
  <2>1. \A t \in pending' : Uncounted(t)' <=> queries'[t].lookup
    BY <1>3 DEF Uncounted
  <2>2. \A t \in pending : Uncounted(t) <=> queries[t].lookup
    BY <1>4 DEF Uncounted
  <2>3. \A t \in pending : queries'[t] = queries[t]
    BY <1>5 DEF Extended, Typed
  <2> QED BY <1>5, <2>1, <2>2, <2>3 DEF OpenQueries
<1>11. AskedOnce'
  BY <1>2, <1>3, <1>4, <1>5, <1>9, OthersAsked
<1>12. Answered'
  <2>1. lost' \intersect pending' = {}
    BY <1>2, <1>5 DEF Answered, Typed
  <2> QED BY <1>2, <1>5, <1>9, <1>10, <2>1, OthersAnswered
<1>13. FlightAccounted'
  BY <1>2, <1>3, <1>4, <1>10 DEF FlightAccounted
<1>14. Progress'
  <2>1. done = 1 => ~queries[tid].lookup
    <3> SUFFICES ASSUME lk.flight = 0, queries[tid].lookup PROVE FALSE
      BY DEF Progress
    <3>1. tid \in OpenQueries
      BY <1>2, <1>4 DEF OpenQueries, Uncounted
    <3>2. Cardinality(OpenQueries) = 0
      BY TidsFinite, Parts DEF FlightAccounted
    <3> QED BY <3>1, <3>2, TidsFinite, FS_EmptySet
  <2>2. nt'.pc \in {"lookup", "close"} /\ (done = 1 => nt'.pc = "close")
    BY <1>3, <2>1
  <2>3. Among(lk'.list, lk'.queried) = Among(lk.list, lk.queried)
    BY <1>2 DEF Among, Rank
  <2> HIDE DEF IInv
  <2> QED BY <1>2, <2>2, <2>3 DEF IInv, Progress
<1>15. TokensOK'
  <2>1. \A e, t : Given(e, t) => Given(e, t)'
    BY <1>5 DEF Extended, Given
  <2>2. tid \in DOMAIN queries' /\ queries'[tid].to.ep = queries[tid].to.ep
    BY <1>6
  <2>3. ASSUME NEW a \in announced' PROVE a \in announced \/ Given(a.to, a.token)'
    <3>1. a \in announced \/ (m.token # None /\ a = [to |-> queries[tid].to.ep, token |-> m.token])
      BY <1>2, <2>3 DEF AnnounceOn
    <3>2. CASE m.token # None /\ a = [to |-> queries[tid].to.ep, token |-> m.token]
      <4>1. a.to = queries[tid].to.ep /\ a.token = tid
        BY <1>1, <3>2
      <4> QED BY <2>2, <4>1 DEF Given
    <3> QED BY <3>1, <3>2
  <2> QED BY <1>2, <2>1, <2>3 DEF TokensOK
<1> QED BY <1>7, <1>8, <1>11, <1>12, <1>13, <1>14, <1>15

-----------------------------------------------------------------------------
(* Sending a query of the lookup *)

\* The first of a list and the others.
LEMMA FirstOf ==
    ASSUME NEW todo \in Seq(Contacts), todo # <<>>, Distinct(todo)
    PROVE  /\ Head(todo) \in Contacts /\ Tail(todo) \in Seq(Contacts)
           /\ Len(todo) \in Nat /\ Len(todo) = Len(Tail(todo)) + 1
           /\ EpsOf(todo) = {Head(todo).ep} \union EpsOf(Tail(todo))
           /\ Distinct(Tail(todo)) /\ Head(todo).ep \notin EpsOf(Tail(todo))
<1> DEFINE n == Len(todo)
           q == Tail(todo)
<1>1. n \in Nat /\ n > 0 /\ DOMAIN todo = 1 .. n /\ Head(todo) = todo[1]
      /\ \A i \in 1 .. n : todo[i] \in Contacts
  OBVIOUS
<1>2. q \in Seq(Contacts) /\ Len(q) = n - 1 /\ DOMAIN q = 1 .. n - 1
      /\ \A i \in 1 .. n - 1 : q[i] = todo[i + 1]
  BY <1>1
<1> HIDE DEF n, q
<1>3. Head(todo) \in Contacts /\ n = Len(q) + 1
  BY <1>1, <1>2
<1>4. EpsOf(todo) = {Head(todo).ep} \union EpsOf(q)
  <2>1. ASSUME NEW i \in 1 .. n PROVE todo[i].ep \in {Head(todo).ep} \union EpsOf(q)
    <3>1. CASE i = 1
      BY <1>1, <3>1
    <3>2. CASE i # 1
      <4>1. i - 1 \in 1 .. n - 1 /\ (i - 1) + 1 = i
        BY <1>1, <3>2
      <4>2. q[i - 1] = todo[i] /\ i - 1 \in DOMAIN q
        BY <1>2, <4>1
      <4> QED BY <4>2 DEF EpsOf
    <3> QED BY <3>1, <3>2
  <2>2. ASSUME NEW i \in 1 .. n - 1 PROVE q[i].ep \in EpsOf(todo)
    <3>1. i + 1 \in 1 .. n
      BY <1>1
    <3> QED BY <1>1, <1>2, <3>1 DEF EpsOf
  <2>3. Head(todo).ep \in EpsOf(todo)
    <3>1. 1 \in 1 .. n
      BY <1>1
    <3> QED BY <1>1, <3>1 DEF EpsOf
  <2> QED BY <1>1, <1>2, <2>1, <2>2, <2>3 DEF EpsOf
<1>5. Distinct(q)
  <2> SUFFICES ASSUME NEW i \in 1 .. n - 1, NEW j \in 1 .. n - 1, q[i].ep = q[j].ep PROVE i = j
    BY <1>2 DEF Distinct
  <2>1. i + 1 \in 1 .. n /\ j + 1 \in 1 .. n
    BY <1>1
  <2>2. todo[i + 1].ep = todo[j + 1].ep
    BY <1>2
  <2>3. \A k, l \in 1 .. n : todo[k].ep = todo[l].ep => k = l
    BY <1>1 DEF Distinct
  <2>4. i + 1 = j + 1
    BY <2>1, <2>2, <2>3
  <2> QED BY <2>4
<1>6. Head(todo).ep \notin EpsOf(q)
  <2> SUFFICES ASSUME NEW i \in 1 .. n - 1, q[i].ep = Head(todo).ep PROVE FALSE
    BY <1>2 DEF EpsOf
  <2>1. i + 1 \in 1 .. n /\ 1 \in 1 .. n /\ i + 1 # 1
    BY <1>1
  <2> QED BY <1>1, <1>2, <2>1 DEF Distinct
<1> QED BY <1>1, <1>2, <1>3, <1>4, <1>5, <1>6 DEF n, q

\* send_find_node or send_get_peers: one open query more.
LEMMA Sends ==
    ASSUME Typed, Threads, NEW c \in Contacts, SendQuery(c), nt'.tid = nt.tid, nt'.counted = nt.counted,
           lost' = lost
    PROVE  /\ Extended /\ pending' \subseteq DOMAIN queries'
           /\ \E n \in DOMAIN queries' :
                /\ n \notin DOMAIN queries /\ queries'[n].to = c
                /\ Lookups' = Lookups \union {n} /\ OpenQueries' = OpenQueries \union {n}
                /\ pending' = pending \union {n}
           /\ Asked' = Asked \union {c.ep}
           /\ Cardinality(OpenQueries') = Cardinality(OpenQueries) + 1
<1> DEFINE q == [to |-> c, lookup |-> TRUE, callback |-> FALSE]
<1>0. PICK n : n = Len(queries) + 1
  OBVIOUS
<1>1. q \in QueryRecords /\ q.lookup = TRUE /\ q.to = c
  BY DEF QueryRecords
<1>2. queries' = Append(queries, q) /\ pending' = pending \union {n}
  BY <1>0 DEF SendQuery
<1> HIDE DEF q
<1>3. /\ Extended /\ n \in DOMAIN queries' /\ n \notin DOMAIN queries /\ queries'[n] = q
      /\ DOMAIN queries' = DOMAIN queries \union {n}
  BY <1>0, <1>1, <1>2, OneMore
<1>4. pending \subseteq DOMAIN queries /\ pending' \subseteq DOMAIN queries'
  BY <1>2, <1>3 DEF Typed
<1>5. \A t \in DOMAIN queries : queries'[t] = queries[t]
  BY <1>3 DEF Extended
<1>6. Lookups' = Lookups \union {n}
  BY <1>1, <1>3, <1>5 DEF Lookups
<1>7. Asked' = Asked \union {c.ep}
  <2>1. \A t \in Lookups : queries'[t] = queries[t]
    BY <1>5 DEF Lookups
  <2>2. queries'[n].to.ep = c.ep
    BY <1>1, <1>3
  <2> QED BY <1>6, <2>1, <2>2 DEF Asked
<1>8. nt.counted => nt.tid \in DOMAIN queries
  BY DEF Threads, Typed
<1>9. OpenQueries' = OpenQueries \union {n} /\ n \notin OpenQueries
  <2>1. \A t \in pending : Uncounted(t)' <=> Uncounted(t)
    BY <1>4, <1>5 DEF Uncounted
  <2>2. queries'[n].lookup /\ ~(n = nt'.tid /\ nt'.counted)
    <3>1. ~(n = nt'.tid /\ nt'.counted)
      BY <1>3, <1>8
    <3>2. queries'[n].lookup
      BY <1>1, <1>3
    <3> QED BY <3>1, <3>2
  <2>3. n \notin pending
    BY <1>3, <1>4
  <2> QED BY <1>2, <2>1, <2>2, <2>3 DEF OpenQueries, Uncounted
<1>10. Cardinality(OpenQueries') = Cardinality(OpenQueries) + 1
  BY <1>9, TidsFinite, FS_AddElement
<1>11. queries'[n].to = c
  BY <1>1, <1>3
<1> QED BY <1>2, <1>3, <1>4, <1>6, <1>7, <1>9, <1>10, <1>11

\* What a thread sends is no longer waiting, and open instead.
LEMMA SendKeeps ==
    ASSUME IInv, NEW todo \in Seq(Contacts), todo # <<>>, SendQuery(Head(todo)),
           lk' = lk, announced' = announced, lost' = lost, nt'.tid = nt.tid,
           nt'.counted = nt.counted,
           \/ todo = caller.todo /\ caller'.todo = Tail(todo) /\ nt'.todo = nt.todo
           \/ todo = nt.todo /\ nt'.todo = Tail(todo) /\ caller'.todo = caller.todo
    PROVE  /\ AskedOnce' /\ Answered' /\ FlightAccounted' /\ TokensOK'
           /\ Extended /\ pending' \subseteq DOMAIN queries'
           /\ \A t \in DOMAIN queries : t \in pending' => t \in pending
           /\ Tail(todo) \in Seq(Contacts)
<1> USE DEF IInv
<1> DEFINE c == Head(todo)
           cs == EpsOf(caller.todo)
           ns == EpsOf(nt.todo)
           cs2 == EpsOf(caller'.todo)
           ns2 == EpsOf(nt'.todo)
<1>1. Distinct(todo)
  BY DEF AskedOnce
<1>2. /\ c \in Contacts /\ Tail(todo) \in Seq(Contacts)
      /\ Len(todo) \in Nat /\ Len(todo) = Len(Tail(todo)) + 1
      /\ EpsOf(todo) = {c.ep} \union EpsOf(Tail(todo))
      /\ Distinct(Tail(todo)) /\ c.ep \notin EpsOf(Tail(todo))
  BY <1>1, FirstOf
<1>3. cs \intersect ns = {} /\ Asked \intersect cs = {} /\ Asked \intersect ns = {}
      /\ lk.queried = Asked \union cs \union ns
  BY DEF AskedOnce
<1>4. Len(Tail(todo)) \in Nat /\ Len(caller.todo) \in Nat /\ Len(nt.todo) \in Nat
  BY <1>2, Parts
<1> HIDE DEF c
<1>5. /\ cs \union ns = {c.ep} \union cs2 \union ns2
      /\ c.ep \notin cs2 /\ c.ep \notin ns2 /\ cs2 \intersect ns2 = {}
      /\ Distinct(caller'.todo) /\ Distinct(nt'.todo)
      /\ \E a \in Nat : a = Len(caller'.todo) + Len(nt'.todo) /\ Len(caller.todo) + Len(nt.todo) = a + 1
  <2>1. CASE todo = caller.todo /\ caller'.todo = Tail(todo) /\ nt'.todo = nt.todo
    <3>1. cs = {c.ep} \union cs2 /\ ns2 = ns /\ c.ep \notin cs2
      BY <1>2, <2>1
    <3>2. Distinct(caller'.todo) /\ Distinct(nt'.todo)
      BY <1>2, <2>1 DEF AskedOnce
    <3>3. \E a \in Nat : a = Len(caller'.todo) + Len(nt'.todo) /\ Len(caller.todo) + Len(nt.todo) = a + 1
      <4>1. PICK x \in Nat, y \in Nat : x = Len(Tail(todo)) /\ y = Len(nt.todo)
        BY <1>4
      <4>2. Len(caller'.todo) = x /\ Len(nt'.todo) = y /\ Len(caller.todo) = x + 1
        BY <1>2, <2>1, <4>1
      <4>3. x + y \in Nat /\ (x + 1) + y = (x + y) + 1
        OBVIOUS
      <4> QED BY <4>1, <4>2, <4>3
    <3> HIDE DEF IInv, cs, ns, cs2, ns2
    <3> QED BY <1>3, <3>1, <3>2, <3>3
  <2>2. CASE todo = nt.todo /\ nt'.todo = Tail(todo) /\ caller'.todo = caller.todo
    <3>1. ns = {c.ep} \union ns2 /\ cs2 = cs /\ c.ep \notin ns2
      BY <1>2, <2>2
    <3>2. Distinct(caller'.todo) /\ Distinct(nt'.todo)
      BY <1>2, <2>2 DEF AskedOnce
    <3>3. \E a \in Nat : a = Len(caller'.todo) + Len(nt'.todo) /\ Len(caller.todo) + Len(nt.todo) = a + 1
      <4>1. PICK x \in Nat, y \in Nat : x = Len(Tail(todo)) /\ y = Len(caller.todo)
        BY <1>4
      <4>2. Len(nt'.todo) = x /\ Len(caller'.todo) = y /\ Len(nt.todo) = x + 1
        BY <1>2, <2>2, <4>1
      <4>3. y + x \in Nat /\ y + (x + 1) = (y + x) + 1
        OBVIOUS
      <4> QED BY <4>1, <4>2, <4>3
    <3> HIDE DEF IInv, cs, ns, cs2, ns2
    <3> QED BY <1>3, <3>1, <3>2, <3>3
  <2> QED BY <2>1, <2>2
<1>6. /\ Extended /\ pending' \subseteq DOMAIN queries'
      /\ Asked' = Asked \union {c.ep}
      /\ Cardinality(OpenQueries') = Cardinality(OpenQueries) + 1
  BY <1>2, Sends DEF c
<1>7. PICK n \in DOMAIN queries' :
        /\ n \notin DOMAIN queries /\ queries'[n].to = c
        /\ Lookups' = Lookups \union {n} /\ OpenQueries' = OpenQueries \union {n}
        /\ pending' = pending \union {n}
  BY <1>2, Sends DEF c
<1>8. \A t \in Lookups : queries'[t] = queries[t] /\ queries[t].to.ep \in Asked
  BY <1>6 DEF Extended, Lookups, Asked
<1> HIDE DEF cs, ns, cs2, ns2
<1>9. AskedOnce'
  <2>1. c.ep \notin Asked
    BY <1>3, <1>5
  <2>2. \A s, t \in Lookups' : queries'[s].to.ep = queries'[t].to.ep => s = t
    <3> SUFFICES ASSUME NEW s \in Lookups', NEW t \in Lookups', queries'[s].to.ep = queries'[t].to.ep
                 PROVE s = t
      OBVIOUS
    <3>1. CASE s = n /\ t = n
      BY <3>1
    <3>2. CASE s # n /\ t # n
      <4>1. s \in Lookups /\ t \in Lookups
        BY <1>7, <3>2
      <4>2. queries[s].to.ep = queries[t].to.ep
        BY <1>8, <4>1
      <4> QED BY <4>1, <4>2 DEF AskedOnce
    <3>3. CASE s = n /\ t # n
      <4>1. t \in Lookups
        BY <1>7, <3>3
      <4> QED BY <1>7, <1>8, <2>1, <3>3, <4>1
    <3>4. CASE s # n /\ t = n
      <4>1. s \in Lookups
        BY <1>7, <3>4
      <4> QED BY <1>7, <1>8, <2>1, <3>4, <4>1
    <3> QED BY <3>1, <3>2, <3>3, <3>4
  <2>3. lk'.queried = Asked' \union cs2 \union ns2
    BY <1>3, <1>5, <1>6
  <2>4. Asked' \intersect cs2 = {} /\ Asked' \intersect ns2 = {}
    BY <1>3, <1>5, <1>6
  <2> HIDE DEF IInv
  <2> QED BY <1>5, <2>2, <2>3, <2>4 DEF AskedOnce, cs2, ns2
<1>10. Answered'
  <2>1. n \notin lost
    BY <1>7 DEF Typed
  <2> QED BY <1>7, <1>8, <2>1 DEF Answered
<1>11. FlightAccounted'
  <2>1. PICK a \in Nat : a = Len(caller'.todo) + Len(nt'.todo) /\ Len(caller.todo) + Len(nt.todo) = a + 1
    BY <1>5
  <2>2. PICK e \in Nat, d \in Nat : e = Cardinality(OpenQueries) /\ d = Cardinality(lost)
    BY TidsFinite
  <2>3. lk.flight = (a + 1) + e + d /\ lk.flight <= ALPHA
    BY <2>1, <2>2 DEF FlightAccounted
  <2>4. Cardinality(OpenQueries') = e + 1 /\ Cardinality(lost') = d
    BY <1>6, <2>2
  <2>5. (a + 1) + e + d = a + (e + 1) + d
    OBVIOUS
  <2>6. lk'.flight = a + (e + 1) + d
    BY <2>3, <2>5
  <2>7. lk'.flight = Len(caller'.todo) + Len(nt'.todo) + Cardinality(OpenQueries') + Cardinality(lost')
    BY <2>1, <2>4, <2>6
  <2> HIDE DEF IInv
  <2> QED BY <2>3, <2>7 DEF FlightAccounted
<1>12. TokensOK'
  BY <1>6, TokensStay
<1>13. \A t \in DOMAIN queries : t \in pending' => t \in pending
  BY <1>7
<1> QED BY <1>2, <1>6, <1>9, <1>10, <1>11, <1>12, <1>13

LEMMA CallerSendStep == IInv /\ CT_Send => IInv'
<1> SUFFICES ASSUME IInv, CT_Send PROVE IInv'
  OBVIOUS
<1> USE DEF IInv
<1> DEFINE todo == caller.todo
<1>0. /\ caller.pc = "send" /\ todo # <<>> /\ todo \in Seq(Contacts) /\ SendQuery(Head(todo))
      /\ caller'.pc = "send" /\ caller'.todo = Tail(todo) /\ caller'.active = caller.active
      /\ caller' = [caller EXCEPT !.todo = Tail(@)]
      /\ UNCHANGED <<lk, nt, found, announced, done, lost>>
  BY Parts DEF CT_Send
<1> HIDE DEF todo
<1>1. /\ AskedOnce' /\ Answered' /\ FlightAccounted' /\ TokensOK'
      /\ Extended /\ pending' \subseteq DOMAIN queries'
      /\ \A t \in DOMAIN queries : t \in pending' => t \in pending
      /\ Tail(todo) \in Seq(Contacts)
  BY <1>0, SendKeeps DEF todo
<1>2. Typed'
  <2>1. caller' \in [pc : {"new", "send", "idle", "stuck"}, todo : Seq(Contacts), active : Nat]
    BY <1>0, <1>1 DEF Typed
  <2> QED BY <1>0, <1>1, <2>1 DEF Typed, Extended
<1>3. Threads'
  <2>1. nt.pc # "idle" => nt.tid \in DOMAIN queries' /\ queries'[nt.tid] = queries[nt.tid]
    BY <1>1 DEF Threads, Extended
  <2>2. nt.pc # "idle" /\ nt.tid \in pending' => nt.tid \in pending
    BY <1>1 DEF Threads
  <2>3. caller.active = 0
    BY <1>0 DEF Threads
  <2> QED BY <1>0, <2>1, <2>2, <2>3 DEF Threads
<1>4. Progress'
  <2>1. Among(lk'.list, lk'.queried) = Among(lk.list, lk.queried)
    BY <1>0 DEF Among, Rank
  <2> QED BY <1>0, <2>1 DEF Progress
<1> QED BY <1>1, <1>2, <1>3, <1>4

LEMMA NetSendStep == IInv /\ NT_Send => IInv'
<1> SUFFICES ASSUME IInv, NT_Send PROVE IInv'
  OBVIOUS
<1> USE DEF IInv
<1> DEFINE todo == nt.todo
<1>0. /\ nt.pc = "send" /\ todo # <<>> /\ todo \in Seq(Contacts) /\ SendQuery(Head(todo))
      /\ nt'.pc = "send" /\ nt'.todo = Tail(todo) /\ nt'.active = nt.active
      /\ nt'.tid = nt.tid /\ nt'.answer = nt.answer /\ nt'.counted = nt.counted
      /\ nt' = [nt EXCEPT !.todo = Tail(@)]
      /\ UNCHANGED <<lk, caller, found, announced, done, lost>>
  BY Parts DEF NT_Send
<1> HIDE DEF todo
<1>1. /\ AskedOnce' /\ Answered' /\ FlightAccounted' /\ TokensOK'
      /\ Extended /\ pending' \subseteq DOMAIN queries'
      /\ \A t \in DOMAIN queries : t \in pending' => t \in pending
      /\ Tail(todo) \in Seq(Contacts)
  BY <1>0, SendKeeps DEF todo
<1>2. Typed'
  <2>1. nt' \in [pc : {"idle", "lookup", "send", "close"}, tid : Nat,
                 answer : Messages \union {None}, todo : Seq(Contacts), active : Nat,
                 counted : BOOLEAN]
    BY <1>0, <1>1 DEF Typed
  <2> QED BY <1>0, <1>1, <2>1 DEF Typed, Extended
<1>3. Threads'
  <2>1. nt.tid \in DOMAIN queries'
    BY <1>0, <1>1 DEF Threads, Extended
  <2>2. caller.pc # "new"
    BY <1>0 DEF Threads, Idle
  <2> QED BY <1>0, <2>1, <2>2 DEF Threads
<1>4. Progress'
  <2>1. Among(lk'.list, lk'.queried) = Among(lk.list, lk.queried)
    BY <1>0 DEF Among, Rank
  <2> QED BY <1>0, <2>1 DEF Progress
<1> QED BY <1>1, <1>2, <1>3, <1>4

-----------------------------------------------------------------------------
(* Forgetting queries *)

LEMMA DisjointSum ==
    ASSUME NEW A, NEW B, IsFiniteSet(A), IsFiniteSet(B), A \intersect B = {}
    PROVE  Cardinality(A \union B) = Cardinality(A) + Cardinality(B)
<1>1. Cardinality(A \union B) = Cardinality(A) + Cardinality(B) - Cardinality(A \intersect B)
  BY FS_Union
<1>2. Cardinality(A \intersect B) = 0
  BY FS_EmptySet
<1> QED BY <1>1, <1>2, FS_CardinalityType

\* A query of the lookup that is forgotten moves from the open to the lost ones.
LEMMA ExpireStep ==
    ASSUME IInv, NEW upto, MT_Expire(upto)
    PROVE  IInv'
<1> USE DEF IInv
<1> DEFINE old == {tid \in pending : tid <= upto}
           X == {tid \in old : Uncounted(tid)}
<1>0. /\ upto \in pending /\ pending' = pending \ old /\ lost' = lost \union X
      /\ UNCHANGED <<table, lk, queries, caller, nt, found, announced, done>>
  BY DEF MT_Expire
<1>1. old \subseteq pending /\ X \subseteq old /\ X \subseteq OpenQueries
      /\ OpenQueries \intersect old = X
  BY DEF OpenQueries
<1> HIDE DEF old, X
<1>2. pending' \subseteq pending /\ lost' \subseteq DOMAIN queries
  BY <1>0, <1>1 DEF Typed
<1>3. OpenQueries' = OpenQueries \ X
  BY <1>0, <1>1 DEF OpenQueries, Uncounted
<1>4. Typed'
  BY <1>0, <1>2 DEF Typed
<1>5. Threads'
  <2>1. caller.pc # "new"
    BY <1>0 DEF Threads, Typed
  <2> QED BY <1>0, <1>2, <2>1 DEF Threads
<1>6. AskedOnce' /\ Lookups' = Lookups
  BY <1>0, SameAsked
<1>7. Answered'
  <2>1. lost' \intersect pending' = {}
    BY <1>0, <1>1 DEF Answered
  <2>2. \A tid \in Lookups : tid \in OpenQueries' \/ tid \in lost' \/ queries[tid].to.ep \in lk.responding
    BY <1>0, <1>3 DEF Answered
  <2> QED BY <1>0, <1>6, <2>1, <2>2 DEF Answered
<1>8. FlightAccounted'
  <2>1. IsFiniteSet(OpenQueries) /\ IsFiniteSet(lost)
    BY TidsFinite
  <2>2. IsFiniteSet(X) /\ IsFiniteSet(OpenQueries \ X)
    BY <1>1, <2>1, FS_Subset
  <2>3. PICK e \in Nat, d \in Nat, x \in Nat :
          e = Cardinality(OpenQueries \ X) /\ d = Cardinality(lost) /\ x = Cardinality(X)
    BY <2>1, <2>2, FS_CardinalityType
  <2>4. Cardinality(OpenQueries) = e + x
    <3>1. OpenQueries = (OpenQueries \ X) \union X /\ (OpenQueries \ X) \intersect X = {}
      BY <1>1
    <3> QED BY <2>2, <2>3, <3>1, DisjointSum
  <2>5. Cardinality(lost') = d + x
    <3>1. lost \intersect X = {}
      BY <1>1 DEF Answered
    <3> QED BY <1>0, <2>1, <2>2, <2>3, <3>1, DisjointSum
  <2>6. PICK a \in Nat, b \in Nat : a = Len(caller.todo) /\ b = Len(nt.todo)
    BY Parts
  <2>7. lk.flight = a + b + (e + x) + d /\ lk.flight <= ALPHA
    BY <2>3, <2>4, <2>6 DEF FlightAccounted
  <2>8. a + b + (e + x) + d = a + b + e + (d + x)
    OBVIOUS
  <2>9. lk'.flight = a + b + e + (d + x)
    BY <1>0, <2>7, <2>8
  <2>10. lk'.flight = Len(caller'.todo) + Len(nt'.todo) + Cardinality(OpenQueries') + Cardinality(lost')
    BY <1>0, <1>3, <2>3, <2>5, <2>6, <2>9
  <2> HIDE DEF IInv
  <2> QED BY <1>0, <2>7, <2>10 DEF FlightAccounted
<1>9. Progress'
  BY <1>0 DEF Progress, Among, Rank
<1>10. TokensOK'
  BY <1>0 DEF TokensOK, Given
<1> QED BY <1>4, <1>5, <1>6, <1>7, <1>8, <1>9, <1>10

-----------------------------------------------------------------------------
(* Choosing whom to query *)

LEMMA EpsFinite ==
    ASSUME NEW s \in Seq(Contacts)
    PROVE  /\ IsFiniteSet(EpsOf(s)) /\ EpsOf(s) \subseteq Endpoints
           /\ Len(s) \in Nat
           /\ Len(s) = 0 => s = <<>> /\ EpsOf(s) = {}
           /\ Len(s) > 0 => EpsOf(s) # {}
<1> DEFINE f == [i \in DOMAIN s |-> s[i].ep]
<1>1. DOMAIN s = 1 .. Len(s) /\ Len(s) \in Nat /\ \A i \in DOMAIN s : s[i] \in Contacts
  OBVIOUS
<1>2. f \in Surjection(DOMAIN s, EpsOf(s))
  BY DEF Surjection, EpsOf
<1>3. IsFiniteSet(DOMAIN s)
  BY <1>1, FS_Interval
<1> HIDE DEF f
<1>4. IsFiniteSet(EpsOf(s))
  BY <1>2, <1>3, FS_Surjection
<1>5. EpsOf(s) \subseteq Endpoints
  BY <1>1 DEF EpsOf, Contacts
<1>6. Len(s) = 0 => s = <<>> /\ EpsOf(s) = {}
  BY <1>1 DEF EpsOf
<1>7. Len(s) > 0 => EpsOf(s) # {}
  <2> SUFFICES ASSUME Len(s) > 0 PROVE s[1].ep \in EpsOf(s)
    OBVIOUS
  <2>1. 1 \in DOMAIN s
    BY <1>1
  <2> QED BY <2>1 DEF EpsOf
<1> QED BY <1>1, <1>4, <1>5, <1>6, <1>7

\* What continue_lookup leaves.
LEMMA Continues ==
    ASSUME NEW l \in LookupStates, NEW list, NEW todo, continue_lookup(l, list, todo),
           Shortlist(list), IsFiniteSet(l.queried), Chosen(todo, list, l.queried, l.flight)
    PROVE  /\ lk' \in LookupStates /\ Shortlist(lk'.list) /\ IsFiniteSet(lk'.queried)
           /\ lk'.list = list /\ lk'.queried = l.queried \union EpsOf(todo)
           /\ lk'.flight = l.flight + Len(todo) /\ lk'.flight <= ALPHA /\ Len(todo) \in Nat
           /\ lk'.responding = l.responding /\ lk'.tokens = l.tokens
           /\ lk'.flight = 0 => /\ {c.ep : c \in list} \subseteq lk'.queried
                                /\ lk'.queried = l.queried
           /\ Len(todo) > 0 => lk'.queried # {}
<1>0. l.flight \in Nat /\ l.queried \subseteq Endpoints
  BY DEF LookupStates
<1>1. /\ todo \in Seq(Contacts) /\ l.flight + Len(todo) <= ALPHA
      /\ l.flight + Len(todo) = 0 => {c.ep : c \in list} \subseteq l.queried
  BY DEF Chosen
<1>2. /\ IsFiniteSet(EpsOf(todo)) /\ EpsOf(todo) \subseteq Endpoints
      /\ Len(todo) \in Nat
      /\ Len(todo) = 0 => todo = <<>> /\ EpsOf(todo) = {}
      /\ Len(todo) > 0 => EpsOf(todo) # {}
  BY <1>1, EpsFinite
<1>3. lk' = [l EXCEPT !.list = list, !.queried = l.queried \union EpsOf(todo),
                      !.flight = l.flight + Len(todo)]
  BY DEF continue_lookup, EpsOf
<1>4. /\ lk'.list = list /\ lk'.queried = l.queried \union EpsOf(todo)
      /\ lk'.flight = l.flight + Len(todo)
      /\ lk'.responding = l.responding /\ lk'.tokens = l.tokens
      /\ lk' = [list |-> lk'.list, queried |-> lk'.queried, responding |-> lk'.responding,
                flight |-> lk'.flight, tokens |-> lk'.tokens]
  BY <1>3 DEF LookupStates
<1>5. IsFiniteSet(lk'.queried) /\ lk'.queried \subseteq Endpoints
  BY <1>0, <1>2, <1>4, FS_Union
<1>6. lk'.flight \in Nat /\ (lk'.flight = 0 => Len(todo) = 0)
  BY <1>0, <1>2, <1>4
<1>7. lk' \in LookupStates
  <2>1. /\ lk'.list \in SUBSET Contacts /\ lk'.responding \in SUBSET Endpoints
        /\ lk'.tokens \in [Endpoints -> Nat \union {None}] /\ lk'.queried \in SUBSET Endpoints
    BY <1>4, <1>5 DEF LookupStates, Shortlist
  <2> QED BY <1>4, <1>6, <2>1 DEF LookupStates
<1>8. lk'.flight = 0 => {c.ep : c \in list} \subseteq lk'.queried /\ lk'.queried = l.queried
  <2> SUFFICES ASSUME lk'.flight = 0
               PROVE  {c.ep : c \in list} \subseteq lk'.queried /\ lk'.queried = l.queried
    OBVIOUS
  <2>1. lk'.queried = l.queried
    BY <1>2, <1>4, <1>6
  <2>2. {c.ep : c \in list} \subseteq l.queried
    BY <1>1, <1>4
  <2> QED BY <2>1, <2>2
<1> QED BY <1>1, <1>2, <1>4, <1>5, <1>6, <1>7, <1>8

\* Those chosen wait to be asked once.
LEMMA Chooses ==
    ASSUME AskedOnce, queries' = queries, NEW todo, Distinct(todo),
           EpsOf(todo) \intersect lk.queried = {}, lk'.queried = lk.queried \union EpsOf(todo),
           \/ caller.todo = <<>> /\ caller'.todo = todo /\ nt'.todo = nt.todo
           \/ nt.todo = <<>> /\ nt'.todo = todo /\ caller'.todo = caller.todo
    PROVE  AskedOnce' /\ Lookups' = Lookups
<1>1. Lookups' = Lookups
  BY DEF Lookups
<1>2. Asked' = Asked
  BY <1>1 DEF Asked
<1>3. EpsOf(<<>>) = {}
  BY DEF EpsOf
<1> DEFINE cs == EpsOf(caller.todo)
           ns == EpsOf(nt.todo)
           cs2 == EpsOf(caller'.todo)
           ns2 == EpsOf(nt'.todo)
           new == EpsOf(todo)
<1>4. \/ cs = {} /\ cs2 = new /\ ns2 = ns
      \/ ns = {} /\ ns2 = new /\ cs2 = cs
  BY <1>3
<1>5. lk.queried = Asked \union cs \union ns /\ Asked \intersect cs = {}
      /\ Asked \intersect ns = {} /\ cs \intersect ns = {}
  BY DEF AskedOnce
<1>6. Distinct(caller'.todo) /\ Distinct(nt'.todo)
  BY DEF AskedOnce
<1>7. \A s, t \in Lookups' : queries'[s].to.ep = queries'[t].to.ep => s = t
  BY <1>1 DEF AskedOnce
<1>8. new \intersect lk.queried = {} /\ lk'.queried = lk.queried \union new
  OBVIOUS
<1> HIDE DEF cs, ns, cs2, ns2, new
<1>9. lk'.queried = Asked' \union cs2 \union ns2
  BY <1>2, <1>4, <1>5, <1>8
<1>10. Asked' \intersect cs2 = {} /\ Asked' \intersect ns2 = {} /\ cs2 \intersect ns2 = {}
  BY <1>2, <1>4, <1>5, <1>8
<1> QED BY <1>1, <1>6, <1>7, <1>9, <1>10 DEF AskedOnce, cs2, ns2

\* The lookup starts from the good nodes of a sound table.
LEMMA StartStep == IInv /\ CT_Start => IInv'
<1> SUFFICES ASSUME IInv, CT_Start PROVE IInv'
  OBVIOUS
<1> USE DEF IInv
<1> DEFINE list == {Contact(n) : n \in find_closest_nodes(table, Target, LOOKUP_K)}
<1>0. /\ caller.pc = "new" /\ caller.todo = <<>>
      /\ table \in Known /\ lk.queried = {} /\ lk.flight = 0
      /\ queries = <<>> /\ nt = Idle /\ lost = {} /\ done = 0
      /\ UNCHANGED <<kind, table, queries, pending, nt, found, announced, done, lost>>
  BY DEF CT_Start, Threads
<1>1. PICK todo \in ToQuery(list, {}, 0) :
        /\ continue_lookup(lk, list, todo)
        /\ caller' = [pc |-> "send", todo |-> todo, active |-> Among(list, {})]
  BY DEF CT_Start
<1>2. Shortlist(list)
  BY <1>0, StartList
<1> HIDE DEF list
<1>3. Chosen(todo, list, {}, 0)
  BY <1>1, <1>2, ToQueryChooses, LookupAssumption
<1>4. lk \in LookupStates /\ IsFiniteSet(lk.queried) /\ Chosen(todo, list, lk.queried, lk.flight)
  BY <1>0, <1>3 DEF Typed
<1>5. /\ lk' \in LookupStates /\ Shortlist(lk'.list) /\ IsFiniteSet(lk'.queried)
      /\ lk'.list = list /\ lk'.queried = lk.queried \union EpsOf(todo)
      /\ lk'.flight = lk.flight + Len(todo) /\ lk'.flight <= ALPHA /\ Len(todo) \in Nat
      /\ lk'.responding = lk.responding /\ lk'.tokens = lk.tokens
      /\ lk'.flight = 0 => /\ {c.ep : c \in list} \subseteq lk'.queried
                           /\ lk'.queried = lk.queried
      /\ Len(todo) > 0 => lk'.queried # {}
  BY <1>1, <1>2, <1>4, Continues
<1>6. Among(list, {}) = 0
  BY <1>2, AmongTyped
<1>7. /\ caller'.pc = "send" /\ caller'.todo = todo /\ caller'.active = 0
      /\ todo \in Seq(Contacts) /\ Distinct(todo) /\ EpsOf(todo) \intersect lk.queried = {}
  BY <1>1, <1>4, <1>6 DEF Chosen
<1>8. lk'.flight = Len(todo)
  BY <1>0, <1>5
<1>9. Typed'
  <2>1. caller' \in [pc : {"new", "send", "idle", "stuck"}, todo : Seq(Contacts), active : Nat]
    BY <1>1, <1>6, <1>7
  <2> QED BY <1>0, <1>5, <2>1 DEF Typed
<1>10. Threads'
  BY <1>0, <1>7 DEF Threads, Idle
<1>11. AskedOnce' /\ Lookups' = Lookups
  BY <1>0, <1>5, <1>7, Chooses
<1>12. pending = {} /\ Lookups = {} /\ OpenQueries' = {} /\ OpenQueries = {}
  BY <1>0 DEF Typed, Lookups, OpenQueries
<1>13. Answered'
  BY <1>0, <1>11, <1>12 DEF Answered
<1>14. FlightAccounted'
  <2>1. Cardinality(OpenQueries') = 0 /\ Cardinality(lost') = 0 /\ Len(nt'.todo) = 0
    BY <1>0, <1>12, FS_EmptySet DEF Idle
  <2>2. lk'.flight = Len(caller'.todo) + Len(nt'.todo) + Cardinality(OpenQueries') + Cardinality(lost')
    BY <1>5, <1>7, <1>8, <2>1
  <2> HIDE DEF IInv
  <2> QED BY <1>5, <2>2 DEF FlightAccounted
<1>15. Progress'
  <2>1. lk'.flight > 0 => lk'.queried # {}
    BY <1>5, <1>8
  <2>2. lk'.flight = 0 => lk'.queried = {} /\ {c.ep : c \in lk'.list} \subseteq lk'.queried
    BY <1>0, <1>5
  <2>3. nt'.pc = "idle" /\ done' = 0
    BY <1>0 DEF Idle
  <2> HIDE DEF IInv
  <2> QED BY <1>7, <2>1, <2>2, <2>3 DEF Progress
<1>16. TokensOK'
  BY <1>0, <1>5 DEF TokensOK, Given
<1> QED BY <1>9, <1>10, <1>11, <1>13, <1>14, <1>15, <1>16

\* An answer is counted, and the lookup goes on.
LEMMA LookupStep == IInv /\ NT_Lookup => IInv'
<1> SUFFICES ASSUME IInv, NT_Lookup PROVE IInv'
  OBVIOUS
<1> USE DEF IInv
<1> DEFINE tid == nt.tid
           m == nt.answer
           ep == queries[nt.tid].to.ep
           l == Counted(lk, nt.tid, nt.answer)
<1>0. /\ nt.pc = "lookup" /\ tid \in pending /\ tid \in DOMAIN queries /\ queries[tid].lookup
      /\ nt.counted = FALSE /\ nt.todo = <<>> /\ m \in Messages /\ m.token \in {None, tid}
      /\ UNCHANGED <<kind, table, queries, pending, caller, found, announced, done, lost>>
      /\ caller.pc # "new"
  BY Parts DEF NT_Lookup, Threads, Idle
<1>1. PICK some \in Deduplicated(Discovered(l.list, m.nodes)) :
        \E todo \in ToQuery(Capped(some), l.queried, l.flight) :
          /\ continue_lookup(l, Capped(some), todo)
          /\ nt' = [nt EXCEPT !.pc = "send", !.todo = todo, !.counted = TRUE,
                              !.active = Among(Capped(some), l.queried)]
  BY DEF NT_Lookup
<1>2. /\ queries \in Seq(QueryRecords) /\ queries[tid] \in QueryRecords /\ ep \in Endpoints
      /\ tid \in Nat
  <2>1. queries \in Seq(QueryRecords) /\ DOMAIN queries = 1 .. Len(queries)
    BY DEF Typed
  <2>2. tid \in Nat /\ queries[tid] \in QueryRecords
    BY <1>0, <2>1
  <2> QED BY <2>1, <2>2 DEF QueryRecords, Contacts
<1>3. tid \in OpenQueries /\ tid \in Lookups /\ ep \in Asked /\ ep \in lk.queried
  <2>1. tid \in OpenQueries /\ tid \in Lookups
    BY <1>0 DEF OpenQueries, Uncounted, Lookups
  <2>2. ep \in Asked
    BY <2>1 DEF Asked
  <2> QED BY <2>1, <2>2 DEF AskedOnce
<1>4. PICK e \in Nat : Cardinality(OpenQueries) = e + 1 /\ Cardinality(OpenQueries \ {tid}) = e
  <2>1. Cardinality(OpenQueries \ {tid}) = Cardinality(OpenQueries) - 1
        /\ Cardinality(OpenQueries \ {tid}) \in Nat /\ Cardinality(OpenQueries) \in Nat
    BY <1>3, TidsFinite, FS_RemoveElement, FS_CardinalityType
  <2> QED BY <2>1
<1>5. PICK a \in Nat, d \in Nat : a = Len(caller.todo) /\ d = Cardinality(lost)
  BY Parts, TidsFinite
<1>6. lk.flight = a + (e + 1) + d /\ lk.flight <= ALPHA /\ lk.flight \in Nat /\ ALPHA \in Nat
  <2>1. Len(nt.todo) = 0
    BY <1>0
  <2>2. lk.flight = a + 0 + (e + 1) + d /\ lk.flight <= ALPHA
    BY <1>4, <1>5, <2>1 DEF FlightAccounted
  <2> QED BY <2>2, Parts, LookupAssumption
<1>7. /\ l \in LookupStates /\ l.list = lk.list /\ l.queried = lk.queried
      /\ l.responding = lk.responding \union {ep} /\ l.flight = a + e + d
      /\ l.flight \in Nat /\ l.flight <= ALPHA
      /\ \A x \in Endpoints : l.tokens[x] = lk.tokens[x] \/ (x = ep /\ l.tokens[x] \in {None, tid})
  <2> DEFINE tok == IF m.token = None THEN lk.tokens[ep] ELSE m.token
  <2>1. lk \in LookupStates /\ lk.tokens \in [Endpoints -> Nat \union {None}]
    BY DEF Typed, LookupStates
  <2>2. lk.flight > 0 /\ lk.flight - 1 = a + e + d
    BY <1>6
  <2>3. l = [lk EXCEPT !.responding = lk.responding \union {ep}, !.tokens = [lk.tokens EXCEPT ![ep] = tok],
                       !.flight = lk.flight - 1]
    BY <1>2, <2>1, <2>2 DEF Counted, LookupStates
  <2>4. tok \in Nat \union {None} /\ (tok = lk.tokens[ep] \/ tok \in {None, tid})
    BY <1>0, <1>2, <2>1
  <2> HIDE DEF tok
  <2>5. [lk.tokens EXCEPT ![ep] = tok] \in [Endpoints -> Nat \union {None}]
        /\ \A x \in Endpoints : [lk.tokens EXCEPT ![ep] = tok][x] = (IF x = ep THEN tok ELSE lk.tokens[x])
    BY <1>2, <2>1, <2>4
  <2>6. /\ l.list = lk.list /\ l.queried = lk.queried /\ l.responding = lk.responding \union {ep}
        /\ l.flight = lk.flight - 1 /\ l.tokens = [lk.tokens EXCEPT ![ep] = tok]
        /\ l = [list |-> l.list, queried |-> l.queried, responding |-> l.responding,
                flight |-> l.flight, tokens |-> l.tokens]
    BY <2>1, <2>3 DEF LookupStates
  <2>7. l.flight \in Nat /\ l.flight <= ALPHA
    BY <1>6, <2>2, <2>6
  <2>8. /\ l.list \in SUBSET Contacts /\ l.queried \in SUBSET Endpoints /\ l.responding \in SUBSET Endpoints
        /\ l.tokens \in [Endpoints -> Nat \union {None}]
    BY <1>2, <2>1, <2>5, <2>6 DEF LookupStates
  <2> HIDE DEF l
  <2>9. l \in LookupStates
    BY <2>6, <2>7, <2>8 DEF LookupStates
  <2> QED BY <2>2, <2>4, <2>5, <2>6, <2>7, <2>9
<1> HIDE DEF l
<1>8. m.nodes \in Seq(Contacts) \union {None}
  BY <1>0 DEF Messages
<1>9. Shortlist(Capped(some))
  BY <1>1, <1>7, <1>8, ContinuedList DEF Typed
<1>10. PICK list : list = Capped(some)
  OBVIOUS
<1> PICK todo \in ToQuery(list, l.queried, l.flight) :
        /\ continue_lookup(l, list, todo)
        /\ nt' = [nt EXCEPT !.pc = "send", !.todo = todo, !.counted = TRUE,
                            !.active = Among(list, l.queried)]
  BY <1>1, <1>10
<1>11. Shortlist(list) /\ Chosen(todo, list, l.queried, l.flight) /\ Among(list, l.queried) \in Nat
  BY <1>7, <1>9, <1>10, ToQueryChooses, AmongTyped
<1>12. /\ lk' \in LookupStates /\ Shortlist(lk'.list) /\ IsFiniteSet(lk'.queried)
       /\ lk'.list = list /\ lk'.queried = l.queried \union EpsOf(todo)
       /\ lk'.flight = l.flight + Len(todo) /\ lk'.flight <= ALPHA /\ Len(todo) \in Nat
       /\ lk'.responding = l.responding /\ lk'.tokens = l.tokens
       /\ lk'.flight = 0 => /\ {c.ep : c \in list} \subseteq lk'.queried
                            /\ lk'.queried = l.queried
       /\ Len(todo) > 0 => lk'.queried # {}
  <2>1. IsFiniteSet(l.queried)
    BY <1>7 DEF Typed
  <2> QED BY <1>7, <1>11, <2>1, Continues
<1>13. /\ nt'.pc = "send" /\ nt'.todo = todo /\ nt'.counted = TRUE /\ nt'.active = Among(list, l.queried)
       /\ nt'.tid = tid /\ nt'.answer = m
       /\ nt' = [pc |-> nt'.pc, tid |-> nt'.tid, answer |-> nt'.answer, todo |-> nt'.todo,
                 active |-> nt'.active, counted |-> nt'.counted]
  <2>1. nt = [pc |-> nt.pc, tid |-> nt.tid, answer |-> nt.answer, todo |-> nt.todo,
              active |-> nt.active, counted |-> nt.counted]
    BY Parts
  <2> QED BY <2>1
<1>14. todo \in Seq(Contacts) /\ Distinct(todo) /\ EpsOf(todo) \intersect lk.queried = {}
  BY <1>7, <1>11 DEF Chosen
<1> HIDE DEF tid, m, ep
<1>15. Typed'
  <2>1. nt'.counted \in BOOLEAN
    BY <1>13, Zenon
  <2>2. /\ nt'.pc \in {"idle", "lookup", "send", "close"} /\ nt'.tid \in Nat
        /\ nt'.answer \in Messages \union {None} /\ nt'.todo \in Seq(Contacts) /\ nt'.active \in Nat
    BY <1>0, <1>2, <1>11, <1>13, <1>14
  <2>3. nt' \in [pc : {"idle", "lookup", "send", "close"}, tid : Nat,
                 answer : Messages \union {None}, todo : Seq(Contacts), active : Nat,
                 counted : BOOLEAN]
    BY <1>13, <2>1, <2>2
  <2> QED BY <1>0, <1>12, <2>3 DEF Typed
<1>16. Threads'
  <2>1. nt'.answer \in Messages /\ nt'.answer.token \in {None, nt'.tid} /\ nt'.tid \in DOMAIN queries
    BY <1>0, <1>13
  <2>2. nt'.pc = "send" /\ nt'.counted
    BY <1>13
  <2> QED BY <1>0, <2>1, <2>2 DEF Threads
<1>17. AskedOnce' /\ Lookups' = Lookups
  BY <1>0, <1>7, <1>12, <1>13, <1>14, Chooses
<1>18. OpenQueries' = OpenQueries \ {tid}
  <2>1. \A t \in pending : Uncounted(t)' <=> queries[t].lookup /\ t # tid
    BY <1>0, <1>13 DEF Uncounted
  <2>2. \A t \in pending : Uncounted(t) <=> queries[t].lookup
    BY <1>0 DEF Uncounted
  <2> QED BY <1>0, <2>1, <2>2 DEF OpenQueries
<1>19. Answered'
  <2>1. lk'.responding = lk.responding \union {ep}
    BY <1>7, <1>12
  <2>2. \A t \in Lookups : t \in OpenQueries' \/ t \in lost \/ queries[t].to.ep \in lk'.responding
    <3> SUFFICES ASSUME NEW t \in Lookups, t \notin OpenQueries', t \notin lost
                 PROVE queries[t].to.ep \in lk'.responding
      OBVIOUS
    <3>1. CASE t = tid
      BY <2>1, <3>1 DEF ep, tid
    <3>2. CASE t # tid
      BY <1>18, <2>1, <3>2 DEF Answered
    <3> QED BY <3>1, <3>2
  <2> QED BY <1>0, <1>17, <2>2 DEF Answered
<1>20. FlightAccounted'
  <2>1. PICK n \in Nat : n = Len(todo)
    BY <1>12
  <2>2. lk'.flight = (a + e + d) + n
    BY <1>7, <1>12, <2>1
  <2>3. (a + e + d) + n = a + n + e + d
    OBVIOUS
  <2>4. Len(caller'.todo) = a /\ Len(nt'.todo) = n /\ Cardinality(OpenQueries') = e /\ Cardinality(lost') = d
    BY <1>0, <1>4, <1>5, <1>13, <1>18, <2>1
  <2>5. lk'.flight = Len(caller'.todo) + Len(nt'.todo) + Cardinality(OpenQueries') + Cardinality(lost')
    BY <2>2, <2>3, <2>4
  <2> HIDE DEF IInv
  <2> QED BY <1>12, <2>5 DEF FlightAccounted
<1>21. Progress'
  <2>1. lk'.queried # {} /\ caller'.pc # "stuck"
    BY <1>0, <1>3, <1>7, <1>12 DEF Progress
  <2>2. done' # 1 /\ done' <= 1
    <3>1. lk.flight # 0
      BY <1>6
    <3> QED BY <1>0, <3>1 DEF Progress
  <2>3. lk'.flight = 0 => nt'.active = Among(lk'.list, lk'.queried)
    BY <1>12, <1>13
  <2>4. lk'.flight = 0 => {c.ep : c \in lk'.list} \subseteq lk'.queried
    BY <1>12
  <2> HIDE DEF IInv
  <2> QED BY <1>13, <2>1, <2>2, <2>3, <2>4 DEF Progress
<1>22. TokensOK'
  <2>1. \A x, t : Given(x, t)' <=> Given(x, t)
    BY <1>0 DEF Given
  <2>2. Given(ep, tid)
    BY <1>0 DEF Given, ep, tid
  <2>3. \A x \in Endpoints : lk'.tokens[x] = lk.tokens[x] \/ (x = ep /\ lk'.tokens[x] \in {None, tid})
    BY <1>7, <1>12
  <2> QED BY <1>0, <2>1, <2>2, <2>3 DEF TokensOK
<1> QED BY <1>15, <1>16, <1>17, <1>19, <1>20, <1>21, <1>22

-----------------------------------------------------------------------------
(* The end of a lookup *)

\* The announcements are queries that are not the lookup's, with tokens it was
\* given by the nodes they go to.
LEMMA Announces ==
    ASSUME IInv, AnnounceAll, lk' = lk
    PROVE  /\ Extended
           /\ \A t \in DOMAIN queries' : t \notin DOMAIN queries => ~queries'[t].lookup
           /\ pending \subseteq pending' /\ pending' \subseteq DOMAIN queries'
           /\ \A t \in pending' : t \in pending \/ t \notin DOMAIN queries
           /\ TokensOK'
<1> USE DEF IInv
<1> DEFINE Has(c) == lk.tokens[c.ep] # None
<1>1. PICK list \in Sorted(lk.list, Target) :
      /\ announced' = announced \union
           {[to |-> c.ep, token |-> lk.tokens[c.ep]] : c \in {d \in lk.list : Has(d)}}
      /\ queries' = queries \o [i \in DOMAIN list |->
           [to |-> list[i], lookup |-> FALSE, callback |-> ~Has(list[i])]]
      /\ pending' = pending \union {Len(queries) + i : i \in DOMAIN list}
  BY DEF AnnounceAll
<1>2. PICK k : k = Cardinality(lk.list)
  OBVIOUS
<1>3. k \in Nat
  BY <1>2, FS_CardinalityType DEF Typed, Shortlist
<1>4. list \in [1 .. k -> lk.list] /\ DOMAIN list = 1 .. k /\ lk.list \subseteq Contacts
  BY <1>2, Parts DEF Sorted
<1> DEFINE more == [i \in DOMAIN list |-> [to |-> list[i], lookup |-> FALSE, callback |-> ~Has(list[i])]]
<1>5. /\ more \in Seq(QueryRecords) /\ Len(more) = k /\ DOMAIN more = 1 .. k
      /\ \A i \in 1 .. k : more[i].lookup = FALSE
  <2>1. \A i \in 1 .. k : /\ [to |-> list[i], lookup |-> FALSE, callback |-> ~Has(list[i])] \in QueryRecords
                          /\ [to |-> list[i], lookup |-> FALSE, callback |-> ~Has(list[i])].lookup = FALSE
    <3> SUFFICES ASSUME NEW i \in 1 .. k
                 PROVE /\ [to |-> list[i], lookup |-> FALSE, callback |-> ~Has(list[i])] \in QueryRecords
                       /\ [to |-> list[i], lookup |-> FALSE, callback |-> ~Has(list[i])].lookup = FALSE
      OBVIOUS
    <3>1. list[i] \in Contacts
      BY <1>4
    <3> QED BY <3>1 DEF QueryRecords
  <2>2. more = [i \in 1 .. k |-> [to |-> list[i], lookup |-> FALSE, callback |-> ~Has(list[i])]]
    BY <1>4
  <2>3. more \in [1 .. k -> QueryRecords]
    BY <2>1, <2>2
  <2>4. \A i \in 1 .. k : more[i].lookup = FALSE
    BY <2>1, <2>2
  <2> HIDE DEF more
  <2> QED BY <1>3, <2>3, <2>4
<1> HIDE DEF more
<1>6. queries \in Seq(QueryRecords) /\ DOMAIN queries = 1 .. Len(queries) /\ Len(queries) \in Nat
      /\ pending \subseteq DOMAIN queries
  BY DEF Typed
<1>7. PICK n \in Nat : n = Len(queries)
  BY <1>6
<1>8. /\ queries' \in Seq(QueryRecords) /\ DOMAIN queries' = 1 .. n + k
      /\ \A i \in 1 .. n : queries'[i] = queries[i]
      /\ \A i \in 1 .. k : queries'[n + i] = more[i]
  <2>1. queries' = queries \o more
    BY <1>1 DEF more
  <2>2. queries' \in Seq(QueryRecords) /\ Len(queries') = n + k /\ DOMAIN queries' = 1 .. n + k
    <3>1. (queries \o more) \in Seq(QueryRecords)
      BY <1>5, <1>6
    <3>2. Len(queries \o more) = Len(queries) + Len(more)
      BY <1>5, <1>6
    <3>3. Len(queries') = n + k
      BY <1>5, <1>7, <2>1, <3>2
    <3>4. queries' \in Seq(QueryRecords)
      BY <2>1, <3>1
    <3> HIDE DEF IInv
    <3> QED BY <3>3, <3>4
  <2>3. \A i \in 1 .. n + k : queries'[i] = IF i <= n THEN queries[i] ELSE more[i - n]
    <3>1. \A i \in 1 .. Len(queries) + Len(more) :
            (queries \o more)[i] = IF i <= Len(queries) THEN queries[i] ELSE more[i - Len(queries)]
      BY <1>5, <1>6
    <3> QED BY <1>5, <1>7, <2>1, <3>1
  <2>4. \A i \in 1 .. k : n + i \in 1 .. n + k /\ ~(n + i <= n) /\ (n + i) - n = i
    BY <1>3
  <2>5. \A i \in 1 .. n : i \in 1 .. n + k /\ i <= n
    BY <1>3
  <2> QED BY <2>2, <2>3, <2>4, <2>5
<1>9. Extended
  BY <1>3, <1>6, <1>7, <1>8 DEF Extended
<1>10. \A t \in DOMAIN queries' : t \notin DOMAIN queries => ~queries'[t].lookup
  <2> SUFFICES ASSUME NEW t \in 1 .. n + k, t \notin 1 .. n PROVE queries'[t].lookup = FALSE
    BY <1>6, <1>7, <1>8
  <2>1. t - n \in 1 .. k /\ n + (t - n) = t
    BY <1>3
  <2>2. queries'[n + (t - n)] = more[t - n]
    BY <1>8, <2>1
  <2>3. queries'[t] = more[t - n]
    BY <2>1, <2>2
  <2> QED BY <1>5, <2>1, <2>3
<1>11. pending' = pending \union {n + i : i \in 1 .. k}
  BY <1>1, <1>4, <1>7
<1>12. \A i \in 1 .. k : n + i \in DOMAIN queries' /\ n + i \notin DOMAIN queries
  BY <1>3, <1>6, <1>7, <1>8
<1>13. pending' \subseteq DOMAIN queries'
  BY <1>6, <1>9, <1>11, <1>12 DEF Extended
<1>14. TokensOK'
  <2>1. \A e, t : Given(e, t) => Given(e, t)'
    BY <1>9 DEF Given, Extended
  <2>2. \A a \in announced' : a \in announced \/ Given(a.to, a.token)
    <3> SUFFICES ASSUME NEW c \in lk.list, lk.tokens[c.ep] # None PROVE Given(c.ep, lk.tokens[c.ep])
      BY <1>1
    <3>1. c.ep \in Endpoints
      BY <1>4 DEF Contacts
    <3> QED BY <3>1 DEF TokensOK
  <2> QED BY <2>1, <2>2 DEF TokensOK
<1> QED BY <1>9, <1>10, <1>11, <1>12, <1>13, <1>14

LEMMA FinishStep == IInv /\ NT_Finish => IInv'
<1> SUFFICES ASSUME IInv, NT_Finish PROVE IInv'
  OBVIOUS
<1> USE DEF IInv
<1>0. /\ nt.pc = "send" /\ nt.todo = <<>> /\ lk.flight = 0 /\ nt.counted = TRUE
      /\ caller.pc = "idle" /\ done' = done + 1
      /\ nt'.pc = "close" /\ nt'.tid = nt.tid /\ nt'.answer = nt.answer /\ nt'.todo = nt.todo
      /\ nt'.active = nt.active /\ nt'.counted = nt.counted
      /\ nt' = [nt EXCEPT !.pc = "close"]
      /\ UNCHANGED <<kind, lk, caller, found, lost>>
  <2>1. nt.counted = TRUE
    BY Parts DEF NT_Finish, Threads
  <2> QED BY <2>1, Parts DEF NT_Finish, Terminates
<1>1. done = 0 /\ done' = 1
  <2>1. done # 1 /\ done <= 1 /\ done \in Nat
    BY <1>0 DEF Progress, Typed
  <2> QED BY <1>0, <2>1
<1>2. /\ Extended
      /\ \A t \in DOMAIN queries' : t \notin DOMAIN queries => ~queries'[t].lookup
      /\ pending \subseteq pending' /\ pending' \subseteq DOMAIN queries'
      /\ \A t \in pending' : t \in pending \/ t \notin DOMAIN queries
      /\ TokensOK'
  <2>1. CASE kind = "announce"
    <3>1. AnnounceAll
      BY <2>1 DEF NT_Finish
    <3> QED BY <1>0, <3>1, Announces
  <2>2. CASE kind # "announce"
    <3>1. UNCHANGED <<announced, queries, pending>>
      BY <2>2 DEF NT_Finish
    <3> QED BY <1>0, <3>1 DEF Extended, Typed, TokensOK, Given
  <2> QED BY <2>1, <2>2
<1>3. Lookups' = Lookups /\ Asked' = Asked
  BY <1>2, OtherQueries
<1>4. OpenQueries' = OpenQueries
  <2>1. \A t \in pending : Uncounted(t)' <=> Uncounted(t)
    BY <1>0, <1>2 DEF Uncounted, Extended, Typed
  <2>2. \A t \in pending' : t \notin pending => ~Uncounted(t)'
    BY <1>2 DEF Uncounted
  <2> QED BY <1>2, <2>1, <2>2 DEF OpenQueries, Uncounted
<1>5. Typed'
  <2>1. nt' \in [pc : {"idle", "lookup", "send", "close"}, tid : Nat,
                 answer : Messages \union {None}, todo : Seq(Contacts), active : Nat,
                 counted : BOOLEAN]
    BY <1>0 DEF Typed
  <2> QED BY <1>0, <1>1, <1>2, <2>1 DEF Typed, Extended
<1>6. Threads'
  <2>1. nt'.tid \in DOMAIN queries' /\ nt'.answer \in Messages /\ nt'.answer.token \in {None, nt'.tid}
    BY <1>0, <1>2 DEF Threads, Extended
  <2>2. caller.todo = <<>>
    BY <1>0 DEF Threads
  <2> QED BY <1>0, <2>1, <2>2 DEF Threads
<1>7. AskedOnce'
  BY <1>0, <1>2, <1>3, OthersAsked
<1>8. Answered'
  <2>1. lost' \intersect pending' = {}
    BY <1>0, <1>2 DEF Answered, Typed
  <2> QED BY <1>0, <1>2, <1>3, <1>4, <2>1, OthersAnswered
<1>9. FlightAccounted'
  BY <1>0, <1>4 DEF FlightAccounted
<1>10. Progress'
  BY <1>0, <1>1 DEF Progress, Among, Rank
<1> QED BY <1>2, <1>5, <1>6, <1>7, <1>8, <1>9, <1>10

-----------------------------------------------------------------------------
(* The theorems *)

LEMMA StutterStep == IInv /\ UNCHANGED vars => IInv'
<1> SUFFICES ASSUME IInv, UNCHANGED vars PROVE IInv'
  OBVIOUS
<1> USE DEF IInv
<1>0. UNCHANGED <<table, lk, queries, pending, caller, nt, found, announced, done, lost>>
  BY DEF vars
<1>1. Typed' /\ Threads' /\ TokensOK'
  BY <1>0 DEF Typed, Threads, TokensOK, Given
<1>2. OpenQueries' = OpenQueries
  BY <1>0 DEF OpenQueries, Uncounted
<1>3. AskedOnce' /\ Lookups' = Lookups
  BY <1>0, SameAsked
<1>4. Answered'
  BY <1>0, <1>2, <1>3, SameAnswered
<1>5. FlightAccounted' /\ Progress'
  BY <1>0, <1>2 DEF FlightAccounted, Progress, Among, Rank
<1> QED BY <1>1, <1>3, <1>4, <1>5

LEMMA StepIInv == IInv /\ [Next]_vars => IInv'
<1> SUFFICES ASSUME IInv, [Next]_vars PROVE IInv'
  OBVIOUS
<1>1. CASE CT_Start
  BY <1>1, StartStep
<1>2. CASE CT_Send
  BY <1>2, CallerSendStep
<1>3. CASE CT_Check
  BY <1>3, CheckStep
<1>4. CASE \E tid \in DOMAIN queries : Answer(tid)
  <2>0. PICK tid \in DOMAIN queries : Answer(tid)
    BY <1>4
  <2>1. PICK id \in {queries[tid].to.id} \union OtherIds :
          \E d \in AnswersTo(tid, id) : NT_Response(d) \/ NT_Query(d, queries[tid].to.ep)
    BY <2>0 DEF Answer
  <2>2. PICK d \in AnswersTo(tid, id) : NT_Response(d) \/ NT_Query(d, queries[tid].to.ep)
    BY <2>1
  <2>3. caller.pc # "new"
    BY <2>2 DEF IInv, Threads, Typed
  <2>4. id \in NodeID
    <3>1. queries \in Seq(QueryRecords)
      BY DEF IInv, Typed
    <3>2. queries[tid] \in QueryRecords
      BY <3>1
    <3>3. queries[tid].to.id \in NodeID
      BY <3>2 DEF QueryRecords, Contacts
    <3> QED BY <2>1, <3>3, LookupAssumption
  <2> QED BY <2>2, <2>3, <2>4, ResponseStep, QueryStep
<1>5. CASE NetworkThread
  BY <1>5, LookupStep, LateStep, NetSendStep, GoOnStep, FinishStep, CloseStep DEF NetworkThread
<1>6. CASE \E upto \in DOMAIN queries : MT_Expire(upto)
  BY <1>6, ExpireStep
<1>7. CASE UNCHANGED vars
  BY <1>7, StutterStep
<1> QED BY <1>1, <1>2, <1>3, <1>4, <1>5, <1>6, <1>7 DEF Next

\* The inductive invariant of a lookup: whoever is in the shortlist's queried set
\* was sent one query or waits for it, and every query sent is open, forgotten by
\* cleanup_expired_queries, or answered and counted by handle_lookup_response.
THEOREM Invariance == Spec => []IInv
<1>1. Init => IInv
  BY InitIInv
<1>2. IInv /\ [Next]_vars => IInv'
  BY StepIInv
<1> QED BY <1>1, <1>2, PTL DEF Spec

\* in_flight counts exactly the queries chosen, open or forgotten, and continue_lookup
\* never exceeds LOOKUP_ALPHA, whatever answers come, repeat or are late.
THEOREM FlightIsAccounted == Spec => []FlightAccounted
<1>1. IInv => FlightAccounted
  BY DEF IInv
<1> QED BY <1>1, Invariance, PTL

\* A lookup whose count of open queries is 0 has nothing open, and everybody it
\* asked has answered.
LEMMA NothingOpen ==
    ASSUME IInv, lk.flight = 0
    PROVE  /\ OpenQueries = {} /\ lost = {} /\ caller.todo = <<>> /\ nt.todo = <<>>
           /\ lk.queried \subseteq lk.responding
<1> USE DEF IInv
<1>1. PICK a \in Nat, b \in Nat, e \in Nat, d \in Nat :
        a = Len(caller.todo) /\ b = Len(nt.todo) /\ e = Cardinality(OpenQueries) /\ d = Cardinality(lost)
  BY Parts, TidsFinite
<1>2. a + b + e + d = 0
  BY <1>1 DEF FlightAccounted
<1>3. a = 0 /\ b = 0 /\ e = 0 /\ d = 0
  BY <1>2
<1>4. OpenQueries = {} /\ lost = {}
  BY <1>1, <1>3, TidsFinite, FS_EmptySet
<1>5. caller.todo = <<>> /\ nt.todo = <<>> /\ EpsOf(caller.todo) = {} /\ EpsOf(nt.todo) = {}
  BY <1>1, <1>3, Parts, EpsFinite
<1>6. lk.queried = Asked
  BY <1>5 DEF AskedOnce
<1>7. Asked \subseteq lk.responding
  BY <1>4 DEF Asked, Answered
<1> QED BY <1>4, <1>5, <1>6, <1>7

\* finish_lookup runs once at most, and only when every node of the shortlist was
\* queried and has answered, and no query of the lookup is open.
THEOREM FinishedIsComplete == Spec => []FinishedComplete
<1>1. ASSUME IInv PROVE FinishedComplete
  <2> USE DEF IInv
  <2>1. done <= 1
    BY <1>1 DEF Progress
  <2>2. ASSUME done = 1
        PROVE  /\ {c.ep : c \in lk.list} \subseteq lk.responding
               /\ OpenQueries = {} /\ caller.todo = <<>> /\ nt.todo = <<>>
    <3>1. lk.flight = 0 /\ {c.ep : c \in lk.list} \subseteq lk.queried
      BY <1>1, <2>2 DEF Progress
    <3>2. OpenQueries = {} /\ caller.todo = <<>> /\ nt.todo = <<>> /\ lk.queried \subseteq lk.responding
      BY <1>1, <3>1, NothingOpen
    <3> QED BY <3>1, <3>2
  <2> QED BY <2>1, <2>2 DEF FinishedComplete
<1> QED BY <1>1, Invariance, PTL

\* A lookup for which nothing is open any more has finished, unless a query was
\* forgotten or continue_lookup counted fewer of the K closest than were queried;
\* its starter locks lookups_mutex_ twice only when it knew no good node.
THEOREM StallsAreExplained == Spec => []StallsOnlyWhen
<1>1. ASSUME IInv PROVE StallsOnlyWhen
  <2> USE DEF IInv
  <2>1. ASSUME Quiet, done = 0, lost = {}
        PROVE  Among(lk.list, lk.queried) # Cardinality(lk.queried)
    <3>1. caller.pc = "idle" /\ nt.pc = "idle" /\ OpenQueries = {}
      BY <2>1 DEF Quiet
    <3>2. Len(caller.todo) = 0 /\ Len(nt.todo) = 0
      BY <1>1, <3>1 DEF Threads
    <3>3. Cardinality(OpenQueries) = 0 /\ Cardinality(lost) = 0
      BY <2>1, <3>1, FS_EmptySet
    <3>4. lk.flight = 0
      BY <1>1, <3>2, <3>3 DEF FlightAccounted
    <3> QED BY <1>1, <2>1, <3>1, <3>4 DEF Progress
  <2>2. ASSUME caller.pc = "stuck" PROVE lk.list = {}
    <3>1. lk.queried = {} /\ lk.flight = 0
      BY <1>1, <2>2, Parts DEF Progress
    <3>2. {c.ep : c \in lk.list} \subseteq {}
      BY <1>1, <2>2, <3>1 DEF Progress
    <3> QED BY <3>2
  <2> QED BY <2>1, <2>2 DEF StallsOnlyWhen
<1> QED BY <1>1, Invariance, PTL

\* announce_callback sends to a node the token of that node's own answer, and no
\* address is queried twice by one lookup.
THEOREM TokensDoBelong == Spec => []TokensBelong
<1>1. IInv => TokensBelong
  BY DEF IInv, TokensOK, Given, AskedOnce, Lookups, TokensBelong
<1> QED BY <1>1, Invariance, PTL
=============================================================================
