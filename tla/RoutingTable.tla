----------------------------- MODULE RoutingTable ---------------------------
(***************************************************************************)
(* The routing table of the DHT as a value: NodeID, KBucket and            *)
(* RoutingTable of dht/node.cpp.  A node id is a row of bits, so that the  *)
(* XOR metric and its buckets are the code's for ids of any width.  Times  *)
(* are ages in minutes of some scale and saturate where no comparison of   *)
(* the code tells them apart.                                              *)
(***************************************************************************)
EXTENDS Integers, Sequences, FiniteSets, SequencesExt

CONSTANTS
    IdBits,      \* ID_SIZE * 8
    K,           \* KBucket::K
    Endpoints,   \* ip and port
    GoodFor,     \* a node seen less long ago is good (15 minutes)
    BadAfter,    \* a node not seen for so long is bad (60 minutes)
    RefreshAfter \* a node not queried for so long is pinged (15 minutes)

ASSUME TableAssumption ==
    /\ IdBits \in Nat \ {0}
    /\ K \in Nat \ {0}
    /\ GoodFor \in Nat \ {0} /\ BadAfter \in Nat /\ GoodFor <= BadAfter
    /\ RefreshAfter \in Nat \ {0}

NodeID == [1 .. IdBits -> {0, 1}]
ZeroID == [i \in 1 .. IdBits |-> 0]

\* A DHTNode.  failed_queries is left out: nothing calls mark_query_failed.
Node == [id : NodeID, ep : Endpoints, seen : 0 .. BadAfter, query : 0 .. RefreshAfter]

Contact(n) == [id |-> n.id, ep |-> n.ep]
Contacts == [id : NodeID, ep : Endpoints]

\* A node just heard of: last_query is the epoch of the clock.
Heard(c) == [id |-> c.id, ep |-> c.ep, seen |-> 0, query |-> RefreshAfter]

distance(a, b) == [i \in 1 .. IdBits |-> (a[i] + b[i]) % 2]

Less(a, b) == \E i \in 1 .. IdBits : a[i] < b[i] /\ \A j \in 1 .. i - 1 : a[j] = b[j]

bucket_index(d) ==
    IF d = ZeroID THEN 0
    ELSE IdBits - (CHOOSE i \in 1 .. IdBits : d[i] = 1 /\ \A j \in 1 .. i - 1 : d[j] = 0)

Good(n) == n.seen < GoodFor
Bad(n) == n.seen >= BadAfter

-----------------------------------------------------------------------------
(* KBucket: a sequence of nodes *)

Position(b, id) == {i \in DOMAIN b : b[i].id = id}

FirstBad(b) == {i \in DOMAIN b : Bad(b[i]) /\ \A j \in 1 .. i - 1 : ~Bad(b[j])}

\* Mutant: a full bucket drops its first node, whatever its state.
KBucketAddAlways(b, n) ==
    IF Position(b, n.id) # {} THEN [i \in DOMAIN b |-> IF b[i].id = n.id THEN n ELSE b[i]]
    ELSE IF Len(b) < K THEN Append(b, n)
    ELSE [b EXCEPT ![1] = n]

\* KBucket::add_node and try_replace_bad_node.
KBucketAdd(b, n) ==
    IF Position(b, n.id) # {} THEN [i \in DOMAIN b |-> IF b[i].id = n.id THEN n ELSE b[i]]
    ELSE IF Len(b) < K THEN Append(b, n)
    ELSE [i \in DOMAIN b |-> IF i \in FirstBad(b) THEN n ELSE b[i]]

\* The elements of s that are in S, in their order: std::remove_if and erase.
Kept(s, S) ==
    LET kept[i \in 0 .. Len(s)] ==
          IF i = 0 THEN <<>>
          ELSE IF s[i] \in S THEN Append(kept[i - 1], s[i]) ELSE kept[i - 1]
    IN  kept[Len(s)]

KBucketRemove(b, id) == Kept(b, {n \in ToSet(b) : n.id # id})

-----------------------------------------------------------------------------
(* RoutingTable: own id and one bucket per bit *)

Buckets == 0 .. IdBits - 1

EmptyTable(id) == [own |-> id, buckets |-> [i \in Buckets |-> <<>>]]

get_bucket_index(t, id) == bucket_index(distance(t.own, id))

add_node(t, n) ==
    IF n.id = t.own THEN t
    ELSE [t EXCEPT !.buckets[get_bucket_index(t, n.id)] = KBucketAdd(@, n)]

\* One contact after the other.
add_nodes(t, contacts) ==
    LET added[i \in 0 .. Len(contacts)] ==
          IF i = 0 THEN t ELSE add_node(added[i - 1], Heard(contacts[i]))
    IN  added[Len(contacts)]

remove_node(t, id) ==
    [t EXCEPT !.buckets[get_bucket_index(t, id)] = KBucketRemove(@, id)]

update_last_seen(t, id) ==
    [t EXCEPT !.buckets[get_bucket_index(t, id)] =
       [i \in DOMAIN @ |-> IF @[i].id = id THEN [@[i] EXCEPT !.seen = 0] ELSE @[i]]]

mark_query_sent(t, id) ==
    [t EXCEPT !.buckets[get_bucket_index(t, id)] =
       [i \in DOMAIN @ |-> IF @[i].id = id THEN [@[i] EXCEPT !.query = 0] ELSE @[i]]]

\* Queries to several nodes mark each of them.
mark_queries_sent(t, ids) ==
    [t EXCEPT !.buckets = [i \in Buckets |->
       [j \in DOMAIN t.buckets[i] |->
          LET n == t.buckets[i][j] IN IF n.id \in ids THEN [n EXCEPT !.query = 0] ELSE n]]]

get_all_nodes(t) == UNION {ToSet(t.buckets[i]) : i \in Buckets}

get_good_nodes(t) == {n \in get_all_nodes(t) : Good(n)}

Closer(target, a, b) == Less(distance(a.id, target), distance(b.id, target))

\* The ways to list some nodes, the closest first.
Sorted(nodes, target) ==
    {s \in [1 .. Cardinality(nodes) -> nodes] :
       \A i, j \in DOMAIN s : i < j => Closer(target, s[i], s[j])}

\* The count closest of the good nodes.
find_closest_nodes(t, target, count) ==
    LET all == get_good_nodes(t) IN
    {n \in all : Cardinality({o \in all : Closer(target, o, n)}) < count}

get_nodes_needing_refresh(t) == {n \in get_all_nodes(t) : n.query >= RefreshAfter}

\* The file: own id and contacts of the good nodes, bucket by bucket.
serialize(t) ==
    [own |-> t.own,
     nodes |-> FlattenSeq([i \in 1 .. IdBits |->
                 LET b == t.buckets[i - 1]
                     good == Kept(b, {n \in ToSet(b) : Good(n)})
                 IN
                 [j \in DOMAIN good |-> Contact(good[j])]])]

\* Mutant: the nodes are filed before the saved id replaces ours.
DeserializeLate(t, file) ==
    [add_nodes(t, file.nodes) EXCEPT !.own = file.own]

deserialize(t, file) == add_nodes([t EXCEPT !.own = file.own], file.nodes)

\* One unit of time.
Older(t) ==
    [t EXCEPT !.buckets = [i \in Buckets |->
       [j \in DOMAIN t.buckets[i] |->
          [t.buckets[i][j] EXCEPT !.seen = IF @ < BadAfter THEN @ + 1 ELSE @,
                                  !.query = IF @ < RefreshAfter THEN @ + 1 ELSE @]]]]

-----------------------------------------------------------------------------
(* A table of Kademlia: a node is filed once, in the bucket of its distance   *)
(* from the own id, the own id is not among them, no bucket is over-full.     *)

RoutingTables == [own : NodeID, buckets : [Buckets -> Seq(Node)]]

Sound(t) ==
    \A i \in Buckets :
      LET b == t.buckets[i] IN
      /\ Len(b) <= K
      /\ \A j \in DOMAIN b : /\ b[j].id # t.own
                             /\ get_bucket_index(t, b[j].id) = i
                             /\ \A k \in DOMAIN b : b[k].id = b[j].id => k = j
=============================================================================
