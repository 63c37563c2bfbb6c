-------------------------------- MODULE Krpc --------------------------------
(***************************************************************************)
(* The messages of the DHT (dht/protocol.cpp).  A datagram is the bencoded *)
(* dictionary its bytes parse to; None stands for a key that is absent.    *)
(* encode and decode translate between messages and dictionaries the way   *)
(* the code does: what is left out when empty, what is taken for granted   *)
(* when absent, and in which order the two bytes of a port travel.         *)
(***************************************************************************)
EXTENDS RoutingTable

CONSTANTS
    None,     \* an absent optional, an absent key
    Garbage   \* an enum variable nobody assigned, when it is no enumerator

QueryType == {"ping", "find_node", "get_peers", "announce_peer"}

-----------------------------------------------------------------------------
(* Ports: a uint16_t is the pair of its high and its low byte *)

Ports == (0 .. 255) \X (0 .. 255)

\* htons and ntohs of the little-endian machines the program is built for.
Swap(p) == <<p[2], p[1]>>

\* compact::encode_nodes: the high, then the low byte of htons(port).
WireNode(c) == [id |-> c.id, ip |-> c.ep.ip, bytes |-> Swap(c.ep.port)]

\* Mutant: the bytes are taken as they come.
UnwireNodePlain(w) == [id |-> w.id, ep |-> [ip |-> w.ip, port |-> w.bytes]]

\* compact::decode_nodes: ntohs of the two bytes, first byte high.
UnwireNode(w) == [id |-> w.id, ep |-> [ip |-> w.ip, port |-> Swap(w.bytes)]]

\* The list "values": the bytes of htons(port) as they lie in memory.
WirePeer(ep) == [ip |-> ep.ip, bytes |-> ep.port]
UnwirePeer(w) == [ip |-> w.ip, port |-> w.bytes]

-----------------------------------------------------------------------------
(* Dictionaries *)

\* The arguments "a" and the values "r".
NoArgs == [id |-> None, target |-> None, info_hash |-> None, port |-> None,
           token |-> None, implied_port |-> None]
NoValues == [id |-> None, nodes |-> None, values |-> None, token |-> None]

\* QueryMessage::encode of a message of query::ping, find_node, get_peers or
\* announce_peer: an implied port of false is not written.
EncodeQuery(m) ==
    [t |-> m.tid, q |-> m.query_type, r |-> NoValues,
     a |-> [id |-> m.id, target |-> m.target, info_hash |-> m.info_hash, port |-> m.port,
            token |-> m.token,
            implied_port |-> IF m.implied_port = TRUE THEN 1 ELSE None]]

\* QueryMessage::decode.  The key "y" is not looked at, and a dictionary without
\* "q" passes with a query_type that was never assigned.
DecodeQuery(d) ==
    IF d.q # None /\ d.q \notin QueryType THEN None
    ELSE [tid |-> d.t,
          query_type |-> d.q,
          id |-> IF d.a.id = None THEN ZeroID ELSE d.a.id,
          target |-> d.a.target, info_hash |-> d.a.info_hash, port |-> d.a.port,
          token |-> d.a.token,
          implied_port |-> IF d.a.implied_port = None THEN None ELSE d.a.implied_port # 0]

\* What switch (query.query_type) may find.
SwitchValues(m) == IF m.query_type = None THEN QueryType \union {Garbage} ELSE {m.query_type}

\* ResponseMessage::encode: empty lists are not written.
EncodeResponse(m) ==
    [t |-> m.tid, q |-> None, a |-> NoArgs,
     r |-> [id |-> m.id,
            nodes |-> IF m.nodes \in {None, <<>>} THEN None
                      ELSE [i \in DOMAIN m.nodes |-> WireNode(m.nodes[i])],
            values |-> IF m.peers \in {None, <<>>} THEN None
                       ELSE [i \in DOMAIN m.peers |-> WirePeer(m.peers[i])],
            token |-> m.token]]

\* ResponseMessage::decode: every dictionary passes.
DecodeResponse(d) ==
    [tid |-> d.t,
     id |-> IF d.r.id = None THEN ZeroID ELSE d.r.id,
     nodes |-> IF d.r.nodes = None THEN None
               ELSE [i \in DOMAIN d.r.nodes |-> UnwireNode(d.r.nodes[i])],
     peers |-> IF d.r.values \in {None, <<>>} THEN None
               ELSE [i \in DOMAIN d.r.values |-> UnwirePeer(d.r.values[i])],
     token |-> d.r.token]

\* ErrorMessage::encode and error::protocol_error: "e" and "t" only.
EncodeError(tid) == [t |-> tid, q |-> None, a |-> NoArgs, r |-> NoValues]

\* DHTClient::run: the first decoder that accepts.  ErrorMessage::decode is never
\* reached, since ResponseMessage::decode accepts every dictionary.
Dispatch(d) == IF DecodeQuery(d) # None THEN "query" ELSE "response"

-----------------------------------------------------------------------------
(* Builders *)

query_ping(own, tid) ==
    [tid |-> tid, query_type |-> "ping", id |-> own, target |-> None, info_hash |-> None,
     port |-> None, token |-> None, implied_port |-> None]

query_find_node(own, target, tid) ==
    [query_ping(own, tid) EXCEPT !.query_type = "find_node", !.target = target]

query_get_peers(own, hash, tid) ==
    [query_ping(own, tid) EXCEPT !.query_type = "get_peers", !.info_hash = hash]

query_announce_peer(own, hash, port, token, tid) ==
    [query_ping(own, tid) EXCEPT !.query_type = "announce_peer", !.info_hash = hash,
                                 !.port = port, !.token = token, !.implied_port = FALSE]

\* response::ping and response::announce_peer.
response_ping(own, tid) ==
    [tid |-> tid, id |-> own, nodes |-> None, peers |-> None, token |-> None]

response_find_node(own, nodes, tid) == [response_ping(own, tid) EXCEPT !.nodes = nodes]

response_get_peers_with_nodes(own, nodes, token, tid) ==
    [response_find_node(own, nodes, tid) EXCEPT !.token = token]

response_get_peers_with_values(own, peers, token, tid) ==
    [tid |-> tid, id |-> own, nodes |-> None, peers |-> peers, token |-> token]
=============================================================================
