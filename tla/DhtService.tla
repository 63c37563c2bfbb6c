------------------------------ MODULE DhtService ----------------------------
(***************************************************************************)
(* What DHTClient does for other nodes: the network thread answers their   *)
(* queries, the maintenance thread rotates the token secrets, refreshes    *)
(* and cleans the routing table, expires stored peers and saves the table. *)
(* The process may stop, crash and start again.  A step of a thread is     *)
(* what it does under one lock.                                            *)
(***************************************************************************)
EXTENDS Krpc

CONSTANTS
    Ips,
    OwnIds,        \* ids a new DHTClient may draw
    Hash,          \* the info hash asked for
    MaxPeers,      \* stored peers per info hash (100)
    ExpireAfter,   \* a stored peer older than this is dropped (30 minutes)
    RotateAfter,   \* the age at which a secret is replaced (5 minutes)
    MaxQueries,    \* MAX_QUERIES_PER_SECOND
    Workloads      \* bound: what others send in one behaviour, a set of
                   \* records [senders, types, starts]

ASSUME ServiceAssumption ==
    /\ OwnIds \subseteq NodeID /\ Hash \in NodeID
    /\ Endpoints \subseteq [ip : Ips, port : Ports]
    /\ \A w \in Workloads : /\ w.senders \subseteq Contacts
                            /\ w.types \subseteq QueryType \union {"answer"}
                            /\ w.starts \in Nat
    /\ None \notin NodeID
    /\ None \notin Seq([id : NodeID, ip : Ips, bytes : Ports])
    /\ None \notin Seq([ip : Ips, bytes : Ports])
    /\ MaxPeers \in Nat \ {0} /\ MaxQueries \in Nat \ {0}
    /\ ExpireAfter \in Nat \ {0} /\ RotateAfter \in Nat \ {0}

VARIABLES
    running,   \* the process runs, its threads are started
    own,       \* DHTClient::own_id_
    table,     \* routing_table_
    file,      \* routing_table.dat, None when absent or too short
    store,     \* stored_peers_[Hash]: endpoints with their ages
    since,     \* age of current_secret_
    given,     \* history: a token somebody remembers
    rate,      \* rate_limits_: packets of the ip's current second
    nt,        \* the network thread and its query
    mt,        \* the maintenance thread and its copies
    sent,      \* the answer just sent: the message and its dictionary
    starts,    \* how often the process was started, for the bound
    load       \* the workload of this behaviour

vars == <<running, own, table, file, store, since, given, rate, nt, mt, sent, starts, load>>

Idle == [pc |-> "idle", query |-> None, from |-> None]
Waiting == [pc |-> "wait", bad |-> {}, data |-> None]

\* Generation of a token's secret: 0 the current, 1 the previous one, 2 the one
\* that rotate_secrets is just overwriting; then it is forgotten.  A torn token is
\* of a mixture of two secrets.
Forgotten == 3
Torn == 4

Init ==
    /\ running = FALSE
    /\ own = ZeroID
    /\ table = EmptyTable(ZeroID)
    /\ file = None
    /\ store = <<>>
    /\ since = 0
    /\ given = None
    /\ rate = [i \in Ips |-> 0]
    /\ nt = Idle
    /\ mt = Waiting
    /\ sent = None
    /\ starts = 0
    /\ load \in Workloads

-----------------------------------------------------------------------------
(* Start, stop, crash *)

\* send_ping of some nodes marks them.
Ping(t, nodes) == mark_queries_sent(t, {n.id : n \in nodes})

\* The constructor, start() and the pings of bootstrap().
Start ==
    /\ ~running
    /\ starts < load.starts
    /\ starts' = starts + 1
    /\ running' = TRUE
    /\ own' \in OwnIds
    /\ table' = IF file = None THEN EmptyTable(own')
                ELSE LET loaded == deserialize(EmptyTable(own'), file)
                     IN  Ping(loaded, get_all_nodes(loaded))
    /\ UNCHANGED <<file, store, since, given, rate, nt, mt, sent, load>>

\* What the process kept in memory is gone.
Gone ==
    /\ running' = FALSE
    /\ own' = ZeroID
    /\ table' = EmptyTable(ZeroID)
    /\ store' = <<>>
    /\ since' = 0
    /\ given' = None
    /\ rate' = [i \in Ips |-> 0]
    /\ nt' = Idle
    /\ mt' = Waiting
    /\ sent' = None
    /\ UNCHANGED <<starts, load>>

\* stop(): the threads end where they test running_, then the table is saved.
Stop ==
    /\ running
    /\ nt.pc = "idle"
    /\ mt.pc = "wait"
    /\ file' = serialize(table)
    /\ Gone

\* A file being written is cut anywhere: less than its head, or some nodes.
Crash ==
    /\ running
    /\ IF mt.pc = "saving"
       THEN \/ file' = None
            \/ \E n \in 0 .. Len(mt.data.nodes) :
                 file' = [mt.data EXCEPT !.nodes = SubSeq(@, 1, n)]
       ELSE UNCHANGED file
    /\ Gone

-----------------------------------------------------------------------------
(* The network thread *)

\* check_rate_limit; rate[i] = 0 when there is no entry or it is a second old.
WithinRate(i) == rate[i] < MaxQueries

\* run() and the first part of handle_query: the sender joins the table.
NT_Receive(d, ep) ==
    /\ running /\ nt.pc = "idle"
    /\ WithinRate(ep.ip)
    /\ rate' = [rate EXCEPT ![ep.ip] = @ + 1]
    /\ DecodeQuery(d) # None
    /\ LET m == DecodeQuery(d) IN
       \E type \in SwitchValues(m) :
         /\ table' = add_node(table, Heard([id |-> m.id, ep |-> ep]))
         /\ nt' = [pc |-> "answer", query |-> [m EXCEPT !.query_type = type], from |-> ep]
    /\ sent' = None
    /\ UNCHANGED <<running, own, file, store, since, given, mt, starts, load>>

\* The packet is dropped.
NT_Refuse(ep) ==
    /\ running /\ nt.pc = "idle"
    /\ ~WithinRate(ep.ip)
    /\ UNCHANGED vars

SecondPasses(i) ==
    /\ rate[i] > 0
    /\ rate' = [rate EXCEPT ![i] = 0]
    /\ UNCHANGED <<running, own, table, file, store, since, given, nt, mt, sent, starts, load>>

ClosestContacts(target) ==
    Sorted({Contact(n) : n \in find_closest_nodes(table, target, 8)}, target)

\* compute_token of the current secret; while rotate_secrets overwrites it
\* without a lock, of the old, the new or a mixture of both.
generate_token(i) ==
    {[ip |-> i, gen |-> g, age |-> 0] :
        g \in IF mt.pc = "rotating" THEN {0, 1, Torn} ELSE {0}}

\* Mutant: only the current secret is tried.
CurrentSecretOnly(tok, i) == {tok.ip = i /\ tok.gen = 0}

\* The possible answers of validate_token: computed while the secrets are
\* overwritten, it may find any of them or a mixture.
validate_token(tok, i) ==
    IF tok.ip # i \/ tok.gen = Forgotten THEN {FALSE}
    ELSE IF mt.pc = "rotating" THEN BOOLEAN
    ELSE {tok.gen <= 1}

\* store_peer: a known peer becomes young again in its place, a full list loses
\* its first.
store_peer(ep) ==
    IF \E i \in DOMAIN store : store[i].ep = ep
    THEN [i \in DOMAIN store |-> IF store[i].ep = ep THEN [store[i] EXCEPT !.age = 0]
                                 ELSE store[i]]
    ELSE (IF Len(store) >= MaxPeers THEN Tail(store) ELSE store)
           \o <<[ep |-> ep, age |-> 0]>>

Send(m) == sent' = [meant |-> m, dict |-> EncodeResponse(m)]

\* The answer to a query that lacks its argument is nothing.
AnswerPing ==
    /\ nt.query.query_type = "ping"
    /\ Send(response_ping(own, nt.query.tid))
    /\ UNCHANGED <<store, given>>

AnswerFindNode ==
    /\ nt.query.query_type = "find_node"
    /\ nt.query.target # None
    /\ \E nodes \in ClosestContacts(nt.query.target) :
         Send(response_find_node(own, nodes, nt.query.tid))
    /\ UNCHANGED <<store, given>>

\* The history follows this token or an earlier one.
AnswerGetPeers ==
    /\ nt.query.query_type = "get_peers"
    /\ nt.query.info_hash # None
    /\ \E tok \in generate_token(nt.from.ip) :
         /\ IF store # <<>>
            THEN Send(response_get_peers_with_values(own,
                        [i \in DOMAIN store |-> store[i].ep], tok, nt.query.tid))
            ELSE \E nodes \in ClosestContacts(nt.query.info_hash) :
                   Send(response_get_peers_with_nodes(own, nodes, tok, nt.query.tid))
         /\ given' \in {given, tok}
    /\ UNCHANGED store

\* implied_port is decoded and not used.
AnswerAnnounce ==
    /\ nt.query.query_type = "announce_peer"
    /\ nt.query.info_hash # None
    /\ nt.query.token # None
    /\ \E valid \in validate_token(nt.query.token, nt.from.ip) :
         IF valid
         THEN /\ store' = store_peer([nt.from EXCEPT !.port =
                             IF nt.query.port = None THEN @ ELSE nt.query.port])
              /\ Send(response_ping(own, nt.query.tid))
         ELSE /\ sent' = None   \* an error message
              /\ UNCHANGED store
    /\ UNCHANGED given

NoAnswer ==
    /\ \/ nt.query.query_type = Garbage
       \/ nt.query.query_type = "find_node" /\ nt.query.target = None
       \/ nt.query.query_type \in {"get_peers", "announce_peer"} /\ nt.query.info_hash = None
       \/ nt.query.query_type = "announce_peer" /\ nt.query.token = None
    /\ UNCHANGED <<store, given, sent>>

\* The second part of handle_query.
NT_Answer ==
    /\ running /\ nt.pc = "answer"
    /\ AnswerPing \/ AnswerFindNode \/ AnswerGetPeers \/ AnswerAnnounce \/ NoAnswer
    /\ nt' = Idle
    /\ UNCHANGED <<running, own, table, file, since, rate, mt, starts, load>>

-----------------------------------------------------------------------------
(* The maintenance thread: one round a minute *)

Older1(tok) ==
    IF tok = None THEN None
    ELSE [tok EXCEPT !.age = IF @ <= 2 * RotateAfter THEN @ + 1 ELSE @]

\* A minute passes and cv_.wait_for returns.
Minute ==
    /\ running /\ mt.pc = "wait"
    /\ table' = Older(table)
    /\ store' = [i \in DOMAIN store |->
                   [store[i] EXCEPT !.age = IF @ <= ExpireAfter THEN @ + 1 ELSE @]]
    /\ since' = IF since < RotateAfter THEN since + 1 ELSE since
    /\ given' = Older1(given)
    /\ mt' = [mt EXCEPT !.pc = "rotate"]
    /\ UNCHANGED <<running, own, file, rate, nt, sent, starts, load>>

OldGeneration(tok) ==
    IF tok = None THEN None
    ELSE [tok EXCEPT !.gen = IF @ < Forgotten THEN @ + 1 ELSE Forgotten]

\* rotate_secrets: the secrets are overwritten byte by byte.
MT_Rotate ==
    /\ running /\ mt.pc = "rotate"
    /\ IF since >= RotateAfter
       THEN /\ given' = OldGeneration(given)
            /\ mt' = [mt EXCEPT !.pc = "rotating"]
       ELSE /\ mt' = [mt EXCEPT !.pc = "refresh"]
            /\ UNCHANGED given
    /\ UNCHANGED <<running, own, table, file, store, since, rate, nt, sent, starts, load>>

MT_Rotated ==
    /\ running /\ mt.pc = "rotating"
    /\ since' = 0
    /\ mt' = [mt EXCEPT !.pc = "refresh"]
    /\ UNCHANGED <<running, own, table, file, store, given, rate, nt, sent, starts, load>>

\* refresh_routing_table
MT_Refresh ==
    /\ running /\ mt.pc = "refresh"
    /\ table' = Ping(table, get_nodes_needing_refresh(table))
    /\ mt' = [mt EXCEPT !.pc = "health"]
    /\ UNCHANGED <<running, own, file, store, since, given, rate, nt, sent, starts, load>>

\* check_node_health looks at a copy ...
MT_Health ==
    /\ running /\ mt.pc = "health"
    /\ mt' = [mt EXCEPT !.pc = "drop", !.bad = {n.id : n \in {m \in get_all_nodes(table) : Bad(m)}}]
    /\ UNCHANGED <<running, own, table, file, store, since, given, rate, nt, sent, starts, load>>

\* ... and removes what was bad in it.
MT_Drop(id) ==
    /\ running /\ mt.pc = "drop"
    /\ id \in mt.bad
    /\ table' = remove_node(table, id)
    /\ mt' = [mt EXCEPT !.bad = @ \ {id}]
    /\ UNCHANGED <<running, own, file, store, since, given, rate, nt, sent, starts, load>>

\* Mutant: peers of the last minute are dropped too.
ExpireEarly ==
    /\ running /\ mt.pc = "drop" /\ mt.bad = {}
    /\ store' = Kept(store, {p \in ToSet(store) : p.age < ExpireAfter})
    /\ mt' = [mt EXCEPT !.pc = "save"]
    /\ UNCHANGED <<running, own, table, file, since, given, rate, nt, sent, starts, load>>

\* expire_peers
MT_Expire ==
    /\ running /\ mt.pc = "drop" /\ mt.bad = {}
    /\ store' = Kept(store, {p \in ToSet(store) : p.age <= ExpireAfter})
    /\ mt' = [mt EXCEPT !.pc = "save"]
    /\ UNCHANGED <<running, own, table, file, since, given, rate, nt, sent, starts, load>>

\* save_routing_table: serialize, then truncate and write the file.
MT_Save ==
    /\ running /\ mt.pc = "save"
    /\ mt' = [mt EXCEPT !.pc = "saving", !.data = serialize(table)]
    /\ UNCHANGED <<running, own, table, file, store, since, given, rate, nt, sent, starts, load>>

MT_Saved ==
    /\ running /\ mt.pc = "saving"
    /\ file' = mt.data
    /\ mt' = Waiting
    /\ UNCHANGED <<running, own, table, store, since, given, rate, nt, sent, starts, load>>

-----------------------------------------------------------------------------
(* The other nodes *)

\* A token a sender may present: the one that was given, the one somebody at
\* another address was given with it, or an invented one, which is as good as
\* one of a forgotten secret.
Presented ==
    {[given EXCEPT !.ip = i] : i \in IF given = None THEN {} ELSE Ips}
      \union {[ip |-> i, gen |-> Forgotten, age |-> 0] : i \in Ips}

\* The dictionaries of a kind; "answer" is what another node answers, and an
\* announcement names a port or leaves it out.
Datagrams(kind, c) ==
    CASE kind = "ping" -> {EncodeQuery(query_ping(c.id, "t"))}
      [] kind = "find_node" -> {EncodeQuery(query_find_node(c.id, ZeroID, "t"))}
      [] kind = "get_peers" -> {EncodeQuery(query_get_peers(c.id, Hash, "t"))}
      [] kind = "announce_peer" ->
           {EncodeQuery(query_announce_peer(c.id, Hash, port, tok, "t")) :
              port \in {None, Swap(c.ep.port)}, tok \in Presented}
      [] kind = "answer" -> {EncodeResponse(response_ping(c.id, "t"))}

Next ==
    \/ Start \/ Stop \/ Crash
    \/ \E c \in load.senders : \E kind \in load.types : \E d \in Datagrams(kind, c) :
         NT_Receive(d, c.ep)
    \/ \E c \in load.senders : NT_Refuse(c.ep)
    \/ \E i \in Ips : SecondPasses(i)
    \/ NT_Answer
    \/ Minute
    \/ MT_Rotate \/ MT_Rotated \/ MT_Refresh \/ MT_Health \/ MT_Expire \/ MT_Save \/ MT_Saved
    \/ \E id \in NodeID : MT_Drop(id)

Spec == Init /\ [][Next]_vars

-----------------------------------------------------------------------------
(* Properties *)

\* The table is one of Kademlia's: a node is filed once, in the bucket of its
\* distance from the table's own id, buckets keep their size and the own id is
\* not among them, whoever writes to us, also after a restart from the table
\* saved under another id and from a file cut short.
TableSound == table \in RoutingTables /\ Sound(table)

\* A node heard of lately is not lost to newcomers, to the refresh or to the
\* health check, except in the moment after check_node_health copied it as bad.
GoodNodesKept ==
    [][ running /\ running' =>
          \A n \in get_good_nodes(table) :
            \/ \E m \in get_all_nodes(table') : m.id = n.id
            \/ n.id \in mt.bad ]_vars

\* At whatever moment of a round it was asked for, a token passes validate_token
\* for one rotation period after it was given, except while rotate_secrets is
\* overwriting the secrets the check reads, and after two periods it never passes.
\* Nothing is said of a token computed during the overwriting itself from a mixture.
TokensTimely ==
    (given # None /\ given.gen # Torn) =>
      /\ given.age < RotateAfter /\ mt.pc # "rotating" =>
           validate_token(given, given.ip) = {TRUE}
      /\ given.age > 2 * RotateAfter => TRUE \notin validate_token(given, given.ip)

\* An announced peer is given up only when its time is over, when a full list
\* makes room for another one, or when the process ends; it is listed once.
StoreKeeps ==
    [][ running /\ running' =>
          /\ \A i, j \in DOMAIN store' : store'[i].ep = store'[j].ep => i = j
          /\ Len(store') <= MaxPeers
          /\ \A i \in DOMAIN store :
               \/ \E j \in DOMAIN store' : store'[j].ep = store[i].ep
               \/ store[i].age > ExpireAfter
               \/ Len(store) = MaxPeers /\ \E j \in DOMAIN store' :
                    \A k \in DOMAIN store : store[k].ep # store'[j].ep ]_vars

\* ResponseMessage::encode and ResponseMessage::decode agree: decoded as a
\* response, what we answer is what we meant, the same nodes, peers, ports and
\* token (empty lists are not sent).  It says nothing of who decodes it: run() of
\* a PixelScrape takes an answer, which has no "q", for a query first (Dispatch).
AnswersDecodable ==
    sent # None =>
      LET m == sent.meant IN
      DecodeResponse(sent.dict) =
        [m EXCEPT !.nodes = IF @ = <<>> THEN None ELSE @]
=============================================================================
