------------------------------ MODULE DhtLookup -----------------------------
(***************************************************************************)
(* One iterative lookup of DHTClient: the bootstrap's search for the own   *)
(* id, find_peers, or announce.  The calling thread starts it under        *)
(* lookups_mutex_, the network thread goes on with every answer, and the   *)
(* maintenance thread forgets queries that were not answered in time.      *)
(* Datagrams are lost, repeated, late and out of order.  A step is what a  *)
(* thread does between two locks; the lookup itself has no lock.           *)
(***************************************************************************)
EXTENDS Krpc

CONSTANTS
    ALPHA,      \* LOOKUP_ALPHA
    LOOKUP_K,
    Own,        \* the own id
    Target,     \* the id or info hash looked for
    Known,      \* routing tables the lookup may start from
    Replies,    \* sequences of contacts a node may answer
    OtherIds,   \* ids an answer may carry besides the one that was asked
    Kinds       \* "find_node", "get_peers", "announce"

ASSUME LookupAssumption ==
    /\ ALPHA \in Nat \ {0} /\ LOOKUP_K \in Nat \ {0}
    /\ Own \in NodeID /\ Target \in NodeID
    /\ \A e \in Endpoints : e = [ip |-> e.ip, port |-> e.port] /\ e.port \in Ports
    /\ \A t \in Known : t \in RoutingTables /\ t.own = Own /\ Sound(t)
    /\ Replies \subseteq Seq(Contacts) /\ OtherIds \subseteq NodeID
    /\ Kinds \subseteq {"find_node", "get_peers", "announce"}

VARIABLES
    kind,      \* what the lookup is for
    table,     \* routing_table_
    lk,        \* the LookupState
    queries,   \* every query sent, by transaction id
    pending,   \* transaction ids in pending_queries_
    caller,    \* the thread in start_lookup, which holds lookups_mutex_
    nt,        \* the network thread
    found,     \* peers passed to the callbacks of find_peers
    announced, \* announce_peer messages sent
    done,      \* how often the lookup finished
    lost       \* lookup queries forgotten before they were counted

vars == <<kind, table, lk, queries, pending, caller, nt, found, announced, done, lost>>

Idle == [pc |-> "idle", tid |-> 0, answer |-> None, todo |-> <<>>, active |-> 0,
         counted |-> FALSE]

Init ==
    /\ kind \in Kinds
    /\ table \in Known
    /\ lk = [list |-> {}, queried |-> {}, responding |-> {}, flight |-> 0,
             tokens |-> [e \in Endpoints |-> None]]
    /\ queries = <<>>
    /\ pending = {}
    /\ caller = [pc |-> "new", todo |-> <<>>, active |-> 0]
    /\ nt = Idle
    /\ found = {}
    /\ announced = {}
    /\ done = 0
    /\ lost = {}

-----------------------------------------------------------------------------
(* continue_lookup up to its queries *)

Rank(list, c) == Cardinality({o \in list : Closer(Target, o, c)})

\* sort and unique: of the contacts with the same id any may stay.
Deduplicated(list) ==
    {some \in SUBSET list :
       \A c \in list : Cardinality({d \in some : d.id = c.id}) = 1}

Capped(list) == {c \in list : Rank(list, c) < 4 * LOOKUP_K}

Among(list, keys) == Cardinality({c \in list : Rank(list, c) < LOOKUP_K /\ c.ep \in keys})

\* Mutant: two ids at one address are two nodes.
FreshById(list, keys) == {c \in list : c.ep \notin keys}

Fresh(list, keys) ==
    {c \in list : /\ c.ep \notin keys
                  /\ \A o \in list : o.ep = c.ep => ~Closer(Target, o, c)}

\* The nodes to query, the closest first.
ToQuery(list, keys, flight) ==
    LET fresh == Fresh(list, keys) IN
    Sorted({c \in fresh : Rank(fresh, c) < ALPHA - flight}, Target)

\* The lookup l goes on with a shortlist.
continue_lookup(l, list, todo) ==
    lk' = [l EXCEPT !.list = list,
                    !.queried = @ \union {todo[i].ep : i \in DOMAIN todo},
                    !.flight = @ + Len(todo)]

\* send_find_node or send_get_peers of the lookup.
SendQuery(c) ==
    /\ queries' = Append(queries, [to |-> c, lookup |-> TRUE, callback |-> FALSE])
    /\ pending' = pending \union {Len(queries) + 1}
    /\ table' = mark_query_sent(table, c.id)

\* Mutant: the queries still open are not looked at.
TerminatesEarly(active) == active = Cardinality(lk.queried)

Terminates(active) == lk.flight = 0 /\ active = Cardinality(lk.queried)

-----------------------------------------------------------------------------
(* The calling thread: iterative_find_node, iterative_get_peers, announce *)

CT_Start ==
    /\ caller.pc = "new"
    /\ LET list == {Contact(n) : n \in find_closest_nodes(table, Target, LOOKUP_K)} IN
       \E todo \in ToQuery(list, {}, 0) :
         /\ continue_lookup(lk, list, todo)
         /\ caller' = [pc |-> "send", todo |-> todo, active |-> Among(list, {})]
    /\ UNCHANGED <<kind, table, queries, pending, nt, found, announced, done, lost>>

CT_Send ==
    /\ caller.pc = "send" /\ caller.todo # <<>>
    /\ SendQuery(Head(caller.todo))
    /\ caller' = [caller EXCEPT !.todo = Tail(@)]
    /\ UNCHANGED <<kind, lk, nt, found, announced, done, lost>>

\* A lookup that ends here locks the mutex its thread holds.
CT_Check ==
    /\ caller.pc = "send" /\ caller.todo = <<>>
    /\ caller' = [caller EXCEPT !.pc = IF Terminates(caller.active) THEN "stuck" ELSE "idle"]
    /\ UNCHANGED <<kind, table, lk, queries, pending, nt, found, announced, done, lost>>

-----------------------------------------------------------------------------
(* The network thread: handle_response *)

\* The callback of a get_peers sent by announce_callback.
AnnounceOn(tid, m) ==
    IF queries[tid].callback /\ m.token # None
    THEN /\ announced' = announced \union {[to |-> queries[tid].to.ep, token |-> m.token]}
         /\ queries' = Append(queries, [to |-> queries[tid].to, lookup |-> FALSE,
                                        callback |-> FALSE])
         /\ pending' = pending \union {Len(queries) + 1}
    ELSE UNCHANGED <<announced, queries, pending>>

NT_Response(d) ==
    /\ nt.pc = "idle"
    /\ Dispatch(d) = "response"
    /\ LET m == DecodeResponse(d) IN
       /\ m.tid \in pending
       /\ table' = update_last_seen(
                     add_node(table, Heard([id |-> m.id, ep |-> queries[m.tid].to.ep])), m.id)
       /\ AnnounceOn(m.tid, m)
       /\ nt' = [Idle EXCEPT !.pc = IF queries[m.tid].lookup THEN "lookup" ELSE "close",
                             !.tid = m.tid, !.answer = m]
    /\ UNCHANGED <<kind, lk, caller, found, done, lost>>

\* An answer without "q" is taken for a query of the zero id, DhtService has
\* what follows.
NT_Query(d, ep) ==
    /\ nt.pc = "idle"
    /\ Dispatch(d) = "query"
    /\ table' = add_node(table, Heard([id |-> DecodeQuery(d).id, ep |-> ep]))
    /\ UNCHANGED <<kind, lk, queries, pending, caller, nt, found, announced, done, lost>>

\* Nodes with an address of the shortlist, or of an earlier node, are not added.
Discovered(list, nodes) ==
    IF nodes = None THEN list
    ELSE list \union
         {nodes[i] : i \in {j \in DOMAIN nodes :
                              /\ \A o \in list : o.ep # nodes[j].ep
                              /\ \A k \in 1 .. j - 1 : nodes[k].ep # nodes[j].ep}}

\* Mutant: an answer is not counted.
CountedOff(l, tid, m) ==
    [l EXCEPT !.responding = @ \union {queries[tid].to.ep},
              !.tokens[queries[tid].to.ep] = IF m.token = None THEN @ ELSE m.token]

\* The first part of handle_lookup_response.
Counted(l, tid, m) ==
    [l EXCEPT !.responding = @ \union {queries[tid].to.ep},
              !.tokens[queries[tid].to.ep] = IF m.token = None THEN @ ELSE m.token,
              !.flight = IF @ > 0 THEN @ - 1 ELSE @]

\* Mutant: an answer without nodes does not continue the lookup.
LookupWithNodes ==
    /\ nt.pc = "lookup"
    /\ nt.tid \in pending
    /\ LET l == Counted(lk, nt.tid, nt.answer) IN
       IF nt.answer.nodes = None
       THEN lk' = l /\ nt' = [nt EXCEPT !.pc = "close", !.counted = TRUE]
       ELSE \E some \in Deduplicated(Discovered(l.list, nt.answer.nodes)) :
              LET list == Capped(some) IN
              \E todo \in ToQuery(list, l.queried, l.flight) :
                /\ continue_lookup(l, list, todo)
                /\ nt' = [nt EXCEPT !.pc = "send", !.todo = todo, !.counted = TRUE,
                                    !.active = Among(list, l.queried)]
    /\ UNCHANGED <<kind, table, queries, pending, caller, found, announced, done, lost>>

\* handle_lookup_response and continue_lookup up to the queries.
NT_Lookup ==
    /\ nt.pc = "lookup"
    /\ nt.tid \in pending
    /\ LET l == Counted(lk, nt.tid, nt.answer) IN
       \E some \in Deduplicated(Discovered(l.list, nt.answer.nodes)) :
         LET list == Capped(some) IN
         \E todo \in ToQuery(list, l.queried, l.flight) :
           /\ continue_lookup(l, list, todo)
           /\ nt' = [nt EXCEPT !.pc = "send", !.todo = todo, !.counted = TRUE,
                               !.active = Among(list, l.queried)]
    /\ UNCHANGED <<kind, table, queries, pending, caller, found, announced, done, lost>>

\* The query was forgotten since it was looked up in handle_response.
NT_Late ==
    /\ nt.pc = "lookup"
    /\ nt.tid \notin pending
    /\ nt' = [nt EXCEPT !.pc = "close"]
    /\ UNCHANGED <<kind, table, lk, queries, pending, caller, found, announced, done, lost>>

NT_Send ==
    /\ nt.pc = "send" /\ nt.todo # <<>>
    /\ SendQuery(Head(nt.todo))
    /\ nt' = [nt EXCEPT !.todo = Tail(@)]
    /\ UNCHANGED <<kind, lk, caller, found, announced, done, lost>>

NT_GoOn ==
    /\ nt.pc = "send" /\ nt.todo = <<>>
    /\ ~Terminates(nt.active)
    /\ nt' = [nt EXCEPT !.pc = "close"]
    /\ UNCHANGED <<kind, table, lk, queries, pending, caller, found, announced, done, lost>>

\* announce_callback: announce_peer where there is a token, get_peers elsewhere.
AnnounceAll ==
    LET Has(c) == lk.tokens[c.ep] # None IN
    \E list \in Sorted(lk.list, Target) :
      /\ announced' = announced \union
           {[to |-> c.ep, token |-> lk.tokens[c.ep]] : c \in {d \in lk.list : Has(d)}}
      /\ queries' = queries \o [i \in DOMAIN list |->
           [to |-> list[i], lookup |-> FALSE, callback |-> ~Has(list[i])]]
      /\ pending' = pending \union {Len(queries) + i : i \in DOMAIN list}
      /\ table' = mark_queries_sent(table, {c.id : c \in {d \in lk.list : ~Has(d)}})

\* Finished: active_lookups_ is changed under lookups_mutex_.
NT_Finish ==
    /\ nt.pc = "send" /\ nt.todo = <<>>
    /\ Terminates(nt.active)
    /\ caller.pc = "idle"
    /\ done' = done + 1
    /\ IF kind = "announce" THEN AnnounceAll
       ELSE UNCHANGED <<announced, queries, pending, table>>
    /\ nt' = [nt EXCEPT !.pc = "close"]
    /\ UNCHANGED <<kind, lk, caller, found, lost>>

\* The rest of handle_response.
NT_Close ==
    /\ nt.pc = "close"
    /\ table' = IF nt.answer.nodes = None THEN table
                ELSE add_nodes(table, nt.answer.nodes)
    /\ found' = IF kind = "get_peers" /\ nt.answer.peers # None
                THEN found \union ToSet(nt.answer.peers) ELSE found
    /\ pending' = pending \ {nt.tid}
    /\ nt' = Idle
    /\ UNCHANGED <<kind, lk, queries, caller, announced, done, lost>>

-----------------------------------------------------------------------------
(* The maintenance thread *)

\* cleanup_expired_queries: all that are older than some moment.
Uncounted(tid) == queries[tid].lookup /\ ~(tid = nt.tid /\ nt.counted)

MT_Expire(upto) ==
    /\ upto \in pending
    /\ LET old == {tid \in pending : tid <= upto} IN
       /\ pending' = pending \ old
       /\ lost' = lost \union {tid \in old : Uncounted(tid)}
    /\ UNCHANGED <<kind, table, lk, queries, caller, nt, found, announced, done>>

-----------------------------------------------------------------------------
(* The other nodes *)

\* The answers that carry the transaction id of a query, whoever sends them and
\* under whichever id, which handle_response does not compare with the node asked:
\* nodes or peers, both with a token, or nothing but the id.  "q" is absent or a
\* name we do not know.
AnswersTo(tid, id) ==
    LET messages == {response_get_peers_with_nodes(id, nodes, tid, tid) : nodes \in Replies}
                      \union {response_get_peers_with_values(id, <<queries[tid].to.ep>>, tid, tid),
                              response_ping(id, tid)}
    IN  {[EncodeResponse(m) EXCEPT !.q = q] : m \in messages, q \in {None, "other"}}

Answer(tid) ==
    \E id \in {queries[tid].to.id} \union OtherIds : \E d \in AnswersTo(tid, id) :
      NT_Response(d) \/ NT_Query(d, queries[tid].to.ep)

NetworkThread == NT_Lookup \/ NT_Late \/ NT_Send \/ NT_GoOn \/ NT_Finish \/ NT_Close

Next ==
    \/ CT_Start \/ CT_Send \/ CT_Check
    \/ \E tid \in DOMAIN queries : Answer(tid)
    \/ NetworkThread
    \/ \E upto \in DOMAIN queries : MT_Expire(upto)

Spec == Init /\ [][Next]_vars

-----------------------------------------------------------------------------
(* Properties *)

OpenQueries == {tid \in pending : Uncounted(tid)}

\* in_flight is what is chosen and not sent yet, what is open, and what the
\* maintenance thread forgot without telling the lookup: answers in any order,
\* repeated or late are counted once, and it stays within ALPHA.
FlightAccounted ==
    /\ lk.flight = Len(caller.todo) + Len(nt.todo) + Cardinality(OpenQueries)
                     + Cardinality(lost)
    /\ lk.flight <= ALPHA

\* A lookup finishes at most once, and then every node of its shortlist was asked
\* and has answered, and nothing of it is open.
FinishedComplete ==
    /\ done <= 1
    /\ done = 1 =>
         /\ {c.ep : c \in lk.list} \subseteq lk.responding
         /\ OpenQueries = {} /\ caller.todo = <<>> /\ nt.todo = <<>>

Quiet == caller.pc = "idle" /\ nt.pc = "idle" /\ OpenQueries = {}

\* When nothing more can happen to a lookup it has finished, or a query was
\* forgotten, or not all nodes it asked are among the K closest of its shortlist.
\* The calling thread waits for itself only when it knew no good node.
StallsOnlyWhen ==
    /\ Quiet /\ done = 0 =>
         lost # {} \/ Among(lk.list, lk.queried) # Cardinality(lk.queried)
    /\ caller.pc = "stuck" => lk.list = {}

\* A node is announced to with a token that answered a query to that address, and
\* no address is asked twice by one lookup, whatever ids answers are given under.
TokensBelong ==
    /\ \A a \in announced : queries[a.token].to.ep = a.to
    /\ \A s, t \in DOMAIN queries :
         queries[s].lookup /\ queries[t].lookup /\ queries[s].to.ep = queries[t].to.ep => s = t
=============================================================================
