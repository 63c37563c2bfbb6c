---------------------------- MODULE MCDhtService ----------------------------
(* Instances of DhtService for TLC.                                         *)
EXTENDS DhtService

CONSTANTS i1, i2

MCIps == {i1, i2}
Ep(i, p) == [ip |-> i, port |-> p]
MCEndpoints == {Ep(i1, <<0, 1>>), Ep(i2, <<1, 2>>)}
Id(a, b) == <<a, b>>
MCOwnIds == {Id(0, 1), Id(1, 0)}
From(id, i) == [id |-> id, ep |-> IF i = i1 THEN Ep(i1, <<0, 1>>) ELSE Ep(i2, <<1, 2>>)]

\* One behaviour is about the table, one about tokens and stored peers, one
\* about answers that reach us.
MCWorkloads ==
    { [senders |-> {From(Id(1, 0), i1), From(Id(1, 1), i1), From(Id(0, 1), i2)},
       types |-> {"find_node"}, starts |-> 2],
      [senders |-> {From(Id(1, 1), i1)},
       types |-> {"get_peers", "announce_peer"}, starts |-> 1],
      [senders |-> {From(Id(1, 1), i1)}, types |-> {"answer", "ping"}, starts |-> 1] }

MCHash == Id(1, 1)
=============================================================================
