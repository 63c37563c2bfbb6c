----------------------------- MODULE MCDhtLookup ----------------------------
(* Instances of DhtLookup for TLC.                                          *)
EXTENDS DhtLookup

CONSTANTS i1, i2, i3

Ep(i) == [ip |-> i, port |-> <<0, 1>>]
MCEndpoints == {Ep(i1), Ep(i2), Ep(i3)}
MCOwn == <<0, 0>>
MCTarget == <<0, 1>>
N(id, i) == [id |-> id, ep |-> Ep(i)]

\* Nobody is known, one node, or two nodes at two addresses or at one.
MCKnown ==
    {add_nodes(EmptyTable(MCOwn), contacts) : contacts \in
       {<<>>, <<N(<<1, 1>>, i1)>>, <<N(<<1, 1>>, i1), N(<<0, 1>>, i2)>>,
        <<N(<<1, 1>>, i1), N(<<0, 1>>, i1)>>}}

\* Nobody, a closer node and a known one, a known node at another address.
MCReplies == {<<>>, <<N(<<1, 0>>, i3), N(<<1, 1>>, i1)>>, <<N(<<1, 1>>, i2)>>}

\* An answer may come under the id of another node.
MCOtherIds == {<<1, 0>>}
=============================================================================
