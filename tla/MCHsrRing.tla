----------------------------- MODULE MCHsrRing ------------------------------
(* An HSR ring of three hsr-san RedBoxes, a station behind each: lan_b of  *)
(* a node is joined to lan_a of the next.                                  *)
EXTENDS RedBox

RingNodes == {1, 2, 3}
Successor(n) == (n % 3) + 1

RingCfg == [n \in RingNodes |->
    [role |-> "hsr-san", mac |-> <<"r", n>>, lan |-> "", net |-> 0, forwardAll |-> TRUE,
     trailer |-> TRUE, vlans |-> {}, mcast |-> {}]]

RingLink == [i \in RingNodes \X Ports |->
    CASE i[2] = "lan_b" -> {<<Successor(i[1]), "lan_a">>}
      [] i[2] = "lan_a" -> {<<Successor(Successor(i[1])), "lan_b">>}
      [] OTHER -> {}]

Mac(n) == <<"s", n>>
Bcast == <<"m", 0>>
SupMC == <<"m", 1>>
Nobody == <<"u", 0>>
RingMulticast == {Bcast, SupMC}

RingSends == [id \in {1, 2, 3} |->
    CASE id = 1 -> [node |-> 1, src |-> Mac(1), dst |-> Mac(2), vlan |-> Untagged,
                    lead |-> Nobody, to |-> {2}, behind |-> {1}]
      [] id = 2 -> [node |-> 2, src |-> Mac(2), dst |-> Mac(1), vlan |-> Untagged,
                    lead |-> Nobody, to |-> {1}, behind |-> {2}]
      [] id = 3 -> [node |-> 1, src |-> Mac(1), dst |-> Bcast, vlan |-> Untagged,
                    lead |-> Nobody, to |-> {2, 3}, behind |-> {1}]]

(* Both directions of one ring link. *)
OneRingLink == {{<<n, "lan_b">>, <<Successor(n), "lan_a">>} : n \in RingNodes}

ASSUME WellWired /\ OneRedBoxEach /\ BehindOwnRedBox
=============================================================================
