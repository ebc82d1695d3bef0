----------------------------- MODULE MCCoupling -----------------------------
(* The dual-RedBox coupling: a ring of the hsr-san node h and the hsr-prp  *)
(* nodes ca and cb, whose interlinks are on LAN A and LAN B of a PRP       *)
(* network with the prp-san node p.                                        *)
EXTENDS RedBox

CoupledNodes == {"ca", "cb", "h", "p"}

CoupledCfg == [n \in CoupledNodes |->
    [role |-> CASE n = "h" -> "hsr-san" [] n = "p" -> "prp-san" [] OTHER -> "hsr-prp",
     mac |-> n, lan |-> IF n = "cb" THEN "B" ELSE "A", net |-> 1, forwardAll |-> TRUE,
     trailer |-> TRUE, vlans |-> {}, mcast |-> {}]]

CoupledLink == [i \in CoupledNodes \X Ports |->
    CASE i = <<"ca", "lan_b">> -> {<<"h", "lan_a">>}
      [] i = <<"h", "lan_a">> -> {<<"ca", "lan_b">>}
      [] i = <<"h", "lan_b">> -> {<<"cb", "lan_a">>}
      [] i = <<"cb", "lan_a">> -> {<<"h", "lan_b">>}
      [] i = <<"cb", "lan_b">> -> {<<"ca", "lan_a">>}
      [] i = <<"ca", "lan_a">> -> {<<"cb", "lan_b">>}
      [] i = <<"ca", "interlink">> -> {<<"p", "lan_a">>}
      [] i = <<"p", "lan_a">> -> {<<"ca", "interlink">>}
      [] i = <<"cb", "interlink">> -> {<<"p", "lan_b">>}
      [] i = <<"p", "lan_b">> -> {<<"cb", "interlink">>}
      [] OTHER -> {}]

(* Frame 3 comes from a station attached to LAN A itself: it arrives at    *)
(* the interlink of ca without a trailer.                                  *)
CoupledSends == [id \in {1, 2, 3} |->
    CASE id = 1 -> [node |-> "p", src |-> "sp", dst |-> "sh", vlan |-> Untagged,
                    lead |-> "none", to |-> {"h"}, behind |-> {}]
      [] id = 2 -> [node |-> "h", src |-> "sh", dst |-> "sp", vlan |-> Untagged,
                    lead |-> "none", to |-> {"p"}, behind |-> {"h"}]
      [] id = 3 -> [node |-> "ca", src |-> "sa", dst |-> "sh", vlan |-> Untagged,
                    lead |-> "none", to |-> {}, behind |-> {}]]

CoupledMulticast == {"bcast", "supmc"}

(* LAN A or LAN B may fail, or a ring link. *)
OneCoupledLink ==
    {{i} \cup CoupledLink[i] : i \in {<<"ca", "interlink">>, <<"cb", "interlink">>,
                                      <<"ca", "lan_b">>, <<"h", "lan_b">>, <<"cb", "lan_b">>}}

ASSUME OneCoupledNetwork /\ WellWired
=============================================================================
