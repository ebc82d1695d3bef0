----------------------------- MODULE MCPrpPair ------------------------------
(* Two prp-san RedBoxes on the same pair of LANs, a station behind each.   *)
EXTENDS RedBox

PairNodes == {"r1", "r2"}

PairCfg == [n \in PairNodes |->
    [role |-> "prp-san", mac |-> n, lan |-> "", net |-> 0, forwardAll |-> TRUE,
     trailer |-> TRUE, vlans |-> {}, mcast |-> {}]]

Peer(n) == IF n = "r1" THEN "r2" ELSE "r1"

PairLink == [i \in PairNodes \X Ports |->
    IF i[2] = "interlink" THEN {} ELSE {<<Peer(i[1]), i[2]>>}]

From(n, to, lead) ==
    [node |-> n, src |-> IF n = "r1" THEN "s1" ELSE "s2", dst |-> to, vlan |-> Untagged,
     lead |-> lead, to |-> PairNodes \ {n}, behind |-> {}]

PairSends == [id \in {1, 2, 3} |->
    IF id = 3 THEN From("r2", "bcast", "none") ELSE From("r1", "s2", "none")]

(* r1 lets VLAN 10 through; r2 forwards what is for a station it has       *)
(* learned, broadcast, and the multicast group "grp".                      *)
FilterCfg == [n \in PairNodes |->
    IF n = "r1" THEN [PairCfg[n] EXCEPT !.vlans = {10}]
    ELSE [PairCfg[n] EXCEPT !.forwardAll = FALSE, !.mcast = {"grp"}]]

(* What is sure to pass the filters: a frame for s2 does only once s2 has  *)
(* been learned, and VLAN 20 does not.                                     *)
FilterSends == [id \in 1..5 |->
    CASE id = 1 -> [From("r1", "s2", "none") EXCEPT !.vlan = 10, !.to = {}]
      [] id = 2 -> [From("r1", "bcast", "none") EXCEPT !.vlan = 20, !.to = {}]
      [] id = 3 -> From("r2", "s1", "none")
      [] id = 4 -> [From("r1", "grp", "none") EXCEPT !.vlan = 10]
      [] id = 5 -> [From("r1", "bcast", "none") EXCEPT !.vlan = 10]]

(* LAN B is down for good. *)
LanAOnly == [i \in PairNodes \X Ports |->
    IF i[2] = "lan_a" THEN {<<Peer(i[1]), "lan_a">>} ELSE {}]

(* Nothing fails. *)
NoFault == {{}}

PairMulticast == {"bcast", "supmc", "grp"}

(* All the ports of LAN A, or all those of LAN B. *)
OneLan == {{<<n, l>> : n \in PairNodes} : l \in Lans}

ASSUME FiltersAtPrp /\ WellWired /\ OneRedBoxEach
=============================================================================
