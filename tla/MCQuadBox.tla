----------------------------- MODULE MCQuadBox ------------------------------
(* Two HSR rings joined by the interlinks of the hsr-hsr nodes q1 and q2:  *)
(* q1 and h1, and q2, h2, h3 and h4, where h3 is not next to q2.           *)
EXTENDS RedBox

QuadNodes == {"h1", "q1", "q2", "h2", "h3", "h4"}

QuadCfg == [n \in QuadNodes |->
    [role |-> IF n \in {"q1", "q2"} THEN "hsr-hsr" ELSE "hsr-san", mac |-> n,
     lan |-> "", net |-> 0, forwardAll |-> TRUE, trailer |-> TRUE, vlans |-> {},
     mcast |-> {}]]

(* lan_b of a node is joined to lan_a of the next. *)
After == [n \in QuadNodes |->
    CASE n = "h1" -> "q1" [] n = "q1" -> "h1"
      [] n = "q2" -> "h2" [] n = "h2" -> "h3" [] n = "h3" -> "h4" [] n = "h4" -> "q2"]

QuadLink == [i \in QuadNodes \X Ports |->
    CASE i[2] = "lan_b" -> {<<After[i[1]], "lan_a">>}
      [] i[2] = "lan_a" -> {<<CHOOSE m \in QuadNodes : After[m] = i[1], "lan_b">>}
      [] i = <<"q1", "interlink">> -> {<<"q2", "interlink">>}
      [] i = <<"q2", "interlink">> -> {<<"q1", "interlink">>}
      [] OTHER -> {}]

QuadSends == [id \in {1, 2} |->
    IF id = 1
    THEN [node |-> "h1", src |-> "s1", dst |-> "s3", vlan |-> Untagged, lead |-> "none",
          to |-> {"h3"}, behind |-> {"h1", "q2"}]
    ELSE [node |-> "h3", src |-> "s3", dst |-> "bcast", vlan |-> Untagged, lead |-> "none",
          to |-> {"h1", "h2", "h4"}, behind |-> {"h3", "q1"}]]

QuadMulticast == {"bcast", "supmc"}

(* Both directions of one link of h3; the interlink has no second path.    *)
OneQuadLink == {{<<"h3", "lan_b">>, <<"h4", "lan_a">>}}

ASSUME WellWired
=============================================================================
