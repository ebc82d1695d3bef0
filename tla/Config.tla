------------------------------- MODULE Config -------------------------------
(* What prpd makes of its configuration file and its environment. A file   *)
(* is a record of what Load looks at:                                      *)
(*   parses                the file can be read and is YAML                *)
(*   role, lans, interlink node.role; lan_a and lan_b are named; so is the *)
(*                         interlink                                       *)
(*   lan, net              hsr.lan_id and hsr.prp_id                       *)
(*   filter, cidrs         the multicast filter is absent or well formed;  *)
(*                         so is every static address                      *)
(*   prp                   prp.prp_id                                      *)
(*   ticks                 supervision is off, or its interval is positive,*)
(*                         or unreadable, which means the default          *)
(* The environment is a record of PRP_ROLE, HSR_LAN_ID, HSR_PRP_ID,        *)
(* PRP_PRP_ID, with Unset or 0 for none, and cidrs for the addresses.      *)
EXTENDS Integers

CONSTANT HostId   \* 1..65535, from the hash of the host name

ASSUME ConfigAssumption == HostId \in 1..65535

Unset == ""
Roles == {"prp-san", "hsr-san", "hsr-prp", "hsr-hsr"}
LanIds == {"A", "B"}
NetIds == 1..6

(* redbox is the old name of prp-san. *)
Normalised(role) == IF role = "redbox" THEN "prp-san" ELSE role

(* The parts of a coupling RedBox are there. *)
Coupled(c) == c.interlink /\ c.lan \in LanIds /\ c.net \in NetIds

FileAccepted(f) ==
    /\ f.parses
    /\ Normalised(f.role) \in Roles
    /\ f.lans
    /\ f.role = "hsr-prp" => Coupled(f)
    /\ f.filter
    /\ f.cidrs

EnvAccepted(e) ==
    /\ e.role # Unset => Normalised(e.role) \in Roles
    /\ e.lan # Unset => e.lan \in LanIds
    /\ e.net # 0 => e.net \in NetIds
    /\ e.cidrs

(* The configuration, or {} where Load returns an error. *)
Load(f, e) ==
    IF ~FileAccepted(f) \/ ~EnvAccepted(e) THEN {}
    ELSE {[role |-> Normalised(IF e.role # Unset THEN e.role ELSE f.role),
           interlink |-> f.interlink,
           lan |-> IF e.lan # Unset THEN e.lan ELSE f.lan,
           net |-> IF e.net # 0 THEN e.net ELSE f.net,
           prp |-> IF e.prp > 0 THEN e.prp ELSE IF f.prp = 0 THEN HostId ELSE f.prp,
           ticks |-> f.ticks]}
=============================================================================
