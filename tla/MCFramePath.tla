---------------------------- MODULE MCFramePath -----------------------------
(* Stations that send frames of the shapes the codecs tell apart.          *)
EXTENDS FramePath

Addresses == <<1, 12, 205, 1, 0, 1>> \o <<2, 0, 0, 0, 0, 9>>

Tags == {<<>>, Octets(C_VLAN) \o Octets(16384), Octets(S_VLAN) \o Octets(7)}

(* IPv4, the EtherType of supervision, and a frame tagged before. *)
Types == {2048, PRPSuffix, HSREtherType}

(* Two octets; one below, at and above the size where padding ends.        *)
Payloads == {<<1, 137>>} \cup {[i \in 1..n |-> (i * 37) % 256] : n \in {41, 42, 46, 47}}

Plain == {Addresses \o t \o Octets(e) \o p : t \in Tags, e \in Types, p \in Payloads}

(* The frame of a doubly attached station, with a trailer of its own.      *)
Trailed == {EncodeRCT(Addresses \o t \o Octets(2048) \o <<5>>, 77, 1) : t \in Tags}

(* To the address of supervision, with and without all that Parse reads.   *)
Announcing == {SuperMulticastMAC \o <<2, 0, 0, 0, 0, 9>> \o Octets(PRPSuffix) \o [i \in 1..n |-> i] :
                   n \in {5, 6, 11, 12}}

(* One that ends within its VLAN tag. *)
Stub == {Addresses \o Octets(C_VLAN) \o Octets(16384)}

AllStationFrames == Plain \cup Trailed \cup Announcing \cup Stub

Mac == <<2, 80, 80, 0, 1, 255>>
=============================================================================
