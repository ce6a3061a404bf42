------------------------------- MODULE Frames -------------------------------
(***************************************************************************)
(* Ethernet frames, as far as the nodes look into them.                    *)
(*                                                                         *)
(* A frame has a length in bytes, the VLAN IDs of its 802.1Q headers from  *)
(* the outermost in, the EtherType behind them, and the destination        *)
(* address of the IPv4 header it may carry.  `id` tells captured frames    *)
(* apart and is not on the wire.                                           *)
(***************************************************************************)
EXTENDS TagRules

ETH_HLEN == 14
IP_HEADER_MIN_LEN == 20
VLAN_HLEN == 4
VLAN_ETH_FRAME_LEN == 1518
ETHERNET_FRAME_LENGTH == 1522
ETH_P_IP == 2048
ETH_P_8021Q == 33024

(* The two bytes at offset 12.                                             *)
ether_type(f) == IF f.tags # <<>> THEN ETH_P_8021Q ELSE f.type

(* tagger_node_get_ip_offset() and tagger_node_get_ip(): the destination   *)
(* address of a frame that is IPv4 right behind its MAC addresses, and 0,  *)
(* "can't get", for any other (802.1Q, IPv6, 802.3 length, unknown type).  *)
tagger_node_get_ip_SkipsTag(f) == IF f.type = ETH_P_IP THEN f.dst ELSE 0

tagger_node_get_ip(f) == IF ether_type(f) = ETH_P_IP THEN f.dst ELSE 0

(* tagger_node_edit_packet(): four bytes go in behind the MAC addresses,   *)
(* with the low 12 bits of the tag as VLAN ID.                             *)
tagger_node_edit_packet(f, vlan_id) ==
  [f EXCEPT !.tags = <<vlan_id % 4096>> \o @, !.size = @ + VLAN_HLEN]

(* is_vlan_packet() of the packet counter.                                 *)
is_vlan_packet(f) == f.size >= 16 /\ ether_type(f) = ETH_P_8021Q
=============================================================================
