------------------------------ MODULE TagRules ------------------------------
(***************************************************************************)
(* Tag rules: ranges of destination addresses, each with a VLAN ID.        *)
(*                                                                         *)
(* config_parser.c keeps the ends of a range in network byte order and     *)
(* applies ntohl before every comparison; tagger_node_create stores the    *)
(* ntohl'ed copies.  No other use is made of the stored bytes, so an       *)
(* address here is the number ntohl yields.                                *)
(***************************************************************************)
EXTENDS Integers, Sequences

MIN_VLAN_ID == 0
MAX_VLAN_ID == 4095

Rule == [ip_left : Nat, ip_right : Nat, tag : Int]

Covers(r, addr) == r.ip_left <= addr /\ r.ip_right >= addr

(* tagger_node_get_tag(): the tag of the first rule that covers addr, in   *)
(* the order of the rules, and 0 when none does.                           *)
tagger_node_get_tag_ExclusiveEnd(addr, rules) ==
  LET hits == {i \in 1..Len(rules) :
                 rules[i].ip_left <= addr /\ rules[i].ip_right > addr}
  IN IF hits = {} THEN 0
     ELSE rules[CHOOSE i \in hits : \A j \in hits : i <= j].tag

tagger_node_get_tag(addr, rules) ==
  LET hits == {i \in 1..Len(rules) : Covers(rules[i], addr)}
  IN IF hits = {} THEN 0
     ELSE rules[CHOOSE i \in hits : \A j \in hits : i <= j].tag
-----------------------------------------------------------------------------
(* validate_rules(): the three checks, each over all rules before the next *)
(* one starts, so an inverted range anywhere hides an overlap.             *)
RangesOrdered(rules) ==
  \A i \in 1..Len(rules) : rules[i].ip_left <= rules[i].ip_right

Apart(r, s) == r.ip_right < s.ip_left \/ s.ip_right < r.ip_left

RangesApart_Neighbours(rules) ==
  \A i \in 1..(Len(rules) - 1) : Apart(rules[i], rules[i + 1])

RangesApart(rules) ==
  \A i, j \in 1..Len(rules) : i < j => Apart(rules[i], rules[j])

TagsInRange(rules) ==
  \A i \in 1..Len(rules) : rules[i].tag \in MIN_VLAN_ID..MAX_VLAN_ID

validate_rules(rules) ==
  IF ~RangesOrdered(rules) THEN -11
  ELSE IF ~RangesApart(rules) THEN -12
  ELSE IF ~TagsInRange(rules) THEN -13
  ELSE 0
=============================================================================
