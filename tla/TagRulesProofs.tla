--------------------------- MODULE TagRulesProofs ---------------------------
(***************************************************************************)
(* What validation buys the taggers, for tables of any length and any      *)
(* addresses.                                                              *)
(***************************************************************************)
EXTENDS TagRules, TLAPS

(* The three checks of validate_rules() have passed when it returns 0.     *)
LEMMA ValidMeans ==
  ASSUME NEW rules, validate_rules(rules) = 0
  PROVE  RangesOrdered(rules) /\ RangesApart(rules) /\ TagsInRange(rules)
  BY DEF validate_rules

(* In a table validate_rules() accepts, no address has two rules.          *)
LEMMA OneRulePerAddress ==
  ASSUME NEW rules \in Seq(Rule), RangesApart(rules), NEW addr \in Nat,
         NEW i \in 1..Len(rules), NEW j \in 1..Len(rules),
         Covers(rules[i], addr), Covers(rules[j], addr)
  PROVE  i = j
  <1>1. rules[i] \in Rule /\ rules[j] \in Rule
    OBVIOUS
  <1>2. ~Apart(rules[i], rules[j]) /\ ~Apart(rules[j], rules[i])
    <2>1. /\ rules[i].ip_left <= addr /\ rules[i].ip_right >= addr
          /\ rules[j].ip_left <= addr /\ rules[j].ip_right >= addr
      BY DEF Covers
    <2>2. /\ rules[i].ip_left \in Nat /\ rules[i].ip_right \in Nat
          /\ rules[j].ip_left \in Nat /\ rules[j].ip_right \in Nat
      BY <1>1 DEF Rule
    <2> QED
      BY <2>1, <2>2 DEF Apart
  <1>3. ~(i < j) /\ ~(j < i)
    BY <1>2 DEF RangesApart
  <1> QED
    BY <1>3

(* tagger_node_get_tag() stops at the first rule that covers the address.  *)
(* With a validated table it is the only one, so whichever rule covers an  *)
(* address decides its tag and the order of the rules is irrelevant.       *)
THEOREM FirstMatchIsOnlyMatch ==
  ASSUME NEW rules \in Seq(Rule), validate_rules(rules) = 0,
         NEW addr \in Nat, NEW i \in 1..Len(rules), Covers(rules[i], addr)
  PROVE  tagger_node_get_tag(addr, rules) = rules[i].tag
  <1> DEFINE hits == {k \in 1..Len(rules) : Covers(rules[k], addr)}
  <1>1. hits = {i}
    BY ValidMeans, OneRulePerAddress
  <1>2. (CHOOSE k \in hits : \A j \in hits : k <= j) = i
    BY <1>1
  <1> QED
    BY <1>1, <1>2 DEF tagger_node_get_tag
=============================================================================
