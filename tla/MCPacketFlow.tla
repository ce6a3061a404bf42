---------------------------- MODULE MCPacketFlow ----------------------------
(* PacketFlow for the two wirings of patterns.c.                           *)
EXTENDS PacketFlow, Patterns

(* Two rules with a gap between them.                                      *)
Rules == <<[ip_left |-> 5, ip_right |-> 6, tag |-> 100],
           [ip_left |-> 8, ip_right |-> 8, tag |-> 4095]>>
(* With a rule for the address 0.0.0.0, and one whose tag is 0.            *)
RulesWithZeros == Rules \o <<[ip_left |-> 0, ip_right |-> 0, tag |-> 7],
                             [ip_left |-> 9, ip_right |-> 9, tag |-> 0]>>

IPv4(size, dst) == [size |-> size, tags |-> <<>>, type |-> ETH_P_IP, dst |-> dst]

(* One frame a rule covers.                                                *)
OneKind == {IPv4(60, 5)}
(* One frame a rule covers, one no rule covers.                            *)
TwoKinds == {IPv4(60, 5), IPv4(60, 7)}
(* Every case the nodes tell apart, at its boundary; 1519 bytes leave no   *)
(* room for a tag in a buffer of 1522.                                     *)
AllKinds ==
  {IPv4(60, dst) : dst \in {0} \cup 4..10}
    \cup {IPv4(size, 6) : size \in {33, 34, 1513, 1519}}
    \cup {[size |-> 60, tags |-> <<7>>, type |-> ETH_P_IP, dst |-> 5],
          [size |-> 60, tags |-> <<>>, type |-> 34525, dst |-> 5],
          [size |-> 60, tags |-> <<>>, type |-> 46, dst |-> 5]}
(* The largest frame an Ethernet with an MTU of 1500 delivers.             *)
FullSize == <<{IPv4(1514, 5)}>>

OneFrame == <<OneKind>>
CoveredOrNot == <<TwoKinds, TwoKinds>>
(* Any frame, with frames a rule covers after it.                          *)
AnyThenCovered == <<AllKinds, OneKind>>
=============================================================================
