---------------------------- MODULE MCIpModifier ----------------------------
(* Constants for IpModifier.                                               *)
EXTENDS IpModifier

(* A frame of n words: the words at offset 12 and behind are given, then   *)
(* filler.                                                                 *)
Frame(n, head, filler) ==
  [i \in 1..n |-> IF i \in 7..(6 + Len(head)) THEN head[i - 6] ELSE filler]

(* Version and length: too short, minimal, with options, the longest.      *)
FirstWords == {17408, 17664, 17920, 20224}
Heads ==
  {<<ETH_P_IP, w>> : w \in FirstWords}
  \cup {<<ETH_P_8021Q, 5, ETH_P_IP, w>> : w \in {17664, 20224}}
  \cup {<<ETH_P_8021Q, 5, 34525, 24576>>, <<34525, 24576>>}

(* 44 bytes, below the limit; 46, too few for the longest header; 74.      *)
SomeFrames ==
  {Frame(n, head, filler) : n \in {22, 23, 37}, head \in Heads,
                            filler \in {0, 4660, 65535}}

(* 192.168.250.87: between words of 0xffff the sum carries twice.          *)
SomeIp == <<49320, 64087>>
=============================================================================
