----------------------------- MODULE IpModifier -----------------------------
(***************************************************************************)
(* The IP modifier node: it gives IPv4 frames a new destination address    *)
(* and recomputes the checksum of their header.                            *)
(*                                                                         *)
(* Frames and the node's buffer are sequences of 16-bit words in host      *)
(* order; words are addressed by the offset of their first byte.  Taking a *)
(* frame, rewriting it and passing it on involve no other thread but in    *)
(* pop and push, so one action stands for an iteration.                    *)
(***************************************************************************)
EXTENDS Integers, Sequences

CONSTANTS Captured,   \* the frames that may arrive
          NewIp,      \* the new address: its two words
          BufferLen,  \* bound: the words of the buffer that are ever used
          MaxFrames   \* bound: frames that arrive

UINT16_MAX == 65535
Word == 0..UINT16_MAX

ASSUME IpModifierAssumption ==
  /\ BufferLen \in Nat /\ BufferLen >= 37   \* room for the longest header
  /\ Captured \subseteq Seq(Word)
  /\ \A f \in Captured : Len(f) \in 7..BufferLen
  /\ NewIp \in Word \X Word

VARIABLES buffer, should_exit, pc, taken, sent

vars == <<buffer, should_exit, pc, taken, sent>>

At(b, offset) == b[offset \div 2 + 1]
Size(f) == 2 * Len(f)

ETH_P_IP == 2048
ETH_P_8021Q == 33024
-----------------------------------------------------------------------------
(* A 16-bit value read into a `short`, which is signed.                    *)
Short(w) == IF w < 32768 THEN w ELSE w - 65536

type_field(b) == Short(At(b, 12))

is_ip_packet_LooksBehindTag(b) ==
  IF At(b, 12) = ETH_P_8021Q THEN At(b, 16) = ETH_P_IP
  ELSE At(b, 12) = ETH_P_IP

is_ip_packet(b) ==
  IF type_field(b) = ETH_P_8021Q THEN Short(At(b, 16)) = ETH_P_IP
  ELSE type_field(b) = ETH_P_IP

ip_offset(b) == IF type_field(b) = ETH_P_8021Q THEN 18 ELSE 14

(* The two words of the sum are added until no carry is left.              *)
Carried(sum) == (sum % 65536) + (sum \div 65536)

Folded_Once(sum) == Carried(sum)

Folded(sum) ==
  LET fold[s \in Nat] == IF s <= UINT16_MAX THEN s ELSE fold[Carried(s)]
  IN fold[sum]

(* The words the header occupies, as many as its length field says: they   *)
(* may lie behind the frame, where the buffer keeps an earlier one's.      *)
Header(b, offset) ==
  LET ihl == 4 * ((At(b, offset) \div 256) % 16)
  IN SubSeq(b, offset \div 2 + 1, (offset + ihl) \div 2)

(* The loop that adds them up.                                             *)
Sum(words) ==
  LET sum[n \in 0..Len(words)] == IF n = 0 THEN 0 ELSE sum[n - 1] + words[n]
  IN sum[Len(words)]

Checksum(words) == (65535 - Folded(Sum(words))) % 65536

modify_destination_ip(b) ==
  LET offset  == ip_offset(b)
      put(c, o, w) == [c EXCEPT ![o \div 2 + 1] = w]
      cleared == put(put(put(b, offset + 16, NewIp[1]),
                         offset + 18, NewIp[2]), offset + 10, 0)
  IN put(cleared, offset + 10, Checksum(Header(cleared, offset)))
-----------------------------------------------------------------------------
Init ==
  /\ buffer = [i \in 1..BufferLen |-> 0]
  /\ should_exit = FALSE
  /\ pc = "pop"
  /\ taken = 0
  /\ sent = <<>>

(* The test of the loop.                                                   *)
Again == pc' = IF should_exit THEN "done" ELSE "pop"

(* pop overwrites the beginning of the buffer.                             *)
Filled(f) == f \o SubSeq(buffer, Len(f) + 1, BufferLen)

Pop ==
  /\ pc = "pop"
  /\ taken < MaxFrames
  /\ taken' = taken + 1
  /\ Again
  /\ UNCHANGED should_exit

Ignore(f) ==
  /\ Pop
  /\ Size(f) < 46
  /\ buffer' = Filled(f)
  /\ UNCHANGED sent

(* The outputs are of no interest here: they get the buffer's first words. *)
Modify(f) ==
  /\ Pop
  /\ Size(f) >= 46
  /\ buffer' = IF is_ip_packet(Filled(f)) THEN modify_destination_ip(Filled(f))
               ELSE Filled(f)
  /\ sent' = Append(sent, [in |-> f, out |-> SubSeq(buffer', 1, Len(f))])

PopFails ==
  /\ pc = "pop"
  /\ pc' = "done"
  /\ UNCHANGED <<buffer, should_exit, taken, sent>>

(* pipeline_stop() sets should_exit.                                       *)
Stop ==
  /\ ~should_exit
  /\ should_exit' = TRUE
  /\ UNCHANGED <<buffer, pc, taken, sent>>

Next ==
  \/ \E f \in Captured : Ignore(f) \/ Modify(f)
  \/ PopFails
  \/ Stop

Spec == Init /\ [][Next]_vars
-----------------------------------------------------------------------------
(* Properties.  They look at frames as the standards define them.          *)

IpAt(f) == IF At(f, 12) = ETH_P_8021Q THEN 18 ELSE 14

(* RFC 1071: the one's complement sum over a valid header is all ones.     *)
ValidHeader(words) == Sum(words) > 0 /\ Sum(words) % 65535 = 0

WholeHeader(f) ==
  LET len == 4 * ((At(f, 14) \div 256) % 16)
  IN len >= 20 /\ 14 + len <= Size(f)

(* modify_destination_ip(): every IPv4 frame leaves with the new address,  *)
(* and if it contains its whole header, options included, with a checksum  *)
(* that is valid for it - whatever the checksum was on arrival, and        *)
(* whatever an earlier, longer frame has left in the buffer.               *)
ReaddressedValidly ==
  \A i \in 1..Len(sent) :
     At(sent[i].in, 12) = ETH_P_IP =>
       /\ <<At(sent[i].out, 30), At(sent[i].out, 32)>> = NewIp
       /\ WholeHeader(sent[i].in) => ValidHeader(Header(sent[i].out, 14))

(* Nothing but the destination address and the checksum of an IPv4 header  *)
(* ever changes: not the length, not another protocol's frame, and in a    *)
(* frame with an 802.1Q header nothing that lies where the two would be    *)
(* without it.  (The code means to rewrite tagged frames as well, but the  *)
(* signed type_field never equals 0x8100; they pass unchanged.)            *)
NothingElseChanges ==
  \A i \in 1..Len(sent) :
     LET f == sent[i].in
         ip == IpAt(f)
     IN /\ Len(sent[i].out) = Len(f)
        /\ \A n \in 1..Len(f) :
             sent[i].out[n] # f[n] =>
               /\ At(f, ip - 2) = ETH_P_IP
               /\ 2 * (n - 1) \in {ip + 10, ip + 16, ip + 18}
=============================================================================
