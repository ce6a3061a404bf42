--------------------------- MODULE MCPacketQueue ---------------------------
(* PacketQueue with two pushing and two popping threads.                   *)
EXTENDS PacketQueue, TLC

CONSTANTS p1, p2, c1, c2

(* Every function of queue.h is called by some thread.                     *)
AllCalls ==
  p1 :> {"push"}
    @@ p2 :> {"push", "send_signal_queue"}
    @@ c1 :> {"pop"}
    @@ c2 :> {"pop", "remove_front", "front", "back"}
=============================================================================
