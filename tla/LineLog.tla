------------------------------ MODULE LineLog ------------------------------
(***************************************************************************)
(* What printL() promises its callers: a call adds its line to the log as  *)
(* a whole, at one moment between its start and its return, or returns an  *)
(* error.  A write error may leave the beginning of a line, never the end. *)
(***************************************************************************)
EXTENDS Naturals, Sequences

CONSTANTS Calls,   \* the calls of printL
          Parts    \* the number of pieces a line is written in

VARIABLES text,    \* the pieces in the log
          status   \* how far each call has come

vars == <<text, status>>

Line(k) == [i \in 1..Parts |-> [call |-> k, part |-> i]]

Init ==
  /\ text = <<>>
  /\ status = [k \in Calls |-> "new"]

Becomes(k, s) == status' = [status EXCEPT ![k] = s]

Begin(k) ==
  /\ status[k] = "new"
  /\ Becomes(k, "open")
  /\ UNCHANGED text

PutLine(k) ==
  /\ status[k] = "open"
  /\ text' = text \o Line(k)
  /\ Becomes(k, "printed")

Break(k) ==
  /\ status[k] = "open"
  /\ \E n \in 1..(Parts - 1) : text' = text \o SubSeq(Line(k), 1, n)
  /\ Becomes(k, "broken")

Return(k) ==
  /\ \/ status[k] = "printed" /\ Becomes(k, "ok")
     \/ status[k] \in {"open", "broken"} /\ Becomes(k, "error")
  /\ UNCHANGED text

Next == \E k \in Calls : Begin(k) \/ PutLine(k) \/ Break(k) \/ Return(k)

Spec == Init /\ [][Next]_vars
=============================================================================
