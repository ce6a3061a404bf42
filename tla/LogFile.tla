------------------------------ MODULE LogFile ------------------------------
(***************************************************************************)
(* The log file: printL() called by several threads and by a signal        *)
(* handler that may interrupt a call on its own thread.                    *)
(*                                                                         *)
(* A line is written in five pieces: time, type, sender, message, newline. *)
(* Their text is left out.  A time is represented by the call that has     *)
(* read the clock.                                                         *)
(***************************************************************************)
EXTENDS Naturals, Sequences

CONSTANTS Threads,
          MaxCalls,       \* bound: calls of printL
          MaxInterrupts,  \* bound: calls by a handler inside another call
          MaxFailures     \* bound: failing calls of the C library

ASSUME LogAssumption == {MaxCalls, MaxInterrupts, MaxFailures} \subseteq Nat

VARIABLES open,        \* is the file open?
          calls,       \* the calls, in the order they began
          mutex,       \* the call that holds the mutex, 0 if none
          tm,          \* the static struct tm: whose time it holds
          file,        \* the pieces written to the stream
          flushed,     \* how many of them have left the process
          interrupts,
          failures,
          flushFailed  \* history: has a flush failed?

vars == <<open, calls, mutex, tm, file, flushed, interrupts, failures, flushFailed>>

Parts == 5
NoCall == 0
Ids == 1..Len(calls)
Active(k) == calls[k].pc # "done"

(* A call runs unless a handler on its thread has interrupted it.          *)
Runs(k) ==
  /\ k \in Ids
  /\ \A j \in (k + 1)..Len(calls) : calls[j].on = calls[k].on => ~Active(j)

At(k, step) == Runs(k) /\ calls[k].pc = step
Goto(k, step) == calls' = [calls EXCEPT ![k].pc = step]

(* start_log() has succeeded.                                              *)
Init ==
  /\ open = TRUE
  /\ calls = <<>>
  /\ mutex = NoCall
  /\ tm = NoCall
  /\ file = <<>>
  /\ flushed = 0
  /\ interrupts = 0
  /\ failures = 0
  /\ flushFailed = FALSE

Fail ==
  /\ failures < MaxFailures
  /\ failures' = failures + 1

NewCall(t) ==
  /\ open
  /\ Len(calls) < MaxCalls
  /\ calls' = Append(calls,
       [on |-> t, pc |-> "time", written |-> 0, date |-> NoCall,
        clock |-> NoCall, result |-> "none",
        before |-> {k \in Ids : ~Active(k)}])
  /\ UNCHANGED <<open, mutex, tm, file, flushed, failures, flushFailed>>

Call(t) ==
  /\ \A k \in Ids : calls[k].on = t => ~Active(k)
  /\ NewCall(t)
  /\ UNCHANGED interrupts

(* A signal arrives while t is inside printL, and its handler logs.        *)
Interrupt(t) ==
  /\ \E k \in Ids : calls[k].on = t /\ Active(k)
  /\ interrupts < MaxInterrupts
  /\ interrupts' = interrupts + 1
  /\ NewCall(t)
-----------------------------------------------------------------------------
(* get_time(): localtime() returns a static struct, strftime() reads it    *)
(* without a lock, field by field.  The lock localtime() takes for itself  *)
(* is left out.                                                            *)

LocalTime_Cached(k) ==
  /\ At(k, "time")
  /\ tm' = IF tm = NoCall THEN k ELSE tm
  /\ Goto(k, "date")
  /\ UNCHANGED <<open, mutex, file, flushed, interrupts, failures, flushFailed>>

LocalTime(k) ==
  /\ At(k, "time")
  /\ tm' = k
  /\ Goto(k, "date")
  /\ UNCHANGED <<open, mutex, file, flushed, interrupts, failures, flushFailed>>

ReadDate(k) ==
  /\ At(k, "date")
  /\ calls' = [calls EXCEPT ![k].date = tm, ![k].pc = "clock"]
  /\ UNCHANGED <<open, mutex, tm, file, flushed, interrupts, failures, flushFailed>>

ReadClock(k) ==
  /\ At(k, "clock")
  /\ calls' = [calls EXCEPT ![k].clock = tm, ![k].pc = "lock"]
  /\ UNCHANGED <<open, mutex, tm, file, flushed, interrupts, failures, flushFailed>>

(* printL() returns -2 before it has taken the mutex.                      *)
TimeFails(k) ==
  /\ At(k, "time")
  /\ Fail
  /\ calls' = [calls EXCEPT ![k].result = "no time", ![k].pc = "done"]
  /\ UNCHANGED <<open, mutex, tm, file, flushed, interrupts, flushFailed>>
-----------------------------------------------------------------------------
(* The critical section.                                                   *)

Lock_Unguarded(k) ==
  /\ At(k, "lock")
  /\ mutex' = k
  /\ Goto(k, "write")
  /\ UNCHANGED <<open, tm, file, flushed, interrupts, failures, flushFailed>>

Lock(k) ==
  /\ At(k, "lock")
  /\ mutex = NoCall
  /\ mutex' = k
  /\ Goto(k, "write")
  /\ UNCHANGED <<open, tm, file, flushed, interrupts, failures, flushFailed>>

(* fputs() of the next piece, at last fputc() of the newline.              *)
Put(k) ==
  /\ At(k, "write")
  /\ LET n == calls[k].written + 1
     IN /\ file' = Append(file, [call |-> k, part |-> n])
        /\ calls' = [calls EXCEPT ![k].written = n,
                       ![k].pc = IF n = Parts THEN "flush" ELSE "write"]
  /\ UNCHANGED <<open, mutex, tm, flushed, interrupts, failures, flushFailed>>

(* A piece cannot be written: printL() gives up and returns -3.            *)
PutFails_KeepsLock(k) ==
  /\ At(k, "write")
  /\ Fail
  /\ calls' = [calls EXCEPT ![k].result = "no write", ![k].pc = "done"]
  /\ UNCHANGED <<open, mutex, tm, file, flushed, interrupts, flushFailed>>

PutFails(k) ==
  /\ At(k, "write")
  /\ Fail
  /\ calls' = [calls EXCEPT ![k].result = "no write", ![k].pc = "unlock"]
  /\ UNCHANGED <<open, mutex, tm, file, flushed, interrupts, flushFailed>>

(* The result of fflush() is ignored.                                      *)
Flush_Skipped(k) ==
  /\ At(k, "flush")
  /\ calls' = [calls EXCEPT ![k].result = "ok", ![k].pc = "unlock"]
  /\ UNCHANGED <<open, mutex, tm, file, flushed, interrupts, failures, flushFailed>>

Flush(k) ==
  /\ At(k, "flush")
  /\ calls' = [calls EXCEPT ![k].result = "ok", ![k].pc = "unlock"]
  /\ \/ /\ flushed' = Len(file)
        /\ UNCHANGED <<failures, flushFailed>>
     \/ /\ Fail
        /\ flushFailed' = TRUE
        /\ UNCHANGED flushed
  /\ UNCHANGED <<open, mutex, tm, file, interrupts>>

Unlock(k) ==
  /\ At(k, "unlock")
  /\ mutex' = NoCall
  /\ Goto(k, "done")
  /\ UNCHANGED <<open, tm, file, flushed, interrupts, failures, flushFailed>>

(* stop_log().  That no call is active is for its caller to see to: main() *)
(* would call it at its very end, but the abort in pipeline_destroy()      *)
(* comes before (see Daemon).  fclose flushes; nobody looks at its result. *)
StopLog ==
  /\ open
  /\ \A k \in Ids : ~Active(k)
  /\ open' = FALSE
  /\ \/ flushed' = Len(file) /\ UNCHANGED failures
     \/ Fail /\ UNCHANGED flushed
  /\ UNCHANGED <<calls, mutex, tm, file, interrupts, flushFailed>>
-----------------------------------------------------------------------------
Step(k) ==
  \/ LocalTime(k) \/ ReadDate(k) \/ ReadClock(k) \/ TimeFails(k)
  \/ Lock(k) \/ Put(k) \/ PutFails(k) \/ Flush(k) \/ Unlock(k)

Next ==
  \/ \E t \in Threads : Call(t) \/ Interrupt(t)
  \/ \E k \in 1..MaxCalls : Step(k)
  \/ StopLog

Spec == Init /\ [][Next]_vars

(* A thread inside printL is scheduled; nobody has to call it.             *)
FairSpec == Spec /\ \A k \in 1..MaxCalls : WF_vars(Step(k))
-----------------------------------------------------------------------------
(* Properties.                                                             *)

(* The pieces of the call that is writing do not count yet.                *)
Writing == mutex # NoCall /\ calls[mutex].pc = "write"
Settled == Len(file) - (IF Writing THEN calls[mutex].written ELSE 0)

Status(k) ==
  IF k \notin Ids THEN "new"
  ELSE IF calls[k].pc = "done"
       THEN IF calls[k].result = "ok" THEN "ok" ELSE "error"
  ELSE IF calls[k].written = Parts THEN "printed"
  ELSE IF calls[k].pc = "unlock" /\ calls[k].written > 0 THEN "broken"
  ELSE "open"

Abstract == INSTANCE LineLog WITH
  Calls <- 1..MaxCalls,
  Parts <- Parts,
  text <- SubSeq(file, 1, Settled),
  status <- [k \in 1..MaxCalls |-> Status(k)]

(* printL() implements a log of whole lines: lines are never mixed, each   *)
(* is added between the start and the return of its call (so a line logged *)
(* after another call has returned stands below that one's), a call that   *)
(* reports success has added its line, and one that fails at most the      *)
(* beginning of it.                                                        *)
LineLogSpec == Abstract!Spec

(* The time in a line is, date and clock each, the caller's own or that of *)
(* a call running at the same time.  (The static struct tm is shared: it   *)
(* need not be the caller's own, nor the two of the same call.)            *)
TimeFromOverlap ==
  \A k \in Ids :
     calls[k].written > 0 =>
       {calls[k].date, calls[k].clock} \cap (calls[k].before \cup {NoCall}) = {}

(* A line whose call has returned success is in the file even if the       *)
(* daemon is killed the next moment - provided no flush has failed, which  *)
(* printL() does not report.                                               *)
Durable ==
  \A k \in Ids :
     Status(k) = "ok" /\ ~flushFailed =>
       \E i \in 1..flushed : file[i] = [call |-> k, part |-> Parts]

HolderInterrupted == mutex # NoCall /\ ~Runs(mutex)

(* Every call of printL returns, whatever fails: each error path gives the *)
(* mutex back.  (A signal handler that logs must not interrupt the call    *)
(* that holds the mutex; what becomes of the daemon if it does is          *)
(* Daemon's StopAlwaysEnds.  The lock inside localtime is left out.)       *)
CallsReturn ==
  []~HolderInterrupted =>
    \A k \in 1..MaxCalls : [](k \in Ids => <>(k \in Ids /\ ~Active(k)))
=============================================================================
