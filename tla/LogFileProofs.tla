--------------------------- MODULE LogFileProofs ---------------------------
(***************************************************************************)
(* Proofs about LogFile, for every set of threads and number of calls,     *)
(* interrupts and failures: printL() implements a log of whole lines, what *)
(* it has reported as written is in the file, and the time in a line is    *)
(* that of an overlapping call.                                            *)
(***************************************************************************)
EXTENDS LogFile, SequenceTheorems, TLAPS

Pcs == {"time", "date", "clock", "lock", "write", "flush", "unlock", "done"}
Results == {"none", "no time", "no write", "ok"}
CallRec == [on : Threads, pc : Pcs, written : 0..Parts, date : Nat, clock : Nat,
            result : Results, before : SUBSET Nat]
Piece == [call : Nat, part : Nat]

LogTypes ==
  /\ calls \in Seq(CallRec) /\ Len(calls) <= MaxCalls
  /\ mutex \in Nat /\ tm \in Nat
  /\ file \in Seq(Piece)
  /\ flushed \in 0..Len(file)
  /\ flushFailed \in BOOLEAN

(* The mutex is held by the one call that is in the critical section.      *)
Exclusive ==
  /\ mutex # NoCall => mutex \in Ids
  /\ \A k \in Ids : calls[k].pc \in {"write", "flush", "unlock"} <=> mutex = k

(* How much of its line a call has written, and what it will return.       *)
Progress ==
  \A k \in Ids :
    LET c == calls[k]
    IN /\ c.pc \in {"time", "date", "clock", "lock"} => c.written = 0
       /\ c.pc = "write" => c.written < Parts
       /\ c.pc = "flush" => c.written = Parts
       /\ c.pc = "unlock" => (c.result = "ok" <=> c.written = Parts)
       /\ c.result = "ok" => c.pc \in {"unlock", "done"} /\ c.written = Parts

(* The file ends with the pieces of the call that is writing.              *)
EndOfFile ==
  Writing =>
    /\ calls[mutex].written <= Len(file)
    /\ \A i \in 1..calls[mutex].written :
         file[Len(file) - calls[mutex].written + i] = [call |-> mutex, part |-> i]

(* A complete line is in the stream, and when its call is through, in the  *)
(* file.                                                                   *)
OnDisk ==
  \A k \in Ids :
    /\ calls[k].pc = "flush" =>
         \E i \in 1..Len(file) : file[i] = [call |-> k, part |-> Parts]
    /\ calls[k].result = "ok" /\ ~flushFailed =>
         \E i \in 1..flushed : file[i] = [call |-> k, part |-> Parts]

(* A call that has ended before another began writes to no variable the    *)
(* other one reads.                                                        *)
Overlap(k, time) == time \notin calls[k].before \cup {NoCall}

OwnTimes(k) ==
  /\ calls[k].pc \in {"date", "clock"} => Overlap(k, tm)
  /\ calls[k].pc = "clock" => Overlap(k, calls[k].date)
  /\ calls[k].pc = "lock" \/ calls[k].written > 0
       \/ calls[k].pc \in {"write", "flush", "unlock"} =>
         Overlap(k, calls[k].date) /\ Overlap(k, calls[k].clock)

Times ==
  \A k \in Ids :
    /\ calls[k].before \subseteq 1..(k - 1)
    /\ \A j \in calls[k].before : calls[j].pc = "done"
    /\ OwnTimes(k)

LogInv ==
  LogTypes /\ Exclusive /\ Progress /\ EndOfFile /\ OnDisk /\ Times
-----------------------------------------------------------------------------
(* A step of call k replaces its record by c and leaves the others alone.  *)
Updated(k, c) ==
  /\ c \in CallRec
  /\ calls' \in Seq(CallRec)
  /\ Len(calls') = Len(calls)
  /\ calls'[k] = c
  /\ \A j \in Ids : j # k => calls'[j] = calls[j]
  /\ c.before = calls[k].before

(* Replacing a call's record by another record of a call is an update.     *)
LEMMA CallsUpdated ==
  ASSUME LogTypes, NEW k \in Ids, NEW c \in CallRec,
         c.before = calls[k].before,
         calls' = [calls EXCEPT ![k] = c]
  PROVE  Updated(k, c)
<1>1. k \in 1..Len(calls) /\ calls \in Seq(CallRec)
  BY DEF Ids, LogTypes
<1>2. /\ calls' \in Seq(CallRec) /\ Len(calls') = Len(calls)
      /\ \A j \in 1..Len(calls) : calls'[j] = IF j = k THEN c ELSE calls[j]
  BY <1>1, ExceptSeq
<1> QED
  BY <1>1, <1>2 DEF Updated, Ids

(* What the types say of one call.                                         *)
LEMMA CallTypes ==
  ASSUME LogTypes, NEW k \in Ids
  PROVE  /\ calls[k] \in CallRec /\ k \in Nat /\ k # 0
         /\ calls[k].pc \in Pcs /\ calls[k].written \in 0..Parts
<1>1. k \in 1..Len(calls) /\ calls \in Seq(CallRec)
  BY DEF Ids, LogTypes
<1>2. calls[k] \in CallRec
  BY <1>1, ElementOfSeq
<1> QED
  BY <1>1, <1>2, LenProperties DEF CallRec

-----------------------------------------------------------------------------
(* get_time(): the steps before the critical section.                      *)
BeforeLock(k, c) ==
  /\ Updated(k, c)
  /\ calls[k].pc \in {"time", "date", "clock"}
  /\ c.pc \in {"date", "clock", "lock", "done"}
  /\ c.written = calls[k].written
  /\ c.result # "ok"
  /\ tm' \in Nat
  /\ UNCHANGED <<mutex, file, flushed, flushFailed>>

(* Up to the mutex a call touches nothing but itself and the shared time.  *)
LEMMA BeforeLockKeeps ==
  ASSUME LogInv, NEW k \in Ids, NEW c, BeforeLock(k, c)
  PROVE  (LogTypes /\ Exclusive /\ Progress /\ EndOfFile /\ OnDisk)'
<1> USE DEF BeforeLock, Updated, Ids, NoCall
<1>1. LogTypes'
  BY DEF LogInv, LogTypes
<1>2. Exclusive'
  BY DEF LogInv, Exclusive
<1>3. Progress'
  BY DEF LogInv, Progress
<1>4. EndOfFile'
  BY DEF LogInv, Exclusive, EndOfFile, Writing
<1>5. OnDisk'
  <2>1. \A j \in Ids : calls'[j].pc = "flush" => calls[j].pc = "flush"
    BY DEF LogInv, OnDisk
  <2>2. \A j \in Ids : calls'[j].result = "ok" => calls[j].result = "ok"
    BY DEF LogInv, OnDisk
  <2>3. Ids' = Ids
    OBVIOUS
  <2> QED
    BY <2>1, <2>2, <2>3 DEF LogInv, OnDisk
<1> QED
  BY <1>1, <1>2, <1>3, <1>4, <1>5

(* A call that has not ended may overwrite the shared time: whoever reads  *)
(* it has not begun after that call's end.                                 *)
LEMMA TimesKeep ==
  ASSUME LogInv, NEW k \in Ids, NEW c, Updated(k, c),
         calls[k].pc # "done", tm' = tm \/ tm' = k, OwnTimes(k)'
  PROVE  Times'
<1>1. Ids' = Ids /\ k \in Nat /\ k # NoCall
  BY DEF Updated, Ids, NoCall, LogInv, LogTypes
<1>2. \A j \in Ids : calls'[j].before = calls[j].before
  BY DEF Updated
<1>3. ASSUME NEW j \in Ids PROVE k \notin calls[j].before
  BY DEF LogInv, Times
<1>4. ASSUME NEW j \in Ids, NEW i \in calls[j].before
      PROVE  calls'[i].pc = "done"
  <2>1. i \in Ids /\ i # k /\ calls[i].pc = "done"
    BY <1>3 DEF LogInv, Times, Ids
  <2> QED
    BY <2>1 DEF Updated
<1>5. ASSUME NEW j \in Ids, j # k PROVE OwnTimes(j)'
  BY <1>1, <1>3, <1>5 DEF LogInv, Times, OwnTimes, Overlap, Updated
<1> QED
  BY <1>1, <1>2, <1>4, <1>5 DEF LogInv, Times

(* The steps of get_time().                                                *)
LEMMA TimeKeeps ==
  ASSUME LogInv, NEW k \in 1..MaxCalls,
         LocalTime(k) \/ ReadDate(k) \/ ReadClock(k) \/ TimeFails(k)
  PROVE  LogInv'
<1>1. k \in Ids /\ LogTypes
  BY DEF LocalTime, ReadDate, ReadClock, TimeFails, At, Runs, LogInv
<1>2. calls[k] \in CallRec /\ k \in Nat /\ k # 0 /\ tm \in Nat
  BY <1>1, CallTypes DEF LogTypes
<1>3. CASE LocalTime(k)
  <2> DEFINE c == [calls[k] EXCEPT !.pc = "date"]
  <2>1. /\ c \in CallRec /\ c.before = calls[k].before /\ c.pc = "date"
        /\ c.written = calls[k].written /\ c.result = calls[k].result
    BY <1>2 DEF CallRec, Pcs
  <2>2. /\ calls[k].pc = "time" /\ tm' = k
        /\ calls' = [calls EXCEPT ![k] = c]
        /\ UNCHANGED <<mutex, file, flushed, flushFailed>>
    BY <1>3 DEF LocalTime, At, Goto
  <2>3. Updated(k, c)
    BY <1>1, <2>1, <2>2, CallsUpdated
  <2> HIDE DEF c
  <2>4. calls[k].result # "ok" /\ calls[k].written = 0
    BY <1>1, <2>2 DEF LogInv, Progress
  <2>5. BeforeLock(k, c)
    BY <1>2, <2>1, <2>2, <2>3, <2>4 DEF BeforeLock
  <2>6. OwnTimes(k)'
    BY <1>1, <1>2, <2>1, <2>2, <2>3, <2>4
       DEF LogInv, Times, OwnTimes, Overlap, Updated, NoCall
  <2> QED
    BY <1>1, <2>2, <2>3, <2>5, <2>6, BeforeLockKeeps, TimesKeep DEF LogInv
<1>4. CASE ReadDate(k)
  <2> DEFINE c == [calls[k] EXCEPT !.date = tm, !.pc = "clock"]
  <2>1. /\ c \in CallRec /\ c.before = calls[k].before /\ c.pc = "clock"
        /\ c.written = calls[k].written /\ c.result = calls[k].result
        /\ c.date = tm
    BY <1>2 DEF CallRec, Pcs
  <2>2. /\ calls[k].pc = "date" /\ tm' = tm
        /\ calls' = [calls EXCEPT ![k] = c]
        /\ UNCHANGED <<mutex, file, flushed, flushFailed>>
    BY <1>4 DEF ReadDate, At
  <2>3. Updated(k, c)
    BY <1>1, <2>1, <2>2, CallsUpdated
  <2> HIDE DEF c
  <2>4. calls[k].result # "ok" /\ calls[k].written = 0
    BY <1>1, <2>2 DEF LogInv, Progress
  <2>5. BeforeLock(k, c)
    BY <1>2, <2>1, <2>2, <2>3, <2>4 DEF BeforeLock
  <2>6. OwnTimes(k)'
    BY <1>1, <1>2, <2>1, <2>2, <2>3, <2>4
       DEF LogInv, Times, OwnTimes, Overlap, Updated
  <2> QED
    BY <1>1, <2>2, <2>3, <2>5, <2>6, BeforeLockKeeps, TimesKeep DEF LogInv
<1>5. CASE ReadClock(k)
  <2> DEFINE c == [calls[k] EXCEPT !.clock = tm, !.pc = "lock"]
  <2>1. /\ c \in CallRec /\ c.before = calls[k].before /\ c.pc = "lock"
        /\ c.written = calls[k].written /\ c.result = calls[k].result
        /\ c.date = calls[k].date /\ c.clock = tm
    BY <1>2 DEF CallRec, Pcs
  <2>2. /\ calls[k].pc = "clock" /\ tm' = tm
        /\ calls' = [calls EXCEPT ![k] = c]
        /\ UNCHANGED <<mutex, file, flushed, flushFailed>>
    BY <1>5 DEF ReadClock, At
  <2>3. Updated(k, c)
    BY <1>1, <2>1, <2>2, CallsUpdated
  <2> HIDE DEF c
  <2>4. calls[k].result # "ok"
    BY <1>1, <2>2 DEF LogInv, Progress
  <2>5. BeforeLock(k, c)
    BY <1>2, <2>1, <2>2, <2>3, <2>4 DEF BeforeLock
  <2>6. OwnTimes(k)'
    BY <1>1, <1>2, <2>1, <2>2, <2>3
       DEF LogInv, Times, OwnTimes, Overlap, Updated
  <2> QED
    BY <1>1, <2>2, <2>3, <2>5, <2>6, BeforeLockKeeps, TimesKeep DEF LogInv
<1>6. CASE TimeFails(k)
  <2> DEFINE c == [calls[k] EXCEPT !.result = "no time", !.pc = "done"]
  <2>1. /\ c \in CallRec /\ c.before = calls[k].before /\ c.pc = "done"
        /\ c.written = calls[k].written /\ c.result = "no time"
    BY <1>2 DEF CallRec, Pcs, Results
  <2>2. /\ calls[k].pc = "time" /\ tm' = tm
        /\ calls' = [calls EXCEPT ![k] = c]
        /\ UNCHANGED <<mutex, file, flushed, flushFailed>>
    BY <1>6 DEF TimeFails, At
  <2>3. Updated(k, c)
    BY <1>1, <2>1, <2>2, CallsUpdated
  <2> HIDE DEF c
  <2>4. calls[k].written = 0
    BY <1>1, <2>2 DEF LogInv, Progress
  <2>5. BeforeLock(k, c)
    BY <1>2, <2>1, <2>2, <2>3 DEF BeforeLock
  <2>6. OwnTimes(k)'
    <3>1. calls'[k].pc = "done" /\ calls'[k].written = 0
      BY <2>1, <2>3, <2>4 DEF Updated
    <3> QED
      BY <3>1 DEF OwnTimes
  <2> QED
    BY <1>1, <2>2, <2>3, <2>5, <2>6, BeforeLockKeeps, TimesKeep DEF LogInv
<1> QED
  BY <1>3, <1>4, <1>5, <1>6
-----------------------------------------------------------------------------
(* The critical section.                                                   *)

(* Taking the mutex: nobody else is in the critical section.               *)
LEMMA LockKeeps ==
  ASSUME LogInv, NEW k \in 1..MaxCalls, Lock(k)
  PROVE  LogInv'
<1> DEFINE c == [calls[k] EXCEPT !.pc = "write"]
<1>1. k \in Ids /\ LogTypes /\ calls[k].pc = "lock"
  BY DEF Lock, At, Runs, LogInv
<1>2. calls[k] \in CallRec /\ k \in Nat /\ k # 0
  BY <1>1, CallTypes
<1>3. /\ c \in CallRec /\ c.before = calls[k].before /\ c.pc = "write"
      /\ c.written = calls[k].written /\ c.result = calls[k].result
      /\ c.date = calls[k].date /\ c.clock = calls[k].clock
  BY <1>2 DEF CallRec, Pcs
<1>4. /\ mutex = NoCall /\ mutex' = k /\ tm' = tm
      /\ calls' = [calls EXCEPT ![k] = c]
      /\ UNCHANGED <<file, flushed, flushFailed>>
  BY DEF Lock, Goto
<1>5. Updated(k, c)
  BY <1>1, <1>3, <1>4, CallsUpdated
<1> HIDE DEF c
<1>6. calls[k].result # "ok" /\ calls[k].written = 0
  BY <1>1 DEF LogInv, Progress
<1>7. Ids' = Ids
  BY <1>5 DEF Updated, Ids
<1>8. LogTypes'
  BY <1>2, <1>4, <1>5 DEF LogInv, LogTypes, Updated
<1>9. Exclusive'
  <2>1. \A j \in Ids : calls[j].pc \notin {"write", "flush", "unlock"}
    BY <1>1, <1>4, CallTypes DEF LogInv, Exclusive, NoCall
  <2> QED
    BY <1>1, <1>3, <1>4, <1>5, <1>7, <2>1 DEF Exclusive, Updated
<1>10. Progress'
  BY <1>3, <1>5, <1>6, <1>7 DEF LogInv, Progress, Updated, Parts
<1>11. EndOfFile'
  BY <1>3, <1>4, <1>5, <1>6 DEF LogInv, LogTypes, EndOfFile, Updated
<1>12. OnDisk'
  BY <1>3, <1>4, <1>5, <1>6, <1>7 DEF LogInv, OnDisk, Updated
<1>13. OwnTimes(k)'
  BY <1>1, <1>3, <1>5 DEF LogInv, Times, OwnTimes, Overlap, Updated
<1> QED
  BY <1>1, <1>4, <1>5, <1>8, <1>9, <1>10, <1>11, <1>12, <1>13, TimesKeep
     DEF LogInv

(* Who writes holds the mutex, and nobody else is in the critical section. *)
LEMMA Holder ==
  ASSUME LogInv, NEW k \in Ids, calls[k].pc \in {"write", "flush", "unlock"}
  PROVE  /\ mutex = k
         /\ \A j \in Ids : j # k => calls[j].pc \notin {"write", "flush", "unlock"}
BY DEF LogInv, Exclusive

(* The next piece goes to the end of the file.                             *)
LEMMA PutKeeps ==
  ASSUME LogInv, NEW k \in 1..MaxCalls, Put(k)
  PROVE  LogInv'
<1> DEFINE n == calls[k].written + 1
           p == [call |-> k, part |-> n]
           step == IF n = Parts THEN "flush" ELSE "write"
           c == [calls[k] EXCEPT !.written = n, !.pc = step]
<1>1. k \in Ids /\ LogTypes /\ calls[k].pc = "write"
  BY DEF Put, At, Runs, LogInv
<1>2. calls[k] \in CallRec /\ k \in Nat /\ k # 0
  BY <1>1, CallTypes
<1>3. n \in 1..Parts
  BY <1>1, <1>2 DEF LogInv, Progress, CallRec, Parts
<1>4. /\ c \in CallRec /\ c.before = calls[k].before
      /\ c.pc = IF n = Parts THEN "flush" ELSE "write"
      /\ c.written = n /\ c.result = calls[k].result
      /\ c.date = calls[k].date /\ c.clock = calls[k].clock
  <2>1. n \in 0..Parts /\ step \in Pcs
    BY <1>3 DEF Parts, Pcs
  <2> HIDE DEF n, step
  <2>2. /\ c \in CallRec /\ c.before = calls[k].before
        /\ c.pc = step /\ c.written = n /\ c.result = calls[k].result
        /\ c.date = calls[k].date /\ c.clock = calls[k].clock
    BY <1>2, <2>1 DEF CallRec
  <2> QED
    BY <2>2 DEF step
<1>5. /\ file' = Append(file, p) /\ tm' = tm
      /\ calls' = [calls EXCEPT ![k] = c]
      /\ UNCHANGED <<mutex, flushed, flushFailed>>
  BY DEF Put
<1>6. Updated(k, c)
  BY <1>1, <1>4, <1>5, CallsUpdated
<1>7. p \in Piece /\ p = [call |-> k, part |-> n]
  BY <1>2, <1>3 DEF Piece
<1>8. /\ file \in Seq(Piece) /\ file' \in Seq(Piece)
      /\ Len(file) \in Nat /\ Len(file') = Len(file) + 1
      /\ \A i \in 1..Len(file) : file'[i] = file[i]
      /\ file'[Len(file) + 1] = p
  BY <1>1, <1>5, <1>7, AppendProperties, LenProperties DEF LogTypes
<1> HIDE DEF c, n, p, step
<1>9. /\ mutex = k /\ calls[k].result # "ok" /\ calls[k].written = n - 1
      /\ \A j \in Ids : j # k => calls[j].pc \notin {"write", "flush", "unlock"}
  BY <1>1, <1>2, Holder DEF LogInv, Progress, n, CallRec
<1>10. Ids' = Ids
  BY <1>6 DEF Updated, Ids
<1>11. LogTypes'
  BY <1>5, <1>6, <1>8 DEF LogInv, LogTypes, Updated
<1>12. Exclusive'
  BY <1>1, <1>4, <1>5, <1>6, <1>9, <1>10 DEF LogInv, Exclusive, Updated
<1>13. Progress'
  BY <1>3, <1>4, <1>6, <1>9, <1>10 DEF LogInv, Progress, Updated, Parts
<1>14. EndOfFile'
  <2> SUFFICES ASSUME Writing'
               PROVE  /\ n <= Len(file')
                      /\ \A i \in 1..n : file'[Len(file') - n + i]
                                           = [call |-> k, part |-> i]
    <3>1. mutex' = k /\ calls'[k].written = n
      BY <1>4, <1>5, <1>6, <1>9 DEF Updated
    <3> QED
      BY <3>1 DEF EndOfFile
  <2>1. Writing /\ n - 1 <= Len(file)
    BY <1>1, <1>2, <1>9 DEF LogInv, EndOfFile, Writing, NoCall
  <2>2. ASSUME NEW i \in 1..n
        PROVE  file'[Len(file') - n + i] = [call |-> k, part |-> i]
    <3>1. CASE i = n
      BY <1>3, <1>7, <1>8, <3>1
    <3>2. CASE i # n
      <4>1. i \in 1..(n - 1) /\ Len(file') - n + i = Len(file) - (n - 1) + i
            /\ Len(file) - (n - 1) + i \in 1..Len(file)
        BY <1>3, <1>8, <2>1, <3>2
      <4>2. file[Len(file) - (n - 1) + i] = [call |-> k, part |-> i]
        BY <1>9, <2>1, <4>1 DEF LogInv, EndOfFile
      <4> QED
        BY <1>8, <4>1, <4>2
    <3> QED
      BY <3>1, <3>2
  <2> QED
    BY <1>3, <1>8, <2>1, <2>2
<1>15. OnDisk'
  <2>1. ASSUME NEW j \in Ids, calls'[j].pc = "flush"
        PROVE  \E i \in 1..Len(file') : file'[i] = [call |-> j, part |-> Parts]
    <3>1. j = k /\ n = Parts
      BY <1>4, <1>6, <1>9, <2>1 DEF Updated
    <3> QED
      BY <1>7, <1>8, <3>1
  <2>2. ASSUME NEW j \in Ids, calls'[j].result = "ok", ~flushFailed
        PROVE  \E i \in 1..flushed : file'[i] = [call |-> j, part |-> Parts]
    <3>1. j # k /\ calls[j].result = "ok"
      BY <1>4, <1>6, <1>9, <2>2 DEF Updated
    <3>2. PICK i \in 1..flushed : file[i] = [call |-> j, part |-> Parts]
      BY <2>2, <3>1 DEF LogInv, OnDisk
    <3>3. i \in 1..Len(file)
      BY <1>1, <1>8 DEF LogTypes
    <3> QED
      BY <1>8, <3>2, <3>3
  <2> QED
    BY <1>5, <1>10, <2>1, <2>2 DEF OnDisk
<1>16. OwnTimes(k)'
  BY <1>1, <1>4, <1>6 DEF LogInv, Times, OwnTimes, Overlap, Updated
<1> QED
  BY <1>1, <1>5, <1>6, <1>11, <1>12, <1>13, <1>14, <1>15, <1>16, TimesKeep
     DEF LogInv

(* Leaving the critical section, step by step: the record changes as c     *)
(* says, and nothing is written.                                           *)
Leaving(k, c) ==
  /\ Updated(k, c)
  /\ c.written = calls[k].written /\ c.date = calls[k].date
  /\ c.clock = calls[k].clock
  /\ calls[k].pc \in {"write", "flush", "unlock"}
  /\ c.pc \in {"unlock", "done"}
  /\ mutex' = IF c.pc = "done" THEN NoCall ELSE k
  /\ c.pc = "unlock" => (c.result = "ok" <=> c.written = Parts)
  /\ c.result = "ok" => c.written = Parts
  /\ UNCHANGED <<tm, file>>
  /\ flushed' \in 0..Len(file) /\ flushed <= flushed'
  /\ flushFailed' \in BOOLEAN /\ (flushFailed => flushFailed')
  /\ c.result = "ok" /\ ~flushFailed' =>
       \E i \in 1..flushed' : file[i] = [call |-> k, part |-> Parts]

(* No step on the way out of the critical section disturbs another call.   *)
LEMMA LeavingKeeps ==
  ASSUME LogInv, NEW k \in Ids, NEW c, Leaving(k, c)
  PROVE  LogInv'
<1> USE DEF Leaving
<1>1. Ids' = Ids /\ k \in Nat /\ k # 0 /\ mutex = k
  BY Holder, CallTypes DEF Updated, Ids, LogInv
<1>2. \A j \in Ids : j # k => calls[j].pc \notin {"write", "flush", "unlock"}
  BY Holder
<1>3. LogTypes'
  BY <1>1 DEF LogInv, LogTypes, Updated, NoCall
<1>4. Exclusive'
  <2>1. \A j \in Ids : j # 0
    BY CallTypes DEF LogInv
  <2> QED
    BY <1>1, <1>2, <2>1 DEF Exclusive, Updated, NoCall
<1>5. Progress'
  BY <1>1 DEF LogInv, Progress, Updated
<1>6. EndOfFile'
  BY <1>1 DEF EndOfFile, Writing, Updated, NoCall
<1>7. OnDisk'
  <2>1. ASSUME NEW j \in Ids, calls'[j].result = "ok", ~flushFailed'
        PROVE  \E i \in 1..flushed' : file[i] = [call |-> j, part |-> Parts]
    <3>1. CASE j = k
      BY <2>1, <3>1 DEF Updated
    <3>2. CASE j # k
      <4>1. PICK i \in 1..flushed : file[i] = [call |-> j, part |-> Parts]
        BY <2>1, <3>2 DEF LogInv, OnDisk, Updated
      <4>2. i \in 1..flushed'
        BY DEF LogInv, LogTypes
      <4> QED
        BY <4>1, <4>2
    <3> QED
      BY <3>1, <3>2
  <2>2. \A j \in Ids : calls'[j].pc # "flush"
    BY <1>2 DEF Updated
  <2> QED
    BY <1>1, <2>1, <2>2 DEF OnDisk
<1>8. OwnTimes(k)'
  BY DEF LogInv, Times, OwnTimes, Overlap, Updated
<1>9. Times'
  BY <1>8, TimesKeep
<1> QED
  BY <1>3, <1>4, <1>5, <1>6, <1>7, <1>9 DEF LogInv

(* A failing fputs() leads to the unlock.                                  *)
LEMMA PutFailsKeeps ==
  ASSUME LogInv, NEW k \in 1..MaxCalls, PutFails(k)
  PROVE  LogInv'
<1> DEFINE c == [calls[k] EXCEPT !.result = "no write", !.pc = "unlock"]
<1>1. k \in Ids /\ LogTypes /\ calls[k].pc = "write"
  BY DEF PutFails, At, Runs, LogInv
<1>2. calls[k] \in CallRec
  BY <1>1, CallTypes
<1>3. /\ c \in CallRec /\ c.before = calls[k].before
      /\ c.pc = "unlock" /\ c.result = "no write" /\ c.written = calls[k].written
      /\ c.date = calls[k].date /\ c.clock = calls[k].clock
  BY <1>2 DEF CallRec, Pcs, Results
<1>4. /\ calls' = [calls EXCEPT ![k] = c]
      /\ UNCHANGED <<mutex, tm, file, flushed, flushFailed>>
  BY DEF PutFails
<1>5. Updated(k, c)
  BY <1>1, <1>3, <1>4, CallsUpdated
<1> HIDE DEF c
<1>6. mutex = k /\ calls[k].written < Parts
  BY <1>1, Holder DEF LogInv, Progress
<1>7. calls[k].written # Parts
  BY <1>2, <1>6 DEF CallRec, Parts
<1>8. flushed \in 0..Len(file) /\ flushFailed \in BOOLEAN /\ flushed <= flushed
  BY <1>1, LenProperties DEF LogTypes
<1>9. Leaving(k, c)
  BY <1>1, <1>3, <1>4, <1>5, <1>6, <1>7, <1>8 DEF Leaving
<1> QED
  BY <1>1, <1>9, LeavingKeeps

(* fflush() takes everything written to the file, or fails.                *)
LEMMA FlushKeeps ==
  ASSUME LogInv, NEW k \in 1..MaxCalls, Flush(k)
  PROVE  LogInv'
<1> DEFINE c == [calls[k] EXCEPT !.result = "ok", !.pc = "unlock"]
<1>1. k \in Ids /\ LogTypes /\ calls[k].pc = "flush"
  BY DEF Flush, At, Runs, LogInv
<1>2. calls[k] \in CallRec
  BY <1>1, CallTypes
<1>3. /\ c \in CallRec /\ c.before = calls[k].before
      /\ c.pc = "unlock" /\ c.result = "ok" /\ c.written = calls[k].written
      /\ c.date = calls[k].date /\ c.clock = calls[k].clock
  BY <1>2 DEF CallRec, Pcs, Results
<1>4. /\ calls' = [calls EXCEPT ![k] = c]
      /\ UNCHANGED <<mutex, tm, file>>
      /\ \/ flushed' = Len(file) /\ UNCHANGED flushFailed
         \/ flushFailed' = TRUE /\ UNCHANGED flushed
  BY DEF Flush
<1>5. Updated(k, c)
  BY <1>1, <1>3, <1>4, CallsUpdated
<1> HIDE DEF c
<1>6. mutex = k /\ calls[k].written = Parts
  BY <1>1, Holder DEF LogInv, Progress
<1>7. \E i \in 1..Len(file) : file[i] = [call |-> k, part |-> Parts]
  BY <1>1 DEF LogInv, OnDisk
<1>8. /\ Len(file) \in Nat /\ flushed \in 0..Len(file)
      /\ flushed' \in 0..Len(file) /\ flushed <= flushed'
      /\ flushFailed' \in BOOLEAN /\ (flushFailed => flushFailed')
  <2>1. /\ Len(file) \in Nat /\ flushed \in 0..Len(file)
        /\ flushFailed \in BOOLEAN
    BY <1>1, LenProperties DEF LogTypes
  <2>2. flushFailed' \in BOOLEAN /\ (flushFailed => flushFailed')
    BY <1>4, <2>1
  <2>3. flushed' = Len(file) \/ flushed' = flushed
    BY <1>4
  <2>4. flushed' \in 0..Len(file) /\ flushed <= flushed'
    BY <2>1, <2>3
  <2> QED
    BY <2>1, <2>2, <2>4
<1>9. ~flushFailed' => \E i \in 1..flushed' : file[i] = [call |-> k, part |-> Parts]
  BY <1>4, <1>7
<1>10. Leaving(k, c)
  BY <1>1, <1>3, <1>4, <1>5, <1>6, <1>8, <1>9 DEF Leaving
<1> QED
  BY <1>1, <1>10, LeavingKeeps

(* The call returns.                                                       *)
LEMMA UnlockKeeps ==
  ASSUME LogInv, NEW k \in 1..MaxCalls, Unlock(k)
  PROVE  LogInv'
<1> DEFINE c == [calls[k] EXCEPT !.pc = "done"]
<1>1. k \in Ids /\ LogTypes /\ calls[k].pc = "unlock"
  BY DEF Unlock, At, Runs, LogInv
<1>2. calls[k] \in CallRec
  BY <1>1, CallTypes
<1>3. /\ c \in CallRec /\ c.before = calls[k].before
      /\ c.pc = "done" /\ c.result = calls[k].result
      /\ c.written = calls[k].written
      /\ c.date = calls[k].date /\ c.clock = calls[k].clock
  BY <1>2 DEF CallRec, Pcs
<1>4. /\ calls' = [calls EXCEPT ![k] = c]
      /\ mutex' = NoCall
      /\ UNCHANGED <<tm, file, flushed, flushFailed>>
  BY DEF Unlock, Goto
<1>5. Updated(k, c)
  BY <1>1, <1>3, <1>4, CallsUpdated
<1> HIDE DEF c
<1>6. calls[k].result = "ok" => calls[k].written = Parts
  BY <1>1 DEF LogInv, Progress
<1>7. calls[k].result = "ok" /\ ~flushFailed =>
        \E i \in 1..flushed : file[i] = [call |-> k, part |-> Parts]
  BY <1>1 DEF LogInv, OnDisk
<1>8. Leaving(k, c)
  BY <1>1, <1>3, <1>4, <1>5, <1>6, <1>7 DEF Leaving, LogTypes
<1> QED
  BY <1>1, <1>8, LeavingKeeps
-----------------------------------------------------------------------------
(* A new call has no time yet, and has begun after those that have ended.  *)
LEMMA NewCallKeeps ==
  ASSUME LogInv, NEW t \in Threads, NewCall(t)
  PROVE  LogInv'
<1> DEFINE r == [on |-> t, pc |-> "time", written |-> 0, date |-> NoCall,
                 clock |-> NoCall, result |-> "none",
                 before |-> {j \in Ids : ~Active(j)}]
<1>1. /\ calls \in Seq(CallRec) /\ Len(calls) \in Nat /\ Len(calls) < MaxCalls
      /\ MaxCalls \in Nat /\ calls' = Append(calls, r)
      /\ UNCHANGED <<mutex, tm, file, flushed, flushFailed>>
  BY LogAssumption, LenProperties DEF NewCall, LogInv, LogTypes, LogAssumption
<1>2. /\ r.pc = "time" /\ r.written = 0 /\ r.result = "none"
      /\ r.before \subseteq 1..Len(calls)
      /\ \A j \in r.before : calls[j].pc = "done"
  BY DEF Ids, Active
<1>3. r \in CallRec
  <2>1. r.before \in SUBSET Nat
    BY <1>1, <1>2
  <2>2. "time" \in Pcs /\ "none" \in Results /\ 0 \in 0..Parts /\ NoCall \in Nat
    BY DEF Pcs, Results, Parts, NoCall
  <2> QED
    BY <2>1, <2>2 DEF CallRec
<1> HIDE DEF r
<1> PICK k \in Nat : k = Len(calls) + 1
  BY <1>1
<1>4. /\ calls' \in Seq(CallRec) /\ Len(calls') = k /\ calls'[k] = r
      /\ \A j \in Ids : calls'[j] = calls[j]
  BY <1>1, <1>3, AppendProperties DEF Ids
<1>5. Ids' = Ids \cup {k} /\ k \notin Ids /\ k \in Nat /\ k # 0 /\ k - 1 = Len(calls)
  BY <1>1, <1>4 DEF Ids
<1>6. mutex # k
  BY <1>5 DEF LogInv, Exclusive, NoCall
<1>7. LogTypes'
  <2>1. Len(calls') <= MaxCalls
    BY <1>1, <1>4
  <2> QED
    BY <1>1, <1>4, <2>1 DEF LogInv, LogTypes
<1>8. Exclusive'
  BY <1>1, <1>2, <1>4, <1>5, <1>6 DEF LogInv, Exclusive
<1>9. Progress'
  BY <1>2, <1>4, <1>5 DEF LogInv, Progress
<1>10. EndOfFile'
  <2>1. mutex # NoCall => calls'[mutex] = calls[mutex]
    BY <1>4 DEF LogInv, Exclusive
  <2> QED
    BY <1>1, <2>1 DEF LogInv, EndOfFile, Writing
<1>11. OnDisk'
  BY <1>1, <1>2, <1>4, <1>5 DEF LogInv, OnDisk
<1>12. Times'
  <2>1. ASSUME NEW j \in Ids
        PROVE  /\ calls'[j].before \subseteq 1..(j - 1)
               /\ \A i \in calls'[j].before : calls'[i].pc = "done"
               /\ OwnTimes(j)'
    <3>1. /\ calls[j].before \subseteq 1..(j - 1)
          /\ \A i \in calls[j].before : calls[i].pc = "done"
          /\ OwnTimes(j)
      BY DEF LogInv, Times
    <3>2. \A i \in 1..(j - 1) : i \in Ids
      BY <1>1 DEF Ids
    <3>3. OwnTimes(j)'
      BY <1>1, <1>4, <3>1 DEF OwnTimes, Overlap
    <3> QED
      BY <1>4, <3>1, <3>2, <3>3
  <2>2. calls'[k].before \subseteq 1..(k - 1)
    BY <1>2, <1>4, <1>5
  <2>3. \A i \in calls'[k].before : calls'[i].pc = "done"
    BY <1>2, <1>4 DEF Ids
  <2>4. OwnTimes(k)'
    <3>1. calls'[k].pc = "time" /\ calls'[k].written = 0
      BY <1>2, <1>4
    <3> QED
      BY <3>1 DEF OwnTimes
  <2> QED
    BY <1>5, <2>1, <2>2, <2>3, <2>4 DEF Times
<1> QED
  BY <1>7, <1>8, <1>9, <1>10, <1>11, <1>12 DEF LogInv

(* stop_log() flushes, or fails to.                                        *)
LEMMA StopLogKeeps ==
  ASSUME LogInv, StopLog
  PROVE  LogInv'
<1>1. /\ UNCHANGED <<calls, mutex, tm, file, flushFailed>>
      /\ flushed' = Len(file) \/ flushed' = flushed
  BY DEF StopLog
<1>2. /\ Len(file) \in Nat /\ flushed \in 0..Len(file)
  BY LenProperties DEF LogInv, LogTypes
<1>3. flushed' \in 0..Len(file) /\ \A i \in 1..flushed : i \in 1..flushed'
  BY <1>1, <1>2
<1>4. LogTypes' /\ Exclusive' /\ Progress' /\ EndOfFile' /\ Times'
  BY <1>1, <1>3
     DEF LogInv, LogTypes, Exclusive, Progress, EndOfFile, Writing, Times,
         OwnTimes, Overlap, Ids
<1>5. OnDisk'
  BY <1>1, <1>3 DEF LogInv, OnDisk, Ids
<1> QED
  BY <1>4, <1>5 DEF LogInv

(* Nothing is logged when start_log() has just returned.                   *)
LEMMA InitLog == Init => LogInv
<1> SUFFICES ASSUME Init PROVE LogInv
  OBVIOUS
<1>1. /\ calls = <<>> /\ mutex = 0 /\ tm = 0 /\ file = <<>> /\ flushed = 0
      /\ flushFailed = FALSE
  BY DEF Init, NoCall
<1>2. LogTypes
  <2>1. MaxCalls \in Nat
    BY LogAssumption DEF LogAssumption
  <2>2. Len(calls) = 0 /\ calls \in Seq(CallRec)
    BY <1>1, EmptySeq
  <2>3. Len(file) = 0 /\ file \in Seq(Piece)
    BY <1>1, EmptySeq
  <2>4. Len(calls) <= MaxCalls /\ flushed \in 0..Len(file)
    BY <1>1, <2>1, <2>2, <2>3
  <2> QED
    BY <1>1, <2>2, <2>3, <2>4 DEF LogTypes
<1>3. Ids = {}
  BY <1>1 DEF Ids
<1>4. Exclusive /\ Progress /\ OnDisk /\ Times
  BY <1>1, <1>3 DEF Exclusive, Progress, OnDisk, Times, NoCall
<1>5. EndOfFile
  BY <1>1 DEF EndOfFile, Writing, NoCall
<1> QED
  BY <1>2, <1>4, <1>5 DEF LogInv

(* The inductive invariant of the log.                                     *)
THEOREM LogInvariant == Spec => []LogInv
<1>1. LogInv /\ [Next]_vars => LogInv'
  <2> SUFFICES ASSUME LogInv, [Next]_vars PROVE LogInv'
    OBVIOUS
  <2>1. ASSUME NEW t \in Threads, Call(t) \/ Interrupt(t) PROVE LogInv'
    BY <2>1, NewCallKeeps DEF Call, Interrupt
  <2>2. ASSUME NEW k \in 1..MaxCalls, Step(k) PROVE LogInv'
    BY <2>2, TimeKeeps, LockKeeps, PutKeeps, PutFailsKeeps, FlushKeeps,
       UnlockKeeps DEF Step
  <2>3. CASE StopLog
    BY <2>3, StopLogKeeps
  <2>4. CASE UNCHANGED vars
    <3>1. UNCHANGED <<calls, mutex, tm, file, flushed, flushFailed>>
      BY <2>4 DEF vars
    <3>2. LogTypes' /\ Exclusive' /\ Progress'
      BY <3>1 DEF LogInv, LogTypes, Exclusive, Progress, Ids
    <3>3. EndOfFile' /\ OnDisk'
      BY <3>1 DEF LogInv, EndOfFile, Writing, OnDisk, Ids
    <3>4. Times'
      BY <3>1 DEF LogInv, Times, OwnTimes, Overlap, Ids
    <3> QED
      BY <3>2, <3>3, <3>4 DEF LogInv
  <2> QED
    BY <2>1, <2>2, <2>3, <2>4 DEF Next
<1> QED
  BY <1>1, InitLog, PTL DEF Spec

(* Durable: what printL() has reported as written is in the file, unless a *)
(* flush has failed.                                                       *)
THEOREM DurableHolds == Spec => []Durable
<1>1. LogInv => Durable
  <2> SUFFICES ASSUME LogInv, NEW k \in Ids, Status(k) = "ok", ~flushFailed
               PROVE  \E i \in 1..flushed :
                         file[i] = [call |-> k, part |-> Parts]
    BY DEF Durable
  <2>1. calls[k].result = "ok"
    BY DEF Status
  <2> QED
    BY <2>1 DEF LogInv, OnDisk
<1> QED
  BY <1>1, LogInvariant, PTL

(* TimeFromOverlap: the time in a line was read from the clock by the call *)
(* itself or by one that overlaps it, however many threads share the       *)
(* static struct.                                                          *)
THEOREM TimeFromOverlapHolds == Spec => []TimeFromOverlap
<1>1. LogInv => TimeFromOverlap
  BY DEF LogInv, Times, OwnTimes, Overlap, TimeFromOverlap
<1> QED
  BY <1>1, LogInvariant, PTL
-----------------------------------------------------------------------------
(* printL() implements LineLog, a log to which whole lines are added       *)
(* atomically, for every number of threads, calls and failures.            *)

Text == SubSeq(file, 1, Settled)
State == [k \in 1..MaxCalls |-> Status(k)]

(* A step of call k changes no other call.                                 *)
Only(k) ==
  /\ Ids' = Ids /\ k \in Ids
  /\ \A j \in Ids : j # k => calls'[j] = calls[j]

(* Assigning to one record leaves the others and the number of calls.      *)
LEMMA OneRecord ==
  ASSUME LogTypes, LogTypes', NEW k \in Ids, NEW v,
         calls' = [calls EXCEPT ![k] = v]
  PROVE  Only(k) /\ calls'[k] = v
<1>1. /\ Len(calls) \in Nat /\ DOMAIN calls = 1..Len(calls)
      /\ Len(calls') \in Nat /\ DOMAIN calls' = 1..Len(calls')
  BY LenProperties DEF LogTypes
<1>2. 1..Len(calls') = 1..Len(calls)
  BY <1>1
<1>3. Len(calls') = Len(calls)
  BY <1>1, <1>2
<1>4. k \in DOMAIN calls
  BY <1>1 DEF Ids
<1>5. calls'[k] = v
  BY <1>4
<1>6. \A j \in Ids : j # k => calls'[j] = calls[j]
  BY <1>1 DEF Ids
<1> QED
  BY <1>3, <1>5, <1>6 DEF Only, Ids

(* Only the status of the call that takes the step can change.             *)
LEMMA OneStatus ==
  ASSUME NEW k \in 1..MaxCalls, Only(k)
  PROVE  State' = [State EXCEPT ![k] = Status(k)']
<1>1. \A j \in 1..MaxCalls : j # k => Status(j)' = Status(j)
  BY DEF Only, Status
<1> QED
  BY <1>1 DEF State

(* The settled part of the file is a prefix of it.                         *)
LEMMA SettledPrefix ==
  ASSUME LogInv
  PROVE  /\ file \in Seq(Piece) /\ Len(file) \in Nat
         /\ Settled \in 0..Len(file)
         /\ ~Writing => Settled = Len(file)
         /\ Writing => /\ mutex \in Ids /\ calls[mutex].written \in 0..Parts
                       /\ Settled = Len(file) - calls[mutex].written
<1>1. file \in Seq(Piece) /\ Len(file) \in Nat
  BY LenProperties DEF LogInv, LogTypes
<1>2. ASSUME Writing
      PROVE  /\ mutex \in Ids /\ calls[mutex].written \in 0..Parts
             /\ calls[mutex].written <= Len(file)
  BY <1>2, CallTypes DEF LogInv, Exclusive, EndOfFile, Writing
<1> QED
  BY <1>1, <1>2 DEF Settled, Parts

(* Appending to a sequence leaves its prefixes.                            *)
LEMMA PrefixOfAppend ==
  ASSUME NEW S, NEW s \in Seq(S), NEW e \in S, NEW a \in 0..Len(s)
  PROVE  SubSeq(Append(s, e), 1, a) = SubSeq(s, 1, a)
<1>1. Len(s) \in Nat /\ a \in Int
  BY LenProperties
<1>2. \A i \in 1..a : s[i] \in S /\ Append(s, e)[i] = s[i]
  BY <1>1, ElementOfSeq, AppendProperties
<1>3. SubSeq(s, 1, a) \in Seq(S) /\ SubSeq(Append(s, e), 1, a) \in Seq(S)
  BY <1>1, <1>2, SubSeqProperties
<1>4. Len(SubSeq(s, 1, a)) = a /\ Len(SubSeq(Append(s, e), 1, a)) = a
  BY <1>1, <1>2, SubSeqProperties
<1>5. \A i \in 1..a : SubSeq(s, 1, a)[i] = SubSeq(Append(s, e), 1, a)[i]
  BY <1>1, <1>2, SubSeqProperties
<1> QED
  BY <1>3, <1>4, <1>5, SeqEqual

(* A sequence is a prefix of it and the rest.                              *)
LEMMA PrefixAndRest ==
  ASSUME NEW S, NEW s \in Seq(S), NEW a \in 0..Len(s), NEW r \in Seq(S),
         Len(r) = Len(s) - a, \A i \in 1..Len(r) : r[i] = s[a + i]
  PROVE  SubSeq(s, 1, Len(s)) = SubSeq(s, 1, a) \o r
<1> DEFINE p == SubSeq(s, 1, a)
<1>1. Len(s) \in Nat /\ a \in Int /\ Len(r) \in Nat
  BY LenProperties
<1>2. \A i \in 1..a : s[i] \in S
  BY <1>1, ElementOfSeq
<1>3. p \in Seq(S) /\ Len(p) = a /\ \A i \in 1..a : p[i] = s[i]
  BY <1>1, <1>2, SubSeqProperties
<1> HIDE DEF p
<1>4. /\ p \o r \in Seq(S) /\ Len(p \o r) = Len(s)
      /\ \A i \in 1..Len(s) : (p \o r)[i] = IF i <= a THEN p[i] ELSE r[i - a]
  BY <1>1, <1>3, ConcatProperties
<1>5. ASSUME NEW i \in 1..Len(s) PROVE (p \o r)[i] = s[i]
  <2>1. CASE i <= a
    BY <1>1, <1>3, <1>4, <2>1
  <2>2. CASE ~(i <= a)
    <3>1. i - a \in 1..Len(r) /\ a + (i - a) = i
      BY <1>1, <2>2
    <3> QED
      BY <1>4, <2>2, <3>1
  <2> QED
    BY <2>1, <2>2
<1>6. p \o r = s
  BY <1>4, <1>5, SeqEqual
<1> QED
  BY <1>6, SubSeqFull DEF p
-----------------------------------------------------------------------------
(* One lemma per step of a call: which abstract step it is.                *)

(* get_time() and the wait for the mutex are no step of the log.           *)
LEMMA QuietStep ==
  ASSUME LogInv, LogInv', NEW k \in 1..MaxCalls,
         LocalTime(k) \/ ReadDate(k) \/ ReadClock(k) \/ Lock(k)
  PROVE  State' = State /\ Text' = Text
<1>1. k \in Ids /\ LogTypes /\ LogTypes'
  BY DEF LocalTime, ReadDate, ReadClock, Lock, At, Runs, LogInv
<1>2. /\ calls[k].pc \in {"time", "date", "clock", "lock"} /\ file' = file
      /\ \/ mutex' = mutex
         \/ mutex = NoCall /\ mutex' = k
  BY DEF LocalTime, ReadDate, ReadClock, Lock, At
<1>3. PICK v : /\ calls' = [calls EXCEPT ![k] = v]
               /\ v.pc \in {"date", "clock", "lock", "write"}
               /\ v.written = calls[k].written
               /\ mutex' = k => v.pc = "write"
  <2>1. calls[k] \in CallRec
    BY <1>1, CallTypes
  <2>2. mutex # k
    BY <1>1, <1>2 DEF LogInv, Exclusive
  <2>3. CASE LocalTime(k)
    <3> WITNESS [calls[k] EXCEPT !.pc = "date"]
    <3> QED
      BY <2>1, <2>2, <2>3 DEF LocalTime, Goto, CallRec
  <2>4. CASE ReadDate(k)
    <3> WITNESS [calls[k] EXCEPT !.date = tm, !.pc = "clock"]
    <3> QED
      BY <2>1, <2>2, <2>4 DEF ReadDate, CallRec
  <2>5. CASE ReadClock(k)
    <3> WITNESS [calls[k] EXCEPT !.clock = tm, !.pc = "lock"]
    <3> QED
      BY <2>1, <2>2, <2>5 DEF ReadClock, CallRec
  <2>6. CASE Lock(k)
    <3> WITNESS [calls[k] EXCEPT !.pc = "write"]
    <3> QED
      BY <2>1, <2>6 DEF Lock, Goto, CallRec
  <2> QED
    BY <2>3, <2>4, <2>5, <2>6
<1>4. Only(k) /\ calls'[k] = v
  BY <1>1, <1>3, OneRecord
<1>5. calls[k].written = 0
  BY <1>1, <1>2 DEF LogInv, Progress
<1>6. Status(k) = "open" /\ Status(k)' = "open"
  BY <1>2, <1>3, <1>4, <1>5 DEF Status, Only, Parts
<1>7. State' = State
  <2>1. State[k] = Status(k) /\ State = [State EXCEPT ![k] = State[k]]
    BY DEF State
  <2> QED
    BY <1>4, <1>6, <2>1, OneStatus
<1>8. Settled' = Settled
  <2>1. CASE mutex' = mutex
    <3>1. mutex # k
      BY <1>1, <1>2 DEF LogInv, Exclusive
    <3>2. mutex # NoCall => calls'[mutex] = calls[mutex]
      BY <1>4, <3>1 DEF LogInv, Exclusive, Only
    <3> QED
      BY <1>2, <2>1, <3>2 DEF Settled, Writing
  <2>2. CASE mutex = NoCall /\ mutex' = k
    <3>1. Len(file) \in Nat /\ k # NoCall
      BY SettledPrefix DEF NoCall
    <3>2. Settled = Len(file)
      BY <2>2, SettledPrefix DEF Writing
    <3>3. Settled' = Len(file) - 0
      BY <1>2, <1>3, <1>4, <1>5, <2>2, <3>1 DEF Settled, Writing
    <3> QED
      BY <3>1, <3>2, <3>3
  <2> QED
    BY <1>2, <2>1, <2>2
<1> QED
  BY <1>2, <1>7, <1>8 DEF Text

(* A failing get_time() and the unlock return from printL().               *)
LEMMA ReturnStep ==
  ASSUME LogInv, LogInv', NEW k \in 1..MaxCalls, TimeFails(k) \/ Unlock(k)
  PROVE  /\ \/ State[k] = "printed" /\ State' = [State EXCEPT ![k] = "ok"]
            \/ /\ State[k] \in {"open", "broken"}
               /\ State' = [State EXCEPT ![k] = "error"]
         /\ Text' = Text
<1>1. k \in Ids /\ LogTypes /\ LogTypes'
  BY DEF TimeFails, Unlock, At, Runs, LogInv
<1>2. State[k] = Status(k)
  BY DEF State
<1>3. calls[k] \in CallRec
  BY <1>1, CallTypes
<1>4. CASE TimeFails(k)
  <2> DEFINE v == [calls[k] EXCEPT !.result = "no time", !.pc = "done"]
  <2>1. calls' = [calls EXCEPT ![k] = v]
    BY <1>4 DEF TimeFails
  <2>2. calls[k].pc = "time" /\ mutex' = mutex /\ file' = file
    BY <1>4 DEF TimeFails, At
  <2>3. v.pc = "done" /\ v.result = "no time"
    BY <1>3 DEF CallRec
  <2> HIDE DEF v
  <2>4. Only(k) /\ calls'[k] = v
    BY <1>1, <2>1, OneRecord
  <2>5. calls[k].written = 0 /\ mutex # k
    BY <1>1, <2>2 DEF LogInv, Progress, Exclusive
  <2>6. Status(k) = "open" /\ Status(k)' = "error"
    <3>1. Status(k) = "open"
      BY <1>1, <2>2, <2>5 DEF Status, Parts
    <3>2. k \in Ids' /\ calls'[k].pc = "done" /\ calls'[k].result = "no time"
      BY <2>3, <2>4 DEF Only
    <3> QED
      BY <3>1, <3>2 DEF Status
  <2>7. mutex # NoCall => calls'[mutex] = calls[mutex]
    BY <2>4, <2>5 DEF LogInv, Exclusive, Only
  <2>8. Text' = Text
    BY <2>7, <2>2 DEF Text, Settled, Writing
  <2> QED
    BY <1>2, <2>4, <2>6, <2>8, OneStatus
<1>5. CASE Unlock(k)
  <2> DEFINE v == [calls[k] EXCEPT !.pc = "done"]
  <2>1. /\ calls' = [calls EXCEPT ![k] = v] /\ calls[k].pc = "unlock"
        /\ mutex' = NoCall /\ file' = file
    BY <1>5 DEF Unlock, At, Goto
  <2>2. v.pc = "done" /\ v.result = calls[k].result
    BY <1>3 DEF CallRec
  <2> HIDE DEF v
  <2>3. Only(k) /\ calls'[k] = v
    BY <1>1, <2>1, OneRecord
  <2>4. calls[k].result = "ok" <=> calls[k].written = Parts
    BY <1>1, <2>1 DEF LogInv, Progress
  <2>5. /\ Status(k)' = IF calls[k].result = "ok" THEN "ok" ELSE "error"
        /\ Status(k) = IF calls[k].result = "ok" THEN "printed"
                       ELSE IF calls[k].written > 0 THEN "broken" ELSE "open"
    BY <2>1, <2>2, <2>3, <2>4 DEF Status, Only
  <2>6. mutex = k
    BY <1>1, <2>1, Holder
  <2>7. ~Writing /\ ~Writing'
    BY <2>1, <2>6 DEF Writing
  <2>8. Text' = Text
    BY <2>1, <2>7 DEF Text, Settled
  <2> QED
    BY <1>2, <2>3, <2>5, <2>8, OneStatus
<1> QED
  BY <1>4, <1>5

(* A line, and its beginnings, as sequences.                               *)
LEMMA LineProperties ==
  ASSUME NEW k \in Nat, NEW n \in 0..Parts
  PROVE  /\ Abstract!Line(k) \in Seq(Piece)
         /\ SubSeq(Abstract!Line(k), 1, n) \in Seq(Piece)
         /\ Len(SubSeq(Abstract!Line(k), 1, n)) = n
         /\ \A i \in 1..n : SubSeq(Abstract!Line(k), 1, n)[i] = [call |-> k, part |-> i]
         /\ SubSeq(Abstract!Line(k), 1, Parts) = Abstract!Line(k)
<1> DEFINE line == Abstract!Line(k)
<1>1. \A i \in 1..Parts : line[i] = [call |-> k, part |-> i] /\ line[i] \in Piece
  BY DEF Abstract!Line, Piece, Parts
<1>2. line \in [1..Parts -> Piece]
  BY DEF Abstract!Line, Piece, Parts
<1>3. line \in Seq(Piece) /\ Len(line) = Parts
  <2> DEFINE s == line
  <2>1. s \in [1..5 -> Piece] /\ DOMAIN s = 1..5
    BY <1>2 DEF Parts
  <2> HIDE DEF line, s
  <2>2. s \in Seq(Piece)
    <3>1. [1..5 -> Piece] \in {[1..m -> Piece] : m \in Nat}
      OBVIOUS
    <3> QED
      BY <2>1, <3>1, SeqDef
  <2>3. Len(s) = 5
    BY <2>1, <2>2, LenProperties
  <2> QED
    BY <2>2, <2>3 DEF s, Parts
<1> HIDE DEF line
<1>4. n \in Int /\ n \in Nat /\ 1..n \subseteq 1..Parts
  BY DEF Parts
<1>5. /\ SubSeq(line, 1, n) \in Seq(Piece) /\ Len(SubSeq(line, 1, n)) = n
      /\ \A i \in 1..n : SubSeq(line, 1, n)[i] = line[i]
  <2>1. \A i \in 1..n : line[i] \in Piece
    BY <1>1, <1>4
  <2>2. /\ SubSeq(line, 1, n) \in Seq(Piece)
        /\ Len(SubSeq(line, 1, n)) = IF 1 <= n THEN n - 1 + 1 ELSE 0
        /\ \A i \in 1..n : SubSeq(line, 1, n)[i] = line[i]
    BY <1>4, <2>1, SubSeqProperties
  <2> QED
    BY <1>4, <2>2
<1>6. SubSeq(line, 1, Parts) = line
  BY <1>3, SubSeqFull
<1> QED
  BY <1>1, <1>3, <1>4, <1>5, <1>6 DEF line

(* All pieces but the last are no step of the log; with the last one the   *)
(* line is there.                                                          *)
LEMMA PutStep ==
  ASSUME LogInv, LogInv', NEW k \in 1..MaxCalls, Put(k)
  PROVE  \/ State' = State /\ Text' = Text
         \/ /\ State[k] = "open" /\ State' = [State EXCEPT ![k] = "printed"]
            /\ Text' = Text \o Abstract!Line(k)
<1> DEFINE n == calls[k].written + 1
           p == [call |-> k, part |-> n]
           step == IF n = Parts THEN "flush" ELSE "write"
           v == [calls[k] EXCEPT !.written = n, !.pc = step]
<1>1. k \in Ids /\ LogTypes /\ LogTypes' /\ calls[k].pc = "write"
  BY DEF Put, At, Runs, LogInv
<1>2. /\ calls[k] \in CallRec /\ k \in Nat /\ k # NoCall
      /\ calls[k].written \in 0..Parts
  BY <1>1, CallTypes DEF NoCall
<1>3. n \in 1..Parts /\ n - 1 = calls[k].written
  BY <1>1, <1>2 DEF LogInv, Progress, Parts
<1>4. calls' = [calls EXCEPT ![k] = v] /\ mutex' = mutex
  BY DEF Put
<1>5. file' = Append(file, p)
  BY DEF Put
<1>6. v.written = n /\ v.pc = step
  BY <1>2 DEF CallRec
<1>7. p \in Piece
  BY <1>2, <1>3 DEF Piece
<1> HIDE DEF v
<1>8. Only(k) /\ calls'[k] = v
  BY <1>1, <1>4, OneRecord
<1>9. mutex = k
  BY <1>1, Holder
<1>10. Writing /\ State[k] = Status(k)
  BY <1>1, <1>2, <1>9 DEF Writing, State
<1>11. /\ file \in Seq(Piece) /\ Len(file) \in Nat
       /\ Settled \in 0..Len(file) /\ Settled = Len(file) - (n - 1)
  BY <1>3, <1>9, <1>10, SettledPrefix
<1>12. /\ file' \in Seq(Piece) /\ Len(file') = Len(file) + 1
       /\ \A i \in 1..Len(file) : file'[i] = file[i]
       /\ file'[Len(file) + 1] = p
  BY <1>5, <1>7, <1>11, AppendProperties
<1>13. SubSeq(file', 1, Settled) = Text
  BY <1>5, <1>7, <1>11, PrefixOfAppend DEF Text
<1>14. Status(k) = "open"
  BY <1>1, <1>3 DEF Status, Parts
<1> HIDE DEF n, p
<1>15. CASE n # Parts
  <2>1. v.pc = "write"
    BY <1>6, <1>15
  <2>2. Writing' /\ calls'[mutex'].written = n
    BY <1>2, <1>4, <1>6, <1>8, <1>9, <2>1 DEF Writing
  <2>3. Settled' = Len(file') - n
    BY <2>2 DEF Settled
  <2>4. Settled' = Settled
    BY <1>3, <1>11, <1>12, <2>3
  <2>5. Text' = Text
    BY <1>13, <2>4 DEF Text
  <2>6. Status(k)' = "open"
    BY <1>6, <1>8, <1>15, <2>1 DEF Status, Only
  <2>7. State' = State
    <3>1. State = [State EXCEPT ![k] = State[k]]
      BY DEF State
    <3> QED
      BY <1>8, <1>10, <1>14, <2>6, <3>1, OneStatus
  <2> QED
    BY <2>5, <2>7
<1>16. CASE n = Parts
  <2>1. v.pc = "flush"
    BY <1>6, <1>16
  <2>2. Status(k)' = "printed"
    BY <1>6, <1>8, <1>16, <2>1 DEF Status, Only
  <2>3. ~Writing'
    BY <1>4, <1>8, <1>9, <2>1 DEF Writing
  <2>4. Settled' = Len(file')
    BY <1>11, <1>12, <2>3 DEF Settled
  <2> DEFINE line == Abstract!Line(k)
  <2>5. /\ line \in Seq(Piece) /\ Len(line) = Parts
        /\ \A i \in 1..Parts : line[i] = [call |-> k, part |-> i]
    <3>1. Parts \in 0..Parts
      BY DEF Parts
    <3> QED
      BY <1>2, <3>1, LineProperties
  <2> HIDE DEF line
  <2>6. /\ Settled \in 0..Len(file') /\ Len(line) = Len(file') - Settled
    BY <1>11, <1>12, <1>16, <2>5 DEF Parts
  <2>7. ASSUME NEW i \in 1..Len(line) PROVE line[i] = file'[Settled + i]
    <3>1. CASE i = Parts
      <4>1. Settled + i = Len(file) + 1
        BY <1>11, <1>16, <3>1 DEF Parts
      <4> QED
        BY <1>12, <1>16, <2>5, <3>1, <4>1 DEF p
    <3>2. CASE i # Parts
      <4>1. /\ i \in 1..(n - 1) /\ Settled + i \in 1..Len(file)
            /\ Len(file) - (n - 1) + i = Settled + i
        BY <1>11, <1>16, <2>5, <3>2 DEF Parts
      <4>2. file[Settled + i] = [call |-> k, part |-> i]
        BY <1>3, <1>9, <1>10, <4>1 DEF LogInv, EndOfFile
      <4> QED
        BY <1>12, <2>5, <4>1, <4>2
    <3> QED
      BY <3>1, <3>2
  <2>8. SubSeq(file', 1, Len(file')) = SubSeq(file', 1, Settled) \o line
    BY <1>12, <2>5, <2>6, <2>7, PrefixAndRest
  <2>9. Text' = Text \o line
    BY <1>13, <2>4, <2>8 DEF Text
  <2> QED
    BY <1>8, <1>10, <1>14, <2>2, <2>9, OneStatus DEF line
<1> QED
  BY <1>15, <1>16

(* A failing piece leaves the beginning of a line, or nothing.             *)
LEMMA PutFailsStep ==
  ASSUME LogInv, LogInv', NEW k \in 1..MaxCalls, PutFails(k)
  PROVE  \/ State' = State /\ Text' = Text
         \/ /\ State[k] = "open" /\ State' = [State EXCEPT ![k] = "broken"]
            /\ \E n \in 1..(Parts - 1) :
                  Text' = Text \o SubSeq(Abstract!Line(k), 1, n)
<1> DEFINE v == [calls[k] EXCEPT !.result = "no write", !.pc = "unlock"]
           n == calls[k].written
<1>1. k \in Ids /\ LogTypes /\ LogTypes' /\ calls[k].pc = "write"
  BY DEF PutFails, At, Runs, LogInv
<1>2. calls[k] \in CallRec /\ k \in Nat /\ k # NoCall /\ n \in 0..Parts
  BY <1>1, CallTypes DEF NoCall
<1>3. n \in 0..(Parts - 1)
  BY <1>1, <1>2 DEF LogInv, Progress, Parts
<1>4. calls' = [calls EXCEPT ![k] = v] /\ mutex' = mutex /\ file' = file
  BY DEF PutFails
<1>5. v.written = n /\ v.pc = "unlock"
  BY <1>2 DEF CallRec
<1> HIDE DEF v
<1>6. Only(k) /\ calls'[k] = v
  BY <1>1, <1>4, OneRecord
<1>7. mutex = k
  BY <1>1, Holder
<1>8. Writing /\ ~Writing' /\ State[k] = Status(k)
  BY <1>1, <1>2, <1>4, <1>5, <1>6, <1>7 DEF Writing, State
<1>9. /\ file \in Seq(Piece) /\ Len(file) \in Nat
      /\ Settled \in 0..Len(file) /\ Settled = Len(file) - n
  BY <1>7, <1>8, SettledPrefix
<1>10. Settled' = Len(file)
  BY <1>4, <1>8, <1>9 DEF Settled
<1>11. Status(k) = "open"
  BY <1>1, <1>3 DEF Status, Parts
<1>12. Status(k)' = IF n > 0 THEN "broken" ELSE "open"
  BY <1>3, <1>5, <1>6 DEF Status, Only, Parts
<1> HIDE DEF n
<1>13. CASE n = 0
  <2>1. Text' = Text
    BY <1>4, <1>9, <1>10, <1>13 DEF Text
  <2>2. State = [State EXCEPT ![k] = State[k]]
    BY DEF State
  <2> QED
    BY <1>6, <1>8, <1>11, <1>12, <1>13, <2>1, <2>2, OneStatus
<1>14. CASE n # 0
  <2> DEFINE r == SubSeq(Abstract!Line(k), 1, n)
  <2>1. n \in 1..(Parts - 1) /\ n > 0
    BY <1>3, <1>14 DEF Parts
  <2>2. /\ r \in Seq(Piece) /\ Len(r) = n
        /\ \A i \in 1..n : r[i] = [call |-> k, part |-> i]
    BY <1>2, LineProperties
  <2> HIDE DEF r
  <2>3. Len(r) = Len(file) - Settled
    BY <1>3, <1>9, <2>2
  <2>4. \A i \in 1..Len(r) : r[i] = file[Settled + i]
    BY <1>7, <1>8, <1>9, <2>2 DEF LogInv, EndOfFile, n
  <2>5. SubSeq(file, 1, Len(file)) = SubSeq(file, 1, Settled) \o r
    BY <1>9, <2>2, <2>3, <2>4, PrefixAndRest
  <2>6. Text' = Text \o r
    BY <1>4, <1>10, <2>5 DEF Text
  <2> QED
    BY <1>6, <1>8, <1>11, <1>12, <2>1, <2>6, OneStatus DEF r
<1> QED
  BY <1>13, <1>14

(* The flush is no step of the log: the line counts from its newline on.   *)
LEMMA FlushStep ==
  ASSUME LogInv, LogInv', NEW k \in 1..MaxCalls, Flush(k)
  PROVE  State' = State /\ Text' = Text
<1> DEFINE v == [calls[k] EXCEPT !.result = "ok", !.pc = "unlock"]
<1>1. k \in Ids /\ LogTypes /\ LogTypes' /\ calls[k].pc = "flush"
  BY DEF Flush, At, Runs, LogInv
<1>2. calls[k] \in CallRec
  BY <1>1, CallTypes
<1>3. calls' = [calls EXCEPT ![k] = v] /\ mutex' = mutex /\ file' = file
  BY DEF Flush
<1>4. v.written = calls[k].written /\ v.pc = "unlock"
  BY <1>2 DEF CallRec
<1> HIDE DEF v
<1>5. Only(k) /\ calls'[k] = v
  BY <1>1, <1>3, OneRecord
<1>6. mutex = k /\ calls[k].written = Parts
  BY <1>1, Holder DEF LogInv, Progress
<1>7. ~Writing /\ ~Writing'
  BY <1>1, <1>3, <1>4, <1>5, <1>6 DEF Writing
<1>8. Text' = Text
  BY <1>3, <1>7 DEF Text, Settled
<1>9. Status(k) = "printed" /\ Status(k)' = "printed"
  BY <1>1, <1>4, <1>5, <1>6 DEF Status, Only
<1>10. State[k] = Status(k) /\ State = [State EXCEPT ![k] = State[k]]
  BY DEF State
<1> QED
  BY <1>5, <1>8, <1>9, <1>10, OneStatus

(* A new call.                                                             *)
LEMMA NewCallStep ==
  ASSUME LogInv, LogInv', NEW t \in Threads, NewCall(t)
  PROVE  /\ Text' = Text
         /\ \E k \in 1..MaxCalls :
               State[k] = "new" /\ State' = [State EXCEPT ![k] = "open"]
<1>1. /\ calls \in Seq(CallRec) /\ Len(calls) \in Nat /\ Len(calls) < MaxCalls
      /\ MaxCalls \in Nat /\ calls' \in Seq(CallRec)
  BY LogAssumption, LenProperties
     DEF NewCall, LogInv, LogTypes, LogAssumption
<1>2. PICK r : calls' = Append(calls, r) /\ r.pc = "time" /\ r.written = 0
  BY DEF NewCall
<1>3. mutex' = mutex /\ file' = file
  BY DEF NewCall
<1>4. PICK k \in 1..MaxCalls : k = Len(calls) + 1
  BY <1>1
<1>5. /\ Len(calls') = k /\ calls'[k] = r
      /\ \A j \in 1..Len(calls) : calls'[j] = calls[j]
  BY <1>1, <1>2, <1>4
<1>6. Ids' = Ids \cup {k} /\ k \notin Ids
  BY <1>1, <1>4, <1>5 DEF Ids
<1>7. \A j \in 1..MaxCalls : j # k => Status(j)' = Status(j)
  BY <1>5, <1>6 DEF Status, Ids
<1>8. Status(k) = "new" /\ Status(k)' = "open"
  BY <1>2, <1>5, <1>6 DEF Status, Parts
<1>9. mutex # NoCall => calls'[mutex] = calls[mutex]
  BY <1>5 DEF LogInv, Exclusive, Ids
<1>10. Text' = Text
  BY <1>3, <1>9 DEF Text, Settled, Writing
<1> QED
  BY <1>7, <1>8, <1>10 DEF State

(* start_log() leaves an empty log that nobody has called yet.             *)
LEMMA InitImplements == Init => Abstract!Init
<1> SUFFICES ASSUME Init PROVE Text = <<>> /\ State = [k \in 1..MaxCalls |-> "new"]
  BY DEF Abstract!Init, Text, State
<1>1. calls = <<>> /\ file = <<>> /\ mutex = NoCall
  BY DEF Init
<1>2. Ids = {}
  BY <1>1 DEF Ids
<1>3. State = [k \in 1..MaxCalls |-> "new"]
  BY <1>2 DEF State, Status
<1>4. Settled = 0
  BY <1>1 DEF Settled, Writing
<1>5. Text = <<>>
  BY <1>4, SubSeqEmpty DEF Text
<1> QED
  BY <1>3, <1>5

(* Every step is a step of the log of whole lines, or none.                *)
LEMMA StepImplements ==
  ASSUME LogInv, LogInv', [Next]_vars
  PROVE  [Abstract!Next]_Abstract!vars
<1> SUFFICES \/ Text' = Text /\ State' = State
             \/ \E k \in 1..MaxCalls :
                  \/ Abstract!Begin(k) \/ Abstract!PutLine(k)
                  \/ Abstract!Break(k) \/ Abstract!Return(k)
  BY DEF Abstract!Next, Abstract!vars, Text, State
<1>1. ASSUME NEW t \in Threads, Call(t) \/ Interrupt(t)
      PROVE  \E k \in 1..MaxCalls : Abstract!Begin(k)
  <2>1. NewCall(t)
    BY <1>1 DEF Call, Interrupt
  <2> QED
    BY <2>1, NewCallStep DEF Abstract!Begin, Abstract!Becomes, Text, State
<1>2. ASSUME NEW k \in 1..MaxCalls, TimeFails(k) \/ Unlock(k)
      PROVE  Abstract!Return(k)
  BY <1>2, ReturnStep DEF Abstract!Return, Abstract!Becomes, Text, State
<1>3. ASSUME NEW k \in 1..MaxCalls, Put(k)
      PROVE  (Text' = Text /\ State' = State) \/ Abstract!PutLine(k)
  BY <1>3, PutStep DEF Abstract!PutLine, Abstract!Becomes, Text, State
<1>4. ASSUME NEW k \in 1..MaxCalls, PutFails(k)
      PROVE  (Text' = Text /\ State' = State) \/ Abstract!Break(k)
  BY <1>4, PutFailsStep DEF Abstract!Break, Abstract!Becomes, Text, State
<1>5. ASSUME NEW k \in 1..MaxCalls,
             LocalTime(k) \/ ReadDate(k) \/ ReadClock(k) \/ Lock(k) \/ Flush(k)
      PROVE  Text' = Text /\ State' = State
  BY <1>5, QuietStep, FlushStep
<1>6. CASE StopLog \/ UNCHANGED vars
  <2>1. UNCHANGED <<calls, mutex, file>>
    BY <1>6 DEF StopLog, vars
  <2> QED
    BY <2>1 DEF Text, State, Status, Settled, Writing, Ids
<1>7. ASSUME NEW k \in 1..MaxCalls, Step(k)
      PROVE  \/ Text' = Text /\ State' = State
             \/ Abstract!PutLine(k) \/ Abstract!Break(k) \/ Abstract!Return(k)
  BY <1>2, <1>3, <1>4, <1>5, <1>7 DEF Step
<1> QED
  BY <1>1, <1>6, <1>7 DEF Next

(* LineLogSpec: printL() implements a log of whole lines, for every set of *)
(* threads and every number of calls, interrupting handlers and failures.  *)
THEOREM LogIsLineLog == Spec => LineLogSpec
  BY LogInvariant, InitImplements, StepImplements, PTL
     DEF Spec, LineLogSpec, Abstract!Spec
=============================================================================
