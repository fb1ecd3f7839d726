---------------------------- MODULE LoggerProofs ----------------------------
(***************************************************************************)
(* What the log keeps and in which order, for any number of messages: an   *)
(* inductive invariant of Logger and the theorems that rest on it.         *)
(***************************************************************************)
EXTENDS Logger, SequenceTheorems, TLAPS

(* The messages of a list, and a list in the order of the calls. *)
Held(s) == {s[i] : i \in DOMAIN s}

Increasing(s) == \A i, j \in DOMAIN s : i < j => s[i] < s[j]

(* What schedule_flush has taken and no one has written yet, and what is   *)
(* written, in all and by the pool.                                        *)
InJobs == UNION {Held(jobs[j]) : j \in DOMAIN jobs}

Taken == Held(req["loop"]) \cup Held(req["handler"]) \cup InJobs

Out == {file[i].msg : i \in DOMAIN file}

PoolOut == {file[i].msg : i \in {k \in DOMAIN file : file[k].by = "pool"}}

-----------------------------------------------------------------------------
(* Who holds queued_logs_lock, and where the handler can be. *)
Locked == {"append", "take", "force"}

LockHeld ==
  /\ \A c \in Frames : pc[c] \in Locked <=> lock = c
  /\ shutdown = "no" => pc["handler"] = "idle"
  /\ shutdown \in {"terminating", "web"} => pc["handler"] # "force"
  /\ shutdown = "flush" => pc["handler"] \in {"idle", "force"}
  /\ shutdown = "fini" => pc["handler"] = "idle" /\ queued = <<>>
  /\ lock = "loop" /\ shutdown # "no" =>
       shutdown = "terminating" /\ pc["handler"] = "idle"

(* How many of its two messages the handler has logged. *)
Said ==
  CASE shutdown = "no" -> 0
    [] shutdown = "terminating" ->
         IF pc["handler"] \in {"idle", "append"} THEN 0 ELSE 1
    [] shutdown = "web" ->
         IF pc["handler"] \in {"idle", "append"} THEN 1 ELSE 2
    [] OTHER -> 2

LogBound ==
  /\ logged <= MaxLogs + Said
  /\ pc["loop"] = "append" /\ shutdown = "no" => logged < MaxLogs
  /\ phase = "boot" => ~initialized
  /\ ~initialized /\ shutdown = "no" => logged = 0 /\ pc["loop"] = "idle"
  /\ ~initialized /\ shutdown # "no" => shutdown = "fini"
  /\ proc = "exited" => shutdown = "fini" \/ logged = 0

(* flush_ongoing stands for one flush: of a frame, or of the one job.      *)
Flushing(c) == pc[c] \in {"schedule", "take", "submit"}

OneFlush ==
  /\ Len(jobs) <= 1
  /\ jobs # <<>> => ongoing
  /\ \A c \in Frames :
       Flushing(c) => /\ ongoing
                      /\ jobs = <<>>
                      /\ \A d \in Frames : Flushing(d) => d = c
  /\ \A c \in Frames : pc[c] # "submit" => req[c] = <<>>

(* The messages so far are split between queue, flush and output, ...      *)
Split ==
  /\ Held(queued) \cup Taken \cup Out = 1 .. logged
  /\ Held(queued) \cap Taken = {}
  /\ Held(queued) \cap Out = {}
  /\ Taken \cap Out = {}
  /\ \A i, j \in DOMAIN file : file[i].msg = file[j].msg => i = j

(* ... each list is in the order of the calls, and what the pool wrote is  *)
(* before what is taken, which is before what is queued.                   *)
Ordered ==
  /\ Increasing(queued)
  /\ \A c \in Frames : Increasing(req[c])
  /\ \A j \in DOMAIN jobs : Increasing(jobs[j])
  /\ \A a \in Taken, b \in Held(queued) : a < b
  /\ \A a \in PoolOut, b \in Taken \cup Held(queued) : a < b
  /\ PoolInOrder

LInv == TypeOK /\ LockHeld /\ LogBound /\ OneFlush /\ Split /\ Ordered

-----------------------------------------------------------------------------
(* The empty list holds nothing. *)
LEMMA HeldEmpty == Held(<<>>) = {} /\ Increasing(<<>>)
BY EmptySeq DEF Held, Increasing

(* A message queued last (queue_log_generic, list.c's append). *)
LEMMA HeldAppend ==
  ASSUME NEW s \in Seq(Nat), NEW e \in Nat
  PROVE  /\ Held(Append(s, e)) = Held(s) \cup {e}
         /\ Increasing(s) /\ (\A x \in Held(s) : x < e) =>
              Increasing(Append(s, e))
<1>1. /\ Len(s) \in Nat /\ DOMAIN s = 1 .. Len(s)
      /\ DOMAIN Append(s, e) = 1 .. (Len(s) + 1)
      /\ \A i \in 1 .. Len(s) : Append(s, e)[i] = s[i] /\ s[i] \in Nat
      /\ Append(s, e)[Len(s) + 1] = e
  BY AppendProperties, LenProperties
<1>2. Held(Append(s, e)) = Held(s) \cup {e}
  BY <1>1 DEF Held
<1>3. ASSUME Increasing(s), \A x \in Held(s) : x < e
      PROVE  Increasing(Append(s, e))
  BY <1>1, <1>3 DEF Held, Increasing
<1>4. QED
  BY <1>2, <1>3

(* A list whose first message is written. *)
LEMMA HeldTail ==
  ASSUME NEW s \in Seq(Nat), s # <<>>, Increasing(s)
  PROVE  /\ Head(s) \in Held(s)
         /\ Held(Tail(s)) = Held(s) \ {Head(s)}
         /\ Increasing(Tail(s))
         /\ \A x \in Held(Tail(s)) : Head(s) < x
<1>1. /\ Len(s) \in Nat \ {0} /\ DOMAIN s = 1 .. Len(s)
      /\ DOMAIN Tail(s) = 1 .. (Len(s) - 1)
      /\ \A i \in 1 .. (Len(s) - 1) : Tail(s)[i] = s[i + 1]
      /\ \A i \in 1 .. Len(s) : s[i] \in Nat
      /\ Head(s) = s[1]
  BY HeadTailProperties, LenProperties, EmptySeq
<1>2. \A i \in 1 .. Len(s) : i > 1 => s[1] < s[i]
  BY <1>1 DEF Increasing
<1>3. \A x \in Held(Tail(s)) : x \in Held(s) /\ Head(s) < x
  BY <1>1, <1>2 DEF Held
<1>4. \A x \in Held(s) : x = Head(s) \/ x \in Held(Tail(s))
  <2>1. SUFFICES ASSUME NEW i \in 1 .. Len(s), i # 1
                 PROVE  s[i] \in Held(Tail(s))
    BY <1>1 DEF Held
  <2>2. i - 1 \in 1 .. (Len(s) - 1) /\ s[i] = Tail(s)[i - 1]
    BY <1>1, <2>1
  <2>3. QED
    BY <1>1, <2>2 DEF Held
<1>5. Held(s) \subseteq Nat /\ Head(s) \in Held(s)
  BY <1>1 DEF Held
<1>6. Held(Tail(s)) = Held(s) \ {Head(s)}
  BY <1>3, <1>4, <1>5
<1>7. Increasing(Tail(s))
  BY <1>1 DEF Increasing
<1>8. QED
  BY <1>3, <1>5, <1>6, <1>7

(* A message written last. *)
LEMMA LineWritten ==
  ASSUME TypeOK, NEW m \in Msgs,
         NEW by \in {"pool", "force", "sync", "console"},
         file' = Append(file, Line(m, by))
  PROVE  /\ file' \in Seq([msg : Msgs,
                           by : {"pool", "force", "sync", "console"}])
         /\ Out' = Out \cup {m}
         /\ PoolOut' = IF by = "pool" THEN PoolOut \cup {m} ELSE PoolOut
         /\ m \notin Out /\ (\A i, j \in DOMAIN file :
                               file[i].msg = file[j].msg => i = j) =>
              \A i, j \in DOMAIN file' : file'[i].msg = file'[j].msg => i = j
         /\ PoolInOrder /\ (by = "pool" => \A a \in PoolOut : a < m) =>
              PoolInOrder'
<1> DEFINE Rows == [msg : Msgs, by : {"pool", "force", "sync", "console"}]
<1>1. file \in Seq(Rows) /\ Line(m, by) \in Rows
  BY DEF TypeOK, Line
<1>2. /\ Len(file) \in Nat /\ DOMAIN file = 1 .. Len(file)
      /\ DOMAIN file' = 1 .. (Len(file) + 1)
      /\ \A i \in 1 .. Len(file) : file'[i] = file[i]
      /\ file'[Len(file) + 1] = Line(m, by)
      /\ file' \in Seq(Rows)
  BY <1>1, AppendProperties, LenProperties
<1>3. Line(m, by).msg = m /\ Line(m, by).by = by
  BY DEF Line
<1>4. Out' = Out \cup {m}
  BY <1>2, <1>3 DEF Out
<1>5. PoolOut' = IF by = "pool" THEN PoolOut \cup {m} ELSE PoolOut
  BY <1>2, <1>3 DEF PoolOut
<1>6. ASSUME m \notin Out,
             \A i, j \in DOMAIN file : file[i].msg = file[j].msg => i = j
      PROVE  \A i, j \in DOMAIN file' : file'[i].msg = file'[j].msg => i = j
  BY <1>2, <1>3, <1>6 DEF Out
<1>7. ASSUME PoolInOrder, by = "pool" => \A a \in PoolOut : a < m
      PROVE  PoolInOrder'
  BY <1>2, <1>3, <1>7 DEF PoolInOrder, PoolOut
<1>8. QED
  BY <1>2, <1>4, <1>5, <1>6, <1>7

-----------------------------------------------------------------------------
(* Before init_logger nothing has been logged. *)
LEMMA LInvInit == Init => LInv
<1> SUFFICES ASSUME Init PROVE LInv
  OBVIOUS
<1> USE DEF Init
<1>1. TypeOK
  <2>1. initialized \in BOOLEAN /\ ongoing \in BOOLEAN
    BY Zenon
  <2>2. /\ <<>> \in Seq(Msgs) /\ <<>> \in Seq(Seq(Msgs))
        /\ <<>> \in Seq([msg : Msgs, by : {"pool", "force", "sync", "console"}])
    BY EmptySeq
  <2>3. pc \in [Frames -> {"idle", "append", "check", "schedule", "take",
                           "submit", "force"}]
    BY DEF Frames
  <2>4. logged \in 0 .. (MaxLogs + 2)
    BY LoggerAssumption
  <2>5. QED
    BY <2>1, <2>2, <2>3, <2>4 DEF TypeOK
<1>2. LockHeld /\ LogBound
  BY LoggerAssumption DEF LockHeld, LogBound, Said, Locked, Frames
<1>3. OneFlush
  BY EmptySeq DEF OneFlush, Flushing, Frames
<1>4. /\ Held(queued) = {} /\ Taken = {} /\ Out = {} /\ PoolOut = {}
      /\ DOMAIN file = {} /\ DOMAIN jobs = {}
  BY HeldEmpty, EmptySeq DEF Taken, InJobs, Out, PoolOut, Frames
<1>5. Split
  BY <1>4 DEF Split
<1>6. Ordered
  BY <1>4, HeldEmpty DEF Ordered, PoolInOrder, Frames
<1>7. QED
  BY <1>1, <1>2, <1>3, <1>5, <1>6 DEF LInv

(* What the lock and the handler's calls allow, step by step.  The other   *)
(* frame cannot be in the way of Returned: while the handler runs, the     *)
(* loop's frame is frozen.                                                 *)
LEMMA LockStep ==
  ASSUME TypeOK, LockHeld, Next
  PROVE  LockHeld'
<1> USE DEF LockHeld, Locked, Frames, TypeOK
<1>1. CASE init_logger \/ register_interrupt_handlers \/ shutdown_upkeep
  BY <1>1 DEF init_logger, register_interrupt_handlers, shutdown_upkeep,
     dataVars, flushVars, Running, At
<1>2. ASSUME NEW c \in Frames, log_call(c) PROVE LockHeld'
  BY <1>2 DEF log_call, WrLock, MayLog, At, Running, Goto, dataVars
<1>3. ASSUME NEW c \in Frames, queue_log_generic(c) PROVE LockHeld'
  BY <1>3 DEF queue_log_generic, At, Running, Goto, mainVars
<1>4. ASSUME NEW c \in Frames, queue_log_check(c) PROVE LockHeld'
  BY <1>4 DEF queue_log_check, Returned, At, Running, Goto, dataVars
<1>5. ASSUME NEW c \in Frames, schedule_flush_lock(c) PROVE LockHeld'
  BY <1>5 DEF schedule_flush_lock, WrLock, At, Running, Goto, dataVars
<1>6. ASSUME NEW c \in Frames, schedule_flush_take(c) PROVE LockHeld'
  BY <1>6 DEF schedule_flush_take, At, Running, Goto, mainVars
<1>7. ASSUME NEW c \in Frames, schedule_flush_submit(c) PROVE LockHeld'
  BY <1>7 DEF schedule_flush_submit, Returned, At, Running, Goto
<1>8. ASSUME NEW c \in Frames, force_log_flush(c) PROVE LockHeld'
  BY <1>8 DEF force_log_flush, MayForce, WrLock, At, Running, Goto, dataVars
<1>9. ASSUME NEW c \in Frames, flush_log_data(c) PROVE LockHeld'
  BY <1>9 DEF flush_log_data, At, Running, mainVars, flushVars
<1>10. ASSUME NEW c \in Frames, force_log_flush_end(c) PROVE LockHeld'
  BY <1>10 DEF force_log_flush_end, Returned, At, Running, Goto, dataVars
<1>11. ASSUME NEW i \in DOMAIN jobs, on_flushing_thread(i) PROVE LockHeld'
  BY <1>11 DEF on_flushing_thread, flushVars
<1>12. ASSUME NEW i \in DOMAIN jobs, on_flushing_thread_done(i) PROVE LockHeld'
  BY <1>12 DEF on_flushing_thread_done, mainVars
<1>13. CASE shutdown_logger \/ exit
  BY <1>13 DEF shutdown_logger, exit, dataVars, flushVars
<1>14. CASE log_synchronous
  BY <1>14 DEF log_synchronous, flushVars
<1>15. QED
  BY <1>1, <1>2, <1>3, <1>4, <1>5, <1>6, <1>7, <1>8, <1>9, <1>10, <1>11,
     <1>12, <1>13, <1>14 DEF Next, queue_log, ForcedFlush

(* The bound on the messages, the handler's two included. *)
LEMMA BoundStep ==
  ASSUME TypeOK, LockHeld, LogBound, Next
  PROVE  /\ LogBound'
         /\ logged' \in 0 .. (MaxLogs + 2)
         /\ logged' # logged => logged' \in Msgs
<1> SUFFICES LogBound' /\ logged' \in {logged, logged + 1}
  BY LoggerAssumption DEF TypeOK, LogBound, Said, Msgs
<1> USE LoggerAssumption DEF LogBound, Said, LockHeld, Locked, Frames, TypeOK
<1>1. CASE init_logger \/ register_interrupt_handlers \/ shutdown_upkeep
  BY <1>1 DEF init_logger, register_interrupt_handlers, shutdown_upkeep,
     dataVars, flushVars, Running, At
<1>2. ASSUME NEW c \in Frames, log_call(c) PROVE LogBound' /\ logged' = logged
  BY <1>2 DEF log_call, WrLock, MayLog, At, Running, Goto, dataVars
<1>3. ASSUME NEW c \in Frames, queue_log_generic(c)
      PROVE  LogBound' /\ logged' = logged + 1
  BY <1>3 DEF queue_log_generic, At, Running, Goto, mainVars
<1>4. ASSUME NEW c \in Frames, queue_log_check(c)
      PROVE  LogBound' /\ logged' = logged
  BY <1>4 DEF queue_log_check, Returned, At, Running, Goto, dataVars
<1>5. ASSUME NEW c \in Frames, schedule_flush_lock(c)
      PROVE  LogBound' /\ logged' = logged
  BY <1>5 DEF schedule_flush_lock, WrLock, At, Running, Goto, dataVars
<1>6. ASSUME NEW c \in Frames, schedule_flush_take(c)
      PROVE  LogBound' /\ logged' = logged
  BY <1>6 DEF schedule_flush_take, At, Running, Goto, mainVars
<1>7. ASSUME NEW c \in Frames, schedule_flush_submit(c)
      PROVE  LogBound' /\ logged' = logged
  BY <1>7 DEF schedule_flush_submit, Returned, At, Running, Goto
<1>8. ASSUME NEW c \in Frames, force_log_flush(c)
      PROVE  LogBound' /\ logged' = logged
  BY <1>8 DEF force_log_flush, MayForce, WrLock, At, Running, Goto, dataVars
<1>9. ASSUME NEW c \in Frames, flush_log_data(c)
      PROVE  LogBound' /\ logged' = logged
  BY <1>9 DEF flush_log_data, At, Running, mainVars, flushVars
<1>10. ASSUME NEW c \in Frames, force_log_flush_end(c)
       PROVE  LogBound' /\ logged' = logged
  BY <1>10 DEF force_log_flush_end, Returned, At, Running, Goto, dataVars
<1>11. ASSUME NEW i \in DOMAIN jobs, on_flushing_thread(i)
       PROVE  LogBound' /\ logged' = logged
  BY <1>11 DEF on_flushing_thread, flushVars
<1>12. ASSUME NEW i \in DOMAIN jobs, on_flushing_thread_done(i)
       PROVE  LogBound' /\ logged' = logged
  BY <1>12 DEF on_flushing_thread_done, mainVars
<1>13. CASE shutdown_logger \/ exit
  BY <1>13 DEF shutdown_logger, exit, dataVars, flushVars, At, Running
<1>14. CASE log_synchronous
  BY <1>14 DEF log_synchronous, flushVars, At, Running
<1>15. QED
  BY <1>1, <1>2, <1>3, <1>4, <1>5, <1>6, <1>7, <1>8, <1>9, <1>10, <1>11,
     <1>12, <1>13, <1>14 DEF Next, queue_log, ForcedFlush

-----------------------------------------------------------------------------
(* While a frame flushes it is the only one, and nothing is in the pool. *)
LEMMA FrameFlush ==
  ASSUME TypeOK, OneFlush, NEW c \in Frames, Flushing(c)
  PROVE  /\ ongoing /\ jobs = <<>>
         /\ \A d \in Frames : d # c => ~Flushing(d) /\ req[d] = <<>>
         /\ Taken = Held(req[c])
         /\ pc[c] # "submit" => req[c] = <<>>
<1>1. /\ ongoing /\ jobs = <<>>
      /\ \A d \in Frames : d # c => ~Flushing(d) /\ req[d] = <<>>
      /\ pc[c] # "submit" => req[c] = <<>>
  BY DEF OneFlush, Flushing
<1>2. InJobs = {}
  BY <1>1, EmptySeq DEF InJobs
<1>3. Taken = Held(req[c])
  BY <1>1, <1>2, HeldEmpty DEF Taken, Frames
<1>4. QED
  BY <1>1, <1>3

(* While the pool has a job it is the only one, and no frame flushes. *)
LEMMA PoolFlush ==
  ASSUME TypeOK, OneFlush, NEW i \in DOMAIN jobs
  PROVE  /\ i = 1 /\ Len(jobs) = 1 /\ DOMAIN jobs = {1} /\ ongoing
         /\ jobs[1] \in Seq(Msgs)
         /\ \A c \in Frames : ~Flushing(c) /\ req[c] = <<>>
         /\ Taken = Held(jobs[1])
<1>1. /\ jobs \in Seq(Seq(Msgs))
      /\ Len(jobs) \in Nat /\ DOMAIN jobs = 1 .. Len(jobs)
  BY LenProperties DEF TypeOK
<1>2. i = 1 /\ Len(jobs) = 1 /\ DOMAIN jobs = {1}
  BY <1>1 DEF OneFlush
<1>3. jobs # <<>> /\ jobs[1] \in Seq(Msgs)
  BY <1>1, <1>2, ElementOfSeq, EmptySeq
<1>4. ongoing /\ \A c \in Frames : ~Flushing(c) /\ req[c] = <<>>
  BY <1>3 DEF OneFlush, Flushing
<1>5. InJobs = Held(jobs[1])
  BY <1>2 DEF InJobs
<1>6. Taken = Held(jobs[1])
  BY <1>4, <1>5, HeldEmpty DEF Taken, Frames
<1>7. QED
  BY <1>2, <1>3, <1>4, <1>6

(* uv_queue_work on an idle pool. *)
LEMMA JobGiven ==
  ASSUME NEW s \in Seq(Msgs), jobs = <<>>, jobs' = Append(jobs, s)
  PROVE  /\ jobs' \in Seq(Seq(Msgs)) /\ Len(jobs') = 1 /\ DOMAIN jobs' = {1}
         /\ jobs'[1] = s
<1>1. jobs \in Seq(Seq(Msgs)) /\ Len(jobs) = 0
  BY EmptySeq
<1>2. /\ jobs' \in Seq(Seq(Msgs)) /\ Len(jobs') = 1 /\ jobs'[1] = s
  BY <1>1, AppendProperties
<1>3. QED
  BY <1>2, LenProperties

(* The end of the one job, whose request is freed. *)
LEMMA JobEnds ==
  ASSUME TypeOK, OneFlush, NEW i \in DOMAIN jobs,
         jobs' = SubSeq(jobs, 1, i - 1) \o SubSeq(jobs, i + 1, Len(jobs))
  PROVE  jobs' = <<>>
<1>1. i = 1 /\ Len(jobs) = 1 /\ jobs \in Seq(Seq(Msgs))
  BY PoolFlush DEF TypeOK
<1>2. SubSeq(jobs, 1, 0) = <<>> /\ SubSeq(jobs, 2, 1) = <<>>
  BY <1>1, SubSeqProperties, EmptySeq
<1>3. QED
  BY <1>1, <1>2

(* flush_ongoing keeps to one flush: it is set in the step that starts one *)
(* and cleared in the step that ends one.                                  *)
LEMMA FlushStep ==
  ASSUME TypeOK, OneFlush, Next
  PROVE  OneFlush'
<1>1. CASE init_logger \/ register_interrupt_handlers \/ shutdown_upkeep
  BY <1>1 DEF init_logger, register_interrupt_handlers, shutdown_upkeep,
     dataVars, flushVars, OneFlush, Flushing
<1>2. ASSUME NEW c \in Frames, log_call(c) PROVE OneFlush'
  BY <1>2 DEF log_call, WrLock, At, Goto, dataVars, OneFlush, Flushing, TypeOK,
     Frames
<1>3. ASSUME NEW c \in Frames, queue_log_generic(c) PROVE OneFlush'
  BY <1>3 DEF queue_log_generic, At, Goto, OneFlush, Flushing, TypeOK, Frames
<1>4. ASSUME NEW c \in Frames, queue_log_check(c) PROVE OneFlush'
  BY <1>4 DEF queue_log_check, At, Goto, dataVars, OneFlush, Flushing, TypeOK,
     Frames
<1>5. ASSUME NEW c \in Frames, schedule_flush_lock(c) PROVE OneFlush'
  BY <1>5 DEF schedule_flush_lock, WrLock, At, Goto, dataVars, OneFlush,
     Flushing, TypeOK, Frames
<1>6. ASSUME NEW c \in Frames, schedule_flush_take(c) PROVE OneFlush'
  BY <1>6 DEF schedule_flush_take, At, Goto, OneFlush, Flushing, TypeOK, Frames
<1>7. ASSUME NEW c \in Frames, schedule_flush_submit(c) PROVE OneFlush'
  <2>1. Flushing(c)
    BY <1>7 DEF schedule_flush_submit, At, Flushing
  <2>2. Len(jobs') = 1 /\ ongoing'
    BY <1>7, <2>1, FrameFlush, JobGiven DEF schedule_flush_submit, TypeOK
  <2>3. \A d \in Frames : ~Flushing(d)' /\ req'[d] = <<>>
    BY <1>7, <2>1, FrameFlush
    DEF schedule_flush_submit, Goto, Flushing, TypeOK, Frames
  <2>4. QED
    BY <2>2, <2>3 DEF OneFlush
<1>8. ASSUME NEW c \in Frames, force_log_flush(c) PROVE OneFlush'
  BY <1>8 DEF force_log_flush, WrLock, At, Goto, dataVars, OneFlush, Flushing,
     TypeOK, Frames
<1>9. ASSUME NEW c \in Frames, flush_log_data(c) PROVE OneFlush'
  BY <1>9 DEF flush_log_data, flushVars, OneFlush, Flushing
<1>10. ASSUME NEW c \in Frames, force_log_flush_end(c) PROVE OneFlush'
  BY <1>10 DEF force_log_flush_end, At, Goto, dataVars, OneFlush, Flushing,
     TypeOK, Frames
<1>11. ASSUME NEW i \in DOMAIN jobs, on_flushing_thread(i) PROVE OneFlush'
  <2>1. /\ Len(jobs) = 1 /\ jobs \in Seq(Seq(Msgs)) /\ ongoing
        /\ \A c \in Frames : ~Flushing(c) /\ req[c] = <<>>
    BY PoolFlush DEF TypeOK
  <2>2. Len(jobs') = Len(jobs)
    BY <1>11, <2>1 DEF on_flushing_thread
  <2>3. QED
    BY <1>11, <2>1, <2>2 DEF on_flushing_thread, flushVars, OneFlush, Flushing
<1>12. ASSUME NEW i \in DOMAIN jobs, on_flushing_thread_done(i) PROVE OneFlush'
  <2>1. jobs' = <<>> /\ Len(jobs') = 0
    BY <1>12, JobEnds, EmptySeq DEF on_flushing_thread_done
  <2>2. \A c \in Frames : ~Flushing(c)' /\ req'[c] = <<>>
    BY <1>12, PoolFlush DEF on_flushing_thread_done, Flushing
  <2>3. QED
    BY <2>1, <2>2 DEF OneFlush
<1>13. CASE shutdown_logger \/ exit
  BY <1>13 DEF shutdown_logger, exit, dataVars, flushVars, OneFlush, Flushing
<1>14. CASE log_synchronous
  BY <1>14 DEF log_synchronous, flushVars, OneFlush, Flushing
<1>15. QED
  BY <1>1, <1>2, <1>3, <1>4, <1>5, <1>6, <1>7, <1>8, <1>9, <1>10, <1>11,
     <1>12, <1>13, <1>14 DEF Next, queue_log, ForcedFlush

-----------------------------------------------------------------------------
(* The types of the lists, and what the steps do with the messages. *)
DataTypes ==
  /\ queued \in Seq(Msgs)
  /\ req \in [Frames -> Seq(Msgs)]
  /\ jobs \in Seq(Seq(Msgs))
  /\ file \in Seq([msg : Msgs, by : {"pool", "force", "sync", "console"}])

Content == DataTypes /\ Split /\ Ordered

(* A list of messages is one of numbers, and holds messages. *)
LEMMA MsgSeq ==
  ASSUME NEW s \in Seq(Msgs)
  PROVE  s \in Seq(Nat) /\ Held(s) \subseteq Msgs
<1>1. Msgs \subseteq Nat /\ Len(s) \in Nat /\ DOMAIN s = 1 .. Len(s)
  BY LenProperties, LoggerAssumption DEF Msgs
<1>2. \A i \in 1 .. Len(s) : s[i] \in Msgs
  BY ElementOfSeq
<1>3. s \in Seq(Nat)
  <2>1. s \in [1 .. Len(s) -> Nat]
    BY <1>1, <1>2, LenProperties
  <2>2. QED
    BY <1>1, <2>1, SeqDef
<1>4. QED
  BY <1>1, <1>2, <1>3 DEF Held

(* queue_log_generic: the message goes behind all that is queued. *)
LEMMA AppendContent ==
  ASSUME TypeOK, Content, NEW c \in Frames, queue_log_generic(c),
         logged' \in Msgs
  PROVE  Content'
<1>1. /\ logged' = logged + 1 /\ queued' = Append(queued, logged')
      /\ UNCHANGED <<req, jobs, file>>
  BY DEF queue_log_generic
<1>2. queued \in Seq(Nat) /\ logged \in Nat /\ logged' \in Nat
  BY MsgSeq, LoggerAssumption DEF TypeOK, Msgs
<1>3. UNCHANGED <<Taken, Out, PoolOut>>
  BY <1>1 DEF Taken, InJobs, Out, PoolOut
<1>4. \A x \in Held(queued) \cup Taken \cup Out : x \in 1 .. logged
  BY DEF Content, Split
<1>5. /\ Held(queued') = Held(queued) \cup {logged + 1}
      /\ Increasing(queued')
  BY <1>1, <1>2, <1>4, HeldAppend DEF Content, Ordered
<1>6. DataTypes'
  BY <1>1, AppendProperties DEF Content, DataTypes
<1>7. Split'
  <2>1. /\ 1 .. logged' = (1 .. logged) \cup {logged + 1}
        /\ logged + 1 \notin 1 .. logged
    BY <1>1, <1>2
  <2>2. QED
    BY <1>1, <1>3, <1>4, <1>5, <2>1 DEF Content, Split
<1>8. Ordered'
  <2>1. PoolOut \subseteq Out
    BY DEF PoolOut, Out
  <2>2. \A a \in Taken \cup PoolOut : a < logged + 1
    BY <1>2, <1>4, <2>1
  <2>3. PoolInOrder'
    BY <1>1 DEF Content, Ordered, PoolInOrder
  <2>4. QED
    BY <1>1, <1>3, <1>5, <2>2, <2>3 DEF Content, Ordered
<1>9. QED
  BY <1>6, <1>7, <1>8 DEF Content

(* schedule_flush takes the whole queue: nothing else was taken. *)
LEMMA TakeContent ==
  ASSUME TypeOK, OneFlush, Content, NEW c \in Frames, schedule_flush_take(c)
  PROVE  Content'
<1>1. /\ req' = [req EXCEPT ![c] = queued] /\ queued' = <<>>
      /\ UNCHANGED <<logged, jobs, file>> /\ Flushing(c) /\ pc[c] # "submit"
  BY DEF schedule_flush_take, At, Flushing
<1>2. /\ jobs = <<>> /\ req[c] = <<>> /\ Taken = Held(req[c])
      /\ \A d \in Frames : d # c => req[d] = <<>>
  BY <1>1, FrameFlush
<1>3. req'[c] = queued /\ \A d \in Frames : d # c => req'[d] = <<>>
  BY <1>1, <1>2 DEF TypeOK
<1>4. Taken = {} /\ Taken' = Held(queued) /\ Held(queued') = {}
  <2>1. InJobs' = {}
    BY <1>1, <1>2, EmptySeq DEF InJobs
  <2>2. QED
    BY <1>1, <1>2, <1>3, <2>1, HeldEmpty DEF Taken, Frames
<1>5. UNCHANGED <<Out, PoolOut>> /\ PoolInOrder'
  BY <1>1 DEF Out, PoolOut, Content, Ordered, PoolInOrder
<1>6. DataTypes'
  BY <1>1, EmptySeq DEF Content, DataTypes
<1>7. Split'
  BY <1>1, <1>4, <1>5 DEF Content, Split
<1>8. Ordered'
  BY <1>1, <1>3, <1>4, <1>5, HeldEmpty DEF Content, Ordered
<1>9. QED
  BY <1>6, <1>7, <1>8 DEF Content

(* uv_queue_work: what was taken is in the pool's one job. *)
LEMMA SubmitContent ==
  ASSUME TypeOK, OneFlush, Content, NEW c \in Frames, schedule_flush_submit(c)
  PROVE  Content'
<1>1. /\ req' = [req EXCEPT ![c] = <<>>] /\ jobs' = Append(jobs, req[c])
      /\ UNCHANGED <<logged, queued, file>> /\ Flushing(c)
  BY DEF schedule_flush_submit, At, Flushing
<1>2. /\ jobs = <<>> /\ Taken = Held(req[c]) /\ req[c] \in Seq(Msgs)
      /\ \A d \in Frames : d # c => req[d] = <<>>
  BY <1>1, FrameFlush DEF TypeOK
<1>3. jobs' \in Seq(Seq(Msgs)) /\ DOMAIN jobs' = {1} /\ jobs'[1] = req[c]
  BY <1>1, <1>2, JobGiven
<1>4. \A d \in Frames : req'[d] = <<>>
  BY <1>1, <1>2 DEF TypeOK
<1>5. Taken' = Taken
  <2>1. InJobs' = Held(req[c])
    BY <1>3 DEF InJobs
  <2>2. QED
    BY <1>2, <1>4, <2>1, HeldEmpty DEF Taken, Frames
<1>6. UNCHANGED <<Out, PoolOut>> /\ PoolInOrder'
  BY <1>1 DEF Out, PoolOut, Content, Ordered, PoolInOrder
<1>7. DataTypes'
  BY <1>1, <1>3, EmptySeq DEF Content, DataTypes
<1>8. Split'
  BY <1>1, <1>5, <1>6 DEF Content, Split
<1>9. Ordered'
  BY <1>1, <1>3, <1>4, <1>5, <1>6, HeldEmpty DEF Content, Ordered
<1>10. QED
  BY <1>7, <1>8, <1>9 DEF Content

(* The pool writes the first message of its one job. *)
LEMMA PoolContent ==
  ASSUME TypeOK, OneFlush, Content, NEW i \in DOMAIN jobs, on_flushing_thread(i)
  PROVE  Content'
<1> DEFINE m == Head(jobs[1])
           by == IF initialized THEN "pool" ELSE "console"
<1>1. /\ i = 1 /\ Len(jobs) = 1 /\ DOMAIN jobs = {1} /\ jobs[1] \in Seq(Msgs)
      /\ \A c \in Frames : req[c] = <<>>
      /\ Taken = Held(jobs[1])
  BY PoolFlush
<1>2. /\ jobs[1] # <<>> /\ jobs' = [jobs EXCEPT ![1] = Tail(jobs[1])]
      /\ file' = Append(file, Line(m, by))
      /\ UNCHANGED <<logged, queued, req>>
  BY <1>1 DEF on_flushing_thread
<1>3. /\ m \in Held(jobs[1]) /\ Held(Tail(jobs[1])) = Held(jobs[1]) \ {m}
      /\ Increasing(Tail(jobs[1]))
      /\ \A x \in Held(Tail(jobs[1])) : m < x
  BY <1>1, <1>2, MsgSeq, HeldTail DEF Content, Ordered
<1>4. m \in Msgs /\ by \in {"pool", "force", "sync", "console"}
  BY <1>1, <1>3, MsgSeq
<1>5. jobs' \in Seq(Seq(Msgs)) /\ DOMAIN jobs' = {1} /\ jobs'[1] = Tail(jobs[1])
  BY <1>1, <1>2, HeadTailProperties DEF Content, DataTypes
<1> HIDE DEF m, by
<1>6. Taken' = Taken \ {m} /\ m \in Taken
  <2>1. InJobs' = Held(jobs[1]) \ {m}
    BY <1>3, <1>5 DEF InJobs
  <2>2. QED
    BY <1>1, <1>2, <1>3, <2>1, HeldEmpty DEF Taken, Frames
<1>7. m \notin Out /\ m \notin Held(queued) /\ \A a \in PoolOut : a < m
  BY <1>6 DEF Content, Split, Ordered
<1>8. /\ file' \in Seq([msg : Msgs, by : {"pool", "force", "sync", "console"}])
      /\ Out' = Out \cup {m}
      /\ PoolOut' \subseteq PoolOut \cup {m}
      /\ \A k, j \in DOMAIN file' : file'[k].msg = file'[j].msg => k = j
      /\ PoolInOrder'
  BY <1>2, <1>4, <1>7, LineWritten DEF Content, Split, Ordered
<1>9. DataTypes'
  BY <1>2, <1>5, <1>8 DEF Content, DataTypes
<1>10. Split'
  BY <1>2, <1>6, <1>7, <1>8 DEF Content, Split
<1>11. Ordered'
  <2>1. \A x \in Taken' : m < x
    BY <1>1, <1>3, <1>6
  <2>2. \A x \in Held(queued) : m < x
    BY <1>6 DEF Content, Ordered
  <2>3. QED
    BY <1>2, <1>3, <1>5, <1>6, <1>8, <2>1, <2>2 DEF Content, Ordered
<1>12. QED
  BY <1>9, <1>10, <1>11 DEF Content

(* The pool's one job is at its end and freed: it was empty. *)
LEMMA DoneContent ==
  ASSUME TypeOK, OneFlush, Content, NEW i \in DOMAIN jobs,
         on_flushing_thread_done(i)
  PROVE  Content'
<1>1. /\ i = 1 /\ DOMAIN jobs = {1} /\ jobs[1] = <<>>
      /\ \A c \in Frames : req[c] = <<>>
      /\ Taken = Held(jobs[1])
      /\ UNCHANGED <<logged, queued, req, file>>
  BY PoolFlush DEF on_flushing_thread_done
<1>2. jobs' = <<>>
  BY JobEnds DEF on_flushing_thread_done
<1>3. Taken = {} /\ Taken' = {}
  <2>1. InJobs' = {}
    BY <1>2, EmptySeq DEF InJobs
  <2>2. QED
    BY <1>1, <2>1, HeldEmpty DEF Taken, Frames
<1>4. UNCHANGED <<Out, PoolOut>> /\ PoolInOrder'
  BY <1>1 DEF Out, PoolOut, Content, Ordered, PoolInOrder
<1>5. DataTypes'
  BY <1>1, <1>2, EmptySeq DEF Content, DataTypes
<1>6. Split'
  BY <1>1, <1>3, <1>4 DEF Content, Split
<1>7. Ordered'
  BY <1>1, <1>2, <1>3, <1>4, EmptySeq DEF Content, Ordered
<1>8. QED
  BY <1>5, <1>6, <1>7 DEF Content

(* force_log_flush writes the first message of the queue. *)
LEMMA ForceContent ==
  ASSUME TypeOK, Content, NEW c \in Frames, flush_log_data(c)
  PROVE  Content'
<1> DEFINE m == Head(queued)
<1>1. /\ queued # <<>> /\ queued' = Tail(queued)
      /\ file' = Append(file, Line(m, "force"))
      /\ UNCHANGED <<logged, req, jobs>>
  BY DEF flush_log_data
<1>2. /\ m \in Held(queued) /\ Held(queued') = Held(queued) \ {m}
      /\ Increasing(queued')
  BY <1>1, MsgSeq, HeldTail DEF Content, DataTypes, Ordered
<1>3. m \in Msgs /\ queued' \in Seq(Msgs)
  BY <1>1, <1>2, MsgSeq, HeadTailProperties DEF Content, DataTypes
<1> HIDE DEF m
<1>4. m \notin Out /\ m \notin Taken /\ Taken' = Taken
  BY <1>1, <1>2 DEF Content, Split, Taken, InJobs
<1>5. /\ file' \in Seq([msg : Msgs, by : {"pool", "force", "sync", "console"}])
      /\ Out' = Out \cup {m}
      /\ PoolOut' = PoolOut
      /\ \A k, j \in DOMAIN file' : file'[k].msg = file'[j].msg => k = j
      /\ PoolInOrder'
  BY <1>1, <1>3, <1>4, LineWritten DEF Content, Split, Ordered
<1>6. DataTypes'
  BY <1>1, <1>3, <1>5 DEF Content, DataTypes
<1>7. Split'
  BY <1>1, <1>2, <1>4, <1>5 DEF Content, Split
<1>8. Ordered'
  BY <1>1, <1>2, <1>4, <1>5 DEF Content, Ordered
<1>9. QED
  BY <1>6, <1>7, <1>8 DEF Content

(* log_synchronous writes a message that was never queued. *)
LEMMA SyncContent ==
  ASSUME TypeOK, Content, log_synchronous, logged' \in Msgs
  PROVE  Content'
<1>1. /\ logged' = logged + 1 /\ file' = Append(file, Line(logged', "sync"))
      /\ UNCHANGED <<queued, req, jobs>>
  BY DEF log_synchronous
<1>2. logged \in Nat
  BY LoggerAssumption DEF TypeOK
<1>3. Taken' = Taken
  BY <1>1 DEF Taken, InJobs
<1>4. /\ logged' \notin Held(queued) \cup Taken \cup Out
      /\ 1 .. logged' = (1 .. logged) \cup {logged'}
  BY <1>1, <1>2 DEF Content, Split
<1>5. /\ file' \in Seq([msg : Msgs, by : {"pool", "force", "sync", "console"}])
      /\ Out' = Out \cup {logged'}
      /\ PoolOut' = PoolOut
      /\ \A k, j \in DOMAIN file' : file'[k].msg = file'[j].msg => k = j
      /\ PoolInOrder'
  BY <1>1, <1>4, LineWritten DEF Content, Split, Ordered
<1>6. DataTypes'
  BY <1>1, <1>5 DEF Content, DataTypes
<1>7. Split'
  BY <1>1, <1>3, <1>4, <1>5 DEF Content, Split
<1>8. Ordered'
  BY <1>1, <1>3, <1>5 DEF Content, Ordered
<1>9. QED
  BY <1>6, <1>7, <1>8 DEF Content

(* The steps that leave the messages where they are. *)
LEMMA StillContent ==
  ASSUME Content, UNCHANGED <<dataVars, logged>>
  PROVE  Content'
<1>1. DataTypes'
  BY DEF Content, DataTypes, dataVars
<1>2. Split'
  BY DEF Content, Split, dataVars, Taken, InJobs, Out
<1>3. Ordered'
  BY DEF Content, Ordered, dataVars, Taken, InJobs, PoolOut, PoolInOrder
<1>4. QED
  BY <1>1, <1>2, <1>3 DEF Content

(* Every step moves messages between queue, flush and output or leaves     *)
(* them, and none is lost, doubled or overtaken in the pool.               *)
LEMMA ContentStep ==
  ASSUME TypeOK, LockHeld, LogBound, OneFlush, Content, Next
  PROVE  Content'
<1>1. logged' # logged => logged' \in Msgs
  BY BoundStep
<1>2. \A c \in Frames : queue_log_generic(c) => logged' # logged
  BY LoggerAssumption DEF queue_log_generic, TypeOK
<1>3. log_synchronous => logged' # logged
  BY LoggerAssumption DEF log_synchronous, TypeOK
<1>4. CASE \/ init_logger \/ register_interrupt_handlers \/ shutdown_upkeep
           \/ shutdown_logger \/ exit
  BY <1>4, StillContent
  DEF init_logger, register_interrupt_handlers, shutdown_upkeep,
      shutdown_logger, exit
<1>5. ASSUME NEW c \in Frames,
             \/ log_call(c) \/ queue_log_check(c) \/ schedule_flush_lock(c)
             \/ force_log_flush(c) \/ force_log_flush_end(c)
      PROVE  Content'
  BY <1>5, StillContent
  DEF log_call, queue_log_check, schedule_flush_lock, force_log_flush,
      force_log_flush_end
<1>6. QED
  BY <1>1, <1>2, <1>3, <1>4, <1>5, AppendContent, TakeContent, SubmitContent,
     PoolContent, DoneContent, ForceContent, SyncContent
  DEF Next, queue_log, ForcedFlush

(* The rest of the types. *)
Control ==
  /\ proc \in {"up", "exited", "killed", "aborted"}
  /\ phase \in {"boot", "version", "startup", "uv_run"}
  /\ shutdown \in {"no", "terminating", "web", "flush", "fini"}
  /\ initialized \in BOOLEAN
  /\ lock \in Frames \cup {"free"}
  /\ ongoing \in BOOLEAN
  /\ pc \in [Frames -> {"idle", "append", "check", "schedule", "take",
                        "submit", "force"}]

(* Every step keeps the rest of the types. *)
LEMMA ControlTypes ==
  ASSUME TypeOK, LockHeld, Next
  PROVE  Control'
<1> USE DEF TypeOK, Frames, Control
<1>1. CASE \/ init_logger \/ register_interrupt_handlers \/ shutdown_upkeep
           \/ shutdown_logger \/ exit \/ log_synchronous
  BY <1>1 DEF init_logger, register_interrupt_handlers, shutdown_upkeep,
     shutdown_logger, exit, log_synchronous, flushVars
<1>2. ASSUME NEW c \in Frames,
             log_call(c) \/ schedule_flush_lock(c) \/ force_log_flush(c)
      PROVE  /\ proc' \in {"up", "exited", "killed", "aborted"}
             /\ UNCHANGED <<phase, shutdown, initialized, ongoing>>
             /\ lock' \in Frames \cup {"free"}
             /\ pc' \in [Frames -> {"idle", "append", "check", "schedule",
                                    "take", "submit", "force"}]
  BY <1>2 DEF log_call, schedule_flush_lock, force_log_flush, WrLock, Goto
<1>3. ASSUME NEW c \in Frames,
             queue_log_generic(c) \/ schedule_flush_take(c) \/ flush_log_data(c)
      PROVE  /\ UNCHANGED <<proc, phase, shutdown, initialized, ongoing>>
             /\ lock' \in Frames \cup {"free"}
             /\ pc' \in [Frames -> {"idle", "append", "check", "schedule",
                                    "take", "submit", "force"}]
  BY <1>3 DEF queue_log_generic, schedule_flush_take, flush_log_data, Goto,
     mainVars, flushVars
<1>4. ASSUME NEW c \in Frames,
             \/ queue_log_check(c) \/ schedule_flush_submit(c)
             \/ force_log_flush_end(c)
      PROVE  /\ UNCHANGED <<proc, initialized>>
             /\ phase' \in {"boot", "version", "startup", "uv_run"}
             /\ shutdown' \in {"no", "terminating", "web", "flush", "fini"}
             /\ ongoing' \in {ongoing, TRUE}
             /\ lock' \in Frames \cup {"free"}
             /\ pc' \in [Frames -> {"idle", "append", "check", "schedule",
                                    "take", "submit", "force"}]
  BY <1>4 DEF queue_log_check, schedule_flush_submit, force_log_flush_end, Goto,
     Returned, At, Running, LockHeld
<1>5. ASSUME NEW i \in DOMAIN jobs,
             on_flushing_thread(i) \/ on_flushing_thread_done(i)
      PROVE  /\ proc' \in {proc, "aborted"}
             /\ UNCHANGED <<phase, shutdown, initialized, lock, pc>>
             /\ ongoing' \in {ongoing, FALSE}
  BY <1>5 DEF on_flushing_thread, on_flushing_thread_done, flushVars, mainVars
<1>6. ASSUME NEW c \in Frames, log_call(c) \/ queue_log(c) \/ ForcedFlush(c)
      PROVE  Control'
  <2>1. CASE log_call(c) \/ schedule_flush_lock(c) \/ force_log_flush(c)
    BY <1>2, <2>1
  <2>2. CASE \/ queue_log_generic(c) \/ schedule_flush_take(c)
             \/ flush_log_data(c)
    BY <1>3, <2>2
  <2>3. CASE \/ queue_log_check(c) \/ schedule_flush_submit(c)
             \/ force_log_flush_end(c)
    BY <1>4, <2>3
  <2>4. QED
    BY <1>6, <2>1, <2>2, <2>3, Zenon DEF queue_log, ForcedFlush
<1>7. ASSUME NEW i \in DOMAIN jobs,
             on_flushing_thread(i) \/ on_flushing_thread_done(i)
      PROVE  Control'
  BY <1>5, <1>7
<1> HIDE DEF TypeOK, Frames, Control
<1>8. QED
  BY <1>1, <1>6, <1>7, Zenon DEF Next

(* Every step keeps the invariant. *)
LEMMA LInvStep ==
  ASSUME LInv, [Next]_vars
  PROVE  LInv'
<1>1. CASE Next
  <2>1. TypeOK /\ LockHeld /\ LogBound /\ OneFlush /\ Content
    BY DEF LInv, Content, DataTypes, TypeOK
  <2>2. LockHeld' /\ LogBound' /\ OneFlush' /\ Content'
    BY <1>1, <2>1, LockStep, BoundStep, FlushStep, ContentStep
  <2>3. logged' \in 0 .. (MaxLogs + 2)
    BY <1>1, <2>1, BoundStep
  <2>4. TypeOK'
    BY <1>1, <2>1, <2>2, <2>3, ControlTypes
    DEF TypeOK, Content, DataTypes, Control
  <2>5. QED
    BY <2>2, <2>4 DEF LInv, Content
<1>2. CASE UNCHANGED vars
  <2> USE <1>2 DEF vars, mainVars, flushVars, dataVars
  <2>1. TypeOK'
    BY DEF LInv, TypeOK
  <2>2. LockHeld' /\ LogBound'
    BY DEF LInv, LockHeld, LogBound, Said
  <2>3. OneFlush'
    BY DEF LInv, OneFlush, Flushing
  <2>4. Content'
    BY StillContent DEF LInv, Content, DataTypes, TypeOK
  <2>5. QED
    BY <2>1, <2>2, <2>3, <2>4 DEF LInv, Content
<1>3. QED
  BY <1>1, <1>2

-----------------------------------------------------------------------------
(* The invariant always holds, for any number of messages. *)
THEOREM LoggerInvariance == Spec => []LInv
BY LInvInit, LInvStep, PTL DEF Spec

(* The types of the log's state (logger.c:14-18): with main()'s version    *)
(* message and the two of shutdown_upkeep, no more than MaxLogs + 2        *)
(* messages are logged.                                                    *)
THEOREM LoggerTypeCorrect == Spec => []TypeOK
<1>1. LInv => TypeOK
  BY DEF LInv
<1>2. QED
  BY <1>1, LoggerInvariance, PTL

(* A list in the order of the calls has a message once or not at all. *)
LEMMA InOnce ==
  ASSUME NEW s \in Seq(Msgs), Increasing(s), NEW m \in Msgs
  PROVE  /\ m \in Held(s) => \E i \in DOMAIN s : In(s, m) = {i}
         /\ m \notin Held(s) => In(s, m) = {}
<1>1. Len(s) \in Nat /\ DOMAIN s = 1 .. Len(s)
  BY LenProperties
<1>2. \A i \in DOMAIN s : s[i] \in Nat
  BY <1>1, ElementOfSeq, LoggerAssumption DEF Msgs
<1>3. \A i, j \in DOMAIN s : s[i] = s[j] => i = j
  BY <1>1, <1>2 DEF Increasing
<1>4. QED
  BY <1>3 DEF Held, In

(* A place is a position paired with the list it is in. *)
LEMMA OnePlace ==
  ASSUME NEW S, NEW t, NEW i, S = {i}
  PROVE  S \X {t} = {<<i, t>>}
OBVIOUS

LEMMA NoPlace ==
  ASSUME NEW S, NEW t, S = {}
  PROVE  S \X {t} = {}
OBVIOUS

(* The places of a message in a list: one or none. *)
LEMMA ListPlace ==
  ASSUME NEW s \in Seq(Msgs), Increasing(s), NEW m \in Msgs, NEW t
  PROVE  /\ m \in Held(s) => \E p : In(s, m) \X {t} = {p}
         /\ m \notin Held(s) => In(s, m) \X {t} = {}
<1>1. ASSUME m \in Held(s) PROVE \E p : In(s, m) \X {t} = {p}
  <2>1. PICK i \in DOMAIN s : In(s, m) = {i}
    BY <1>1, InOnce
  <2>2. In(s, m) \X {t} = {<<i, t>>}
    BY <2>1, OnePlace
  <2>3. QED
    BY <2>2
<1>2. ASSUME m \notin Held(s) PROVE In(s, m) \X {t} = {}
  BY <1>2, InOnce, NoPlace
<1>3. QED
  BY <1>1, <1>2

(* Between log_info and the file a message is in one place at a time: the  *)
(* hand-over of the queue to the pool (logger.c:112-123, :146-154), the    *)
(* forced flush beside it (:224-233) and the handler on top of both        *)
(* neither lose nor double one, for any number of messages.                *)
THEOREM MessagesInOnePlace == Spec => []MessageInOnePlace
<1>1. LInv => MessageInOnePlace
  <2> SUFFICES ASSUME LInv, NEW m \in 1 .. logged
               PROVE  \E p \in Places(m) : Places(m) = {p}
    BY DEF MessageInOnePlace
  <2> DEFINE W == {i \in DOMAIN file : file[i].msg = m} \X {"file"}
             L == In(req["loop"], m) \X {"loop"}
             H == In(req["handler"], m) \X {"handler"}
             J == UNION {In(jobs[j], m) \X {j} : j \in DOMAIN jobs}
             Q == In(queued, m) \X {"queued"}
  <2>1. m \in Msgs
    BY LoggerAssumption DEF LInv, TypeOK, Msgs
  <2>2. Places(m) = Q \cup L \cup H \cup J \cup W
    <3>1. UNION {In(req[c], m) \X {c} : c \in Frames} = L \cup H
      BY Zenon DEF Frames
    <3>2. Places(m) = Q \cup (UNION {In(req[c], m) \X {c} : c \in Frames})
                        \cup J \cup W
      BY Zenon DEF Places
    <3> HIDE DEF W, L, H, J, Q
    <3>3. QED
      BY <3>1, <3>2
  <2>3. /\ m \in Held(queued) => \E p : Q = {p}
        /\ m \notin Held(queued) => Q = {}
        /\ m \in Held(req["loop"]) => \E p : L = {p}
        /\ m \notin Held(req["loop"]) => L = {}
        /\ m \in Held(req["handler"]) => \E p : H = {p}
        /\ m \notin Held(req["handler"]) => H = {}
    <3>1. /\ queued \in Seq(Msgs) /\ Increasing(queued)
          /\ \A c \in Frames : req[c] \in Seq(Msgs) /\ Increasing(req[c])
      BY DEF LInv, TypeOK, Ordered
    <3>2. /\ m \in Held(queued) => \E p : Q = {p}
          /\ m \notin Held(queued) => Q = {}
      BY <2>1, <3>1, ListPlace
    <3>3. /\ m \in Held(req["loop"]) => \E p : L = {p}
          /\ m \notin Held(req["loop"]) => L = {}
      <4>1. req["loop"] \in Seq(Msgs) /\ Increasing(req["loop"])
        BY <3>1 DEF Frames
      <4>2. QED
        BY <2>1, <4>1, ListPlace
    <3>4. /\ m \in Held(req["handler"]) => \E p : H = {p}
          /\ m \notin Held(req["handler"]) => H = {}
      <4>1. req["handler"] \in Seq(Msgs) /\ Increasing(req["handler"])
        BY <3>1 DEF Frames
      <4>2. QED
        BY <2>1, <4>1, ListPlace
    <3> HIDE DEF L, H, Q
    <3>5. QED
      BY <3>2, <3>3, <3>4
  <2>4. /\ m \in Out => \E p : W = {p}
        /\ m \notin Out => W = {}
    <3> DEFINE P == {k \in DOMAIN file : file[k].msg = m}
    <3>1. /\ m \in Out => \E i : P = {i}
          /\ m \notin Out => P = {}
      BY DEF LInv, Split, Out
    <3>2. W = P \X {"file"}
      OBVIOUS
    <3> HIDE DEF P, W
    <3>3. ASSUME m \in Out PROVE \E p : W = {p}
      <4>1. PICK i : P = {i}
        BY <3>1, <3>3
      <4>2. W = {<<i, "file">>}
        BY <3>2, <4>1, OnePlace
      <4>3. QED
        BY <4>2
    <3>4. ASSUME m \notin Out PROVE W = {}
      BY <3>1, <3>2, <3>4, NoPlace
    <3>5. QED
      BY <3>3, <3>4
  <2>5. /\ m \in InJobs => (\E p : J = {p}) /\ L = {} /\ H = {}
        /\ m \notin InJobs => J = {}
    <3>1. CASE jobs = <<>>
      BY <3>1, EmptySeq DEF InJobs
    <3>2. CASE jobs # <<>>
      <4>1. 1 \in DOMAIN jobs
        BY <3>2, LenProperties, EmptySeq DEF LInv, TypeOK
      <4>2. /\ DOMAIN jobs = {1} /\ jobs[1] \in Seq(Msgs) /\ Increasing(jobs[1])
            /\ \A c \in Frames : req[c] = <<>>
        BY <4>1, PoolFlush DEF LInv, Ordered
      <4>3. L = {} /\ H = {}
        BY <2>3, <4>2, HeldEmpty DEF Frames
      <4>4. InJobs = Held(jobs[1]) /\ J = In(jobs[1], m) \X {1}
        BY <4>2 DEF InJobs
      <4>5. /\ m \in Held(jobs[1]) => \E p : In(jobs[1], m) \X {1} = {p}
            /\ m \notin Held(jobs[1]) => In(jobs[1], m) \X {1} = {}
        BY <2>1, <4>2, ListPlace
      <4> HIDE DEF L, H, J
      <4>6. QED
        BY <4>3, <4>4, <4>5
    <3>3. QED
      BY <3>1, <3>2
  <2>6. ~(m \in Held(req["loop"]) /\ m \in Held(req["handler"]))
    BY HeldEmpty DEF LInv, OneFlush, Flushing, Frames
  <2>7. /\ m \in Held(queued) \cup Taken \cup Out
        /\ m \in Held(queued) => m \notin Taken /\ m \notin Out
        /\ m \in Taken => m \notin Out
    BY DEF LInv, Split
  <2> HIDE DEF W, L, H, J, Q
  <2>8. CASE m \in Held(queued)
    BY <2>2, <2>3, <2>4, <2>5, <2>7, <2>8 DEF Taken
  <2>9. CASE m \in Out
    BY <2>2, <2>3, <2>4, <2>5, <2>7, <2>9 DEF Taken
  <2>10. CASE m \in InJobs
    BY <2>2, <2>3, <2>4, <2>5, <2>7, <2>10 DEF Taken
  <2>11. CASE m \in Held(req["loop"])
    BY <2>2, <2>3, <2>4, <2>5, <2>6, <2>7, <2>11 DEF Taken
  <2>12. CASE m \in Held(req["handler"])
    BY <2>2, <2>3, <2>4, <2>5, <2>6, <2>7, <2>12 DEF Taken
  <2>13. QED
    BY <2>7, <2>8, <2>9, <2>10, <2>11, <2>12 DEF Taken
<1>2. QED
  BY <1>1, LoggerInvariance, PTL

(* However many threads the pool has, it writes the messages in the order  *)
(* of the calls: flush_ongoing (logger.c:107, :114, :152) keeps a second   *)
(* job from being queued.                                                  *)
THEOREM PoolWritesInOrder == Spec => []PoolInOrder
<1>1. LInv => PoolInOrder
  BY DEF LInv, Ordered
<1>2. QED
  BY <1>1, LoggerInvariance, PTL

(* After shutdown_logger's forced flush (logger.c:255-260) nothing is left *)
(* in the queue when the process exits, whichever instruction of the loop  *)
(* the signal came between.                                                *)
THEOREM ExitLeavesNoQueue == Spec => []ExitWritesQueue
<1>1. LInv => ExitWritesQueue
  <2> SUFFICES ASSUME LInv, proc = "exited", NEW m \in 1 .. logged
               PROVE  \/ \E i \in DOMAIN file : file[i].msg = m
                      \/ \E j \in DOMAIN jobs : In(jobs[j], m) # {}
                      \/ In(req["loop"], m) # {}
    BY DEF ExitWritesQueue
  <2>1. shutdown = "fini"
    BY DEF LInv, LogBound
  <2>2. queued = <<>> /\ req["handler"] = <<>>
    BY <2>1 DEF LInv, LockHeld, OneFlush, Frames
  <2>3. m \in Held(req["loop"]) \cup InJobs \cup Out
    BY <2>2, HeldEmpty DEF LInv, Split, Taken
  <2>4. QED
    BY <2>3 DEF Held, InJobs, Out, In
<1>2. QED
  BY <1>1, LoggerInvariance, PTL

(* A lock that is held when a frame asks for it is held by the loop, and   *)
(* asked for by the handler in its first call.                             *)
LEMMA HeldLock ==
  ASSUME TypeOK, LockHeld, NEW c \in Frames, Running(c), lock # "free",
         pc[c] \in {"idle", "schedule"}, c = "handler" => shutdown # "no"
  PROVE  lock = "loop" /\ shutdown = "terminating"
BY DEF TypeOK, LockHeld, Locked, Frames, Running

(* A job with something to write belongs to a log that has started. *)
LEMMA JobOfStartedLog ==
  ASSUME TypeOK, LogBound, OneFlush, Split, NEW i \in DOMAIN jobs,
         jobs[i] # <<>>, ~initialized
  PROVE  shutdown = "fini"
<1>1. i = 1 /\ jobs[1] \in Seq(Msgs) /\ Taken = Held(jobs[1])
  BY PoolFlush
<1>2. Head(jobs[1]) \in Held(jobs[1])
  <2>1. /\ Len(jobs[1]) \in Nat \ {0} /\ DOMAIN jobs[1] = 1 .. Len(jobs[1])
        /\ Head(jobs[1]) = jobs[1][1]
    BY <1>1, HeadTailProperties, LenProperties, EmptySeq
  <2>2. QED
    BY <2>1 DEF Held
<1>3. logged # 0
  BY <1>1, <1>2 DEF Split
<1>4. QED
  BY <1>3 DEF LogBound

(* The log aborts the process only through queued_logs_lock held by the    *)
(* frame below the handler's first log call (logger.c:148, main.c:19-41),  *)
(* or through a job that runs on after zlog_fini (logger.c:258), for any   *)
(* number of messages.                                                     *)
THEOREM AbortsHaveCause == Spec => []AbortHasCause
<1>1. Init => AbortHasCause
  BY DEF Init, AbortHasCause
<1>2. ASSUME LInv, AbortHasCause, [Next]_vars PROVE AbortHasCause'
  <2> USE DEF LInv
  <2>1. CASE UNCHANGED vars
    BY <1>2, <2>1 DEF vars, mainVars, flushVars, AbortHasCause
  <2>2. ASSUME NEW c \in Frames, NEW label, At(c, "idle") \/ At(c, "schedule"),
               WrLock(c, label), c = "handler" => shutdown # "no",
               UNCHANGED shutdown
        PROVE  AbortHasCause'
    <3>1. proc = "up" /\ Running(c) /\ pc[c] \in {"idle", "schedule"}
      BY <2>2 DEF At, Running
    <3>2. QED
      BY <1>2, <2>2, <3>1, HeldLock DEF WrLock, AbortHasCause
  <2>3. ASSUME NEW c \in Frames,
               log_call(c) \/ schedule_flush_lock(c) \/ force_log_flush(c)
        PROVE  AbortHasCause'
    <3>1. c = "handler" => shutdown # "no"
      BY <1>2, <2>3 DEF log_call, schedule_flush_lock, force_log_flush, At,
         MayLog, MayForce, LockHeld
    <3>2. QED
      BY <2>2, <2>3, <3>1 DEF log_call, schedule_flush_lock, force_log_flush
  <2>4. ASSUME NEW i \in DOMAIN jobs, on_flushing_thread(i)
        PROVE  AbortHasCause'
    <3>1. CASE initialized
      BY <2>4, <3>1 DEF on_flushing_thread, AbortHasCause
    <3>2. CASE ~initialized
      <4>1. shutdown = "fini"
        BY <1>2, <2>4, <3>2, JobOfStartedLog DEF on_flushing_thread
      <4>2. QED
        BY <2>4, <3>2, <4>1 DEF on_flushing_thread, AbortHasCause
    <3>3. QED
      BY <3>1, <3>2
  <2>5. ASSUME NEW c \in Frames,
               \/ queue_log_generic(c) \/ queue_log_check(c)
               \/ schedule_flush_take(c) \/ schedule_flush_submit(c)
               \/ flush_log_data(c) \/ force_log_flush_end(c)
        PROVE  AbortHasCause'
    BY <2>5
    DEF queue_log_generic, queue_log_check, schedule_flush_take,
        schedule_flush_submit, flush_log_data, force_log_flush_end, At,
        Running, mainVars, AbortHasCause
  <2>6. ASSUME NEW i \in DOMAIN jobs, on_flushing_thread_done(i)
        PROVE  AbortHasCause'
    BY <2>6 DEF on_flushing_thread_done, At, Running, mainVars, AbortHasCause
  <2>7. CASE \/ init_logger \/ register_interrupt_handlers \/ shutdown_upkeep
             \/ shutdown_logger \/ exit \/ log_synchronous
    BY <2>7
    DEF init_logger, register_interrupt_handlers, shutdown_upkeep,
        shutdown_logger, exit, log_synchronous, At, Running, AbortHasCause
  <2>8. QED
    BY <1>2, <2>1, <2>3, <2>4, <2>5, <2>6, <2>7 DEF Next, queue_log, ForcedFlush
<1>3. QED
  BY <1>1, <1>2, LoggerInvariance, PTL DEF Spec

=============================================================================
