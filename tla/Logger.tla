------------------------------- MODULE Logger -------------------------------
(***************************************************************************)
(* The asynchronous log of src/src/logger.c.  A log call appends to        *)
(* queued_logs and, unless a flush is under way, hands the whole queue to  *)
(* a job of the libuv pool; main() and shutdown_logger() also write the    *)
(* queue themselves.                                                       *)
(*                                                                         *)
(* Two frames of the event-loop thread run this code: the loop's own       *)
(* (main(), then the callbacks of uv_run) and, on top of it and never      *)
(* returning, the handler of a signal (shutdown_upkeep).  The handler can  *)
(* come between any two steps of the loop; pool threads run beside both.   *)
(*                                                                         *)
(* A message is its number in the order of the calls.                      *)
(***************************************************************************)
EXTENDS Naturals, Sequences

CONSTANT MaxLogs   \* bound: messages logged before the handler's own two

ASSUME LoggerAssumption == MaxLogs \in Nat \ {0}   \* main() logs its version

Frames == {"loop", "handler"}

VARIABLES
  proc,         \* "up", "exited" (exit(0)), "killed" (_exit) or "aborted"
  phase,        \* main(): "boot", "version", "startup", then "uv_run"
  shutdown,     \* the call shutdown_upkeep is at; "no" before a signal
  initialized,  \* logger_initialized
  logged,       \* how many messages have been logged
  queued,       \* queued_logs; NULL and an empty list are the same here
  lock,         \* the frame that holds queued_logs_lock, or "free"
  ongoing,      \* flush_ongoing
  pc,           \* per frame, where it is in queue_log or force_log_flush
  req,          \* per frame, the list schedule_flush has taken
  jobs,         \* the jobs of the pool: what each still has to write
  file          \* what was written, in order, and by whom

mainVars == <<proc, phase, shutdown, initialized>>
flushVars == <<lock, ongoing, pc>>
dataVars == <<queued, req, jobs, file>>
vars == <<mainVars, logged, flushVars, dataVars>>

Line(m, by) == [msg |-> m, by |-> by]

-----------------------------------------------------------------------------

Init ==
  /\ proc = "up"
  /\ phase = "boot"
  /\ shutdown = "no"
  /\ initialized = FALSE
  /\ logged = 0
  /\ queued = <<>>
  /\ lock = "free"
  /\ ongoing = FALSE
  /\ pc = [c \in Frames |-> "idle"]
  /\ req = [c \in Frames |-> <<>>]
  /\ jobs = <<>>
  /\ file = <<>>

(* Once the handler has begun, the frame below it is frozen. *)
Running(c) == proc = "up" /\ (c = "loop" => shutdown = "no")

At(c, label) == Running(c) /\ pc[c] = label

Goto(c, label) == pc' = [pc EXCEPT ![c] = label]

(* init_logger: when zlog does not start, every later call is a no-op. *)
init_logger ==
  /\ At("loop", "idle")
  /\ phase = "boot"
  /\ initialized' \in BOOLEAN
  /\ phase' = "version"
  /\ UNCHANGED <<proc, shutdown, logged, dataVars, flushVars>>

(* After the first message, main() installs the handler. *)
register_interrupt_handlers ==
  /\ At("loop", "idle")
  /\ phase = "version"
  /\ logged = 1 \/ ~initialized
  /\ phase' = "startup"
  /\ UNCHANGED <<proc, shutdown, initialized, logged, dataVars, flushVars>>

(* The signal, or main() itself when it cannot listen.  What the handler   *)
(* does to a log that never started is to exit.                            *)
shutdown_upkeep ==
  /\ Running("loop")
  /\ phase \in {"startup", "uv_run"}
  /\ \/ /\ initialized
        /\ shutdown' = "terminating"
        /\ UNCHANGED proc
     \/ /\ ~initialized
        /\ proc' = "exited"
        /\ UNCHANGED shutdown
  /\ UNCHANGED <<phase, initialized, logged, dataVars, flushVars>>

-----------------------------------------------------------------------------
(* The log calls a frame makes: the loop's, up to the bound, and the two   *)
(* of the handler ("Upkeep terminating.", "Web interface stopped.").       *)
MayLog(c) ==
  /\ initialized
  /\ IF c = "loop"
     THEN phase # "boot" /\ logged < (IF phase = "version" THEN 1 ELSE MaxLogs)
     ELSE shutdown \in {"terminating", "web"}

(* The handler goes on to its next call when one returns. *)
Returned(c) ==
  shutdown' = CASE c = "loop"                   -> shutdown
                [] shutdown = "terminating"     -> "web"
                [] shutdown = "web"             -> "flush"
                [] shutdown = "flush"           -> "fini"

(* uv_rwlock_wrlock(&queued_logs_lock).  The other frame is below this one *)
(* on the same thread: libuv aborts on the EDEADLK it gets.                *)
WrLock(c, label) ==
  \/ /\ lock = "free"
     /\ lock' = c
     /\ Goto(c, label)
     /\ UNCHANGED proc
  \/ /\ lock # "free"
     /\ proc' = "aborted"
     /\ UNCHANGED <<lock, pc>>

(* log_info, log_warn, log_error: verify_init, then queue_log. *)
log_call(c) ==
  /\ At(c, "idle")
  /\ MayLog(c)
  /\ WrLock(c, "append")
  /\ UNCHANGED <<phase, shutdown, initialized, logged, dataVars, ongoing>>

(* Mutant: the test for a NULL message is dropped; 0 is no message. *)
queue_log_generic_null(c) ==
  /\ At(c, "append")
  /\ \E m \in {0, logged + 1} : queued' = Append(queued, m)
  /\ logged' = logged + 1
  /\ lock' = "free"
  /\ Goto(c, "check")
  /\ UNCHANGED <<mainVars, ongoing, req, jobs, file>>

(* Mutant: the unlock is left for after schedule_flush. *)
queue_log_generic_locked(c) ==
  /\ At(c, "append")
  /\ logged' = logged + 1
  /\ queued' = Append(queued, logged')
  /\ Goto(c, "check")
  /\ UNCHANGED <<mainVars, lock, ongoing, req, jobs, file>>

(* queue_log_generic under the lock, and the unlock. *)
queue_log_generic(c) ==
  /\ At(c, "append")
  /\ logged' = logged + 1
  /\ queued' = Append(queued, logged')
  /\ lock' = "free"
  /\ Goto(c, "check")
  /\ UNCHANGED <<mainVars, ongoing, req, jobs, file>>

(* Mutant: a flush is scheduled even when one is under way. *)
queue_log_check_always(c) ==
  /\ At(c, "check")
  /\ ongoing' = TRUE
  /\ Goto(c, "schedule")
  /\ UNCHANGED <<mainVars, logged, dataVars, lock>>

(* if (!flush_ongoing) schedule_flush(), whose first line sets the flag. *)
queue_log_check(c) ==
  /\ At(c, "check")
  /\ \/ /\ ongoing
        /\ Goto(c, "idle")
        /\ Returned(c)
        /\ UNCHANGED ongoing
     \/ /\ ~ongoing
        /\ ongoing' = TRUE
        /\ Goto(c, "schedule")
        /\ UNCHANGED shutdown
  /\ UNCHANGED <<proc, phase, initialized, logged, dataVars, lock>>

(* schedule_flush takes the queue under the lock... *)
schedule_flush_lock(c) ==
  /\ At(c, "schedule")
  /\ WrLock(c, "take")
  /\ UNCHANGED <<phase, shutdown, initialized, logged, dataVars, ongoing>>

(* Mutant: the list is handed over and stays queued as well. *)
schedule_flush_take_keep(c) ==
  /\ At(c, "take")
  /\ req' = [req EXCEPT ![c] = queued]
  /\ lock' = "free"
  /\ Goto(c, "submit")
  /\ UNCHANGED <<mainVars, logged, queued, ongoing, jobs, file>>

schedule_flush_take(c) ==
  /\ At(c, "take")
  /\ req' = [req EXCEPT ![c] = queued]
  /\ queued' = <<>>
  /\ lock' = "free"
  /\ Goto(c, "submit")
  /\ UNCHANGED <<mainVars, logged, ongoing, jobs, file>>

(* ... and gives it to the pool. *)
schedule_flush_submit(c) ==
  /\ At(c, "submit")
  /\ jobs' = Append(jobs, req[c])
  /\ req' = [req EXCEPT ![c] = <<>>]
  /\ Goto(c, "idle")
  /\ Returned(c)
  /\ UNCHANGED <<proc, phase, initialized, logged, queued, lock, ongoing,
                 file>>

-----------------------------------------------------------------------------
(* A pool thread writes the next message of its list.  After zlog_fini the *)
(* message reaches the console only, and the freed category may crash the  *)
(* process.                                                                *)
on_flushing_thread(i) ==
  /\ proc = "up"
  /\ jobs[i] # <<>>
  /\ jobs' = [jobs EXCEPT ![i] = Tail(@)]
  /\ file' = Append(file, Line(Head(jobs[i]),
                               IF initialized THEN "pool" ELSE "console"))
  /\ proc' \in IF initialized THEN {proc} ELSE {proc, "aborted"}
  /\ UNCHANGED <<phase, shutdown, initialized, logged, queued, flushVars,
                 req>>

(* Mutant: the request is freed and the flag stays. *)
on_flushing_thread_done_stuck(i) ==
  /\ At("loop", "idle")
  /\ phase = "uv_run"
  /\ jobs[i] = <<>>
  /\ jobs' = SubSeq(jobs, 1, i - 1) \o SubSeq(jobs, i + 1, Len(jobs))
  /\ UNCHANGED <<mainVars, logged, queued, flushVars, req, file>>

(* The after-work callback: nothing looks at what was queued meanwhile. *)
on_flushing_thread_done(i) ==
  /\ At("loop", "idle")
  /\ phase = "uv_run"
  /\ jobs[i] = <<>>
  /\ jobs' = SubSeq(jobs, 1, i - 1) \o SubSeq(jobs, i + 1, Len(jobs))
  /\ ongoing' = FALSE
  /\ UNCHANGED <<mainVars, logged, queued, lock, pc, req, file>>

-----------------------------------------------------------------------------
(* force_log_flush: main() calls it last, the handler after its two logs.  *)
(* It writes the queue under the lock, without regard to a job under way.  *)
MayForce(c) ==
  IF c = "loop" THEN phase = "startup" ELSE shutdown = "flush"

force_log_flush(c) ==
  /\ At(c, "idle")
  /\ initialized
  /\ MayForce(c)
  /\ WrLock(c, "force")
  /\ UNCHANGED <<phase, shutdown, initialized, logged, dataVars, ongoing>>

flush_log_data(c) ==
  /\ At(c, "force")
  /\ queued # <<>>
  /\ file' = Append(file, Line(Head(queued), "force"))
  /\ queued' = Tail(queued)
  /\ UNCHANGED <<mainVars, logged, flushVars, req, jobs>>

(* Mutant: the flush ends without having written the queue. *)
force_log_flush_end_early(c) ==
  /\ At(c, "force")
  /\ lock' = "free"
  /\ Goto(c, "idle")
  /\ Returned(c)
  /\ phase' = IF c = "loop" THEN "uv_run" ELSE phase
  /\ UNCHANGED <<proc, initialized, logged, dataVars, ongoing>>

(* queued_logs = NULL, the unlock; main() enters uv_run. *)
force_log_flush_end(c) ==
  /\ At(c, "force")
  /\ queued = <<>>
  /\ lock' = "free"
  /\ Goto(c, "idle")
  /\ Returned(c)
  /\ phase' = IF c = "loop" THEN "uv_run" ELSE phase
  /\ UNCHANGED <<proc, initialized, logged, dataVars, ongoing>>

(* zlog_fini and set_init_state(false)... *)
shutdown_logger ==
  /\ At("handler", "idle")
  /\ shutdown = "fini"
  /\ initialized
  /\ initialized' = FALSE
  /\ UNCHANGED <<proc, phase, shutdown, logged, dataVars, flushVars>>

(* ... and exit(0). *)
exit ==
  /\ At("handler", "idle")
  /\ shutdown = "fini"
  /\ ~initialized
  /\ proc' = "exited"
  /\ UNCHANGED <<phase, shutdown, initialized, logged, dataVars, flushVars>>

-----------------------------------------------------------------------------
(* log_synchronous passes the queue by.  Its callers either go on or call  *)
(* _exit, which flushes nothing.                                           *)
log_synchronous ==
  /\ At("loop", "idle")
  /\ phase # "version"
  /\ initialized
  /\ logged < MaxLogs
  /\ logged' = logged + 1
  /\ file' = Append(file, Line(logged', "sync"))
  /\ proc' \in {"up", "killed"}
  /\ UNCHANGED <<phase, shutdown, initialized, queued, flushVars, req, jobs>>

(* queue_log, once log_call has entered it. *)
queue_log(c) ==
  \/ queue_log_generic(c)
  \/ queue_log_check(c)
  \/ schedule_flush_lock(c)
  \/ schedule_flush_take(c)
  \/ schedule_flush_submit(c)

ForcedFlush(c) ==
  force_log_flush(c) \/ flush_log_data(c) \/ force_log_flush_end(c)

Next ==
  \/ init_logger
  \/ register_interrupt_handlers
  \/ shutdown_upkeep
  \/ \E c \in Frames : log_call(c) \/ queue_log(c) \/ ForcedFlush(c)
  \/ \E i \in DOMAIN jobs : on_flushing_thread(i)
  \/ \E i \in DOMAIN jobs : on_flushing_thread_done(i)
  \/ shutdown_logger
  \/ exit
  \/ log_synchronous

Spec == Init /\ [][Next]_vars

(* A call that has begun goes on (none need begin), main() reaches uv_run, *)
(* a pool thread runs its job, and every turn of the loop delivers         *)
(* finished jobs.                                                          *)
Fairness ==
  /\ \A c \in Frames : WF_vars(queue_log(c)) /\ WF_vars(ForcedFlush(c))
  /\ SF_vars(force_log_flush("loop"))
  /\ WF_vars(register_interrupt_handlers)
  /\ WF_vars(\E i \in DOMAIN jobs : on_flushing_thread(i))
  /\ SF_vars(\E i \in DOMAIN jobs : on_flushing_thread_done(i))

FairSpec == Spec /\ Fairness

-----------------------------------------------------------------------------

Msgs == 1 .. (MaxLogs + 2)

TypeOK ==
  /\ proc \in {"up", "exited", "killed", "aborted"}
  /\ phase \in {"boot", "version", "startup", "uv_run"}
  /\ shutdown \in {"no", "terminating", "web", "flush", "fini"}
  /\ initialized \in BOOLEAN
  /\ logged \in 0 .. (MaxLogs + 2)
  /\ queued \in Seq(Msgs)
  /\ lock \in Frames \cup {"free"}
  /\ ongoing \in BOOLEAN
  /\ pc \in [Frames -> {"idle", "append", "check", "schedule", "take",
                        "submit", "force"}]
  /\ req \in [Frames -> Seq(Msgs)]
  /\ jobs \in Seq(Seq(Msgs))
  /\ file \in Seq([msg : Msgs, by : {"pool", "force", "sync", "console"}])

-----------------------------------------------------------------------------
(* Where message m is. *)
In(s, m) == {i \in DOMAIN s : s[i] = m}

Places(m) ==
  (In(queued, m) \X {"queued"})
  \cup (UNION {In(req[c], m) \X {c} : c \in Frames})
  \cup (UNION {In(jobs[j], m) \X {j} : j \in DOMAIN jobs})
  \cup ({i \in DOMAIN file : file[i].msg = m} \X {"file"})

(* No message is lost by a hand-over or written twice: at every moment,    *)
(* each message logged so far is in exactly one place, the queue, a list   *)
(* schedule_flush has taken, a job of the pool or the output.              *)
MessageInOnePlace ==
  \A m \in 1 .. logged : \E p \in Places(m) : Places(m) = {p}

(* What the pool writes comes out in the order of the calls, however many  *)
(* threads it has: a flush is not begun while another is under way.  (A    *)
(* forced flush and log_synchronous do overtake.)                          *)
PoolInOrder ==
  \A i, j \in DOMAIN file :
    i < j /\ file[i].by = "pool" /\ file[j].by = "pool" =>
      file[i].msg < file[j].msg

(* exit(0) leaves nothing behind in the queue, not even what was logged    *)
(* while a flush was under way and that no flush has picked up: a message  *)
(* is missing from the file only if a job of the pool had it, or the list  *)
(* that a schedule_flush interrupted by the signal had taken and not yet   *)
(* handed to the pool.                                                     *)
ExitWritesQueue ==
  proc = "exited" =>
    \A m \in 1 .. logged :
      \/ \E i \in DOMAIN file : file[i].msg = m
      \/ \E j \in DOMAIN jobs : In(jobs[j], m) # {}
      \/ In(req["loop"], m) # {}

(* The log takes the process down in two cases only.  A signal has caught  *)
(* the loop inside a section under queued_logs_lock: then the handler's    *)
(* first message, and no later call, meets the held lock.  Or a job has    *)
(* outlived zlog_fini.  The loop alone never meets queued_logs_lock held   *)
(* by itself, and this lock survives a signal between two sections, or     *)
(* inside schedule_flush outside them.  (The locks of libc and of zlog are *)
(* not modelled here; Lifecycle has the handler that waits for one.)       *)
AbortHasCause ==
  proc = "aborted" =>
    \/ lock = "loop" /\ shutdown = "terminating"
    \/ ~initialized /\ shutdown = "fini"

(* A flush always comes to its end, so that flush_ongoing cannot stay set  *)
(* and keep every later message in the queue.                              *)
FlushEnds == ongoing ~> ~ongoing \/ proc # "up" \/ shutdown # "no"

=============================================================================
