------------------------------- MODULE Monitor -------------------------------
(***************************************************************************)
(* The core of the service, src/src/main.c over src/src/database.c: device *)
(* reports arrive on the event loop, are compared with the last row on     *)
(* disk and stored; a reboot becomes a job of the libuv thread pool that   *)
(* pushes the report to the web interface; a timer on the loop pushes a    *)
(* report for every device that has been silent too long.  The process can *)
(* die at any point and be started again on the same database.             *)
(*                                                                         *)
(* Undefined behaviour is a choice.  StoreReturn, ForeachCall and          *)
(* UninitActive are the outcomes allowed for the three places where the    *)
(* code reads a value it never produced; a configuration that leaves out   *)
(* the benign outcome is the program as gcc builds it.                     *)
(***************************************************************************)
EXTENDS Database, FiniteSets

CONSTANTS
  Fresh,         \* 5000: an uptime below it always counts as a reboot
  Threshold,     \* outage_timer_threshold_sec
  Interval,      \* outage_timer_interval_ms, in seconds
  Ids,           \* addresses malloc may return for an uptime_entry_t
  PoolSize,      \* threads of the libuv pool
  StoreReturn,   \* what a function without a return returns: "entry", "wild"
  UninitActive,  \* what uv_is_active may read in memory fresh from malloc
  Contexts,      \* {TRUE}: the web server always starts; FALSE: it may not
  Kills          \* may the process be killed or signalled from outside?

Report == [dev : Devices, uptime : UInt32]

ASSUME MonitorAssumption ==
  /\ Fresh \in Nat
  /\ Threshold \in Nat
  /\ Threshold < MaxAge
  /\ Interval \in Nat \ {0}
  /\ PoolSize \in Nat \ {0}
  /\ StoreReturn \subseteq {"entry", "wild"}
  /\ UninitActive \subseteq BOOLEAN
  /\ Contexts \subseteq BOOLEAN
  /\ Kills \in BOOLEAN
  /\ Null \notin Ids \cup UInt32 \cup Report

VARIABLES
  proc,      \* "up" or "down"
  context,   \* is the libwebsockets context non-NULL?
  timer,     \* outage_timer: "null", "garbage" (malloc'ed, never
             \* initialised, taken for active) or "active"
  left,      \* seconds until the active timer is due
  pc,        \* where register_uptime_report is, "idle" outside it
  report,    \* the uptime_report_t it handles
  last,      \* last_recorded_uptime
  entry,     \* the pointer store_uptime_report_in_db returned; Null is wild
  heap,      \* the uptime_entry_t at each address, Null when it is free
  stage      \* the pool's job for each address: "none", "queued",
             \* "running" or "done" (its after-work callback is due)

(***************************************************************************)
(* History: what a perfect observer of the devices remembers.              *)
(***************************************************************************)
VARIABLES
  heard,     \* the uptime in the last report received from each device
  masked,    \* that report is not what the device's row holds
  missed,    \* the running lookup did not see the row that is there
  silence,   \* seconds since that report, saturating like an age
  alerted,   \* an outage was pushed since that report
  notice     \* a reboot of the device was reported by it: "none", "owed" or
             \* "dropped" (the process died before telling anyone)

procVars == <<proc, context, timer, left>>
handlerVars == <<pc, report, last, entry>>
poolVars == <<heap, stage>>
historyVars == <<heard, masked, missed, silence, alerted, notice>>
vars == <<db, procVars, handlerVars, poolVars, historyVars>>

-----------------------------------------------------------------------------

Init ==
  /\ db = EmptyTable
  /\ proc = "down"
  /\ context = FALSE
  /\ timer = "null"
  /\ left = Interval
  /\ pc = "idle"
  /\ report = Null
  /\ last = 0
  /\ entry = Null
  /\ heap = [id \in Ids |-> Null]
  /\ stage = [id \in Ids |-> "none"]
  /\ heard = [d \in Devices |-> Null]
  /\ masked = [d \in Devices |-> FALSE]
  /\ missed = FALSE
  /\ silence = [d \in Devices |-> 0]
  /\ alerted = [d \in Devices |-> FALSE]
  /\ notice = [d \in Devices |-> "none"]

(* main(): init_database keeps the rows of an existing table, and a web    *)
(* server that fails to start is only logged.                              *)
main ==
  /\ proc = "down"
  /\ proc' = "up"
  /\ context' \in Contexts
  /\ UNCHANGED <<db, timer, left, handlerVars, poolVars, historyVars>>

(* The report in hand has not reached the table yet. *)
Unsaved == pc \in {"lookup", "store"}

(* The end of the process, whatever ends it: memory is gone, the table is  *)
(* not.                                                                    *)
Die ==
  /\ proc' = "down"
  /\ context' = FALSE
  /\ timer' = "null"
  /\ left' = Interval
  /\ pc' = "idle"
  /\ report' = Null
  /\ last' = 0
  /\ entry' = Null
  /\ heap' = [id \in Ids |-> Null]
  /\ stage' = [id \in Ids |-> "none"]
  /\ heard' = IF Unsaved THEN [heard EXCEPT ![report.dev] = report.uptime]
                         ELSE heard
  /\ masked' = IF Unsaved THEN [masked EXCEPT ![report.dev] = TRUE] ELSE masked
  /\ missed' = FALSE
  /\ notice' = [d \in Devices |->
                  IF notice[d] = "owed" THEN "dropped" ELSE notice[d]]
  /\ UNCHANGED <<db, silence, alerted>>

(* shutdown_upkeep from a signal handler, or a kill: between any two steps. *)
shutdown_upkeep ==
  /\ Kills
  /\ proc = "up"
  /\ Die

-----------------------------------------------------------------------------
(* The loop is between two callbacks. *)
LoopIdle == proc = "up" /\ pc = "idle"

(* on_read_unit_complete with a chunk that deserializes: the callback      *)
(* enters register_uptime_report.  A read comes from a connection, so      *)
(* on_new_connection has run in this process.  The guard on heap bounds    *)
(* the entries alive at once; malloc has no such bound.                    *)
on_read_unit_complete(d, u) ==
  /\ LoopIdle
  /\ timer # "null"
  /\ \E id \in Ids : heap[id] = Null
  /\ pc' = "lookup"
  /\ report' = [dev |-> d, uptime |-> u]
  /\ silence' = [silence EXCEPT ![d] = 0]
  /\ alerted' = [alerted EXCEPT ![d] = FALSE]
  /\ UNCHANGED <<db, procVars, last, entry, poolVars, heard, masked, missed,
                 notice>>

(* last_recorded_uptime = get_last_known_uptime(report->mac_address) *)
register_lookup ==
  /\ pc = "lookup"
  /\ \E r \in get_last_known_uptime(report.dev) :
       \/ /\ r.end = "fault"
          /\ Die
       \/ /\ r.end = "callee"
          /\ pc' = "store"
          /\ last' = r.uptime
          /\ missed' = r.missed
          /\ UNCHANGED <<db, procVars, report, entry, poolVars, heard,
                         masked, silence, alerted, notice>>

(* The device rebooted, as far as its reports tell, and nothing kept the   *)
(* service from seeing both of them.                                       *)
RebootSeen ==
  LET d == report.dev
  IN \/ report.uptime < Fresh
     \/ /\ heard[d] # Null
        /\ heard[d] > report.uptime
        /\ ~masked[d]
        /\ ~missed

(* entry = store_uptime_report_in_db(report): allocate, fill, insert, and  *)
(* fall off the end of a function that should return the entry.            *)
store_uptime_report_in_db ==
  /\ pc = "store"
  /\ \E outcome \in InsertOutcomes :
       \/ /\ outcome = "fatal"
          /\ Die
       \/ /\ outcome # "fatal"
          /\ insert_uptime_entry(report.dev, report.uptime, outcome)
          /\ \E id \in Ids, value \in StoreReturn :
               /\ heap[id] = Null
               /\ heap' = [heap EXCEPT ![id] = report]
               /\ entry' = IF value = "entry" THEN id ELSE Null
          /\ pc' = "decide"
          /\ heard' = [heard EXCEPT ![report.dev] = report.uptime]
          /\ masked' = [masked EXCEPT ![report.dev] = outcome = "lost"]
          /\ missed' = FALSE
          /\ notice' = IF RebootSeen
                       THEN [notice EXCEPT ![report.dev] = "owed"]
                       ELSE notice
          /\ UNCHANGED <<procVars, report, last, stage, silence, alerted>>

(* Mutant: the comparison is made on signed numbers. *)
RebootDetected_signed(e) ==
  BindInt(last) > BindInt(e.uptime) \/ e.uptime < Fresh

(* Mutant: the test for a young uptime is left out. *)
RebootDetected_drop_only(e) == last > e.uptime

(* last_recorded_uptime > entry->uptime || entry->uptime < 5000 *)
RebootDetected(e) == last > e.uptime \/ e.uptime < Fresh

(* The rest of register_uptime_report: the entry goes to a job of the pool *)
(* or is freed.  Reading through a wild pointer faults.                    *)
register_decide ==
  /\ pc = "decide"
  /\ \/ /\ entry = Null
        /\ Die
     \/ /\ entry # Null
        /\ IF RebootDetected(heap[entry])
           THEN /\ stage' = [stage EXCEPT ![entry] = "queued"]
                /\ UNCHANGED heap
           ELSE /\ heap' = [heap EXCEPT ![entry] = Null]
                /\ UNCHANGED stage
        /\ pc' = "idle"
        /\ report' = Null
        /\ last' = 0
        /\ entry' = Null
        /\ UNCHANGED <<db, procVars, historyVars>>

-----------------------------------------------------------------------------
(* A pool thread takes a queued job. *)
uv_work_start(id) ==
  /\ stage[id] = "queued"
  /\ Cardinality({i \in Ids : stage[i] = "running"}) < PoolSize
  /\ stage' = [stage EXCEPT ![id] = "running"]
  /\ UNCHANGED <<db, procVars, handlerVars, heap, historyVars>>

(* on_device_reboot on a pool thread: broadcast the entry.  broadcast_     *)
(* report hands the context to libwebsockets without looking at it.        *)
on_device_reboot(id) ==
  /\ stage[id] = "running"
  /\ \/ /\ ~context
        /\ Die
     \/ /\ context
        /\ stage' = [stage EXCEPT ![id] = "done"]
        /\ notice' = [notice EXCEPT ![heap[id].dev] = "none"]
        /\ UNCHANGED <<db, procVars, handlerVars, heap, heard, masked, missed,
                       silence, alerted>>

(* Mutant: the job is retired and its entry is left allocated. *)
on_device_reboot_processed_leak(id) ==
  /\ LoopIdle
  /\ stage[id] = "done"
  /\ stage' = [stage EXCEPT ![id] = "none"]
  /\ UNCHANGED <<db, procVars, handlerVars, heap, historyVars>>

(* The after-work callback, back on the loop: free the entry. *)
on_device_reboot_processed(id) ==
  /\ LoopIdle
  /\ stage[id] = "done"
  /\ heap' = [heap EXCEPT ![id] = Null]
  /\ stage' = [stage EXCEPT ![id] = "none"]
  /\ UNCHANGED <<db, procVars, handlerVars, historyVars>>

-----------------------------------------------------------------------------
(* start_outage_timer: the handle is allocated once and asked whether it   *)
(* is active before uv_timer_init has given its memory a value; the answer *)
(* of that first reading is the answer of all later ones.                  *)
start_outage_timer ==
  /\ timer = "null"
  /\ \E active \in UninitActive :
       timer' = IF active THEN "garbage" ELSE "active"
  /\ left' = Interval

(* on_new_connection ends in start_outage_timer whether or not the accept  *)
(* worked; only a connection in error returns before it.                   *)
on_new_connection ==
  /\ LoopIdle
  /\ start_outage_timer
  /\ UNCHANGED <<db, proc, context, handlerVars, poolVars, historyVars>>

(* Mutant: at the threshold instead of beyond it. *)
assess_timeout_criteria_at(d) == db[d].age >= Threshold

(* Mutant: seconds compared with milliseconds. *)
assess_timeout_criteria_ms(d) == db[d].age > 1000 * Threshold

(* (time_t)current_time - entry->last_update > outage_timer_threshold_sec *)
assess_timeout_criteria(d) == db[d].age > Threshold

(* The rows of a record that are overdue. *)
Overdue(record) ==
  IF record = Null THEN {} ELSE {d \in record : assess_timeout_criteria(d)}

(* on_outage_timer with the record it got: one callback of the loop, the   *)
(* pushes and the freeing of the record included; both walk the record,    *)
(* and end alike.  libuv has rearmed the timer before it.                  *)
outage_timer_walk(record) ==
  /\ LoopIdle
  /\ timer = "active"
  /\ left = 0
  /\ \E end \in uptime_record_foreach(record) :
       \/ /\ end = "fault" \/ (Overdue(record) # {} /\ ~context)
          /\ Die
       \/ /\ end = "callee"
          /\ Overdue(record) = {} \/ context
          /\ left' = Interval
          /\ alerted' = [d \in Devices |-> alerted[d] \/ d \in Overdue(record)]
          /\ UNCHANGED <<db, proc, context, timer, handlerVars, poolVars,
                         heard, masked, missed, silence, notice>>

on_outage_timer ==
  \E record \in get_uptime_record(Devices) : outage_timer_walk(record)

(* The clock: it also runs while the process is down, or slow. *)
Tick ==
  /\ db' = AgeRows(db)
  /\ silence' = [d \in Devices |-> Older(silence[d])]
  /\ left' = IF timer = "active" /\ left > 0 THEN left - 1 ELSE left
  /\ UNCHANGED <<proc, context, timer, handlerVars, poolVars, heard, masked,
                 missed, alerted, notice>>

-----------------------------------------------------------------------------

Handler == register_lookup \/ store_uptime_report_in_db \/ register_decide

Next ==
  \/ main
  \/ shutdown_upkeep
  \/ \E d \in Devices, u \in UInt32 : on_read_unit_complete(d, u)
  \/ Handler
  \/ \E id \in Ids : uv_work_start(id)
  \/ \E id \in Ids : on_device_reboot(id)
  \/ \E id \in Ids : on_device_reboot_processed(id)
  \/ on_new_connection
  \/ on_outage_timer
  \/ Tick

Spec == Init /\ [][Next]_vars

(* A callback that has begun is run to its end, a pool thread runs its job *)
(* and the clock ticks.  The pool's queue is first in, first out, and each *)
(* turn of the loop serves due timers before it polls for input: a job or  *)
(* a due timer cannot be passed over for ever.  Nor is the table busy each *)
(* time the timer reads it.                                                *)
Fairness ==
  /\ WF_vars(Handler)
  /\ WF_vars(Tick)
  /\ SF_vars(outage_timer_walk({d \in Devices : db[d] # Null}))
  /\ \A id \in Ids : SF_vars(uv_work_start(id)) /\ WF_vars(on_device_reboot(id))

FairSpec == Spec /\ Fairness

(* The same under a supervisor that always starts the service again, with  *)
(* a device that always connects again.                                    *)
SupervisedSpec == FairSpec /\ WF_vars(main) /\ WF_vars(on_new_connection)

-----------------------------------------------------------------------------

TypeOK ==
  /\ DbTypeOK
  /\ proc \in {"up", "down"}
  /\ context \in BOOLEAN
  /\ timer \in {"null", "garbage", "active"}
  /\ left \in 0 .. Interval
  /\ pc \in {"idle", "lookup", "store", "decide"}
  /\ report \in Report \cup {Null}
  /\ last \in UInt32
  /\ entry \in Ids \cup {Null}
  /\ heap \in [Ids -> Report \cup {Null}]
  /\ stage \in [Ids -> {"none", "queued", "running", "done"}]
  /\ heard \in [Devices -> UInt32 \cup {Null}]
  /\ masked \in [Devices -> BOOLEAN]
  /\ missed \in BOOLEAN
  /\ silence \in [Devices -> Ages]
  /\ alerted \in [Devices -> BOOLEAN]
  /\ notice \in [Devices -> {"none", "owed", "dropped"}]

(* Memory safety of uptime_entry_t across the loop and the pool: what a    *)
(* job holds is allocated and what register_uptime_report holds is not in  *)
(* a job, so no thread reads an entry that was freed or handed out again;  *)
(* and what nobody holds is free.  (With a wild pointer in hand the        *)
(* process is about to fault: its leak is no longer of interest.)          *)
Wild == pc = "decide" /\ entry = Null

EntryOwnership ==
  /\ entry # Null => stage[entry] = "none" /\ heap[entry] = report
  /\ \A id \in Ids : stage[id] # "none" => heap[id] # Null
  /\ ~Wild => \A id \in Ids : heap[id] # Null => id = entry \/ stage[id] # "none"

(* A reboot that two reports on record show is never forgotten while the   *)
(* process lives: from the insert that recorded it until the push, the     *)
(* handler or a job of the pool carries an entry of that device.           *)
InHand(d) ==
  \/ pc = "decide" /\ report.dev = d
  \/ \E id \in Ids : stage[id] \in {"queued", "running"} /\ heap[id].dev = d

NoticeInHand == \A d \in Devices : notice[d] = "owed" => InHand(d)

(* An outage push is never a false alarm: when one has gone out since the  *)
(* device's last report, that report really is too old, unless it never    *)
(* reached the table (a lost insert, or a death of the process before it). *)
OutageJustified ==
  \A d \in Devices : alerted[d] => silence[d] > Threshold \/ masked[d]

(* Every reboot that is owed is pushed, or the process dies with it. *)
RebootPushed ==
  \A d \in Devices : notice[d] = "owed" ~> notice[d] # "owed"

(* While the timer runs, a device that stays silent past the threshold is  *)
(* pushed as an outage, unless the process dies or the device reports.     *)
Late(d) == db[d] # Null /\ db[d].age > Threshold

OutagePushed ==
  \A d \in Devices :
    Late(d) /\ timer = "active" ~> alerted[d] \/ ~Late(d) \/ timer # "active"

(* README.md, "can notify you if those devices later go down, reboot":     *)
(* stated of a process that nothing outside kills, no reboot of a device   *)
(* is dropped...                                                           *)
RebootsAreNotified == \A d \in Devices : notice[d] # "dropped"

(* ... and once on_new_connection has run, a device on record that stays   *)
(* silent past the threshold is pushed as an outage, with no excuse but a  *)
(* new report.                                                             *)
Silent(d) == db[d] # Null /\ silence[d] > Threshold

OutagesAreNotified ==
  \A d \in Devices :
    Silent(d) /\ timer # "null" ~> alerted[d] \/ ~Silent(d)

=============================================================================
