------------------------------- MODULE Upkeep -------------------------------
(***************************************************************************)
(* The service as a whole: Monitor, whose push of a report is one step,    *)
(* with the ring of Broadcast in the place of that step.  A reboot job     *)
(* runs broadcast_report on its pool thread while the loop goes on; the    *)
(* outage timer runs it on the loop once per late device; the signal       *)
(* handler freezes the loop and sweeps the ring while pool threads run on. *)
(*                                                                         *)
(* The model follows one life of the process.  A push without a context    *)
(* faults before anyone else can see what it did to the ring, so it stays  *)
(* one step.                                                               *)
(***************************************************************************)
EXTENDS Monitor

CONSTANTS
  Loop,   \* the event-loop thread; a pool thread goes by its job's entry
  Size,   \* as in Broadcast
  Bufs

ASSUME UpkeepAssumption ==
  /\ Loop \notin Ids
  /\ Size \in Nat \ {0, 1}
  /\ Null \notin Bufs

VARIABLES
  ran,    \* main() has been entered
  todo,   \* devices the outage timer's walk has still to push
  fate, ring, current, live, at, next, buf, sweep, swept, raced, collided,
  recent  \* the variables of Broadcast; its proc is fate, its pc is at

(***************************************************************************)
(* History.                                                                *)
(***************************************************************************)
VARIABLE
  about   \* per message, the device it reports on

B == INSTANCE Broadcast
       WITH proc <- fate, pc <- at, Threads <- Ids \cup {Loop}

walkVars == <<ran, todo>>
pushVars == <<fate, ring, current, live, at, next, buf, sweep, swept, raced,
              collided, recent, about>>
upkeepVars == <<vars, walkVars, pushVars>>

UpkeepInit ==
  /\ Init
  /\ ran = FALSE
  /\ todo = {}
  /\ B!Init
  /\ about = [b \in Bufs |-> Null]

-----------------------------------------------------------------------------

start ==
  /\ ~ran
  /\ main
  /\ ran' = TRUE
  /\ UNCHANGED <<todo, pushVars>>

(* No signal has frozen the loop, and the outage timer's callback is over. *)
LoopFree == sweep = -1 /\ todo = {} /\ B!Idle(Loop)

(* The callbacks of the loop that push nothing. *)
callback ==
  /\ LoopFree
  /\ \/ \E d \in Devices, u \in UInt32 : on_read_unit_complete(d, u)
     \/ Handler
     \/ \E id \in Ids : on_device_reboot_processed(id)
     \/ on_new_connection
  /\ UNCHANGED <<walkVars, pushVars>>

background ==
  /\ Tick \/ \E id \in Ids : uv_work_start(id)
  /\ UNCHANGED <<walkVars, pushVars>>

(* A crash of the heap ends the process; the service is otherwise where it *)
(* was.                                                                    *)
Survives == IF fate' = "aborted" THEN Die ELSE UNCHANGED vars

(* Mutant: the job counts as done before broadcast_report has returned. *)
Returns_early(id) == at[id] = "publish"

(* The last step of broadcast_report, and so of submit_report and of       *)
(* on_device_reboot.                                                       *)
Returns(id) == at[id] = "notify"

reboot_push(id) ==
  /\ proc = "up"
  /\ stage[id] = "running"
  /\ context
  /\ B!broadcast_report(id)
  /\ about' = IF B!Idle(id) THEN [about EXCEPT ![buf'[id]] = heap[id].dev]
                            ELSE about
  /\ IF Returns(id) /\ fate' = "up" THEN on_device_reboot(id) ELSE Survives
  /\ UNCHANGED walkVars

reboot_fault(id) ==
  /\ ~context
  /\ on_device_reboot(id)
  /\ UNCHANGED <<walkVars, pushVars>>

(* on_outage_timer reads the table; the devices it found are then pushed   *)
(* one by one.                                                             *)
outage_walk ==
  /\ LoopFree
  /\ \E record \in get_uptime_record(Devices) :
       /\ outage_timer_walk(record)
       /\ todo' = IF proc' = "up" THEN Overdue(record) ELSE {}
  /\ UNCHANGED <<ran, pushVars>>

outage_push ==
  /\ proc = "up"
  /\ B!broadcast_report(Loop)
  /\ \/ /\ B!Idle(Loop)
        /\ \E d \in todo :
             /\ todo' = todo \ {d}
             /\ about' = [about EXCEPT ![buf'[Loop]] = d]
     \/ /\ ~B!Idle(Loop)
        /\ UNCHANGED <<todo, about>>
  /\ Survives
  /\ UNCHANGED ran

(* The signal, and the handler's sweep of the ring up to its exit. *)
signal ==
  /\ Kills
  /\ proc = "up"
  /\ B!shutdown_webserver
  /\ UNCHANGED <<vars, walkVars, about>>

cleanup ==
  /\ proc = "up"
  /\ B!cleanup_ringbuffer
  /\ IF fate' = "up" THEN UNCHANGED vars ELSE Die
  /\ UNCHANGED <<walkVars, about>>

-----------------------------------------------------------------------------

UpkeepNext ==
  \/ start
  \/ callback
  \/ background
  \/ \E id \in Ids : reboot_push(id) \/ reboot_fault(id)
  \/ outage_walk
  \/ outage_push
  \/ signal
  \/ cleanup

UpkeepSpec == UpkeepInit /\ [][UpkeepNext]_upkeepVars

-----------------------------------------------------------------------------

UpkeepTypeOK ==
  /\ TypeOK
  /\ B!TypeOK
  /\ ran \in BOOLEAN
  /\ todo \in SUBSET Devices
  /\ about \in [Bufs -> Devices \cup {Null}]

(* A push in progress reads an entry that is still allocated: neither the  *)
(* loop nor the handler frees it under the job that broadcasts it.         *)
PushReadsLiveEntry ==
  proc = "up" => \A id \in Ids : ~B!Idle(id) => heap[id] # Null

(* on_device_reboot returns with the report of its device in the current   *)
(* slot of the ring, as long as no two broadcasts overlap.                 *)
RebootIsCurrent ==
  [][\A d \in Devices :
       notice[d] = "owed" /\ notice'[d] = "none" /\ ~raced /\ sweep = -1 =>
         ring'[current'] # Null /\ about'[ring'[current']] = d]_upkeepVars

=============================================================================
