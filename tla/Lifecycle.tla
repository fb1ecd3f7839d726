------------------------------ MODULE Lifecycle ------------------------------
(***************************************************************************)
(* Start and stop of the service: main() of src/src/main.c from the moment *)
(* its signal handler is installed, init_webserver and shutdown_webserver  *)
(* of src/src/web_interface.c, the two timers and the HTTP requests that   *)
(* the service timer answers.                                              *)
(*                                                                         *)
(* shutdown_upkeep runs on the stack of what it interrupts and never       *)
(* returns.  The signal being handled is blocked, the other two are not: a *)
(* second one starts shutdown_upkeep again on top of the first.  An object *)
(* is allocated in one step and its pointer stored in the next: a signal   *)
(* between the two finds the pointer still NULL.                           *)
(***************************************************************************)
EXTENDS Naturals

CONSTANTS
  Requests,      \* the URIs that clients ask for
  UninitActive,  \* what uv_is_active may read in memory fresh from malloc
  Null

Timers == {"outage", "service"}

(* The URIs of the whitelist. *)
whitelist == {"/index.html", "/icon.png"}

(* What is allocated: the handles of the two timers, the directory, the    *)
(* context, and the resource_path of each entry of the whitelist.          *)
Objects == {"directory", "context"} \cup Timers \cup whitelist

ASSUME LifecycleAssumption ==
  /\ UninitActive \subseteq BOOLEAN
  /\ Null \notin whitelist

VARIABLES
  proc,      \* "up", "exited", "aborted" (by libuv), "segv" or "double_free"
  pc,        \* where main() is; "loop" is uv_run between two callbacks
  stop,      \* where the topmost shutdown_upkeep is, "no" before it; it may
             \* be "waiting" for a lock of a frame below it
  again,     \* shutdown_upkeep has been entered a second time
  held,      \* a frame below shutdown_upkeep was interrupted inside malloc,
             \* free or the log, where it held a lock of libc or of zlog
  mem,       \* per object: "null", "made" (allocated, the pointer to it not
             \* yet stored), "set" (stored) or "freed" (and still stored)
  timer,     \* per timer, what its handle holds: "stale" or "blank" (never
             \* initialised, and reads as active or not), "active", "stopped"
  running,   \* the flag
  lock,      \* who holds running_lock: "none", "main" or "handler"
  clearing,  \* the entry cleanup_whitelist has freed and not yet cleared
  pending    \* requests that were sent and not yet answered

flagVars == <<running, lock>>
stopVars == <<stop, again, held, clearing>>
vars == <<proc, pc, mem, flagVars, stopVars, timer, pending>>

-----------------------------------------------------------------------------

Init ==
  /\ proc = "up"
  /\ pc = "listen"
  /\ stop = "no"
  /\ again = FALSE
  /\ held = FALSE
  /\ mem = [o \in Objects |-> "null"]
  /\ timer = [t \in Timers |-> "blank"]
  /\ running = FALSE
  /\ lock = "none"
  /\ clearing = Null
  /\ pending = {}

(* main() and the callbacks run as long as no shutdown_upkeep is on top. *)
At(label) == proc = "up" /\ stop = "no" /\ pc = label

(* An object is allocated; its pointer is stored. *)
Make(o) == mem[o] = "null" /\ mem' = [mem EXCEPT ![o] = "made"]
Store(o) == mem[o] = "made" /\ mem' = [mem EXCEPT ![o] = "set"]

(* listen_for_connections: when it cannot listen it calls shutdown_upkeep, *)
(* from main() and not from a signal.                                      *)
listen_for_connections ==
  /\ At("listen")
  /\ \/ pc' = "enter" /\ UNCHANGED stop
     \/ stop' = "outage" /\ UNCHANGED pc
  /\ UNCHANGED <<proc, mem, flagVars, again, held, clearing, timer, pending>>

(* server_already_running: test and set under running_lock. *)
server_already_running ==
  /\ At("enter")
  /\ lock' = "main"
  /\ pc' = "check"
  /\ UNCHANGED <<proc, running, mem, stopVars, timer, pending>>

server_already_running_check ==
  /\ At("check")
  /\ running' = TRUE
  /\ lock' = "none"
  /\ pc' = IF running THEN "loop" ELSE "cwd"
  /\ UNCHANGED <<proc, mem, stopVars, timer, pending>>

(* getcwd allocates the directory, and its result is stored.  A failure    *)
(* here or in build_context leaves the service without a web server, and   *)
(* running set.                                                            *)
set_directory_of_executing_assembly ==
  /\ At("cwd")
  /\ \/ Make("directory") /\ UNCHANGED pc
     \/ Store("directory") /\ pc' = "context"
     \/ mem["directory"] = "null" /\ pc' = "loop" /\ UNCHANGED mem
  /\ UNCHANGED <<proc, flagVars, stopVars, timer, pending>>

(* Mutant: the failure path frees the directory and keeps the pointer. *)
build_context_cleanup ==
  /\ At("context")
  /\ \/ Make("context") /\ UNCHANGED pc
     \/ Store("context") /\ pc' = "whitelist"
     \/ /\ mem["context"] = "null" /\ pc' = "loop"
        /\ mem' = [mem EXCEPT !["directory"] = "freed"]
  /\ UNCHANGED <<proc, flagVars, stopVars, timer, pending>>

(* context = build_context(interface): lws_create_context returns a        *)
(* context that listens already, and init_webserver stores it.             *)
build_context ==
  /\ At("context")
  /\ \/ Make("context") /\ UNCHANGED pc
     \/ Store("context") /\ pc' = "whitelist"
     \/ mem["context"] = "null" /\ pc' = "loop" /\ UNCHANGED mem
  /\ UNCHANGED <<proc, flagVars, stopVars, timer, pending>>

(* Mutant: the loop writes one entry past the end of the array. *)
populate_whitelist_past(w) ==
  /\ At("whitelist")
  /\ mem' = [o \in Objects \cup {"past"} |-> "set"]
  /\ pc' = "start"
  /\ UNCHANGED <<proc, flagVars, stopVars, timer, pending>>

(* One entry after the other, each allocated, written and stored. *)
populate_whitelist(w) ==
  /\ At("whitelist")
  /\ \/ /\ \A o \in whitelist : mem[o] # "made"
        /\ Make(w)
        /\ UNCHANGED pc
     \/ /\ Store(w)
        /\ pc' = IF \A o \in whitelist \ {w} : mem[o] = "set" THEN "start" ELSE pc
  /\ UNCHANGED <<proc, flagVars, stopVars, timer, pending>>

(* The first half of start_lws_service_timer and of start_outage_timer:    *)
(* the handle is allocated and stored, and holds what malloc left in it.   *)
Malloc(t) ==
  \/ Make(t) /\ UNCHANGED timer
  \/ /\ Store(t)
     /\ \E active \in UninitActive :
          timer' = [timer EXCEPT ![t] = IF active THEN "stale" ELSE "blank"]

(* The second half: a handle that is not active is initialised and started. *)
Arm(t) ==
  timer' = [timer EXCEPT ![t] = IF @ = "blank" THEN "active" ELSE @]

start_lws_service_timer ==
  /\ At("start")
  /\ Malloc("service")
  /\ pc' = IF mem["service"] = "made" THEN "arm" ELSE pc
  /\ UNCHANGED <<proc, flagVars, stopVars, pending>>

(* Mutant: the timer is initialised and not started. *)
start_lws_service_timer_arm_idle ==
  /\ At("arm")
  /\ pc' = "loop"
  /\ UNCHANGED <<proc, mem, flagVars, stopVars, timer, pending>>

start_lws_service_timer_arm ==
  /\ At("arm")
  /\ Arm("service")
  /\ pc' = "loop"
  /\ UNCHANGED <<proc, mem, flagVars, stopVars, pending>>

(* The first connection on the loop starts the outage timer. *)
start_outage_timer ==
  /\ At("loop") \/ At("start_outage")
  /\ Malloc("outage")
  /\ pc' = IF mem["outage"] = "made" THEN "arm_outage" ELSE "start_outage"
  /\ UNCHANGED <<proc, flagVars, stopVars, pending>>

start_outage_timer_arm ==
  /\ At("arm_outage")
  /\ Arm("outage")
  /\ pc' = "loop"
  /\ UNCHANGED <<proc, mem, flagVars, stopVars, pending>>

-----------------------------------------------------------------------------
(* A client sends a request: the port listens once the context is there.   *)
Request(uri) ==
  /\ proc = "up"
  /\ mem["context"] \in {"made", "set"}
  /\ pending' = pending \cup {uri}
  /\ UNCHANGED <<proc, pc, mem, flagVars, stopVars, timer>>

(* callback_http serves the index for "/". *)
Target(uri) == IF uri = "/" THEN "/index.html" ELSE uri

(* serve_file: search_whitelist finds no entry for a URI that is not       *)
(* there, and the message that should say so reads through the NULL.       *)
serve_file(uri) == IF Target(uri) \in whitelist /\ mem[Target(uri)] = "set"
                   THEN "served" ELSE "segv"

(* on_lws_service_timer: lws_service answers what is pending. *)
on_lws_service_timer ==
  /\ At("loop")
  /\ timer["service"] = "active"
  /\ pending # {}
  /\ \/ /\ mem["context"] = "set"
        /\ \A uri \in pending : serve_file(uri) = "served"
        /\ pending' = {}
        /\ UNCHANGED proc
     \/ /\ \/ mem["context"] # "set"
           \/ \E uri \in pending : serve_file(uri) = "segv"
        /\ proc' = "segv"
        /\ UNCHANGED pending
  /\ UNCHANGED <<pc, mem, flagVars, stopVars, timer>>

-----------------------------------------------------------------------------
(* A signal, whatever is under way; also a second one.  The frame that it  *)
(* interrupts may be inside malloc, free or the log.                       *)
shutdown_upkeep ==
  /\ proc = "up"
  /\ ~again
  /\ again' = (stop # "no")
  /\ \E inside \in BOOLEAN : held' = (held \/ inside)
  /\ stop' = "outage"
  /\ clearing' = Null
  /\ UNCHANGED <<proc, pc, mem, flagVars, timer, pending>>

Stopping(label) == proc = "up" /\ stop = label

(* The handler logs, frees and closes the log, all of which take the locks *)
(* that such a frame holds and cannot release before the handler returns.  *)
shutdown_waits ==
  /\ proc = "up"
  /\ stop \notin {"no", "waiting"}
  /\ held
  /\ stop' = "waiting"
  /\ UNCHANGED <<proc, pc, mem, flagVars, again, held, clearing, timer, pending>>

(* The pointer is not NULL. *)
Stored(o) == mem[o] \in {"set", "freed"}

(* free(): nothing for NULL; a pointer that was freed and kept ends the    *)
(* process.                                                                *)
Free(o) ==
  /\ proc' = IF mem[o] = "freed" THEN "double_free" ELSE proc
  /\ mem' = IF Stored(o) THEN [mem EXCEPT ![o] = "freed"] ELSE mem

(* uv_timer_stop on a handle that only reads as active may do anything. *)
StopTimer(t) ==
  /\ Stored(t)
  /\ timer[t] = "stale"
  /\ proc' = "segv"
  /\ UNCHANGED <<mem, timer, stop>>

(* The outage timer is stopped if active, and freed; its pointer is kept. *)
stop_outage_timer ==
  /\ Stopping("outage")
  /\ \/ StopTimer("outage")
     \/ /\ Free("outage")
        /\ timer' = [timer EXCEPT !["outage"] = IF @ = "active" THEN "stopped" ELSE @]
        /\ stop' = "service"
  /\ UNCHANGED <<pc, flagVars, again, held, clearing, pending>>

(* shutdown_webserver begins with the service timer, whose handle it does  *)
(* not free.  (Its call of cleanup_ringbuffer is in Broadcast.)            *)
stop_service_timer ==
  /\ Stopping("service")
  /\ \/ StopTimer("service")
     \/ /\ timer' = [timer EXCEPT !["service"] = IF @ = "active" THEN "stopped" ELSE @]
        /\ stop' = "context"
        /\ UNCHANGED <<proc, mem>>
  /\ UNCHANGED <<pc, flagVars, again, held, clearing, pending>>

(* lws_context_destroy; the pointer is kept, and a second call reads freed *)
(* memory, which the process may survive.                                  *)
destroy_context ==
  /\ Stopping("context")
  /\ proc' \in IF mem["context"] = "freed" THEN {proc, "double_free"} ELSE {proc}
  /\ mem' = IF Stored("context") THEN [mem EXCEPT !["context"] = "freed"] ELSE mem
  /\ stop' = "paths"
  /\ UNCHANGED <<pc, flagVars, again, held, clearing, timer, pending>>

(* cleanup_whitelist: free the path of an entry, then clear it. *)
cleanup_whitelist_free(w) ==
  /\ Stopping("paths")
  /\ clearing = Null
  /\ Stored(w)
  /\ Free(w)
  /\ clearing' = w
  /\ UNCHANGED <<pc, flagVars, stop, again, held, timer, pending>>

cleanup_whitelist_clear ==
  /\ Stopping("paths")
  /\ clearing # Null
  /\ mem' = [mem EXCEPT ![clearing] = "null"]
  /\ clearing' = Null
  /\ UNCHANGED <<proc, pc, flagVars, stop, again, held, timer, pending>>

(* Mutant: the loop ends one entry early. *)
cleanup_whitelist_end_early ==
  /\ Stopping("paths")
  /\ clearing = Null
  /\ ~Stored("/icon.png")
  /\ stop' = "dir"
  /\ UNCHANGED <<proc, pc, mem, flagVars, again, held, clearing, timer, pending>>

cleanup_whitelist_end ==
  /\ Stopping("paths")
  /\ clearing = Null
  /\ \A w \in whitelist : ~Stored(w)
  /\ stop' = "dir"
  /\ UNCHANGED <<proc, pc, mem, flagVars, again, held, clearing, timer, pending>>

(* free(directory_of_executing_assembly), then NULL. *)
free_directory ==
  /\ Stopping("dir")
  /\ Free("directory")
  /\ stop' = "dir_null"
  /\ UNCHANGED <<pc, flagVars, again, held, clearing, timer, pending>>

clear_directory ==
  /\ Stopping("dir_null")
  /\ mem' = [mem EXCEPT !["directory"] = IF Stored("directory") THEN "null" ELSE @]
  /\ stop' = "lock"
  /\ UNCHANGED <<proc, pc, flagVars, again, held, clearing, timer, pending>>

(* Mutant: a lock that waits for its holder, which is the frame below. *)
shutdown_lock_wait ==
  /\ Stopping("lock")
  /\ lock = "none"
  /\ lock' = "handler"
  /\ stop' = "unlock"
  /\ UNCHANGED <<proc, pc, mem, running, again, held, clearing, timer, pending>>

(* uv_rwlock_wrlock(&running_lock): libuv aborts on the EDEADLK it gets    *)
(* when the frame below holds the lock.                                    *)
shutdown_lock ==
  /\ Stopping("lock")
  /\ \/ lock = "none" /\ lock' = "handler" /\ stop' = "unlock" /\ UNCHANGED proc
     \/ lock # "none" /\ proc' = "aborted" /\ UNCHANGED <<lock, stop>>
  /\ UNCHANGED <<pc, mem, running, again, held, clearing, timer, pending>>

(* running = false, the unlock, and exit(0) once the log is written. *)
shutdown_unlock ==
  /\ Stopping("unlock")
  /\ running' = FALSE
  /\ lock' = "none"
  /\ proc' = "exited"
  /\ UNCHANGED <<pc, mem, stopVars, timer, pending>>

-----------------------------------------------------------------------------

init_webserver ==
  \/ server_already_running
  \/ server_already_running_check
  \/ set_directory_of_executing_assembly
  \/ build_context
  \/ \E w \in whitelist : populate_whitelist(w)
  \/ start_lws_service_timer
  \/ start_lws_service_timer_arm

shutdown_webserver ==
  \/ stop_service_timer
  \/ destroy_context
  \/ \E w \in whitelist : cleanup_whitelist_free(w)
  \/ cleanup_whitelist_clear
  \/ cleanup_whitelist_end
  \/ free_directory
  \/ clear_directory
  \/ shutdown_lock
  \/ shutdown_unlock

Next ==
  \/ listen_for_connections
  \/ init_webserver
  \/ start_outage_timer
  \/ start_outage_timer_arm
  \/ \E uri \in Requests : Request(uri)
  \/ on_lws_service_timer
  \/ shutdown_upkeep
  \/ shutdown_waits
  \/ stop_outage_timer
  \/ shutdown_webserver

Spec == Init /\ [][Next]_vars

(* main() and a callback that has begun go on, the loop runs its due       *)
(* timer, and a handler that waits for no lock runs on.                    *)
Fairness ==
  /\ WF_vars(\/ listen_for_connections
             \/ init_webserver
             \/ pc # "loop" /\ start_outage_timer
             \/ start_outage_timer_arm)
  /\ WF_vars(on_lws_service_timer)
  /\ WF_vars(stop_outage_timer \/ shutdown_webserver)

FairSpec == Spec /\ Fairness

-----------------------------------------------------------------------------

TypeOK ==
  /\ proc \in {"up", "exited", "aborted", "segv", "double_free"}
  /\ pc \in {"listen", "enter", "check", "cwd", "context", "whitelist", "start",
             "arm", "loop", "start_outage", "arm_outage"}
  /\ stop \in {"no", "outage", "service", "context", "paths", "dir", "dir_null",
               "lock", "unlock", "waiting"}
  /\ again \in BOOLEAN
  /\ held \in BOOLEAN
  /\ mem \in [Objects -> {"null", "made", "set", "freed"}]
  /\ timer \in [Timers -> {"stale", "blank", "active", "stopped"}]
  /\ running \in BOOLEAN
  /\ lock \in {"none", "main", "handler"}
  /\ clearing \in whitelist \cup {Null}
  /\ pending \in SUBSET Requests

(* Whichever line of init_webserver or of a callback the signal comes at,  *)
(* a shutdown that reaches its end has released the outage timer, the      *)
(* context, the paths and the directory and has reset the running flag,    *)
(* but for one object: the one that the interrupted line had allocated and *)
(* not yet stored.  (The handle of the service timer is never freed, and   *)
(* of a repeated shutdown this does not say that it releases only once.)   *)
ExitReleasesAll ==
  proc = "exited" =>
    /\ \A o \in Objects \ {"service"} : mem[o] # "set"
    /\ \A o, p \in Objects : mem[o] = "made" /\ mem[p] = "made" => o = p
    /\ ~running

(* A half-done start is torn down without a fault, and a listed request is *)
(* served from a live context and a path that is set: the process only     *)
(* crashes when a second signal repeats shutdown_upkeep, when a timer that *)
(* was never initialised read as active, or when serve_file is asked for   *)
(* a URI that is not on the whitelist.                                     *)
CrashHasCause ==
  proc \in {"segv", "double_free"} =>
    \/ again
    \/ \E t \in Timers : timer[t] = "stale"
    \/ \E uri \in pending : Target(uri) \notin whitelist

(* README.md:5, "It also serves up a web interface": a request is          *)
(* answered, unless the service is told to stop, or the handle of the      *)
(* service timer read as active before start_lws_service_timer could       *)
(* initialise it.                                                          *)
RequestsAreAnswered ==
  pending # {} ~> \/ pending = {}
                  \/ stop # "no" \/ proc # "up"
                  \/ timer["service"] = "stale"

(* A shutdown ends, also when it interrupts a frame that holds             *)
(* running_lock: it exits or is aborted.  It may wait for ever only when   *)
(* the frame that it interrupted was inside malloc, free or the log and    *)
(* held one of their locks.                                                *)
ShutdownEnds == stop # "no" ~> proc # "up" \/ held

=============================================================================
