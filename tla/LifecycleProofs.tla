--------------------------- MODULE LifecycleProofs ---------------------------
(***************************************************************************)
(* Start and stop of the service, for any set of requested URIs and any    *)
(* number of them, with signals at every step.                             *)
(***************************************************************************)
EXTENDS Lifecycle, TLAPS

-----------------------------------------------------------------------------
(* Before a shutdown nothing has been released, *)
Intact == stop = "no" => \A o \in Objects : mem[o] # "freed"

(* an object that is not stored yet belongs to the line main() is at,      *)
InHand ==
  stop = "no" =>
    /\ mem["directory"] = "made" => pc = "cwd"
    /\ mem["context"] = "made" => pc = "context"
    /\ \A w \in whitelist : mem[w] = "made" => pc = "whitelist"
    /\ mem["service"] = "made" => pc = "start"
    /\ mem["outage"] = "made" => pc = "start_outage"

(* and the service timer runs only behind a context and a full whitelist.  *)
Started ==
  stop = "no" =>
    /\ pc = "whitelist" => mem["context"] = "set"
    /\ pc \in {"start", "arm"} \/ timer["service"] = "active" =>
         mem["context"] = "set" /\ \A w \in whitelist : mem[w] = "set"

(* At most one object is ever in hand; a shutdown allocates none. *)
Alone == \A o, p \in Objects : mem[o] = "made" /\ mem[p] = "made" => o = p

(* The first shutdown finds nothing released but what it released itself. *)
Once ==
  ~again =>
    /\ stop = "outage" => mem["outage"] # "freed"
    /\ stop \in {"outage", "service", "context"} => mem["context"] # "freed"
    /\ stop \in {"outage", "service", "context", "paths"} =>
         \A w \in whitelist : mem[w] = "freed" => clearing = w
    /\ stop \in {"outage", "service", "context", "paths", "dir"} =>
         mem["directory"] # "freed"

(* Every shutdown, also a repeated one, has released what lies behind it. *)
Released ==
  /\ stop \in {"service", "context", "paths", "dir", "dir_null", "lock", "unlock"} =>
       mem["outage"] # "set"
  /\ stop \in {"paths", "dir", "dir_null", "lock", "unlock"} =>
       mem["context"] # "set"
  /\ stop \in {"dir", "dir_null", "lock", "unlock"} =>
       \A w \in whitelist : mem[w] # "set"
  /\ stop \in {"dir_null", "lock", "unlock"} => mem["directory"] # "set"
  /\ proc = "exited" => stop = "unlock" /\ running = FALSE

Parts == Intact /\ InHand /\ Started /\ Alone /\ Once /\ Released /\ CrashHasCause

IInv == TypeOK /\ Parts

USE DEF Objects, Timers, whitelist, flagVars, stopVars

(* main() starts with nothing allocated. *)
LEMMA InitInv == Init => IInv
<1> SUFFICES ASSUME Init PROVE IInv
  OBVIOUS
<1>1. again \in BOOLEAN /\ running \in BOOLEAN /\ held \in BOOLEAN
  BY Zenon DEF Init
<1>2. TypeOK
  BY <1>1 DEF Init, TypeOK
<1>3. Parts
  BY DEF Init, Parts, Intact, InHand, Started, Alone, Once, Released, CrashHasCause
<1>4. QED
  BY <1>2, <1>3 DEF IInv

(* Steps that allocate and release nothing keep the invariant: of main(),  *)
LEMMA EnterInv ==
  ASSUME IInv, listen_for_connections \/ server_already_running
  PROVE  IInv'
BY DEF listen_for_connections, server_already_running, At, IInv, TypeOK, Parts,
       Intact, InHand, Started, Alone, Once, Released, CrashHasCause

(* the test of the running flag,                                           *)
LEMMA CheckInv ==
  ASSUME IInv, server_already_running_check
  PROVE  IInv'
<1>1. running' \in BOOLEAN
  BY Zenon DEF server_already_running_check
<1>2. TypeOK'
  BY <1>1 DEF server_already_running_check, At, IInv, TypeOK
<1>3. Parts'
  BY DEF server_already_running_check, At, IInv, TypeOK, Parts, Intact, InHand,
         Started, Alone, Once, Released, CrashHasCause
<1>4. QED
  BY <1>2, <1>3 DEF IInv

(* a request, a handler that begins to wait, or nothing.                   *)
LEMMA QuietInv ==
  ASSUME IInv,
         (\E uri \in Requests : Request(uri)) \/ shutdown_waits \/ UNCHANGED vars
  PROVE  IInv'
BY DEF Request, shutdown_waits, vars, IInv, TypeOK, Parts, Intact, InHand,
       Started, Alone, Once, Released, CrashHasCause

(* What main() allocates at a line is the only object in hand there, and   *)
(* the line is left when it is stored.                                     *)
LEMMA StartInv ==
  ASSUME IInv, set_directory_of_executing_assembly \/ build_context
  PROVE  IInv'
<1>1. TypeOK'
  BY DEF set_directory_of_executing_assembly, build_context, At, Make, Store,
         IInv, TypeOK
<1>2. Alone'
  BY DEF set_directory_of_executing_assembly, build_context, At, Make, Store,
         IInv, TypeOK, Parts, InHand, Alone
<1>3. Intact' /\ InHand' /\ Started' /\ Once' /\ Released' /\ CrashHasCause'
  BY DEF set_directory_of_executing_assembly, build_context, At, Make, Store,
         IInv, TypeOK, Parts, Intact, InHand, Started, Once, Released,
         CrashHasCause
<1>4. QED
  BY <1>1, <1>2, <1>3 DEF IInv, Parts

(* populate_whitelist goes on to the timer when every path is set. *)
LEMMA PopulateInv ==
  ASSUME IInv, NEW w \in whitelist, populate_whitelist(w)
  PROVE  IInv'
<1>1. TypeOK'
  BY DEF populate_whitelist, At, Make, Store, IInv, TypeOK
<1>2. Alone'
  BY DEF populate_whitelist, At, Make, Store, IInv, TypeOK, Parts, InHand, Alone
<1>3. Intact' /\ InHand' /\ Started' /\ Once' /\ Released' /\ CrashHasCause'
  BY DEF populate_whitelist, At, Make, Store, IInv, TypeOK, Parts, Intact,
         InHand, Started, Once, Released, CrashHasCause
<1>4. QED
  BY <1>1, <1>2, <1>3 DEF IInv, Parts

(* A timer is started by main() or by a callback, with no shutdown begun. *)
LEMMA TimerInv ==
  ASSUME IInv,
         start_lws_service_timer \/ start_lws_service_timer_arm
           \/ start_outage_timer \/ start_outage_timer_arm
  PROVE  IInv'
<1> USE DEF start_lws_service_timer, start_lws_service_timer_arm, At, Make,
            Store, start_outage_timer, start_outage_timer_arm, Malloc, Arm,
            IInv, TypeOK
<1>1. TypeOK'
  OBVIOUS
<1>2. Alone'
  BY DEF Parts, InHand, Alone
<1>3. Intact' /\ InHand' /\ Started' /\ Once' /\ Released'
  BY DEF Parts, Intact, InHand, Started, Once, Released
<1>4. CrashHasCause'
  BY DEF Parts, CrashHasCause
<1>5. QED
  BY <1>1, <1>2, <1>3, <1>4 DEF Parts

(* lws_service runs with a live context, and finds the path of a listed    *)
(* URI: when it faults, an unlisted one is pending.                        *)
LEMMA ServeInv ==
  ASSUME IInv, on_lws_service_timer
  PROVE  IInv'
<1>1. mem["context"] = "set" /\ \A w \in whitelist : mem[w] = "set"
  BY DEF on_lws_service_timer, At, IInv, Parts, Started
<1>2. \A uri \in pending : serve_file(uri) = "segv" => Target(uri) \notin whitelist
  BY <1>1 DEF serve_file, IInv, TypeOK
<1>3. \/ proc' = proc
      \/ /\ proc' = "segv" /\ pending' = pending
         /\ \E uri \in pending : Target(uri) \notin whitelist
  BY <1>1, <1>2 DEF on_lws_service_timer
<1>4. QED
  BY <1>3 DEF on_lws_service_timer, At, IInv, TypeOK, Parts, Intact, InHand,
              Started, Alone, Once, Released, CrashHasCause

(* A signal finds everything intact, unless it is the second one. *)
LEMMA SignalInv ==
  ASSUME IInv, shutdown_upkeep
  PROVE  IInv'
<1>1. again' \in BOOLEAN /\ held' \in BOOLEAN
  <2>1. again' = (stop # "no") /\ \E inside \in BOOLEAN : held' = (held \/ inside)
    BY DEF shutdown_upkeep
  <2>2. QED
    BY <2>1, Zenon
<1>2. TypeOK'
  BY <1>1 DEF shutdown_upkeep, IInv, TypeOK
<1>3. /\ stop' = "outage" /\ (~again' => stop = "no") /\ proc = "up" /\ proc' = proc
      /\ mem' = mem
  BY DEF shutdown_upkeep
<1>4. Parts'
  BY <1>3 DEF IInv, TypeOK, Parts, Intact, InHand, Started, Alone, Once,
              Released, CrashHasCause
<1>5. QED
  BY <1>2, <1>4 DEF IInv

(* Stopping the timers crashes only on one that was never initialised, or  *)
(* the second time.                                                        *)
LEMMA StopTimersInv ==
  ASSUME IInv, stop_outage_timer \/ stop_service_timer
  PROVE  IInv'
<1>1. TypeOK'
  BY DEF stop_outage_timer, stop_service_timer, StopTimer, Free, Stored,
         Stopping, IInv, TypeOK
<1>2. Intact' /\ InHand' /\ Started' /\ Alone' /\ Once' /\ Released'
  BY DEF stop_outage_timer, stop_service_timer, StopTimer, Free, Stored,
         Stopping, IInv, TypeOK, Parts, Intact, InHand, Started, Alone, Once,
         Released
<1>3. CrashHasCause'
  BY DEF stop_outage_timer, stop_service_timer, StopTimer, Free, Stored,
         Stopping, IInv, TypeOK, Parts, Once, CrashHasCause
<1>4. QED
  BY <1>1, <1>2, <1>3 DEF IInv, Parts

(* The steps of shutdown_webserver from the context to the directory free  *)
(* what the first shutdown finds set.                                      *)
LEMMA CleanupInv ==
  ASSUME IInv,
         \/ destroy_context
         \/ \E w \in whitelist : cleanup_whitelist_free(w)
         \/ cleanup_whitelist_clear
         \/ cleanup_whitelist_end
         \/ free_directory
         \/ clear_directory
  PROVE  IInv'
<1> USE DEF Stopping, Free, Stored, IInv, TypeOK, Parts, Intact, InHand,
            Started, Alone, Once, Released, CrashHasCause
<1>0. Null \notin whitelist
  BY LifecycleAssumption
<1>1. CASE destroy_context
  BY <1>1 DEF destroy_context
<1>2. ASSUME NEW w \in whitelist, cleanup_whitelist_free(w) PROVE IInv'
  BY <1>0, <1>2 DEF cleanup_whitelist_free
<1>3. CASE cleanup_whitelist_clear
  BY <1>0, <1>3 DEF cleanup_whitelist_clear
<1>4. CASE cleanup_whitelist_end
  BY <1>4 DEF cleanup_whitelist_end
<1>5. CASE free_directory
  BY <1>5 DEF free_directory
<1>6. CASE clear_directory
  BY <1>6 DEF clear_directory
<1>7. QED
  BY <1>1, <1>2, <1>3, <1>4, <1>5, <1>6

(* The end of shutdown_webserver and of the process. *)
LEMMA EndInv ==
  ASSUME IInv, shutdown_lock \/ shutdown_unlock
  PROVE  IInv'
<1>1. running' \in BOOLEAN /\ (shutdown_unlock => running' = FALSE)
  <2>1. running \in BOOLEAN
    BY DEF IInv, TypeOK
  <2>2. QED
    BY <2>1, Zenon DEF shutdown_lock, shutdown_unlock
<1>2. TypeOK'
  BY <1>1 DEF shutdown_lock, shutdown_unlock, Stopping, IInv, TypeOK
<1>3. Parts'
  BY <1>1 DEF shutdown_lock, shutdown_unlock, Stopping, IInv, TypeOK, Parts,
              Intact, InHand, Started, Alone, Once, Released, CrashHasCause
<1>4. QED
  BY <1>2, <1>3 DEF IInv

(* Every step keeps the invariant. *)
LEMMA NextInv == IInv /\ [Next]_vars => IInv'
<1> SUFFICES ASSUME IInv, [Next]_vars PROVE IInv'
  OBVIOUS
<1>1. CASE init_webserver
  BY <1>1, EnterInv, CheckInv, StartInv, PopulateInv, TimerInv DEF init_webserver
<1>2. CASE shutdown_webserver
  BY <1>2, StopTimersInv, CleanupInv, EndInv DEF shutdown_webserver
<1>3. QED
  BY <1>1, <1>2, EnterInv, TimerInv, ServeInv, SignalInv, StopTimersInv,
     QuietInv DEF Next

-----------------------------------------------------------------------------
(* The invariant holds, whatever is asked for. *)
THEOREM Invariance == Spec => []IInv
<1>1. IInv /\ [Next]_vars => IInv'
  BY NextInv
<1>2. QED
  BY <1>1, InitInv, PTL DEF Spec

(* Every variable of init_webserver and shutdown_webserver keeps its type. *)
THEOREM TypeCorrect == Spec => []TypeOK
<1>1. IInv => TypeOK
  BY DEF IInv
<1>2. QED
  BY <1>1, Invariance, PTL

(* A shutdown_upkeep that reaches exit has released everything but the     *)
(* handle of the service timer and at most one object that the interrupted *)
(* line had allocated and not stored, wherever the signal came and however *)
(* often it was repeated.                                                  *)
THEOREM Releases == Spec => []ExitReleasesAll
<1>1. IInv => ExitReleasesAll
  BY DEF IInv, Parts, Released, Alone, ExitReleasesAll
<1>2. QED
  BY <1>1, Invariance, PTL

(* Without a second signal, a timer that reads as active before            *)
(* uv_timer_init or a request for an unlisted URI, neither serving files   *)
(* nor shutdown_upkeep crashes.                                            *)
THEOREM NoCrash == Spec => []CrashHasCause
<1>1. IInv => CrashHasCause
  BY DEF IInv, Parts
<1>2. QED
  BY <1>1, Invariance, PTL

=============================================================================
