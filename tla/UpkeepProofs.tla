---------------------------- MODULE UpkeepProofs ----------------------------
(***************************************************************************)
(* The service with its ring implements Monitor, and seen at the ring it   *)
(* implements Broadcast, for every value of the constants: what            *)
(* MonitorProofs and BroadcastProofs prove holds of the whole, and what    *)
(* the composition promises beyond that is proved from the two.            *)
(***************************************************************************)
EXTENDS Upkeep, MonitorProofs

(* Every step of the service with its ring is a step of Monitor or none:   *)
(* the ring's crashes and the handler's exit are ends of the process that  *)
(* Monitor allows at any time.                                             *)
LEMMA StepRefines ==
  ASSUME Kills, UpkeepNext
  PROVE  [Next]_vars
<1>1. ASSUME Die, proc = "up" PROVE Next
  BY <1>1 DEF shutdown_upkeep, Next
<1>2. CASE start
  BY <1>2 DEF start, Next
<1>3. CASE callback
  BY <1>3 DEF callback, Next
<1>4. CASE background
  BY <1>4 DEF background, Next
<1>5. ASSUME NEW id \in Ids, reboot_push(id) PROVE [Next]_vars
  BY <1>1, <1>5 DEF reboot_push, Survives, Next
<1>6. ASSUME NEW id \in Ids, reboot_fault(id) PROVE [Next]_vars
  BY <1>6 DEF reboot_fault, Next
<1>7. CASE outage_walk
  BY <1>7 DEF outage_walk, on_outage_timer, Next
<1>8. CASE outage_push
  BY <1>1, <1>8 DEF outage_push, Survives
<1>9. CASE signal
  BY <1>9 DEF signal
<1>10. CASE cleanup
  BY <1>1, <1>10 DEF cleanup
<1> QED
  BY <1>2, <1>3, <1>4, <1>5, <1>6, <1>7, <1>8, <1>9, <1>10 DEF UpkeepNext

(* The service, with broadcast_report (web_interface.c:274-289) and the    *)
(* sweep of the signal handler step by step, implements Monitor: no        *)
(* interleaving of pushes, callbacks and shutdown lets main.c do what      *)
(* Monitor does not.                                                       *)
THEOREM UpkeepIsMonitor ==
  ASSUME Kills
  PROVE  UpkeepSpec => Spec
<1>1. UpkeepInit => Init
  BY DEF UpkeepInit
<1>2. [UpkeepNext]_upkeepVars => [Next]_vars
  <2>1. UNCHANGED upkeepVars => UNCHANGED vars
    BY DEF upkeepVars
  <2> QED
    BY <2>1, StepRefines
<1> QED
  BY <1>1, <1>2, PTL DEF UpkeepSpec, Spec

(* The same service, seen at the ring, implements Broadcast: what is       *)
(* proved of the ring (web_interface.c:274-289, 236-245) for threads that  *)
(* may call it at any time holds of it in the service.                     *)
THEOREM UpkeepRingIsBroadcast == UpkeepSpec => B!Spec
<1>1. UpkeepInit => B!Init
  BY DEF UpkeepInit
<1>2. [UpkeepNext]_upkeepVars => [B!Next]_(B!vars)
  <2>1. UNCHANGED pushVars => UNCHANGED B!vars
    BY DEF pushVars, B!vars, B!ringVars, B!threadVars, B!sweepVars,
       B!historyVars
  <2>2. UNCHANGED upkeepVars => UNCHANGED pushVars
    BY DEF upkeepVars
  <2> QED
    BY <2>1, <2>2
    DEF UpkeepNext, start, callback, background, reboot_push, reboot_fault,
        outage_walk, outage_push, signal, cleanup, B!Next
<1> QED
  BY <1>1, <1>2, PTL DEF UpkeepSpec, B!Spec

-----------------------------------------------------------------------------
(* What the composition adds to Monitor's invariant: a push from the pool  *)
(* is that of a running job, and before main() nothing runs.               *)
Lines == {"idle", "index", "test", "free", "store", "publish", "notify"}

PushShape ==
  /\ at \in [Ids \cup {Loop} -> Lines]
  /\ buf \in [Ids \cup {Loop} -> Bufs \cup {Null}]
  /\ about \in [Bufs -> Devices \cup {Null}]
  /\ B!HeldBy(Loop) => buf[Loop] \in Bufs
  /\ ran \in BOOLEAN
  /\ todo \in SUBSET Devices
  /\ proc = "up" => ran
  /\ ~ran => /\ todo = {}
             /\ \A t \in Ids \cup {Loop} : at[t] = "idle"
  /\ proc = "up" => \A id \in Ids : at[id] # "idle" => stage[id] = "running"

(* Before main() there is nothing to push. *)
LEMMA PushShapeInit == UpkeepInit => PushShape
  BY DEF UpkeepInit, Init, PushShape, Lines, B!Init, B!HeldBy

(* The effect of a step of broadcast_report on the thread that runs it and *)
(* on the others.                                                          *)
LEMMA ReportStep ==
  ASSUME PushShape, NEW t \in Ids \cup {Loop}, B!broadcast_report(t)
  PROVE  /\ at' \in [Ids \cup {Loop} -> Lines]
         /\ buf' \in [Ids \cup {Loop} -> Bufs \cup {Null}]
         /\ \A o \in Ids \cup {Loop} :
              o # t => at'[o] = at[o] /\ buf'[o] = buf[o]
         /\ at[t] = "idle" =>
              /\ at'[t] = "index"
              /\ buf'[t] \in Bufs
              /\ ~raced' => ~raced /\ \A o \in Ids \cup {Loop} : at[o] = "idle"
         /\ at[t] # "idle" =>
              /\ raced' = raced
              /\ at[t] = "notify" => at'[t] = "idle"
              /\ at[t] # "notify" => at'[t] # "idle" /\ buf'[t] = buf[t]
              /\ at[t] = "publish" => at'[t] = "notify"
<1>1. CASE B!generate_lws_padded_msg(t)
  BY <1>1 DEF PushShape, Lines, B!generate_lws_padded_msg, B!Idle
<1>2. CASE B!broadcast_index(t)
  BY <1>2 DEF PushShape, Lines, B!broadcast_index, B!HeldBy
<1>3. CASE B!broadcast_test(t)
  BY <1>3 DEF PushShape, Lines, B!broadcast_test, B!historyVars, B!HeldBy
<1>4. CASE B!broadcast_free(t)
  BY <1>4 DEF PushShape, Lines, B!broadcast_free, B!historyVars, B!HeldBy
<1>5. CASE B!broadcast_store(t)
  BY <1>5 DEF PushShape, Lines, B!broadcast_store, B!historyVars, B!HeldBy
<1>6. CASE B!broadcast_publish(t)
  BY <1>6 DEF PushShape, Lines, B!broadcast_publish, B!historyVars, B!HeldBy
<1>7. CASE B!broadcast_notify(t)
  BY <1>7 DEF PushShape, Lines, B!broadcast_notify, B!HeldBy
<1> QED
  BY <1>1, <1>2, <1>3, <1>4, <1>5, <1>6, <1>7 DEF B!broadcast_report

(* A step that leaves the ring's side alone and does not start the         *)
(* service needs only keep jobs running.                                   *)
LEMMA QuietPushShape ==
  ASSUME PushShape, UNCHANGED <<walkVars, pushVars>>,
         proc' = "up" => /\ proc = "up"
                         /\ \A id \in Ids :
                              stage[id] = "running" /\ at[id] # "idle" =>
                                stage'[id] = "running"
  PROVE  PushShape'
BY DEF PushShape, walkVars, pushVars, B!HeldBy

(* Every step of the service with its ring keeps PushShape, given the      *)
(* invariant of Monitor.                                                   *)
LEMMA PushShapeStep ==
  ASSUME IInv, PushShape, [UpkeepNext]_upkeepVars
  PROVE  PushShape'
<1>1. stage \in [Ids -> {"none", "queued", "running", "done"}]
  BY DEF IInv, TypeOK
<1>2. ASSUME Die, UNCHANGED <<walkVars, pushVars>> PROVE PushShape'
  BY <1>2, QuietPushShape DEF Die
<1>3. CASE start
  BY <1>3 DEF start, main, PushShape, pushVars, poolVars, B!HeldBy
<1>4. CASE callback
  <2>1. ASSUME NEW d \in Devices, NEW u \in UInt32, on_read_unit_complete(d, u)
        PROVE  proc = "up" /\ UNCHANGED stage
    BY <2>1 DEF on_read_unit_complete, LoopIdle, poolVars
  <2>2. CASE Handler
    <3>1. CASE register_lookup
      BY <1>4, <3>1, <1>2, QuietPushShape
      DEF callback, register_lookup, procVars, poolVars
    <3>2. CASE store_uptime_report_in_db
      BY <1>4, <3>2, <1>2, QuietPushShape
      DEF callback, store_uptime_report_in_db, procVars
    <3>3. CASE register_decide
      <4>1. ASSUME entry # Null, proc' = proc,
                   \/ stage' = stage
                   \/ stage' = [stage EXCEPT ![entry] = "queued"]
            PROVE  PushShape'
        <5>1. stage[entry] = "none"
          BY <4>1 DEF IInv, EntryOwnership
        <5> QED
          BY <1>1, <1>4, <4>1, <5>1, QuietPushShape DEF callback
      <4> QED
        BY <1>4, <3>3, <4>1, <1>2
        DEF callback, register_decide, procVars, historyVars
    <3> QED
      BY <2>2, <3>1, <3>2, <3>3 DEF Handler
  <2>3. ASSUME NEW id \in Ids, on_device_reboot_processed(id) PROVE PushShape'
    BY <1>1, <1>4, <2>3, QuietPushShape
    DEF callback, on_device_reboot_processed, procVars, historyVars
  <2>4. CASE on_new_connection
    BY <1>4, <2>4, QuietPushShape
    DEF callback, on_new_connection, poolVars, historyVars
  <2>5. ASSUME NEW d \in Devices, NEW u \in UInt32, on_read_unit_complete(d, u)
        PROVE  PushShape'
    BY <1>4, <2>1, <2>5, QuietPushShape DEF callback
  <2> QED
    BY <1>4, <2>2, <2>3, <2>4, <2>5 DEF callback
<1>5. CASE background
  <2>1. CASE Tick
    BY <1>5, <2>1, QuietPushShape DEF background, Tick, poolVars
  <2>2. ASSUME NEW id \in Ids, uv_work_start(id) PROVE PushShape'
    BY <1>1, <1>5, <2>2, QuietPushShape
    DEF background, uv_work_start, procVars, historyVars
  <2> QED
    BY <1>5, <2>1, <2>2 DEF background
<1>6. ASSUME NEW id \in Ids, reboot_push(id) PROVE PushShape'
  <2>1. B!broadcast_report(id) /\ proc = "up" /\ UNCHANGED walkVars
    BY <1>6 DEF reboot_push
  <2>2. \/ Die
        \/ UNCHANGED vars /\ ~(at[id] = "notify" /\ fate' = "up")
        \/ at[id] = "notify" /\ on_device_reboot(id)
    BY <1>6 DEF reboot_push, Survives, Returns
  <2>3. proc' = "up" => /\ \A i \in Ids \ {id} : stage'[i] = stage[i]
                        /\ at[id] # "notify" => stage'[id] = "running"
    BY <1>1, <1>6, <2>2
    DEF reboot_push, Die, on_device_reboot, vars, poolVars, historyVars
  <2>4. /\ about' \in [Bufs -> Devices \cup {Null}]
        /\ at[id] # "idle" => about' = about
    <3>1. heap[id].dev \in Devices
      BY <1>6 DEF reboot_push, IInv, TypeOK, EntryOwnership, Report
    <3> QED
      BY <1>6, <2>1, <3>1, ReportStep DEF reboot_push, B!Idle, PushShape
  <2> QED
    BY <2>1, <2>3, <2>4, ReportStep, UpkeepAssumption
    DEF PushShape, walkVars, B!HeldBy
<1>7. ASSUME NEW id \in Ids, reboot_fault(id) PROVE PushShape'
  BY <1>2, <1>7 DEF reboot_fault, on_device_reboot
<1>8. CASE outage_walk
  <2>1. PICK record \in get_uptime_record(Devices) :
          /\ outage_timer_walk(record)
          /\ todo' = IF proc' = "up" THEN Overdue(record) ELSE {}
    BY <1>8 DEF outage_walk
  <2>2. Overdue(record) \subseteq Devices
    BY <2>1 DEF get_uptime_record, Overdue
  <2>3. /\ proc = "up" /\ LoopFree /\ ran' = ran /\ UNCHANGED pushVars
        /\ proc' = "up" => stage' = stage
    BY <1>8, <2>1, <2>2
    DEF outage_walk, outage_timer_walk, LoopIdle, Die, poolVars
  <2> QED
    BY <2>1, <2>2, <2>3 DEF PushShape, pushVars, B!HeldBy
<1>9. CASE outage_push
  <2>1. B!broadcast_report(Loop) /\ proc = "up" /\ ran' = ran
    BY <1>9 DEF outage_push
  <2>2. proc' = "up" => stage' = stage
    BY <1>9 DEF outage_push, Survives, Die, vars, poolVars, historyVars
  <2>3. CASE at[Loop] = "idle"
    <3>1. PICK d \in todo : /\ todo' = todo \ {d}
                            /\ about' = [about EXCEPT ![buf'[Loop]] = d]
      BY <1>9, <2>3 DEF outage_push, B!Idle
    <3> QED
      BY <2>1, <2>2, <2>3, <3>1, ReportStep, UpkeepAssumption
      DEF PushShape, B!HeldBy
  <2>4. CASE at[Loop] # "idle"
    <3>1. UNCHANGED <<todo, about>>
      BY <1>9, <2>4 DEF outage_push, B!Idle
    <3> QED
      BY <2>1, <2>2, <2>4, <3>1, ReportStep, UpkeepAssumption
      DEF PushShape, Lines, B!HeldBy
  <2> QED
    BY <2>3, <2>4
<1>10. CASE signal
  BY <1>10 DEF signal, B!shutdown_webserver, B!threadVars, vars, poolVars,
     historyVars, walkVars, PushShape, B!HeldBy
<1>11. CASE cleanup
  <2>1. UNCHANGED <<at, buf, about, ran, todo>>
    BY <1>11 DEF cleanup, walkVars, B!cleanup_ringbuffer, B!cleanup_free,
       B!cleanup_clear, B!cleanup_skip, B!cleanup_end, B!threadVars
  <2>2. proc = "up" /\ (proc' = "up" => UNCHANGED stage)
    BY <1>11 DEF cleanup, Die, vars, poolVars, historyVars
  <2> QED
    BY <2>1, <2>2 DEF PushShape, B!HeldBy
<1>12. CASE UNCHANGED upkeepVars
  BY <1>12, QuietPushShape DEF upkeepVars, vars, procVars, poolVars, historyVars
<1> QED
  BY <1>3, <1>4, <1>5, <1>6, <1>7, <1>8, <1>9, <1>10, <1>11, <1>12
  DEF UpkeepNext

(* PushShape always holds: the strengthening behind the theorems below.    *)
THEOREM PushShapeInvariance ==
  ASSUME Kills
  PROVE  UpkeepSpec => []PushShape
<1>1. UpkeepSpec => []IInv
  BY UpkeepIsMonitor, Invariance, PTL
<1> QED
  BY <1>1, PushShapeInit, PushShapeStep, PTL DEF UpkeepSpec

(* For any number of devices, entries, pool threads and slots: no entry is *)
(* freed (main.c:72, :139) while a job broadcasts it (main.c:66).          *)
THEOREM PushesReadLiveEntries ==
  ASSUME Kills
  PROVE  UpkeepSpec => []PushReadsLiveEntry
<1>1. IInv /\ PushShape => PushReadsLiveEntry
  BY DEF IInv, PushShape, PushReadsLiveEntry, EntryOwnership, B!Idle
<1>2. UpkeepSpec => []IInv
  BY UpkeepIsMonitor, Invariance, PTL
<1> QED
  BY <1>1, <1>2, PushShapeInvariance, PTL

-----------------------------------------------------------------------------
(* BroadcastProofs, of the ring as the service uses it. *)
BP == INSTANCE BroadcastProofs
        WITH proc <- fate, pc <- at, Threads <- Ids \cup {Loop}

(* The ring of the service is the ring of those proofs. *)
LEMMA RingOfProofs == B!Spec => BP!Spec
<1> USE DEF B!ringVars, BP!ringVars, B!threadVars, BP!threadVars,
            B!sweepVars, BP!sweepVars, B!historyVars, BP!historyVars,
            B!Idle, BP!Idle, B!Slots, BP!Slots, B!Replacing, BP!Replacing,
            B!free_lws_padded_msg, BP!free_lws_padded_msg
<1>1. B!Init => BP!Init
  BY DEF B!Init, BP!Init
<1>2. ASSUME NEW t \in Ids \cup {Loop}, B!broadcast_report(t)
      PROVE  BP!broadcast_report(t)
  BY <1>2
  DEF B!broadcast_report, BP!broadcast_report,
      B!generate_lws_padded_msg, BP!generate_lws_padded_msg,
      B!broadcast_index, BP!broadcast_index, B!broadcast_test,
      BP!broadcast_test, B!broadcast_free, BP!broadcast_free,
      B!broadcast_store, BP!broadcast_store, B!broadcast_publish,
      BP!broadcast_publish, B!broadcast_notify, BP!broadcast_notify,
      B!NextIndex, BP!NextIndex, B!Running, BP!Running
<1>3. ASSUME B!shutdown_webserver \/ B!cleanup_ringbuffer
      PROVE  BP!shutdown_webserver \/ BP!cleanup_ringbuffer
  BY <1>3
  DEF B!shutdown_webserver, BP!shutdown_webserver, B!cleanup_ringbuffer,
      BP!cleanup_ringbuffer, B!cleanup_free, BP!cleanup_free,
      B!cleanup_clear, BP!cleanup_clear, B!cleanup_skip, BP!cleanup_skip,
      B!cleanup_end, BP!cleanup_end
<1>4. [B!Next]_(B!vars) => [BP!Next]_(BP!vars)
  <2>1. B!Next => BP!Next
    BY <1>2, <1>3 DEF B!Next, BP!Next
  <2>2. UNCHANGED B!vars => UNCHANGED BP!vars
    BY DEF B!vars, BP!vars
  <2> QED
    BY <2>1, <2>2
<1> QED
  BY <1>1, <1>4, PTL DEF B!Spec, BP!Spec

(* The invariants of BroadcastProofs hold of it: pushes from the pool, the *)
(* outage timer and the handler's sweep are the calls those proofs allow.  *)
LEMMA RingInvariant == UpkeepSpec => [](BP!IInv /\ BP!Keeps)
<1>1. /\ Size \in Nat \ {0, 1}
      /\ Loop \in Ids \cup {Loop}
      /\ Null \notin Bufs
  BY UpkeepAssumption
<1>2. BP!Spec => []BP!IInv
  BY <1>1, BP!Invariance
<1>3. BP!Init => BP!Keeps
  BY <1>1, BP!KeepsInit
<1>4. BP!IInv /\ BP!Keeps /\ [BP!Next]_(BP!vars) => BP!Keeps'
  BY <1>1, BP!KeepsNext
<1>5. BP!Spec => []BP!Keeps
  BY <1>2, <1>3, <1>4, PTL DEF BP!Spec
<1> QED
  BY <1>2, <1>5, UpkeepRingIsBroadcast, RingOfProofs, PTL

(* The types of the service's state, for every value of the constants: the *)
(* table, the jobs and the timer of Monitor, and the ring, its index and   *)
(* the threads' own variables under every interleaving of main.c:64-93     *)
(* with web_interface.c:274-289.                                           *)
THEOREM UpkeepTypeCorrect ==
  ASSUME Kills
  PROVE  UpkeepSpec => []UpkeepTypeOK
<1>1. IInv /\ PushShape /\ BP!IInv => UpkeepTypeOK
  <2> SUFFICES ASSUME IInv, PushShape, BP!IInv PROVE UpkeepTypeOK
    OBVIOUS
  <2>1. TypeOK
    BY DEF IInv
  <2>2. B!TypeOK
    BY DEF BP!IInv, BP!Core, BP!TypeOK, B!TypeOK, BP!Slots, B!Slots
  <2>3. /\ ran \in BOOLEAN /\ todo \in SUBSET Devices
        /\ about \in [Bufs -> Devices \cup {Null}]
    BY DEF PushShape
  <2> QED
    BY <2>1, <2>2, <2>3 DEF UpkeepTypeOK
<1>2. UpkeepSpec => []IInv
  BY UpkeepIsMonitor, Invariance, PTL
<1> QED
  BY <1>1, <1>2, PushShapeInvariance, RingInvariant, PTL

(* In the service as a whole, with any number of pool threads, the ring is *)
(* memory safe unless two pushes replace the same slot or one meets the    *)
(* handler, and keeps the last reports in order unless two overlap.        *)
THEOREM UpkeepRingSafe ==
  UpkeepSpec => [](B!RingMemorySafe /\ B!SerialRingKeeps)
<1>1. /\ Size \in Nat \ {0, 1}
      /\ Loop \in Ids \cup {Loop}
      /\ Null \notin Bufs
  BY UpkeepAssumption
<1>2. BP!Spec => []BP!RingMemorySafe
  BY <1>1, BP!RingSafe
<1>3. BP!Spec => []BP!SerialRingKeeps
  BY <1>1, BP!RingKeeps
<1>4. BP!RingMemorySafe => B!RingMemorySafe
  BY DEF BP!RingMemorySafe, B!RingMemorySafe, BP!Slots, B!Slots,
     BP!Holds, B!Holds, BP!BeingFreed, B!BeingFreed, BP!HeldBy, B!HeldBy
<1>5. BP!SerialRingKeeps => B!SerialRingKeeps
  BY DEF BP!SerialRingKeeps, B!SerialRingKeeps, BP!Back, B!Back, BP!Idle,
     B!Idle
<1> QED
  BY <1>2, <1>3, <1>4, <1>5, UpkeepRingIsBroadcast, RingOfProofs, PTL

-----------------------------------------------------------------------------
(* Until two calls overlap, the message a job has in hand is about the     *)
(* device of its entry.                                                    *)
PushAbout ==
  proc = "up" /\ ~raced =>
    \A id \in Ids : at[id] # "idle" => about[buf[id]] = heap[id].dev

(* The entry of a running job stays as it is until the job is over. *)
LEMMA RunningEntryStays ==
  ASSUME IInv, [Next]_vars, proc = "up", proc' = "up",
         NEW id \in Ids, stage[id] = "running"
  PROVE  heap'[id] = heap[id]
<1> USE DEF IInv, TypeOK, EntryOwnership
<1>1. heap[id] # Null /\ (entry # Null => entry # id)
  BY Zenon
<1>2. ~Die
  BY DEF Die
<1>3. CASE register_lookup
  BY <1>2, <1>3 DEF register_lookup, poolVars
<1>4. CASE store_uptime_report_in_db
  BY <1>1, <1>2, <1>4 DEF store_uptime_report_in_db
<1>5. CASE register_decide
  BY <1>1, <1>2, <1>5 DEF register_decide
<1>6. ASSUME NEW i \in Ids, on_device_reboot_processed(i)
      PROVE  heap'[id] = heap[id]
  BY <1>6 DEF on_device_reboot_processed
<1>7. ASSUME NEW i \in Ids, on_device_reboot(i) \/ uv_work_start(i)
      PROVE  heap'[id] = heap[id]
  BY <1>2, <1>7 DEF on_device_reboot, uv_work_start
<1>8. CASE main \/ shutdown_upkeep \/ on_new_connection \/ Tick
  BY <1>2, <1>8 DEF main, shutdown_upkeep, on_new_connection, Tick, poolVars
<1>9. ASSUME NEW d \in Devices, NEW u \in UInt32, on_read_unit_complete(d, u)
      PROVE  heap'[id] = heap[id]
  BY <1>9 DEF on_read_unit_complete, poolVars
<1>10. CASE on_outage_timer
  BY <1>2, <1>10 DEF on_outage_timer, outage_timer_walk, poolVars
<1>11. CASE UNCHANGED vars
  BY <1>11 DEF vars, poolVars
<1> QED
  BY <1>3, <1>4, <1>5, <1>6, <1>7, <1>8, <1>9, <1>10, <1>11 DEF Next, Handler

(* Every step keeps PushAbout. *)
LEMMA PushAboutStep ==
  ASSUME Kills, IInv, PushShape, PushAbout, [UpkeepNext]_upkeepVars
  PROVE  PushAbout'
<1> SUFFICES ASSUME proc' = "up", ~raced', NEW id \in Ids, at'[id] # "idle"
             PROVE  about'[buf'[id]] = heap'[id].dev
  BY DEF PushAbout
<1>1. [Next]_vars
  BY StepRefines DEF upkeepVars
<1>2. CASE start
  BY <1>2 DEF start, pushVars, PushShape
<1>3. ASSUME UNCHANGED <<at, buf, about>>, proc = "up", ~raced
      PROVE  about'[buf'[id]] = heap'[id].dev
  <2>1. stage[id] = "running" /\ about[buf[id]] = heap[id].dev
    BY <1>3 DEF PushShape, PushAbout
  <2> QED
    BY <1>1, <1>3, <2>1, RunningEntryStays
<1>4. CASE callback \/ background \/ outage_walk \/ UNCHANGED upkeepVars
  <2>1. UNCHANGED pushVars
    BY <1>4 DEF callback, background, outage_walk, upkeepVars
  <2>2. UNCHANGED <<at, buf, about, raced>>
    BY <2>1 DEF pushVars
  <2>3. proc = "up"
    <3>1. ~Die
      BY DEF Die
    <3>2. CASE callback
      <4>1. CASE Handler
        BY <3>1, <4>1
        DEF Handler, register_lookup, store_uptime_report_in_db,
            register_decide, procVars
      <4> QED
        BY <3>2, <4>1 DEF callback, on_read_unit_complete, LoopIdle,
           on_device_reboot_processed, on_new_connection
    <3>3. CASE background
      BY <3>3 DEF background, Tick, uv_work_start, procVars
    <3>4. CASE outage_walk
      BY <3>4 DEF outage_walk, outage_timer_walk, LoopIdle
    <3>5. CASE UNCHANGED upkeepVars
      BY <3>5 DEF upkeepVars, vars, procVars
    <3> QED
      BY <1>4, <3>2, <3>3, <3>4, <3>5
  <2> QED
    BY <1>3, <2>2, <2>3
<1>5. ASSUME NEW i \in Ids, reboot_push(i)
      PROVE  about'[buf'[id]] = heap'[id].dev
  <2>1. B!broadcast_report(i) /\ proc = "up" /\ stage[i] = "running"
    BY <1>5 DEF reboot_push
  <2>2. about' = IF at[i] = "idle"
                 THEN [about EXCEPT ![buf'[i]] = heap[i].dev] ELSE about
    BY <1>5 DEF reboot_push, B!Idle
  <2>3. CASE at[i] = "idle"
    <3>1. id = i /\ buf'[i] \in Bufs
      BY <2>1, <2>3, ReportStep
    <3>2. heap'[i] = heap[i]
      BY <1>1, <2>1, RunningEntryStays
    <3> QED
      BY <2>2, <2>3, <3>1, <3>2 DEF PushShape
  <2>4. CASE at[i] # "idle"
    <3>1. ~raced /\ at[id] # "idle" /\ buf'[id] = buf[id]
      BY <2>1, <2>4, ReportStep DEF PushShape
    <3>2. stage[id] = "running" /\ about[buf[id]] = heap[id].dev
      BY <2>1, <3>1 DEF PushShape, PushAbout
    <3>3. heap'[id] = heap[id]
      BY <1>1, <2>1, <3>2, RunningEntryStays
    <3> QED
      BY <2>2, <2>4, <3>1, <3>2, <3>3
  <2> QED
    BY <2>3, <2>4
<1>6. ASSUME NEW i \in Ids, reboot_fault(i)
      PROVE  about'[buf'[id]] = heap'[id].dev
  BY <1>6 DEF reboot_fault, on_device_reboot, Die
<1>7. CASE outage_push
  <2>1. B!broadcast_report(Loop) /\ proc = "up" /\ id # Loop
    BY <1>7, UpkeepAssumption DEF outage_push
  <2>2. at[Loop] # "idle"
    BY <2>1, ReportStep
  <2>3. /\ about' = about /\ ~raced /\ at'[id] = at[id] /\ buf'[id] = buf[id]
    BY <1>7, <2>1, <2>2, ReportStep DEF outage_push, B!Idle
  <2>4. stage[id] = "running" /\ about[buf[id]] = heap[id].dev
    BY <2>1, <2>3 DEF PushShape, PushAbout
  <2> QED
    BY <1>1, <2>1, <2>3, <2>4, RunningEntryStays
<1>8. CASE signal
  <2>1. UNCHANGED <<at, buf, about>> /\ proc = "up" /\ ~raced
    BY <1>8 DEF signal, B!shutdown_webserver, B!threadVars
  <2> QED
    BY <1>3, <2>1
<1>9. CASE cleanup
  <2>1. UNCHANGED <<at, buf, about, raced>> /\ proc = "up"
    BY <1>9 DEF cleanup, B!cleanup_ringbuffer, B!cleanup_free,
       B!cleanup_clear, B!cleanup_skip, B!cleanup_end, B!threadVars,
       B!historyVars
  <2> QED
    BY <1>3, <2>1
<1> QED
  BY <1>2, <1>4, <1>5, <1>6, <1>7, <1>8, <1>9 DEF UpkeepNext

(* Only the last step of on_device_reboot settles what is owed, and for    *)
(* its own device.                                                         *)
LEMMA OnlyRebootSettles ==
  ASSUME UpkeepNext, NEW d \in Devices, notice[d] = "owed", notice'[d] = "none",
         notice \in [Devices -> {"none", "owed", "dropped"}]
  PROVE  \E id \in Ids : /\ reboot_push(id) /\ at[id] = "notify"
                         /\ heap[id].dev = d
<1>1. ~Die
  BY DEF Die
<1>2. UNCHANGED notice => FALSE
  OBVIOUS
<1>3. ~start /\ ~background /\ ~signal
  BY <1>2 DEF start, main, background, Tick, uv_work_start, signal, vars,
     historyVars
<1>4. ~callback
  BY <1>1
  DEF callback, on_read_unit_complete, Handler, register_lookup,
      store_uptime_report_in_db, register_decide, on_device_reboot_processed,
      on_new_connection, historyVars
<1>5. ~outage_walk /\ ~outage_push /\ ~cleanup
  BY <1>1, <1>2
  DEF outage_walk, outage_timer_walk, outage_push, Survives, cleanup, vars,
      historyVars
<1>6. \A id \in Ids : ~reboot_fault(id)
  BY <1>1 DEF reboot_fault, on_device_reboot
<1>7. ASSUME NEW id \in Ids, reboot_push(id)
      PROVE  at[id] = "notify" /\ heap[id].dev = d
  BY <1>1, <1>2, <1>7
  DEF reboot_push, Survives, Returns, on_device_reboot, vars, historyVars
<1> QED
  BY <1>3, <1>4, <1>5, <1>6, <1>7 DEF UpkeepNext

(* For any number of devices, jobs and pool threads: when on_device_reboot *)
(* (main.c:64-68) returns, the slot ws_ringbuffer_current points to holds  *)
(* the report of its own device, as long as no two broadcasts have         *)
(* overlapped.                                                             *)
THEOREM RebootsAreCurrent ==
  ASSUME Kills
  PROVE  UpkeepSpec => RebootIsCurrent
<1> DEFINE Step ==
      \A d \in Devices :
        notice[d] = "owed" /\ notice'[d] = "none" /\ ~raced /\ sweep = -1 =>
          ring'[current'] # Null /\ about'[ring'[current']] = d
<1>1. ASSUME IInv, PushAbout, BP!IInv, BP!Keeps, UpkeepNext
      PROVE  Step
  <2> SUFFICES ASSUME NEW d \in Devices, notice[d] = "owed",
                      notice'[d] = "none", ~raced, sweep = -1
               PROVE  ring'[current'] # Null /\ about'[ring'[current']] = d
    OBVIOUS
  <2>1. notice \in [Devices -> {"none", "owed", "dropped"}]
    BY <1>1 DEF IInv, TypeOK
  <2>2. PICK id \in Ids : /\ reboot_push(id) /\ at[id] = "notify"
                          /\ heap[id].dev = d
    BY <1>1, <2>1, OnlyRebootSettles
  <2>3. ring[current] = buf[id]
    BY <1>1, <2>2 DEF BP!Keeps
  <2>4. buf[id] \in Bufs
    BY <1>1, <2>2 DEF BP!IInv, BP!Core, BP!MessageInHand, BP!Idle
  <2>5. about[buf[id]] = d
    BY <1>1, <2>2 DEF PushAbout, reboot_push
  <2>6. UNCHANGED <<ring, current, about>>
    BY <2>2 DEF reboot_push, B!broadcast_report, B!Idle, B!HeldBy,
       B!generate_lws_padded_msg, B!broadcast_index, B!broadcast_test,
       B!broadcast_free, B!broadcast_store, B!broadcast_publish,
       B!broadcast_notify, B!ringVars
  <2> QED
    BY <2>3, <2>4, <2>5, <2>6, UpkeepAssumption
<1>2. UpkeepInit => PushAbout
  BY DEF UpkeepInit, B!Init, PushAbout
<1>3. UpkeepSpec => []IInv
  BY UpkeepIsMonitor, Invariance, PTL
<1>4. IInv /\ PushShape /\ PushAbout /\ [UpkeepNext]_upkeepVars => PushAbout'
  BY PushAboutStep
<1>5. UpkeepSpec => []PushAbout
  BY <1>2, <1>3, <1>4, PushShapeInvariance, PTL DEF UpkeepSpec
<1>6. IInv /\ PushAbout /\ (BP!IInv /\ BP!Keeps) /\ [UpkeepNext]_upkeepVars
        => [Step]_upkeepVars
  BY <1>1
<1> QED
  BY <1>3, <1>5, <1>6, RingInvariant, PTL DEF UpkeepSpec, RebootIsCurrent

=============================================================================
