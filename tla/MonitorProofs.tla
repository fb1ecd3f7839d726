---------------------------- MODULE MonitorProofs ----------------------------
(***************************************************************************)
(* The safety invariants of Monitor, for every set of devices, every word  *)
(* size, every threshold and every choice of the outcomes of undefined     *)
(* behaviour.                                                              *)
(***************************************************************************)
EXTENDS Monitor, TLAPS

(* A report is in hand exactly inside the handler, an entry only at its end. *)
HandlerShape ==
  /\ pc # "idle" => report # Null
  /\ entry # Null => pc = "decide"

(* Unless the last report of a device missed the table, its row gives back *)
(* the uptime of that report.                                              *)
RowIsLastReport ==
  \A d \in Devices :
    ~masked[d] => /\ db[d] = Null <=> heard[d] = Null
                  /\ db[d] # Null => ColumnInt(db[d].uptime) = heard[d]

(* What the lookup found is that uptime. *)
LookupRight ==
  pc = "store" /\ ~missed /\ ~masked[report.dev] =>
    last = IF heard[report.dev] = Null THEN 0 ELSE heard[report.dev]

(* The end of the handler will queue the reboot it owes, or an earlier job *)
(* of the device still will push.                                          *)
Pending(d) ==
  \E id \in Ids : stage[id] \in {"queued", "running"} /\ heap[id].dev = d

DecideRight ==
  pc = "decide" /\ notice[report.dev] = "owed" =>
    RebootDetected(report) \/ Pending(report.dev)

(* Outside a handler of its device, a row is as old as the silence it      *)
(* records, or younger; and no outage is pushed inside one.                *)
RowAge ==
  \A d \in Devices :
    db[d] # Null /\ ~masked[d] /\ ~(Unsaved /\ report.dev = d)
      => db[d].age <= silence[d]

NoAlertInHandler == pc # "idle" => ~alerted[report.dev]

IInv ==
  /\ TypeOK
  /\ HandlerShape
  /\ EntryOwnership
  /\ RowIsLastReport
  /\ LookupRight
  /\ NoticeInHand
  /\ DecideRight
  /\ RowAge
  /\ NoAlertInHandler
  /\ OutageJustified

-----------------------------------------------------------------------------

(* What sqlite3_bind_int stores, sqlite3_column_int gives back: the trip   *)
(* through a signed column loses no uint32_t.                              *)
LEMMA UptimeRoundTrip ==
  ASSUME NEW u \in UInt32
  PROVE  BindInt(u) \in Int32 /\ ColumnInt(BindInt(u)) = u
BY DatabaseAssumption DEF UInt32, Int32, BindInt, ColumnInt

(* Reading any column value yields a uint32_t. *)
LEMMA ColumnIntType ==
  ASSUME NEW s \in Int32
  PROVE  ColumnInt(s) \in UInt32
BY DatabaseAssumption DEF UInt32, Int32, ColumnInt

(* Saturating ages stay in range, never shrink and keep their order. *)
LEMMA OlderFacts ==
  ASSUME NEW a \in Ages, NEW b \in Ages
  PROVE  /\ Older(a) \in Ages
         /\ a <= Older(a)
         /\ a <= b => Older(a) <= Older(b)
BY DatabaseAssumption DEF Ages, Older

(* A lookup that returns gives a uint32_t, and the row's, if it saw it. *)
LEMMA LookupResult ==
  ASSUME DbTypeOK, NEW d \in Devices, NEW r \in get_last_known_uptime(d),
         r.end = "callee"
  PROVE  /\ r.uptime \in UInt32
         /\ r.missed \in BOOLEAN
         /\ ~r.missed => r.uptime = IF db[d] = Null THEN 0
                                    ELSE ColumnInt(db[d].uptime)
<1>1. PICK record \in get_uptime_record({d}) :
        r \in IF record = Null
              THEN {[end |-> "fault", uptime |-> 0, missed |-> FALSE]}
              ELSE IF record = {}
              THEN {[end |-> "callee", uptime |-> 0, missed |-> db[d] # Null]}
              ELSE {[end |-> e, uptime |-> ColumnInt(db[d].uptime),
                     missed |-> FALSE] : e \in uptime_record_foreach(record)}
  BY DEF get_last_known_uptime
<1>2. record # Null
  BY <1>1
<1>3. 0 \in UInt32
  BY DatabaseAssumption DEF UInt32
<1>4. CASE record = {}
  <2>1. r = [end |-> "callee", uptime |-> 0, missed |-> db[d] # Null]
    BY <1>1, <1>2, <1>4
  <2>2. r.missed \in BOOLEAN /\ (r.missed <=> db[d] # Null)
    BY <2>1, Zenon
  <2>3. r.uptime = 0
    BY <2>1
  <2> QED
    BY <1>3, <2>2, <2>3
<1>5. CASE record # {}
  <2>1. db[d] # Null
    BY <1>2, <1>5 DEF get_uptime_record
  <2>2. ColumnInt(db[d].uptime) \in UInt32
    BY <2>1, ColumnIntType DEF DbTypeOK, Row
  <2>3. PICK e \in uptime_record_foreach(record) :
          r = [end |-> e, uptime |-> ColumnInt(db[d].uptime), missed |-> FALSE]
    BY <1>1, <1>2, <1>5
  <2> QED
    BY <2>1, <2>2, <2>3
<1> QED
  BY <1>4, <1>5

-----------------------------------------------------------------------------

(* The initial state satisfies the invariant. *)
LEMMA InitInv == Init => IInv
<1> SUFFICES ASSUME Init PROVE IInv
  OBVIOUS
<1>1. 0 \in UInt32 /\ 0 \in Ages
  BY DatabaseAssumption DEF UInt32, Ages
<1>2. TypeOK
  <2>1. left \in 0 .. Interval
    BY MonitorAssumption DEF Init
  <2>2. DbTypeOK /\ report \in Report \cup {Null} /\ last \in UInt32
        /\ entry \in Ids \cup {Null} /\ heap \in [Ids -> Report \cup {Null}]
        /\ heard \in [Devices -> UInt32 \cup {Null}]
        /\ silence \in [Devices -> Ages]
    BY <1>1 DEF Init, DbTypeOK, EmptyTable
  <2>3. stage \in [Ids -> {"none", "queued", "running", "done"}]
        /\ notice \in [Devices -> {"none", "owed", "dropped"}]
    BY DEF Init
  <2>4. masked \in [Devices -> BOOLEAN] /\ alerted \in [Devices -> BOOLEAN]
        /\ missed \in BOOLEAN /\ context \in BOOLEAN
    BY Zenon DEF Init
  <2> QED
    BY <2>1, <2>2, <2>3, <2>4 DEF Init, TypeOK
<1> QED
  BY <1>2 DEF Init, IInv, HandlerShape, EntryOwnership, Wild, RowIsLastReport,
     LookupRight, NoticeInHand, DecideRight, RowAge, NoAlertInHandler,
     OutageJustified, EmptyTable

(* The end of the process preserves it, from wherever it is reached. *)
LEMMA DieInv == IInv /\ Die => IInv'
<1> SUFFICES ASSUME IInv, Die PROVE IInv'
  OBVIOUS
<1> USE DEF Die
<1>1. Unsaved => report \in Report /\ report.dev \in Devices
                 /\ report.uptime \in UInt32
  BY DEF IInv, TypeOK, HandlerShape, Unsaved, Report
<1>2. 0 \in UInt32
  BY DatabaseAssumption DEF UInt32
<1>3. TypeOK'
  <2>1. left' \in 0 .. Interval
    BY MonitorAssumption
  <2>2. DbTypeOK' /\ silence' \in [Devices -> Ages]
        /\ alerted' \in [Devices -> BOOLEAN]
    BY DEF IInv, TypeOK, DbTypeOK
  <2>3. heap' \in [Ids -> Report \cup {Null}]
        /\ stage' \in [Ids -> {"none", "queued", "running", "done"}]
    OBVIOUS
  <2>4. heard' \in [Devices -> UInt32 \cup {Null}]
    BY <1>1 DEF IInv, TypeOK
  <2>5. notice' \in [Devices -> {"none", "owed", "dropped"}]
    BY DEF IInv, TypeOK
  <2>6. masked' \in [Devices -> BOOLEAN]
    BY <1>1 DEF IInv, TypeOK
  <2>7. missed' \in BOOLEAN /\ context' \in BOOLEAN
    BY Zenon
  <2> QED
    BY <1>2, <2>1, <2>2, <2>3, <2>4, <2>5, <2>6, <2>7 DEF TypeOK
<1>4. HandlerShape' /\ EntryOwnership' /\ LookupRight' /\ DecideRight'
      /\ NoAlertInHandler'
  BY DEF HandlerShape, EntryOwnership, Wild, LookupRight, DecideRight,
     NoAlertInHandler
<1>5. NoticeInHand'
  BY DEF IInv, TypeOK, NoticeInHand
<1>6. RowIsLastReport'
  BY <1>1 DEF IInv, TypeOK, RowIsLastReport
<1>7. RowAge'
  BY <1>1 DEF IInv, TypeOK, RowAge, Unsaved
<1>8. OutageJustified'
  BY <1>1 DEF IInv, TypeOK, OutageJustified
<1> QED
  BY <1>3, <1>4, <1>5, <1>6, <1>7, <1>8 DEF IInv

(* A handler's report is a report. *)
LEMMA ReportInHand ==
  ASSUME IInv, pc # "idle"
  PROVE  report \in Report /\ report.dev \in Devices /\ report.uptime \in UInt32
BY DEF IInv, TypeOK, HandlerShape, Report

(* Receiving a report touches only the handler and the device's silence. *)
LEMMA ReadInv ==
  ASSUME IInv, NEW d \in Devices, NEW u \in UInt32, on_read_unit_complete(d, u)
  PROVE  IInv'
<1> USE DEF on_read_unit_complete, LoopIdle, procVars, poolVars
<1>1. report' \in Report /\ report'.dev = d /\ report' # Null
  BY MonitorAssumption DEF Report
<1>2. TypeOK'
  <2>1. 0 \in Ages
    BY DatabaseAssumption DEF Ages
  <2>2. silence' \in [Devices -> Ages]
    BY <2>1 DEF IInv, TypeOK
  <2>3. alerted' \in [Devices -> BOOLEAN]
    BY DEF IInv, TypeOK
  <2> QED
    BY <1>1, <2>2, <2>3 DEF IInv, TypeOK, DbTypeOK
<1>3. HandlerShape' /\ EntryOwnership' /\ LookupRight' /\ DecideRight'
  BY <1>1 DEF IInv, HandlerShape, EntryOwnership, Wild, LookupRight, DecideRight
<1>4. RowIsLastReport'
  BY DEF IInv, RowIsLastReport
<1>5. NoticeInHand'
  BY DEF IInv, NoticeInHand, InHand
<1>6. RowAge'
  BY <1>1 DEF IInv, TypeOK, RowAge, Unsaved
<1>7. NoAlertInHandler'
  BY <1>1 DEF IInv, TypeOK, NoAlertInHandler
<1>8. OutageJustified'
  BY DEF IInv, TypeOK, OutageJustified
<1> QED
  BY <1>2, <1>3, <1>4, <1>5, <1>6, <1>7, <1>8 DEF IInv

(* The lookup records the uptime of the row it saw. *)
LEMMA LookupInv == IInv /\ register_lookup => IInv'
<1> SUFFICES ASSUME IInv, pc = "lookup",
                    NEW r \in get_last_known_uptime(report.dev),
                    r.end = "callee",
                    pc' = "store", last' = r.uptime, missed' = r.missed,
                    UNCHANGED <<db, procVars, report, entry, poolVars, heard,
                                masked, silence, alerted, notice>>
             PROVE  IInv'
  BY DieInv DEF register_lookup
<1> USE DEF procVars, poolVars
<1>1. report \in Report /\ report.dev \in Devices
  BY ReportInHand
<1>2. /\ r.uptime \in UInt32
      /\ r.missed \in BOOLEAN
      /\ ~r.missed => r.uptime = IF db[report.dev] = Null THEN 0
                                 ELSE ColumnInt(db[report.dev].uptime)
  BY <1>1, LookupResult DEF IInv, TypeOK
<1>3. TypeOK'
  BY <1>2 DEF IInv, TypeOK, DbTypeOK
<1>4. LookupRight'
  BY <1>1, <1>2 DEF IInv, LookupRight, RowIsLastReport
<1>5. HandlerShape' /\ EntryOwnership' /\ RowIsLastReport' /\ DecideRight'
      /\ NoAlertInHandler' /\ OutageJustified'
  BY DEF IInv, HandlerShape, EntryOwnership, Wild, RowIsLastReport,
     DecideRight, NoAlertInHandler, OutageJustified
<1>6. NoticeInHand'
  BY DEF IInv, NoticeInHand, InHand
<1>7. RowAge'
  BY DEF IInv, RowAge, Unsaved
<1> QED
  BY <1>3, <1>4, <1>5, <1>6, <1>7 DEF IInv

(* The insert: the row, the entry and the notice owed appear together. *)
LEMMA StoreInv == IInv /\ store_uptime_report_in_db => IInv'
<1> SUFFICES ASSUME IInv, pc = "store",
                    NEW outcome \in InsertOutcomes, outcome # "fatal",
                    insert_uptime_entry(report.dev, report.uptime, outcome),
                    NEW id \in Ids, NEW value \in StoreReturn,
                    heap[id] = Null,
                    heap' = [heap EXCEPT ![id] = report],
                    entry' = IF value = "entry" THEN id ELSE Null,
                    pc' = "decide",
                    heard' = [heard EXCEPT ![report.dev] = report.uptime],
                    masked' = [masked EXCEPT ![report.dev] = outcome = "lost"],
                    missed' = FALSE,
                    notice' = IF RebootSeen
                              THEN [notice EXCEPT ![report.dev] = "owed"]
                              ELSE notice,
                    UNCHANGED <<procVars, report, last, stage, silence, alerted>>
             PROVE  IInv'
  BY DieInv DEF store_uptime_report_in_db
<1> USE DEF procVars
<1>1. report \in Report /\ report.dev \in Devices /\ report.uptime \in UInt32
      /\ report # Null
  BY ReportInHand, MonitorAssumption
<1>2. outcome \in {"ok", "lost"}
  BY DatabaseAssumption DEF InsertOutcomes
<1>3. BindInt(report.uptime) \in Int32
      /\ ColumnInt(BindInt(report.uptime)) = report.uptime
  BY <1>1, UptimeRoundTrip
<1>4. 0 \in Ages
  BY DatabaseAssumption DEF Ages
<1>5. /\ outcome = "ok" => db' = [db EXCEPT ![report.dev] =
                               [uptime |-> BindInt(report.uptime), age |-> 0]]
      /\ outcome = "lost" => db' = db
  BY DEF insert_uptime_entry
<1>6. TypeOK'
  <2>1. DbTypeOK'
    BY <1>1, <1>2, <1>3, <1>4, <1>5 DEF IInv, TypeOK, DbTypeOK, Row
  <2>2. heard' \in [Devices -> UInt32 \cup {Null}]
        /\ heap' \in [Ids -> Report \cup {Null}]
    BY <1>1 DEF IInv, TypeOK
  <2>3. masked' \in [Devices -> BOOLEAN]
    BY <1>1 DEF IInv, TypeOK
  <2>4. notice' \in [Devices -> {"none", "owed", "dropped"}]
    BY <1>1 DEF IInv, TypeOK
  <2>5. missed' \in BOOLEAN
    BY Zenon
  <2> QED
    BY <2>1, <2>2, <2>3, <2>4, <2>5 DEF IInv, TypeOK
<1>7. HandlerShape'
  BY <1>1 DEF HandlerShape
<1>8. EntryOwnership'
  <2>1. entry = Null /\ stage[id] = "none"
    BY DEF IInv, HandlerShape, EntryOwnership
  <2> QED
    BY <1>1, <2>1, MonitorAssumption DEF IInv, TypeOK, EntryOwnership, Wild
<1>9. RowIsLastReport'
  <2> SUFFICES ASSUME NEW d \in Devices, ~masked'[d]
               PROVE  /\ db'[d] = Null <=> heard'[d] = Null
                      /\ db'[d] # Null => ColumnInt(db'[d].uptime) = heard'[d]
    BY DEF RowIsLastReport
  <2>1. CASE d = report.dev
    <3>1. outcome = "ok"
      BY <1>1, <1>2, <2>1 DEF IInv, TypeOK
    <3>2. db'[d] = [uptime |-> BindInt(report.uptime), age |-> 0]
      BY <1>5, <2>1, <3>1 DEF IInv, TypeOK, DbTypeOK
    <3>3. db'[d] # Null
      BY <1>3, <1>4, <3>2, NullAssumption DEF Row
    <3>4. heard'[d] = report.uptime /\ heard'[d] # Null
      BY <1>1, <2>1, MonitorAssumption DEF IInv, TypeOK
    <3> QED
      BY <1>3, <3>2, <3>3, <3>4
  <2>2. CASE d # report.dev
    BY <1>2, <1>5, <2>2 DEF IInv, TypeOK, DbTypeOK, RowIsLastReport
  <2> QED
    BY <2>1, <2>2
<1>10. LookupRight'
  BY DEF LookupRight
<1>11. NoticeInHand'
  <2> SUFFICES ASSUME NEW d \in Devices, notice'[d] = "owed", d # report.dev
               PROVE  InHand(d)'
    BY DEF NoticeInHand, InHand
  <2>1. notice[d] = "owed"
    BY DEF IInv, TypeOK
  <2>2. PICK i \in Ids : stage[i] \in {"queued", "running"} /\ heap[i].dev = d
    BY <2>1 DEF IInv, NoticeInHand, InHand
  <2>3. i # id
    BY <2>2 DEF IInv, EntryOwnership
  <2> QED
    BY <2>2, <2>3 DEF IInv, TypeOK, InHand
<1>12. DecideRight'
  <2> SUFFICES ASSUME notice'[report.dev] = "owed"
               PROVE  (RebootDetected(report) \/ Pending(report.dev))'
    BY DEF DecideRight
  <2>1. CASE RebootSeen
    <3>1. CASE report.uptime < Fresh
      BY <3>1 DEF RebootDetected
    <3>2. CASE ~(report.uptime < Fresh)
      <4>1. heard[report.dev] # Null /\ heard[report.dev] > report.uptime
            /\ ~masked[report.dev] /\ ~missed
        BY <2>1, <3>2 DEF RebootSeen
      <4>2. last = heard[report.dev]
        BY <4>1 DEF IInv, LookupRight
      <4> QED
        BY <4>1, <4>2 DEF RebootDetected
    <3> QED
      BY <3>1, <3>2
  <2>2. CASE ~RebootSeen
    <3>1. PICK i \in Ids : stage[i] \in {"queued", "running"}
                           /\ heap[i].dev = report.dev
      BY <1>1, <2>2 DEF IInv, NoticeInHand, InHand
    <3>2. i # id
      BY <3>1 DEF IInv, EntryOwnership
    <3> QED
      BY <3>1, <3>2 DEF IInv, TypeOK, Pending
  <2> QED
    BY <2>1, <2>2
<1>13. RowAge'
  <2> SUFFICES ASSUME NEW d \in Devices, db'[d] # Null, ~masked'[d]
               PROVE  db'[d].age <= silence[d]
    BY DEF RowAge
  <2>1. CASE d = report.dev
    <3>1. outcome = "ok"
      BY <1>1, <1>2, <2>1 DEF IInv, TypeOK
    <3>2. db'[d].age = 0
      BY <1>5, <2>1, <3>1 DEF IInv, TypeOK, DbTypeOK
    <3> QED
      BY <3>2, DatabaseAssumption DEF IInv, TypeOK, Ages
  <2>2. CASE d # report.dev
    BY <1>2, <1>5, <2>2 DEF IInv, TypeOK, DbTypeOK, RowAge
  <2> QED
    BY <2>1, <2>2
<1>14. NoAlertInHandler' /\ OutageJustified'
  BY <1>1 DEF IInv, TypeOK, NoAlertInHandler, OutageJustified
<1> QED
  BY <1>6, <1>7, <1>8, <1>9, <1>10, <1>11, <1>12, <1>13, <1>14 DEF IInv

(* The end of the handler: the entry changes hands, or is freed. *)
LEMMA DecideInv == IInv /\ register_decide => IInv'
<1> SUFFICES ASSUME IInv, pc = "decide", entry # Null,
                    IF RebootDetected(heap[entry])
                    THEN /\ stage' = [stage EXCEPT ![entry] = "queued"]
                         /\ UNCHANGED heap
                    ELSE /\ heap' = [heap EXCEPT ![entry] = Null]
                         /\ UNCHANGED stage,
                    pc' = "idle", report' = Null, last' = 0, entry' = Null,
                    UNCHANGED <<db, procVars, historyVars>>
             PROVE  IInv'
  BY DieInv DEF register_decide
<1> USE DEF procVars, historyVars
<1>1. report \in Report /\ report.dev \in Devices /\ report # Null
  BY ReportInHand, MonitorAssumption
<1>2. entry \in Ids /\ stage[entry] = "none" /\ heap[entry] = report
  BY DEF IInv, TypeOK, EntryOwnership
<1>3. TypeOK'
  <2>1. 0 \in UInt32
    BY DatabaseAssumption DEF UInt32
  <2>2. heap' \in [Ids -> Report \cup {Null}]
        /\ stage' \in [Ids -> {"none", "queued", "running", "done"}]
    BY <1>2 DEF IInv, TypeOK
  <2> QED
    BY <2>1, <2>2 DEF IInv, TypeOK, DbTypeOK
<1>4. EntryOwnership'
  BY <1>1, <1>2 DEF IInv, TypeOK, EntryOwnership, Wild
<1>5. NoticeInHand'
  <2> SUFFICES ASSUME NEW d \in Devices, notice[d] = "owed"
               PROVE  InHand(d)'
    BY DEF NoticeInHand
  <2>1. CASE d = report.dev /\ RebootDetected(report)
    BY <1>2, <2>1 DEF IInv, TypeOK, InHand
  <2>2. CASE ~(d = report.dev /\ RebootDetected(report))
    <3>1. PICK i \in Ids : stage[i] \in {"queued", "running"} /\ heap[i].dev = d
      BY <2>2 DEF IInv, NoticeInHand, InHand, DecideRight, Pending
    <3>2. i # entry
      BY <1>2, <3>1
    <3> QED
      BY <3>1, <3>2 DEF IInv, TypeOK, InHand
  <2> QED
    BY <2>1, <2>2
<1>6. RowAge'
  BY DEF IInv, RowAge, Unsaved
<1>7. HandlerShape' /\ RowIsLastReport' /\ LookupRight' /\ DecideRight'
      /\ NoAlertInHandler' /\ OutageJustified'
  BY DEF IInv, HandlerShape, RowIsLastReport, LookupRight, DecideRight,
     NoAlertInHandler, OutageJustified
<1> QED
  BY <1>3, <1>4, <1>5, <1>6, <1>7 DEF IInv

(* A pool thread takes a job: it stays pending. *)
LEMMA StartInv ==
  ASSUME IInv, NEW id \in Ids, uv_work_start(id)
  PROVE  IInv'
<1> USE DEF uv_work_start, procVars, handlerVars, historyVars
<1>1. TypeOK'
  BY DEF IInv, TypeOK, DbTypeOK
<1>2. \A d : Pending(d) => Pending(d)'
  BY DEF IInv, TypeOK, Pending
<1>3. NoticeInHand' /\ DecideRight'
  BY <1>2 DEF IInv, NoticeInHand, InHand, DecideRight, Pending, RebootDetected
<1>4. EntryOwnership'
  BY DEF IInv, TypeOK, EntryOwnership, Wild
<1>5. HandlerShape' /\ RowIsLastReport' /\ LookupRight' /\ RowAge'
      /\ NoAlertInHandler' /\ OutageJustified'
  BY DEF IInv, HandlerShape, RowIsLastReport, LookupRight, RowAge, Unsaved,
     NoAlertInHandler, OutageJustified
<1> QED
  BY <1>1, <1>3, <1>4, <1>5 DEF IInv

(* The push settles what is owed to its device and to no other. *)
LEMMA PushInv ==
  ASSUME IInv, NEW id \in Ids, on_device_reboot(id)
  PROVE  IInv'
<1> SUFFICES ASSUME stage[id] = "running",
                    stage' = [stage EXCEPT ![id] = "done"],
                    notice' = [notice EXCEPT ![heap[id].dev] = "none"],
                    UNCHANGED <<db, procVars, handlerVars, heap, heard, masked,
                                missed, silence, alerted>>
             PROVE  IInv'
  BY DieInv DEF on_device_reboot
<1> USE DEF procVars, handlerVars
<1>1. heap[id] \in Report /\ heap[id].dev \in Devices
  BY DEF IInv, TypeOK, EntryOwnership, Report
<1>2. TypeOK'
  BY <1>1 DEF IInv, TypeOK, DbTypeOK
<1>3. \A d \in Devices : d # heap[id].dev =>
        (Pending(d) => Pending(d)') /\ notice'[d] = notice[d]
  BY DEF IInv, TypeOK, Pending
<1>4. notice'[heap[id].dev] = "none"
  BY <1>1 DEF IInv, TypeOK
<1>5. NoticeInHand'
  BY <1>3, <1>4 DEF IInv, NoticeInHand, InHand, Pending
<1>6. DecideRight'
  <2>1. pc = "decide" => report.dev \in Devices
    BY ReportInHand
  <2> QED
    BY <1>3, <1>4, <2>1 DEF IInv, DecideRight, RebootDetected
<1>7. EntryOwnership'
  BY DEF IInv, TypeOK, EntryOwnership, Wild
<1>8. HandlerShape' /\ RowIsLastReport' /\ LookupRight' /\ RowAge'
      /\ NoAlertInHandler' /\ OutageJustified'
  BY DEF IInv, HandlerShape, RowIsLastReport, LookupRight, RowAge, Unsaved,
     NoAlertInHandler, OutageJustified
<1> QED
  BY <1>2, <1>5, <1>6, <1>7, <1>8 DEF IInv

(* The after-work callback frees an entry nobody holds any more. *)
LEMMA ProcessedInv ==
  ASSUME IInv, NEW id \in Ids, on_device_reboot_processed(id)
  PROVE  IInv'
<1> USE DEF on_device_reboot_processed, LoopIdle, procVars, handlerVars,
            historyVars
<1>1. TypeOK'
  BY DEF IInv, TypeOK, DbTypeOK
<1>2. NoticeInHand'
  BY DEF IInv, TypeOK, NoticeInHand, InHand
<1>3. EntryOwnership'
  BY DEF IInv, TypeOK, HandlerShape, EntryOwnership, Wild
<1>4. HandlerShape' /\ RowIsLastReport' /\ LookupRight' /\ RowAge'
      /\ DecideRight' /\ NoAlertInHandler' /\ OutageJustified'
  BY DEF IInv, HandlerShape, RowIsLastReport, LookupRight, RowAge, Unsaved,
     DecideRight, NoAlertInHandler, OutageJustified
<1> QED
  BY <1>1, <1>2, <1>3, <1>4 DEF IInv

(* The timer pushes only rows that are late, hence devices that are. *)
LEMMA TimerInv == IInv /\ on_outage_timer => IInv'
<1> SUFFICES ASSUME IInv, LoopIdle,
                    NEW record \in get_uptime_record(Devices),
                    NEW late, late = Overdue(record),
                    left' = Interval,
                    alerted' = [d \in Devices |-> alerted[d] \/ d \in late],
                    UNCHANGED <<db, proc, context, timer, handlerVars, poolVars,
                                heard, masked, missed, silence, notice>>
             PROVE  IInv'
  BY DieInv DEF on_outage_timer, outage_timer_walk
<1> USE DEF handlerVars, poolVars, LoopIdle
<1>1. \A d \in late : d \in Devices /\ db[d] # Null /\ db[d].age > Threshold
  BY DEF get_uptime_record, Overdue, assess_timeout_criteria
<1>2. TypeOK'
  <2>1. alerted' \in [Devices -> BOOLEAN]
    OBVIOUS
  <2>2. left' \in 0 .. Interval
    BY MonitorAssumption
  <2> QED
    BY <2>1, <2>2 DEF IInv, TypeOK, DbTypeOK
<1>3. OutageJustified'
  <2> SUFFICES ASSUME NEW d \in Devices, alerted'[d], ~masked[d]
               PROVE  silence[d] > Threshold
    BY DEF OutageJustified
  <2>1. CASE alerted[d]
    BY <2>1 DEF IInv, OutageJustified
  <2>2. CASE d \in late
    <3>1. db[d] # Null /\ db[d].age > Threshold
      BY <1>1, <2>2
    <3>2. db[d].age <= silence[d]
      BY <3>1 DEF IInv, RowAge, Unsaved
    <3>3. db[d].age \in Ages /\ silence[d] \in Ages
      BY <3>1 DEF IInv, TypeOK, DbTypeOK, Row
    <3> QED
      BY <3>1, <3>2, <3>3, MonitorAssumption, DatabaseAssumption DEF Ages
  <2> QED
    BY <2>1, <2>2
<1>4. NoticeInHand' /\ DecideRight' /\ EntryOwnership'
  BY DEF IInv, NoticeInHand, InHand, DecideRight, Pending, RebootDetected,
     EntryOwnership, Wild
<1>5. HandlerShape' /\ RowIsLastReport' /\ LookupRight' /\ RowAge'
      /\ NoAlertInHandler'
  BY DEF IInv, HandlerShape, RowIsLastReport, LookupRight, RowAge, Unsaved,
     NoAlertInHandler
<1> QED
  BY <1>2, <1>3, <1>4, <1>5 DEF IInv

(* A second passes: rows and silences grow older together. *)
LEMMA TickInv == IInv /\ Tick => IInv'
<1> SUFFICES ASSUME IInv, Tick PROVE IInv'
  OBVIOUS
<1> USE DEF Tick, handlerVars, poolVars
<1>1. \A d \in Devices :
        /\ silence'[d] = Older(silence[d])
        /\ db[d] = Null <=> db'[d] = Null
        /\ db[d] # Null => /\ db[d] \in Row
                           /\ db'[d] \in Row
                           /\ db'[d].uptime = db[d].uptime
                           /\ db'[d].age = Older(db[d].age)
  <2> TAKE d \in Devices
  <2>1. CASE db[d] = Null
    BY <2>1 DEF AgeRows
  <2>2. CASE db[d] # Null
    <3>1. db[d] \in Row /\ db[d].age \in Ages
      BY <2>2 DEF IInv, TypeOK, DbTypeOK, Row
    <3>2. Older(db[d].age) \in Ages
      BY <3>1, OlderFacts
    <3>3. db'[d] = [db[d] EXCEPT !.age = Older(@)]
      BY <2>2 DEF AgeRows
    <3>4. db'[d] \in Row /\ db'[d].uptime = db[d].uptime
          /\ db'[d].age = Older(db[d].age)
      BY <3>1, <3>2, <3>3 DEF Row
    <3> QED
      BY <2>2, <3>1, <3>4, NullAssumption
  <2> QED
    BY <2>1, <2>2
<1>2. TypeOK'
  <2>1. DbTypeOK'
    BY <1>1 DEF DbTypeOK, AgeRows
  <2>2. silence' \in [Devices -> Ages]
    BY OlderFacts DEF IInv, TypeOK
  <2>3. left' \in 0 .. Interval
    BY MonitorAssumption DEF IInv, TypeOK
  <2> QED
    BY <2>1, <2>2, <2>3 DEF IInv, TypeOK
<1>3. RowIsLastReport'
  BY <1>1 DEF IInv, RowIsLastReport
<1>4. RowAge'
  <2> SUFFICES ASSUME NEW d \in Devices, db'[d] # Null, ~masked[d],
                      ~(Unsaved /\ report.dev = d)
               PROVE  db'[d].age <= silence'[d]
    BY DEF RowAge, Unsaved
  <2>1. db[d] # Null /\ db[d].age <= silence[d]
    BY <1>1 DEF IInv, RowAge
  <2>2. db[d].age \in Ages /\ silence[d] \in Ages
    BY <1>1, <2>1 DEF IInv, TypeOK, Row
  <2> QED
    BY <1>1, <2>1, <2>2, OlderFacts
<1>5. OutageJustified'
  <2> SUFFICES ASSUME NEW d \in Devices, alerted[d], ~masked[d]
               PROVE  silence'[d] > Threshold
    BY DEF OutageJustified
  <2>1. silence[d] \in Ages /\ silence[d] > Threshold
    BY DEF IInv, TypeOK, OutageJustified
  <2>2. Older(silence[d]) \in Ages /\ silence[d] <= Older(silence[d])
    BY <2>1, OlderFacts
  <2> QED
    BY <1>1, <2>1, <2>2, MonitorAssumption, DatabaseAssumption DEF Ages
<1>6. NoticeInHand' /\ DecideRight' /\ EntryOwnership'
  BY DEF IInv, NoticeInHand, InHand, DecideRight, Pending, RebootDetected,
     EntryOwnership, Wild
<1>7. HandlerShape' /\ LookupRight' /\ NoAlertInHandler'
  BY DEF IInv, HandlerShape, LookupRight, NoAlertInHandler
<1> QED
  BY <1>2, <1>3, <1>4, <1>5, <1>6, <1>7 DEF IInv

(* Starting the process or the timer changes nothing the invariant is      *)
(* about but the types; nor does a step that changes nothing.              *)
LEMMA QuietInv ==
  ASSUME IInv, main \/ on_new_connection \/ UNCHANGED vars
  PROVE  IInv'
<1> USE DEF main, on_new_connection, start_outage_timer, vars, procVars,
            handlerVars, poolVars, historyVars
<1>1. TypeOK'
  <2>1. CASE main
    BY <2>1, MonitorAssumption DEF IInv, TypeOK, DbTypeOK
  <2>2. CASE on_new_connection
    BY <2>2, MonitorAssumption DEF IInv, TypeOK, DbTypeOK
  <2>3. CASE UNCHANGED vars
    BY <2>3 DEF IInv, TypeOK, DbTypeOK
  <2> QED
    BY <2>1, <2>2, <2>3
<1>2. NoticeInHand' /\ DecideRight' /\ EntryOwnership'
  BY DEF IInv, NoticeInHand, InHand, DecideRight, Pending, RebootDetected,
     EntryOwnership, Wild
<1>3. HandlerShape' /\ RowIsLastReport' /\ LookupRight' /\ RowAge'
      /\ NoAlertInHandler' /\ OutageJustified'
  BY DEF IInv, HandlerShape, RowIsLastReport, LookupRight, RowAge, Unsaved,
     NoAlertInHandler, OutageJustified
<1> QED
  BY <1>1, <1>2, <1>3 DEF IInv

(* Every step of the service preserves the invariant. *)
LEMMA NextInv == IInv /\ [Next]_vars => IInv'
<1> SUFFICES ASSUME IInv, [Next]_vars PROVE IInv'
  OBVIOUS
<1>1. CASE shutdown_upkeep
  BY <1>1, DieInv DEF shutdown_upkeep
<1>2. CASE Handler
  BY <1>2, LookupInv, StoreInv, DecideInv DEF Handler
<1> QED
  BY <1>1, <1>2, ReadInv, StartInv, PushInv, ProcessedInv, TimerInv, TickInv,
     QuietInv DEF Next

-----------------------------------------------------------------------------

(* The invariant holds of every reachable state. *)
THEOREM Invariance == Spec => []IInv
BY InitInv, NextInv, PTL DEF Spec

(* Every variable keeps its type; in particular what is read back from the *)
(* signed uptime column is always a uint32_t (database.c:150).             *)
THEOREM TypeCorrect == Spec => []TypeOK
<1>1. IInv => TypeOK
  BY DEF IInv
<1> QED
  BY <1>1, Invariance, PTL

(* No pool thread reads an uptime_entry_t that the loop freed, and no      *)
(* entry leaks (main.c:107-141 against main.c:64-73).                      *)
THEOREM EntriesOwned == Spec => []EntryOwnership
<1>1. IInv => EntryOwnership
  BY DEF IInv
<1> QED
  BY <1>1, Invariance, PTL

(* A reboot that the reports on record show is in hand until it is pushed  *)
(* (main.c:119-141), whatever the database does to the service.            *)
THEOREM NoticesInHand == Spec => []NoticeInHand
<1>1. IInv => NoticeInHand
  BY DEF IInv
<1> QED
  BY <1>1, Invariance, PTL

(* No outage push for a device whose last stored report is recent enough   *)
(* (main.c:80-93).                                                         *)
THEOREM OutagesJustified == Spec => []OutageJustified
<1>1. IInv => OutageJustified
  BY DEF IInv
<1> QED
  BY <1>1, Invariance, PTL

=============================================================================
