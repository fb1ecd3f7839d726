# A TLA+ model of upkeep

`upkeep` is a small C service. Devices connect over TCP and report how long they
have been up; the service keeps the last report of each device in SQLite, notices
when a device has rebooted or fallen silent, and pushes such reports to browsers
through a websocket. This directory models its own code (`src/src/*.c`), checks the
model with TLC on small instances, and proves with TLAPS, for every value of the constants, every
invariant and every action property that the passing runs check.

## 1. Inventory

| Component | State | Operations | Runs on |
|---|---|---|---|
| Registration and notification, `main.c` | `outage_timer`; the entry in hand; jobs queued with libuv | `on_new_connection`, `on_read_unit_complete`, `register_uptime_report`, `on_device_reboot`, `on_device_reboot_processed`, `on_outage_timer`, `main`, `shutdown_upkeep` | event loop; `on_device_reboot` on the thread pool; `shutdown_upkeep` in a signal handler |
| Uptime table, `database.c` | the table `uptime` on disk | `init_database`, `insert_uptime_entry`, `get_uptime_record`, `get_last_known_uptime`, `uptime_record_foreach`, `free_uptime_record` | event loop |
| Ring of reports, `web_interface.c` | `ws_ring_buffer[10]`, `ws_ringbuffer_current` | `broadcast_report`, `cleanup_ringbuffer` | pool threads and event loop; clean-up in the signal handler |
| Web server, `web_interface.c` | `context`, `service_timer`, `running`, `whitelist`, each session's `ring_buffer_pos` | `init_webserver`, `callback_http`, `callback_ws_event`, the service timer, `shutdown_webserver` | event loop |
| Log, `logger.c` | `queued_logs` and its lock, `flush_ongoing`, `logger_initialized` | `log_*`, `schedule_flush`, `on_flushing_thread`, `on_flushing_thread_done`, `force_log_flush`, `log_synchronous`, `init_logger`, `shutdown_logger` | event loop, pool, signal handler |
| Linked list, `list.c` | cells, `head`, `tail` | append, free, foreach, contains | its caller |
| Encoding, `serialization.c`, `protobuf_models/` | none | serialize, deserialize | its caller |
| Clock, `time_utils.c` | none | current time, formatting | its caller |

How they interact. A read callback decodes a chunk, looks the device up in the table,
stores the new report and, on a reboot, gives the stored entry to a pool job; the job
puts a message into the ring and wakes libwebsockets; the job's callback, back on the
loop, frees the entry. The outage timer walks the table on the loop and puts messages
into the same ring. Every component logs; the log uses the same pool. A signal runs
`shutdown_upkeep` on top of whatever the loop was doing, tears the web server and the
log down and exits, while pool threads run on.

What is hard here: the ring has no lock and several writers; an entry changes hands
between the loop and the pool; a report is stored before its reboot is acted on, so a
death in between loses the notice for good; busy or failing database calls are partly
ignored, partly fatal; the log's queue, its flag and its job are handed over in steps
that a signal may interrupt; uptimes pass through a signed column; and three places
read a value the program never produced.

What makes each component correct:

* registration: each entry is owned by one party and freed once; a reboot on record is
  acted on; an outage is pushed when, and only when, the device is overdue;
* table: what is read back is what was stored;
* ring: memory safe, and it holds the last ten reports in order;
* log: no message lost or doubled by a hand-over, order kept, nothing left in the queue at exit;
* sessions: what a callback has read from the ring is what its position stands for, and is still
  allocated when it is written; whoever is behind is brought up to date;
* start and stop: whatever a signal interrupts, the shutdown releases what the pointers show, and ends;
* list: it implements a sequence, with no dangling pointer and no leak;
* connection: an uptime is registered at most once and in the order it was sent, however TCP
  cuts the stream, none is made up, and the newest one is registered;
* the whole: an entry outlives its push, and a reboot ends up in the current slot of the ring.

`PROJECT.json` lists the hazards one by one, at the line where each bites, with the
properties that cover it or the reason none does yet.

## 2. Modules

| Module | Models | Extends |
|---|---|---|
| `Database` | the calls of `database.c`, one step each, with their outcomes | – |
| `Monitor` | `main.c` over the table, the pool, the clock, death and restart | `Database` |
| `Broadcast` | `broadcast_report` and `cleanup_ringbuffer`, a step per shared access | – |
| `Sessions` | the websocket sessions that read the ring (`callback_ws_event`) | `Broadcast` |
| `Upkeep` | the composition: `Monitor` with the ring's steps in place of its push | `Monitor`, instantiates `Broadcast` |
| `Lifecycle` | start, stop, the two timers, HTTP requests and the whitelist | – |
| `Connection` | one connection: reads of a TCP stream, decoded as whole messages | – |
| `LinkedList` | `list.c` over a heap of cells | instantiates `AbstractList` |
| `AbstractList` | the sequence that a list promises to be | – |
| `Logger` | `logger.c` with its pool job, and the signal handler on top of the loop | – |
| `SessionsMC`, `UpkeepMC` | symmetry for TLC | `Sessions`, `Upkeep` |
| `MonitorProofs`, `BroadcastProofs`, `LifecycleProofs`, `ConnectionProofs`, `LinkedListProofs`, `LoggerProofs` | inductive invariants and theorems | their component |
| `SessionsProofs` | the same, on top of the ring's | `Sessions`, `BroadcastProofs` |
| `UpkeepProofs` | the same, from those of its two parts | `Upkeep`, `MonitorProofs`, instantiates `BroadcastProofs` |

An operator ending in a suffix such as `_leak` or `_signed`, with the comment "Mutant",
is a deliberately wrong variant of the definition that follows it. It is used to test
that a property can fail; no specification uses it.

### Database and Monitor

`db` is the table: per device, `Null` or a row. `uptime` is kept signed, as
`sqlite3_bind_int` passes it, and read back through the conversion to `uint32_t`
(`BindInt`, `ColumnInt`; `Half` is 2^31). `last_update` is kept as the age of the row,
because its only reader subtracts it from the present time and compares the difference
with a threshold; ages saturate at `MaxAge`, above the threshold. This takes the clock
to be monotone. `description` is left out: nothing is decided on it.

`register_uptime_report` is three steps (look up, store, decide), so that kills and
pool threads can come between; it is one callback, so no other callback of the loop
can (`LoopIdle`). `heap` and `stage` are the `uptime_entry_t` allocations and the state
of their pool jobs. `Die` is the end of the process from any cause: memory goes, the
table stays; `main` starts it again.

The variables under "History" in `Monitor` are what an observer of the devices would
know; no guard of the code reads them. `notice[d]` becomes "owed" when a report that
reached the code shows a reboot (a young uptime, or an uptime below the one last heard,
with no earlier fault having hidden that one from the table), "none" when it is pushed
and "dropped" when the process dies first. `masked[d]` says the device's last report
never reached its row.

**Undefined behaviour is a choice**, over a set of outcomes a configuration gives:

* `StoreReturn`: `store_uptime_report_in_db` has no `return` (`main.c:117`). "wild" is
  what gcc builds produce (NULL without optimisation, a leftover otherwise); "entry" is
  what the caller expects.
* `ForeachCall`: `uptime_record_foreach` calls the address of its own parameter
  (`database.c:200`). "fault" is what happens on a non-executable stack; "callee" is what
  the caller expects.
* `UninitActive`: `uv_is_active` reads memory fresh from `malloc` (`main.c:100`). Both
  answers occur.

The theorems allow *every* outcome, those of the compiled program among them, so they hold of
it. So do the passing runs `monitor_device`, `sessions_ring` and `lifecycle`. As built, the service
never gets beyond its first faults, and without the benign outcomes the model would have nothing
to say about the code behind them. `upkeep_push`, which asks about that code, takes only the
benign ones (`StoreReturn` "entry", `ForeachCall` "callee", a fresh handle that does not read as active):
what it shows is about the push of a service whose two functions do what their callers expect.
The violation runs `monitor_as_built` and `monitor_foreach` take only what the compiled program does; `monitor_foreach`
lets the fresh handle read as not active, or there would be no timer to walk. `sessions_wake` takes
the benign outcomes of the greeting ("sent") and of `lws_write` ("returns"), so that its violation is not owed to them; the
defect it shows, the protocol that is woken, does not depend on either.

### Broadcast

Each read or write of `ws_ring_buffer` and `ws_ringbuffer_current` is a step of a
thread. `live` is the set of allocated messages; `free` of something not in it aborts
the process, as glibc does. The address that `malloc` returns may be one just freed. The
handler takes over the event loop for good (`sweep`), assuming, as Linux does, that
the signal is delivered to the main thread; after it has destroyed the context a pool
thread that still notifies libwebsockets may or may not survive. `raced`, `collided` and `recent`
are history: `raced` says that two calls have overlapped at all, `collided` that they have done so in a way
that can corrupt the ring, two of them between choosing the same slot and storing into it, or one beside the handler.

### Sessions

`callback_ws_event` runs on the loop, inside `lws_service`, while pool threads broadcast on. A
session has its position in the ring and takes part in what libwebsockets was asked to call back
(`asked`). The body of the callback's loop is two steps, because other threads may free between them what it
has read: `read_report` takes the pointer out of the slot (`to_write`), `write_report` calls `lws_write` and moves the position.
Four peculiarities of the code are kept: `broadcast_report` asks for callbacks of
`protocols`, the first entry of the array, which is HTTP; the slot is read before the position moves, so that
the first report read is the one the session started at and not the one after it; `lws_write` gets its arguments in the
wrong order and may or may not survive it (`Write`); and `ring_buffer_pos % 10` is assigned where
the next position is meant (`Advanced`). The greeting that sends the whole table walks a record,
with the outcomes of `uptime_record_foreach` (`Greeting`). `Unasked` lets libwebsockets report a
socket writeable of its own accord. `behind`, capped by `MaxBehind`, which is at least a lap, and `start`, the
report a session started at, are history.

### Upkeep

`Monitor` takes a push for one step. `Upkeep` replaces it: a reboot job runs the steps of
`broadcast_report` as the pool thread of its entry, the outage timer reads the table in one
step and then runs them once per overdue device (`todo`) on the loop, and the signal handler freezes
the loop and sweeps the ring while the pool runs on. `B!` is `Broadcast` with the entries and the
loop as its threads. A free of a message that is already free ends the process (`Survives`).
The model follows one life of the process. `about` is history: the device of each message.

### Lifecycle

`main()` from the moment its signal handlers are installed. The program counter `pc` is that of
`main` and its callbacks, `stop` that of the topmost `shutdown_upkeep`, which starts again from
its beginning when another signal arrives (`again`; a third is not modelled). `mem` says of each object
whether its pointer is NULL, the object is allocated and its pointer not yet stored ("made"), stored, or freed and still stored: an allocation and the
store of its result are two steps, and a signal between them finds NULL. `shutdown_upkeep` frees `outage_timer` and the context and keeps the pointers, so a second
pass frees them twice. Each timer handle is asked whether it is active before it is initialised,
and reads as it may (`"stale"` or `"blank"`). A frame that asks for `running_lock` while the frame
below it holds it is aborted by libuv. The handler also logs, allocates and frees: when the frame it interrupted was inside
`malloc`, `free` or zlog (`held`, chosen at each signal), it may wait for that frame's lock at any of its steps, for ever (`shutdown_waits`). Requests wait for the service timer; a URI that is not on
the whitelist makes `serve_file` read through NULL. File contents, paths and MIME types are left out; the call of
`cleanup_ringbuffer` is in `Broadcast`.

### Connection

A message is three fields of two units, so that a read may end between messages, between fields or
inside a field. What protobuf-c makes of the units of a read is external, and modelled from
the field descriptors (all required): several messages decode as one in which the last value of each field
counts, a cut-off field is an error, and bytes from the middle of a field may decode to anything. `uptimes` records whatever
uptime is registered, 0 standing for one that no message had.
`handle` is `"leaked"` for good after a failed accept, which closes it with no callback to free it. Connections
share nothing but what they register, so one is modelled.

### LinkedList

Every function of `list.c`. A walk is a step per cell, because each step calls back or frees. Addresses are handed out
again after `free`. `chain` and `k` are history; the refinement maps the list to the sequence of
the data of its chain.

### Logger

The loop and the handler are two frames of one thread; once the handler runs, the loop
is frozen for good. `queued_logs` is a sequence of message numbers, taken as a whole
by `schedule_flush` and written one by one by a job. A frame that asks for the lock the
frame below it holds gets `EDEADLK`, on which libuv aborts. `log_synchronous` bypasses
the queue, and some of its callers `_exit`. `MaxLogs` bounds the messages; it is at least 1, the
version that `main()` logs. A second
signal during the handler is not modelled, nor are the locks of libc and zlog (the handler that waits for one is in `Lifecycle`).

## 3. Runs

| Run | Bounds | Checks |
|---|---|---|
| `monitor_device` | 1 device, uptimes 0..3, 2 entries, 1 pool thread, all faults, outcomes and kills; fair | `TypeOK`, `EntryOwnership`, `NoticeInHand`, `OutageJustified`, `RebootPushed`, `OutagePushed` |
| `upkeep_push` | 2 devices, uptimes 0..1, 1 entry, 1 pool thread beside the loop, ring of 2, 3 messages, a signal; benign outcomes of the undefined reads | `UpkeepTypeOK`, `PushReadsLiveEntry`, `RebootIsCurrent` |
| `sessions_ring` | ring of 3, 2 threads, 4 addresses, 1 client, up to a lap behind, all outcomes, a signal | `SessionTypeOK`, `RingMemorySafe`, `SerialRingKeeps`, `WritesOnlyWhenBehind`, `ReadsItsStart` |
| `lifecycle` | 2 listed URIs and 1 unlisted, two signals, each with or without a lock below it, both readings of each fresh timer; fair | `TypeOK`, `ExitReleasesAll`, `CrashHasCause`, `RequestsAreAnswered`, `ShutdownEnds` |
| `connection_stream` | 3 messages per connection, every cut, reconnections | `TypeOK`, `UptimesInOrder`, `NewestSurvives` |
| `linked_list` | 4 cells, 2 data, freed and built again without end | `TypeOK`, `Linked`, `ListIsSequence` |
| `logger_log` | 5 messages and the handler's 2; fair | `TypeOK`, `MessageInOnePlace`, `PoolInOrder`, `ExitWritesQueue`, `AbortHasCause`, `FlushEnds` |
| `monitor_as_built` | 1 device, 3 entries, 2 pool threads, compiled outcomes, no kill, no database fault | `RebootsAreNotified` is violated |
| `monitor_foreach` | the same, fair, always restarted and reconnected | `OutagesAreNotified` is violated |
| `connection_split` | 2 messages | `ReportsAreRegistered` is violated |
| `sessions_wake` | ring of 2, 2 threads, 1 client, benign outcomes; fair | `ClientsAreKeptUpToDate` is violated |

Why the bounds are enough to be interesting. In `monitor_device`, `Half = 2` gives two uptimes on
each side of the sign and `Fresh = 1` young and old ones; ages reach below, at and above the
threshold; with two entries one job can wait, run or be finished while the next report is handled.
`upkeep_push` has a device more than entries, so that the outage timer has several pushes to make while
a job makes one; its uptimes are one young and one old. A ring of 3 wraps many times, four addresses are one
more than it holds, and `MaxBehind` lets a session be lapped. Three messages give reads that join two and cut
the third. Four cells let a list grow, be freed and be built of the same cells again. Five log messages are enough for a
batch in a job, a later one stranded in the queue and a forced flush beside them. Deadlock is not checked
where the process, the connection or the log may simply have ended; the `monitor`, `upkeep` and `linked_list` runs check it.

What they show. As long as the process lives, a reboot that the table can show is carried
to its push; an outage push is never false when it is decided, unless an insert was silently lost or the
process died before it; entries are freed once, and not under a push. Calls of `broadcast_report` that overlap keep the
ring memory safe unless two of them replace the same slot or one meets the handler; calls that do not overlap also keep the last reports
in order. A session's callback reads the report its session started at, and that report stays allocated until `lws_write`
as long as the session is less than a lap less one slot behind. A shutdown that comes to `exit` has released all that it frees at all, whatever it
interrupted, but for one object that was allocated and not yet stored; a second signal may make it free things
twice. It ends, unless it interrupted a frame inside `malloc`, `free` or the log. However TCP cuts the stream, no message's uptime comes twice or late,
and none is made up unless a read ended inside a message. Of the log, each message is in
one place whatever the signal interrupts, and `exit(0)` leaves only what a job of the pool, or a `schedule_flush` it interrupted, had in hand unwritten; a signal
makes the log abort the process only if it caught the loop under the lock, or a job outlives `zlog_fini`.

The four violations are defects of the code against what its documentation says:

1. `monitor_as_built`: the missing `return` (`main.c:117`) takes the process down after each stored
   report; `README.md:5` promises notices of reboots.
2. `monitor_foreach`: the wrong `&` (`database.c:200`) takes it down at each walk of a non-empty
   record, the outage timer's included; the same line promises notices of devices that go down.
3. `connection_split`: a read that ends inside a message (`main.c:158`) loses the report; "handles
   device registration" (`README.md:5`).
4. `sessions_wake`: a broadcast never asks a websocket session to write (`web_interface.c:288`);
   `web_interface.c:4` says "keep connected clients up-to-date".

The model contains further defects that have no run of their own, because the repository says nothing they
contradict or because one of the above already hides them. The properties that would otherwise hold of these places
name them as their exceptions, or say what the code does instead:

* the ring has no lock (`web_interface.c:280-286`): two broadcasts may replace the same slot, and a report is lost or freed twice; a
  broadcast may also meet the handler's clean-up (`:240`);
* the writeable callback reads its slot before it moves on (`:153`): a session would send the report from before it connected and
  never the newest one;
* a session's position never advances, so the loop of its callback would not end (`:155`);
* a session exactly one lap behind looks up to date (`:152`), and one nearly a lap behind may have its report freed before `lws_write`;
* an unlisted URI is a read through NULL (`:75`);
* a timer whose fresh memory reads as active is never started (`main.c:100`, `web_interface.c:209`);
* a restarted service watches no device until one connects (`main.c:184`);
* `shutdown_upkeep` keeps pointers it has freed (`main.c:26`), does not see an object that is not yet stored (`web_interface.c:222`, `:249`, `:300`), and calls
  functions that are not safe in a signal handler, where it may wait for ever (`main.c:21`).

### Fairness

`Monitor!Fairness`: a callback that has begun ends (weak); a pool thread runs the job it
took (weak); the clock ticks (weak); a queued job is eventually taken (strong, because
threads become free again and again and the pool's queue is FIFO); a due timer is run
(strong, because each turn of libuv's loop runs due timers before it polls, so input
cannot pass it over for ever). Neither kills, nor restarts, nor reports are fair.
The timer's fairness is that of a walk of the whole record: the table is not busy each time the
timer reads it, or no outage would ever be pushed.
`SupervisedSpec` adds restarts and connections, to show that they do not help.
`Logger!Fairness`: calls that have begun go on, `main` reaches `uv_run`, a job is run, and its callback is delivered (strong, for
the same reason).

`Lifecycle!Fairness`: `main()` and a handler that waits for no lock go on (one that waits has no step to take; `ShutdownEnds` excepts
the frames that can make it wait), and the loop runs its due service timer (weak
each); requests and signals are not fair. `Sessions!SessionFairness`: a broadcast that has begun
and the loop of a callback go on (weak), and libwebsockets makes the callbacks it was asked for (strong:
other callbacks take turns with it on the loop).

## 4. Proofs

`MonitorProofs` proves, for any devices, uptime width, thresholds, interval, addresses, pool
size and allowed outcomes (assumptions: `DatabaseAssumption`, `NullAssumption`,
`MonitorAssumption`, which say that these are numbers and sets of the right kind, that the
age bound is above the threshold, and that `Null` is not a value):

* `TypeCorrect`: `Spec => []TypeOK`;
* `EntriesOwned`: `Spec => []EntryOwnership`;
* `NoticesInHand`: `Spec => []NoticeInHand`;
* `OutagesJustified`: `Spec => []OutageJustified`.

None of them is inductive alone. `IInv` adds how the row of a device relates to what was
heard of it (unless masked, the row gives back the last uptime heard, `RowIsLastReport`, and
is no older than the silence, `RowAge`), what the handler has in hand at each of its steps
(`HandlerShape`; `LookupRight`: `last` is the uptime heard, unless the lookup missed the row;
`DecideRight`: a reboot that is owed will be detected, or a job of the device still has to
push), and that no outage is pushed inside a report's handler (`NoAlertInHandler`). The reboot argument rests on `UptimeRoundTrip`: `ColumnInt` undoes `BindInt`
for every `uint32_t`. There is one lemma per action; `NextInv` puts them together.

`BroadcastProofs` proves, for a ring of any size of at least 2, any threads and any addresses:

* `TypeCorrect`: every index is in range, overlapping calls included;
* `RingSafe`: `Spec => []RingMemorySafe`, overlapping calls included;
* `RingKeeps`: `Spec => []SerialRingKeeps`.

Its invariant `IInv` adds, for behaviours without a collision, that the clean-up is alone (`SweepAlone`), that threads which are replacing a slot have
one each (`OwnSlot`), that a message not yet stored is allocated, in no slot and in no other hand (`HeldFresh`), and that
the slot about to be overwritten holds nothing allocated; and, for behaviours without an overlap, that at most one call is under way (`OneAtATime`). `RingKeeps` needs a second one, `Keeps`, relative to the first.
It says where the recent messages are at each line of a call: from the current slot backwards; once the new one
is stored, all but the oldest; once the index has moved, the same ones a slot further back, until `broadcast_notify` counts
the new one. The arithmetic is in four lemmas about counting slots backwards modulo `Size` (`BackSteps`,
`NextIndexSteps`, `NextIndexIsOldest`, `PublishShifts`): stepping to the next index turns k back into k + 1 back, and
the slot that is overwritten is the one a whole lap back, no nearer.

`SessionsProofs` proves, for any such ring, any clients and any of the outcomes of greeting and `lws_write`
(`SessionsAssumption`: `MaxBehind` is at least a lap):

* `SessionTypeCorrect`: `[]SessionTypeOK`, overlapping broadcasts included;
* `WritesWhenBehind`: `[]WritesOnlyWhenBehind`, overlapping broadcasts included;
* `SessionsReadTheirStart`: `[]ReadsItsStart`;
* `SessionsKeepRing`: the two properties of the ring, with the callbacks between its steps.

`SInv` is the ring's invariant together with `UpToDate` (a session that no broadcast has left behind is at the current slot, so the callback's
loop is entered only by one that is behind) and `Follows`: without an overlap, a session n < `Size` broadcasts behind
is n slots back, and the ring holds those n, the one published but not yet counted in `recent` included (`Uncounted`).
The report it started at is still in its slot, allocated (`StartKept`), and is what its callback has read (`StartRead`): a broadcast
replaces the slot a whole lap back, which is the session's only from a lap less one on.

`UpkeepProofs` is about the composition, for any devices, entries, pool threads and ring size:

* `UpkeepIsMonitor`: a service whose push is the steps of `broadcast_report` implements `Monitor`, where it is
  one step, if `Monitor` may be killed at any time (`Kills`): an abort in the ring and the exit at the end of the
  handler's sweep are such kills. All theorems about `Monitor` so hold of it;
* `UpkeepRingIsBroadcast`: seen at the ring it implements `Broadcast`, and `UpkeepRingSafe`, which draws the
  conclusion: `RingSafe` and `RingKeeps` hold of the ring in the service;
* `UpkeepTypeCorrect`: `[]UpkeepTypeOK`;
* `PushesReadLiveEntries`: `[]PushReadsLiveEntry`;
* `RebootsAreCurrent`: the action property `RebootIsCurrent`.

They use the invariant of `Monitor` through the first refinement, those of the ring through the second (`BP` is `BroadcastProofs` of the
service's ring; `RingOfProofs` says it is the same ring as `B`), and `PushShape`: before `main()` nothing is pushed, and a push
under way on a pool thread belongs to a job that is running, whose entry `EntryOwnership` keeps allocated. `RebootsAreCurrent`
also needs that the message a job holds stays the one about its entry's device until an overlap (`PushAbout`), which rests on
`RunningEntryStays`: no step of the loop touches the entry of a running job. The last step of the job finds, by `Keeps`, its own message in the current slot.

`LoggerProofs` proves, for any number of messages (`LoggerAssumption`) and a signal between any two steps, `LoggerTypeCorrect`, `MessagesInOnePlace`
(`[]MessageInOnePlace`), `PoolWritesInOrder` (`[]PoolInOrder`), `ExitLeavesNoQueue` (`[]ExitWritesQueue`) and `AbortsHaveCause` (`[]AbortHasCause`). Its invariant `LInv` adds to the types:

* `LockHeld`: a frame is inside its locked section exactly when it holds the lock, and where the handler can be in each of its calls: if the loop was
  caught with the lock, the handler does not get beyond its first;
* `LogBound`: how many messages the handler has logged so far, and that a log that did not start has none;
* `OneFlush`: `flush_ongoing` stands for one flush, of a frame or of the pool's one job. The handler may interrupt `queue_log` before its test
  of the flag, and then flush itself; the interrupted frame never goes on, or there would be two;
* `Split` and `Ordered`: the numbers of the messages so far are those in queue, flush and output, with none in two of them; each list is increasing; and
  what the pool has written is before what is taken, which is before what is queued. A forced flush writes from the queue and so
  overtakes a job, but never the pool's own order.

`LifecycleProofs` proves, whatever is requested and whatever fresh memory reads as, `TypeCorrect`, `Releases` (`[]ExitReleasesAll`) and
`NoCrash` (`[]CrashHasCause`). Its invariant says that before a shutdown nothing is freed (`Intact`), which line an object that is allocated and not
stored belongs to (`InHand`), so that there is at most one (`Alone`), that the service timer runs only behind a context and a full whitelist (`Started`), that a first shutdown
frees nothing twice (`Once`), and that every shutdown, a repeated one too, has released what lies behind it (`Released`).

`ConnectionProofs` proves, for any number of messages, `TypeCorrect`, `InOrder` (`[]UptimesInOrder`) and `Newest` (`[]NewestSurvives`). What was registered lies
within what was read (`Consumed`), and reads that end between messages leave the report of the last one (`AtBoundary`);
an uptime is made up only by a read that began inside a field, so not at such a boundary. All of it rests on `Decoded` and `DecodedWhole`, what a decoding may return for the units it is given.

`LinkedListProofs` proves, for any addresses and data, `TypeCorrect`, `ListLinked` (`[]Linked`) and `ListRefines`: every step of
`list.c` is a step of `AbstractList` or none. The invariant ties head, tail, cursor and links to the chain of cells.

Only model-checked: the liveness properties `RebootPushed`, `OutagePushed`, `RequestsAreAnswered`, `ShutdownEnds` and `FlushEnds`
(fairness and `ENABLED` are beyond the prover), and the four violations, which are counterexamples. What the proofs say of the order of the
ring and of its readers is for calls that do not overlap, and of its memory for calls that do not collide, as in the properties themselves.

## 5. Not modelled

* the text of log messages, SQL and protobuf bytes, byte-level buffer sizes (the query buffer of `database.c:132`
  and the path buffer of `web_interface.c:220` are a byte short), paths, MIME types and file contents, the payload of a websocket
  message (`broadcast_report` takes the size of a pointer for its length and leaks the serialized copy);
* `serialize_report`: it has no state, and nothing in this repository decodes its output;
* `print_time_local`: it only formats a log message;
* SQLite, libuv, libwebsockets, zlog and protobuf-c beyond what the service uses of them; the generated `.pb-c`
  files beyond the field descriptors; the build files. The vendored SQLite is 99% of the lines of the
  repository: the service's own code is about 1,300 lines, of which the modules cover nearly all that changes state,
  and no model of the service can cover more than that share of the whole.

## 6. Plan

Done: all of the service's own components, their composition, and a theorem for every invariant and action property of the passing runs.

Left: what survives a collision in the ring (a message in hand is a message, what a slot holds was once broadcast) could be stated as a
property of its own; the locks of libc and zlog could be followed in `Logger` as they are in `Lifecycle`.
