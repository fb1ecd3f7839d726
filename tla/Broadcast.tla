------------------------------ MODULE Broadcast ------------------------------
(***************************************************************************)
(* The ring of reports in src/src/web_interface.c: broadcast_report, which *)
(* reboot jobs run on the threads of the libuv pool and the outage timer   *)
(* runs on the event loop, and cleanup_ringbuffer, which the signal        *)
(* handler runs on the event loop's stack.  Nothing serializes them, so    *)
(* each access to ws_ring_buffer and ws_ringbuffer_current is a step.      *)
(***************************************************************************)
EXTENDS Integers, Sequences, FiniteSets

CONSTANTS
  Size,      \* the 10 slots of ws_ring_buffer
  Threads,   \* the threads that call broadcast_report
  Loop,      \* the one of them that runs the event loop
  Bufs,      \* addresses malloc may return for a padded message
  Null

ASSUME BroadcastAssumption ==
  /\ Size \in Nat \ {0, 1}
  /\ Loop \in Threads
  /\ Null \notin Bufs

VARIABLES
  proc,      \* "up", "aborted" (the heap was corrupted), "exited", or
             \* "faulted" (a wild pointer in a callback of Sessions)
  ring,      \* ws_ring_buffer
  current,   \* ws_ringbuffer_current
  live,      \* the messages that are allocated
  pc,        \* per thread, the line of broadcast_report it is about to run
  next,      \* per thread, its ringbuffer_next
  buf,       \* per thread, its buf
  sweep,     \* the slot cleanup_ringbuffer is at; Size: done; -1: not begun
  swept      \* that slot's message has been freed, the slot not yet cleared

(***************************************************************************)
(* History.                                                                *)
(***************************************************************************)
VARIABLES
  raced,     \* two of these calls have been under way at the same time
  collided,  \* and two broadcasts had taken the same slot to replace, or one
             \* was under way together with the handler
  recent     \* the messages of the last Size completed broadcasts, newest
             \* first; not followed any further once two calls overlapped

ringVars == <<ring, current, live>>
threadVars == <<pc, next, buf>>
sweepVars == <<sweep, swept>>
historyVars == <<raced, collided, recent>>
vars == <<proc, ringVars, threadVars, sweepVars, historyVars>>

Slots == 0 .. (Size - 1)

Running(t) == proc = "up" /\ (t = Loop => sweep = -1)

Idle(t) == pc[t] = "idle"

-----------------------------------------------------------------------------

Init ==
  /\ proc = "up"
  /\ ring = [i \in Slots |-> Null]
  /\ current = 0
  /\ live = {}
  /\ pc = [t \in Threads |-> "idle"]
  /\ next = [t \in Threads |-> 0]
  /\ buf = [t \in Threads |-> Null]
  /\ sweep = -1
  /\ swept = FALSE
  /\ raced = FALSE
  /\ collided = FALSE
  /\ recent = <<>>

(* serialize_report and generate_lws_padded_msg: a new message.  (The      *)
(* serialized copy it is made from is never freed; only the padded message *)
(* is followed here.)                                                      *)
generate_lws_padded_msg(t) ==
  /\ Running(t)
  /\ Idle(t)
  /\ \E b \in Bufs \ live :
       /\ live' = live \cup {b}
       /\ buf' = [buf EXCEPT ![t] = b]
  /\ pc' = [pc EXCEPT ![t] = "index"]
  /\ raced' = (raced \/ sweep # -1 \/ \E o \in Threads : ~Idle(o))
  /\ collided' = (collided \/ sweep # -1)
  /\ UNCHANGED <<proc, ring, current, next, sweepVars, recent>>

(* Mutant: the index wraps one slot late, past the end. *)
NextIndex_late == (current + 1) % (Size + 1)

(* (ws_ringbuffer_current + 1) % 10 *)
NextIndex == (current + 1) % Size

(* A thread that has chosen its slot and not yet stored into it. *)
Replacing(t) == pc[t] \in {"test", "free", "store"}

(* int ringbuffer_next = (ws_ringbuffer_current + 1) % 10; *)
broadcast_index(t) ==
  /\ Running(t)
  /\ pc[t] = "index"
  /\ next' = [next EXCEPT ![t] = NextIndex]
  /\ pc' = [pc EXCEPT ![t] = "test"]
  /\ collided' = (collided \/ \E o \in Threads : Replacing(o) /\ next[o] = NextIndex)
  /\ UNCHANGED <<proc, ringVars, buf, sweepVars, raced, recent>>

(* if (ws_ring_buffer[ringbuffer_next] != NULL) *)
broadcast_test(t) ==
  /\ Running(t)
  /\ pc[t] = "test"
  /\ pc' = [pc EXCEPT ![t] = IF ring[next[t]] # Null THEN "free" ELSE "store"]
  /\ UNCHANGED <<proc, ringVars, next, buf, sweepVars, historyVars>>

(* Mutant: the pointer is dropped without being freed. *)
free_lws_padded_msg_leak(b) == UNCHANGED <<proc, live>>

(* free(): nothing for NULL, an abort of the process for a second time. *)
free_lws_padded_msg(b) ==
  /\ proc' = IF b = Null \/ b \in live THEN proc ELSE "aborted"
  /\ live' = live \ {b}

(* free_lws_padded_msg(ws_ring_buffer[ringbuffer_next]) reads the slot     *)
(* again.                                                                  *)
broadcast_free(t) ==
  /\ Running(t)
  /\ pc[t] = "free"
  /\ free_lws_padded_msg(ring[next[t]])
  /\ pc' = [pc EXCEPT ![t] = "store"]
  /\ UNCHANGED <<ring, current, next, buf, sweepVars, historyVars>>

(* Mutant: the message goes to the slot that is current, not to the next.  *)
broadcast_store_current(t) ==
  /\ Running(t)
  /\ pc[t] = "store"
  /\ ring' = [ring EXCEPT ![current] = buf[t]]
  /\ pc' = [pc EXCEPT ![t] = "publish"]
  /\ UNCHANGED <<proc, current, live, next, buf, sweepVars, historyVars>>

(* ws_ring_buffer[ringbuffer_next] = buf *)
broadcast_store(t) ==
  /\ Running(t)
  /\ pc[t] = "store"
  /\ ring' = [ring EXCEPT ![next[t]] = buf[t]]
  /\ pc' = [pc EXCEPT ![t] = "publish"]
  /\ UNCHANGED <<proc, current, live, next, buf, sweepVars, historyVars>>

(* ws_ringbuffer_current = ringbuffer_next *)
broadcast_publish(t) ==
  /\ Running(t)
  /\ pc[t] = "publish"
  /\ current' = next[t]
  /\ pc' = [pc EXCEPT ![t] = "notify"]
  /\ UNCHANGED <<proc, ring, live, next, buf, sweepVars, historyVars>>

(* lws_callback_on_writable_all_protocol(context, protocols).  Once the    *)
(* signal handler has destroyed the context this reads freed memory, and   *)
(* the process may or may not survive it.                                  *)
broadcast_notify(t) ==
  /\ Running(t)
  /\ pc[t] = "notify"
  /\ proc' \in IF sweep = -1 THEN {proc} ELSE {proc, "aborted"}
  /\ pc' = [pc EXCEPT ![t] = "idle"]
  /\ buf' = [buf EXCEPT ![t] = Null]
  /\ next' = [next EXCEPT ![t] = 0]
  /\ recent' = IF raced THEN <<>>
               ELSE SubSeq(<<buf[t]>> \o recent, 1,
                           IF Len(recent) < Size THEN Len(recent) + 1 ELSE Size)
  /\ UNCHANGED <<ringVars, sweepVars, raced, collided>>

-----------------------------------------------------------------------------
(* shutdown_upkeep interrupts the loop between any two steps, for good; it *)
(* destroys the context and enters cleanup_ringbuffer.                     *)
shutdown_webserver ==
  /\ proc = "up"
  /\ sweep = -1
  /\ sweep' = 0
  /\ raced' = (raced \/ \E t \in Threads : ~Idle(t))
  /\ collided' = (collided \/ \E t \in Threads : ~Idle(t))
  /\ UNCHANGED <<proc, ringVars, threadVars, swept, recent>>

(* Free the message of one slot, then clear the slot. *)
cleanup_free ==
  /\ proc = "up"
  /\ sweep \in Slots
  /\ ~swept
  /\ ring[sweep] # Null
  /\ free_lws_padded_msg(ring[sweep])
  /\ swept' = TRUE
  /\ UNCHANGED <<ring, current, threadVars, sweep, historyVars>>

cleanup_clear ==
  /\ proc = "up"
  /\ sweep \in Slots
  /\ swept
  /\ ring' = [ring EXCEPT ![sweep] = Null]
  /\ swept' = FALSE
  /\ sweep' = sweep + 1
  /\ UNCHANGED <<proc, current, live, threadVars, historyVars>>

cleanup_skip ==
  /\ proc = "up"
  /\ sweep \in Slots
  /\ ~swept
  /\ ring[sweep] = Null
  /\ sweep' = sweep + 1
  /\ UNCHANGED <<proc, ringVars, threadVars, swept, historyVars>>

(* ws_ringbuffer_current = 0, and exit(0) a little later. *)
cleanup_end ==
  /\ proc = "up"
  /\ sweep = Size
  /\ proc' = "exited"
  /\ current' = 0
  /\ UNCHANGED <<ring, live, threadVars, sweepVars, historyVars>>

-----------------------------------------------------------------------------

broadcast_report(t) ==
  \/ generate_lws_padded_msg(t)
  \/ broadcast_index(t)
  \/ broadcast_test(t)
  \/ broadcast_free(t)
  \/ broadcast_store(t)
  \/ broadcast_publish(t)
  \/ broadcast_notify(t)

cleanup_ringbuffer == cleanup_free \/ cleanup_clear \/ cleanup_skip \/ cleanup_end

Next ==
  \/ \E t \in Threads : broadcast_report(t)
  \/ shutdown_webserver
  \/ cleanup_ringbuffer

Spec == Init /\ [][Next]_vars

-----------------------------------------------------------------------------

TypeOK ==
  /\ proc \in {"up", "aborted", "faulted", "exited"}
  /\ ring \in [Slots -> Bufs \cup {Null}]
  /\ current \in Slots
  /\ live \in SUBSET Bufs
  /\ pc \in [Threads -> {"idle", "index", "test", "free", "store", "publish",
                         "notify"}]
  /\ next \in [Threads -> Slots]
  /\ buf \in [Threads -> Bufs \cup {Null}]
  /\ sweep \in -1 .. Size
  /\ swept \in BOOLEAN
  /\ raced \in BOOLEAN
  /\ collided \in BOOLEAN
  /\ recent \in Seq(Bufs)

(* Slots whose message has just been freed and is about to be replaced. *)
BeingFreed(i) ==
  \/ \E t \in Threads : pc[t] = "store" /\ next[t] = i
  \/ sweep = i /\ swept

(* Messages that a thread has made and not yet put into the ring. *)
HeldBy(t) == pc[t] \in {"index", "test", "free", "store"}

(* Slots that hold a message. *)
Holds(i) == ring[i] # Null /\ ~BeingFreed(i)

(* Broadcasts may overlap, in the pool and on the loop: as long as no two  *)
(* of them are replacing the same slot, and none meets the handler, the    *)
(* ring is memory safe.  The process is not aborted, every slot holds a    *)
(* message that is still allocated and no other slot holds, and every      *)
(* allocated message is in the ring or in the hands of one thread that is  *)
(* about to put it there: no padded message leaks.                         *)
RingMemorySafe ==
  ~collided =>
    /\ proc # "aborted"
    /\ \A i \in Slots : Holds(i) => ring[i] \in live
    /\ \A i, j \in Slots : i # j /\ Holds(i) /\ Holds(j) => ring[i] # ring[j]
    /\ \A b \in live : \/ \E i \in Slots : Holds(i) /\ ring[i] = b
                       \/ \E t \in Threads : HeldBy(t) /\ buf[t] = b

(* The slots, from the current one backwards. *)
Back(k) == (current - k) % Size

(* As long as no two calls overlap, the ring holds the messages of the     *)
(* last Size broadcasts, in order, the newest in the current slot and the  *)
(* oldest in the one that the next broadcast replaces.                     *)
SerialRingKeeps ==
  ~raced /\ sweep = -1 /\ (\A t \in Threads : Idle(t)) =>
    \A k \in DOMAIN recent : ring[Back(k - 1)] = recent[k]

=============================================================================
