------------------------------ MODULE Sessions ------------------------------
(***************************************************************************)
(* The websocket sessions of src/src/web_interface.c over the ring of      *)
(* Broadcast.  callback_ws_event runs on the event loop, from lws_service; *)
(* broadcasts on other threads go on while it runs, and the loop does      *)
(* nothing else until it returns.                                          *)
(***************************************************************************)
EXTENDS Broadcast

CONSTANTS
  Clients,   \* websocket connections
  Greeting,  \* how the walk that sends the table ends: "sent", "fault"
  Write,     \* how lws_write, given 1 as its buffer, ends: "returns", "fault"
  Unasked,   \* may libwebsockets report a socket writeable unasked, as it
             \* does after it has sent the rest of a partial write?
  MaxBehind  \* bound: broadcasts counted since a session was established

ASSUME SessionsAssumption ==
  /\ Greeting \subseteq {"sent", "fault"}
  /\ Write \subseteq {"returns", "fault"}
  /\ Unasked \in BOOLEAN
  /\ MaxBehind \in Nat
  /\ MaxBehind >= Size
  /\ Null \notin Clients

VARIABLES
  session,   \* per client: "none" or "open"
  pos,       \* per client, the ring_buffer_pos of its session
  asked,     \* the clients whose next writeable callback was asked for
  writing,   \* the client whose writeable callback is in its loop, or Null
  line,      \* what that loop does next: "read" a slot, "write" a report
  to_write   \* the report it has read

(***************************************************************************)
(* History.                                                                *)
(***************************************************************************)
VARIABLES
  behind,    \* per client, the broadcasts since its session was established
  start      \* per client, the report that was the current one at that time;
             \* not followed any further once two calls overlapped

loopVars == <<writing, line, to_write>>
sessionVars == <<session, pos, asked, loopVars, behind, start>>
allVars == <<vars, sessionVars>>

SessionInit ==
  /\ Init
  /\ session = [c \in Clients |-> "none"]
  /\ pos = [c \in Clients |-> 0]
  /\ asked = {}
  /\ writing = Null
  /\ line = "read"
  /\ to_write = Null
  /\ behind = [c \in Clients |-> 0]
  /\ start = [c \in Clients |-> Null]

Open == {c \in Clients : session[c] = "open"}

-----------------------------------------------------------------------------
(* The protocol whose connections broadcast_report asks to be called back: *)
(* protocols is the address of the first entry of the array.               *)
NotifiedProtocol == "http-only"

(* A step of broadcast_report; the loop takes none while it is in a        *)
(* writeable callback.                                                     *)
broadcast(t) ==
  /\ t = Loop => writing = Null
  /\ broadcast_report(t)
  /\ asked' = IF pc[t] = "notify" /\ NotifiedProtocol = "ws-event"
              THEN asked \cup Open ELSE asked
  /\ behind' = IF pc[t] # "publish" THEN behind
               ELSE [c \in Clients |->
                       IF c \in Open /\ behind[c] < MaxBehind
                       THEN behind[c] + 1 ELSE behind[c]]
  /\ start' = IF raced' THEN [c \in Clients |-> Null] ELSE start
  /\ UNCHANGED <<session, pos, loopVars>>

(* shutdown_upkeep interrupts whatever the loop does. *)
shutdown ==
  /\ shutdown_webserver \/ cleanup_ringbuffer
  /\ UNCHANGED sessionVars

-----------------------------------------------------------------------------
(* The loop is in lws_service and about to call back. *)
CallBack == Running(Loop) /\ Idle(Loop) /\ writing = Null

(* Mutant: the position of a new session is left at zero. *)
on_established_zero(c) ==
  /\ CallBack
  /\ session[c] = "none"
  /\ session' = [session EXCEPT ![c] = "open"]
  /\ start' = [start EXCEPT ![c] = IF raced THEN Null ELSE ring[current]]
  /\ UNCHANGED <<vars, pos, asked, loopVars, behind>>

(* LWS_CALLBACK_ESTABLISHED: the session starts at the current report and  *)
(* is sent the table; the walk may not survive the call through the        *)
(* address of its parameter.  Falling through to CLOSED only logs.         *)
on_established(c) ==
  /\ CallBack
  /\ session[c] = "none"
  /\ session' = [session EXCEPT ![c] = "open"]
  /\ pos' = [pos EXCEPT ![c] = current]
  /\ start' = [start EXCEPT ![c] = IF raced THEN Null ELSE ring[current]]
  /\ \E outcome \in Greeting :
       proc' = IF outcome = "fault" THEN "faulted" ELSE proc
  /\ UNCHANGED <<ringVars, threadVars, sweepVars, historyVars, asked, loopVars,
                 behind>>

(* LWS_CALLBACK_CLOSED: libwebsockets frees the session's memory. *)
on_closed(c) ==
  /\ CallBack
  /\ session[c] = "open"
  /\ session' = [session EXCEPT ![c] = "none"]
  /\ pos' = [pos EXCEPT ![c] = 0]
  /\ asked' = asked \ {c}
  /\ behind' = [behind EXCEPT ![c] = 0]
  /\ start' = [start EXCEPT ![c] = Null]
  /\ UNCHANGED <<vars, loopVars>>

(* LWS_CALLBACK_SERVER_WRITEABLE: the loop is entered if the session is    *)
(* not at the current report.                                              *)
on_writeable(c) ==
  /\ CallBack
  /\ session[c] = "open"
  /\ c \in asked \/ Unasked
  /\ asked' = asked \ {c}
  /\ writing' = IF pos[c] # current THEN c ELSE Null
  /\ UNCHANGED <<vars, session, pos, line, to_write, behind, start>>

(* Mutant: the position is moved on, and wraps one slot late. *)
Advanced_late(p) == (p + 1) % (Size + 1)

(* (psd->ring_buffer_pos) % 10 *)
Advanced(p) == p % Size

(* Mutant: the current slot is read, not the session's. *)
read_report_current ==
  /\ Running(Loop)
  /\ writing # Null
  /\ line = "read"
  /\ to_write' = ring[current]
  /\ line' = "write"
  /\ UNCHANGED <<vars, session, pos, asked, writing, behind, start>>

(* to_write = ws_ring_buffer[psd->ring_buffer_pos]: the slot is read       *)
(* before the position moves, so the first report read is the one the      *)
(* session started at.                                                     *)
read_report ==
  /\ Running(Loop)
  /\ writing # Null
  /\ line = "read"
  /\ to_write' = ring[pos[writing]]
  /\ line' = "write"
  /\ UNCHANGED <<vars, session, pos, asked, writing, behind, start>>

(* The rest of the loop's body: lws_write with its arguments exchanged, so *)
(* that it is given 1 as its buffer and to_write as its length, and the    *)
(* new position; then the loop's condition.                                *)
write_report ==
  /\ Running(Loop)
  /\ writing # Null
  /\ line = "write"
  /\ \/ /\ "fault" \in Write
        /\ proc' = "faulted"
        /\ UNCHANGED <<pos, loopVars>>
     \/ /\ "returns" \in Write
        /\ pos' = [pos EXCEPT ![writing] = Advanced(@)]
        /\ writing' = IF pos'[writing] # current THEN writing ELSE Null
        /\ line' = "read"
        /\ to_write' = Null
        /\ UNCHANGED proc
  /\ UNCHANGED <<ringVars, threadVars, sweepVars, historyVars, session, asked,
                 behind, start>>

-----------------------------------------------------------------------------

callback_ws_event(c) == on_established(c) \/ on_closed(c) \/ on_writeable(c)

SessionNext ==
  \/ \E t \in Threads : broadcast(t)
  \/ shutdown
  \/ \E c \in Clients : callback_ws_event(c)
  \/ read_report
  \/ write_report

SessionSpec == SessionInit /\ [][SessionNext]_allVars

(* Broadcasts that have begun and the loop of a callback go on, and        *)
(* libwebsockets makes the callbacks it was asked for, or makes unasked.   *)
SessionFairness ==
  /\ \A t \in Threads : WF_allVars(~Idle(t) /\ broadcast(t))
  /\ \A c \in Clients : SF_allVars(on_writeable(c))
  /\ WF_allVars(read_report \/ write_report)

SessionFairSpec == SessionSpec /\ SessionFairness

-----------------------------------------------------------------------------

SessionTypeOK ==
  /\ TypeOK
  /\ session \in [Clients -> {"none", "open"}]
  /\ pos \in [Clients -> Slots]
  /\ asked \in SUBSET Clients
  /\ writing \in Clients \cup {Null}
  /\ line \in {"read", "write"}
  /\ to_write \in Bufs \cup {Null}
  /\ behind \in [Clients -> 0 .. MaxBehind]
  /\ start \in [Clients -> Bufs \cup {Null}]

(* The loop of a writeable callback is only entered for a session that has *)
(* something to read: whatever threads do, a report was published between  *)
(* its LWS_CALLBACK_ESTABLISHED and the callback.                          *)
WritesOnlyWhenBehind == writing # Null => behind[writing] > 0

(* The callback reads one report late: what it has in hand for lws_write   *)
(* is the report its session started at, none of those published since     *)
(* (NULL, if there was none before).  While that report is not about to be *)
(* replaced, a lap less one slot, it stays allocated between the reading   *)
(* of the slot and lws_write, though other threads broadcast in between.   *)
(* (As long as no two broadcasts overlap.)                                 *)
ReadsItsStart ==
  ~raced /\ sweep = -1 /\ writing # Null /\ line = "write" =>
    (behind[writing] < Size - 1 =>
       /\ to_write = start[writing]
       /\ to_write # Null => to_write \in live)

(* web_interface.c:4, "keep connected clients up-to-date": a session that  *)
(* is behind the ring catches up, unless it or the process ends.           *)
ClientsAreKeptUpToDate ==
  \A c \in Clients :
    c \in Open /\ pos[c] # current ~>
      pos[c] = current \/ c \notin Open \/ proc # "up" \/ sweep # -1

=============================================================================
