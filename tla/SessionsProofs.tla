--------------------------- MODULE SessionsProofs ---------------------------
(***************************************************************************)
(* Proofs about the websocket sessions, for every ring, every set of       *)
(* threads and clients and every way the greeting and lws_write end.       *)
(***************************************************************************)
EXTENDS Sessions, BroadcastProofs

-----------------------------------------------------------------------------
SessionTypes ==
  /\ session \in [Clients -> {"none", "open"}]
  /\ pos \in [Clients -> Slots]
  /\ asked \in SUBSET Clients
  /\ writing \in Clients \cup {Null}
  /\ line \in {"read", "write"}
  /\ to_write \in Bufs \cup {Null}
  /\ behind \in [Clients -> 0 .. MaxBehind]
  /\ start \in [Clients -> Bufs \cup {Null}]

(* A session that was not behind a broadcast is at the current slot, and   *)
(* only one that was is being written to.                                  *)
UpToDate ==
  /\ \A c \in Clients : session[c] = "none" => behind[c] = 0
  /\ WritesOnlyWhenBehind
  /\ proc = "up" => \A c \in Open : behind[c] = 0 => pos[c] = current

(* A broadcast that is published and not yet counted in recent. *)
Uncounted == IF \E t \in Threads : pc[t] = "notify" THEN 1 ELSE 0

(* As long as calls do not overlap, a session less than a lap behind is as *)
(* many slots back as broadcasts were made, and the ring has them all.     *)
Follows ==
  ~raced /\ sweep = -1 =>
    \A c \in Open : behind[c] < Size =>
      /\ Back(behind[c]) = pos[c]
      /\ behind[c] <= Len(recent) + Uncounted

(* and one that is a lap less one slot behind has its start still in its   *)
(* slot, which no broadcast is replacing, and the callback has read it.    *)
StartKept ==
  ~raced /\ sweep = -1 =>
    \A c \in Open : behind[c] < Size - 1 =>
      /\ ring[pos[c]] = start[c]
      /\ start[c] # Null => start[c] \in live

StartRead ==
  /\ writing = Null => line = "read"
  /\ ~raced /\ sweep = -1 /\ writing # Null /\ line = "write" =>
       (behind[writing] < Size - 1 => to_write = start[writing])

SInv ==
  IInv /\ Keeps /\ SessionTypes /\ UpToDate /\ Follows /\ StartKept /\ StartRead

USE DEF sessionVars, loopVars, historyVars

-----------------------------------------------------------------------------
(* No session, nothing to follow. *)
LEMMA SessionInitInv == SessionInit => SInv
<1> SUFFICES ASSUME SessionInit PROVE SInv
  OBVIOUS
<1>1. IInv /\ Keeps
  BY InitInv, KeepsInit DEF SessionInit
<1>2. SessionTypes
  BY BroadcastAssumption, SessionsAssumption
  DEF SessionInit, Init, SessionTypes, Slots
<1>3. UpToDate /\ Follows /\ StartKept /\ StartRead
  BY DEF SessionInit, UpToDate, WritesOnlyWhenBehind, Follows, StartKept,
         StartRead, Open
<1>4. QED
  BY <1>1, <1>2, <1>3 DEF SInv

(* A callback of libwebsockets changes at most whether the process is up.  *)
LEMMA CallbackRing ==
  ASSUME IInv, Keeps,
         UNCHANGED <<ringVars, threadVars, sweepVars, historyVars>>,
         proc' \in {proc, "faulted"}
  PROVE  IInv' /\ Keeps'
<1> USE DEF ringVars, threadVars, sweepVars
<1>1. TypeOK'
  <2>1. swept' \in BOOLEAN /\ raced' \in BOOLEAN /\ collided' \in BOOLEAN
    BY Zenon DEF IInv, Core, TypeOK
  <2>2. QED
    BY <2>1 DEF IInv, Core, TypeOK
<1>2. MessageInHand' /\ Overlaps'
  BY DEF IInv, Core, MessageInHand, Overlaps, OneAtATime, Idle
<1>3. ASSUME ~collided' PROVE Safe'
  BY <1>3 DEF IInv, Core, Safe, SweepAlone, OwnSlot, HeldFresh, NotAborted,
     SlotsLive, SlotsDistinct, LiveReachable, Idle, Replacing, HeldBy, Holds,
     BeingFreed
<1>4. NextIndex' = NextIndex
  BY DEF NextIndex
<1>5. Keeps'
  BY <1>4, SameRecent DEF Keeps
<1>6. QED
  BY <1>1, <1>2, <1>3, <1>5 DEF IInv, Core

(* The position that callback_ws_event assigns is the one it has. *)
LEMMA AdvancedStays ==
  ASSUME NEW p \in Slots
  PROVE  Advanced(p) = p
BY BroadcastAssumption DEF Advanced, Slots

-----------------------------------------------------------------------------
(* What a step of broadcast_report does to the things a session looks at. *)
LEMMA BroadcastEffect ==
  ASSUME IInv, NEW t \in Threads, broadcast_report(t)
  PROVE  /\ proc = "up"
         /\ sweep' = sweep
         /\ pc[t] = "publish" => current' = next[t] /\ recent' = recent
         /\ pc[t] = "notify" => current' = current
         /\ pc[t] \notin {"publish", "notify"} => UNCHANGED <<current, recent>>
         /\ pc'[t] = "notify" <=> pc[t] = "publish"
         /\ \A o \in Threads : o # t => pc'[o] = pc[o]
         /\ ~raced' => ~raced
<1>1. ~raced' => ~raced
  BY Zenon DEF broadcast_report, generate_lws_padded_msg, broadcast_index,
     broadcast_test, broadcast_free, broadcast_store, broadcast_publish,
     broadcast_notify
<1>2. pc \in [Threads -> {"idle", "index", "test", "free", "store", "publish",
                         "notify"}]
  BY DEF IInv, Core, TypeOK
<1>3. QED
  BY <1>1, <1>2
  DEF broadcast_report, generate_lws_padded_msg, broadcast_index,
      broadcast_test, broadcast_free, broadcast_store, broadcast_publish,
      broadcast_notify, Running, Idle, ringVars, sweepVars

(* A broadcast leaves every session a report further behind. *)
LEMMA BroadcastSInv ==
  ASSUME SInv, NEW t \in Threads, broadcast(t)
  PROVE  SInv'
<1>1. IInv' /\ Keeps'
  BY NextInv, KeepsNext DEF SInv, broadcast, Next
<1>2. broadcast_report(t) /\ IInv /\ UNCHANGED <<session, pos, loopVars>>
  BY DEF broadcast, SInv
<1>3. /\ pc[t] # "publish" => behind' = behind
      /\ pc[t] = "publish" =>
           behind' = [c \in Clients |-> IF c \in Open /\ behind[c] < MaxBehind
                                        THEN behind[c] + 1 ELSE behind[c]]
      /\ asked' \in SUBSET Clients
      /\ start' \in [Clients -> Bufs \cup {Null}]
      /\ ~raced' => start' = start
  BY DEF broadcast, SInv, SessionTypes, Open
<1>4. Open' = Open /\ Open \subseteq Clients
  BY <1>2 DEF Open
<1>5. behind \in [Clients -> 0 .. MaxBehind] /\ MaxBehind \in Nat
  BY SessionsAssumption DEF SInv, SessionTypes
<1>6. behind' \in [Clients -> 0 .. MaxBehind]
  BY <1>3, <1>5
<1>7. SessionTypes'
  BY <1>2, <1>3, <1>6 DEF SInv, SessionTypes, Slots
<1>8. UpToDate'
  <2>1. ASSUME NEW c \in Clients, session'[c] = "none" PROVE behind'[c] = 0
    BY <1>2, <1>3, <2>1 DEF SInv, UpToDate, Open
  <2>2. \A c \in Clients : behind[c] > 0 => behind'[c] > 0
    BY <1>3, <1>5
  <2>3. WritesOnlyWhenBehind'
    BY <1>2, <2>2 DEF SInv, UpToDate, WritesOnlyWhenBehind, SessionTypes
  <2>4. ASSUME NEW c \in Open, behind'[c] = 0 PROVE pos'[c] = current'
    <3>1. CASE pc[t] = "publish"
      <4>1. behind'[c] # 0
        BY <1>3, <1>4, <1>5, <3>1, SessionsAssumption, BroadcastAssumption
      <4>2. QED
        BY <4>1, <2>4
    <3>2. CASE pc[t] # "publish"
      BY <1>2, <1>3, <2>4, <3>2, BroadcastEffect DEF SInv, UpToDate
    <3>3. QED
      BY <3>1, <3>2
  <2>5. QED
    BY <1>4, <2>1, <2>3, <2>4 DEF UpToDate
<1>9. Follows'
  <2> SUFFICES ASSUME ~raced', sweep' = -1, NEW c \in Open, behind'[c] < Size
               PROVE  /\ (current' - behind'[c]) % Size = pos[c]
                      /\ behind'[c] <= Len(recent') + Uncounted'
    BY <1>2, <1>4 DEF Follows, Back
  <2>1. ~raced /\ sweep = -1 /\ \A o \in Threads : o # t => pc'[o] = pc[o]
    BY <1>2, BroadcastEffect
  <2>2. behind[c] < Size /\ behind[c] \in 0 .. MaxBehind
    BY <1>3, <1>4, <1>5, BroadcastAssumption
  <2>3. Back(behind[c]) = pos[c] /\ behind[c] <= Len(recent) + Uncounted
    BY <2>1, <2>2 DEF SInv, Follows
  <2>4. /\ current \in Slots /\ recent \in Seq(Bufs) /\ Len(recent) \in Nat
        /\ Len(recent) <= Size
    BY <2>1, LenProperties DEF SInv, IInv, Core, TypeOK, Keeps
  <2>5. ~Idle(t) => \A o \in Threads : o # t => Idle(o)
    BY <2>1 DEF SInv, IInv, Overlaps, OneAtATime
  <2>6. CASE pc[t] = "publish"
    <3>1. Uncounted = 0 /\ Uncounted' = 1
      <4>1. pc'[t] = "notify" /\ \A o \in Threads : pc[o] # "notify"
        BY <1>2, <2>5, <2>6, BroadcastEffect DEF Idle
      <4>2. QED
        BY <4>1 DEF Uncounted
    <3>2. current' = NextIndex /\ recent' = recent
      <4>1. next[t] = NextIndex
        BY <2>1, <2>6 DEF SInv, Keeps
      <4>2. current' = next[t] /\ recent' = recent
        BY <1>2, <2>6, BroadcastEffect
      <4>3. QED
        BY <4>1, <4>2
    <3>3. behind'[c] = behind[c] + 1
      BY <1>3, <1>4, <1>5, <2>2, <2>6, SessionsAssumption, BroadcastAssumption
    <3>4. behind[c] + 1 \in Slots /\ behind[c] + 1 > 0 /\ behind[c] + 1 - 1 = behind[c]
      BY <2>2, <3>3, BroadcastAssumption DEF Slots
    <3>5. (current' - (behind[c] + 1)) % Size = Back(behind[c])
      <4>1. PICK n \in Slots : n > 0 /\ n = behind[c] + 1 /\ n - 1 = behind[c]
        BY <2>2, <3>4, SessionsAssumption
      <4>2. Back(n)' = Back(n - 1)
        BY <2>4, <3>2, <4>1, PublishShifts
      <4>3. QED
        BY <4>1, <4>2 DEF Back
    <3>6. QED
      BY <2>3, <2>4, <2>2, <3>1, <3>2, <3>3, <3>5 DEF Back
  <2>7. CASE pc[t] = "notify"
    <3>1. Uncounted = 1 /\ Uncounted' = 0
      <4>1. pc'[t] # "notify"
        BY <1>2, <2>7, BroadcastEffect
      <4>2. \A o \in Threads : pc'[o] # "notify"
        BY <2>1, <2>5, <2>7, <4>1 DEF Idle
      <4>3. QED
        BY <2>7, <4>2 DEF Uncounted
    <3>2. current' = current /\ behind' = behind
      BY <1>2, <1>3, <2>7, BroadcastEffect
    <3>3. recent' = Pushed(buf[t], recent)
      BY <1>2, <2>1, <2>7 DEF broadcast_report, generate_lws_padded_msg,
         broadcast_index, broadcast_test, broadcast_free, broadcast_store,
         broadcast_publish, broadcast_notify, Idle, Pushed
    <3>4. buf[t] \in Bufs
      BY <2>7 DEF SInv, IInv, Core, MessageInHand, Idle
    <3>5. Len(recent') = IF Len(recent) < Size THEN Len(recent) + 1 ELSE Size
      BY <2>4, <3>3, <3>4, RecentShift
    <3>6. QED
      BY <2>2, <2>3, <2>4, <3>1, <3>2, <3>5, BroadcastAssumption DEF Back
  <2>8. CASE pc[t] \notin {"publish", "notify"}
    <3>1. UNCHANGED <<current, recent, behind>>
      BY <1>2, <1>3, <2>8, BroadcastEffect
    <3>2. Uncounted' = Uncounted
      <4>1. pc'[t] # "notify" /\ pc[t] # "notify"
        BY <1>2, <2>8, BroadcastEffect
      <4>2. \A o \in Threads : pc'[o] = "notify" <=> pc[o] = "notify"
        BY <2>1, <4>1
      <4>3. QED
        BY <4>2 DEF Uncounted
    <3>3. QED
      BY <2>3, <3>1, <3>2 DEF Back
  <2>9. QED
    BY <2>6, <2>7, <2>8
<1>10. ASSUME ~raced', sweep' = -1, NEW c \in Open, behind'[c] < Size - 1
       PROVE  /\ ~raced /\ sweep = -1 /\ behind[c] < Size - 1
              /\ ring'[pos[c]] = start[c]
              /\ start[c] # Null => start[c] \in live'
  <2>1. ~raced /\ sweep = -1
    BY <1>2, <1>10, BroadcastEffect
  <2>2. behind[c] < Size - 1 /\ behind[c] \in Nat
    BY <1>3, <1>4, <1>5, <1>10, BroadcastAssumption
  <2>3. ring[pos[c]] = start[c] /\ (start[c] # Null => start[c] \in live)
    BY <2>1, <2>2 DEF SInv, StartKept
  <2>4. pos[c] \in Slots /\ Replacing(t) => next[t] # pos[c]
    <3>1. PICK n \in Slots : n = behind[c] /\ n # Size - 1
      BY <2>2, BroadcastAssumption DEF Slots
    <3>2. pos[c] = Back(n)
      BY <2>1, <2>2, <3>1, BroadcastAssumption DEF SInv, Follows
    <3>3. current \in Slots
      BY DEF SInv, IInv, Core, TypeOK
    <3>4. Back(n) # NextIndex
      BY <3>1, <3>3, NextIndexIsOldest
    <3>5. Replacing(t) => next[t] = NextIndex
      BY <2>1 DEF SInv, Keeps, Replacing
    <3>6. QED
      BY <3>2, <3>4, <3>5
  <2>5. pos[c] \in Slots
    BY <1>4 DEF SInv, SessionTypes
  <2>6. CASE broadcast_free(t)
    <3>1. /\ pc[t] = "free" /\ ring' = ring /\ live' = live \ {ring[next[t]]}
          /\ \A o \in Threads : o # t => Idle(o)
      BY <2>1, <2>6 DEF broadcast_free, free_lws_padded_msg, SInv, IInv,
         Overlaps, OneAtATime, Idle
    <3>2. Safe /\ next[t] \in Slots /\ ~swept
      BY <2>1, BroadcastAssumption
      DEF SInv, IInv, Core, Overlaps, TypeOK, Safe, SweepAlone, Slots
    <3>3. next[t] # pos[c] /\ \A i \in Slots : ~BeingFreed(i)
      BY <2>4, <2>5, <3>1, <3>2 DEF Replacing, BeingFreed, Idle
    <3>4. start[c] # Null => start[c] # ring[next[t]]
      BY <2>3, <2>5, <3>2, <3>3 DEF Safe, SlotsDistinct, Holds
    <3>5. QED
      BY <2>1, <2>2, <2>3, <3>1, <3>4
  <2>7. CASE broadcast_store(t)
    <3>1. pc[t] = "store" /\ ring' = [ring EXCEPT ![next[t]] = buf[t]] /\ live' = live
      BY <2>7 DEF broadcast_store
    <3>2. ring \in [Slots -> Bufs \cup {Null}] /\ next[t] # pos[c]
      BY <2>4, <2>5, <3>1 DEF SInv, IInv, Core, TypeOK, Replacing
    <3>3. QED
      BY <2>1, <2>2, <2>3, <2>5, <3>1, <3>2
  <2>8. CASE ~broadcast_free(t) /\ ~broadcast_store(t)
    <3>1. ring' = ring /\ live \subseteq live'
      BY <1>2, <2>8 DEF broadcast_report, generate_lws_padded_msg,
         broadcast_index, broadcast_test, broadcast_publish, broadcast_notify,
         ringVars
    <3>2. QED
      BY <2>1, <2>2, <2>3, <3>1
  <2>9. QED
    BY <2>6, <2>7, <2>8
<1>11. StartKept'
  BY <1>2, <1>3, <1>4, <1>10 DEF StartKept
<1>12. StartRead'
  <2> SUFFICES ASSUME ~raced', sweep' = -1, writing # Null, line = "write",
                      behind'[writing] < Size - 1
               PROVE  to_write = start[writing]
    BY <1>2, <1>3 DEF SInv, StartRead
  <2>1. writing \in Open
    BY DEF SInv, SessionTypes, UpToDate, WritesOnlyWhenBehind, Open
  <2>2. ~raced /\ sweep = -1 /\ behind[writing] < Size - 1
    BY <1>10, <2>1
  <2>3. QED
    BY <2>2 DEF SInv, StartRead
<1>13. QED
  BY <1>1, <1>7, <1>8, <1>9, <1>11, <1>12 DEF SInv

-----------------------------------------------------------------------------
(* The callbacks of libwebsockets and the loop of the writeable one. *)
LEMMA CallbackSInv ==
  ASSUME SInv,
         (\E c \in Clients : callback_ws_event(c)) \/ read_report \/ write_report
  PROVE  SInv'
<1>1. /\ UNCHANGED <<ringVars, threadVars, sweepVars, historyVars>>
      /\ proc' \in {proc, "faulted"} /\ proc = "up"
  BY DEF callback_ws_event, on_established, on_closed, on_writeable,
     read_report, write_report, CallBack, Running, vars
<1>2. IInv' /\ Keeps'
  BY <1>1, CallbackRing DEF SInv
<1>3. /\ current' = current /\ sweep' = sweep /\ pc' = pc
      /\ current \in Slots /\ Uncounted' = Uncounted
  BY <1>1 DEF ringVars, threadVars, sweepVars, SInv, IInv, Core, TypeOK, Uncounted
<1>4. ASSUME NEW c \in Clients, on_established(c) PROVE SInv'
  <2>1. /\ session[c] = "none" /\ behind[c] = 0
        /\ session' = [session EXCEPT ![c] = "open"]
        /\ pos' = [pos EXCEPT ![c] = current]
        /\ start' = [start EXCEPT ![c] = IF raced THEN Null ELSE ring[current]]
        /\ writing = Null /\ UNCHANGED <<asked, loopVars, behind>>
    BY <1>4 DEF on_established, SInv, UpToDate, CallBack
  <2>0. ring[current] \in Bufs \cup {Null}
    BY <1>3 DEF SInv, IInv, Core, TypeOK
  <2>2. SessionTypes'
    BY <1>3, <2>0, <2>1 DEF SInv, SessionTypes, Slots
  <2>3. UpToDate'
    BY <1>1, <1>3, <2>1 DEF SInv, SessionTypes, UpToDate, WritesOnlyWhenBehind, Open
  <2>4. Follows'
    <3> SUFFICES ASSUME ~raced, sweep = -1, NEW d \in Open', behind[d] < Size
                 PROVE  /\ Back(behind[d]) = pos'[d]
                        /\ behind[d] <= Len(recent) + Uncounted
      BY <1>1, <1>3, <2>1 DEF Follows, Back
    <3>1. CASE d = c
      <4>1. Len(recent) \in Nat /\ Uncounted \in Nat
        BY LenProperties DEF SInv, IInv, Core, TypeOK, Uncounted
      <4>2. 0 \in Slots /\ 0 <= current
        BY <1>3, BroadcastAssumption DEF Slots
      <4>3. Back(0) = current
        BY <1>3, <4>2, BackSteps, BroadcastAssumption DEF Slots
      <4>4. QED
        BY <2>1, <3>1, <4>1, <4>3 DEF SInv, SessionTypes
    <3>2. CASE d # c
      <4>1. d \in Open /\ pos'[d] = pos[d]
        BY <2>1, <3>2 DEF SInv, SessionTypes, Open
      <4>2. QED
        BY <4>1 DEF SInv, Follows
    <3>3. QED
      BY <3>1, <3>2
  <2>5. StartKept'
    <3> SUFFICES ASSUME ~raced, sweep = -1, NEW d \in Open', behind[d] < Size - 1
                 PROVE  /\ ring[pos'[d]] = start'[d]
                        /\ start'[d] # Null => start'[d] \in live
      BY <1>1, <1>3, <2>1 DEF StartKept, ringVars
    <3>1. CASE d = c
      <4>1. pos'[d] = current /\ start'[d] = ring[current]
        BY <2>1, <3>1 DEF SInv, SessionTypes
      <4>2. NextIndex # current
        BY <1>3, NextIndexSteps, BroadcastAssumption DEF Slots
      <4>3. ~BeingFreed(current) /\ Safe
        BY <1>3, <4>2, BroadcastAssumption
        DEF SInv, Keeps, IInv, Core, Overlaps, Safe, SweepAlone, BeingFreed, Slots
      <4>4. QED
        BY <1>3, <4>1, <4>3 DEF Safe, SlotsLive, Holds
    <3>2. CASE d # c
      <4>1. d \in Open /\ pos'[d] = pos[d] /\ start'[d] = start[d]
        BY <2>1, <3>2 DEF SInv, SessionTypes, Open
      <4>2. QED
        BY <4>1 DEF SInv, StartKept
    <3>3. QED
      BY <3>1, <3>2
  <2>6. StartRead'
    BY <2>1 DEF SInv, StartRead
  <2>7. QED
    BY <1>2, <2>2, <2>3, <2>4, <2>5, <2>6 DEF SInv
<1>5. ASSUME NEW c \in Clients, on_closed(c) PROVE SInv'
  <2>1. /\ session' = [session EXCEPT ![c] = "none"]
        /\ pos' = [pos EXCEPT ![c] = 0]
        /\ asked' = asked \ {c}
        /\ behind' = [behind EXCEPT ![c] = 0]
        /\ start' = [start EXCEPT ![c] = Null]
        /\ writing = Null /\ UNCHANGED loopVars /\ proc' = proc
    BY <1>5 DEF on_closed, CallBack, vars
  <2>2. SessionTypes'
    BY <2>1, BroadcastAssumption, SessionsAssumption
    DEF SInv, SessionTypes, Slots
  <2>3. \A d \in Open' : /\ d \in Open /\ pos'[d] = pos[d]
                        /\ behind'[d] = behind[d] /\ start'[d] = start[d]
    BY <2>1 DEF SInv, SessionTypes, Open
  <2>4. UpToDate'
    <3>1. \A d \in Clients : session'[d] = "none" => behind'[d] = 0
      BY <2>1 DEF SInv, SessionTypes, UpToDate
    <3>2. QED
      BY <1>3, <2>1, <2>3, <3>1 DEF SInv, UpToDate, WritesOnlyWhenBehind
  <2>5. Follows'
    BY <1>1, <1>3, <2>3 DEF SInv, Follows, Back
  <2>6. StartKept' /\ StartRead'
    BY <1>1, <1>3, <2>1, <2>3 DEF SInv, StartKept, StartRead, ringVars
  <2>7. QED
    BY <1>2, <2>2, <2>4, <2>5, <2>6 DEF SInv
<1>6. ASSUME NEW c \in Clients, on_writeable(c) PROVE SInv'
  <2>1. /\ session[c] = "open" /\ writing = Null
        /\ UNCHANGED <<session, pos, behind, line, to_write, start>>
        /\ asked' = asked \ {c}
        /\ writing' = IF pos[c] # current THEN c ELSE Null
    BY <1>6 DEF on_writeable, CallBack
  <2>2. SessionTypes'
    BY <2>1 DEF SInv, SessionTypes, Slots
  <2>3. UpToDate'
    <3>1. pos[c] # current => behind[c] > 0
      BY <1>1, <2>1 DEF SInv, UpToDate, SessionTypes, Open
    <3>2. QED
      BY <1>1, <1>3, <2>1, <3>1
      DEF SInv, UpToDate, WritesOnlyWhenBehind, Open
  <2>4. Follows'
    BY <1>1, <1>3, <2>1 DEF SInv, Follows, Back, Open
  <2>5. StartKept' /\ StartRead'
    BY <1>1, <1>3, <2>1 DEF SInv, StartKept, StartRead, Open, ringVars
  <2>6. QED
    BY <1>2, <2>2, <2>3, <2>4, <2>5 DEF SInv
<1>7. CASE read_report
  <2>1. /\ UNCHANGED <<session, pos, asked, writing, behind, start>>
        /\ writing # Null /\ line' = "write" /\ to_write' = ring[pos[writing]]
    BY <1>7 DEF read_report
  <2>2. writing \in Open /\ ring[pos[writing]] \in Bufs \cup {Null}
    BY <2>1 DEF SInv, SessionTypes, UpToDate, WritesOnlyWhenBehind, Open, IInv,
       Core, TypeOK
  <2>3. SessionTypes'
    BY <2>1, <2>2 DEF SInv, SessionTypes, Slots
  <2>4. UpToDate' /\ Follows'
    BY <1>1, <1>3, <2>1
    DEF SInv, UpToDate, WritesOnlyWhenBehind, Follows, Back, Open
  <2>5. StartKept' /\ StartRead'
    BY <1>1, <1>3, <2>1, <2>2 DEF SInv, StartKept, StartRead, Open, ringVars
  <2>6. QED
    BY <1>2, <2>3, <2>4, <2>5 DEF SInv
<1>8. CASE write_report
  <2>1. /\ UNCHANGED <<session, asked, behind, start>>
        /\ pos' = pos
        /\ writing' \in {writing, Null}
        /\ \/ UNCHANGED loopVars
           \/ line' = "read" /\ to_write' = Null
    BY <1>8, AdvancedStays, SessionsAssumption
    DEF write_report, SInv, SessionTypes
  <2>2. SessionTypes'
    BY <2>1 DEF SInv, SessionTypes, Slots
  <2>3. UpToDate'
    BY <1>1, <1>3, <2>1 DEF SInv, UpToDate, WritesOnlyWhenBehind, Open
  <2>4. Follows'
    BY <1>1, <1>3, <2>1 DEF SInv, Follows, Back, Open
  <2>5. StartKept' /\ StartRead'
    BY <1>1, <1>3, <2>1 DEF SInv, StartKept, StartRead, Open, ringVars
  <2>6. QED
    BY <1>2, <2>2, <2>3, <2>4, <2>5 DEF SInv
<1>9. QED
  BY <1>4, <1>5, <1>6, <1>7, <1>8 DEF callback_ws_event

(* After a signal the sessions are not looked at any more. *)
LEMMA ShutdownSInv ==
  ASSUME SInv, shutdown \/ UNCHANGED allVars
  PROVE  SInv'
<1>1. IInv' /\ Keeps'
  BY NextInv, KeepsNext DEF SInv, shutdown, Next, allVars
<1>2. UNCHANGED sessionVars /\ Open' = Open
  BY DEF shutdown, allVars, Open
<1>3. SessionTypes'
  BY <1>2 DEF SInv, SessionTypes, Slots
<1>4. UpToDate'
  <2>1. proc' = "up" => proc = "up" /\ current' = current
    BY DEF shutdown, shutdown_webserver, cleanup_ringbuffer, cleanup_free,
       cleanup_clear, cleanup_skip, cleanup_end, allVars, vars, ringVars
  <2>2. QED
    BY <1>2, <2>1 DEF SInv, UpToDate, WritesOnlyWhenBehind
<1>5. Follows'
  <2>1. CASE shutdown
    BY <2>1, BroadcastAssumption DEF shutdown, shutdown_webserver,
       cleanup_ringbuffer, cleanup_free, cleanup_clear, cleanup_skip,
       cleanup_end, sweepVars, Slots, Follows
  <2>2. CASE UNCHANGED allVars
    BY <1>2, <2>2 DEF allVars, vars, ringVars, threadVars, sweepVars, SInv,
       Follows, Back, Uncounted
  <2>3. QED
    BY <2>1, <2>2
<1>6. StartKept' /\ StartRead'
  <2>1. CASE shutdown
    BY <1>2, <2>1, BroadcastAssumption DEF shutdown, shutdown_webserver,
       cleanup_ringbuffer, cleanup_free, cleanup_clear, cleanup_skip,
       cleanup_end, sweepVars, Slots, SInv, StartKept, StartRead
  <2>2. CASE UNCHANGED allVars
    BY <1>2, <2>2 DEF allVars, vars, ringVars, sweepVars, SInv, StartKept,
       StartRead
  <2>3. QED
    BY <2>1, <2>2
<1>7. QED
  BY <1>1, <1>3, <1>4, <1>5, <1>6 DEF SInv

(* Every step of broadcasts, callbacks and the shutdown keeps SInv. *)
LEMMA SessionNextInv == SInv /\ [SessionNext]_allVars => SInv'
BY BroadcastSInv, CallbackSInv, ShutdownSInv DEF SessionNext

-----------------------------------------------------------------------------
(* The invariant of the ring and its sessions holds of every behaviour. *)
THEOREM SessionInvariance == SessionSpec => []SInv
BY SessionInitInv, SessionNextInv, PTL DEF SessionSpec

(* Positions and counts stay in their range, whatever callback_ws_event    *)
(* and overlapping broadcasts do.                                          *)
THEOREM SessionTypeCorrect == SessionSpec => []SessionTypeOK
<1>1. SInv => SessionTypeOK
  BY DEF SInv, IInv, Core, SessionTypes, SessionTypeOK
<1>2. QED
  BY <1>1, SessionInvariance, PTL

(* LWS_CALLBACK_SERVER_WRITEABLE enters its loop (web_interface.c:152)     *)
(* only for a session that a broadcast has left behind, also when          *)
(* broadcasts overlap.                                                     *)
THEOREM WritesWhenBehind == SessionSpec => []WritesOnlyWhenBehind
<1>1. SInv => WritesOnlyWhenBehind
  BY DEF SInv, UpToDate
<1>2. QED
  BY <1>1, SessionInvariance, PTL

(* The sessions do the ring no harm: it is memory safe and in order with   *)
(* them as without them.                                                   *)
THEOREM SessionsKeepRing == SessionSpec => [](RingMemorySafe /\ SerialRingKeeps)
<1>1. SInv => RingMemorySafe
  BY DEF SInv, IInv, Core, Safe, RingMemorySafe, NotAborted, SlotsLive,
         SlotsDistinct, LiveReachable
<1>2. SInv => SerialRingKeeps
  BY KeepsEnough DEF SInv
<1>3. QED
  BY <1>1, <1>2, SessionInvariance, PTL

(* What LWS_CALLBACK_SERVER_WRITEABLE reads at web_interface.c:153 is the  *)
(* report its session started at, not one of those it has still to be      *)
(* told, and broadcasts on other threads leave it allocated until          *)
(* lws_write, as long as they do not overlap and are fewer than a lap less *)
(* one since the session began; for any ring, threads and clients.         *)
THEOREM SessionsReadTheirStart == SessionSpec => []ReadsItsStart
<1>1. SInv => ReadsItsStart
  <2> SUFFICES ASSUME SInv, ~raced, sweep = -1, writing # Null, line = "write",
                      behind[writing] < Size - 1
               PROVE  /\ to_write = start[writing]
                      /\ to_write # Null => to_write \in live
    BY DEF ReadsItsStart
  <2>1. writing \in Open
    BY DEF SInv, SessionTypes, UpToDate, WritesOnlyWhenBehind, Open
  <2>2. QED
    BY <2>1 DEF SInv, StartKept, StartRead
<1>2. QED
  BY <1>1, SessionInvariance, PTL

=============================================================================
