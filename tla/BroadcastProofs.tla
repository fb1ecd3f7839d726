--------------------------- MODULE BroadcastProofs ---------------------------
(***************************************************************************)
(* Proofs about the ring of reports, for every size of the ring, every set *)
(* of threads and every set of addresses.                                  *)
(***************************************************************************)
EXTENDS Broadcast, SequenceTheorems, TLAPS

-----------------------------------------------------------------------------
(* A thread in the middle of a call has a message. *)
MessageInHand == \A t \in Threads : ~Idle(t) => buf[t] \in Bufs

(* As long as no broadcast has met the handler, the sweep begins when      *)
(* every thread is outside broadcast_report,                               *)
SweepAlone ==
  /\ \A t \in Threads : ~Idle(t) => sweep = -1
  /\ swept => sweep \in Slots

(* and as long as no two broadcasts took the same slot, the slot a thread  *)
(* is replacing is its own,                                                *)
OwnSlot ==
  \A t, o \in Threads :
    Replacing(t) /\ Replacing(o) /\ next[t] = next[o] => t = o

(* a message not yet stored is allocated, in no slot, and one thread's     *)
(* alone,                                                                  *)
HeldFresh ==
  \A t \in Threads : HeldBy(t) =>
    /\ buf[t] \in live
    /\ \A i \in Slots : Holds(i) => ring[i] # buf[t]
    /\ \A o \in Threads : HeldBy(o) /\ buf[o] = buf[t] => o = t

(* and the ring is as RingMemorySafe says.                                 *)
NotAborted == proc # "aborted"

SlotsLive == \A i \in Slots : Holds(i) => ring[i] \in live

SlotsDistinct ==
  \A i, j \in Slots : i # j /\ Holds(i) /\ Holds(j) => ring[i] # ring[j]

LiveReachable ==
  \A b \in live : \/ \E i \in Slots : Holds(i) /\ ring[i] = b
                  \/ \E t \in Threads : HeldBy(t) /\ buf[t] = b

Safe ==
  /\ SweepAlone
  /\ OwnSlot
  /\ HeldFresh
  /\ NotAborted
  /\ SlotsLive
  /\ SlotsDistinct
  /\ LiveReachable

Core == TypeOK /\ MessageInHand /\ (collided \/ Safe)

(* As long as no two calls have overlapped there is one call at a time.    *)
OneAtATime ==
  /\ \A t, o \in Threads : ~Idle(t) /\ ~Idle(o) => t = o
  /\ \A t \in Threads : ~Idle(t) => sweep = -1

Overlaps == (collided => raced) /\ (raced \/ OneAtATime)

IInv == Core /\ Overlaps

-----------------------------------------------------------------------------
(* NextIndex, the slot broadcast_report computes, is a slot of the ring. *)
LEMMA NextIndexInRange ==
  ASSUME TypeOK
  PROVE  NextIndex \in Slots
BY BroadcastAssumption DEF TypeOK, NextIndex, Slots

(* The list of recent messages keeps its type when broadcast_notify adds   *)
(* one and drops the oldest.                                               *)
LEMMA RecentType ==
  ASSUME NEW s \in Seq(Bufs), NEW b \in Bufs
  PROVE  SubSeq(<<b>> \o s, 1, IF Len(s) < Size THEN Len(s) + 1 ELSE Size)
           \in Seq(Bufs)
<1> DEFINE u == <<b>> \o s
           n == IF Len(s) < Size THEN Len(s) + 1 ELSE Size
<1>1. <<b>> \in Seq(Bufs) /\ Len(<<b>>) = 1
  OBVIOUS
<1>2. u \in Seq(Bufs) /\ Len(u) = Len(s) + 1
  BY <1>1, ConcatProperties
<1>3. n \in 1 .. Len(u)
  BY <1>2, LenProperties, BroadcastAssumption
<1> HIDE DEF u, n
<1>4. SubSeq(u, 1, n) \in Seq(Bufs)
  BY <1>2, <1>3, SubSeqProperties
<1>5. QED
  BY <1>4 DEF u, n

(* The invariant holds initially. *)
LEMMA InitInv == Init => IInv
<1> SUFFICES ASSUME Init PROVE IInv
  OBVIOUS
<1>1. TypeOK
  <2>1. swept \in BOOLEAN /\ raced \in BOOLEAN /\ collided \in BOOLEAN
    BY DEF Init
  <2>2. recent \in Seq(Bufs)
    BY DEF Init
  <2>3. QED
    BY <2>1, <2>2, BroadcastAssumption DEF Init, TypeOK, Slots
<1>2. MessageInHand
  BY DEF Init, MessageInHand, Idle
<1>3. Safe
  BY BroadcastAssumption
  DEF Init, Safe, SweepAlone, OwnSlot, HeldFresh, NotAborted, SlotsLive,
      SlotsDistinct, LiveReachable, Idle, Replacing, HeldBy, Holds, BeingFreed,
      Slots
<1>4. Overlaps
  BY DEF Init, Overlaps, OneAtATime, Idle
<1>5. QED
  BY <1>1, <1>2, <1>3, <1>4 DEF IInv, Core

-----------------------------------------------------------------------------
(* generate_lws_padded_msg takes an address that is not allocated, so it   *)
(* is in no slot and in no other thread's hands.                           *)
LEMMA GenerateInv ==
  ASSUME Core, NEW t \in Threads, generate_lws_padded_msg(t)
  PROVE  Core'
<1> USE DEF generate_lws_padded_msg, sweepVars
<1>1. PICK b \in Bufs \ live :
        live' = live \cup {b} /\ buf' = [buf EXCEPT ![t] = b]
  OBVIOUS
<1>2. TypeOK'
  <2>1. swept' \in BOOLEAN /\ raced' \in BOOLEAN /\ collided' \in BOOLEAN
    BY Zenon DEF Core, TypeOK
  <2>2. QED
    BY <1>1, <2>1 DEF Core, TypeOK
<1>3. MessageInHand'
  BY <1>1 DEF Core, TypeOK, MessageInHand, Idle
<1>4. ASSUME ~collided' PROVE Safe'
  <2>1. ~collided /\ Safe /\ sweep = -1
    BY <1>4 DEF Core
  <2>2. /\ pc[t] = "idle" /\ pc'[t] = "index" /\ buf'[t] = b
        /\ \A o \in Threads : o # t => pc'[o] = pc[o] /\ buf'[o] = buf[o]
    BY <1>1 DEF Core, TypeOK, Idle
  <2>3. \A i \in Slots : Holds(i)' <=> Holds(i)
    BY <2>2 DEF Holds, BeingFreed
  <2>4. SweepAlone' /\ OwnSlot' /\ NotAborted'
    BY <2>1, <2>2 DEF Safe, SweepAlone, OwnSlot, Replacing, NotAborted, Idle
  <2>5. \A o \in Threads : HeldBy(o)' <=> HeldBy(o) \/ o = t
    BY <2>2 DEF HeldBy
  <2>6. HeldFresh'
    <3>1. \A i \in Slots : Holds(i) => ring[i] # b
      BY <2>1 DEF Safe, SlotsLive
    <3>2. \A o \in Threads : HeldBy(o) => buf[o] # b /\ o # t
      BY <2>1, <2>2 DEF Safe, HeldFresh, HeldBy
    <3>3. QED
      BY <1>1, <2>1, <2>2, <2>3, <2>5, <3>1, <3>2 DEF Safe, HeldFresh
  <2>7. SlotsLive' /\ SlotsDistinct'
    BY <1>1, <2>1, <2>3 DEF Safe, SlotsLive, SlotsDistinct
  <2>8. LiveReachable'
    BY <1>1, <2>1, <2>2, <2>3, <2>5 DEF Safe, LiveReachable, HeldBy
  <2>9. QED
    BY <2>4, <2>6, <2>7, <2>8 DEF Safe
<1>5. QED
  BY <1>2, <1>3, <1>4 DEF Core

(* broadcast_index touches no memory but the thread's own; a slot that     *)
(* another thread is replacing counts as a collision.                      *)
LEMMA IndexInv ==
  ASSUME Core, NEW t \in Threads, broadcast_index(t)
  PROVE  Core'
<1> USE DEF broadcast_index, ringVars, sweepVars
<1>1. TypeOK'
  <2>1. swept' \in BOOLEAN /\ raced' \in BOOLEAN /\ collided' \in BOOLEAN
    BY Zenon DEF Core, TypeOK
  <2>2. QED
    BY <2>1, NextIndexInRange DEF Core, TypeOK
<1>2. MessageInHand'
  BY DEF Core, TypeOK, MessageInHand, Idle
<1>3. ASSUME ~collided' PROVE Safe'
  <2>1. Safe /\ \A o \in Threads : ~(Replacing(o) /\ next[o] = NextIndex)
    BY <1>3 DEF Core
  <2>2. /\ pc[t] = "index" /\ pc'[t] = "test" /\ next'[t] = NextIndex
        /\ \A o \in Threads : o # t => pc'[o] = pc[o] /\ next'[o] = next[o]
    BY DEF Core, TypeOK
  <2>3. /\ \A i \in Slots : Holds(i)' <=> Holds(i)
        /\ \A o \in Threads : HeldBy(o)' <=> HeldBy(o)
    BY <2>2 DEF Holds, BeingFreed, HeldBy
  <2>4. OwnSlot'
    BY <2>1, <2>2 DEF Safe, OwnSlot, Replacing
  <2>5. SweepAlone' /\ NotAborted'
    BY <2>1, <2>2 DEF Safe, SweepAlone, NotAborted, Idle
  <2>6. HeldFresh' /\ SlotsLive' /\ SlotsDistinct' /\ LiveReachable'
    BY <2>1, <2>3 DEF Safe, HeldFresh, SlotsLive, SlotsDistinct, LiveReachable
  <2>7. QED
    BY <2>4, <2>5, <2>6 DEF Safe
<1>4. QED
  BY <1>1, <1>2, <1>3 DEF Core

(* broadcast_test only chooses the next line: to free a message that is    *)
(* there, or to store into an empty slot.                                  *)
LEMMA TestInv ==
  ASSUME Core, NEW t \in Threads, broadcast_test(t)
  PROVE  Core'
<1> USE DEF broadcast_test, ringVars, sweepVars, historyVars
<1>1. TypeOK'
  <2>1. swept' \in BOOLEAN /\ raced' \in BOOLEAN /\ collided' \in BOOLEAN
    BY Zenon DEF Core, TypeOK
  <2>2. QED
    BY <2>1 DEF Core, TypeOK
<1>2. MessageInHand'
  BY DEF Core, TypeOK, MessageInHand, Idle
<1>3. ASSUME ~collided' PROVE Safe'
  <2>1. Safe
    BY <1>3 DEF Core
  <2>2. /\ pc[t] = "test"
        /\ \/ pc'[t] = "free"
           \/ pc'[t] = "store" /\ ring[next[t]] = Null
        /\ \A o \in Threads : o # t => pc'[o] = pc[o]
    BY DEF Core, TypeOK
  <2>3. /\ \A i \in Slots : Holds(i)' <=> Holds(i)
        /\ \A o \in Threads : HeldBy(o)' <=> HeldBy(o)
        /\ \A o \in Threads : Replacing(o)' <=> Replacing(o)
    BY <2>2 DEF Holds, BeingFreed, HeldBy, Replacing
  <2>4. SweepAlone' /\ OwnSlot' /\ NotAborted'
    BY <2>1, <2>2, <2>3 DEF Safe, SweepAlone, OwnSlot, NotAborted, Idle
  <2>5. HeldFresh' /\ SlotsLive' /\ SlotsDistinct' /\ LiveReachable'
    BY <2>1, <2>3 DEF Safe, HeldFresh, SlotsLive, SlotsDistinct, LiveReachable
  <2>6. QED
    BY <2>4, <2>5 DEF Safe
<1>4. QED
  BY <1>1, <1>2, <1>3 DEF Core

(* broadcast_free finds an allocated message in the slot, and no other     *)
(* slot and no thread has it.                                              *)
LEMMA FreeInv ==
  ASSUME Core, NEW t \in Threads, broadcast_free(t)
  PROVE  Core'
<1> USE DEF broadcast_free, free_lws_padded_msg, sweepVars, historyVars
<1>1. TypeOK'
  <2>1. swept' \in BOOLEAN /\ raced' \in BOOLEAN /\ collided' \in BOOLEAN
    BY Zenon DEF Core, TypeOK
  <2>2. QED
    BY <2>1 DEF Core, TypeOK
<1>2. MessageInHand'
  BY DEF Core, TypeOK, MessageInHand, Idle
<1>3. ASSUME ~collided' PROVE Safe'
  <2>1. Safe
    BY <1>3 DEF Core
  <2>2. /\ pc[t] = "free" /\ pc'[t] = "store" /\ next[t] \in Slots
        /\ \A o \in Threads : o # t => pc'[o] = pc[o]
        /\ live \in SUBSET Bufs
    BY DEF Core, TypeOK
  <2> DEFINE n == next[t]
  <2>3. sweep = -1 /\ ~swept
    BY <2>1, <2>2, BroadcastAssumption DEF Safe, SweepAlone, Idle, Slots
  <2>4. \A o \in Threads : pc[o] = "store" => next[o] # n
    BY <2>1, <2>2 DEF Safe, OwnSlot, Replacing
  <2>5. ring[n] # Null => Holds(n) /\ ring[n] \in live
    BY <2>1, <2>2, <2>3, <2>4 DEF Safe, SlotsLive, Holds, BeingFreed
  <2>6. /\ \A i \in Slots : Holds(i)' <=> Holds(i) /\ i # n
        /\ \A o \in Threads : HeldBy(o)' <=> HeldBy(o)
        /\ \A o \in Threads : Replacing(o)' <=> Replacing(o)
    BY <2>2, <2>3 DEF Holds, BeingFreed, HeldBy, Replacing
  <2>7. SweepAlone' /\ OwnSlot' /\ NotAborted'
    BY <2>1, <2>2, <2>3, <2>5, <2>6
    DEF Safe, SweepAlone, OwnSlot, NotAborted, Idle
  <2>8. HeldFresh'
    BY <2>1, <2>2, <2>5, <2>6, BroadcastAssumption DEF Safe, HeldFresh
  <2>9. SlotsLive' /\ SlotsDistinct'
    BY <2>1, <2>2, <2>5, <2>6
    DEF Safe, SlotsLive, SlotsDistinct, Holds
  <2>10. LiveReachable'
    BY <2>1, <2>2, <2>6 DEF Safe, LiveReachable
  <2>11. QED
    BY <2>7, <2>8, <2>9, <2>10 DEF Safe
<1>4. QED
  BY <1>1, <1>2, <1>3 DEF Core

(* broadcast_store overwrites a slot that holds nothing allocated with a   *)
(* message that is in no slot.                                             *)
LEMMA StoreInv ==
  ASSUME Core, NEW t \in Threads, broadcast_store(t)
  PROVE  Core'
<1> USE DEF broadcast_store, sweepVars, historyVars
<1>1. buf[t] \in Bufs /\ buf[t] # Null
  BY BroadcastAssumption DEF Core, MessageInHand, Idle
<1>2. TypeOK'
  <2>1. swept' \in BOOLEAN /\ raced' \in BOOLEAN /\ collided' \in BOOLEAN
    BY Zenon DEF Core, TypeOK
  <2>2. QED
    BY <1>1, <2>1 DEF Core, TypeOK
<1>3. MessageInHand'
  BY DEF Core, TypeOK, MessageInHand, Idle
<1>4. ASSUME ~collided' PROVE Safe'
  <2>1. Safe
    BY <1>4 DEF Core
  <2>2. /\ pc[t] = "store" /\ pc'[t] = "publish" /\ next[t] \in Slots
        /\ \A o \in Threads : o # t => pc'[o] = pc[o]
    BY DEF Core, TypeOK
  <2> DEFINE n == next[t]
  <2>3. /\ ring'[n] = buf[t]
        /\ \A i \in Slots : i # n => ring'[i] = ring[i]
    BY <2>2 DEF Core, TypeOK
  <2>4. sweep = -1 /\ ~swept
    BY <2>1, <2>2, BroadcastAssumption DEF Safe, SweepAlone, Idle, Slots
  <2>5. \A o \in Threads : o # t /\ pc[o] = "store" => next[o] # n
    BY <2>1, <2>2 DEF Safe, OwnSlot, Replacing
  <2>6. ~Holds(n) /\ \A i \in Slots : Holds(i)' <=> Holds(i) \/ i = n
    BY <1>1, <2>2, <2>3, <2>4, <2>5 DEF Holds, BeingFreed
  <2>7. /\ \A o \in Threads : HeldBy(o)' <=> HeldBy(o) /\ o # t
        /\ \A o \in Threads : Replacing(o)' <=> Replacing(o) /\ o # t
        /\ HeldBy(t)
    BY <2>2 DEF HeldBy, Replacing
  <2>8. SweepAlone' /\ OwnSlot' /\ NotAborted'
    BY <2>1, <2>2, <2>7 DEF Safe, SweepAlone, OwnSlot, NotAborted, Idle
  <2>9. HeldFresh' /\ SlotsLive' /\ SlotsDistinct'
    BY <2>1, <2>2, <2>3, <2>6, <2>7
    DEF Safe, HeldFresh, SlotsLive, SlotsDistinct
  <2>10. LiveReachable'
    BY <2>1, <2>2, <2>3, <2>6, <2>7 DEF Safe, LiveReachable
  <2>11. QED
    BY <2>8, <2>9, <2>10 DEF Safe
<1>5. QED
  BY <1>2, <1>3, <1>4 DEF Core

(* broadcast_publish moves the current index to a slot. *)
LEMMA PublishInv ==
  ASSUME Core, NEW t \in Threads, broadcast_publish(t)
  PROVE  Core'
<1> USE DEF broadcast_publish, sweepVars, historyVars
<1>1. TypeOK'
  <2>1. swept' \in BOOLEAN /\ raced' \in BOOLEAN /\ collided' \in BOOLEAN
    BY Zenon DEF Core, TypeOK
  <2>2. QED
    BY <2>1 DEF Core, TypeOK
<1>2. MessageInHand'
  BY DEF Core, TypeOK, MessageInHand, Idle
<1>3. ASSUME ~collided' PROVE Safe'
  <2>1. Safe
    BY <1>3 DEF Core
  <2>2. /\ pc[t] = "publish" /\ pc'[t] = "notify"
        /\ \A o \in Threads : o # t => pc'[o] = pc[o]
    BY DEF Core, TypeOK
  <2>3. /\ \A i \in Slots : Holds(i)' <=> Holds(i)
        /\ \A o \in Threads : HeldBy(o)' <=> HeldBy(o)
        /\ \A o \in Threads : Replacing(o)' <=> Replacing(o)
    BY <2>2 DEF Holds, BeingFreed, HeldBy, Replacing
  <2>4. SweepAlone' /\ OwnSlot' /\ NotAborted'
    BY <2>1, <2>2, <2>3 DEF Safe, SweepAlone, OwnSlot, NotAborted, Idle
  <2>5. HeldFresh' /\ SlotsLive' /\ SlotsDistinct' /\ LiveReachable'
    BY <2>1, <2>3 DEF Safe, HeldFresh, SlotsLive, SlotsDistinct, LiveReachable
  <2>6. QED
    BY <2>4, <2>5 DEF Safe
<1>4. QED
  BY <1>1, <1>2, <1>3 DEF Core

(* broadcast_notify ends a call; a call that did not meet the handler      *)
(* still has its context.                                                  *)
LEMMA NotifyInv ==
  ASSUME Core, NEW t \in Threads, broadcast_notify(t)
  PROVE  Core'
<1> USE DEF broadcast_notify, ringVars, sweepVars
<1>1. TypeOK'
  <2>1. swept' \in BOOLEAN /\ raced' \in BOOLEAN /\ collided' \in BOOLEAN
    BY Zenon DEF Core, TypeOK
  <2>2. recent' \in Seq(Bufs)
    <3>1. recent \in Seq(Bufs) /\ buf[t] \in Bufs
      BY DEF Core, TypeOK, MessageInHand, Idle
    <3>2. QED
      BY <3>1, RecentType
  <2>3. 0 \in Slots
    BY BroadcastAssumption DEF Slots
  <2>4. proc' \in {"up", "aborted", "faulted", "exited"}
    BY DEF Core, TypeOK
  <2>5. QED
    BY <2>1, <2>2, <2>3, <2>4 DEF Core, TypeOK
<1>2. MessageInHand'
  BY DEF Core, TypeOK, MessageInHand, Idle
<1>3. ASSUME ~collided' PROVE Safe'
  <2>1. Safe
    BY <1>3 DEF Core
  <2>2. /\ pc[t] = "notify" /\ pc'[t] = "idle"
        /\ \A o \in Threads : o # t =>
             pc'[o] = pc[o] /\ next'[o] = next[o] /\ buf'[o] = buf[o]
    BY DEF Core, TypeOK
  <2>3. /\ \A i \in Slots : Holds(i)' <=> Holds(i)
        /\ \A o \in Threads : HeldBy(o)' <=> HeldBy(o)
        /\ \A o \in Threads : Replacing(o)' <=> Replacing(o)
        /\ ~HeldBy(t) /\ ~Replacing(t)
    BY <2>2 DEF Holds, BeingFreed, HeldBy, Replacing
  <2>4. sweep = -1
    BY <2>1, <2>2 DEF Safe, SweepAlone, Idle
  <2>5. SweepAlone' /\ OwnSlot' /\ NotAborted'
    BY <2>1, <2>2, <2>3, <2>4 DEF Safe, SweepAlone, OwnSlot, NotAborted, Idle
  <2>6. HeldFresh' /\ SlotsLive' /\ SlotsDistinct' /\ LiveReachable'
    BY <2>1, <2>2, <2>3
    DEF Safe, HeldFresh, SlotsLive, SlotsDistinct, LiveReachable
  <2>7. QED
    BY <2>5, <2>6 DEF Safe
<1>4. QED
  BY <1>1, <1>2, <1>3 DEF Core

-----------------------------------------------------------------------------
(* The signal finds every thread outside broadcast_report, or meets one. *)
LEMMA ShutdownInv ==
  ASSUME Core, shutdown_webserver
  PROVE  Core'
<1> USE DEF shutdown_webserver, ringVars, threadVars
<1>1. TypeOK'
  <2>1. swept' \in BOOLEAN /\ raced' \in BOOLEAN /\ collided' \in BOOLEAN
    BY Zenon DEF Core, TypeOK
  <2>2. sweep' \in -1 .. Size
    BY BroadcastAssumption
  <2>3. QED
    BY <2>1, <2>2 DEF Core, TypeOK
<1>2. MessageInHand'
  BY DEF Core, MessageInHand, Idle
<1>3. ASSUME ~collided' PROVE Safe'
  <2>1. Safe /\ \A t \in Threads : Idle(t)
    BY <1>3 DEF Core
  <2>2. ~swept
    BY <2>1, BroadcastAssumption DEF Safe, SweepAlone, Slots
  <2>3. /\ \A i \in Slots : Holds(i)' <=> Holds(i)
        /\ \A o \in Threads : ~HeldBy(o) /\ ~HeldBy(o)' /\ ~Replacing(o)'
    BY <2>1, <2>2 DEF Holds, BeingFreed, HeldBy, Replacing, Idle
  <2>4. SweepAlone' /\ OwnSlot' /\ NotAborted'
    BY <2>1, <2>2, <2>3 DEF Safe, SweepAlone, OwnSlot, NotAborted, Idle
  <2>5. HeldFresh' /\ SlotsLive' /\ SlotsDistinct' /\ LiveReachable'
    BY <2>1, <2>3 DEF Safe, HeldFresh, SlotsLive, SlotsDistinct, LiveReachable
  <2>6. QED
    BY <2>4, <2>5 DEF Safe
<1>4. QED
  BY <1>1, <1>2, <1>3 DEF Core

(* cleanup_free frees the message of its slot; nobody else has it. *)
LEMMA CleanupFreeInv ==
  ASSUME Core, cleanup_free
  PROVE  Core'
<1> USE DEF cleanup_free, free_lws_padded_msg, threadVars, historyVars
<1>1. TypeOK'
  <2>1. swept' \in BOOLEAN /\ raced' \in BOOLEAN /\ collided' \in BOOLEAN
    BY Zenon DEF Core, TypeOK
  <2>2. QED
    BY <2>1 DEF Core, TypeOK
<1>2. MessageInHand'
  BY DEF Core, MessageInHand, Idle
<1>3. ASSUME ~collided' PROVE Safe'
  <2>1. Safe
    BY <1>3 DEF Core
  <2>2. sweep # -1 /\ \A t \in Threads : pc[t] = "idle"
    BY <2>1, BroadcastAssumption DEF Safe, SweepAlone, Idle, Slots
  <2>3. Holds(sweep) /\ ring[sweep] \in live
    BY <2>1, <2>2 DEF Safe, SlotsLive, Holds, BeingFreed
  <2>4. /\ \A i \in Slots : Holds(i)' <=> Holds(i) /\ i # sweep
        /\ \A o \in Threads : ~HeldBy(o) /\ ~HeldBy(o)' /\ ~Replacing(o)'
    BY <2>2 DEF Holds, BeingFreed, HeldBy, Replacing
  <2>5. SweepAlone' /\ OwnSlot' /\ NotAborted'
    BY <2>1, <2>2, <2>3, <2>4 DEF Safe, SweepAlone, OwnSlot, NotAborted, Idle
  <2>6. HeldFresh' /\ SlotsLive' /\ SlotsDistinct' /\ LiveReachable'
    BY <2>1, <2>3, <2>4
    DEF Safe, HeldFresh, SlotsLive, SlotsDistinct, LiveReachable
  <2>7. QED
    BY <2>5, <2>6 DEF Safe
<1>4. QED
  BY <1>1, <1>2, <1>3 DEF Core

(* cleanup_clear clears a slot whose message has been freed. *)
LEMMA CleanupClearInv ==
  ASSUME Core, cleanup_clear
  PROVE  Core'
<1> USE DEF cleanup_clear, threadVars, historyVars
<1>1. TypeOK'
  <2>1. swept' \in BOOLEAN /\ raced' \in BOOLEAN /\ collided' \in BOOLEAN
    BY Zenon DEF Core, TypeOK
  <2>2. sweep' \in -1 .. Size
    BY BroadcastAssumption DEF Slots
  <2>3. QED
    BY <2>1, <2>2 DEF Core, TypeOK
<1>2. MessageInHand'
  BY DEF Core, MessageInHand, Idle
<1>3. ASSUME ~collided' PROVE Safe'
  <2>1. Safe
    BY <1>3 DEF Core
  <2>2. sweep # -1 /\ \A t \in Threads : pc[t] = "idle"
    BY <2>1, BroadcastAssumption DEF Safe, SweepAlone, Idle, Slots
  <2>3. /\ ring'[sweep] = Null
        /\ \A i \in Slots : i # sweep => ring'[i] = ring[i]
    BY DEF Core, TypeOK
  <2>4. /\ \A i \in Slots : Holds(i)' <=> Holds(i)
        /\ \A i \in Slots : Holds(i) => i # sweep
        /\ \A o \in Threads : ~HeldBy(o) /\ ~HeldBy(o)' /\ ~Replacing(o)'
    BY <2>2, <2>3 DEF Holds, BeingFreed, HeldBy, Replacing
  <2>5. SweepAlone' /\ OwnSlot' /\ NotAborted'
    BY <2>1, <2>2, <2>4 DEF Safe, SweepAlone, OwnSlot, NotAborted, Idle
  <2>6. HeldFresh' /\ SlotsLive' /\ SlotsDistinct' /\ LiveReachable'
    BY <2>1, <2>3, <2>4
    DEF Safe, HeldFresh, SlotsLive, SlotsDistinct, LiveReachable
  <2>7. QED
    BY <2>5, <2>6 DEF Safe
<1>4. QED
  BY <1>1, <1>2, <1>3 DEF Core

(* cleanup_skip and cleanup_end leave the ring alone, and so does a step   *)
(* that changes nothing.                                                   *)
LEMMA QuietInv ==
  ASSUME Core, cleanup_skip \/ cleanup_end \/ UNCHANGED vars
  PROVE  Core'
<1> USE DEF cleanup_skip, cleanup_end, vars, ringVars, threadVars, sweepVars,
            historyVars
<1>1. TypeOK'
  <2>1. swept' \in BOOLEAN /\ raced' \in BOOLEAN /\ collided' \in BOOLEAN
    BY Zenon DEF Core, TypeOK
  <2>2. sweep' \in -1 .. Size /\ current' \in Slots
    BY BroadcastAssumption DEF Core, TypeOK, Slots
  <2>3. QED
    BY <2>1, <2>2 DEF Core, TypeOK
<1>2. MessageInHand'
  BY DEF Core, MessageInHand, Idle
<1>3. ASSUME ~collided' PROVE Safe'
  <2>1. Safe
    BY <1>3 DEF Core
  <2>2. sweep' # sweep => sweep # -1 /\ sweep' # -1 /\ ~swept /\ ~swept'
    BY BroadcastAssumption DEF Slots
  <2>3. /\ \A i \in Slots : Holds(i)' <=> Holds(i)
        /\ \A o \in Threads : HeldBy(o)' <=> HeldBy(o)
        /\ \A o \in Threads : Replacing(o)' <=> Replacing(o)
    BY <2>2 DEF Holds, BeingFreed, HeldBy, Replacing
  <2>4. SweepAlone' /\ OwnSlot' /\ NotAborted'
    BY <2>1, <2>2, <2>3 DEF Safe, SweepAlone, OwnSlot, NotAborted, Idle
  <2>5. HeldFresh' /\ SlotsLive' /\ SlotsDistinct' /\ LiveReachable'
    BY <2>1, <2>3 DEF Safe, HeldFresh, SlotsLive, SlotsDistinct, LiveReachable
  <2>6. QED
    BY <2>4, <2>5 DEF Safe
<1>4. QED
  BY <1>1, <1>2, <1>3 DEF Core

-----------------------------------------------------------------------------
(* Calls that have not overlapped have not collided either, and a step     *)
(* that does not make two calls overlap leaves one at a time.              *)
LEMMA OverlapStep ==
  ASSUME IInv, [Next]_vars
  PROVE  Overlaps'
<1> USE DEF ringVars, threadVars, sweepVars, historyVars
<1>0. pc \in [Threads -> {"idle", "index", "test", "free", "store", "publish",
                         "notify"}]
  BY DEF IInv, Core, TypeOK
<1>1. ASSUME NEW t \in Threads, generate_lws_padded_msg(t) PROVE Overlaps'
  <2>1. collided' => raced'
    BY <1>1 DEF generate_lws_padded_msg, IInv, Overlaps
  <2>2. ASSUME ~raced' PROVE OneAtATime'
    BY <1>0, <1>1, <2>2 DEF generate_lws_padded_msg, OneAtATime, Idle
  <2>3. QED
    BY <2>1, <2>2 DEF Overlaps
<1>2. ASSUME NEW t \in Threads, broadcast_index(t) PROVE Overlaps'
  <2>1. collided' => raced'
    BY <1>2 DEF broadcast_index, IInv, Overlaps, OneAtATime, Idle, Replacing
  <2>2. ASSUME ~raced' PROVE OneAtATime'
    BY <1>0, <1>2, <2>2 DEF broadcast_index, IInv, Overlaps, OneAtATime, Idle
  <2>3. QED
    BY <2>1, <2>2 DEF Overlaps
<1>3. ASSUME NEW t \in Threads,
             \/ broadcast_test(t) \/ broadcast_free(t) \/ broadcast_store(t)
             \/ broadcast_publish(t) \/ broadcast_notify(t)
      PROVE  Overlaps'
  <2>1. /\ pc[t] # "idle" /\ UNCHANGED <<sweep, raced, collided>>
        /\ \A o \in Threads : o # t => pc'[o] = pc[o]
    BY <1>0, <1>3 DEF broadcast_test, broadcast_free, broadcast_store,
       broadcast_publish, broadcast_notify
  <2>2. QED
    BY <2>1 DEF IInv, Overlaps, OneAtATime, Idle
<1>4. CASE shutdown_webserver
  <2>1. collided' => raced'
    BY <1>4 DEF shutdown_webserver, IInv, Overlaps
  <2>2. ASSUME ~raced' PROVE OneAtATime'
    BY <1>4, <2>2 DEF shutdown_webserver, OneAtATime, Idle
  <2>3. QED
    BY <2>1, <2>2 DEF Overlaps
<1>5. CASE cleanup_ringbuffer
  <2>1. UNCHANGED <<pc, raced, collided>> /\ sweep # -1
    BY <1>5, BroadcastAssumption DEF cleanup_ringbuffer, cleanup_free,
       cleanup_clear, cleanup_skip, cleanup_end, Slots
  <2>2. QED
    BY <2>1 DEF IInv, Overlaps, OneAtATime, Idle
<1>6. CASE UNCHANGED vars
  BY <1>6 DEF vars, IInv, Overlaps, OneAtATime, Idle
<1>7. QED
  BY <1>1, <1>2, <1>3, <1>4, <1>5, <1>6 DEF Next, broadcast_report

(* Every step preserves the invariant. *)
LEMMA NextInv == IInv /\ [Next]_vars => IInv'
<1> SUFFICES ASSUME IInv, [Next]_vars PROVE IInv'
  OBVIOUS
<1>0. Core
  BY DEF IInv
<1>1. ASSUME NEW t \in Threads, broadcast_report(t) PROVE Core'
  BY <1>0, <1>1, GenerateInv, IndexInv, TestInv, FreeInv, StoreInv, PublishInv,
     NotifyInv DEF broadcast_report
<1>2. CASE shutdown_webserver
  BY <1>0, <1>2, ShutdownInv, OverlapStep DEF IInv
<1>3. CASE cleanup_ringbuffer
  BY <1>0, <1>3, CleanupFreeInv, CleanupClearInv, QuietInv, OverlapStep
  DEF cleanup_ringbuffer, IInv
<1>4. CASE UNCHANGED vars
  BY <1>0, <1>4, QuietInv, OverlapStep DEF IInv
<1>5. QED
  BY <1>1, <1>2, <1>3, <1>4, OverlapStep DEF Next, IInv

-----------------------------------------------------------------------------
(* The ring's inductive invariant holds of every behaviour. *)
THEOREM Invariance == Spec => []IInv
BY InitInv, NextInv, PTL DEF Spec

(* Every index broadcast_report and cleanup_ringbuffer use is inside the   *)
(* ring and every variable keeps its type, overlapping calls included.     *)
THEOREM TypeCorrect == Spec => []TypeOK
<1>1. IInv => TypeOK
  BY DEF IInv, Core
<1>2. QED
  BY <1>1, Invariance, PTL

(* Broadcasts may overlap: as long as no two of them are replacing the     *)
(* same slot and none meets the handler, broadcast_report and              *)
(* cleanup_ringbuffer free each padded message once, and only after it has *)
(* left the ring, and none leaks; for any number of threads.               *)
THEOREM RingSafe == Spec => []RingMemorySafe
<1>1. IInv => RingMemorySafe
  BY DEF IInv, Core, Safe, RingMemorySafe, NotAborted, SlotsLive,
         SlotsDistinct, LiveReachable
<1>2. QED
  BY <1>1, Invariance, PTL

-----------------------------------------------------------------------------
(* What the ring keeps.  Slots are counted backwards from the current one: *)
LEMMA BackSteps ==
  ASSUME current \in Slots, NEW n \in Slots
  PROVE  Back(n) = IF n <= current THEN current - n ELSE current - n + Size
<1>1. Size \in Nat \ {0} /\ current - n \in Int
  BY BroadcastAssumption DEF Slots
<1>2. CASE n <= current
  BY <1>1, <1>2, BroadcastAssumption DEF Back, Slots
<1>3. CASE ~(n <= current)
  BY <1>1, <1>3, BroadcastAssumption DEF Back, Slots
<1>4. QED
  BY <1>2, <1>3

(* the next slot comes after it,                                           *)
LEMMA NextIndexSteps ==
  ASSUME current \in Slots
  PROVE  NextIndex = IF current + 1 = Size THEN 0 ELSE current + 1
BY BroadcastAssumption DEF NextIndex, Slots

(* and is the oldest, the last one on the way back;                        *)
LEMMA NextIndexIsOldest ==
  ASSUME current \in Slots, NEW n \in Slots
  PROVE  Back(n) \in Slots /\ (Back(n) = NextIndex <=> n = Size - 1)
BY BackSteps, NextIndexSteps, BroadcastAssumption DEF Slots

(* publishing it moves every slot one step further back.                   *)
LEMMA PublishShifts ==
  ASSUME current \in Slots, current' = NextIndex, NEW n \in Slots, n > 0
  PROVE  Back(n)' = Back(n - 1)
<1>1. current' \in Slots /\ n - 1 \in Slots
  BY NextIndexSteps, BroadcastAssumption DEF Slots
<1>2. Back(n)' = (current' - n) % Size
  BY DEF Back
<1>3. (current' - n) % Size =
        IF n <= current' THEN current' - n ELSE current' - n + Size
  <2>1. CASE n <= current'
    BY <1>1, <2>1, BroadcastAssumption DEF Slots
  <2>2. CASE ~(n <= current')
    BY <1>1, <2>2, BroadcastAssumption DEF Slots
  <2>3. QED
    BY <2>1, <2>2
<1>4. Back(n - 1) = IF n - 1 <= current THEN current - (n - 1)
                    ELSE current - (n - 1) + Size
  BY <1>1, BackSteps
<1>5. QED
  BY <1>2, <1>3, <1>4, NextIndexSteps, BroadcastAssumption DEF Slots

(* broadcast_notify puts its message before the recent ones.               *)
Pushed(b, s) ==
  SubSeq(<<b>> \o s, 1, IF Len(s) < Size THEN Len(s) + 1 ELSE Size)

(* It is the first of them then, and the others move up by one.            *)
LEMMA RecentShift ==
  ASSUME NEW s \in Seq(Bufs), NEW b \in Bufs, Len(s) <= Size
  PROVE  /\ Len(Pushed(b, s)) = IF Len(s) < Size THEN Len(s) + 1 ELSE Size
         /\ Pushed(b, s)[1] = b
         /\ \A k \in 2 .. Len(Pushed(b, s)) : Pushed(b, s)[k] = s[k - 1]
<1> DEFINE u == <<b>> \o s
           n == IF Len(s) < Size THEN Len(s) + 1 ELSE Size
           r == Pushed(b, s)
<1>1. <<b>> \in Seq(Bufs) /\ Len(<<b>>) = 1 /\ <<b>>[1] = b
  OBVIOUS
<1>2. /\ u \in Seq(Bufs) /\ Len(u) = Len(s) + 1
      /\ \A i \in 1 .. Len(u) : u[i] = IF i <= 1 THEN <<b>>[i] ELSE s[i - 1]
  BY <1>1, ConcatProperties
<1>3. n \in 1 .. Len(u)
  BY <1>2, LenProperties, BroadcastAssumption
<1> HIDE DEF u, n
<1>4. Len(SubSeq(u, 1, n)) = n /\ \A i \in 1 .. n : SubSeq(u, 1, n)[i] = u[i]
  BY <1>2, <1>3, SubSeqProperties, LenProperties
<1>5. r = SubSeq(u, 1, n)
  BY DEF u, n, Pushed
<1> HIDE DEF r
<1>6. Len(r) = n /\ \A i \in 1 .. n : r[i] = u[i]
  BY <1>4, <1>5
<1>7. n \in Nat /\ Len(s) \in Nat
  BY <1>3, LenProperties
<1>8. ASSUME NEW k \in 2 .. n PROVE r[k] = s[k - 1]
  <2>1. k \in 1 .. n /\ k \in 1 .. Len(u) /\ ~(k <= 1)
    BY <1>2, <1>3, <1>7
  <2>2. r[k] = u[k] /\ u[k] = s[k - 1]
    BY <1>2, <1>6, <2>1
  <2>3. QED
    BY <2>2
<1>9. QED
  BY <1>1, <1>2, <1>3, <1>6, <1>7, <1>8 DEF n, r

(* The recent messages are the slots that lie offset steps further back,   *)
(* all of them or all but the one a full ring has to give up.              *)
RecentAt(offset, last) ==
  \A k \in 1 .. Len(recent) : k <= last => ring[Back(k - 1 + offset)] = recent[k]

(* SerialRingKeeps inside a call as well: until its message is stored the  *)
(* ring is as it was; then the oldest message has gone, and the newest is  *)
(* in the next slot, which becomes the current one.                        *)
Keeps ==
  ~raced /\ sweep = -1 =>
    /\ Len(recent) <= Size
    /\ \A t \in Threads :
         /\ pc[t] \in {"test", "free", "store", "publish"} => next[t] = NextIndex
         /\ pc[t] = "publish" =>
              ring[next[t]] = buf[t] /\ RecentAt(0, Size - 1)
         /\ pc[t] = "notify" =>
              ring[current] = buf[t] /\ RecentAt(1, Size - 1)
    /\ (\A t \in Threads : pc[t] \notin {"publish", "notify"}) =>
         RecentAt(0, Size)

(* A call that leaves ring, current and recent alone. *)
LEMMA SameRecent ==
  ASSUME UNCHANGED <<ring, current, recent>>, NEW offset, NEW last
  PROVE  RecentAt(offset, last)' = RecentAt(offset, last)
BY DEF RecentAt, Back

(* The steps of broadcast_report up to the store. *)
LEMMA KeepsBefore ==
  ASSUME IInv, Keeps, NEW t \in Threads,
         \/ generate_lws_padded_msg(t) \/ broadcast_index(t)
         \/ broadcast_test(t) \/ broadcast_free(t)
  PROVE  Keeps'
<1> SUFFICES ASSUME ~raced', sweep' = -1
             PROVE  Keeps'
  BY DEF Keeps
<1>0. ~raced
  BY Zenon DEF generate_lws_padded_msg, broadcast_index, broadcast_test,
     broadcast_free, historyVars
<1>1. UNCHANGED <<ring, current, recent>> /\ ~raced /\ sweep = -1
  BY <1>0 DEF generate_lws_padded_msg, broadcast_index, broadcast_test,
     broadcast_free, ringVars, sweepVars, historyVars
<1>2. /\ pc \in [Threads -> {"idle", "index", "test", "free", "store",
                            "publish", "notify"}]
      /\ next \in [Threads -> Slots]
      /\ buf \in [Threads -> Bufs \cup {Null}]
  BY DEF IInv, Core, TypeOK
<1>3. /\ pc[t] \notin {"publish", "notify"}
      /\ pc'[t] \in {"index", "test", "free", "store"}
      /\ pc'[t] # "index" => next'[t] = NextIndex
      /\ \A o \in Threads : o # t =>
           pc'[o] = pc[o] /\ next'[o] = next[o] /\ buf'[o] = buf[o]
  BY <1>1, <1>2 DEF Keeps, generate_lws_padded_msg, broadcast_index,
     broadcast_test, broadcast_free, Idle
<1>4. NextIndex' = NextIndex
  BY <1>1 DEF NextIndex
<1>5. QED
  BY <1>1, <1>3, <1>4, SameRecent DEF Keeps

(* broadcast_store gives up the oldest message of a full ring, and only    *)
(* that one.                                                               *)
LEMMA KeepsStore ==
  ASSUME IInv, Keeps, NEW t \in Threads, broadcast_store(t)
  PROVE  Keeps'
<1> SUFFICES ASSUME ~raced', sweep' = -1
             PROVE  Keeps'
  BY DEF Keeps
<1>1. /\ ~raced /\ sweep = -1
      /\ UNCHANGED <<current, next, buf, recent>>
      /\ ring' = [ring EXCEPT ![next[t]] = buf[t]]
      /\ pc[t] = "store" /\ pc' = [pc EXCEPT ![t] = "publish"]
  BY DEF broadcast_store, sweepVars, historyVars
<1>2. /\ \A o \in Threads : o # t => Idle(o)
      /\ current \in Slots /\ recent \in Seq(Bufs)
      /\ ring \in [Slots -> Bufs \cup {Null}]
      /\ pc \in [Threads -> {"idle", "index", "test", "free", "store",
                            "publish", "notify"}]
  BY <1>1 DEF IInv, Core, TypeOK, Overlaps, OneAtATime, Idle
<1>3. next[t] = NextIndex /\ NextIndex \in Slots /\ NextIndex' = NextIndex
  BY <1>1, NextIndexInRange DEF Keeps, IInv, Core, NextIndex
<1>4. RecentAt(0, Size) /\ Len(recent) <= Size /\ Len(recent) \in Nat
  BY <1>1, <1>2, LenProperties DEF Keeps, Idle
<1>5. ASSUME NEW k \in 1 .. Len(recent), k <= Size - 1
      PROVE  ring'[Back(k - 1)'] = recent[k]
  <2>1. k - 1 \in Slots /\ k - 1 # Size - 1 /\ k - 1 + 0 = k - 1 /\ k <= Size
    BY <1>4, <1>5, BroadcastAssumption DEF Slots
  <2>2. Back(k - 1) \in Slots /\ Back(k - 1) # NextIndex
    BY <1>2, <2>1, NextIndexIsOldest
  <2>3. ring[Back(k - 1)] = recent[k]
    BY <1>4, <2>1 DEF RecentAt
  <2>4. Back(k - 1)' = Back(k - 1)
    BY <1>1 DEF Back
  <2>5. QED
    BY <1>1, <1>2, <1>3, <2>2, <2>3, <2>4
<1>6. RecentAt(0, Size - 1)'
  <2>1. ASSUME NEW k \in 1 .. Len(recent), k <= Size - 1
        PROVE  ring'[(current' - (k - 1 + 0)) % Size] = recent'[k]
    <3>1. k - 1 + 0 = k - 1
      BY <1>4
    <3>2. QED
      BY <1>1, <1>5, <2>1, <3>1 DEF Back
  <2>2. QED
    BY <1>1, <2>1 DEF RecentAt, Back
<1>7. QED
  BY <1>1, <1>2, <1>3, <1>4, <1>6 DEF Keeps, Idle

(* broadcast_publish moves the recent messages one step further back. *)
LEMMA KeepsPublish ==
  ASSUME IInv, Keeps, NEW t \in Threads, broadcast_publish(t)
  PROVE  Keeps'
<1> SUFFICES ASSUME ~raced', sweep' = -1
             PROVE  Keeps'
  BY DEF Keeps
<1>1. /\ ~raced /\ sweep = -1
      /\ UNCHANGED <<ring, next, buf, recent>>
      /\ current' = next[t]
      /\ pc[t] = "publish" /\ pc' = [pc EXCEPT ![t] = "notify"]
  BY DEF broadcast_publish, sweepVars, historyVars
<1>2. /\ \A o \in Threads : o # t => Idle(o)
      /\ current \in Slots /\ recent \in Seq(Bufs)
      /\ pc \in [Threads -> {"idle", "index", "test", "free", "store",
                            "publish", "notify"}]
  BY <1>1 DEF IInv, Core, TypeOK, Overlaps, OneAtATime, Idle
<1>3. /\ next[t] = NextIndex /\ ring[next[t]] = buf[t]
      /\ RecentAt(0, Size - 1)
      /\ Len(recent) <= Size /\ Len(recent) \in Nat
  BY <1>1, <1>2, LenProperties DEF Keeps
<1>4. ASSUME NEW k \in 1 .. Len(recent), k <= Size - 1
      PROVE  ring'[(current' - (k - 1 + 1)) % Size] = recent'[k]
  <2>1. k \in Slots /\ k > 0 /\ k - 1 + 0 = k - 1 /\ k - 1 + 1 = k
    BY <1>3, <1>4, BroadcastAssumption DEF Slots
  <2>2. (current' - k) % Size = Back(k - 1)
    BY <1>1, <1>2, <1>3, <2>1, PublishShifts DEF Back
  <2>3. ring[Back(k - 1)] = recent[k]
    BY <1>3, <1>4, <2>1 DEF RecentAt
  <2>4. QED
    BY <1>1, <2>1, <2>2, <2>3
<1>5. RecentAt(1, Size - 1)'
  BY <1>1, <1>4 DEF RecentAt, Back
<1>6. QED
  BY <1>1, <1>2, <1>3, <1>5 DEF Keeps, Idle

(* broadcast_notify counts its message among the recent ones. *)
LEMMA KeepsNotify ==
  ASSUME IInv, Keeps, NEW t \in Threads, broadcast_notify(t)
  PROVE  Keeps'
<1> SUFFICES ASSUME ~raced', sweep' = -1
             PROVE  Keeps'
  BY DEF Keeps
<1>1. /\ ~raced /\ sweep = -1
      /\ UNCHANGED <<ring, current>>
      /\ pc[t] = "notify" /\ pc' = [pc EXCEPT ![t] = "idle"]
      /\ recent' = Pushed(buf[t], recent)
  BY DEF broadcast_notify, sweepVars, ringVars, Pushed
<1>2. /\ \A o \in Threads : o # t => Idle(o)
      /\ current \in Slots /\ recent \in Seq(Bufs) /\ buf[t] \in Bufs
      /\ pc \in [Threads -> {"idle", "index", "test", "free", "store",
                            "publish", "notify"}]
  BY <1>1 DEF IInv, Core, TypeOK, Overlaps, OneAtATime, Idle, MessageInHand
<1>3. /\ ring[current] = buf[t]
      /\ RecentAt(1, Size - 1)
      /\ Len(recent) <= Size /\ Len(recent) \in Nat
  BY <1>1, <1>2, LenProperties DEF Keeps
<1>4. /\ Len(recent') = IF Len(recent) < Size THEN Len(recent) + 1 ELSE Size
      /\ recent'[1] = buf[t]
      /\ \A k \in 2 .. Len(recent') : recent'[k] = recent[k - 1]
  BY <1>1, <1>2, <1>3, RecentShift
<1>5. ASSUME NEW k \in 1 .. Len(recent')
      PROVE  ring'[(current' - (k - 1 + 0)) % Size] = recent'[k]
  <2>1. CASE k = 1
    <3>1. (current - (k - 1 + 0)) % Size = current
      BY <1>2, <2>1, BroadcastAssumption DEF Slots
    <3>2. QED
      BY <1>1, <1>3, <1>4, <2>1, <3>1
  <2>2. CASE k # 1
    <3>1. /\ k \in 2 .. Len(recent')
          /\ k - 1 \in 1 .. Len(recent) /\ k - 1 <= Size - 1
          /\ (k - 1) - 1 + 1 = k - 1 /\ k - 1 + 0 = k - 1
      BY <1>3, <1>4, <2>2, BroadcastAssumption
    <3>2. ring[Back(k - 1)] = recent[k - 1]
      BY <1>3, <3>1 DEF RecentAt
    <3>3. QED
      BY <1>1, <1>4, <3>1, <3>2 DEF Back
  <2>3. QED
    BY <2>1, <2>2
<1>6. RecentAt(0, Size)'
  BY <1>5 DEF RecentAt, Back
<1>7. Len(recent') <= Size
  BY <1>3, <1>4, BroadcastAssumption
<1>8. QED
  BY <1>1, <1>2, <1>6, <1>7 DEF Keeps, Idle

(* Every step of broadcast_report and of the shutdown keeps Keeps. *)
LEMMA KeepsNext == IInv /\ Keeps /\ [Next]_vars => Keeps'
<1> SUFFICES ASSUME IInv, Keeps, [Next]_vars PROVE Keeps'
  OBVIOUS
<1>1. ASSUME NEW t \in Threads, broadcast_report(t) PROVE Keeps'
  BY <1>1, KeepsBefore, KeepsStore, KeepsPublish, KeepsNotify
  DEF broadcast_report
<1>2. CASE shutdown_webserver
  BY <1>2 DEF shutdown_webserver, Keeps
<1>3. CASE cleanup_ringbuffer
  BY <1>3, BroadcastAssumption DEF cleanup_ringbuffer, cleanup_free,
     cleanup_clear, cleanup_skip, cleanup_end, sweepVars, Slots, Keeps
<1>4. CASE UNCHANGED vars
  <2>1. NextIndex' = NextIndex
    BY <1>4 DEF vars, ringVars, NextIndex
  <2>2. QED
    BY <1>4, <2>1, SameRecent
    DEF vars, ringVars, threadVars, sweepVars, historyVars, Keeps
<1>5. QED
  BY <1>1, <1>2, <1>3, <1>4 DEF Next

(* Keeps is true of the empty ring. *)
LEMMA KeepsInit == Init => Keeps
BY BroadcastAssumption DEF Init, Keeps, RecentAt

(* Between calls, Keeps says what SerialRingKeeps says. *)
LEMMA KeepsEnough == IInv /\ Keeps => SerialRingKeeps
<1> SUFFICES ASSUME IInv, Keeps, ~raced, sweep = -1,
                    \A t \in Threads : Idle(t), NEW k \in DOMAIN recent
             PROVE  ring[Back(k - 1)] = recent[k]
  BY DEF SerialRingKeeps
<1>1. recent \in Seq(Bufs)
  BY DEF IInv, Core, TypeOK
<1>2. k \in 1 .. Len(recent) /\ k <= Size /\ k - 1 + 0 = k - 1
  BY <1>1, LenProperties, BroadcastAssumption DEF Keeps
<1>3. QED
  BY <1>2 DEF Keeps, RecentAt, Idle

(* As long as no two calls overlap, the ring holds the messages of the     *)
(* last Size broadcasts, in order, through any number of wrap-arounds of   *)
(* ws_ringbuffer_current (web_interface.c:280-286).                        *)
THEOREM RingKeeps == Spec => []SerialRingKeeps
<1>1. Spec => []Keeps
  BY Invariance, KeepsInit, KeepsNext, PTL DEF Spec
<1>2. QED
  BY <1>1, Invariance, KeepsEnough, PTL

=============================================================================
