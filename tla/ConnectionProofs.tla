-------------------------- MODULE ConnectionProofs --------------------------
(***************************************************************************)
(* What the reads of a connection register, for any number of messages and *)
(* however TCP cuts the stream.                                            *)
(***************************************************************************)
EXTENDS Connection, TLAPS

-----------------------------------------------------------------------------
(* What was registered lies in what was read, *)
Consumed == \A i \in 1 .. Len(uptimes) : 6 * uptimes[i] <= read

(* and if every read ended between messages, so does the last one, and its *)
(* report is the newest message read.                                      *)
AtBoundary ==
  ~split => \E n \in 0 .. MaxMsgs :
              read = 6 * n /\ (n > 0 => report = [f \in Fields |-> n])

IInv == TypeOK /\ UptimesInOrder /\ Consumed /\ AtBoundary

-----------------------------------------------------------------------------
(* deserialize_report gives NULL or a report.  An uptime it gives is that  *)
(* of a message whose uptime field the read holds, or the read began       *)
(* inside a field.                                                         *)
LEMMA Decoded ==
  ASSUME NEW lo \in Nat, NEW hi \in Nat, NEW r \in deserialize_report(lo, hi)
  PROVE  /\ r \in Report \cup {Null}
         /\ r # Null /\ r[2] # 0 =>
              r[2] \in Msgs /\ 6 * r[2] <= hi /\ 6 * r[2] > lo
         /\ r # Null /\ r[2] = 0 => lo % 2 = 0
<1>1. r \in Garbled(lo, hi) \/ r \in Merged(lo, hi) \/ r = Null
  BY DEF deserialize_report, unpack
<1>2. r \in Report \cup {Null}
  BY <1>1 DEF Garbled, Merged
<1>3. ASSUME r # Null, r[2] # 0
      PROVE  r[2] \in Msgs /\ 6 * r[2] <= hi /\ 6 * r[2] > lo
  <2>1. r[2] \in Whole(lo, hi, 2)
    BY <1>1, <1>3 DEF Garbled, Merged, Fields
  <2>2. QED
    BY <2>1, ConnectionAssumption DEF Whole, First, Msgs
<1>4. ASSUME r # Null, r[2] = 0, lo % 2 # 0
      PROVE  FALSE
  <2>1. r \in Merged(lo, hi)
    BY <1>4 DEF deserialize_report, unpack
  <2>2. r[2] \in Whole(lo, hi, 2)
    BY <1>4, <2>1 DEF Merged, Fields
  <2>3. QED
    BY <1>4, <2>2, ConnectionAssumption DEF Whole, Msgs
<1>5. QED
  BY <1>2, <1>3, <1>4

(* A read of whole messages gives the last of them. *)
LEMMA DecodedWhole ==
  ASSUME NEW a \in Nat, NEW b \in Msgs, a < b,
         NEW r \in deserialize_report(6 * a + 1, 6 * b)
  PROVE  r = [f \in Fields |-> b]
<1> DEFINE lo == 6 * a + 1
           hi == 6 * b
<1>0. b \in Nat \ {0} /\ a \in Nat /\ lo \in Nat /\ hi \in Nat
  BY ConnectionAssumption DEF Msgs
<1>1. lo % 2 = 1 /\ hi % 2 = 0
  BY <1>0
<1>2. r \in Merged(lo, hi)
  BY <1>1 DEF deserialize_report, unpack
<1>3. ASSUME NEW f \in Fields
      PROVE  b \in Whole(lo, hi, f) /\ \A m \in Whole(lo, hi, f) : m <= b
  BY <1>0, ConnectionAssumption DEF Whole, First, Fields, Msgs
<1> HIDE DEF lo, hi
<1>4. r \in Report /\ \A f \in Fields :
        r[f] \in Whole(lo, hi, f) /\ \A m \in Whole(lo, hi, f) : m <= r[f]
  BY <1>2, <1>3 DEF Merged
<1>5. \A f \in Fields : r[f] = b
  <2> SUFFICES ASSUME NEW f \in Fields PROVE r[f] = b
    OBVIOUS
  <2>1. r[f] \in Whole(lo, hi, f) /\ b <= r[f] /\ r[f] <= b
    BY <1>3, <1>4
  <2>2. r[f] \in Nat
    BY <2>1, ConnectionAssumption DEF Whole, Msgs
  <2>3. QED
    BY <1>0, <2>1, <2>2
<1>6. QED
  BY <1>4, <1>5 DEF Report

-----------------------------------------------------------------------------
(* Before the first connection nothing was sent, read or registered. *)
LEMMA InitInv == Init => IInv
<1> SUFFICES ASSUME Init PROVE IInv
  OBVIOUS
<1>1. split \in BOOLEAN
  BY Zenon DEF Init
<1>2. TypeOK
  BY <1>1, ConnectionAssumption DEF Init, TypeOK
<1>3. UptimesInOrder /\ Consumed
  BY DEF Init, UptimesInOrder, Consumed
<1>4. AtBoundary
  BY ConnectionAssumption DEF Init, AtBoundary
<1>5. QED
  BY <1>2, <1>3, <1>4 DEF IInv

(* A read that registers something registers a newer uptime. *)
LEMMA ReadInv ==
  ASSUME IInv, on_read_unit_complete
  PROVE  IInv'
<1> USE ConnectionAssumption
<1>1. PICK hi \in (read + 1) .. (6 * sent) :
        /\ read' = hi
        /\ split' = (split \/ hi % 6 # 0)
        /\ \E r \in deserialize_report(read + 1, hi) :
             /\ report' = IF r = Null THEN report ELSE r
             /\ uptimes' = IF r = Null THEN uptimes ELSE Append(uptimes, r[2])
  BY DEF on_read_unit_complete
<1>2. PICK r \in deserialize_report(read + 1, hi) :
        /\ report' = IF r = Null THEN report ELSE r
        /\ uptimes' = IF r = Null THEN uptimes ELSE Append(uptimes, r[2])
  BY <1>1
<1>3. /\ read \in Nat /\ hi \in Nat /\ read < hi /\ hi <= 6 * sent
      /\ sent \in 0 .. MaxMsgs /\ sent' = sent /\ handle' = handle
  BY <1>1 DEF IInv, TypeOK, on_read_unit_complete
<1>4. /\ r \in Report \cup {Null}
      /\ r # Null /\ r[2] # 0 =>
           r[2] \in Msgs /\ 6 * r[2] <= hi /\ 6 * r[2] > read + 1
      /\ r # Null /\ r[2] = 0 => (read + 1) % 2 = 0
  BY <1>2, <1>3, Decoded
<1>5. split' \in BOOLEAN
  <2>1. split' = (split \/ hi % 6 # 0)
    BY <1>1
  <2>2. QED
    BY <2>1, Zenon
<1>6. TypeOK'
  <2>1. uptimes \in Seq(Msgs \cup {0}) /\ report \in Report \cup {Null}
    BY DEF IInv, TypeOK
  <2>2. r # Null => r[2] \in Msgs \cup {0}
    BY <1>4
  <2>3. uptimes' \in Seq(Msgs \cup {0}) /\ report' \in Report \cup {Null}
    BY <1>2, <1>4, <2>1, <2>2
  <2>4. read' \in 0 .. (6 * sent')
    BY <1>1, <1>3
  <2>5. QED
    BY <1>3, <1>5, <2>3, <2>4 DEF IInv, TypeOK
<1>7. UptimesInOrder' /\ Consumed'
  <2>1. CASE r = Null
    <3>1. uptimes' = uptimes /\ (split => split')
      BY <1>1, <1>2, <2>1
    <3>2. uptimes \in Seq(Msgs \cup {0})
      BY DEF IInv, TypeOK
    <3>3. QED
      BY <1>1, <1>3, <3>1, <3>2 DEF IInv, UptimesInOrder, Consumed, Msgs
  <2>2. CASE r # Null
    <3>1. /\ uptimes \in Seq(Msgs \cup {0}) /\ r[2] \in Msgs \cup {0}
          /\ uptimes' = Append(uptimes, r[2])
      BY <1>2, <1>4, <2>2 DEF IInv, TypeOK
    <3>2. /\ Len(uptimes') = Len(uptimes) + 1 /\ Len(uptimes) \in Nat
          /\ \A i \in 1 .. Len(uptimes) :
               uptimes'[i] = uptimes[i] /\ uptimes[i] \in Msgs \cup {0}
          /\ uptimes'[Len(uptimes) + 1] = r[2]
      BY <3>1
    <3>3. \A i \in 1 .. Len(uptimes) :
            6 * uptimes[i] <= read /\ (r[2] # 0 => uptimes[i] < r[2])
      BY <1>3, <1>4, <2>2, <3>1, <3>2 DEF IInv, Consumed, Msgs
    <3>4. r[2] = 0 => split'
      <4>1. r[2] = 0 /\ ~split => FALSE
        BY <1>3, <1>4, <2>2 DEF IInv, AtBoundary
      <4>2. QED
        BY <1>1, <4>1
    <3>5. \A i, j \in 1 .. Len(uptimes') :
            i < j /\ uptimes'[j] # 0 => uptimes'[i] < uptimes'[j]
      BY <3>2, <3>3 DEF IInv, UptimesInOrder
    <3>6. split' \/ \A i \in 1 .. Len(uptimes') : uptimes'[i] # 0
      <4> SUFFICES ASSUME ~split', NEW i \in 1 .. Len(uptimes')
                   PROVE  uptimes'[i] # 0
        OBVIOUS
      <4>1. ~split
        BY <1>1
      <4>2. i \in 1 .. Len(uptimes) \/ i = Len(uptimes) + 1
        BY <3>2
      <4>3. QED
        BY <3>2, <3>4, <4>1, <4>2 DEF IInv, UptimesInOrder
    <3>7. Consumed'
      BY <1>1, <1>3, <1>4, <2>2, <3>2, <3>3 DEF Consumed, Msgs
    <3>8. QED
      BY <3>5, <3>6, <3>7 DEF UptimesInOrder
  <2>3. QED
    BY <2>1, <2>2
<1>8. AtBoundary'
  <2> SUFFICES ASSUME ~split'
               PROVE  \E n \in 0 .. MaxMsgs :
                        read' = 6 * n /\ (n > 0 => report' = [f \in Fields |-> n])
    BY DEF AtBoundary
  <2>1. ~split /\ hi % 6 = 0
    BY <1>1
  <2>2. PICK a \in 0 .. MaxMsgs : read = 6 * a
    BY <2>1 DEF IInv, AtBoundary
  <2>3. PICK b \in Nat : hi = 6 * b
    <3>1. hi \div 6 \in Nat /\ hi = 6 * (hi \div 6) + (hi % 6)
      BY <1>3
    <3>2. QED
      BY <2>1, <3>1
  <2>4. a < b /\ b \in Msgs
    BY <1>3, <2>2, <2>3 DEF Msgs
  <2>5. r = [f \in Fields |-> b]
    BY <1>2, <2>2, <2>3, <2>4, DecodedWhole
  <2>6. r # Null
    BY <2>4, <2>5, NullAssumption DEF Report
  <2>7. b \in 0 .. MaxMsgs /\ read' = 6 * b
    BY <1>1, <2>3, <2>4 DEF Msgs
  <2>8. report' = [f \in Fields |-> b]
    BY <1>2, <2>5, <2>6
  <2>9. QED
    BY <2>7, <2>8
<1>9. QED
  BY <1>6, <1>7, <1>8 DEF IInv

(* Every step of the connection preserves the invariant. *)
LEMMA NextInv == IInv /\ [Next]_vars => IInv'
<1> SUFFICES ASSUME IInv, [Next]_vars PROVE IInv'
  OBVIOUS
<1>1. CASE on_new_connection \/ on_read_error \/ UNCHANGED vars
  <2>1. UNCHANGED streamVars /\ handle' \in {"none", "open", "closing", "leaked"}
    BY <1>1 DEF on_new_connection, on_read_error, vars, IInv, TypeOK
  <2>2. QED
    BY <2>1 DEF streamVars, IInv, TypeOK, UptimesInOrder, Consumed, AtBoundary
<1>2. CASE Send
  <2>1. UNCHANGED <<handle, read, report, split, uptimes>>
        /\ sent' \in 0 .. MaxMsgs /\ sent' = sent + 1
    BY <1>2, ConnectionAssumption DEF Send, IInv, TypeOK
  <2>2. TypeOK'
    BY <2>1, ConnectionAssumption DEF IInv, TypeOK
  <2>3. QED
    BY <2>1, <2>2 DEF IInv, UptimesInOrder, Consumed, AtBoundary
<1>3. CASE on_read_unit_complete
  BY <1>3, ReadInv
<1>4. CASE on_close
  <2>1. split' \in BOOLEAN
    BY <1>4, Zenon DEF on_close
  <2>2. TypeOK'
    BY <1>4, <2>1, ConnectionAssumption DEF on_close, TypeOK
  <2>3. UptimesInOrder' /\ Consumed'
    BY <1>4 DEF on_close, UptimesInOrder, Consumed
  <2>4. AtBoundary'
    BY <1>4, ConnectionAssumption DEF on_close, AtBoundary
  <2>5. QED
    BY <2>2, <2>3, <2>4 DEF IInv
<1>5. QED
  BY <1>1, <1>2, <1>3, <1>4 DEF Next

-----------------------------------------------------------------------------
(* The invariant holds however the stream is cut. *)
THEOREM Invariance == Spec => []IInv
BY InitInv, NextInv, PTL DEF Spec

(* What on_read_unit_complete reads and registers keeps its type: every    *)
(* report it passes on has all three fields.                               *)
THEOREM TypeCorrect == Spec => []TypeOK
<1>1. IInv => TypeOK
  BY DEF IInv
<1>2. QED
  BY <1>1, Invariance, PTL

(* on_read_unit_complete registers the uptime of no message twice and none *)
(* after a newer one, wherever reads begin and end, and makes one up only  *)
(* after a read that ended inside a message.                               *)
THEOREM InOrder == Spec => []UptimesInOrder
<1>1. IInv => UptimesInOrder
  BY DEF IInv
<1>2. QED
  BY <1>1, Invariance, PTL

(* While no read of on_read_unit_complete ends inside a message, the       *)
(* newest message read is registered as it was sent.                       *)
THEOREM Newest == Spec => []NewestSurvives
<1>1. IInv => NewestSurvives
  <2> SUFFICES ASSUME IInv, ~split, sent > 0, read = 6 * sent
               PROVE  report = [f \in Fields |-> sent]
    BY DEF NewestSurvives
  <2>1. PICK n \in 0 .. MaxMsgs :
          read = 6 * n /\ (n > 0 => report = [f \in Fields |-> n])
    BY DEF IInv, AtBoundary
  <2>2. n = sent /\ n > 0
    BY <2>1, ConnectionAssumption DEF IInv, TypeOK
  <2>3. QED
    BY <2>1, <2>2
<1>2. QED
  BY <1>1, Invariance, PTL

=============================================================================
