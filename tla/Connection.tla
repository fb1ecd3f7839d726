----------------------------- MODULE Connection -----------------------------
(***************************************************************************)
(* One connection of a device, from on_new_connection to on_close in       *)
(* src/src/main.c, and the decoding of what it sends by                    *)
(* src/src/serialization.c.  TCP keeps no message boundaries: a read hands *)
(* over any prefix of what has arrived, and on_read_unit_complete takes it *)
(* for one message.  Connections share nothing but what they register.     *)
(*                                                                         *)
(* A message has three fields of two units each, enough for a read to end  *)
(* between messages, between fields and inside a field.  A report is, per  *)
(* field, the number of the message its value came from; 0 for bytes that  *)
(* were never that field.                                                  *)
(***************************************************************************)
EXTENDS Naturals, Sequences

CONSTANTS
  MaxMsgs,    \* bound: the messages a device sends on one connection
  Null

ASSUME ConnectionAssumption == MaxMsgs \in Nat

(* mac_address, description and uptime, in the order they are encoded. *)
Fields == {0, 1, 2}

Msgs == 1 .. MaxMsgs

Report == [Fields -> Msgs \cup {0}]

ASSUME NullAssumption == Null \notin Report

VARIABLES
  handle,   \* the uv_tcp_t: "none", "open", "closing", or "leaked" when it
            \* was closed with no callback to free it
  sent,     \* messages the device has sent on this connection
  read,     \* units of them read so far
  report    \* the last report register_uptime_report was given, or Null

(***************************************************************************)
(* History.                                                                *)
(***************************************************************************)
VARIABLES
  split,    \* some read has ended inside a message
  uptimes   \* the messages whose uptime was registered, oldest first, and 0
            \* for a registered number that no message had as its uptime

streamVars == <<sent, read, report, split, uptimes>>
vars == <<handle, streamVars>>

(* The first unit of field f of message m; the second one follows. *)
First(m, f) == 6 * (m - 1) + 2 * f + 1

-----------------------------------------------------------------------------

Init ==
  /\ handle = "none"
  /\ sent = 0
  /\ read = 0
  /\ report = Null
  /\ split = FALSE
  /\ uptimes = <<>>

(* The accept may fail; the handle is then closed with no callback. *)
on_new_connection ==
  /\ handle = "none"
  /\ handle' \in {"open", "leaked"}
  /\ UNCHANGED streamVars

(* A device sends a report. *)
Send ==
  /\ handle = "open"
  /\ sent < MaxMsgs
  /\ sent' = sent + 1
  /\ UNCHANGED <<handle, read, report, split, uptimes>>

-----------------------------------------------------------------------------
(* The messages whose field f lies within the units lo .. hi. *)
Whole(lo, hi, f) == {m \in Msgs : First(m, f) >= lo /\ First(m, f) + 1 <= hi}

(* Mutant: the fields are optional, and a missing one is a null pointer. *)
Merged_optional(lo, hi) ==
  IF \E f \in Fields : Whole(lo, hi, f) = {}
  THEN {[f \in Fields |-> Null]}
  ELSE {r \in Report : \A f \in Fields :
          r[f] \in Whole(lo, hi, f) /\ \A m \in Whole(lo, hi, f) : m <= r[f]}

(* Concatenated messages decode as one, in which the last value of each    *)
(* field counts.  Every field is required.                                 *)
Merged(lo, hi) ==
  IF \E f \in Fields : Whole(lo, hi, f) = {}
  THEN {Null}
  ELSE {r \in Report : \A f \in Fields :
          r[f] \in Whole(lo, hi, f) /\ \A m \in Whole(lo, hi, f) : m <= r[f]}

(* Bytes from the middle of a field are taken for tags: the decoder gives  *)
(* up, or skips some of the units as unknown fields, or finds a field in   *)
(* bytes that were none.                                                   *)
Garbled(lo, hi) ==
  {Null} \cup {r \in Report : \A f \in Fields :
                 r[f] # 0 => r[f] \in Whole(lo, hi, f)}

(* uptime_report_msg__unpack on units lo .. hi: a value cut off at the end *)
(* is an error.                                                            *)
unpack(lo, hi) ==
  IF lo % 2 = 0 THEN Garbled(lo, hi)
  ELSE IF hi % 2 = 1 THEN {Null}
  ELSE Merged(lo, hi)

(* Mutant: the last byte is taken for a terminating zero. *)
deserialize_report_short(lo, hi) == unpack(lo, hi - 1)

(* Mutant: the buffer is kept and decoded again from its start. *)
deserialize_report_again(lo, hi) == unpack(1, hi)

(* A copy of the message, or NULL. *)
deserialize_report(lo, hi) == unpack(lo, hi)

(* on_read_unit_complete with nread > 0: any prefix of the unread units.   *)
(* (With nread = 0 it only frees the buffer.)                              *)
on_read_unit_complete ==
  /\ handle = "open"
  /\ \E hi \in (read + 1) .. (6 * sent) :
       /\ read' = hi
       /\ split' = (split \/ hi % 6 # 0)
       /\ \E r \in deserialize_report(read + 1, hi) :
            /\ report' = IF r = Null THEN report ELSE r
            /\ uptimes' = IF r = Null THEN uptimes ELSE Append(uptimes, r[2])
  /\ UNCHANGED <<handle, sent>>

(* on_read_unit_complete with nread < 0: the end of the stream, or an      *)
(* error that drops what was not read.                                     *)
on_read_error ==
  /\ handle = "open"
  /\ handle' = "closing"
  /\ UNCHANGED streamVars

(* The handle is freed; the device may connect again. *)
on_close ==
  /\ handle = "closing"
  /\ handle' = "none"
  /\ sent' = 0
  /\ read' = 0
  /\ report' = Null
  /\ split' = FALSE
  /\ uptimes' = <<>>

Next ==
  \/ on_new_connection
  \/ Send
  \/ on_read_unit_complete
  \/ on_read_error
  \/ on_close

Spec == Init /\ [][Next]_vars

-----------------------------------------------------------------------------

TypeOK ==
  /\ handle \in {"none", "open", "closing", "leaked"}
  /\ sent \in 0 .. MaxMsgs
  /\ read \in 0 .. (6 * sent)
  /\ report \in Report \cup {Null}
  /\ split \in BOOLEAN
  /\ uptimes \in Seq(Msgs \cup {0})

(* However the stream is cut, on_read_unit_complete registers the uptime   *)
(* of no message twice and none after that of a newer one, and it makes    *)
(* one up only when some read has ended inside a message: an uptime that   *)
(* is replayed, overtaken or made up would look like a reboot.             *)
UptimesInOrder ==
  /\ \A i, j \in 1 .. Len(uptimes) :
       i < j /\ uptimes[j] # 0 => uptimes[i] < uptimes[j]
  /\ split \/ \A i \in 1 .. Len(uptimes) : uptimes[i] # 0

(* As long as reads end between messages, joining any number of them loses *)
(* only superseded reports: once everything was read, the last report that *)
(* on_read_unit_complete registered is the newest one, all of it.          *)
NewestSurvives ==
  ~split /\ sent > 0 /\ read = 6 * sent =>
    report = [f \in Fields |-> sent]

(* README.md:5, "This service handles device registration": once all that  *)
(* a device sent was read, its newest uptime is the one registered.        *)
ReportsAreRegistered ==
  sent > 0 /\ read = 6 * sent => uptimes # <<>> /\ uptimes[Len(uptimes)] = sent

=============================================================================
