------------------------------ MODULE Database ------------------------------
(***************************************************************************)
(* The uptime table of src/src/database.c and the calls the rest of the    *)
(* service makes on it.  Every call opens its own connection, works in one *)
(* transaction and closes it, and every call is made on the event-loop     *)
(* thread, so a call is one step; what varies is its outcome.              *)
(*                                                                         *)
(* A row keeps the two columns the service decides on.  uptime is held the *)
(* way sqlite3_bind_int holds it, as a signed number; last_update is held  *)
(* as the row's age, the whole seconds since it, because the only reader   *)
(* (main.c:82) subtracts it from the current time and compares the         *)
(* difference with a threshold.  Ages saturate at MaxAge, which the        *)
(* component that compares them sets above its threshold.                  *)
(***************************************************************************)
EXTENDS Integers

CONSTANTS
  Devices,       \* the mac addresses that report
  Half,          \* 2^31: uptime is a uint32_t, bound as a 32-bit signed int
  MaxAge,        \* ages saturate here
  SelectFaults,  \* what may go wrong in a select: "short", "null"
  InsertFaults,  \* what may go wrong in an insert: "lost", "fatal"
  ForeachCall,   \* where a call through &fptr may land: "callee", "fault"
  Null           \* C's NULL, and the absence of a row

VARIABLE db      \* the table on disk: it outlives the process

ASSUME DatabaseAssumption ==
  /\ Half \in Nat \ {0}
  /\ MaxAge \in Nat \ {0}
  /\ SelectFaults \subseteq {"short", "null"}
  /\ InsertFaults \subseteq {"lost", "fatal"}
  /\ ForeachCall \subseteq {"callee", "fault"}
  /\ ForeachCall # {}

-----------------------------------------------------------------------------

UInt32 == 0 .. (2 * Half - 1)

Int32 == -Half .. (Half - 1)

Ages == 0 .. MaxAge

Row == [uptime : Int32, age : Ages]

(* sqlite3_bind_int(stmt, 3, entry->uptime): the uint32_t is passed as int. *)
BindInt(u) == IF u >= Half THEN u - 2 * Half ELSE u

(* Mutant: the column is used as the signed number it is. *)
ColumnInt_signed(s) == s

(* uint32_t uptime = sqlite3_column_int(stmt, 2): the int becomes unsigned. *)
ColumnInt(s) == IF s < 0 THEN s + 2 * Half ELSE s

ASSUME NullAssumption == Null \notin Row

(* CREATE TABLE IF NOT EXISTS on a disk that has no table yet. *)
EmptyTable == [d \in Devices |-> Null]

(* One more second on the clock makes every row a second older. *)
Older(a) == IF a < MaxAge THEN a + 1 ELSE a

AgeRows(table) ==
  [d \in Devices |-> IF table[d] = Null
                     THEN Null
                     ELSE [table[d] EXCEPT !.age = Older(@)]]

-----------------------------------------------------------------------------
(* The records a select restricted to the devices of S can return.  Null   *)
(* stands for the early returns that log and give up.  The loop over       *)
(* sqlite3_step stops at anything that is not SQLITE_ROW, so a busy or     *)
(* failing database yields some of the rows, or none, as a short record    *)
(* that looks like a complete one.                                         *)
get_uptime_record(S) ==
  LET rows == {d \in S : db[d] # Null}
  IN {rows}
     \cup (IF "short" \in SelectFaults THEN SUBSET rows ELSE {})
     \cup (IF "null" \in SelectFaults THEN {Null} ELSE {})

(* How walking a record can end.  list_foreach calls nothing on an empty   *)
(* or NULL list.  Otherwise it calls &fptr, the address of the parameter's *)
(* own stack slot, cast to a function: ForeachCall says where that lands.  *)
uptime_record_foreach(record) ==
  IF record = Null \/ record = {} THEN {"callee"} ELSE ForeachCall

(* INSERT with ON CONFLICT REPLACE.  "lost": the result of sqlite3_step is *)
(* not looked at, so a busy table drops the row and the transaction still  *)
(* ends well.  "fatal": one of the checked calls fails and _exit ends the  *)
(* process with the transaction open, which the next open rolls back.      *)
InsertOutcomes == {"ok"} \cup InsertFaults

insert_uptime_entry(d, u, outcome) ==
  db' = IF outcome = "ok"
        THEN [db EXCEPT ![d] = [uptime |-> BindInt(u), age |-> 0]]
        ELSE db

(* What get_last_known_uptime(mac) can do: return the uptime of the first  *)
(* record, return 0 when there is none, or fault: on a NULL record, whose  *)
(* head it reads, and in the walk that frees the record.                   *)
get_last_known_uptime(d) ==
  UNION {IF record = Null
         THEN {[end |-> "fault", uptime |-> 0, missed |-> FALSE]}
         ELSE IF record = {}
         THEN {[end |-> "callee", uptime |-> 0, missed |-> db[d] # Null]}
         ELSE {[end |-> e, uptime |-> ColumnInt(db[d].uptime),
                missed |-> FALSE] : e \in uptime_record_foreach(record)} :
         record \in get_uptime_record({d})}

DbTypeOK == db \in [Devices -> Row \cup {Null}]

=============================================================================
