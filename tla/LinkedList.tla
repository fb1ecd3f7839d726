----------------------------- MODULE LinkedList -----------------------------
(***************************************************************************)
(* src/src/list.c, the singly linked list behind the log queue and the     *)
(* records of the database, over a heap of cells that malloc hands out and *)
(* free takes back.  A list has one user at a time (the log's lock, or a   *)
(* local variable of a callback), so a call runs alone; the walks are one  *)
(* step per cell because each step calls back or frees.                    *)
(***************************************************************************)
EXTENDS Naturals, Sequences

CONSTANTS
  Addrs,    \* addresses malloc may return for an element_t
  Data,     \* what callers append
  Null

Cell == [data : Data, next : Addrs \cup {Null}]

ASSUME ListAssumption ==
  /\ Data # {}
  /\ Null \notin Addrs \cup Cell \cup Seq(Data)

VARIABLES
  live,     \* is the struct list allocated?
  head,     \* collection->head
  tail,     \* collection->tail
  cells,    \* the element_t at each address, Null when it is free
  pc,       \* the call under way: "idle", "foreach", "contains", "free", or
            \* "fault" after a read or a free through a dangling pointer
  node,     \* the cursor of that call
  want,     \* what fptr of list_contains looks for
  given,    \* the data list_foreach has handed to fptr so far
  answer    \* what list_contains returned last

(***************************************************************************)
(* History.                                                                *)
(***************************************************************************)
VARIABLES
  chain,    \* the cells of the list in the order they were appended
  k         \* how far along the chain the cursor is

listVars == <<live, head, tail, chain>>
walkVars == <<node, want, given, k>>
vars == <<listVars, cells, pc, walkVars, answer>>

-----------------------------------------------------------------------------

Init ==
  /\ live = FALSE
  /\ head = Null
  /\ tail = Null
  /\ cells = [a \in Addrs |-> Null]
  /\ pc = "idle"
  /\ node = Null
  /\ want = Null
  /\ given = <<>>
  /\ answer = FALSE
  /\ chain = <<>>
  /\ k = 1

(* calloc: head and tail are NULL. *)
list_init ==
  /\ pc = "idle"
  /\ ~live
  /\ live' = TRUE
  /\ head' = Null
  /\ tail' = Null
  /\ chain' = <<>>
  /\ UNCHANGED <<cells, pc, walkVars, answer>>

(* Mutant: data of the new cell is not set. *)
NewCell_empty(d) == [data |-> Null, next |-> Null]

NewCell(d) == [data |-> d, next |-> Null]

(* Mutant: tail stays where it is, and its link is overwritten next time. *)
NewTail_stale(a) == IF tail = Null THEN a ELSE tail

(* collection->tail = element *)
NewTail(a) == a

(* The new cell becomes the first, or the next of the last. *)
list_append(d) ==
  /\ pc = "idle"
  /\ live
  /\ \E a \in Addrs :
       /\ cells[a] = Null
       /\ tail' = NewTail(a)
       /\ chain' = Append(chain, a)
       /\ \/ /\ tail = Null
             /\ head' = a
             /\ cells' = [cells EXCEPT ![a] = NewCell(d)]
          \/ /\ tail # Null
             /\ head' = head
             /\ cells' = [cells EXCEPT ![tail] = [data |-> @.data, next |-> a],
                                       ![a] = NewCell(d)]
  /\ UNCHANGED <<live, pc, walkVars, answer>>

(* A walk starts at the head... *)
Begin(call) ==
  /\ pc = "idle"
  /\ live
  /\ pc' = call
  /\ node' = head
  /\ k' = 1

(* ... and is over when the cursor is NULL. *)
End ==
  /\ pc' = "idle"
  /\ node' = Null
  /\ k' = 1

(* node = node->next; a cell that is not there faults. *)
Advance ==
  IF cells[node] = Null
  THEN pc' = "fault" /\ UNCHANGED <<node, k>>
  ELSE UNCHANGED pc /\ node' = cells[node].next /\ k' = k + 1

-----------------------------------------------------------------------------

list_foreach ==
  /\ Begin("foreach")
  /\ UNCHANGED <<listVars, cells, want, given, answer>>

(* fptr(node->data, args); node = node->next *)
foreach_step ==
  /\ pc = "foreach"
  /\ node # Null
  /\ Advance
  /\ given' = IF cells[node] = Null THEN given ELSE Append(given, cells[node].data)
  /\ UNCHANGED <<listVars, cells, want, answer>>

(* Mutant: the walk stops at the last cell instead of after it. *)
foreach_end_early ==
  /\ pc = "foreach"
  /\ node \in {tail, Null}
  /\ End
  /\ given' = <<>>
  /\ UNCHANGED <<listVars, cells, want, answer>>

foreach_end ==
  /\ pc = "foreach"
  /\ node = Null
  /\ End
  /\ given' = <<>>
  /\ UNCHANGED <<listVars, cells, want, answer>>

-----------------------------------------------------------------------------

list_contains(d) ==
  /\ Begin("contains")
  /\ want' = d
  /\ UNCHANGED <<listVars, cells, given, answer>>

(* list_contains(NULL, ...) is false at once. *)
contains_none ==
  /\ pc = "idle"
  /\ ~live
  /\ answer' = FALSE
  /\ UNCHANGED <<listVars, cells, pc, walkVars>>

(* The element fits: return true, leaving the rest unseen. *)
contains_hit ==
  /\ pc = "contains"
  /\ node # Null
  /\ cells[node] # Null
  /\ cells[node].data = want
  /\ answer' = TRUE
  /\ End
  /\ want' = Null
  /\ UNCHANGED <<listVars, cells, given>>

contains_step ==
  /\ pc = "contains"
  /\ node # Null
  /\ cells[node] # Null => cells[node].data # want
  /\ Advance
  /\ UNCHANGED <<listVars, cells, want, given, answer>>

contains_end ==
  /\ pc = "contains"
  /\ node = Null
  /\ answer' = FALSE
  /\ End
  /\ want' = Null
  /\ UNCHANGED <<listVars, cells, given>>

-----------------------------------------------------------------------------

list_free ==
  /\ Begin("free")
  /\ UNCHANGED <<listVars, cells, want, given, answer>>

(* to_free = current; current = current->next; free(to_free) *)
free_step ==
  /\ pc = "free"
  /\ node # Null
  /\ Advance
  /\ cells' = [cells EXCEPT ![node] = Null]
  /\ UNCHANGED <<listVars, want, given, answer>>

(* free(collection) *)
free_end ==
  /\ pc = "free"
  /\ node = Null
  /\ End
  /\ live' = FALSE
  /\ head' = Null
  /\ tail' = Null
  /\ chain' = <<>>
  /\ UNCHANGED <<cells, want, given, answer>>

-----------------------------------------------------------------------------

Next ==
  \/ list_init
  \/ \E d \in Data : list_append(d)
  \/ list_foreach \/ foreach_step \/ foreach_end
  \/ \E d \in Data : list_contains(d)
  \/ contains_none \/ contains_hit \/ contains_step \/ contains_end
  \/ list_free \/ free_step \/ free_end

Spec == Init /\ [][Next]_vars

-----------------------------------------------------------------------------

TypeOK ==
  /\ live \in BOOLEAN
  /\ head \in Addrs \cup {Null}
  /\ tail \in Addrs \cup {Null}
  /\ cells \in [Addrs -> Cell \cup {Null}]
  /\ pc \in {"idle", "foreach", "contains", "free", "fault"}
  /\ node \in Addrs \cup {Null}
  /\ want \in Data \cup {Null}
  /\ given \in Seq(Data)
  /\ answer \in BOOLEAN
  /\ chain \in Seq(Addrs)
  /\ k \in Nat \ {0}

(* The cells list_free has not freed yet; all of them before it begins. *)
Kept == IF pc = "free" THEN k .. Len(chain) ELSE 1 .. Len(chain)

(* Memory safety and no leak: no pointer of the list leads to a cell that  *)
(* was freed or handed out again, the cells not yet freed are linked in    *)
(* the order of the appends from the cursor to the NULL after the tail,    *)
(* and no cell is allocated that the list does not hold: list_free leaves  *)
(* nothing behind.                                                         *)
Linked ==
  /\ pc # "fault"
  /\ \A i \in Kept :
       /\ cells[chain[i]] # Null
       /\ cells[chain[i]].next = IF i = Len(chain) THEN Null ELSE chain[i + 1]
  /\ \A a \in Addrs : cells[a] # Null => \E i \in Kept : chain[i] = a

(* The sequence a user of list.h sees.  It is gone as soon as list_free    *)
(* begins.                                                                 *)
DataOf(c, h) == [i \in 1 .. Len(c) |-> h[c[i]].data]

Contents == IF live /\ pc # "free" THEN DataOf(chain, cells) ELSE Null

A == INSTANCE AbstractList WITH items <- Contents

(* The linked list implements the sequence: list_foreach hands over every  *)
(* element exactly once and in order, also when the list is refilled after *)
(* a list_free, and list_contains, which stops early, answers what a look  *)
(* at the whole list would.                                                *)
ListIsSequence == A!Spec

=============================================================================
