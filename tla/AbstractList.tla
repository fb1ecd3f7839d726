---------------------------- MODULE AbstractList ----------------------------
(***************************************************************************)
(* What list.h promises: a list is a sequence.  list_foreach hands every   *)
(* element over once, in the order of the appends, and list_contains says  *)
(* whether some element fits, all at once.                                 *)
(***************************************************************************)
EXTENDS Naturals, Sequences

CONSTANTS
  Data,     \* what callers append
  Null      \* no list

VARIABLES
  items,    \* the elements, Null when there is no list
  given,    \* what the walk under way has handed to its callback
  answer    \* the last result of list_contains

vars == <<items, given, answer>>

Init == items = Null /\ given = <<>> /\ answer = FALSE

Create == items = Null /\ items' = <<>> /\ UNCHANGED <<given, answer>>

Add(d) ==
  /\ items # Null
  /\ given = <<>>
  /\ items' = Append(items, d)
  /\ UNCHANGED <<given, answer>>

Visit ==
  /\ items # Null
  /\ Len(given) < Len(items)
  /\ given' = Append(given, items[Len(given) + 1])
  /\ UNCHANGED <<items, answer>>

(* A walk ends when it has handed over everything, and not before. *)
Finish == given = items /\ given' = <<>> /\ UNCHANGED <<items, answer>>

Holds(d) == items # Null /\ \E i \in 1 .. Len(items) : items[i] = d

Contains(d) == answer' = Holds(d) /\ UNCHANGED <<items, given>>

Drop == items # Null /\ given = <<>> /\ items' = Null /\ UNCHANGED <<given, answer>>

Next ==
  \/ Create
  \/ \E d \in Data : Add(d)
  \/ Visit
  \/ Finish
  \/ \E d \in Data : Contains(d)
  \/ Drop

Spec == Init /\ [][Next]_vars

=============================================================================
