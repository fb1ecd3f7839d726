-------------------------- MODULE LinkedListProofs --------------------------
(***************************************************************************)
(* list.c never follows a dangling pointer, leaks no cell and implements a *)
(* sequence, for every set of addresses and every type of data.            *)
(***************************************************************************)
EXTENDS LinkedList, TLAPS

-----------------------------------------------------------------------------
(* The parts Linked needs to be inductive: the ends of the chain,          *)
Ends ==
  /\ head = IF chain = <<>> THEN Null ELSE chain[1]
  /\ tail = IF chain = <<>> THEN Null ELSE chain[Len(chain)]
  /\ ~live => chain = <<>>

(* no cell twice in it,                                                    *)
Distinct == \A i, j \in 1 .. Len(chain) : chain[i] = chain[j] => i = j

(* the cursor,                                                             *)
Cursor ==
  /\ pc = "idle" => node = Null /\ k = 1
  /\ pc # "idle" => /\ live
                    /\ k <= Len(chain) + 1
                    /\ node = IF k = Len(chain) + 1 THEN Null ELSE chain[k]

(* and what the walk under way has done so far.                            *)
Progress ==
  /\ pc # "foreach" => given = <<>>
  /\ pc = "foreach" => /\ Len(given) = k - 1
                       /\ \A i \in 1 .. (k - 1) : given[i] = cells[chain[i]].data
  /\ pc = "contains" => /\ want \in Data
                        /\ \A i \in 1 .. (k - 1) : cells[chain[i]].data # want

IInv == TypeOK /\ Linked /\ Ends /\ Distinct /\ Cursor /\ Progress

USE DEF Cell

(* Initially there is no list and no cell. *)
LEMMA InitInv == Init => IInv
<1> SUFFICES ASSUME Init PROVE IInv
  OBVIOUS
<1>1. live \in BOOLEAN /\ answer \in BOOLEAN
  BY Zenon DEF Init
<1>2. TypeOK
  BY <1>1 DEF Init, TypeOK
<1>3. Linked /\ Ends /\ Distinct /\ Cursor /\ Progress
  BY DEF Init, Linked, Kept, Ends, Distinct, Cursor, Progress
<1>4. QED
  BY <1>2, <1>3 DEF IInv

(* list_init makes an empty list of nothing. *)
LEMMA InitListInv ==
  ASSUME IInv, list_init
  PROVE  IInv'
BY DEF list_init, walkVars, IInv, TypeOK, Linked, Kept, Ends, Distinct, Cursor,
       Progress

(* list_append puts a cell no one holds behind the last one. *)
LEMMA AppendInv ==
  ASSUME IInv, NEW d \in Data, list_append(d)
  PROVE  IInv'
<1> USE DEF IInv, list_append, NewTail, NewCell, walkVars
<1>1. PICK a \in Addrs :
        LET cell == [data |-> d, next |-> Null]
        IN /\ cells[a] = Null
           /\ tail' = a
           /\ chain' = Append(chain, a)
           /\ \/ /\ tail = Null
                 /\ head' = a
                 /\ cells' = [cells EXCEPT ![a] = cell]
              \/ /\ tail # Null
                 /\ head' = head
                 /\ cells' = [cells EXCEPT ![tail] = [data |-> @.data, next |-> a],
                                           ![a] = cell]
  OBVIOUS
<1>2. /\ chain \in Seq(Addrs)
      /\ Len(chain) \in Nat
      /\ chain' \in Seq(Addrs)
      /\ Len(chain') = Len(chain) + 1
      /\ \A i \in 1 .. Len(chain) : chain'[i] = chain[i]
      /\ chain'[Len(chain) + 1] = a
      /\ chain' # <<>>
  BY <1>1 DEF TypeOK
<1>3. pc = "idle" /\ pc' = "idle" /\ live' = live /\ live /\ node' = node
      /\ k' = k /\ given' = given /\ want' = want /\ answer' = answer
  OBVIOUS
<1>4. \A i \in 1 .. Len(chain) : chain[i] \in Addrs /\ chain[i] # a
  BY <1>1, <1>2, <1>3 DEF Linked, Kept
<1>5. Distinct'
  BY <1>2, <1>4 DEF Distinct
<1>6. Ends'
  <2>1. CASE chain = <<>>
    BY <1>1, <1>2, <1>3, <2>1 DEF Ends
  <2>2. CASE chain # <<>>
    <3>1. Len(chain) \in Nat \ {0}
      BY <1>2, <2>2
    <3>2. tail \in Addrs /\ head = chain[1]
      BY <1>2, <1>4, <2>2, <3>1 DEF Ends
    <3>3. head' = chain'[1]
      BY <1>1, <1>2, <3>1, <3>2, ListAssumption
    <3>4. QED
      BY <1>1, <1>2, <1>3, <3>3 DEF Ends
  <2>3. QED
    BY <2>1, <2>2
<1>7. Cursor' /\ Progress'
  BY <1>3 DEF Cursor, Progress
<1>8. CASE chain = <<>>
  <2>1. tail = Null /\ Len(chain) = 0
    BY <1>8 DEF Ends
  <2>2. cells' = [cells EXCEPT ![a] = [data |-> d, next |-> Null]] /\ head' = a
    BY <1>1, <2>1
  <2>3. TypeOK'
    BY <1>1, <1>2, <1>3, <2>2 DEF TypeOK
  <2>4. Linked'
    BY <1>2, <1>3, <2>1, <2>2, ListAssumption DEF Linked, Kept, TypeOK
  <2>5. QED
    BY <1>5, <1>6, <1>7, <2>3, <2>4
<1>9. CASE chain # <<>>
  <2>1. Len(chain) \in Nat \ {0} /\ tail = chain[Len(chain)] /\ tail \in Addrs
        /\ tail # a
    BY <1>2, <1>4, <1>9 DEF Ends
  <2>2. tail # Null
    BY <2>1, ListAssumption
  <2>3. /\ head' = head
        /\ cells' = [cells EXCEPT ![tail] = [data |-> @.data, next |-> a],
                                  ![a] = [data |-> d, next |-> Null]]
    BY <1>1, <2>2
  <2>4. cells[tail] \in Cell
    BY <1>2, <1>3, <2>1 DEF Linked, Kept, TypeOK
  <2>5. /\ cells'[a] = [data |-> d, next |-> Null]
        /\ cells'[tail] = [data |-> cells[tail].data, next |-> a]
        /\ \A b \in Addrs \ {a, tail} : cells'[b] = cells[b]
    BY <2>1, <2>3, <2>4 DEF TypeOK
  <2>6. cells' \in [Addrs -> Cell \cup {Null}]
    BY <2>1, <2>3, <2>4, <2>5 DEF TypeOK
  <2>7. TypeOK'
    BY <1>1, <1>2, <1>3, <2>3, <2>6 DEF TypeOK
  <2>8. \A i \in 1 .. Len(chain) : chain[i] = tail => i = Len(chain)
    BY <1>2, <2>1 DEF Distinct
  <2>9. ASSUME NEW i \in Kept'
        PROVE  /\ cells'[chain'[i]] # Null
               /\ cells'[chain'[i]].next =
                    IF i = Len(chain') THEN Null ELSE chain'[i + 1]
    <3>1. i \in 1 .. (Len(chain) + 1)
      BY <1>2, <1>3 DEF Kept
    <3>2. CASE i = Len(chain) + 1
      BY <1>2, <2>5, <3>2, ListAssumption
    <3>3. CASE i = Len(chain)
      BY <1>2, <2>1, <2>4, <2>5, <3>3, ListAssumption
    <3>4. CASE i \in 1 .. (Len(chain) - 1)
      <4>1. chain[i] \in Addrs \ {a, tail} /\ chain'[i] = chain[i]
            /\ chain'[i + 1] = chain[i + 1]
        BY <1>2, <1>4, <2>1, <2>8, <3>4
      <4>2. cells[chain[i]] # Null /\ cells[chain[i]].next = chain[i + 1]
        BY <1>2, <1>3, <3>4 DEF Linked, Kept
      <4>3. QED
        BY <1>2, <2>5, <3>4, <4>1, <4>2
    <3>5. QED
      BY <1>2, <3>1, <3>2, <3>3, <3>4
  <2>10. \A b \in Addrs : cells'[b] # Null => \E i \in Kept' : chain'[i] = b
    BY <1>2, <1>3, <2>1, <2>5 DEF Linked, Kept
  <2>11. Linked'
    BY <1>3, <2>9, <2>10 DEF Linked
  <2>12. QED
    BY <1>5, <1>6, <1>7, <2>7, <2>11
<1>10. QED
  BY <1>8, <1>9

(* A walk that begins is at the head of the chain. *)
LEMMA BeginInv ==
  ASSUME IInv, NEW call \in {"foreach", "contains", "free"}, Begin(call),
         UNCHANGED <<listVars, cells, given, answer>>,
         want' \in Data \cup {Null}, call = "contains" => want' \in Data
  PROVE  IInv'
<1>1. TypeOK'
  BY DEF IInv, TypeOK, Begin, listVars
<1>2. Linked'
  BY DEF IInv, TypeOK, Linked, Kept, Begin, listVars
<1>3. Ends' /\ Distinct'
  BY DEF IInv, Ends, Distinct, Begin, listVars
<1>4. Cursor'
  BY DEF IInv, TypeOK, Cursor, Ends, Begin, listVars
<1>5. Progress'
  BY DEF IInv, TypeOK, Progress, Begin, listVars
<1>6. QED
  BY <1>1, <1>2, <1>3, <1>4, <1>5 DEF IInv

(* A walk that is over leaves the list as it was. *)
LEMMA EndInv ==
  ASSUME IInv, pc \in {"foreach", "contains"}, End,
         UNCHANGED <<listVars, cells>>, given' = <<>>, answer' \in BOOLEAN,
         want' \in Data \cup {Null}
  PROVE  IInv'
<1>1. TypeOK'
  BY DEF IInv, TypeOK, End, listVars
<1>2. Linked'
  BY DEF IInv, TypeOK, Linked, Kept, End, listVars
<1>3. Ends' /\ Distinct' /\ Cursor' /\ Progress'
  BY DEF IInv, Ends, Distinct, Cursor, Progress, End, listVars
<1>4. QED
  BY <1>1, <1>2, <1>3 DEF IInv

(* The cell under the cursor is there, and the cursor moves to the next. *)
LEMMA AdvanceMoves ==
  ASSUME IInv, pc \in {"foreach", "contains", "free"}, node # Null, Advance
  PROVE  /\ k \in 1 .. Len(chain)
         /\ node = chain[k]
         /\ node \in Addrs
         /\ cells[node] \in Cell
         /\ pc' = pc
         /\ k' = k + 1
         /\ node' = IF k' = Len(chain) + 1 THEN Null ELSE chain[k']
<1>1. k \in 1 .. Len(chain) /\ node = chain[k] /\ node \in Addrs
  BY DEF IInv, TypeOK, Cursor
<1>2. k \in Kept
  BY <1>1 DEF Kept, IInv, TypeOK
<1>3. cells[node] # Null
      /\ cells[node].next = IF k = Len(chain) THEN Null ELSE chain[k + 1]
  BY <1>1, <1>2 DEF IInv, Linked
<1>4. QED
  BY <1>1, <1>3 DEF Advance, IInv, TypeOK

(* A step of list_foreach hands over the next element. *)
LEMMA ForeachInv ==
  ASSUME IInv, foreach_step
  PROVE  IInv'
<1>1. /\ k \in 1 .. Len(chain)
      /\ node = chain[k]
      /\ node \in Addrs
      /\ cells[node] \in Cell
      /\ pc' = pc
      /\ k' = k + 1
      /\ node' = IF k' = Len(chain) + 1 THEN Null ELSE chain[k']
  BY AdvanceMoves DEF foreach_step
<1>2. pc = "foreach" /\ UNCHANGED <<listVars, cells, want, answer>>
      /\ given' = Append(given, cells[node].data)
  BY <1>1, ListAssumption DEF foreach_step
<1>3. chain \in Seq(Addrs) /\ given \in Seq(Data) /\ cells[node].data \in Data
      /\ Len(given) = k - 1
  BY <1>1, <1>2 DEF IInv, TypeOK, Progress
<1>4. given' \in Seq(Data) /\ Len(given') = k
      /\ (\A i \in 1 .. (k - 1) : given'[i] = given[i])
      /\ given'[k] = cells[chain[k]].data
  BY <1>1, <1>2, <1>3
<1>5. TypeOK'
  BY <1>1, <1>2, <1>4 DEF IInv, TypeOK, listVars
<1>6. Linked' /\ Ends' /\ Distinct'
  BY <1>1, <1>2 DEF IInv, Linked, Kept, Ends, Distinct, listVars
<1>7. Cursor'
  BY <1>1, <1>2, <1>3 DEF IInv, Cursor, listVars
<1>8. Progress'
  BY <1>1, <1>2, <1>3, <1>4 DEF IInv, Progress, listVars
<1>9. QED
  BY <1>5, <1>6, <1>7, <1>8 DEF IInv

(* A step of list_contains passes an element that does not fit. *)
LEMMA ContainsInv ==
  ASSUME IInv, contains_step
  PROVE  IInv'
<1>1. /\ k \in 1 .. Len(chain)
      /\ node = chain[k]
      /\ node \in Addrs
      /\ cells[node] \in Cell
      /\ pc' = pc
      /\ k' = k + 1
      /\ node' = IF k' = Len(chain) + 1 THEN Null ELSE chain[k']
  BY AdvanceMoves DEF contains_step
<1>2. pc = "contains" /\ UNCHANGED <<listVars, cells, want, given, answer>>
      /\ cells[node].data # want
  BY <1>1, ListAssumption DEF contains_step
<1>3. TypeOK'
  BY <1>1, <1>2 DEF IInv, TypeOK, listVars
<1>4. Linked' /\ Ends' /\ Distinct'
  BY <1>1, <1>2 DEF IInv, Linked, Kept, Ends, Distinct, listVars
<1>5. Cursor'
  BY <1>1, <1>2 DEF IInv, TypeOK, Cursor, listVars
<1>6. Progress'
  BY <1>1, <1>2 DEF IInv, TypeOK, Progress, listVars
<1>7. QED
  BY <1>3, <1>4, <1>5, <1>6 DEF IInv

(* A step of list_free frees the first cell that is left, and no other. *)
LEMMA FreeInv ==
  ASSUME IInv, free_step
  PROVE  IInv'
<1>1. /\ k \in 1 .. Len(chain)
      /\ node = chain[k]
      /\ node \in Addrs
      /\ cells[node] \in Cell
      /\ pc' = pc
      /\ k' = k + 1
      /\ node' = IF k' = Len(chain) + 1 THEN Null ELSE chain[k']
  BY AdvanceMoves DEF free_step
<1>2. pc = "free" /\ UNCHANGED <<listVars, want, given, answer>>
      /\ cells' = [cells EXCEPT ![node] = Null]
  BY DEF free_step
<1>3. TypeOK'
  BY <1>1, <1>2 DEF IInv, TypeOK, listVars
<1>4. Linked'
  <2>1. Kept = k .. Len(chain) /\ Kept' = (k + 1) .. Len(chain) /\ chain' = chain
    BY <1>1, <1>2 DEF Kept, listVars
  <2>2. \A i \in Kept' : chain[i] \in Addrs /\ chain[i] # node /\ i \in Kept
    BY <1>1, <2>1 DEF IInv, TypeOK, Distinct
  <2>3. \A i \in Kept' : cells'[chain[i]] = cells[chain[i]]
    BY <1>2, <2>2 DEF IInv, TypeOK
  <2>4. \A a \in Addrs : cells'[a] # Null => \E i \in Kept' : chain'[i] = a
    BY <1>1, <1>2, <2>1 DEF IInv, TypeOK, Linked
  <2>5. QED
    BY <1>1, <1>2, <2>1, <2>2, <2>3, <2>4 DEF IInv, Linked
<1>5. Ends' /\ Distinct'
  BY <1>2 DEF IInv, Ends, Distinct, listVars
<1>6. Cursor'
  BY <1>1, <1>2 DEF IInv, TypeOK, Cursor, listVars
<1>7. Progress'
  BY <1>1, <1>2 DEF IInv, Progress
<1>8. QED
  BY <1>3, <1>4, <1>5, <1>6, <1>7 DEF IInv

(* When the cursor of list_free is NULL every cell has been freed. *)
LEMMA FreeEndInv ==
  ASSUME IInv, free_end
  PROVE  IInv'
<1>1. k = Len(chain) + 1 /\ Kept = {}
  BY ListAssumption DEF free_end, IInv, TypeOK, Cursor, Kept
<1>2. \A a \in Addrs : cells[a] = Null
  BY <1>1 DEF IInv, Linked
<1>3. live' \in BOOLEAN
  BY Zenon DEF free_end
<1>4. TypeOK'
  BY <1>3 DEF free_end, End, IInv, TypeOK
<1>5. Linked' /\ Ends' /\ Distinct' /\ Cursor' /\ Progress'
  BY <1>2 DEF free_end, End, IInv, Linked, Kept, Ends, Distinct, Cursor, Progress
<1>6. QED
  BY <1>4, <1>5 DEF IInv

(* Every call and every step of a walk preserves the invariant. *)
LEMMA NextInv == IInv /\ [Next]_vars => IInv'
<1> SUFFICES ASSUME IInv, [Next]_vars PROVE IInv'
  OBVIOUS
<1>0. want \in Data \cup {Null} /\ answer \in BOOLEAN
      /\ (pc # "foreach" => given = <<>>)
  BY DEF IInv, TypeOK, Progress
<1>1. CASE list_init
  BY <1>1, InitListInv
<1>2. ASSUME NEW d \in Data, list_append(d) PROVE IInv'
  BY <1>2, AppendInv
<1>3. CASE list_foreach
  BY <1>0, <1>3, BeginInv DEF list_foreach
<1>4. CASE foreach_step
  BY <1>4, ForeachInv
<1>5. CASE foreach_end
  BY <1>0, <1>5, EndInv DEF foreach_end
<1>6. ASSUME NEW d \in Data, list_contains(d) PROVE IInv'
  BY <1>6, BeginInv DEF list_contains
<1>7. CASE contains_none
  <2>1. answer' \in BOOLEAN
    BY <1>7, Zenon DEF contains_none
  <2>2. TypeOK'
    BY <1>7, <2>1 DEF contains_none, listVars, walkVars, IInv, TypeOK
  <2>3. QED
    BY <1>7, <2>2 DEF contains_none, listVars, walkVars, IInv, Linked, Kept,
                      Ends, Distinct, Cursor, Progress
<1>8. CASE contains_hit
  BY <1>0, <1>8, EndInv DEF contains_hit
<1>9. CASE contains_step
  BY <1>9, ContainsInv
<1>10. CASE contains_end
  BY <1>0, <1>10, EndInv DEF contains_end
<1>11. CASE list_free
  BY <1>0, <1>11, BeginInv DEF list_free
<1>12. CASE free_step
  BY <1>12, FreeInv
<1>13. CASE free_end
  BY <1>13, FreeEndInv
<1>14. CASE UNCHANGED vars
  BY <1>14 DEF vars, listVars, walkVars, IInv, TypeOK, Linked, Kept, Ends,
               Distinct, Cursor, Progress
<1>15. QED
  BY <1>1, <1>2, <1>3, <1>4, <1>5, <1>6, <1>7, <1>8, <1>9, <1>10, <1>11,
     <1>12, <1>13, <1>14 DEF Next

-----------------------------------------------------------------------------
(* The invariant holds of every sequence of calls. *)
THEOREM Invariance == Spec => []IInv
BY InitInv, NextInv, PTL DEF Spec

(* Every field list.c writes keeps its type. *)
THEOREM TypeCorrect == Spec => []TypeOK
<1>1. IInv => TypeOK
  BY DEF IInv
<1>2. QED
  BY <1>1, Invariance, PTL

(* list_append, list_foreach, list_contains and list_free follow no        *)
(* dangling pointer and leak no cell.                                      *)
THEOREM ListLinked == Spec => []Linked
<1>1. IInv => Linked
  BY DEF IInv
<1>2. QED
  BY <1>1, Invariance, PTL

-----------------------------------------------------------------------------
(* What is in the cells of a chain is a sequence, as long as the chain. *)
LEMMA DataOfSeq ==
  ASSUME NEW c \in Seq(Addrs), NEW h,
         \A i \in 1 .. Len(c) : h[c[i]].data \in Data
  PROVE  /\ DataOf(c, h) \in Seq(Data)
         /\ Len(DataOf(c, h)) = Len(c)
         /\ \A i \in 1 .. Len(c) : DataOf(c, h)[i] = h[c[i]].data
         /\ DataOf(c, h) # Null
BY ListAssumption DEF DataOf

(* Outside list_free every element of the chain is there. *)
LEMMA ElementsThere ==
  ASSUME IInv, pc # "free"
  PROVE  /\ chain \in Seq(Addrs)
         /\ \A i \in 1 .. Len(chain) : cells[chain[i]].data \in Data
BY DEF IInv, TypeOK, Linked, Kept

(* A step that leaves the list and its cells alone leaves its contents.    *)
LEMMA ContentsKept ==
  ASSUME UNCHANGED <<listVars, cells>>, pc # "free", pc' # "free"
  PROVE  Contents' = Contents
BY DEF Contents, DataOf, listVars

(* Appending a cell appends its data. *)
LEMMA AppendRefines ==
  ASSUME IInv, IInv', NEW d \in Data, list_append(d)
  PROVE  A!Add(d)
<1>1. PICK a \in Addrs :
        LET cell == [data |-> d, next |-> Null]
        IN /\ cells[a] = Null
           /\ tail' = a
           /\ chain' = Append(chain, a)
           /\ \/ /\ tail = Null
                 /\ head' = a
                 /\ cells' = [cells EXCEPT ![a] = cell]
              \/ /\ tail # Null
                 /\ head' = head
                 /\ cells' = [cells EXCEPT ![tail] = [data |-> @.data, next |-> a],
                                           ![a] = cell]
  BY DEF list_append, NewTail, NewCell
<1>2. /\ pc = "idle" /\ pc' = "idle" /\ live /\ live'
      /\ given' = given /\ given = <<>> /\ answer' = answer
  BY DEF list_append, walkVars, IInv, Progress
<1>3. /\ chain \in Seq(Addrs)
      /\ \A i \in 1 .. Len(chain) : cells[chain[i]].data \in Data
  BY <1>2, ElementsThere
<1>4. /\ chain' \in Seq(Addrs)
      /\ Len(chain') = Len(chain) + 1
      /\ \A i \in 1 .. Len(chain) : chain'[i] = chain[i] /\ chain[i] \in Addrs
      /\ chain'[Len(chain) + 1] = a
  BY <1>1, <1>3
<1>5. cells'[a].data = d
  BY <1>1 DEF IInv, TypeOK
<1>6. \A i \in 1 .. Len(chain) : cells[chain[i]] # Null
  BY <1>2 DEF IInv, Linked, Kept
<1>7. \A b \in Addrs : b # a => cells'[b].data = cells[b].data
  BY <1>1, ListAssumption DEF IInv, TypeOK
<1>8. \A i \in 1 .. Len(chain) : cells'[chain'[i]].data = cells[chain[i]].data
  BY <1>1, <1>4, <1>6, <1>7
<1>9. \A i \in 1 .. Len(chain') : cells'[chain'[i]].data \in Data
  BY <1>3, <1>4, <1>5, <1>8
<1>10. Contents = DataOf(chain, cells) /\ Contents' = DataOf(chain', cells')
  BY <1>2 DEF Contents
<1>11. /\ Contents \in Seq(Data)
       /\ Len(Contents) = Len(chain)
       /\ \A i \in 1 .. Len(chain) : Contents[i] = cells[chain[i]].data
       /\ Contents # Null
  BY <1>3, <1>10, DataOfSeq
<1>12. /\ Contents' \in Seq(Data)
       /\ Len(Contents') = Len(chain')
       /\ \A i \in 1 .. Len(chain') : Contents'[i] = cells'[chain'[i]].data
  BY <1>4, <1>9, <1>10, DataOfSeq
<1>13. \A i \in 1 .. Len(chain) : Contents'[i] = Contents[i]
  BY <1>4, <1>8, <1>11, <1>12
<1>14. Contents'[Len(chain) + 1] = d
  BY <1>4, <1>5, <1>12
<1>15. Contents' = Append(Contents, d)
  BY <1>4, <1>11, <1>12, <1>13, <1>14
<1>16. QED
  BY <1>2, <1>11, <1>15 DEF A!Add

(* A step of list_foreach hands over the element after the ones before. *)
LEMMA ForeachRefines ==
  ASSUME IInv, IInv', foreach_step
  PROVE  A!Visit
<1>1. /\ k \in 1 .. Len(chain)
      /\ node = chain[k]
      /\ cells[node] \in Cell
      /\ pc' = pc
  BY AdvanceMoves DEF foreach_step
<1>2. pc = "foreach" /\ UNCHANGED <<listVars, cells, answer>> /\ live
      /\ given' = Append(given, cells[node].data) /\ Len(given) = k - 1
  BY <1>1, ListAssumption DEF foreach_step, IInv, Cursor, Progress
<1>3. Contents = DataOf(chain, cells) /\ Contents' = Contents
  BY <1>1, <1>2, ContentsKept DEF Contents
<1>4. Contents # Null /\ Len(Contents) = Len(chain)
      /\ Contents[k] = cells[node].data
  BY <1>1, <1>2, <1>3, ElementsThere, DataOfSeq
<1>5. QED
  BY <1>1, <1>2, <1>3, <1>4 DEF A!Visit

(* list_foreach ends having handed over the whole list. *)
LEMMA ForeachEndRefines ==
  ASSUME IInv, IInv', foreach_end
  PROVE  A!Finish
<1>1. k = Len(chain) + 1 /\ pc = "foreach" /\ pc' = "idle" /\ live
  BY ListAssumption DEF foreach_end, End, IInv, TypeOK, Cursor
<1>2. Contents = DataOf(chain, cells) /\ Contents' = Contents
  BY <1>1, ContentsKept DEF Contents, foreach_end
<1>3. /\ Contents \in Seq(Data)
      /\ Len(Contents) = Len(chain)
      /\ \A i \in 1 .. Len(chain) : Contents[i] = cells[chain[i]].data
  BY <1>1, <1>2, ElementsThere, DataOfSeq
<1>4. given \in Seq(Data) /\ Len(given) = Len(chain) /\ Len(chain) \in Nat
      /\ \A i \in 1 .. Len(chain) : given[i] = cells[chain[i]].data
  BY <1>1 DEF IInv, TypeOK, Progress
<1>5. given = Contents
  BY <1>3, <1>4
<1>6. QED
  BY <1>2, <1>5 DEF foreach_end, A!Finish

(* list_contains answers as a look at the whole list would. *)
LEMMA ContainsRefines ==
  ASSUME IInv, IInv', contains_hit \/ contains_end
  PROVE  A!Contains(want) /\ want \in Data
<1>1. pc = "contains" /\ pc' = "idle" /\ live /\ want \in Data
  BY DEF contains_hit, contains_end, End, IInv, Cursor, Progress
<1>2. Contents = DataOf(chain, cells) /\ Contents' = Contents
  BY <1>1, ContentsKept DEF Contents, contains_hit, contains_end
<1>3. /\ Len(Contents) = Len(chain)
      /\ \A i \in 1 .. Len(chain) : Contents[i] = cells[chain[i]].data
      /\ Contents # Null
  BY <1>1, <1>2, ElementsThere, DataOfSeq
<1>4. CASE contains_hit
  <2>1. k \in 1 .. Len(chain) /\ cells[chain[k]].data = want
    BY <1>1, <1>4 DEF contains_hit, IInv, TypeOK, Cursor
  <2>2. A!Holds(want) = TRUE
    BY <1>3, <2>1 DEF A!Holds
  <2>3. QED
    BY <1>1, <1>2, <1>4, <2>2 DEF contains_hit, A!Contains
<1>5. CASE contains_end
  <2>1. k = Len(chain) + 1
    BY <1>1, <1>5, ListAssumption DEF contains_end, IInv, TypeOK, Cursor
  <2>2. \A i \in 1 .. Len(chain) : cells[chain[i]].data # want
    BY <1>1, <2>1 DEF IInv, TypeOK, Progress
  <2>3. A!Holds(want) = FALSE
    BY <1>3, <2>2 DEF A!Holds
  <2>4. QED
    BY <1>1, <1>2, <1>5, <2>3 DEF contains_end, A!Contains
<1>6. QED
  BY <1>4, <1>5

(* Every step of list.c is a step of the sequence, or leaves what its      *)
(* users see as it was.                                                    *)
LEMMA StepRefines == IInv /\ IInv' /\ [Next]_vars => [A!Next]_(A!vars)
<1> SUFFICES ASSUME IInv, IInv', [Next]_vars PROVE [A!Next]_(A!vars)
  OBVIOUS
<1> USE DEF A!Next, A!vars
<1>1. CASE list_init
  <2>1. Contents = Null
    BY <1>1 DEF list_init, Contents
  <2>2. Contents' = DataOf(<<>>, cells)
    BY <1>1 DEF list_init, Contents
  <2>3. DataOf(<<>>, cells) \in Seq(Data) /\ Len(DataOf(<<>>, cells)) = 0
    <3>1. <<>> \in Seq(Addrs) /\ Len(<<>>) = 0
      OBVIOUS
    <3>2. \A i \in 1 .. Len(<<>>) : cells[<<>>[i]].data \in Data
      BY <3>1
    <3>3. QED
      BY <3>1, <3>2, DataOfSeq
  <2>4. Contents' = <<>>
    BY <2>2, <2>3
  <2>5. QED
    BY <1>1, <2>1, <2>4 DEF list_init, walkVars, A!Create
<1>2. ASSUME NEW d \in Data, list_append(d) PROVE [A!Next]_(A!vars)
  BY <1>2, AppendRefines
<1>3. CASE list_foreach
  BY <1>3, ContentsKept DEF list_foreach, Begin
<1>4. CASE foreach_step
  BY <1>4, ForeachRefines
<1>5. CASE foreach_end
  BY <1>5, ForeachEndRefines
<1>6. ASSUME NEW d \in Data, list_contains(d) PROVE [A!Next]_(A!vars)
  BY <1>6, ContentsKept DEF list_contains, Begin
<1>7. CASE contains_none
  <2>1. Contents = Null /\ Contents' = Null
    BY <1>7 DEF contains_none, Contents, listVars
  <2>2. \A d \in Data : A!Contains(d)
    BY <1>7, <2>1 DEF contains_none, walkVars, A!Contains, A!Holds
  <2>3. QED
    BY <2>2, ListAssumption
<1>8. CASE contains_hit \/ contains_end
  BY <1>8, ContainsRefines
<1>9. CASE contains_step
  <2>1. pc' = "contains"
    BY <1>9, AdvanceMoves DEF contains_step
  <2>2. QED
    BY <1>9, <2>1, ContentsKept DEF contains_step
<1>10. CASE list_free
  <2>1. Contents # Null /\ Contents' = Null /\ given = <<>>
    BY <1>10, ElementsThere, DataOfSeq
       DEF list_free, Begin, Contents, IInv, Progress
  <2>2. QED
    BY <1>10, <2>1 DEF list_free, A!Drop
<1>11. CASE free_step
  <2>1. pc' = "free"
    BY <1>11, AdvanceMoves DEF free_step
  <2>2. QED
    BY <1>11, <2>1 DEF free_step, Contents
<1>12. CASE free_end
  BY <1>12 DEF free_end, Contents
<1>13. CASE UNCHANGED vars
  BY <1>13 DEF vars, listVars, walkVars, Contents
<1>14. QED
  BY <1>1, <1>2, <1>3, <1>4, <1>5, <1>6, <1>7, <1>8, <1>9, <1>10, <1>11,
     <1>12, <1>13 DEF Next

(* list.c implements the sequence that list.h promises: a list_foreach     *)
(* hands over each element once and in order, and a list_contains answers  *)
(* for the whole list, for any number of calls.                            *)
THEOREM ListRefines == Spec => ListIsSequence
<1>1. Init => A!Init
  BY DEF Init, A!Init, Contents
<1>2. QED
  BY <1>1, StepRefines, Invariance, PTL DEF Spec, ListIsSequence, A!Spec

=============================================================================
