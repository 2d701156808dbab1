-------------------------------- MODULE LabList ---------------------------------
(***************************************************************************)
(* The linked list of systems/cs033/lab08/linkedlist.c: nodes that own a   *)
(* copy of their element, a head, and a count kept beside them.  One       *)
(* program uses one list; a call is one step.                              *)
(***************************************************************************)
EXTENDS Integers, FiniteSets, SequencesExt

CONSTANTS Nodes,       \* what malloc may return
          Elements,    \* as `equals` tells them apart
          NULL

VARIABLES head, size,
          next, value,       \* of each node
          allocated,
          result,            \* of the last call
          promised,          \* the list that the calls, as described, should have left
          misplaced,         \* an insertion behind the last element went before the first
          crashed

listVars == <<head, size, next, value, allocated, result, promised,
              misplaced, crashed>>

\* linkedlist_new.
Init == /\ head = NULL /\ size = 0
        /\ next = [n \in Nodes |-> NULL] /\ value = [n \in Nodes |-> NULL]
        /\ allocated = {} /\ result = 0 /\ promised = <<>>
        /\ misplaced = FALSE /\ crashed = FALSE

\* The first k nodes that a walk from the head meets.
Walk == LET w[k \in 0 .. size + 1] ==
                IF k = 0 THEN <<>>
                ELSE LET n == IF k = 1 THEN head
                              ELSE IF Len(w[k - 1]) < k - 1 THEN NULL ELSE next[Last(w[k - 1])]
                     IN  IF n = NULL THEN w[k - 1] ELSE Append(w[k - 1], n)
        IN  w[size + 1]

\* A new node between the i-th of the walk and n.
Link(node, i, n, e) ==
    /\ allocated' = allocated \cup {node}
    /\ value' = [value EXCEPT ![node] = e]
    /\ size' = size + 1
    /\ IF i = 0 THEN head' = node /\ next' = [next EXCEPT ![node] = n]
       ELSE next' = [next EXCEPT ![node] = n, ![Walk[i]] = node] /\ UNCHANGED head

linkedlist_append(e) ==
    /\ \E node \in Nodes \ allocated : Link(node, Len(Walk), NULL, e)
    /\ promised' = Append(promised, e)
    /\ UNCHANGED <<result, misplaced, crashed>>

\* The index 0 and the index `size` are one case: the element becomes the first.
AtHead(index) == index = size \/ index = 0

linkedlist_insert(e, index) ==
    \/ /\ AtHead(index)
       /\ \E node \in Nodes \ allocated : Link(node, 0, head, e)
       /\ result' = 1 /\ promised' = InsertAt(promised, index + 1, e)
       /\ misplaced' = (misplaced \/ index > 0)
       /\ UNCHANGED crashed
    \/ /\ ~AtHead(index) /\ index > Len(Walk)
       /\ result' = 0
       /\ UNCHANGED <<head, size, next, value, allocated, promised, misplaced, crashed>>
    \/ /\ ~AtHead(index) /\ index \in 1 .. Len(Walk)
       /\ \E node \in Nodes \ allocated : Link(node, index, next[Walk[index]], e)
       /\ result' = 1 /\ promised' = InsertAt(promised, index + 1, e)
       /\ UNCHANGED <<misplaced, crashed>>
    \/ /\ ~AtHead(index) /\ index < 0        \* temp is NULL
       /\ crashed' = TRUE
       /\ UNCHANGED <<head, size, next, value, allocated, result, promised, misplaced>>

Holding(e) == {i \in DOMAIN Walk : value[Walk[i]] = e}

linkedlist_contains(e) ==
    /\ result' = IF Holding(e) # {} THEN 1 ELSE 0
    /\ UNCHANGED <<head, size, next, value, allocated, promised, misplaced, crashed>>

\* Mutant of Unlinked: the head is not moved when the first node goes.
UnlinkInner(i) == IF i = 1 THEN <<head, next>> ELSE <<head, [next EXCEPT ![Walk[i - 1]] = next[Walk[i]]]>>

\* head and next without the i-th node.
Unlinked(i) == IF i = 1 THEN <<next[head], next>>
               ELSE <<head, [next EXCEPT ![Walk[i - 1]] = next[Walk[i]]]>>

linkedlist_remove(e) ==
    \/ /\ Holding(e) = {}
       /\ result' = 0
       /\ UNCHANGED <<head, size, next, value, allocated, promised, misplaced, crashed>>
    \/ \E i \in Holding(e) :
          /\ \A j \in Holding(e) : i <= j
          /\ head' = Unlinked(i)[1]
          /\ next' = [Unlinked(i)[2] EXCEPT ![Walk[i]] = NULL]
          /\ value' = [value EXCEPT ![Walk[i]] = NULL]
          /\ allocated' = allocated \ {Walk[i]}
          /\ size' = size - 1
          /\ result' = 1 /\ promised' = RemoveFirst(promised, e)
          /\ UNCHANGED <<misplaced, crashed>>

\* linkedlist_delete with delete_helper, and a new list.
linkedlist_delete ==
    /\ head' = NULL /\ size' = 0 /\ promised' = <<>>
    /\ allocated' = allocated \ ToSet(Walk)
    /\ next' = [n \in Nodes |-> NULL] /\ value' = [n \in Nodes |-> NULL]
    /\ misplaced' = FALSE
    /\ UNCHANGED <<result, crashed>>

Next == /\ ~crashed
        /\ \/ \E e \in Elements : \/ linkedlist_append(e)
                                  \/ \E i \in -1 .. size + 1 : linkedlist_insert(e, i)
                                  \/ linkedlist_contains(e)
                                  \/ linkedlist_remove(e)
           \/ linkedlist_delete

Spec == Init /\ [][Next]_listVars

------------------------------------------------------------------------------
\* The walk from the head is the sequence that the calls should have left, duplicates in
\* order, until an insertion at `size`, which is to append (linkedlist.c:124), goes to the
\* front of a list that is not empty; after that it still has the same elements, each as
\* often.  The count is its length, which linkedlist_insert relies on, and the nodes on it
\* are exactly those not freed.
ListIsSequence ==
    /\ LET walked == [i \in DOMAIN Walk |-> value[Walk[i]]]
           Times(e, seq) == Cardinality({i \in DOMAIN seq : seq[i] = e})
       IN  IF misplaced THEN \A e \in Elements : Times(e, walked) = Times(e, promised)
           ELSE walked = promised
    /\ size = Len(promised)
    /\ IsInjective(Walk) /\ ToSet(Walk) = allocated
=================================================================================
