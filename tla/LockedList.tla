------------------------------- MODULE LockedList -------------------------------
(***************************************************************************)
(* The sorted list of systems/cs033/lab11/linkedlist: every element has a  *)
(* mutex, and a search holds that of the element and of the one before.    *)
(*                                                                         *)
(* insertList leaves the mutex of the new element as malloc gave it.  In   *)
(* memory that was never used this is a free mutex; in memory that was a   *)
(* list element before it is a destroyed one, and nothing is modelled      *)
(* after that (spoilt).                                                    *)
(***************************************************************************)
EXTENDS Integers

CONSTANTS Threads, Elements, Vals, niterations, head, NULL, Nobody

VARIABLES pc, call, left,      \* of each thread: where it is, [op, val], its calls to come
          par, ele,            \* the locals of search
          val, next, mutex,    \* of each element
          malloced, freed,
          present,             \* the values added and not removed since
          spoilt

listVars == <<pc, call, left, par, ele, val, next, mutex, malloced, freed, present, spoilt>>

Nodes == Elements \cup {head}

Init ==
    /\ pc = [t \in Threads |-> "idle"]
    /\ call = [t \in Threads |-> [op |-> "none", val |-> 0]]
    /\ left = [t \in Threads |-> niterations]
    /\ par = [t \in Threads |-> NULL] /\ ele = [t \in Threads |-> NULL]
    /\ val = [n \in Nodes |-> 0] /\ next = [n \in Nodes |-> NULL]
    /\ mutex = [n \in Nodes |-> Nobody]
    /\ malloced = {} /\ freed = {} /\ present = {} /\ spoilt = FALSE

heapVars == <<val, next, malloced, freed, present, spoilt>>

\* randomListManip takes the next value, and the call locks the head.
Call(t) ==
    /\ pc[t] = "idle" /\ left[t] > 0 /\ mutex[head] = Nobody
    /\ \E op \in {"insert", "delete"}, v \in Vals : call' = [call EXCEPT ![t] = [op |-> op, val |-> v]]
    /\ left' = [left EXCEPT ![t] = @ - 1]
    /\ mutex' = [mutex EXCEPT ![head] = t]
    /\ par' = [par EXCEPT ![t] = head]
    /\ ele' = [ele EXCEPT ![t] = next[head]]
    /\ pc' = [pc EXCEPT ![t] = "search"]
    /\ UNCHANGED heapVars

Unlocked(ns) == [n \in Nodes |-> IF n \in ns THEN Nobody ELSE mutex[n]]

\* Mutant of CanLock: search does not lock the element it comes to.
NoLock(t) == TRUE

CanLock(t) == mutex[ele[t]] = Nobody

\* search locks the element and compares; the lock before is given up behind it.
Step(t) ==
    /\ pc[t] = "search" /\ ele[t] # NULL /\ CanLock(t)
    /\ LET n == ele[t] IN
          \/ /\ call[t].val = val[n]
             /\ mutex' = [mutex EXCEPT ![n] = t]
             /\ pc' = [pc EXCEPT ![t] = "found"]
             /\ UNCHANGED <<par, ele>>
          \/ /\ call[t].val < val[n]
             /\ pc' = [pc EXCEPT ![t] = "missed"]
             /\ UNCHANGED <<mutex, par, ele>>
          \/ /\ call[t].val > val[n]
             /\ mutex' = [Unlocked({par[t]}) EXCEPT ![n] = t]
             /\ par' = [par EXCEPT ![t] = n]
             /\ ele' = [ele EXCEPT ![t] = next[n]]
             /\ UNCHANGED pc
    /\ UNCHANGED <<call, left>> /\ UNCHANGED heapVars

End(t) ==
    /\ pc[t] = "search" /\ ele[t] = NULL
    /\ pc' = [pc EXCEPT ![t] = "missed"]
    /\ UNCHANGED <<call, left, par, ele, mutex>> /\ UNCHANGED heapVars

Return(t, ns) ==
    /\ mutex' = Unlocked(ns)
    /\ pc' = [pc EXCEPT ![t] = "idle"]
    /\ UNCHANGED <<call, left, par, ele>>

Insert(t) ==
    /\ pc[t] = "missed" /\ call[t].op = "insert"
    /\ \E n \in Elements \ malloced :
          /\ malloced' = malloced \cup {n}
          /\ spoilt' = (n \in freed)
          /\ val' = [val EXCEPT ![n] = call[t].val]
          /\ next' = [next EXCEPT ![n] = next[par[t]], ![par[t]] = n]
    /\ present' = present \cup {call[t].val}
    /\ Return(t, {par[t]})
    /\ UNCHANGED freed

Delete(t) ==
    /\ pc[t] = "found" /\ call[t].op = "delete"
    /\ next' = [next EXCEPT ![par[t]] = next[ele[t]]]
    /\ malloced' = malloced \ {ele[t]}
    /\ freed' = freed \cup {ele[t]}
    /\ present' = present \ {call[t].val}
    /\ Return(t, {par[t], ele[t]})
    /\ UNCHANGED <<val, spoilt>>

Nothing(t) ==
    /\ \/ pc[t] = "found" /\ call[t].op = "insert" /\ Return(t, {par[t], ele[t]})
       \/ pc[t] = "missed" /\ call[t].op = "delete" /\ Return(t, {par[t]})
    /\ UNCHANGED heapVars

Next == /\ ~spoilt
        /\ \E t \in Threads : Call(t) \/ Step(t) \/ End(t) \/ Insert(t) \/ Delete(t) \/ Nothing(t)

Spec == Init /\ [][Next]_listVars

------------------------------------------------------------------------------

Waiting(t) == \/ pc[t] = "idle" /\ left[t] > 0 /\ mutex[head] # Nobody
              \/ pc[t] = "search" /\ ele[t] # NULL /\ ~CanLock(t)
Resting(t) == pc[t] = "idle" /\ left[t] = 0

\* Every element leads to one of a greater value or ends the list.
Sorted ==
    /\ next[head] \in malloced \cup {NULL}
    /\ \A n \in malloced :
          next[n] # NULL => next[n] \in malloced /\ val[n] < val[next[n]]

\* No smaller set of elements can be walked from the head.
Closed(s)  == next[head] \in s \cup {NULL} /\ \A n \in s : next[n] \in s \cup {NULL}
AllReached == \A s \in SUBSET malloced : Closed(s) => s = malloced

NoDeadlock == (\A t \in Threads : Waiting(t) \/ Resting(t)) => \A t \in Threads : Resting(t)

\* Until malloc returns an element that was freed: the list is strictly sorted, holds
\* every element that is allocated and exactly the values that were added and not removed,
\* no search holds the address of a freed element, and the threads never all wait for
\* each other.
ListExact ==
    ~spoilt =>
        /\ Sorted /\ AllReached
        /\ {val[n] : n \in malloced} = present
        /\ \A t \in Threads : pc[t] \in {"search", "found", "missed"} =>
              {par[t], ele[t]} \subseteq malloced \cup {head, NULL}
        /\ NoDeadlock
=================================================================================
