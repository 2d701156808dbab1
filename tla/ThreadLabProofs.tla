---------------------------- MODULE ThreadLabProofs -----------------------------
(***************************************************************************)
(* The two threaded labs of cs033.  The list of lab 11 is sorted and       *)
(* complete and its locks never deadlock, for any number of threads,       *)
(* elements and calls; the race of lab 12 has one winner, for any number   *)
(* of teams.                                                               *)
(***************************************************************************)
EXTENDS LockedList, TLAPS

\* The values are numbers, and NULL and the head are no elements.
Setting == /\ Vals \subseteq Int /\ niterations \in Nat
           /\ head \notin Elements /\ NULL \notin Nodes /\ Nobody \notin Threads

Busy(t)  == pc[t] \in {"search", "found", "missed"}
\* The places of the list where something can follow.
Places   == malloced \cup {head}
Above(p) == {v \in Int : p = head \/ val[p] < v}

ListTypeOK ==
    /\ pc \in [Threads -> {"idle", "search", "found", "missed"}]
    /\ call \in [Threads -> [op : {"none", "insert", "delete"}, val : Int]]
    /\ left \in [Threads -> Nat]
    /\ par \in [Threads -> Nodes \cup {NULL}] /\ ele \in [Threads -> Nodes \cup {NULL}]
    /\ val \in [Nodes -> Int] /\ next \in [Nodes -> Nodes \cup {NULL}]
    /\ mutex \in [Nodes -> Threads \cup {Nobody}]
    /\ malloced \subseteq Elements /\ spoilt \in BOOLEAN

\* Values are different, and next leads to the least value above.
Distinct == \A m, n \in malloced : val[m] = val[n] => m = n
NoGap    == \A p \in Places, n \in malloced :
               val[n] \in Above(p) => next[p] # NULL /\ val[next[p]] <= val[n]
Ends     == \E n \in Places : next[n] = NULL

\* What a search knows: it has the lock of the place before its value, and of the
\* element that it has found.
Knows(t) ==
    Busy(t) =>
        /\ par[t] \in Places /\ mutex[par[t]] = t
        /\ ele[t] = next[par[t]] /\ call[t].val \in Above(par[t])
        /\ pc[t] = "found"  => ele[t] # NULL /\ mutex[ele[t]] = t /\ val[ele[t]] = call[t].val
        /\ pc[t] = "missed" => ele[t] = NULL \/ call[t].val < val[ele[t]]

\* A lock that is held is one of those.
LocksKnown ==
    \A n \in Nodes : mutex[n] # Nobody =>
        /\ Busy(mutex[n])
        /\ n = par[mutex[n]] \/ (pc[mutex[n]] = "found" /\ n = ele[mutex[n]])

ListRight == /\ Sorted /\ Distinct /\ NoGap /\ Ends /\ AllReached
             /\ present = {val[n] : n \in malloced}

ListInv ==
    /\ ListTypeOK
    /\ ~spoilt => ListRight /\ (\A t \in Threads : Knows(t)) /\ LocksKnown

---------------------------------------------------------------------------------
(* The list.                                                                     *)

LEMMA NodeFacts ==
    ASSUME Setting, ListTypeOK
    PROVE  /\ malloced \subseteq Nodes /\ Places \subseteq Nodes /\ head \in Nodes /\ head \notin malloced
           /\ NULL \notin Nodes /\ Elements \subseteq Nodes
           /\ val \in [Nodes -> Int] /\ next \in [Nodes -> Nodes \cup {NULL}]
  BY DEF Setting, ListTypeOK, Nodes, Places

\* What follows a place of the list.
LEMMA NextFacts ==
    ASSUME Setting, ListTypeOK, ListRight, NEW p \in Places, next[p] # NULL
    PROVE  next[p] \in malloced /\ val[next[p]] \in Above(p)
<1>1. next[p] \in malloced
  BY DEF ListRight, Sorted, Places
<1>2. val[next[p]] \in Int
  BY <1>1, NodeFacts
<1>3. p # head => val[p] < val[next[p]]
  BY DEF ListRight, Sorted, Places
<1> QED BY <1>1, <1>2, <1>3 DEF Above

\* No two places lead to one element.
LEMMA OnePlace ==
    ASSUME Setting, ListTypeOK, ListRight, NEW p \in Places, NEW q \in Places,
           next[p] = next[q], next[p] # NULL
    PROVE  p = q
<1>1. /\ next[p] \in malloced /\ val[next[p]] \in Above(p) /\ val[next[p]] \in Above(q)
  BY NextFacts
<1>2. ASSUME NEW m \in Places, NEW n \in malloced, val[n] \in Above(m), next[m] = next[n], next[n] # NULL
      PROVE  FALSE
  <2>1. val[next[m]] <= val[n]
    BY <1>2 DEF ListRight, NoGap
  <2>2. val[n] < val[next[n]]
    BY <1>2 DEF ListRight, Sorted
  <2>3. next[n] \in malloced
    BY <1>2 DEF ListRight, Sorted
  <2>4. val[n] \in Int /\ val[next[n]] \in Int
    BY <1>2, <2>3, NodeFacts
  <2> QED BY <1>2, <2>1, <2>2, <2>4
<1>3. ASSUME p # q PROVE FALSE
  <2>1. CASE p = head
    <3>1. q \in malloced /\ val[q] \in Above(p)
      BY <1>3, <2>1, NodeFacts DEF Places, Above
    <3> QED BY <1>2, <3>1
  <2>2. CASE q = head
    <3>1. p \in malloced /\ val[p] \in Above(q)
      BY <1>3, <2>2, NodeFacts DEF Places, Above
    <3> QED BY <1>2, <3>1
  <2>3. CASE p # head /\ q # head
    <3>1. p \in malloced /\ q \in malloced /\ val[p] \in Int /\ val[q] \in Int
      BY <2>3, NodeFacts DEF Places
    <3>2. val[p] # val[q]
      BY <1>3, <3>1 DEF ListRight, Distinct
    <3>3. val[p] \in Above(q) \/ val[q] \in Above(p)
      BY <3>1, <3>2 DEF Above
    <3> QED BY <1>2, <3>1, <3>3
  <2> QED BY <2>1, <2>2, <2>3
<1> QED BY <1>3

LEMMA ListSame ==
    ASSUME ListRight, UNCHANGED heapVars
    PROVE  ListRight'
  BY DEF ListRight, heapVars, Sorted, Distinct, NoGap, Ends, AllReached, Closed, Places, Above

\* A new element between a place and what follows it.
LEMMA ListGrows ==
    ASSUME Setting, ListTypeOK, ListRight, NEW p \in Places, NEW n \in Elements \ malloced,
           NEW v \in Above(p), next[p] = NULL \/ v < val[next[p]],
           malloced' = malloced \cup {n}, val' = [val EXCEPT ![n] = v],
           next' = [next EXCEPT ![n] = next[p], ![p] = n], present' = present \cup {v}
    PROVE  ListRight'
<1>0. /\ n \in Nodes /\ n # p /\ n # head /\ n # NULL /\ v \in Int /\ Places' = Places \cup {n}
      /\ p = head \/ (p \in malloced /\ val[p] < v)
  BY NodeFacts DEF Setting, Places, Above
<1>1. /\ \A m \in malloced : val'[m] = val[m] /\ val[m] \in Int
      /\ val'[n] = v
  BY <1>0, NodeFacts
<1>2. /\ \A m \in Places \ {p} : next'[m] = next[m]
      /\ next'[p] = n /\ next'[n] = next[p]
  BY <1>0, NodeFacts DEF Places
<1>3. next[p] # NULL => next[p] \in malloced /\ val[next[p]] \in Int /\ v < val[next[p]]
  BY NextFacts, NodeFacts
<1>4. \A m \in malloced : val[m] # v
  <2>1. SUFFICES ASSUME NEW m \in malloced, val[m] = v PROVE FALSE
    OBVIOUS
  <2>2. next[p] # NULL /\ val[next[p]] <= val[m]
    BY <2>1 DEF ListRight, NoGap
  <2> QED BY <1>0, <1>3, <2>1, <2>2
<1>5. \A m \in Places, q \in Places' : val'[q] \in Int /\ (m \in malloced => m \in Nodes)
  BY <1>0, <1>1, NodeFacts
<1>6. Sorted'
  <2>1. next'[head] \in malloced' \cup {NULL}
    <3>1. CASE p = head
      BY <1>2, <3>1
    <3>2. CASE p # head
      <4>1. next[head] \in malloced \cup {NULL}
        BY DEF ListRight, Sorted
      <4>2. head \in Places \ {p}
        BY <3>2 DEF Places
      <4>3. next'[head] = next[head]
        BY <1>2, <4>2
      <4> QED BY <4>1, <4>3
    <3> QED BY <3>1, <3>2
  <2>2. ASSUME NEW m \in malloced', next'[m] # NULL
        PROVE  next'[m] \in malloced' /\ val'[m] < val'[next'[m]]
    <3>1. CASE m = n
      BY <1>1, <1>2, <1>3, <2>2, <3>1
    <3>2. CASE m = p /\ m # n
      BY <1>0, <1>1, <1>2, <3>2, NodeFacts
    <3>3. CASE m # p /\ m # n
      <4>1. m \in malloced /\ next'[m] = next[m]
        BY <1>2, <3>3 DEF Places
      <4>2. next[m] \in malloced /\ val[m] < val[next[m]]
        BY <2>2, <4>1 DEF ListRight, Sorted
      <4> QED BY <1>1, <4>1, <4>2
    <3> QED BY <3>1, <3>2, <3>3
  <2> QED BY <2>1, <2>2 DEF Sorted
<1>7. Distinct'
  BY <1>1, <1>4 DEF ListRight, Distinct
<1>8. NoGap'
  <2>1. SUFFICES ASSUME NEW q \in Places', NEW m \in malloced', val'[m] \in Above(q)'
                 PROVE  next'[q] # NULL /\ val'[next'[q]] <= val'[m]
    BY DEF NoGap
  <2>2. q = head \/ val'[q] < val'[m]
    BY <2>1 DEF Above
  <2>3. CASE q = n
    <3>1. m \in malloced /\ v < val[m]
      BY <1>0, <1>1, <2>2, <2>3
    <3>2. val[m] \in Above(p)
      BY <1>0, <1>1, <3>1, NodeFacts DEF Above
    <3>3. next[p] # NULL /\ val[next[p]] <= val[m]
      BY <3>1, <3>2 DEF ListRight, NoGap
    <3> QED BY <1>1, <1>2, <1>3, <2>3, <3>1, <3>3
  <2>4. CASE q = p
    <3>1. CASE m = n
      BY <1>0, <1>1, <1>2, <2>4, <3>1
    <3>2. CASE m # n
      <4>1. m \in malloced /\ val[m] \in Above(p)
        BY <1>0, <1>1, <2>2, <2>4, <3>2 DEF Above
      <4>2. next[p] # NULL /\ val[next[p]] <= val[m]
        BY <4>1 DEF ListRight, NoGap
      <4> QED BY <1>0, <1>1, <1>2, <1>3, <2>4, <4>1, <4>2
    <3> QED BY <3>1, <3>2
  <2>5. CASE q # n /\ q # p
    <3>0. q \in Places /\ next'[q] = next[q]
      BY <1>0, <1>2, <2>5
    <3>1. CASE m # n
      <4>1. m \in malloced /\ val[m] \in Above(q)
        BY <1>0, <1>1, <2>2, <3>0, <3>1 DEF Above, Places
      <4>2. next[q] # NULL /\ val[next[q]] <= val[m]
        BY <3>0, <4>1 DEF ListRight, NoGap
      <4>3. next[q] \in malloced
        BY <3>0, <4>2, NextFacts
      <4> QED BY <1>1, <3>0, <4>1, <4>2, <4>3
    <3>2. CASE m = n
      <4>1. q = head \/ (q \in malloced /\ val[q] < v /\ val[q] \in Int)
        BY <1>0, <1>1, <2>2, <3>0, <3>2 DEF Places
      <4>2. CASE p \in malloced /\ val[p] \in Above(q)
        <5>1. next[q] # NULL /\ val[next[q]] <= val[p] /\ val[p] < v
          BY <1>0, <3>0, <4>2, NodeFacts DEF ListRight, NoGap
        <5>2. next[q] \in malloced
          BY <3>0, <5>1, NextFacts
        <5> QED BY <1>0, <1>1, <3>0, <3>2, <4>2, <5>1, <5>2
      <4>3. CASE ~(p \in malloced /\ val[p] \in Above(q))
        <5>1. q \in malloced /\ (p = head \/ val[p] < val[q])
          <6>1. CASE p = head
            BY <2>5, <3>0, <6>1 DEF Places
          <6>2. CASE p # head
            <7>1. p \in malloced /\ val[p] \in Int /\ val[p] \notin Above(q)
              BY <1>0, <1>1, <4>3, <6>2
            <7>2. q # head /\ ~(val[q] < val[p])
              BY <7>1 DEF Above
            <7>3. val[q] # val[p]
              BY <2>5, <4>1, <7>1, <7>2 DEF ListRight, Distinct
            <7> QED BY <4>1, <7>1, <7>2, <7>3
          <6> QED BY <6>1, <6>2
        <5>2. val[q] \in Above(p)
          BY <1>1, <5>1 DEF Above
        <5>3. next[p] # NULL /\ val[next[p]] <= val[q]
          BY <5>1, <5>2 DEF ListRight, NoGap
        <5>4. q # head /\ val[q] < v
          BY <4>1, <5>1, NodeFacts
        <5> QED BY <1>0, <1>1, <1>3, <5>1, <5>3, <5>4
      <4> QED BY <4>2, <4>3
    <3> QED BY <3>1, <3>2
  <2> QED BY <2>3, <2>4, <2>5
<1>9. Ends'
  <2>1. PICK m \in Places : next[m] = NULL
    BY DEF ListRight, Ends
  <2>2. CASE m = p
    BY <1>0, <1>2, <2>1, <2>2 DEF Ends
  <2>3. CASE m # p
    BY <1>0, <1>2, <2>1, <2>3 DEF Ends
  <2> QED BY <2>2, <2>3
<1>10. AllReached'
  <2>1. SUFFICES ASSUME NEW s \in SUBSET malloced', Closed(s)' PROVE s = malloced'
    BY DEF AllReached
  <2>2. next'[head] \in s \cup {NULL} /\ \A m \in s : next'[m] \in s \cup {NULL}
    BY <2>1 DEF Closed
  <2>3. p \in s => n \in s /\ next[p] \in s \cup {NULL}
    BY <1>0, <1>2, <2>2
  <2>4. p = head => n \in s /\ next[p] \in s \cup {NULL}
    BY <1>0, <1>2, <2>2
  <2>5. Closed(s \ {n})
    <3>1. ASSUME NEW m \in (s \ {n}) \cup {head} PROVE next[m] \in (s \ {n}) \cup {NULL}
      <4>1. m \in Places /\ next'[m] \in s \cup {NULL}
        BY <2>1, <2>2, <3>1 DEF Places
      <4>2. next[m] # n
        BY <4>1, NextFacts, <1>0
      <4>3. CASE m = p
        BY <2>3, <2>4, <3>1, <4>2, <4>3
      <4>4. CASE m # p
        BY <1>2, <4>1, <4>2, <4>4
      <4> QED BY <4>3, <4>4
    <3> QED BY <3>1 DEF Closed
  <2>6. s \ {n} = malloced
    BY <2>1, <2>5 DEF ListRight, AllReached
  <2>7. p \in s \/ p = head
    BY <1>0, <2>6
  <2> QED BY <2>1, <2>3, <2>4, <2>6, <2>7
<1>11. present' = {val'[m] : m \in malloced'}
  BY <1>1 DEF ListRight
<1> QED BY <1>6, <1>7, <1>8, <1>9, <1>10, <1>11 DEF ListRight

\* The element behind a place is taken out.
LEMMA ListShrinks ==
    ASSUME Setting, ListTypeOK, ListRight, NEW p \in Places, NEW e \in malloced, next[p] = e,
           malloced' = malloced \ {e}, val' = val,
           next' = [next EXCEPT ![p] = next[e]], present' = present \ {val[e]}
    PROVE  ListRight'
<1>0. /\ e \in Nodes /\ e # head /\ e # NULL /\ head \in Places' /\ e # p
      /\ Places' = Places \ {e} /\ p \in Places'
  <2>1. e # p
    <3>1. ASSUME e = p PROVE FALSE
      <4>1. val[e] < val[next[e]] /\ val[e] \in Int
        BY <3>1, NodeFacts DEF ListRight, Sorted
      <4> QED BY <3>1, <4>1
    <3> QED BY <3>1
  <2> QED BY <2>1, NodeFacts DEF Places
<1>1. \A m \in malloced : val'[m] = val[m] /\ val[m] \in Int
  BY NodeFacts
<1>2. /\ \A m \in Places \ {p} : next'[m] = next[m]
      /\ next'[p] = next[e]
  BY <1>0, NodeFacts DEF Places
<1>3. \A m \in Places \ {p} : next[m] # e
  BY <1>0, OnePlace
<1>4. next[e] # e /\ (next[e] # NULL => next[e] \in malloced /\ val[e] < val[next[e]])
  <2>1. next[e] # NULL => next[e] \in malloced /\ val[e] < val[next[e]]
    BY DEF ListRight, Sorted
  <2> QED BY <1>0, <1>1, <2>1
<1>5. p = head \/ (p \in malloced /\ val[p] < val[e] /\ val[p] \in Int)
  BY <1>0, NodeFacts DEF ListRight, Sorted, Places
<1>6. Sorted'
  <2>1. next'[head] \in malloced' \cup {NULL}
    <3>1. CASE p = head
      BY <1>2, <1>4, <3>1
    <3>2. CASE p # head
      BY <1>2, <1>3, <3>2 DEF ListRight, Sorted, Places
    <3> QED BY <3>1, <3>2
  <2>2. ASSUME NEW m \in malloced', next'[m] # NULL
        PROVE  next'[m] \in malloced' /\ val'[m] < val'[next'[m]]
    <3>1. CASE m = p
      <4>1. next'[m] = next[e] /\ next[e] \in malloced /\ next[e] # e /\ val[e] < val[next[e]]
        BY <1>2, <1>4, <2>2, <3>1
      <4>2. val[m] < val[e]
        BY <1>5, <3>1, <2>2, NodeFacts
      <4> QED BY <1>1, <2>2, <4>1, <4>2
    <3>2. CASE m # p
      <4>1. m \in malloced /\ m \in Places /\ next'[m] = next[m] /\ next[m] # e
        BY <1>2, <1>3, <3>2 DEF Places
      <4>2. next[m] \in malloced /\ val[m] < val[next[m]]
        BY <2>2, <4>1 DEF ListRight, Sorted
      <4> QED BY <1>1, <4>1, <4>2
    <3> QED BY <3>1, <3>2
  <2> QED BY <2>1, <2>2 DEF Sorted
<1>7. Distinct'
  BY <1>1 DEF ListRight, Distinct
<1>8. NoGap'
  <2>1. SUFFICES ASSUME NEW q \in Places', NEW m \in malloced', val'[m] \in Above(q)'
                 PROVE  next'[q] # NULL /\ val'[next'[q]] <= val'[m]
    BY DEF NoGap
  <2>2. q \in Places /\ m \in malloced /\ m # e /\ val[m] \in Above(q)
    BY <1>0, <2>1 DEF Above
  <2>3. next[q] # NULL /\ val[next[q]] <= val[m]
    BY <2>2 DEF ListRight, NoGap
  <2>4. CASE q # p
    BY <1>2, <2>2, <2>3, <2>4
  <2>5. CASE q = p
    <3>1. val[e] <= val[m] /\ val[e] # val[m]
      BY <2>2, <2>3, <2>5 DEF ListRight, Distinct
    <3>2. val[m] \in Above(e)
      BY <1>1, <2>2, <3>1 DEF Above
    <3>3. next[e] # NULL /\ val[next[e]] <= val[m]
      BY <2>2, <3>2 DEF ListRight, NoGap, Places
    <3> QED BY <1>2, <2>5, <3>3
  <2> QED BY <2>4, <2>5
<1>9. Ends'
  <2>1. PICK m \in Places : next[m] = NULL
    BY DEF ListRight, Ends
  <2>2. CASE m = e
    BY <1>0, <1>2, <2>1, <2>2 DEF Ends
  <2>3. CASE m # e
    BY <1>0, <1>2, <2>1, <2>3 DEF Ends
  <2> QED BY <2>2, <2>3
<1>10. AllReached'
  <2>1. SUFFICES ASSUME NEW s \in SUBSET malloced', Closed(s)' PROVE s = malloced'
    BY DEF AllReached
  <2>2. next'[head] \in s \cup {NULL} /\ \A m \in s : next'[m] \in s \cup {NULL}
    BY <2>1 DEF Closed
  <2>3. CASE p \in s \cup {head}
    <3>1. next[e] \in s \cup {NULL}
      BY <1>2, <2>2, <2>3
    <3>2. Closed(s \cup {e})
      <4>1. ASSUME NEW m \in s \cup {e, head} PROVE next[m] \in s \cup {e, NULL}
        <5>1. CASE m = e
          BY <3>1, <5>1
        <5>2. CASE m = p
          BY <5>2
        <5>3. CASE m # e /\ m # p
          BY <1>2, <2>1, <2>2, <4>1, <5>3 DEF Places
        <5> QED BY <5>1, <5>2, <5>3
      <4> QED BY <4>1 DEF Closed
    <3>3. s \cup {e} = malloced
      BY <2>1, <3>2 DEF ListRight, AllReached
    <3> QED BY <2>1, <3>3
  <2>4. CASE p \notin s \cup {head}
    <3>1. Closed(s)
      <4>1. ASSUME NEW m \in s \cup {head} PROVE next[m] \in s \cup {NULL}
        BY <1>2, <2>1, <2>2, <2>4, <4>1 DEF Places
      <4> QED BY <4>1 DEF Closed
    <3>2. s = malloced
      BY <2>1, <3>1 DEF ListRight, AllReached
    <3> QED BY <2>1, <3>2
  <2> QED BY <2>3, <2>4
<1>11. present' = {val'[m] : m \in malloced'}
  <2>1. \A m \in malloced : val[m] = val[e] => m = e
    BY DEF ListRight, Distinct
  <2> QED BY <2>1 DEF ListRight
<1> QED BY <1>6, <1>7, <1>8, <1>9, <1>10, <1>11 DEF ListRight

---------------------------------------------------------------------------------
(* The searches.                                                                 *)

\* A step of t leaves the other threads alone.
OnlyOne(t) == \A u \in Threads \ {t} : /\ pc'[u] = pc[u] /\ call'[u] = call[u]
                                       /\ par'[u] = par[u] /\ ele'[u] = ele[u]
OwnLocks(t) == \A n \in Nodes, u \in Threads \ {t} : mutex'[n] = u <=> mutex[n] = u

LEMMA KnowsFacts ==
    ASSUME Setting, ListInv, ~spoilt, NEW t \in Threads, Busy(t)
    PROVE  /\ par[t] \in Places /\ par[t] \in Nodes /\ mutex[par[t]] = t
           /\ ele[t] = next[par[t]] /\ call[t].val \in Above(par[t])
           /\ pc[t] = "found"  => ele[t] # NULL /\ mutex[ele[t]] = t /\ val[ele[t]] = call[t].val
           /\ pc[t] = "missed" => ele[t] = NULL \/ call[t].val < val[ele[t]]
           /\ ele[t] # NULL => ele[t] \in malloced /\ ele[t] \in Nodes /\ ele[t] # par[t]
<1>1. ListTypeOK /\ ListRight /\ Knows(t)
  BY DEF ListInv
<1>2. par[t] \in Places /\ ele[t] = next[par[t]]
  BY <1>1 DEF Knows
<1>3. ASSUME ele[t] # NULL PROVE ele[t] \in malloced /\ ele[t] \in Nodes /\ ele[t] # par[t]
  <2>1. ele[t] \in malloced /\ val[ele[t]] \in Above(par[t]) /\ head \notin malloced
    BY <1>1, <1>2, <1>3, NextFacts, NodeFacts
  <2> QED BY <1>1, <2>1, NodeFacts DEF Above
<1> QED BY <1>1, <1>2, <1>3, NodeFacts DEF Knows

\* What the other threads know stays true when their places stay, lead where they led and
\* no value changes.
LEMMA OthersKnow ==
    ASSUME Setting, ListInv, ~spoilt, NEW t \in Threads, OnlyOne(t), OwnLocks(t),
           \A m \in Places : val'[m] = val[m],
           \A u \in Threads \ {t} : Busy(u) => par[u] \in Places' /\ next'[par[u]] = next[par[u]]
    PROVE  \A u \in Threads \ {t} : Knows(u)'
<1> SUFFICES ASSUME NEW u \in Threads \ {t}, Busy(u)' PROVE Knows(u)'
  BY DEF Knows
<1>1. Busy(u) /\ pc'[u] = pc[u] /\ call'[u] = call[u] /\ par'[u] = par[u] /\ ele'[u] = ele[u]
  BY DEF OnlyOne, Busy
<1>2. /\ par[u] \in Places /\ par[u] \in Nodes /\ mutex[par[u]] = u
      /\ ele[u] = next[par[u]] /\ call[u].val \in Above(par[u])
      /\ pc[u] = "found"  => ele[u] # NULL /\ mutex[ele[u]] = u /\ val[ele[u]] = call[u].val
      /\ pc[u] = "missed" => ele[u] = NULL \/ call[u].val < val[ele[u]]
      /\ ele[u] # NULL => ele[u] \in malloced /\ ele[u] \in Nodes
  BY <1>1, KnowsFacts
<1>3. ele[u] # NULL => val'[ele[u]] = val[ele[u]]
  BY <1>2 DEF Places
<1>4. mutex'[par[u]] = u /\ (pc[u] = "found" => mutex'[ele[u]] = u)
  BY <1>2 DEF OwnLocks
<1>5. call'[u].val \in Above(par[u])'
  <2>1. val'[par[u]] = val[par[u]]
    BY <1>2
  <2> QED BY <1>1, <1>2, <2>1 DEF Above
<1>6. par[u] \in Places' /\ next'[par[u]] = next[par[u]]
  BY <1>1
<1> QED BY <1>1, <1>2, <1>3, <1>4, <1>5, <1>6 DEF Knows

\* Locks of other threads are still known when t knows its own.
LEMMA LocksStayKnown ==
    ASSUME Setting, ListInv, ~spoilt, NEW t \in Threads, OnlyOne(t), OwnLocks(t),
           mutex' \in [Nodes -> Threads \cup {Nobody}],
           \A n \in Nodes : mutex'[n] = t =>
              /\ Busy(t)'
              /\ n = par'[t] \/ (pc'[t] = "found" /\ n = ele'[t])
    PROVE  LocksKnown'
<1> SUFFICES ASSUME NEW n \in Nodes, mutex'[n] # Nobody
             PROVE  /\ Busy(mutex[n])'
                    /\ n = par'[mutex'[n]] \/ (pc'[mutex'[n]] = "found" /\ n = ele'[mutex'[n]])
  BY DEF LocksKnown
<1>1. CASE mutex'[n] = t
  BY <1>1 DEF Busy
<1>2. CASE mutex'[n] # t
  <2>1. PICK u \in Threads \ {t} : mutex'[n] = u
    BY <1>2
  <2>2. mutex[n] = u /\ u # Nobody
    BY <2>1 DEF OwnLocks, Setting
  <2>3. Busy(u) /\ (n = par[u] \/ (pc[u] = "found" /\ n = ele[u]))
    BY <2>2 DEF ListInv, LocksKnown
  <2> QED BY <2>1, <2>3 DEF OnlyOne, Busy
<1> QED BY <1>1, <1>2

---------------------------------------------------------------------------------
(* The steps.                                                                    *)

LEMMA TypesNext ==
    ASSUME Setting, ListInv, [Next]_listVars
    PROVE  ListTypeOK'
<1>0. ListTypeOK /\ head \in Nodes /\ Elements \subseteq Nodes /\ malloced \subseteq Nodes
  BY NodeFacts DEF ListInv
<1>1. ASSUME UNCHANGED listVars PROVE ListTypeOK'
  BY <1>0, <1>1 DEF ListTypeOK, listVars
<1> SUFFICES ASSUME ~spoilt, NEW t \in Threads,
                    Call(t) \/ Step(t) \/ End(t) \/ Insert(t) \/ Delete(t) \/ Nothing(t)
             PROVE  ListTypeOK'
  BY <1>1 DEF Next
<1>2. ASSUME NEW ns PROVE Unlocked(ns) \in [Nodes -> Threads \cup {Nobody}]
  BY <1>0 DEF Unlocked, ListTypeOK
<1>3. Busy(t) => par[t] \in Nodes /\ (ele[t] # NULL => ele[t] \in malloced /\ ele[t] \in Nodes)
  BY KnowsFacts
<1>4. CASE Call(t)
  <2>1. left[t] \in Nat /\ left[t] > 0
    BY <1>0, <1>4 DEF Call, ListTypeOK
  <2>2. left[t] - 1 \in Nat
    BY <2>1
  <2> QED BY <1>0, <1>4, <2>2 DEF Call, ListTypeOK, heapVars, Setting
<1>5. CASE Step(t)
  <2>1. Busy(t)
    BY <1>5 DEF Step, Busy
  <2>2. mutex' \in [Nodes -> Threads \cup {Nobody}]
    <3>1. \/ mutex' = mutex \/ mutex' = [mutex EXCEPT ![ele[t]] = t]
          \/ mutex' = [Unlocked({par[t]}) EXCEPT ![ele[t]] = t]
      BY <1>5 DEF Step
    <3>2. Unlocked({par[t]}) \in [Nodes -> Threads \cup {Nobody}]
      BY <1>2
    <3>3. mutex \in [Nodes -> Threads \cup {Nobody}]
      BY <1>0 DEF ListTypeOK
    <3> QED BY <3>1, <3>2, <3>3
  <2>3. par' \in [Threads -> Nodes \cup {NULL}] /\ ele' \in [Threads -> Nodes \cup {NULL}]
    BY <1>0, <1>3, <1>5, <2>1 DEF Step, ListTypeOK
  <2>4. pc' \in [Threads -> {"idle", "search", "found", "missed"}]
    BY <1>0, <1>5 DEF Step, ListTypeOK
  <2> QED BY <1>0, <1>5, <2>2, <2>3, <2>4 DEF Step, ListTypeOK, heapVars
<1>6. CASE End(t)
  BY <1>0, <1>6 DEF End, ListTypeOK, heapVars
<1>7. CASE Insert(t)
  <2>1. Busy(t) /\ call[t].val \in Int
    BY <1>0, <1>7 DEF Insert, Busy, ListTypeOK
  <2>2. spoilt' \in BOOLEAN
    BY <1>7 DEF Insert
  <2> QED BY <1>0, <1>2, <1>3, <1>7, <2>1, <2>2 DEF Insert, Return, ListTypeOK
<1>8. CASE Delete(t)
  <2>1. Busy(t) /\ par[t] \in Nodes /\ ele[t] \in Nodes
    BY <1>8, KnowsFacts DEF Delete, Busy
  <2> QED BY <1>0, <1>2, <1>8, <2>1 DEF Delete, Return, ListTypeOK
<1>9. CASE Nothing(t)
  BY <1>0, <1>2, <1>9 DEF Nothing, Return, ListTypeOK, heapVars
<1> QED BY <1>4, <1>5, <1>6, <1>7, <1>8, <1>9

LEMMA CallKeeps ==
    ASSUME Setting, ListInv, ~spoilt, NEW t \in Threads, Call(t), ListTypeOK'
    PROVE  ListInv'
<1>0. ListTypeOK /\ ListRight /\ ListRight' /\ head \in Nodes /\ head \in Places /\ Places' = Places
  BY ListSame, NodeFacts DEF ListInv, Call, heapVars, Places
<1>1. OnlyOne(t)
  BY <1>0 DEF Call, OnlyOne, ListTypeOK
<1>2. OwnLocks(t)
  BY <1>0 DEF Call, OwnLocks, ListTypeOK, Setting
<1>3. \A u \in Threads \ {t} : Knows(u)'
  BY <1>0, <1>1, <1>2, OthersKnow, KnowsFacts DEF Call, heapVars
<1>4. /\ pc'[t] = "search" /\ par'[t] = head /\ ele'[t] = next[head] /\ mutex'[head] = t
      /\ call'[t].val \in Int /\ next' = next
  BY <1>0 DEF Call, ListTypeOK, heapVars, Setting
<1>5. Knows(t)'
  BY <1>0, <1>4 DEF Knows, Above
<1>6. \A n \in Nodes : mutex'[n] = t => n = head
  <2>1. ~Busy(t)
    BY DEF Call, Busy
  <2>2. \A n \in Nodes : mutex[n] # t
    BY <2>1 DEF ListInv, LocksKnown, Setting
  <2> QED BY <1>0, <2>2 DEF Call, ListTypeOK
<1>7. LocksKnown'
  <2>1. Busy(t)' /\ mutex' \in [Nodes -> Threads \cup {Nobody}]
    BY <1>4 DEF Busy, ListTypeOK
  <2> QED BY <1>1, <1>2, <1>4, <1>6, <2>1, LocksStayKnown
<1> QED BY <1>0, <1>3, <1>5, <1>7 DEF ListInv

\* What Unlocked leaves to the threads.
LEMMA UnlockedFacts ==
    ASSUME ListTypeOK, NEW ns, NEW n \in Nodes
    PROVE  Unlocked(ns)[n] = IF n \in ns THEN Nobody ELSE mutex[n]
  BY DEF Unlocked

LEMMA StepKeeps ==
    ASSUME Setting, ListInv, ~spoilt, NEW t \in Threads, Step(t), ListTypeOK'
    PROVE  ListInv'
<1> DEFINE n == ele[t]
<1>0. /\ ListTypeOK /\ ListRight /\ ListRight' /\ Places' = Places /\ next' = next /\ val' = val
      /\ malloced' = malloced
  BY ListSame DEF ListInv, Step, heapVars, Places
<1>1. OnlyOne(t)
  BY <1>0 DEF Step, OnlyOne, ListTypeOK
<1>2. /\ pc[t] = "search" /\ Busy(t) /\ n \in malloced /\ n \in Nodes /\ n # par[t] /\ n # NULL
      /\ par[t] \in Places /\ par[t] \in Nodes /\ mutex[par[t]] = t /\ n = next[par[t]]
      /\ call[t].val \in Above(par[t]) /\ call'[t] = call[t]
      /\ val[n] \in Int /\ call[t].val \in Int
  <2>1. pc[t] = "search" /\ Busy(t) /\ n # NULL /\ call' = call
    BY DEF Step, Busy
  <2> QED BY <1>0, <2>1, KnowsFacts, NodeFacts DEF Above
<1>3. \A m \in Nodes : mutex[m] = t => m = par[t]
  BY <1>2 DEF ListInv, LocksKnown, Setting
<1>4. mutex' \in [Nodes -> Threads \cup {Nobody}] /\ mutex \in [Nodes -> Threads \cup {Nobody}]
  BY <1>0 DEF ListTypeOK
<1>5. ASSUME OwnLocks(t), Knows(t)', Busy(t)',
             \A m \in Nodes : mutex'[m] = t => m = par'[t] \/ (pc'[t] = "found" /\ m = ele'[t])
      PROVE  ListInv'
  <2>1. \A u \in Threads \ {t} : Knows(u)'
    BY <1>0, <1>1, <1>5, OthersKnow, KnowsFacts
  <2>2. LocksKnown'
    BY <1>1, <1>4, <1>5, LocksStayKnown
  <2> QED BY <1>0, <1>5, <2>1, <2>2 DEF ListInv
<1>6. CASE call[t].val = val[n]
  <2>1. /\ mutex' = [mutex EXCEPT ![n] = t] /\ par' = par /\ ele' = ele /\ pc'[t] = "found"
        /\ mutex[n] = Nobody
    BY <1>0, <1>2, <1>6 DEF Step, CanLock, ListTypeOK
  <2>2. OwnLocks(t)
    BY <1>2, <1>4, <2>1 DEF OwnLocks, Setting
  <2>3. Knows(t)'
    BY <1>0, <1>2, <1>4, <1>6, <2>1 DEF Knows, Above
  <2>4. \A m \in Nodes : mutex'[m] = t => m = par'[t] \/ m = ele'[t]
    BY <1>2, <1>3, <1>4, <2>1
  <2> QED BY <1>5, <2>1, <2>2, <2>3, <2>4 DEF Busy
<1>7. CASE call[t].val < val[n]
  <2>1. mutex' = mutex /\ par' = par /\ ele' = ele /\ pc'[t] = "missed"
    BY <1>0, <1>2, <1>7 DEF Step, ListTypeOK
  <2>2. Knows(t)'
    BY <1>0, <1>2, <1>7, <2>1 DEF Knows, Above
  <2> QED BY <1>3, <1>5, <2>1, <2>2 DEF Busy, OwnLocks
<1>8. CASE call[t].val > val[n]
  <2>1. /\ mutex' = [Unlocked({par[t]}) EXCEPT ![n] = t] /\ par'[t] = n /\ ele'[t] = next[n]
        /\ pc'[t] = "search" /\ mutex[n] = Nobody
    <3>1. ~(call[t].val = val[n]) /\ ~(call[t].val < val[n])
      BY <1>2, <1>8
    <3>2. /\ mutex' = [Unlocked({par[t]}) EXCEPT ![n] = t] /\ par' = [par EXCEPT ![t] = n]
          /\ ele' = [ele EXCEPT ![t] = next[n]] /\ pc' = pc /\ mutex[n] = Nobody
      BY <3>1 DEF Step, CanLock
    <3>3. par \in [Threads -> Nodes \cup {NULL}] /\ ele \in [Threads -> Nodes \cup {NULL}]
      BY <1>0 DEF ListTypeOK
    <3> HIDE DEF n
    <3> QED BY <1>2, <3>2, <3>3
  <2>2. \A m \in Nodes : mutex'[m] = IF m = n THEN t ELSE IF m = par[t] THEN Nobody ELSE mutex[m]
    BY <1>2, <2>1 DEF Unlocked
  <2>3. OwnLocks(t)
    BY <1>2, <2>1, <2>2 DEF OwnLocks, Setting
  <2>4. Knows(t)'
    BY <1>0, <1>2, <1>8, <2>1, <2>2 DEF Knows, Above, Places
  <2>5. \A m \in Nodes : mutex'[m] = t => m = par'[t]
    BY <1>3, <2>1, <2>2 DEF Setting
  <2> QED BY <1>5, <2>1, <2>3, <2>4, <2>5 DEF Busy
<1> QED BY <1>2, <1>6, <1>7, <1>8

LEMMA EndKeeps ==
    ASSUME Setting, ListInv, ~spoilt, NEW t \in Threads, End(t), ListTypeOK'
    PROVE  ListInv'
<1>0. /\ ListTypeOK /\ ListRight /\ ListRight' /\ Places' = Places /\ next' = next /\ val' = val
      /\ malloced' = malloced /\ mutex' = mutex /\ par' = par /\ ele' = ele /\ call' = call
  BY ListSame DEF ListInv, End, heapVars, Places
<1>1. OnlyOne(t) /\ OwnLocks(t) /\ pc[t] = "search" /\ pc'[t] = "missed" /\ ele[t] = NULL
  BY <1>0 DEF End, OnlyOne, OwnLocks, ListTypeOK
<1>2. \A u \in Threads \ {t} : Knows(u)'
  BY <1>0, <1>1, OthersKnow, KnowsFacts
<1>3. Knows(t)'
  <2>1. Knows(t) /\ Busy(t)
    BY <1>1 DEF ListInv, Busy
  <2> QED BY <1>0, <1>1, <2>1 DEF Knows, Above
<1>4. LocksKnown'
  <2>1. \A n \in Nodes : mutex[n] = t => n = par[t]
    BY <1>1 DEF ListInv, LocksKnown, Setting
  <2>2. Busy(t)' /\ mutex' \in [Nodes -> Threads \cup {Nobody}]
    BY <1>1 DEF Busy, ListTypeOK
  <2> QED BY <1>0, <1>1, <2>1, <2>2, LocksStayKnown
<1> QED BY <1>0, <1>2, <1>3, <1>4 DEF ListInv

\* A call returns: t knows nothing and has no lock.
LEMMA Returned ==
    ASSUME Setting, ListInv, ~spoilt, NEW t \in Threads, Busy(t), ListTypeOK',
           Return(t, IF pc[t] = "found" THEN {par[t], ele[t]} ELSE {par[t]})
    PROVE  /\ OnlyOne(t) /\ OwnLocks(t) /\ Knows(t)' /\ call' = call
           /\ LocksKnown'
<1> DEFINE ns == IF pc[t] = "found" THEN {par[t], ele[t]} ELSE {par[t]}
<1>0. /\ mutex' = Unlocked(ns) /\ pc' = [pc EXCEPT ![t] = "idle"] /\ call' = call
      /\ par' = par /\ ele' = ele /\ ListTypeOK
  BY DEF Return, ListInv
<1>1. OnlyOne(t) /\ pc'[t] = "idle"
  BY <1>0 DEF OnlyOne, ListTypeOK
<1>2. \A n \in ns : n \in Nodes /\ mutex[n] = t
  BY KnowsFacts
<1>3. \A n \in Nodes : mutex[n] = t => n \in ns
  BY DEF ListInv, LocksKnown, Setting
<1> HIDE DEF ns
<1>4. \A n \in Nodes : mutex'[n] = IF n \in ns THEN Nobody ELSE mutex[n]
  BY <1>0, UnlockedFacts
<1>5. OwnLocks(t)
  BY <1>2, <1>4 DEF OwnLocks, Setting
<1>6. \A n \in Nodes : mutex'[n] # t
  BY <1>3, <1>4 DEF Setting
<1>7. mutex' \in [Nodes -> Threads \cup {Nobody}]
  BY DEF ListTypeOK
<1>8. LocksKnown'
  BY <1>1, <1>5, <1>6, <1>7, LocksStayKnown
<1> QED BY <1>0, <1>1, <1>5, <1>8 DEF Knows, Busy

LEMMA InsertKeeps ==
    ASSUME Setting, ListInv, ~spoilt, NEW t \in Threads, Insert(t), ListTypeOK'
    PROVE  ListInv'
<1>0. ListTypeOK /\ ListRight /\ pc[t] = "missed" /\ Busy(t) /\ Return(t, {par[t]})
  BY DEF ListInv, Insert, Busy
<1>1. PICK n \in Elements \ malloced :
         /\ malloced' = malloced \cup {n}
         /\ val' = [val EXCEPT ![n] = call[t].val]
         /\ next' = [next EXCEPT ![n] = next[par[t]], ![par[t]] = n]
  BY DEF Insert
<1>2. /\ par[t] \in Places /\ par[t] \in Nodes /\ mutex[par[t]] = t /\ ele[t] = next[par[t]]
      /\ call[t].val \in Above(par[t]) /\ (ele[t] = NULL \/ call[t].val < val[ele[t]])
  BY <1>0, KnowsFacts
<1>3. ListRight'
  <2>1. present' = present \cup {call[t].val}
    BY DEF Insert
  <2> QED BY <1>0, <1>1, <1>2, <2>1, ListGrows
<1>4. OnlyOne(t) /\ OwnLocks(t) /\ Knows(t)' /\ LocksKnown'
  BY <1>0, Returned
<1>5. n \in Nodes /\ n \notin Places
  BY <1>0, <1>1, NodeFacts DEF Places, Setting
<1>6. \A m \in Places : val'[m] = val[m] /\ m \in Places'
  BY <1>0, <1>1, <1>5, NodeFacts DEF Places
<1>7. ASSUME NEW u \in Threads \ {t}, Busy(u) PROVE par[u] \in Places' /\ next'[par[u]] = next[par[u]]
  <2>1. par[u] \in Places /\ par[u] \in Nodes /\ mutex[par[u]] = u
    BY <1>7, KnowsFacts
  <2>2. par[u] # par[t] /\ par[u] # n
    BY <1>2, <1>5, <2>1
  <2> QED BY <1>0, <1>1, <1>6, <2>1, <2>2, NodeFacts
<1>8. \A u \in Threads \ {t} : Knows(u)'
  BY <1>4, <1>6, <1>7, OthersKnow
<1> QED BY <1>3, <1>4, <1>8 DEF ListInv

LEMMA DeleteKeeps ==
    ASSUME Setting, ListInv, ~spoilt, NEW t \in Threads, Delete(t), ListTypeOK'
    PROVE  ListInv'
<1>0. /\ ListTypeOK /\ ListRight /\ pc[t] = "found" /\ Busy(t) /\ Return(t, {par[t], ele[t]})
      /\ malloced' = malloced \ {ele[t]} /\ val' = val
      /\ next' = [next EXCEPT ![par[t]] = next[ele[t]]] /\ present' = present \ {call[t].val}
  BY DEF ListInv, Delete, Busy
<1>2. /\ par[t] \in Places /\ par[t] \in Nodes /\ mutex[par[t]] = t /\ ele[t] = next[par[t]]
      /\ ele[t] \in malloced /\ ele[t] # NULL /\ mutex[ele[t]] = t /\ val[ele[t]] = call[t].val
      /\ ele[t] \in Nodes
  BY <1>0, KnowsFacts
<1>3. ListRight'
  BY <1>0, <1>2, ListShrinks
<1>4. OnlyOne(t) /\ OwnLocks(t) /\ Knows(t)' /\ LocksKnown'
  BY <1>0, Returned
<1>5. Places' = Places \ {ele[t]}
  BY <1>0, <1>2, NodeFacts DEF Places
<1>7. ASSUME NEW u \in Threads \ {t}, Busy(u) PROVE par[u] \in Places' /\ next'[par[u]] = next[par[u]]
  <2>1. par[u] \in Places /\ par[u] \in Nodes /\ mutex[par[u]] = u
    BY <1>7, KnowsFacts
  <2>2. par[u] # par[t] /\ par[u] # ele[t]
    BY <1>2, <2>1
  <2> QED BY <1>0, <1>5, <2>1, <2>2, NodeFacts
<1>8. \A u \in Threads \ {t} : Knows(u)'
  BY <1>0, <1>4, <1>7, OthersKnow
<1> QED BY <1>3, <1>4, <1>8 DEF ListInv

LEMMA NothingKeeps ==
    ASSUME Setting, ListInv, ~spoilt, NEW t \in Threads, Nothing(t), ListTypeOK'
    PROVE  ListInv'
<1>0. /\ ListTypeOK /\ ListRight /\ ListRight' /\ Busy(t) /\ Places' = Places /\ next' = next /\ val' = val
      /\ Return(t, IF pc[t] = "found" THEN {par[t], ele[t]} ELSE {par[t]})
  BY ListSame DEF ListInv, Nothing, Busy, heapVars, Places
<1>1. OnlyOne(t) /\ OwnLocks(t) /\ Knows(t)' /\ LocksKnown'
  BY <1>0, Returned
<1>2. \A u \in Threads \ {t} : Knows(u)'
  BY <1>0, <1>1, OthersKnow, KnowsFacts
<1> QED BY <1>0, <1>1, <1>2 DEF ListInv

---------------------------------------------------------------------------------
(* The theorems.                                                                 *)

LEMMA ListInvInit ==
    ASSUME Setting, Init
    PROVE  ListInv
<1>1. ListTypeOK
  <2>1. [op |-> "none", val |-> 0] \in [op : {"none", "insert", "delete"}, val : Int]
    OBVIOUS
  <2>2. call \in [Threads -> [op : {"none", "insert", "delete"}, val : Int]]
    BY <2>1 DEF Init
  <2>3. /\ val \in [Nodes -> Int] /\ next \in [Nodes -> Nodes \cup {NULL}]
        /\ mutex \in [Nodes -> Threads \cup {Nobody}]
    BY DEF Init
  <2> QED BY <2>2, <2>3 DEF Init, Setting, ListTypeOK
<1>2. malloced = {} /\ next[head] = NULL /\ present = {} /\ Places = {head}
  BY DEF Init, Nodes, Places
<1>3. ListRight
  BY <1>2 DEF ListRight, Sorted, Distinct, NoGap, Ends, AllReached
<1>4. \A t \in Threads : ~Busy(t)
  BY DEF Init, Busy
<1>5. \A n \in Nodes : mutex[n] = Nobody
  BY DEF Init
<1> QED BY <1>1, <1>3, <1>4, <1>5 DEF ListInv, Knows, LocksKnown

LEMMA ListInvNext ==
    ASSUME Setting, ListInv, [Next]_listVars
    PROVE  ListInv'
<1>1. ListTypeOK'
  BY TypesNext
<1>2. CASE UNCHANGED listVars
  <2>1. /\ UNCHANGED heapVars /\ pc' = pc /\ call' = call /\ par' = par /\ ele' = ele /\ mutex' = mutex
        /\ next' = next /\ val' = val /\ malloced' = malloced /\ spoilt' = spoilt
    BY <1>2 DEF listVars, heapVars
  <2>2. ~spoilt => ListRight'
    BY <2>1, ListSame DEF ListInv
  <2>3. ~spoilt => (\A t \in Threads : Knows(t)') /\ LocksKnown'
    BY <2>1 DEF ListInv, Knows, LocksKnown, Busy, Above, Places
  <2> QED BY <1>1, <2>1, <2>2, <2>3 DEF ListInv
<1>3. CASE Next
  <2>1. PICK t \in Threads : Call(t) \/ Step(t) \/ End(t) \/ Insert(t) \/ Delete(t) \/ Nothing(t)
    BY <1>3 DEF Next
  <2>2. ~spoilt
    BY <1>3 DEF Next
  <2> QED BY <1>1, <2>1, <2>2, CallKeeps, StepKeeps, EndKeeps, InsertKeeps, DeleteKeeps, NothingKeeps
<1> QED BY <1>2, <1>3

\* When every thread that has calls left waits for a lock, there is none: the locked
\* elements that are waited for would have no greatest value, and the list no end.
LEMMA NeverStuck ==
    ASSUME Setting, ListInv, ~spoilt
    PROVE  NoDeadlock
<1> SUFFICES ASSUME \A t \in Threads : Waiting(t) \/ Resting(t), NEW t0 \in Threads, ~Resting(t0)
             PROVE  FALSE
  BY DEF NoDeadlock
<1> DEFINE Stuck == {t \in Threads : pc[t] = "search"}
           Awaited == {ele[t] : t \in Stuck}
           Low == {n \in malloced : \E a \in Awaited : val[n] <= val[a]}
<1>0. ListTypeOK /\ ListRight /\ LocksKnown
  BY DEF ListInv
<1>1. ASSUME NEW t \in Threads, Busy(t)
      PROVE  /\ t \in Stuck /\ ele[t] \in malloced /\ ele[t] \in Nodes /\ mutex[ele[t]] # Nobody
             /\ par[t] \in Places /\ ele[t] = next[par[t]] /\ val[ele[t]] \in Above(par[t])
  <2>1. Waiting(t) /\ pc[t] # "idle"
    BY <1>1 DEF Resting, Busy
  <2>2. pc[t] = "search" /\ ele[t] # NULL /\ mutex[ele[t]] # Nobody
    BY <2>1 DEF Waiting, CanLock
  <2>3. par[t] \in Places /\ ele[t] = next[par[t]] /\ ele[t] \in Nodes
    BY <1>1, <2>2, KnowsFacts
  <2> QED BY <1>0, <2>2, <2>3, NextFacts
<1>2. ASSUME NEW n \in Nodes, mutex[n] # Nobody
      PROVE  \E u \in Stuck : n = par[u]
  <2>1. mutex[n] \in Threads
    BY <1>0, <1>2 DEF ListTypeOK
  <2>2. Busy(mutex[n]) /\ (n = par[mutex[n]] \/ (pc[mutex[n]] = "found" /\ n = ele[mutex[n]]))
    BY <1>0, <1>2 DEF LocksKnown
  <2>3. mutex[n] \in Stuck
    BY <1>1, <2>1, <2>2
  <2> QED BY <2>2, <2>3
<1>3. \A t \in Stuck : t \in Threads /\ Busy(t)
  BY DEF Busy
<1>4. Awaited # {}
  <2>1. Waiting(t0)
    OBVIOUS
  <2>2. \E u \in Stuck : TRUE
    BY <1>0, <1>2, <2>1, NodeFacts DEF Waiting
  <2> QED BY <2>2
<1>5. ASSUME NEW a \in Awaited
      PROVE  a \in malloced /\ a # head /\ val[a] \in Int /\ \E b \in Awaited : val[a] < val[b]
  <2>1. PICK t \in Stuck : a = ele[t]
    OBVIOUS
  <2>2. a \in malloced /\ a \in Nodes /\ mutex[a] # Nobody
    BY <1>1, <1>3, <2>1
  <2>3. PICK u \in Stuck : a = par[u]
    BY <1>2, <2>2
  <2>4. val[ele[u]] \in Above(a) /\ a # head /\ val[a] \in Int
    BY <1>0, <1>1, <1>3, <2>2, <2>3, NodeFacts
  <2> QED BY <2>2, <2>4 DEF Above
<1> HIDE DEF Stuck, Awaited
<1>6. ASSUME NEW p \in Low \cup {head} PROVE next[p] \in Low
  <2>1. \E a \in Awaited : val[a] \in Above(p) /\ a \in malloced
    <3>1. CASE p = head
      BY <1>4, <1>5, <3>1 DEF Above
    <3>2. CASE p # head
      <4>1. PICK a \in Awaited : val[p] <= val[a]
        BY <1>6, <3>2
      <4>2. PICK b \in Awaited : val[a] < val[b]
        BY <1>5
      <4>3. val[p] \in Int /\ val[a] \in Int /\ val[b] \in Int /\ b \in malloced
        BY <1>0, <1>5, <1>6, <3>2, NodeFacts
      <4> QED BY <4>1, <4>2, <4>3 DEF Above
    <3> QED BY <3>1, <3>2
  <2>2. PICK a \in Awaited : val[a] \in Above(p) /\ a \in malloced
    BY <2>1
  <2>3. p \in Places
    BY DEF Places
  <2>4. next[p] # NULL /\ val[next[p]] <= val[a]
    BY <1>0, <2>2, <2>3 DEF ListRight, NoGap
  <2>5. next[p] \in malloced
    BY <1>0, <2>3, <2>4, NextFacts
  <2> QED BY <2>4, <2>5
<1>7. Low = malloced
  BY <1>0, <1>6 DEF ListRight, AllReached, Closed
<1>8. PICK p \in Places : next[p] = NULL
  BY <1>0 DEF ListRight, Ends
<1>9. NULL \in malloced
  BY <1>6, <1>7, <1>8 DEF Places
<1> QED BY <1>0, <1>9, NodeFacts

\* Hand-over-hand locking keeps the list sorted and its searches at places of the list,
\* every lock that is held is that of a search, for any number of threads, elements and
\* calls, until malloc returns an element that was freed.
THEOREM ListInvariant == ASSUME Setting PROVE Spec => []ListInv
<1>1. Init => ListInv
  BY ListInvInit
<1>2. ListInv /\ [Next]_listVars => ListInv'
  BY ListInvNext
<1> QED BY <1>1, <1>2, PTL DEF Spec

\* The list has every element that insertList added and deleteList did not remove, in
\* strict order; no search holds a freed element, and the threads never deadlock.
THEOREM ListCorrect == ASSUME Setting PROVE Spec => []ListExact
<1>1. ListInv => ListExact
  <2> SUFFICES ASSUME ListInv, ~spoilt PROVE ListExact
    BY DEF ListExact
  <2>1. Sorted /\ AllReached /\ {val[n] : n \in malloced} = present
    BY DEF ListInv, ListRight
  <2>2. ASSUME NEW t \in Threads, pc[t] \in {"search", "found", "missed"}
        PROVE  {par[t], ele[t]} \subseteq malloced \cup {head, NULL}
    BY <2>2, KnowsFacts DEF Busy, Places
  <2> QED BY <2>1, <2>2, NeverStuck DEF ListExact
<1> QED BY <1>1, ListInvariant, PTL

---------------------------------------------------------------------------------
(* The race.                                                                     *)

CONSTANT Teams

VARIABLES racerA, racerB, raceMutex, saw, someone_finished, gold, silver, joined

Relay == INSTANCE Race WITH a <- racerA, b <- racerB, mutex <- raceMutex

RacePlaces == {"barrier", "wait", "asleep", "run", "announce", "print", "unlock", "done"}

Inside     == {"announce", "print", "unlock"}

\* The race mutex is held by whoever is between the lock and the unlock.
HoldersInside == /\ \A t \in Teams : racerB[t] \in Inside => raceMutex = t
                 /\ raceMutex # Nobody => raceMutex \in Teams /\ racerB[raceMutex] \in Inside

\* What announce has read is still so when it acts on it.
ReadIsFresh == \A t \in Teams : racerB[t] = "print" => saw[t] = someone_finished

WinnerKnown == /\ \A s, t \in gold : s = t
               /\ someone_finished = TRUE <=> gold # {}
               /\ silver # {} => gold # {}
               /\ gold \cup silver \subseteq Teams

\* Who is past announce, and nobody else, has been announced, and once.
AllAnnounced == /\ \A t \in Teams : racerB[t] \in {"unlock", "done"} <=> t \in gold \cup silver
                /\ gold \cap silver = {}

RaceInv == /\ racerB \in [Teams -> RacePlaces] /\ saw \in [Teams -> BOOLEAN]
           /\ someone_finished \in BOOLEAN
           /\ HoldersInside /\ ReadIsFresh /\ WinnerKnown /\ AllAnnounced

LEMMA RaceInit == ASSUME Relay!Init PROVE RaceInv
<1>1. racerB = [t \in Teams |-> "barrier"] /\ saw = [t \in Teams |-> FALSE]
  BY DEF Relay!Init
<1>2. racerB \in [Teams -> RacePlaces]
  BY <1>1 DEF RacePlaces
<1>3. saw \in [Teams -> BOOLEAN]
  BY <1>1
<1>4. someone_finished = FALSE /\ gold = {} /\ silver = {} /\ raceMutex = Nobody
  BY DEF Relay!Init
<1>5. HoldersInside /\ ReadIsFresh /\ AllAnnounced
  BY <1>1, <1>4 DEF HoldersInside, ReadIsFresh, AllAnnounced, Inside
<1> QED BY <1>2, <1>3, <1>4, <1>5 DEF RaceInv, WinnerKnown

\* A step in which nobody enters or leaves, and nothing is announced.
LEMMA RaceFrame ==
    ASSUME RaceInv, racerB' \in [Teams -> RacePlaces],
           UNCHANGED <<raceMutex, saw, someone_finished, gold, silver>>,
           \A t \in Teams : \/ racerB'[t] = racerB[t]
                           \/ {racerB[t], racerB'[t]} \cap (Inside \cup {"done"}) = {}
    PROVE  RaceInv'
<1>1. HoldersInside'
  BY DEF RaceInv, HoldersInside
<1>2. ReadIsFresh' /\ AllAnnounced'
  BY DEF RaceInv, ReadIsFresh, AllAnnounced, Inside
<1> QED BY <1>1, <1>2 DEF RaceInv, WinnerKnown

\* What To does to the places.
LEMMA RacerMoved ==
    ASSUME RaceInv, NEW t \in Teams, NEW p \in RacePlaces, NEW q \in RacePlaces, Relay!To(t, p, q)
    PROVE  /\ racerB[t] = p /\ racerB' \in [Teams -> RacePlaces] /\ racerB'[t] = q
           /\ \A s \in Teams \ {t} : racerB'[s] = racerB[s]
  BY DEF RaceInv, Relay!To

LEMMA RaceStep ==
    ASSUME Nobody \notin Teams, RaceInv, NEW t \in Teams,
           \/ Relay!Broadcast(t) \/ Relay!CondWait(t) \/ Relay!Spurious(t)
           \/ Relay!Lock(t) \/ Relay!Read(t) \/ Relay!Announce(t) \/ Relay!Unlock(t)
    PROVE  RaceInv'
<1>0. {"wait", "asleep", "run", "announce", "print", "unlock", "done"} \subseteq RacePlaces
  BY DEF RacePlaces
<1>1. CASE Relay!Broadcast(t)
  <2>1. racerB' = [racerB EXCEPT ![t] = IF racerB[t] = "asleep" THEN "run" ELSE racerB[t]]
    BY <1>1 DEF Relay!Broadcast
  <2>2. racerB \in [Teams -> RacePlaces]
    BY DEF RaceInv
  <2>3. racerB' \in [Teams -> RacePlaces]
    BY <2>1, <2>2, <1>0
  <2>4. \A s \in Teams : \/ racerB'[s] = racerB[s]
                         \/ racerB[s] = "asleep" /\ racerB'[s] = "run"
    BY <2>1, <2>2
  <2>5. UNCHANGED <<raceMutex, saw, someone_finished, gold, silver>>
    BY <1>1 DEF Relay!Broadcast
  <2> QED BY <2>3, <2>4, <2>5, RaceFrame DEF Inside
<1>2. CASE Relay!CondWait(t) \/ Relay!Spurious(t)
  <2>1. PICK p \in {"wait", "asleep"}, q \in {"asleep", "run"} : Relay!To(t, p, q)
    BY <1>2 DEF Relay!CondWait, Relay!Spurious
  <2>2. p \in RacePlaces /\ q \in RacePlaces
    BY <2>1, <1>0
  <2>3. /\ racerB' \in [Teams -> RacePlaces] /\ racerB[t] = p /\ racerB'[t] = q
        /\ \A s \in Teams \ {t} : racerB'[s] = racerB[s]
    BY <2>1, <2>2, RacerMoved
  <2>4. UNCHANGED <<raceMutex, saw, someone_finished, gold, silver>>
    BY <1>2 DEF Relay!CondWait, Relay!Spurious
  <2> QED BY <2>1, <2>3, <2>4, RaceFrame DEF Inside
<1>3. CASE Relay!Lock(t)
  <2>1. /\ racerB[t] = "run" /\ racerB' \in [Teams -> RacePlaces] /\ racerB'[t] = "announce"
        /\ \A s \in Teams \ {t} : racerB'[s] = racerB[s]
    BY <1>3, <1>0, RacerMoved DEF Relay!Lock
  <2>2. /\ raceMutex = Nobody /\ raceMutex' = t
        /\ UNCHANGED <<saw, someone_finished, gold, silver>>
    BY <1>3 DEF Relay!Lock
  <2>3. HoldersInside'
    BY <2>1, <2>2 DEF RaceInv, HoldersInside, Inside
  <2>4. ReadIsFresh' /\ AllAnnounced'
    BY <2>1, <2>2 DEF RaceInv, ReadIsFresh, AllAnnounced
  <2> QED BY <2>1, <2>2, <2>3, <2>4 DEF RaceInv, WinnerKnown
<1>4. CASE Relay!Read(t)
  <2>1. /\ racerB[t] = "announce" /\ racerB' \in [Teams -> RacePlaces] /\ racerB'[t] = "print"
        /\ \A s \in Teams \ {t} : racerB'[s] = racerB[s]
    BY <1>4, <1>0, RacerMoved DEF Relay!Read
  <2>2. /\ saw' = [saw EXCEPT ![t] = someone_finished]
        /\ UNCHANGED <<raceMutex, someone_finished, gold, silver>>
    BY <1>4 DEF Relay!Read
  <2>3. HoldersInside'
    BY <2>1, <2>2 DEF RaceInv, HoldersInside, Inside
  <2>4. saw' \in [Teams -> BOOLEAN] /\ ReadIsFresh'
    BY <2>1, <2>2 DEF RaceInv, ReadIsFresh
  <2>5. AllAnnounced'
    BY <2>1, <2>2 DEF RaceInv, AllAnnounced
  <2> QED BY <2>1, <2>2, <2>3, <2>4, <2>5 DEF RaceInv, WinnerKnown
<1>5. CASE Relay!Announce(t)
  <2>1. /\ racerB[t] = "print" /\ racerB' \in [Teams -> RacePlaces] /\ racerB'[t] = "unlock"
        /\ \A s \in Teams \ {t} : racerB'[s] = racerB[s]
    BY <1>5, <1>0, RacerMoved DEF Relay!Announce
  <2>2. /\ someone_finished' = TRUE /\ UNCHANGED <<raceMutex, saw>>
        /\ IF saw[t] THEN silver' = silver \cup {t} /\ UNCHANGED gold
           ELSE gold' = gold \cup {t} /\ UNCHANGED silver
    BY <1>5 DEF Relay!Announce
  <2>3. HoldersInside'
    BY <2>1, <2>2 DEF RaceInv, HoldersInside, Inside
  <2>4. raceMutex = t /\ \A s \in Teams \ {t} : racerB[s] # "print"
    BY <2>1 DEF RaceInv, HoldersInside, Inside
  <2>5. ReadIsFresh'
    BY <2>1, <2>4 DEF ReadIsFresh
  <2>6. saw[t] = someone_finished
    BY <2>1 DEF RaceInv, ReadIsFresh
  <2>7. WinnerKnown'
    BY <2>2, <2>6 DEF RaceInv, WinnerKnown
  <2>8. saw' \in [Teams -> BOOLEAN] /\ someone_finished' \in BOOLEAN
    BY <2>2 DEF RaceInv
  <2>9. AllAnnounced'
    BY <2>1, <2>2 DEF RaceInv, AllAnnounced
  <2> QED BY <2>1, <2>3, <2>5, <2>7, <2>8, <2>9 DEF RaceInv
<1>6. CASE Relay!Unlock(t)
  <2>1. /\ racerB[t] = "unlock" /\ racerB' \in [Teams -> RacePlaces] /\ racerB'[t] = "done"
        /\ \A s \in Teams \ {t} : racerB'[s] = racerB[s]
    BY <1>6, <1>0, RacerMoved DEF Relay!Unlock
  <2>2. raceMutex' = Nobody /\ UNCHANGED <<saw, someone_finished, gold, silver>>
    BY <1>6 DEF Relay!Unlock
  <2>3. HoldersInside'
    BY <2>1, <2>2 DEF RaceInv, HoldersInside, Inside
  <2>4. ReadIsFresh' /\ AllAnnounced'
    BY <2>1, <2>2 DEF RaceInv, ReadIsFresh, AllAnnounced
  <2> QED BY <2>1, <2>2, <2>3, <2>4 DEF RaceInv, WinnerKnown
<1> QED BY <1>1, <1>2, <1>3, <1>4, <1>5, <1>6

LEMMA RaceOthers ==
    ASSUME RaceInv, Relay!Barrier \/ (\E t \in Teams : Relay!Join(t)) \/ UNCHANGED Relay!raceVars
    PROVE  RaceInv'
<1>1. UNCHANGED <<raceMutex, saw, someone_finished, gold, silver>>
  BY DEF Relay!Barrier, Relay!Join, Relay!raceVars
<1>2. CASE Relay!Barrier
  <2>1. racerB' = [t \in Teams |-> "wait"] /\ \A t \in Teams : racerB[t] = "barrier"
    BY <1>2 DEF Relay!Barrier
  <2>2. racerB' \in [Teams -> RacePlaces]
    BY <2>1 DEF RacePlaces
  <2> QED BY <1>1, <2>1, <2>2, RaceFrame DEF Inside
<1>3. CASE UNCHANGED racerB
  <2>1. racerB' \in [Teams -> RacePlaces]
    BY <1>3 DEF RaceInv
  <2> QED BY <1>1, <1>3, <2>1, RaceFrame
<1> QED BY <1>2, <1>3 DEF Relay!Join, Relay!raceVars

\* Whoever main has joined has ended.
JoinedEnded == /\ joined \in [Teams -> 0 .. 2]
               /\ \A t \in Teams : joined[t] = 2 => racerB[t] = "done"

LEMMA JoinedNext ==
    ASSUME RaceInv, JoinedEnded, Relay!Next \/ UNCHANGED Relay!raceVars
    PROVE  JoinedEnded'
<1>0. racerB \in [Teams -> RacePlaces] /\ joined \in [Teams -> 0 .. 2]
  BY DEF RaceInv, JoinedEnded
<1>1. ASSUME UNCHANGED joined, \A t \in Teams : racerB[t] = "done" => racerB'[t] = "done"
      PROVE  JoinedEnded'
  BY <1>1 DEF JoinedEnded
<1>2. CASE Relay!Barrier
  <2>1. UNCHANGED joined /\ \A t \in Teams : racerB[t] = "barrier"
    BY <1>2 DEF Relay!Barrier
  <2> QED BY <1>1, <2>1
<1>3. ASSUME NEW t \in Teams, Relay!Broadcast(t)
      PROVE  JoinedEnded'
  <2>1. UNCHANGED joined /\ racerB' = [racerB EXCEPT ![t] = IF racerB[t] = "asleep" THEN "run" ELSE racerB[t]]
    BY <1>3 DEF Relay!Broadcast
  <2> QED BY <1>0, <1>1, <2>1
<1>4. ASSUME NEW t \in Teams,
             \/ Relay!CondWait(t) \/ Relay!Spurious(t) \/ Relay!Lock(t)
             \/ Relay!Read(t) \/ Relay!Announce(t) \/ Relay!Unlock(t)
      PROVE  JoinedEnded'
  <2>1. racerB[t] # "done" /\ UNCHANGED joined /\ \E q \in RacePlaces : racerB' = [racerB EXCEPT ![t] = q]
    BY <1>4 DEF Relay!CondWait, Relay!Spurious, Relay!Lock, Relay!Read, Relay!Announce, Relay!Unlock,
                Relay!To, RacePlaces
  <2> QED BY <1>0, <1>1, <2>1
<1>5. ASSUME NEW t \in Teams, Relay!Join(t)
      PROVE  JoinedEnded'
  <2>1. /\ joined[t] \in {0, 1} /\ (joined[t] = 1 => racerB[t] = "done")
        /\ joined' = [joined EXCEPT ![t] = joined[t] + 1] /\ UNCHANGED racerB
    BY <1>5 DEF Relay!Join
  <2>2. joined' \in [Teams -> 0 .. 2]
    BY <1>0, <2>1
  <2>3. \A s \in Teams : joined'[s] = 2 => racerB'[s] = "done"
    BY <1>0, <2>1 DEF JoinedEnded
  <2> QED BY <2>2, <2>3 DEF JoinedEnded
<1>6. CASE UNCHANGED Relay!raceVars
  BY <1>1, <1>6 DEF Relay!raceVars
<1> QED BY <1>2, <1>3, <1>4, <1>5, <1>6 DEF Relay!Next

\* However many teams run, and in whatever order they are woken, announce calls one
\* the first, and the others second and only after it: the flag it reads is under the
\* same hold of the mutex as the announcement (race.c:117-119, 181-190).  When main has
\* joined all threads every team has been announced, once; and when all that is left is
\* to join, only a racer that slept through its broadcast has not.
THEOREM RaceCorrect ==
    ASSUME Nobody \notin Teams, Teams # {}
    PROVE  Relay!Spec => []Relay!RaceDecided
<1>1. RaceInv /\ JoinedEnded /\ [Relay!Next]_(Relay!raceVars) => RaceInv' /\ JoinedEnded'
  BY RaceStep, RaceOthers, JoinedNext DEF Relay!Next
<1>2. Relay!Init => RaceInv /\ JoinedEnded
  <2> SUFFICES ASSUME Relay!Init PROVE JoinedEnded
    BY RaceInit
  <2>1. joined = [t \in Teams |-> 0]
    BY DEF Relay!Init
  <2> QED BY <2>1 DEF JoinedEnded
<1>3. RaceInv /\ JoinedEnded => Relay!RaceDecided
  <2> SUFFICES ASSUME RaceInv, JoinedEnded PROVE Relay!RaceDecided
    OBVIOUS
  <2>1. Relay!OneWinner
    BY DEF RaceInv, WinnerKnown, Relay!OneWinner
  <2>2. ASSUME Relay!AllJoined
        PROVE  gold \cup silver = Teams /\ gold \cap silver = {} /\ gold # {}
    <3>1. \A t \in Teams : racerB[t] = "done"
      BY <2>2 DEF JoinedEnded, Relay!AllJoined
    <3> QED BY <3>1 DEF RaceInv, AllAnnounced, WinnerKnown
  <2>3. Relay!NoHang
    <3> SUFFICES ASSUME \A t \in Teams : Relay!Idle(t)
                 PROVE  /\ raceMutex = Nobody
                        /\ (\A t \in Teams : racerB[t] # "asleep") => gold # {} /\ gold \cup silver = Teams
      BY DEF Relay!NoHang
    <3>1. \A t \in Teams : racerB[t] \in {"asleep", "done"}
      BY DEF Relay!Idle
    <3>2. raceMutex = Nobody
      BY <3>1 DEF RaceInv, HoldersInside, Inside
    <3>3. (\A t \in Teams : racerB[t] # "asleep") => gold # {} /\ gold \cup silver = Teams
      BY <3>1 DEF RaceInv, WinnerKnown, AllAnnounced
    <3> QED BY <3>2, <3>3
  <2> QED BY <2>1, <2>2, <2>3 DEF Relay!RaceDecided
<1> QED BY <1>1, <1>2, <1>3, PTL DEF Relay!Spec
=================================================================================
