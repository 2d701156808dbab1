-------------------------- MODULE UthreadLifeProofs --------------------------
(***************************************************************************)
(* LifeInv survives the remaining steps of UthreadLife on one LWP, those   *)
(* that wake, create, destroy or dispatch a thread, and is so an invariant *)
(* of LifeSpec for any number of threads and priorities and for clients    *)
(* that create, exit, join, detach and yield as they like.                 *)
(***************************************************************************)
EXTENDS UthreadLifeStepProofs

-----------------------------------------------------------------------------
(* A step after which everybody has the threads that it had before.        *)

Unborn == {"UT_NO_STATE", "UT_TRANSITION"}

\* Only t goes to another point, and nobody takes or passes on a thread.
Carries(pt, cx, pq, cd, t) ==
    /\ Situation(pt, cx)
    /\ \A u \in Threads \ {t} : pq[u] = pt[u] /\ cd[u] = cx[u]
    /\ UNCHANGED <<tgt, reap_queue, claimed, ut_detached>>
    /\ \A u \in Threads : ut_state'[u] \in Unborn => ut_state[u] \in Unborn
    /\ \A u \in claimed : ut_state[u] \in Unborn => ut_state'[u] \in Unborn

\* Point q in context d is as good as p in c to those who wait for the thread.
SameRole(p, c, q, d) ==
    /\ Has(q, d) <=> Has(p, c)
    /\ Frees(q, d) <=> Frees(p, c)
    /\ Passed(q, d) <=> Passed(p, c)
    /\ Joins(q, d) <=> Joins(p, c)
    /\ HasDead(q, d) <=> HasDead(p, c)
    /\ (d = "exit" /\ q # "exit_check") <=> (c = "exit" /\ p # "exit_check")
    /\ p = "dead" => q = "dead"
    /\ q # "detach_check"

LEMMA CarryCustody ==
    ASSUME NEW pt, NEW cx, NEW pq, NEW cd, NEW t \in Threads, Carries(pt, cx, pq, cd, t),
           SameRole(pt[t], cx[t], pq[t], cd[t])
    PROVE  Custody(pq, cd)'
<1>1. /\ Custody(pt, cx) /\ UNCHANGED <<tgt, reap_queue, claimed>>
      /\ \A u \in Threads : ut_state'[u] \in Unborn => ut_state[u] \in Unborn
      /\ \A u \in Threads : Has(pt[u], cx[u]) => tgt[u] \in Threads
  BY DEF Carries, Situation, LifeInvAt, LifeTypeOK, Private, CallArgs
<1>2. \A u \in Threads : /\ Has(pq[u], cd[u]) <=> Has(pt[u], cx[u])
                         /\ Frees(pq[u], cd[u]) <=> Frees(pt[u], cx[u])
                         /\ Passed(pq[u], cd[u]) <=> Passed(pt[u], cx[u])
  BY DEF Carries, SameRole
<1>3. \A u : InReapQueue(u)' <=> InReapQueue(u)
  BY <1>1 DEF InReapQueue
<1>4. ASSUME NEW u \in Threads, Has(pq[u], cd[u])
      PROVE  /\ ~InReapQueue(tgt[u])' /\ tgt'[u] \in claimed'
             /\ ut_state'[tgt'[u]] \notin {"UT_NO_STATE", "UT_TRANSITION"}
  <2>1. /\ ~InReapQueue(tgt[u]) /\ tgt[u] \in claimed /\ tgt[u] \in Threads
        /\ ut_state[tgt[u]] \notin Unborn /\ tgt'[u] = tgt[u]
    BY <1>1, <1>2, <1>4 DEF Custody, Unborn
  <2>2. \A x, y : x = y /\ ~InReapQueue(y)' => ~InReapQueue(x)'
    OBVIOUS
  <2> QED BY <1>1, <1>3, <2>1, <2>2 DEF Unborn
<1>5. \A u \in Threads : Frees(pq[u], cd[u]) => InReapQueue(tgt[u])'
  <2> TAKE u \in Threads
  <2> HAVE Frees(pq[u], cd[u])
  <2>1. tgt'[u] = tgt[u] /\ InReapQueue(tgt[u])
    BY <1>1, <1>2 DEF Custody
  <2>2. \A x, y : x = y /\ InReapQueue(y)' => InReapQueue(x)'
    OBVIOUS
  <2> QED BY <1>3, <2>1, <2>2
<1>6. \A u, v \in Threads : Has(pq[u], cd[u]) /\ Has(pq[v], cd[v]) /\ tgt'[u] = tgt'[v] => u = v
  BY <1>1, <1>2 DEF Custody
<1>7. \A u \in Threads : InReapQueue(u)' => u \in claimed' /\ Passed(pq[u], cd[u])
  BY <1>1, <1>2, <1>3 DEF Custody
<1>8. \A i, j \in 1..Len(reap_queue') : reap_queue'[i] = reap_queue'[j] => i = j
  BY <1>1 DEF Custody
<1> QED BY <1>4, <1>5, <1>6, <1>7, <1>8 DEF Custody

LEMMA CarryTargets ==
    ASSUME NEW pt, NEW cx, NEW pq, NEW cd, NEW t \in Threads, Carries(pt, cx, pq, cd, t),
           SameRole(pt[t], cx[t], pq[t], cd[t])
    PROVE  Targets(pq, cd)'
<1>1. /\ Targets(pt, cx) /\ UNCHANGED <<tgt, claimed, ut_detached>>
      /\ \A u \in Threads : Has(pt[u], cx[u]) => tgt[u] \in Threads
  BY DEF Carries, Situation, LifeInvAt, LifeTypeOK, Private, CallArgs
<1>2. \A u \in Threads : /\ Joins(pq[u], cd[u]) <=> Joins(pt[u], cx[u])
                         /\ HasDead(pq[u], cd[u]) <=> HasDead(pt[u], cx[u])
                         /\ pt[u] = "dead" => pq[u] = "dead"
                         /\ pq[u] = "detach_check" => pt[u] = "detach_check"
  BY DEF Carries, SameRole
<1>3. \A u \in Threads : HasDead(pt[u], cx[u]) => tgt[u] \in Threads
  BY <1>1 DEF HasDead
<1> QED BY <1>1, <1>2, <1>3 DEF Targets

LEMMA CarryCare ==
    ASSUME NEW pt, NEW cx, NEW pq, NEW cd, NEW t \in Threads, Carries(pt, cx, pq, cd, t),
           SameRole(pt[t], cx[t], pq[t], cd[t])
    PROVE  CaredFor(pq, cd)'
<1>1. /\ CaredFor(pt, cx) /\ UNCHANGED <<tgt, reap_queue, claimed, ut_detached>>
      /\ claimed \subseteq Threads
      /\ \A u \in claimed : ut_state[u] \in Unborn => ut_state'[u] \in Unborn
  BY DEF Carries, Situation, LifeInvAt, LifeTypeOK
<1>2. \A u \in Threads :
         /\ Has(pq[u], cd[u]) <=> Has(pt[u], cx[u])
         /\ (cd[u] = "exit" /\ pq[u] # "exit_check") <=> (cx[u] = "exit" /\ pt[u] # "exit_check")
  BY DEF Carries, SameRole
<1>3. \A u : InReapQueue(u)' <=> InReapQueue(u)
  BY <1>1 DEF InReapQueue
<1>4. ASSUME NEW u \in claimed'
      PROVE  \/ ut_state'[u] \in {"UT_NO_STATE", "UT_TRANSITION"} \/ InReapQueue(u)'
             \/ ut_detached'[u] /\ (cd[u] = "exit" => pq[u] = "exit_check")
             \/ \E v \in Threads : Has(pq[v], cd[v]) /\ tgt'[v] = u
  <2>1. \/ ut_state[u] \in Unborn \/ InReapQueue(u)
        \/ ut_detached[u] /\ (cx[u] = "exit" => pt[u] = "exit_check")
        \/ \E v \in Threads : Has(pt[v], cx[v]) /\ tgt[v] = u
    BY <1>1 DEF CaredFor, Unborn
  <2>2. u \in claimed /\ u \in Threads
    BY <1>1
  <2> QED BY <1>1, <1>2, <1>3, <2>1, <2>2 DEF Unborn
<1> QED BY <1>4 DEF CaredFor

LEMMA CarryPmuts ==
    ASSUME NEW pt, NEW cx, NEW pq, NEW cd, NEW t \in Threads, Carries(pt, cx, pq, cd, t),
           UNCHANGED pmut,
           \A o \in Objs : Locks(t, pq[t], cd[t], o) <=> Locks(t, pt[t], cx[t], o)
    PROVE  PmutsRight(pq, cd)'
<1>1. \A u \in Threads, o \in Objs : Locks(u, pq[u], cd[u], o)' <=> Locks(u, pq[u], cd[u], o)
  BY DEF Carries, Locks
<1>2. \A u \in Threads, o \in Objs : Locks(u, pq[u], cd[u], o) <=> Locks(u, pt[u], cx[u], o)
  BY DEF Carries
<1> QED BY <1>1, <1>2 DEF Carries, Situation, LifeInvAt, PmutsRight

LEMMA CarryNew ==
    ASSUME NEW pt, NEW cx, NEW pq, NEW cd, NEW t \in Threads, Carries(pt, cx, pq, cd, t),
           newthr' = newthr,
           \A u \in Threads : ut_state[u] \in Unborn \/ ut_state'[u] \in Unborn => ut_state'[u] = ut_state[u],
           ut_state[t] \notin Unborn,
           \A u \in Threads : {pt[u], pq[u]} \cap {"alloc_claim", "startonrunq"} = {}
    PROVE  NewRight(pq)'
<1>1. /\ NewRight(pt) /\ \A u \in Threads : newthr[u] \in Threads \cup {NoThread}
      /\ \A u \in Threads \ {t} : pq[u] = pt[u]
  BY DEF Carries, Situation, LifeInvAt, LifeTypeOK, SchedTypes
<1>0. \A u \in Threads : pt[u] \notin {"alloc_claim", "startonrunq"} /\ pq[u] \notin {"alloc_claim", "startonrunq"}
  OBVIOUS
<1>2. ASSUME NEW u \in Threads, newthr[u] # NoThread
      PROVE  newthr[u] \in Threads /\ ut_state'[newthr[u]] = "UT_TRANSITION"
  <2>1. newthr[u] \in Threads /\ ut_state[newthr[u]] = "UT_TRANSITION"
    BY <1>0, <1>1, <1>2 DEF NewRight
  <2> QED BY <2>1 DEF Unborn
<1>3. \A u \in Threads : ut_state'[u] \in Unborn => u # t /\ ut_state'[u] = ut_state[u]
  <2> TAKE u \in Threads
  <2> HAVE ut_state'[u] \in Unborn
  <2>1. ut_state'[u] = ut_state[u]
    OBVIOUS
  <2> QED BY <2>1
<1> QED BY <1>0, <1>1, <1>2, <1>3 DEF NewRight, Unborn

-----------------------------------------------------------------------------
(* The wait queues.                                                        *)

LEMMA SeqTailMember ==
    ASSUME NEW s \in Seq(Threads), s # <<>>, \A i, j \in 1..Len(s) : s[i] = s[j] => i = j
    PROVE  /\ Head(s) \in Threads /\ \E i \in 1..Len(s) : s[i] = Head(s)
           /\ \A u : (\E i \in 1..Len(Tail(s)) : Tail(s)[i] = u) <=> (\E i \in 1..Len(s) : s[i] = u) /\ u # Head(s)
<1> DEFINE r == Tail(s)
           h == Head(s)
<1>1. /\ r \in Seq(Threads) /\ h \in Threads /\ h = s[1] /\ 1 \in 1..Len(s)
      /\ Len(r) = Len(s) - 1 /\ Len(s) \in Nat
      /\ \A i \in 1..Len(s) - 1 : r[i] = s[i + 1]
  BY QueueTails
<1>2. \A i \in 1..Len(r) : i + 1 \in 1..Len(s) /\ i + 1 # 1 /\ i \in 1..Len(s) - 1
  BY <1>1
<1>3. \A i \in 1..Len(s) : i = 1 \/ (i - 1 \in 1..Len(r) /\ i - 1 + 1 = i)
  BY <1>1
<1> HIDE DEF r, h
<1>4. \A i \in 1..Len(r) : r[i] = s[i + 1] /\ r[i] # h
  BY <1>1, <1>2
<1>5. ASSUME NEW u, NEW i \in 1..Len(s), s[i] = u, u # h PROVE \E j \in 1..Len(r) : r[j] = u
  <2>1. i - 1 \in 1..Len(r) /\ i - 1 + 1 = i
    BY <1>1, <1>3, <1>5
  <2>2. r[i - 1] = u
    BY <1>4, <1>5, <2>1
  <2> QED BY <2>1, <2>2
<1>6. ASSUME NEW u, NEW i \in 1..Len(r), r[i] = u PROVE u # h /\ \E j \in 1..Len(s) : s[j] = u
  BY <1>2, <1>4, <1>6
<1>7. \E i \in 1..Len(s) : s[i] = h
  BY <1>1
<1> QED BY <1>1, <1>5, <1>6, <1>7 DEF r, h

LEMMA QueueMembers ==
    ASSUME NEW pt, NEW cx, Situation(pt, cx), NEW o \in Objs, NEW u, InQueue(o, u)
    PROVE  /\ u \in Threads /\ ut_state[u] = "UT_WAIT" /\ ~OnLwp(u)
           /\ \A r \in Objs : InQueue(r, u) => r = o
           /\ \A v \in Threads : wakee[v] # u
<1>1. /\ WaitqOK /\ waitq \in [Objs -> Seq(Threads)]
      /\ \A v \in Threads : wakee[v] # NoThread => \A x \in Objs : ~InQueue(x, wakee[v])
      /\ NoThread \notin Threads
  BY LifeObjects DEF Situation, LifeInvAt, LifeTypeOK, SchedTypes, WaitsRight
<1>2. u \in Threads /\ ut_state[u] = "UT_WAIT" /\ ~OnLwp(u) /\ \A r \in Objs : InQueue(r, u) => r = o
  BY <1>1 DEF WaitqOK, InQueue, OnNoLwp, OnLwp, Running
<1> QED BY <1>1, <1>2

LEMMA DistinctWider ==
    ASSUME NEW D, NEW f, NEW S, NEW T, Distinct(D, f, S), S \subseteq T
    PROVE  Distinct(D, f, T)
  BY DEF Distinct

\* The head of a sequence, and the rest.
Member(s, u) == \E i \in 1..Len(s) : s[i] = u
LEMMA TailMember ==
    ASSUME NEW s \in Seq(Threads), NEW r, s # <<>>, r = Tail(s),
           \A i, j \in 1..Len(s) : s[i] = s[j] => i = j, NEW u
    PROVE  Member(r, u) <=> Member(s, u) /\ u # Head(s)
<1>1. (\E i \in 1..Len(Tail(s)) : Tail(s)[i] = u) <=> (\E i \in 1..Len(s) : s[i] = u) /\ u # Head(s)
  BY SeqTailMember
<1>2. Member(Tail(s), u) <=> Member(s, u) /\ u # Head(s)
  BY <1>1 DEF Member
<1> HIDE DEF Member
<1> QED BY <1>2

\* A thread takes the head of a queue to wake it.
LEMMA QueueTaken ==
    ASSUME NEW pt, NEW cx, Situation(pt, cx), NEW o \in Objs, waitq[o] # <<>>,
           waitq' = [waitq EXCEPT ![o] = Tail(@)]
    PROVE  /\ Head(waitq[o]) \in Threads /\ InQueue(o, Head(waitq[o]))
           /\ waitq' \in [Objs -> Seq(Threads)]
           /\ \A r \in Objs, u \in Threads : InQueue(r, u)' <=> InQueue(r, u) /\ u # Head(waitq[o])
           /\ UNCHANGED <<curthr, ut_state>> => WaitqOK'
<1> DEFINE s == waitq[o]
<1>1. WaitqOK /\ waitq \in [Objs -> Seq(Threads)]
  BY DEF Situation, LifeInvAt, LifeTypeOK, SchedTypes, WaitsRight
<1>2. s \in Seq(Threads) /\ \A i, j \in 1..Len(s) : s[i] = s[j] => i = j
  BY <1>1 DEF WaitqOK
<1>3. waitq'[o] = Tail(s) /\ \A r \in Objs \ {o} : waitq'[r] = waitq[r]
  BY <1>1
<1>4. /\ Head(s) \in Threads /\ \E i \in 1..Len(s) : s[i] = Head(s)
      /\ \A u : (\E i \in 1..Len(Tail(s)) : Tail(s)[i] = u) <=> (\E i \in 1..Len(s) : s[i] = u) /\ u # Head(s)
  BY <1>2, SeqTailMember
<1>5. InQueue(o, Head(s))
  BY <1>4 DEF InQueue
<1>6. waitq' \in [Objs -> Seq(Threads)]
  BY <1>1, <1>2
<1>0. s = waitq[o]
  OBVIOUS
<1> HIDE DEF s
<1>7. ASSUME NEW r \in Objs, NEW u \in Threads PROVE InQueue(r, u)' <=> InQueue(r, u) /\ u # Head(s)
  <2>1. CASE r = o
    <3>1. waitq[o] \in Seq(Threads) /\ waitq'[o] = Tail(waitq[o])
          /\ \A i, j \in 1..Len(waitq[o]) : waitq[o][i] = waitq[o][j] => i = j
      BY <1>0, <1>2, <1>3
    <3>2. Member(waitq'[o], u) <=> Member(waitq[o], u) /\ u # Head(waitq[o])
      BY <3>1, TailMember
    <3>3. InQueue(o, u)' <=> InQueue(o, u) /\ u # Head(waitq[o])
      BY <3>2 DEF InQueue, Member
    <3>4. \A x, y : x = y => (InQueue(x, u) <=> InQueue(y, u)) /\ (InQueue(x, u)' <=> InQueue(y, u)')
      OBVIOUS
    <3> QED BY <1>0, <2>1, <3>3, <3>4
  <2>2. CASE r # o
    <3>1. InQueue(r, u)' <=> InQueue(r, u)
      BY <1>3, <2>2 DEF InQueue
    <3>2. ~InQueue(r, Head(s))
      BY <1>5, <2>2, QueueMembers
    <3> QED BY <3>1, <3>2
  <2> QED BY <2>1, <2>2
<1>8. ASSUME UNCHANGED <<curthr, ut_state>> PROVE WaitqOK'
  <2>1. Distinct(Objs, waitq, OffLwps("UT_WAIT"))
    BY <1>1 DEF WaitqOK, Distinct, OffLwps
  <2>2. Distinct(Objs, waitq', OffLwps("UT_WAIT") \ {Head(s)})
    BY <1>0, <1>1, <2>1, DistinctTail
  <2>3. OffLwps("UT_WAIT") \ {Head(s)} \subseteq OffLwps("UT_WAIT")'
    BY <1>8 DEF OffLwps, OnNoLwp
  <2>4. Distinct(Objs, waitq', OffLwps("UT_WAIT")')
    BY <2>2, <2>3, DistinctWider
  <2> QED BY <2>4, PlacesDistinctNext
<1> QED BY <1>0, <1>4, <1>5, <1>6, <1>7, <1>8

\* A thread that waits nowhere is appended to a queue.
LEMMA QueueJoined ==
    ASSUME NEW o \in Objs, NEW t \in Threads, waitq \in [Objs -> Seq(Threads)], waitq' = [waitq EXCEPT ![o] = Append(@, t)]
    PROVE  /\ waitq' \in [Objs -> Seq(Threads)]
           /\ \A r \in Objs, u \in Threads : InQueue(r, u)' <=> InQueue(r, u) \/ (r = o /\ u = t)
<1> DEFINE s == waitq[o]
<1>1. /\ waitq'[o] = Append(s, t) /\ \A r \in Objs \ {o} : waitq'[r] = waitq[r]
      /\ waitq' \in [Objs -> Seq(Threads)] /\ s \in Seq(Threads)
  OBVIOUS
<1>2. /\ Len(Append(s, t)) = Len(s) + 1 /\ Append(s, t)[Len(s) + 1] = t
      /\ \A i \in 1..Len(s) : Append(s, t)[i] = s[i]
  BY <1>1, QueueAppends
<1>3. /\ Len(s) \in Nat
      /\ \A i \in 1..Len(Append(s, t)) : i \in 1..Len(s) \/ i = Len(s) + 1
      /\ \A i \in 1..Len(s) : i \in 1..Len(Append(s, t))
      /\ Len(s) + 1 \in 1..Len(Append(s, t))
  BY <1>1, <1>2
<1> HIDE DEF s
<1>4. \A u : (\E i \in 1..Len(Append(s, t)) : Append(s, t)[i] = u) <=> (\E i \in 1..Len(s) : s[i] = u) \/ u = t
  BY <1>2, <1>3
<1>5. ASSUME NEW r \in Objs, NEW u \in Threads PROVE InQueue(r, u)' <=> InQueue(r, u) \/ (r = o /\ u = t)
  <2>1. CASE r = o
    BY <1>1, <1>4, <2>1 DEF InQueue, s
  <2>2. CASE r # o
    BY <1>1, <2>2 DEF InQueue
  <2> QED BY <2>1, <2>2
<1> QED BY <1>1, <1>5

-----------------------------------------------------------------------------
(* A step that takes a sleeping thread from its queue, to wake it.         *)

LEMMA LifeEnds ==
    ASSUME NEW pq \in [Threads -> Points], NEW cd \in [Threads -> Contexts],
           \A u \in Threads : Private(u, pq[u], cd[u])', LifeTypeOK', RunqRight', WaitsRight(pq)', NewRight(pq)',
           HaltRight', Rights(pq, cd)'
    PROVE  LifeInv'
<1>1. LifeInvAt(pq, cd)'
  BY DEF LifeInvAt, Rights
<1> QED BY <1>1 DEF LifeInv

\* Thread t, on LWP l, is to wake the oldest thread of queue o.
Dequeues(pt, cx, pq, cd, l, t, o) ==
    /\ Situation(pt, cx) /\ l \in LWPs /\ Running(l, t)
    /\ \A u \in Threads \ {t} : pq[u] = pt[u] /\ cd[u] = cx[u] /\ Kept(u)
    /\ waitq[o] # <<>> /\ waitq' = [waitq EXCEPT ![o] = Tail(@)]
    /\ wakee[t] = NoThread /\ wakee'[t] = Head(waitq[o])
    /\ UNCHANGED <<curthr, lwp, ut_state, ut_prio, runq, tq_size, runq_mtx, newthr>>
    /\ UNCHANGED <<tgt, reap_queue, claimed, ut_detached>>
    /\ {pt[t], pq[t]} \cap {"alloc_claim", "startonrunq"} = {}

LEMMA DequeueFrame ==
    ASSUME NEW pt, NEW cx, NEW pq, NEW cd, NEW l, NEW t \in Threads, NEW o \in Objs,
           Dequeues(pt, cx, pq, cd, l, t, o)
    PROVE  /\ \A u \in Threads \ {t} : Private(u, pq[u], cd[u])'
           /\ RunqRight'
           /\ Carries(pt, cx, pq, cd, t)
           /\ NewRight(pq)'
<1>1. ASSUME NEW u \in Threads \ {t} PROVE Private(u, pq[u], cd[u])'
  <2>1. Private(u, pt[u], cx[u]) /\ Kept(u) /\ pq[u] = pt[u] /\ cd[u] = cx[u]
    BY DEF Dequeues, Situation, LifeInvAt
  <2>2. OnLwp(u)' <=> OnLwp(u)
    BY DEF Dequeues, OnLwp, Running
  <2> QED BY <2>1, <2>2, KeptPrivate
<1>2. RunqRight'
  BY DEF Dequeues, Situation, LifeInvAt, RunqRight, LwpOK, QueueCountsAgree, RunqOK, PrioOK, OnNoLwp,
         OnLwp, Running, Queued
<1>3. Carries(pt, cx, pq, cd, t)
  BY DEF Dequeues, Carries
<1>4. NewRight(pq)'
  <2>1. ut_state[t] \notin Unborn /\ \A u \in Threads \ {t} : pt[u] \in Resting /\ pq[u] = pt[u]
    BY OneRuns, OffLwpRests DEF Dequeues, Unborn
  <2>2. \A u \in Threads : {pt[u], pq[u]} \cap {"alloc_claim", "startonrunq"} = {}
    BY <2>1 DEF Dequeues, Resting
  <2>3. newthr' = newthr /\ ut_state' = ut_state
    BY DEF Dequeues
  <2> QED BY <1>3, <2>1, <2>2, <2>3, CarryNew
<1> QED BY <1>1, <1>2, <1>3, <1>4

LEMMA DequeueQueues ==
    ASSUME NEW pt, NEW cx, NEW pq, NEW cd, NEW l, NEW t \in Threads, NEW o \in Objs,
           Dequeues(pt, cx, pq, cd, l, t, o)
    PROVE  /\ wakee'[t] \in Threads \ {t} /\ InQueue(o, wakee'[t])
           /\ \A r \in Objs : InQueue(r, wakee'[t]) => r = o
           /\ ut_state[wakee'[t]] = "UT_WAIT" /\ ~OnLwp(wakee'[t])
           /\ \A v \in Threads : wakee[v] # wakee'[t]
           /\ \A r \in Objs, u \in Threads : InQueue(r, u)' <=> InQueue(r, u) /\ u # wakee'[t]
           /\ WaitqOK'
<1> DEFINE h == wakee'[t]
<1>0. h = Head(waitq[o]) /\ Situation(pt, cx) /\ Running(l, t) /\ l \in LWPs
  BY DEF Dequeues
<1>1. waitq[o] # <<>> /\ waitq' = [waitq EXCEPT ![o] = Tail(@)] /\ UNCHANGED <<curthr, ut_state>>
  BY DEF Dequeues
<1>2. /\ Head(waitq[o]) \in Threads /\ InQueue(o, Head(waitq[o])) /\ WaitqOK'
      /\ \A r \in Objs, u \in Threads : InQueue(r, u)' <=> InQueue(r, u) /\ u # Head(waitq[o])
  BY <1>0, <1>1, QueueTaken
<1> HIDE DEF h
<1>3. InQueue(o, h)
  <2>1. \A x, y : x = y /\ InQueue(o, y) => InQueue(o, x)
    OBVIOUS
  <2> QED BY <1>0, <1>2, <2>1
<1>4. /\ h \in Threads /\ ut_state[h] = "UT_WAIT" /\ ~OnLwp(h)
      /\ \A r \in Objs : InQueue(r, h) => r = o
      /\ \A v \in Threads : wakee[v] # h
  BY <1>0, <1>3, QueueMembers
<1>5. h # t
  BY <1>0, <1>4, OneRuns
<1> QED BY <1>0, <1>2, <1>3, <1>4, <1>5 DEF h

LEMMA DequeueWaits ==
    ASSUME NEW pt, NEW cx, NEW pq, NEW cd, NEW l, NEW t \in Threads, NEW o \in Objs,
           Dequeues(pt, cx, pq, cd, l, t, o)
    PROVE  WaitsRight(pq)'
<1>0. PICK h \in Threads : h = wakee'[t]
  BY DequeueQueues
<1>1. /\ h \in Threads \ {t} /\ InQueue(o, h) /\ \A r \in Objs : InQueue(r, h) => r = o
      /\ ut_state[h] = "UT_WAIT" /\ ~OnLwp(h) /\ \A v \in Threads : wakee[v] # h
      /\ \A r \in Objs, u \in Threads : InQueue(r, u)' <=> InQueue(r, u) /\ u # h
      /\ WaitqOK'
  BY <1>0, DequeueQueues
<1>2. /\ WaitsRight(pt) /\ UNCHANGED <<ut_state, curthr, tgt>> /\ wakee[t] = NoThread
      /\ \A u \in Threads \ {t} : pq[u] = pt[u] /\ wakee'[u] = wakee[u]
      /\ \A u \in Threads : wakee[u] \in Threads \cup {NoThread}
      /\ \A r \in Objs : ~InQueue(r, t)
  BY OneRuns DEF Dequeues, Kept, Situation, LifeInvAt, LifeTypeOK, SchedTypes
<1>3. \A u : OnLwp(u)' <=> OnLwp(u)
  BY <1>2 DEF OnLwp, Running
<1>4. \A u \in Threads :
          /\ InQueue(reap_mtx, u)' => pq[u] = "mtx_locked"
          /\ InQueue(reap_cond, u)' => pq[u] = "cond_relock"
          /\ \A v \in Threads : InQueue(v, u)' => pq[u] = "join_woken" /\ tgt'[u] = v
  BY <1>1, <1>2, LifeObjects DEF WaitsRight
<1>5. ASSUME NEW u \in Threads, wakee'[u] # NoThread
      PROVE  /\ ut_state'[wakee'[u]] = "UT_WAIT" /\ ~OnLwp(wakee[u])'
             /\ \A r \in Objs : ~InQueue(r, wakee[u])'
  <2>0. /\ wakee'[t] = h /\ \A x, y : x = y /\ ~OnLwp(y)' => ~OnLwp(x)'
        /\ \A r, x, y : x = y /\ ~InQueue(r, y)' => ~InQueue(r, x)'
    BY <1>0
  <2>1. CASE u = t
    <3>1. ut_state'[h] = "UT_WAIT" /\ ~OnLwp(h)' /\ \A r \in Objs : ~InQueue(r, h)'
      BY <1>1, <1>2, <1>3
    <3> QED BY <2>0, <2>1, <3>1
  <2>2. CASE u # t
    <3>1. wakee'[u] = wakee[u] /\ wakee[u] \in Threads
      BY <1>2, <1>5, <2>2
    <3>2. ut_state[wakee[u]] = "UT_WAIT" /\ ~OnLwp(wakee[u]) /\ \A r \in Objs : ~InQueue(r, wakee[u])
      BY <1>2, <1>5, <3>1 DEF WaitsRight
    <3>3. \A x \in Threads : (~OnLwp(x) => ~OnLwp(x)') /\ \A r \in Objs : ~InQueue(r, x) => ~InQueue(r, x)'
      BY <1>1, <1>3
    <3>4. PICK w \in Threads : w = wakee[u]
      BY <3>1
    <3>5. ~OnLwp(w) /\ \A r \in Objs : ~InQueue(r, w)
      BY <3>2, <3>4
    <3>6. ~OnLwp(w)' /\ \A r \in Objs : ~InQueue(r, w)'
      BY <3>3, <3>5
    <3> QED BY <1>2, <2>0, <3>1, <3>2, <3>4, <3>6
  <2> QED BY <2>1, <2>2
<1>6. ASSUME NEW u \in Threads, ut_state'[u] = "UT_WAIT", ~OnLwp(u)'
      PROVE  \/ \E r \in Objs : InQueue(r, u)'
             \/ \E v \in Threads : wakee'[v] = u
  <2>1. CASE u = h
    BY <1>0, <2>1
  <2>2. CASE u # h
    <3>1. \/ \E r \in Objs : InQueue(r, u)
          \/ \E v \in Threads : wakee[v] = u
      BY <1>2, <1>3, <1>6 DEF WaitsRight
    <3>2. \A v \in Threads : wakee[v] = u => v # t
      BY <1>2, LifeObjects
    <3> QED BY <1>1, <1>2, <2>2, <3>1, <3>2
  <2> QED BY <2>1, <2>2
<1> QED BY <1>1, <1>4, <1>5, <1>6 DEF WaitsRight

LEMMA DequeueMutex ==
    ASSUME NEW pt, NEW cx, NEW pq, NEW cd, NEW l, NEW t \in Threads, NEW o \in Objs \ {reap_mtx},
           Dequeues(pt, cx, pq, cd, l, t, o), m_owner' = m_owner,
           InSection(pq[t], cd[t]) <=> InSection(pt[t], cx[t]),
           {pt[t], pq[t]} \cap {"mtx_locked", "mtx_switch"} = {}
    PROVE  MutexRight(pq, cd)'
<1>1. /\ MutexRight(pt, cx) /\ waitq \in [Objs -> Seq(Threads)] /\ waitq' = [waitq EXCEPT ![o] = Tail(@)]
      /\ \A u \in Threads \ {t} : pq[u] = pt[u] /\ cd[u] = cx[u]
  BY DEF Dequeues, Situation, LifeInvAt, LifeTypeOK, SchedTypes
<1>2. waitq'[reap_mtx] = waitq[reap_mtx]
  BY <1>1, LifeObjects
<1>3. \A u \in Threads : InQueue(reap_mtx, u)' <=> InQueue(reap_mtx, u)
  BY <1>2 DEF InQueue
<1>4. \A u \in Threads : /\ InSection(pq[u], cd[u]) <=> InSection(pt[u], cx[u])
                         /\ pq[u] = "mtx_locked" <=> pt[u] = "mtx_locked"
                         /\ pq[u] = "mtx_switch" <=> pt[u] = "mtx_switch"
  BY <1>1
<1> QED BY <1>1, <1>2, <1>3, <1>4 DEF MutexRight

LEMMA DequeueJoins ==
    ASSUME NEW pt, NEW cx, NEW pq, NEW cd, NEW l, NEW t \in Threads, NEW o \in Objs \ Threads,
           Dequeues(pt, cx, pq, cd, l, t, o),
           Gone(pq[t], cd[t]) <=> Gone(pt[t], cx[t]), pq[t] \notin {"join_switch", "join_woken"}
    PROVE  JoinsRight(pq, cd)'
<1>0. PICK h \in Threads : h = wakee'[t]
  BY DequeueQueues
<1>1. /\ InQueue(o, h) /\ \A r \in Objs : InQueue(r, h) => r = o
      /\ \A r \in Objs, u \in Threads : InQueue(r, u)' <=> InQueue(r, u) /\ u # h
  BY <1>0, DequeueQueues
<1>2. /\ JoinsRight(pt, cx) /\ UNCHANGED <<tgt, ut_state>>
      /\ \A u \in Threads \ {t} : pq[u] = pt[u] /\ cd[u] = cx[u] /\ pt[u] \in Resting
  BY OneRuns, OffLwpRests DEF Dequeues, Situation, LifeInvAt
<1>3. \A v, u \in Threads : InQueue(v, u)' <=> InQueue(v, u)
  BY <1>1, LifeObjects
<1>4. \A u \in Threads : Gone(pq[u], cd[u]) <=> Gone(pt[u], cx[u])
  BY <1>2
<1>5. \A u \in Threads : pq[u] # "join_switch" /\ (pq[u] = "join_woken" => pt[u] = "join_woken" /\ tgt'[u] = tgt[u])
  BY <1>2 DEF Resting
<1>6. \A u \in Threads : pt[u] = "join_woken" => tgt[u] \in Threads
  BY DEF Dequeues, Situation, LifeInvAt, LifeTypeOK, Private, CallArgs, Has, JoinCode
<1>7. \A u, v \in Threads : InQueue(v, u)' => ~Gone(pq[v], cd[v])
  BY <1>2, <1>3, <1>4 DEF JoinsRight
<1>8. ASSUME NEW u \in Threads, pq[u] = "join_woken"
      PROVE  InQueue(tgt[u], u)' \/ Gone(pq[tgt'[u]], cd[tgt'[u]])
  <2>1. /\ tgt'[u] = tgt[u] /\ tgt[u] \in Threads
        /\ InQueue(tgt[u], u) \/ Gone(pt[tgt[u]], cx[tgt[u]])
    BY <1>2, <1>5, <1>6, <1>8 DEF JoinsRight
  <2>2. \A x, y : x = y /\ InQueue(x, u)' => InQueue(y, u)'
    OBVIOUS
  <2> QED BY <1>3, <1>4, <2>1, <2>2
<1> QED BY <1>5, <1>7, <1>8 DEF JoinsRight

LEMMA DequeueReaper ==
    ASSUME NEW pt, NEW cx, NEW pq, NEW cd, NEW l, NEW t \in Threads, NEW o \in Objs,
           Dequeues(pt, cx, pq, cd, l, t, o), halted' = halted,
           pt[t] # "reaper_scan",
           pt[t] = "cond_signal" => o = reap_cond,
           Settling(pq[t], cd[t]) => Settling(pt[t], cx[t])
    PROVE  ReaperRight(pq, cd)'
<1>0. PICK h \in Threads : h = wakee'[t]
  BY DequeueQueues
<1>1. /\ InQueue(o, h)
      /\ \A r \in Objs, u \in Threads : InQueue(r, u)' <=> InQueue(r, u) /\ u # h
  BY <1>0, DequeueQueues
<1>2. /\ ReaperRight(pt, cx) /\ UNCHANGED <<reap_queue, ut_state>> /\ Situation(pt, cx) /\ WaitsRight(pt)
      /\ \A u \in Threads \ {t} : pq[u] = pt[u] /\ cd[u] = cx[u] /\ pt[u] \in Resting
  BY OneRuns, OffLwpRests DEF Dequeues, Situation, LifeInvAt
<1>3. \A u \in Threads : Settling(pq[u], cd[u]) => Settling(pt[u], cx[u])
  BY <1>2
<1>4. \A u \in Threads : InQueue(reap_cond, u) => u = Reaper
  BY <1>2, WaitingContexts DEF WaitsRight
<1>5. ASSUME NEW u \in Threads, InQueue(reap_cond, u)'
      PROVE  reap_queue' = <<>> \/ \E v \in Threads : pq[v] = "cond_signal"
  <2>1. InQueue(reap_cond, u) /\ u # h
    BY <1>1, <1>5, LifeObjects
  <2>2. o # reap_cond
    BY <1>1, <1>4, <2>1
  <2>3. reap_queue = <<>> \/ \E v \in Threads : pt[v] = "cond_signal"
    BY <1>2, <2>1 DEF ReaperRight
  <2> QED BY <1>2, <2>2, <2>3 DEF Resting
<1>6. Reaper \in Threads /\ (pt[Reaper] = "reaper_scan" => pq[Reaper] = "reaper_scan")
  BY <1>2, LifeObjects
<1>7. \/ pq[Reaper] = "reaper_scan" \/ halted' = "exit"
      \/ \E u \in Threads \ {Reaper} : ut_state'[u] # "UT_NO_STATE"
  BY <1>2, <1>6 DEF ReaperRight
<1> QED BY <1>2, <1>3, <1>5, <1>7 DEF ReaperRight

\* At q in d thread t has locked the mutex of o, and what it had locked at p in c.
LocksMore(t, p, c, q, d, o) == \A x \in Objs : Locks(t, q, d, x) <=> Locks(t, p, c, x) \/ x = o

LEMMA CarryPmutsTaken ==
    ASSUME NEW pt, NEW cx, NEW pq, NEW cd, NEW t \in Threads, Carries(pt, cx, pq, cd, t),
           NEW l \in LWPs, NEW o \in Objs, pmut' = [pmut EXCEPT ![o] = l],
           LocksMore(t, pt[t], cx[t], pq[t], cd[t], o)
    PROVE  PmutsRight(pq, cd)'
<1>1. \A u \in Threads, x \in Objs : Locks(u, pq[u], cd[u], x)' <=> Locks(u, pq[u], cd[u], x)
  BY DEF Carries, Locks
<1>2. \A u \in Threads \ {t}, x \in Objs : Locks(u, pq[u], cd[u], x) <=> Locks(u, pt[u], cx[u], x)
  BY DEF Carries
<1>3. PmutsRight(pt, cx) /\ pmut \in [Objs -> LWPs \cup {NoLwp}] /\ l # NoLwp
  BY LifeObjects DEF Carries, Situation, LifeInvAt, LifeTypeOK, SchedTypes
<1>4. pmut'[o] = l /\ \A x \in Objs \ {o} : pmut'[x] = pmut[x]
  BY <1>3
<1> QED BY <1>1, <1>2, <1>3, <1>4 DEF PmutsRight, LocksMore

\* A thread has one joiner, who is found when it exits.
LEMMA SoleJoiner ==
    ASSUME NEW pt, NEW cx, NEW pq, NEW cd, NEW l, NEW t \in Threads,
           Dequeues(pt, cx, pq, cd, l, t, t),
           ~Gone(pt[t], cx[t]), Gone(pq[t], cd[t]), pq[t] \notin {"join_switch", "join_woken"}
    PROVE  JoinsRight(pq, cd)'
<1>0. PICK h \in Threads : h = wakee'[t]
  BY LifeObjects, DequeueQueues
<1>1. /\ InQueue(t, h) /\ t \in Objs
      /\ \A r \in Objs, u \in Threads : InQueue(r, u)' <=> InQueue(r, u) /\ u # h
  BY <1>0, DequeueQueues, LifeObjects
<1>2. /\ JoinsRight(pt, cx) /\ WaitsRight(pt) /\ Custody(pt, cx) /\ UNCHANGED <<tgt, ut_state>>
      /\ \A u \in Threads \ {t} : pq[u] = pt[u] /\ cd[u] = cx[u] /\ pt[u] \in Resting
  BY OneRuns, OffLwpRests DEF Dequeues, Situation, LifeInvAt
<1>3. \A u \in Threads : InQueue(t, u) => pt[u] = "join_woken" /\ tgt[u] = t /\ Has(pt[u], cx[u])
  BY <1>2 DEF WaitsRight, Has, JoinCode
<1>4. \A u \in Threads : InQueue(t, u) => u = h
  BY <1>1, <1>2, <1>3 DEF Custody
<1>5. \A u \in Threads \ {t} : Gone(pq[u], cd[u]) <=> Gone(pt[u], cx[u])
  BY <1>2
<1>6. \A u \in Threads : pq[u] # "join_switch" /\ (pq[u] = "join_woken" => pt[u] = "join_woken" /\ tgt'[u] = tgt[u])
  BY <1>2 DEF Resting
<1>7. \A u \in Threads : pt[u] = "join_woken" => tgt[u] \in Threads /\ tgt[u] \in Objs
  BY LifeObjects DEF Dequeues, Situation, LifeInvAt, LifeTypeOK, Private, CallArgs, Has, JoinCode
<1>8. \A u, v \in Threads : InQueue(v, u)' => ~Gone(pq[v], cd[v])
  BY <1>1, <1>2, <1>4, <1>5, LifeObjects DEF JoinsRight
<1>9. ASSUME NEW u \in Threads, pq[u] = "join_woken"
      PROVE  InQueue(tgt[u], u)' \/ Gone(pq[tgt'[u]], cd[tgt'[u]])
  <2>1. /\ tgt'[u] = tgt[u] /\ tgt[u] \in Threads /\ tgt[u] \in Objs
        /\ InQueue(tgt[u], u) \/ Gone(pt[tgt[u]], cx[tgt[u]])
    BY <1>2, <1>6, <1>7, <1>9 DEF JoinsRight
  <2>2. CASE tgt[u] = t
    BY <2>1, <2>2
  <2>3. CASE tgt[u] # t
    <3>1. u = h => tgt[u] = t
      BY <1>1, <1>3
    <3>2. \A x, y : x = y /\ InQueue(x, u)' => InQueue(y, u)'
      OBVIOUS
    <3> QED BY <1>1, <1>5, <2>1, <2>3, <3>1, <3>2
  <2> QED BY <2>2, <2>3
<1> QED BY <1>6, <1>8, <1>9 DEF JoinsRight

\* The mutex passes to the thread that was first to wait for it.
LEMMA MutexPassed ==
    ASSUME NEW pt, NEW cx, NEW pq, NEW cd, NEW l, NEW t \in Threads,
           Dequeues(pt, cx, pq, cd, l, t, reap_mtx), m_owner'[reap_mtx] = Head(waitq[reap_mtx]),
           InSection(pt[t], cx[t]), ~InSection(pq[t], cd[t]),
           {pt[t], pq[t]} \cap {"mtx_locked", "mtx_switch"} = {}
    PROVE  MutexRight(pq, cd)'
<1>0. PICK h \in Threads : h = wakee'[t]
  BY DequeueQueues, LifeObjects
<1>1. /\ InQueue(reap_mtx, h) /\ h # t /\ reap_mtx \in Objs /\ NoThread \notin Threads
      /\ \A r \in Objs, u \in Threads : InQueue(r, u)' <=> InQueue(r, u) /\ u # h
  BY <1>0, DequeueQueues, LifeObjects
<1>2. /\ MutexRight(pt, cx) /\ WaitsRight(pt) /\ m_owner'[reap_mtx] = h
      /\ \A u \in Threads \ {t} : pq[u] = pt[u] /\ cd[u] = cx[u] /\ pt[u] \in Resting
  BY <1>0, OneRuns, OffLwpRests DEF Dequeues, Situation, LifeInvAt
<1>3. pt[h] = "mtx_locked"
  BY <1>1, <1>2 DEF WaitsRight
<1>4. \A u \in Threads : ~InSection(pq[u], cd[u])
  BY <1>2 DEF MutexRight
<1>5. \A u \in Threads : pq[u] # "mtx_switch"
  BY <1>2 DEF Resting
<1>6. \A u \in Threads : pq[u] = "mtx_locked" => InQueue(reap_mtx, u)' \/ u = h
  BY <1>1, <1>2 DEF MutexRight
<1>7. ~InQueue(reap_mtx, h)'
  BY <1>1
<1> QED BY <1>1, <1>2, <1>3, <1>4, <1>5, <1>6, <1>7 DEF MutexRight

-----------------------------------------------------------------------------
(* The steps that take a sleeping thread from its queue.                   *)

\* uthread_exit, with a joiner.
LEMMA LifeExitWakes ==
    ASSUME NEW pt, NEW cx, Situation(pt, cx), NEW l \in LWPs, NEW t \in Threads, halted = "none",
           ExitLock(l, t), waitq[t] # <<>>
    PROVE  LifeInv'
<1>1. /\ Running(l, t) /\ stack[t] # <<>> /\ pt[t] = "exit_lock" /\ cx[t] = "exit"
      /\ ut_no_preempt_count[t] = 1 /\ Tail(stack[t]) = <<>> /\ tgt[t] = t
  <2>1. /\ Row(pt[t], cx[t], ut_no_preempt_count[t], "exit_lock", Tail(stack[t])) /\ stack[t] # <<>>
        /\ Running(l, t)
    BY AtPoint DEF ExitLock
  <2>2. /\ pt[t] = "exit_lock" /\ cx[t] = "exit" /\ ut_no_preempt_count[t] = 1 /\ Tail(stack[t]) = <<>>
    BY <2>1, RowsOfExits
  <2>3. tgt[t] = t
    BY <2>2 DEF Situation, LifeInvAt, Private, CallArgs
  <2> QED BY <2>1, <2>2, <2>3
<1>2. /\ Private(t, "exit_lock", "exit") /\ LifeTypeOK /\ ut_no_preempt_count[t] \in Nat
  BY <1>1 DEF Situation, LifeInvAt, LifeTypeOK, SchedTypes
<1>3. /\ stack' \in [Threads -> Seq(LifeNames)] /\ stack'[t] # <<>>
      /\ Head(stack'[t]) = "wake" /\ Tail(stack'[t]) = <<"exit_switch">>
      /\ \A u \in Threads \ {t} : stack'[u] = stack[u]
  <2>1. Continue(t, <<"wake", "exit_switch">>)
    BY <1>1, <1>2 DEF ExitLock, WakeJoiner
  <2>2. "wake" \in LifeNames /\ "exit_switch" \in LifeNames
    BY <1>1, NamesKnown
  <2>3. /\ stack' \in [Threads -> Seq(LifeNames)] /\ stack'[t] # <<>>
        /\ Head(stack'[t]) = "wake" /\ Tail(stack'[t]) = <<"exit_switch">> \o Tail(stack[t])
        /\ \A u \in Threads \ {t} : stack'[u] = stack[u]
    BY <1>1, <1>2, <2>1, <2>2, LifeContinue
  <2>4. <<"exit_switch">> \o <<>> = <<"exit_switch">>
    OBVIOUS
  <2>5. Tail(stack[t]) = <<>>
    BY <1>1
  <2> QED BY <2>3, <2>4, <2>5
<1>4. /\ ut_no_preempt_count' \in [Threads -> Nat] /\ ut_no_preempt_count'[t] = 2
      /\ \A u \in Threads \ {t} : ut_no_preempt_count'[u] = ut_no_preempt_count[u]
  <2>1. NopreemptOn(t)
    BY <1>1, <1>2 DEF ExitLock, WakeJoiner
  <2>2. ut_no_preempt_count[t] \in Nat
    BY <1>2, BaseNat
  <2> QED BY <1>1, <1>2, <2>1, <2>2 DEF NopreemptOn, LifeTypeOK, SchedTypes
<1>5. /\ pmut' \in [Objs -> LWPs \cup {NoLwp}] /\ pmut' = [pmut EXCEPT ![t] = l]
      /\ t \in Objs /\ pmut[t] = NoLwp
  <2>1. pmut' = [pmut EXCEPT ![t] = l] /\ pmut[t] = NoLwp
    BY <1>1, <1>2 DEF ExitLock, Takes
  <2>2. t \in Objs
    BY <1>1, <1>2, LifeObjects DEF LifeTypeOK, Objs
  <2> QED BY <1>2, <2>1, <2>2 DEF LifeTypeOK, SchedTypes
<1>6. /\ t \in Objs
      /\ waitq[t] # <<>> /\ waitq' = [waitq EXCEPT ![t] = Tail(@)]
      /\ wakee' = [wakee EXCEPT ![t] = Head(waitq[t])] /\ Head(waitq[t]) \in Threads
      /\ waitq' \in [Objs -> Seq(Threads)] /\ wakee' \in [Threads -> Threads \cup {NoThread}]
  <2>1. /\ t \in Objs /\ waitq[t] # <<>> /\ waitq' = [waitq EXCEPT ![t] = Tail(@)]
        /\ wakee' = [wakee EXCEPT ![t] = Head(waitq[t])]
    BY <1>1, <1>2, LifeObjects DEF ExitLock, WakeJoiner
  <2>2. Head(waitq[t]) \in Threads /\ waitq' \in [Objs -> Seq(Threads)]
    BY <2>1, QueueTaken
  <2>3. wakee \in [Threads -> Threads \cup {NoThread}]
    BY <1>2 DEF LifeTypeOK, SchedTypes
  <2> QED BY <2>1, <2>2, <2>3
<1>7. UNCHANGED <<curthr, lwp, ut_state, ut_prio, runq, tq_size, runq_mtx, swarg, sparg, newthr,
                  halted, m_owner, marg, carg, crit, ut_detached, reap_queue, tgt, claimed>>
  BY <1>1, <1>2 DEF ExitLock, WakeJoiner, cpuVars, thrVars, runqVars, waitVars, argVars, mtxVars,
                    lifeVars, SyncRest
<1>8. LifeTypeOK'
  BY <1>1, <1>2, <1>3, <1>4, <1>5, <1>6, <1>7 DEF LifeTypeOK, SchedTypes, LifeNames
<1>9. Private(t, "exit_wake", "exit")'
  <2>1. Is("exit_wake", "exit", ut_no_preempt_count[t], stack[t])'
    <3>1. ExitRow("exit_wake", "exit", 2, "wake", <<"exit_switch">>)
      BY <1>1 DEF ExitRow
    <3> QED BY <1>1, <1>3, <1>4, <3>1 DEF Is, Row
  <2>2. ModeOf("exit_wake", "exit", OnLwp(t), ut_state[t])'
    <3>1. ut_state[t] = StateOn(pt[t], cx[t])
      BY <1>1, OneRuns
    <3>2. ut_state'[t] = StateOn("exit_wake", "exit")
      BY <1>1, <1>2, <1>7, <3>1 DEF StateOn, Buriers, Lockers, Preemptible
    <3> QED BY <1>1, <1>7, <3>2, StaysOn
  <2>3. SwitchArgs(t, "exit_wake")' /\ LockArgs(t, "exit_wake", "exit")'
    BY <1>1, <1>2, <1>4, <1>5, <1>6, <1>7, LifeObjects DEF Private, SwitchArgs, LockArgs, InSection,
                                                           Settling, CondWaits, Sections, ReaperCode,
                                                           Unlocks, Preemptible, Buriers
  <2>4. CallArgs(t, "exit_wake", "exit")' /\ Roles(t, "exit_wake", "exit")'
    BY <1>1, <1>2, <1>4, <1>5, <1>6, <1>7, LifeObjects DEF Private, CallArgs, Roles, Allocates,
                                                           WakePoints, Has, Frees, Sections, Unlocks,
                                                           JoinCode, Buriers, Preemptible, Yields
  <2> QED BY <2>1, <2>2, <2>3, <2>4 DEF Private
<1>10. PICK pq \in [Threads -> Points], cd \in [Threads -> Contexts] :
          Moves(pt, pq, t, "exit_wake") /\ Moves(cx, cd, t, "exit")
  <2>1. "exit_wake" \in Points /\ "exit" \in Contexts
    BY <1>1, <1>2 DEF Points, Yields, Sections, Unlocks, ReaperCode, CondWaits, ExitCode, JoinCode, Locks, Frees, InSection, Buriers, Preemptible, Contexts, Lockers
  <2> QED BY <2>1, MovesExist DEF Situation
<1>11. /\ pq[t] = "exit_wake" /\ cd[t] = "exit" /\ Private(t, pq[t], cd[t])'
       /\ \A u \in Threads \ {t} : pq[u] = pt[u] /\ cd[u] = cx[u]
  BY <1>9, <1>10 DEF Moves
<1>12. Dequeues(pt, cx, pq, cd, l, t, t)
  <2>1. wakee[t] = NoThread
    BY <1>1, <1>2 DEF Private, CallArgs, WakePoints
  <2>2. wakee'[t] = Head(waitq[t]) /\ \A u \in Threads \ {t} : wakee'[u] = wakee[u]
    BY <1>2, <1>4, <1>5, <1>6, <1>7 DEF LifeTypeOK, SchedTypes
  <2>3. {pt[t], pq[t]} \cap {"alloc_claim", "startonrunq"} = {}
    BY <1>1, <1>11
  <2>4. \A u \in Threads \ {t} : pq[u] = pt[u] /\ cd[u] = cx[u] /\ Kept(u)
    BY <1>2, <1>3, <1>4, <1>5, <1>6, <1>7, <1>11, <2>2 DEF Kept
  <2> QED BY <1>1, <1>4, <1>5, <1>6, <1>7, <2>1, <2>2, <2>3, <2>4 DEF Dequeues
<1>13. /\ \A u \in Threads \ {t} : Private(u, pq[u], cd[u])'
       /\ RunqRight' /\ NewRight(pq)' /\ Carries(pt, cx, pq, cd, t) /\ WaitsRight(pq)'
  BY <1>4, <1>5, <1>6, <1>7, <1>12, DequeueFrame, DequeueWaits, LifeObjects
<1>14. Custody(pq, cd)' /\ Targets(pq, cd)' /\ CaredFor(pq, cd)'
  <2>1. SameRole(pt[t], cx[t], pq[t], cd[t])
    BY <1>1, <1>11 DEF SameRole, Has, Frees, Passed, Joins, HasDead, JoinCode, Sections, Unlocks, Buriers, Preemptible, Lockers
  <2> QED BY <1>13, <2>1, CarryCustody, CarryTargets, CarryCare
<1>15. PmutsRight(pq, cd)'
  <2>1. pmut' = [pmut EXCEPT ![t] = l]
    BY <1>4, <1>5, <1>6, <1>7
  <2>2. LocksMore(t, pt[t], cx[t], pq[t], cd[t], t)
    BY <1>1, <1>11 DEF LocksMore, Locks, Frees, Sections, Unlocks, Buriers
  <2>3. t \in Objs
    BY LifeObjects
  <2>4. Carries(pt, cx, pq, cd, t)
    BY <1>13
  <2> QED BY <2>1, <2>2, <2>3, <2>4, CarryPmutsTaken
<1>16. MutexRight(pq, cd)'
  <2>1. InSection(pq[t], cd[t]) <=> InSection(pt[t], cx[t])
    BY <1>1, <1>11 DEF InSection, Sections, ReaperCode, Buriers
  <2>2. {pt[t], pq[t]} \cap {"mtx_locked", "mtx_switch"} = {}
    BY <1>1, <1>11
  <2> QED BY <1>4, <1>5, <1>6, <1>7, <1>12, <2>1, <2>2, DequeueMutex, LifeObjects
<1>17. JoinsRight(pq, cd)'
  <2>1. ~Gone(pt[t], cx[t]) /\ Gone(pq[t], cd[t])
    BY <1>1, <1>11 DEF Gone
  <2>2. pq[t] \notin {"join_switch", "join_woken"}
    BY <1>11
  <2> QED BY <1>12, <2>1, <2>2, SoleJoiner
<1>18. ReaperRight(pq, cd)'
  <2>1. Settling(pq[t], cd[t]) => Settling(pt[t], cx[t])
    BY <1>1, <1>11 DEF Settling, Unlocks, Buriers
  <2>2. pt[t] # "reaper_scan" /\ (pt[t] = "cond_signal" => t = reap_cond)
    BY <1>1
  <2> QED BY <1>4, <1>5, <1>6, <1>7, <1>12, <2>1, <2>2, DequeueReaper, LifeObjects
<1>19. HaltRight'
  BY <1>1, <1>4, <1>5, <1>6, <1>7 DEF HaltRight
<1> QED BY <1>8, <1>10, <1>11, <1>13, <1>14, <1>15, <1>16, <1>17, <1>18, <1>19, LifeEnds DEF Rights

\* uthread_mtx_unlock, with a thread that waits.
LEMMA LifeMtxUnlockPass ==
    ASSUME NEW pt, NEW cx, Situation(pt, cx), NEW l \in LWPs, NEW t \in Threads, halted = "none",
           MtxUnlock(l, t), waitq[reap_mtx] # <<>>, UNCHANGED lifeVars
    PROVE  LifeInv'
<1> DEFINE c == cx[t]
<1>1. /\ Running(l, t) /\ stack[t] # <<>> /\ pt[t] = "mtx_unlock" /\ c \in Buriers \cup {"reaper_loop"}
      /\ ut_no_preempt_count[t] = Base(c) + 2 /\ Tail(stack[t]) = <<AfterUnlock(c)>> \o Below(c) /\ marg[t] = reap_mtx
  <2>1. /\ Row(pt[t], cx[t], ut_no_preempt_count[t], "mtx_unlock", Tail(stack[t])) /\ stack[t] # <<>>
        /\ Running(l, t)
    BY AtPoint DEF MtxUnlock
  <2>2. /\ pt[t] = "mtx_unlock" /\ c \in Buriers \cup {"reaper_loop"}
      /\ ut_no_preempt_count[t] = Base(c) + 2 /\ Tail(stack[t]) = <<AfterUnlock(c)>> \o Below(c)
    BY <2>1, RowsOfUnlocks
  <2>3. marg[t] = reap_mtx
    BY <2>2 DEF Situation, LifeInvAt, Private, LockArgs, CondWaits
  <2> QED BY <2>1, <2>2, <2>3
<1>2. /\ Private(t, "mtx_unlock", c) /\ LifeTypeOK /\ ut_no_preempt_count[t] \in Nat /\ c \in Contexts
  BY <1>1 DEF Situation, LifeInvAt, LifeTypeOK, SchedTypes
<1>3. /\ stack' \in [Threads -> Seq(LifeNames)] /\ stack'[t] # <<>>
      /\ Head(stack'[t]) = "wake" /\ Tail(stack'[t]) = <<"nopreempt_off">> \o (<<AfterUnlock(c)>> \o Below(c))
      /\ \A u \in Threads \ {t} : stack'[u] = stack[u]
  <2>1. Continue(t, <<"wake", "nopreempt_off">>)
    BY <1>1, <1>2 DEF MtxUnlock, PassOn
  <2>2. "wake" \in LifeNames /\ "nopreempt_off" \in LifeNames
    BY <1>1, NamesKnown
  <2> QED BY <1>1, <1>2, <2>1, <2>2, LifeContinue
<1>4. /\ ut_no_preempt_count' \in [Threads -> Nat] /\ ut_no_preempt_count'[t] = Base(c) + 3
      /\ \A u \in Threads \ {t} : ut_no_preempt_count'[u] = ut_no_preempt_count[u]
  <2>1. NopreemptOn(t)
    BY <1>1, <1>2 DEF MtxUnlock, PassOn
  <2>2. Base(c) \in Nat
    BY <1>2, BaseNat
  <2> QED BY <1>1, <1>2, <2>1, <2>2 DEF NopreemptOn, LifeTypeOK, SchedTypes
<1>5. /\ reap_mtx \in Objs
      /\ waitq[reap_mtx] # <<>> /\ waitq' = [waitq EXCEPT ![reap_mtx] = Tail(@)]
      /\ wakee' = [wakee EXCEPT ![t] = Head(waitq[reap_mtx])] /\ Head(waitq[reap_mtx]) \in Threads
      /\ waitq' \in [Objs -> Seq(Threads)] /\ wakee' \in [Threads -> Threads \cup {NoThread}]
  <2>1. /\ reap_mtx \in Objs /\ waitq[reap_mtx] # <<>> /\ waitq' = [waitq EXCEPT ![reap_mtx] = Tail(@)]
        /\ wakee' = [wakee EXCEPT ![t] = Head(waitq[reap_mtx])]
    BY <1>1, <1>2, LifeObjects DEF MtxUnlock, PassOn
  <2>2. Head(waitq[reap_mtx]) \in Threads /\ waitq' \in [Objs -> Seq(Threads)]
    BY <2>1, QueueTaken
  <2>3. wakee \in [Threads -> Threads \cup {NoThread}]
    BY <1>2 DEF LifeTypeOK, SchedTypes
  <2> QED BY <2>1, <2>2, <2>3
<1>6. /\ m_owner' \in [Mutexes -> Threads \cup {NoThread}] /\ m_owner'[reap_mtx] = Head(waitq[reap_mtx])
  <2>1. marg[t] = reap_mtx
    BY <1>1, <1>2 DEF Private, LockArgs
  <2> QED BY <1>1, <1>2, <1>5, <2>1, LifeObjects DEF MtxUnlock, PassOn, LifeTypeOK
<1>7. /\ crit' \in [Threads -> SUBSET Mutexes] /\ crit'[t] = {}
      /\ \A u \in Threads \ {t} : crit'[u] = crit[u]
  <2>1. marg[t] = reap_mtx /\ (crit[t] = {} \/ crit[t] = {reap_mtx})
    BY <1>1, <1>2 DEF Private, LockArgs
  <2> QED BY <1>1, <1>2, <2>1, LifeObjects DEF MtxUnlock, LifeTypeOK
<1>8. /\ marg' \in [Threads -> Mutexes \cup {NoObj}] /\ (carg[t] = reap_cond => marg'[t] = reap_mtx)
      /\ \A u \in Threads \ {t} : marg'[u] = marg[u]
  BY <1>1, <1>2, LifeObjects DEF MtxUnlock, LifeTypeOK
<1>9. UNCHANGED <<curthr, lwp, ut_state, ut_prio, runq, tq_size, runq_mtx, pmut, swarg, sparg, newthr,
                  halted, carg, ut_detached, reap_queue, tgt, claimed>>
  BY <1>1, <1>2 DEF MtxUnlock, PassOn, cpuVars, thrVars, runqVars, waitVars, argVars, mtxVars,
                    lifeVars, SyncRest
<1>10. LifeTypeOK'
  BY <1>1, <1>2, <1>3, <1>4, <1>5, <1>6, <1>7, <1>8, <1>9 DEF LifeTypeOK, SchedTypes, LifeNames
<1>11. Private(t, "unl_wake", c)'
  <2>1. Is("unl_wake", c, ut_no_preempt_count[t], stack[t])'
    <3>1. UnlockRow("unl_wake", c, Base(c) + 3, "wake", <<"nopreempt_off">> \o (<<AfterUnlock(c)>> \o Below(c)))
      BY <1>1 DEF UnlockRow
    <3>2. stack'[t] # <<>> /\ Head(stack'[t]) = "wake" /\ Tail(stack'[t]) = <<"nopreempt_off">> \o (<<AfterUnlock(c)>> \o Below(c))
      BY <1>3
    <3> QED BY <1>4, <3>1, <3>2 DEF Is, Row
  <2>2. ModeOf("unl_wake", c, OnLwp(t), ut_state[t])'
    <3>1. ut_state[t] = StateOn(pt[t], cx[t])
      BY <1>1, OneRuns
    <3>2. ut_state'[t] = StateOn("unl_wake", c)
      BY <1>1, <1>2, <1>9, <3>1 DEF StateOn, Buriers, Lockers, Preemptible
    <3> QED BY <1>1, <1>9, <3>2, StaysOn
  <2>3. SwitchArgs(t, "unl_wake")' /\ LockArgs(t, "unl_wake", c)'
    BY <1>1, <1>2, <1>4, <1>5, <1>6, <1>7, <1>8, <1>9, LifeObjects
       DEF Private, SwitchArgs,
                                                                              LockArgs, InSection,
                                                                              Settling, CondWaits,
                                                                              Sections, ReaperCode,
                                                                              Unlocks, Preemptible,
                                                                              Buriers
  <2>4. CallArgs(t, "unl_wake", c)' /\ Roles(t, "unl_wake", c)'
    BY <1>1, <1>2, <1>4, <1>5, <1>6, <1>7, <1>8, <1>9, LifeObjects
       DEF Private, CallArgs, Roles,
                                                                              Allocates, WakePoints,
                                                                              Has, Frees, Sections,
                                                                              Unlocks, JoinCode,
                                                                              Buriers, Preemptible,
                                                                              Yields
  <2> QED BY <2>1, <2>2, <2>3, <2>4 DEF Private
<1>12. PICK pq \in [Threads -> Points], cd \in [Threads -> Contexts] :
          Moves(pt, pq, t, "unl_wake") /\ Moves(cx, cd, t, c)
  <2>1. "unl_wake" \in Points /\ c \in Contexts
    BY <1>1, <1>2 DEF Points, Yields, Sections, Unlocks, ReaperCode, CondWaits, ExitCode, JoinCode, Locks, Frees, InSection, Buriers, Preemptible, Contexts, Lockers
  <2> QED BY <2>1, MovesExist DEF Situation
<1>13. /\ pq[t] = "unl_wake" /\ cd[t] = c /\ Private(t, pq[t], cd[t])'
       /\ \A u \in Threads \ {t} : pq[u] = pt[u] /\ cd[u] = cx[u]
  BY <1>11, <1>12 DEF Moves
<1>14. Dequeues(pt, cx, pq, cd, l, t, reap_mtx)
  <2>1. wakee[t] = NoThread
    BY <1>1, <1>2 DEF Private, CallArgs, WakePoints
  <2>2. wakee'[t] = Head(waitq[reap_mtx]) /\ \A u \in Threads \ {t} : wakee'[u] = wakee[u]
    BY <1>2, <1>4, <1>5, <1>6, <1>7, <1>8, <1>9 DEF LifeTypeOK, SchedTypes
  <2>3. {pt[t], pq[t]} \cap {"alloc_claim", "startonrunq"} = {}
    BY <1>1, <1>13
  <2>4. \A u \in Threads \ {t} : pq[u] = pt[u] /\ cd[u] = cx[u] /\ Kept(u)
    BY <1>2, <1>3, <1>4, <1>5, <1>6, <1>7, <1>8, <1>9, <1>13, <2>2 DEF Kept
  <2> QED BY <1>1, <1>4, <1>5, <1>6, <1>7, <1>8, <1>9, <2>1, <2>2, <2>3, <2>4 DEF Dequeues
<1>15. /\ \A u \in Threads \ {t} : Private(u, pq[u], cd[u])'
       /\ RunqRight' /\ NewRight(pq)' /\ Carries(pt, cx, pq, cd, t) /\ WaitsRight(pq)'
  BY <1>4, <1>5, <1>6, <1>7, <1>8, <1>9, <1>14, DequeueFrame, DequeueWaits, LifeObjects
<1>16. Custody(pq, cd)' /\ Targets(pq, cd)' /\ CaredFor(pq, cd)'
  <2>1. SameRole(pt[t], cx[t], pq[t], cd[t])
    BY <1>1, <1>13 DEF SameRole, Has, Frees, Passed, Joins, HasDead, JoinCode, Sections, Unlocks, Buriers, Preemptible, Lockers
  <2> QED BY <1>15, <2>1, CarryCustody, CarryTargets, CarryCare
<1>17. PmutsRight(pq, cd)'
  <2>1. UNCHANGED pmut
    BY <1>4, <1>5, <1>6, <1>7, <1>8, <1>9
  <2>2. \A x \in Objs : Locks(t, pq[t], cd[t], x) <=> Locks(t, pt[t], cx[t], x)
    BY <1>1, <1>13 DEF Locks, Frees, Sections, Unlocks, Buriers
  <2> QED BY <1>15, <2>1, <2>2, CarryPmuts
<1>18. MutexRight(pq, cd)'
  <2>1. InSection(pt[t], cx[t]) /\ ~InSection(pq[t], cd[t])
    BY <1>1, <1>13 DEF InSection, Sections, ReaperCode, Buriers
  <2>2. {pt[t], pq[t]} \cap {"mtx_locked", "mtx_switch"} = {}
    BY <1>1, <1>13
  <2> QED BY <1>4, <1>5, <1>6, <1>7, <1>8, <1>9, <1>14, <2>1, <2>2, MutexPassed
<1>19. JoinsRight(pq, cd)'
  <2>1. Gone(pq[t], cd[t]) <=> Gone(pt[t], cx[t])
    BY <1>1, <1>13 DEF Gone, Buriers
  <2>2. pq[t] \notin {"join_switch", "join_woken"}
    BY <1>13
  <2> QED BY <1>14, <2>1, <2>2, DequeueJoins, LifeObjects
<1>20. ReaperRight(pq, cd)'
  <2>1. Settling(pq[t], cd[t]) => Settling(pt[t], cx[t])
    BY <1>1, <1>13 DEF Settling, Unlocks, Buriers
  <2>2. pt[t] # "reaper_scan" /\ (pt[t] = "cond_signal" => reap_mtx = reap_cond)
    BY <1>1
  <2> QED BY <1>4, <1>5, <1>6, <1>7, <1>8, <1>9, <1>14, <2>1, <2>2, DequeueReaper, LifeObjects
<1>21. HaltRight'
  BY <1>1, <1>4, <1>5, <1>6, <1>7, <1>8, <1>9 DEF HaltRight
<1> QED BY <1>10, <1>12, <1>13, <1>15, <1>16, <1>17, <1>18, <1>19, <1>20, <1>21, LifeEnds DEF Rights

\* uthread_cond_signal, with the reaper waiting.
LEMMA LifeCondSignalSome ==
    ASSUME NEW pt, NEW cx, Situation(pt, cx), NEW l \in LWPs, NEW t \in Threads, halted = "none",
           CondSignal(l, t), waitq[reap_cond] # <<>>, UNCHANGED lifeVars
    PROVE  LifeInv'
<1> DEFINE c == cx[t]
<1>1. /\ Running(l, t) /\ stack[t] # <<>> /\ pt[t] = "cond_signal" /\ c \in Buriers
      /\ ut_no_preempt_count[t] = Base(c) + 2 /\ Tail(stack[t]) = <<"reap_unlock">> \o Below(c) /\ carg[t] = reap_cond
  <2>1. /\ Row(pt[t], cx[t], ut_no_preempt_count[t], "cond_signal", Tail(stack[t])) /\ stack[t] # <<>>
        /\ Running(l, t)
    BY AtPoint DEF CondSignal
  <2>2. /\ pt[t] = "cond_signal" /\ c \in Buriers
      /\ ut_no_preempt_count[t] = Base(c) + 2 /\ Tail(stack[t]) = <<"reap_unlock">> \o Below(c)
    BY <2>1, RowsOfSignals
  <2>3. carg[t] = reap_cond
    BY <2>2 DEF Situation, LifeInvAt, Private, LockArgs, CondWaits
  <2> QED BY <2>1, <2>2, <2>3
<1>2. /\ Private(t, "cond_signal", c) /\ LifeTypeOK /\ ut_no_preempt_count[t] \in Nat /\ c \in Contexts
  BY <1>1 DEF Situation, LifeInvAt, LifeTypeOK, SchedTypes
<1>3. /\ stack' \in [Threads -> Seq(LifeNames)] /\ stack'[t] # <<>>
      /\ Head(stack'[t]) = "wake" /\ Tail(stack'[t]) = <<"nopreempt_off">> \o (<<"reap_unlock">> \o Below(c))
      /\ \A u \in Threads \ {t} : stack'[u] = stack[u]
  <2>1. Continue(t, <<"wake", "nopreempt_off">>)
    BY <1>1, <1>2 DEF CondSignal, WakeOldest
  <2>2. "wake" \in LifeNames /\ "nopreempt_off" \in LifeNames
    BY <1>1, NamesKnown
  <2> QED BY <1>1, <1>2, <2>1, <2>2, LifeContinue
<1>4. /\ ut_no_preempt_count' \in [Threads -> Nat] /\ ut_no_preempt_count'[t] = Base(c) + 3
      /\ \A u \in Threads \ {t} : ut_no_preempt_count'[u] = ut_no_preempt_count[u]
  <2>1. NopreemptOn(t)
    BY <1>1, <1>2 DEF CondSignal, WakeOldest
  <2>2. Base(c) \in Nat
    BY <1>2, BaseNat
  <2> QED BY <1>1, <1>2, <2>1, <2>2 DEF NopreemptOn, LifeTypeOK, SchedTypes
<1>5. /\ reap_cond \in Objs
      /\ waitq[reap_cond] # <<>> /\ waitq' = [waitq EXCEPT ![reap_cond] = Tail(@)]
      /\ wakee' = [wakee EXCEPT ![t] = Head(waitq[reap_cond])] /\ Head(waitq[reap_cond]) \in Threads
      /\ waitq' \in [Objs -> Seq(Threads)] /\ wakee' \in [Threads -> Threads \cup {NoThread}]
  <2>1. /\ reap_cond \in Objs /\ waitq[reap_cond] # <<>> /\ waitq' = [waitq EXCEPT ![reap_cond] = Tail(@)]
        /\ wakee' = [wakee EXCEPT ![t] = Head(waitq[reap_cond])]
    BY <1>1, <1>2, LifeObjects DEF CondSignal, WakeOldest
  <2>2. Head(waitq[reap_cond]) \in Threads /\ waitq' \in [Objs -> Seq(Threads)]
    BY <2>1, QueueTaken
  <2>3. wakee \in [Threads -> Threads \cup {NoThread}]
    BY <1>2 DEF LifeTypeOK, SchedTypes
  <2> QED BY <2>1, <2>2, <2>3
<1>6. /\ carg' \in [Threads -> Conds \cup {NoObj}] /\ \A u \in Threads \ {t} : carg'[u] = carg[u]
  BY <1>1, <1>2 DEF CondSignal, WakeOldest, LifeTypeOK
<1>7. UNCHANGED <<curthr, lwp, ut_state, ut_prio, runq, tq_size, runq_mtx, pmut, swarg, sparg, newthr,
                  halted, m_owner, marg, crit, ut_detached, reap_queue, tgt, claimed>>
  BY <1>1, <1>2 DEF CondSignal, WakeOldest, cpuVars, thrVars, runqVars, waitVars, argVars, mtxVars,
                    lifeVars, SyncRest
<1>8. LifeTypeOK'
  BY <1>1, <1>2, <1>3, <1>4, <1>5, <1>6, <1>7 DEF LifeTypeOK, SchedTypes, LifeNames
<1>9. Private(t, "sig_wake", c)'
  <2>1. Is("sig_wake", c, ut_no_preempt_count[t], stack[t])'
    <3>1. BurialRow("sig_wake", c, Base(c) + 3, "wake", <<"nopreempt_off">> \o (<<"reap_unlock">> \o Below(c)))
      BY <1>1 DEF BurialRow
    <3>2. stack'[t] # <<>> /\ Head(stack'[t]) = "wake" /\ Tail(stack'[t]) = <<"nopreempt_off">> \o (<<"reap_unlock">> \o Below(c))
      BY <1>3
    <3> QED BY <1>4, <3>1, <3>2 DEF Is, Row
  <2>2. ModeOf("sig_wake", c, OnLwp(t), ut_state[t])'
    <3>1. ut_state[t] = StateOn(pt[t], cx[t])
      BY <1>1, OneRuns
    <3>2. ut_state'[t] = StateOn("sig_wake", c)
      BY <1>1, <1>2, <1>7, <3>1 DEF StateOn, Buriers, Lockers, Preemptible
    <3> QED BY <1>1, <1>7, <3>2, StaysOn
  <2>3. SwitchArgs(t, "sig_wake")' /\ LockArgs(t, "sig_wake", c)'
    BY <1>1, <1>2, <1>4, <1>5, <1>6, <1>7, LifeObjects DEF Private, SwitchArgs, LockArgs, InSection,
                                                           Settling, CondWaits, Sections, ReaperCode,
                                                           Unlocks, Preemptible, Buriers
  <2>4. CallArgs(t, "sig_wake", c)' /\ Roles(t, "sig_wake", c)'
    BY <1>1, <1>2, <1>4, <1>5, <1>6, <1>7, LifeObjects DEF Private, CallArgs, Roles, Allocates,
                                                           WakePoints, Has, Frees, Sections, Unlocks,
                                                           JoinCode, Buriers, Preemptible, Yields
  <2> QED BY <2>1, <2>2, <2>3, <2>4 DEF Private
<1>10. PICK pq \in [Threads -> Points], cd \in [Threads -> Contexts] :
          Moves(pt, pq, t, "sig_wake") /\ Moves(cx, cd, t, c)
  <2>1. "sig_wake" \in Points /\ c \in Contexts
    BY <1>1, <1>2 DEF Points, Yields, Sections, Unlocks, ReaperCode, CondWaits, ExitCode, JoinCode, Locks, Frees, InSection, Buriers, Preemptible, Contexts, Lockers
  <2> QED BY <2>1, MovesExist DEF Situation
<1>11. /\ pq[t] = "sig_wake" /\ cd[t] = c /\ Private(t, pq[t], cd[t])'
       /\ \A u \in Threads \ {t} : pq[u] = pt[u] /\ cd[u] = cx[u]
  BY <1>9, <1>10 DEF Moves
<1>12. Dequeues(pt, cx, pq, cd, l, t, reap_cond)
  <2>1. wakee[t] = NoThread
    BY <1>1, <1>2 DEF Private, CallArgs, WakePoints
  <2>2. wakee'[t] = Head(waitq[reap_cond]) /\ \A u \in Threads \ {t} : wakee'[u] = wakee[u]
    BY <1>2, <1>4, <1>5, <1>6, <1>7 DEF LifeTypeOK, SchedTypes
  <2>3. {pt[t], pq[t]} \cap {"alloc_claim", "startonrunq"} = {}
    BY <1>1, <1>11
  <2>4. \A u \in Threads \ {t} : pq[u] = pt[u] /\ cd[u] = cx[u] /\ Kept(u)
    BY <1>2, <1>3, <1>4, <1>5, <1>6, <1>7, <1>11, <2>2 DEF Kept
  <2> QED BY <1>1, <1>4, <1>5, <1>6, <1>7, <2>1, <2>2, <2>3, <2>4 DEF Dequeues
<1>13. /\ \A u \in Threads \ {t} : Private(u, pq[u], cd[u])'
       /\ RunqRight' /\ NewRight(pq)' /\ Carries(pt, cx, pq, cd, t) /\ WaitsRight(pq)'
  BY <1>4, <1>5, <1>6, <1>7, <1>12, DequeueFrame, DequeueWaits, LifeObjects
<1>14. Custody(pq, cd)' /\ Targets(pq, cd)' /\ CaredFor(pq, cd)'
  <2>1. SameRole(pt[t], cx[t], pq[t], cd[t])
    BY <1>1, <1>11 DEF SameRole, Has, Frees, Passed, Joins, HasDead, JoinCode, Sections, Unlocks, Buriers, Preemptible, Lockers
  <2> QED BY <1>13, <2>1, CarryCustody, CarryTargets, CarryCare
<1>15. PmutsRight(pq, cd)'
  <2>1. UNCHANGED pmut
    BY <1>4, <1>5, <1>6, <1>7
  <2>2. \A x \in Objs : Locks(t, pq[t], cd[t], x) <=> Locks(t, pt[t], cx[t], x)
    BY <1>1, <1>11 DEF Locks, Frees, Sections, Unlocks, Buriers
  <2> QED BY <1>13, <2>1, <2>2, CarryPmuts
<1>16. MutexRight(pq, cd)'
  <2>1. InSection(pq[t], cd[t]) <=> InSection(pt[t], cx[t])
    BY <1>1, <1>11 DEF InSection, Sections, ReaperCode, Buriers
  <2>2. {pt[t], pq[t]} \cap {"mtx_locked", "mtx_switch"} = {}
    BY <1>1, <1>11
  <2> QED BY <1>4, <1>5, <1>6, <1>7, <1>12, <2>1, <2>2, DequeueMutex, LifeObjects
<1>17. JoinsRight(pq, cd)'
  <2>1. Gone(pq[t], cd[t]) <=> Gone(pt[t], cx[t])
    BY <1>1, <1>11 DEF Gone, Buriers
  <2>2. pq[t] \notin {"join_switch", "join_woken"}
    BY <1>11
  <2> QED BY <1>12, <2>1, <2>2, DequeueJoins, LifeObjects
<1>18. ReaperRight(pq, cd)'
  <2>1. Settling(pq[t], cd[t]) => Settling(pt[t], cx[t])
    BY <1>1, <1>11 DEF Settling, Unlocks, Buriers
  <2>2. pt[t] # "reaper_scan" /\ (pt[t] = "cond_signal" => reap_cond = reap_cond)
    BY <1>1
  <2> QED BY <1>4, <1>5, <1>6, <1>7, <1>12, <2>1, <2>2, DequeueReaper, LifeObjects
<1>19. HaltRight'
  BY <1>1, <1>4, <1>5, <1>6, <1>7 DEF HaltRight
<1> QED BY <1>8, <1>10, <1>11, <1>13, <1>14, <1>15, <1>16, <1>17, <1>18, <1>19, LifeEnds DEF Rights

-----------------------------------------------------------------------------
(* The run queues.                                                         *)

OnRunq(rq, u) == \E p \in Prios : Contains(rq[p], u)

LEMMA EnqueueCounts ==
    ASSUME NEW p \in Prios, NEW u \in Threads, NEW rq \in [Prios -> Seq(Threads)], NEW sz \in [Prios -> Int],
           \A q \in Prios : sz[q] = Len(rq[q]), NEW q \in Prios
    PROVE  SizeUp(sz, p)[q] = Len(Enqueued(rq, p, u)[q])
<1>1. rq[p] \in Seq(Threads)
  OBVIOUS
<1>2. Len(Append(rq[p], u)) = Len(rq[p]) + 1
  BY <1>1, QueueAppends
<1> QED BY <1>2 DEF Enqueued, SizeUp

LEMMA EnqueueQueue ==
    ASSUME NEW p \in Prios, NEW u \in Threads, NEW rq \in [Prios -> Seq(Threads)], NEW sz \in [Prios -> Int]
    PROVE  /\ Enqueued(rq, p, u) \in [Prios -> Seq(Threads)] /\ SizeUp(sz, p) \in [Prios -> Int]
           /\ \A v : OnRunq(rq, v) \/ v = u => OnRunq(Enqueued(rq, p, u), v)
<1> DEFINE s == rq[p]
           f == Enqueued(rq, p, u)
<1>1. f \in [Prios -> Seq(Threads)] /\ SizeUp(sz, p) \in [Prios -> Int]
  BY EnqueuedType
<1>2. s \in Seq(Threads) /\ f[p] = Append(s, u) /\ \A q \in Prios \ {p} : f[q] = rq[q]
  BY DEF Enqueued
<1>3. /\ Len(Append(s, u)) = Len(s) + 1 /\ Len(s) \in Nat /\ Append(s, u)[Len(s) + 1] = u
      /\ \A i \in 1..Len(s) : Append(s, u)[i] = s[i] /\ i \in 1..Len(Append(s, u))
      /\ Len(s) + 1 \in 1..Len(Append(s, u))
  BY <1>2, QueueAppends
<1> HIDE DEF f
<1>5. ASSUME NEW v, OnRunq(rq, v) \/ v = u PROVE OnRunq(f, v)
  <2>1. CASE v = u
    BY <1>2, <1>3, <2>1 DEF OnRunq, Contains
  <2>2. CASE OnRunq(rq, v)
    <3>1. PICK q \in Prios : Contains(rq[q], v)
      BY <2>2 DEF OnRunq
    <3>2. CASE q = p
      BY <1>2, <1>3, <3>1, <3>2 DEF OnRunq, Contains
    <3>3. CASE q # p
      BY <1>2, <3>1, <3>3 DEF OnRunq
    <3> QED BY <3>2, <3>3
  <2> QED BY <1>5, <2>1, <2>2
<1> QED BY <1>1, <1>5 DEF f

\* The queues and the thread u that is appended to one of them.
LEMMA EnqueueDistinct ==
    ASSUME NEW pt, NEW cx, Situation(pt, cx), NEW p \in Prios, NEW u \in Threads,
           OnLwp(u) \/ ut_state[u] # "UT_RUNNABLE"
    PROVE  Distinct(Prios, Enqueued(runq, p, u), OffLwps("UT_RUNNABLE") \cup {u})
<1>1. RunqOK /\ runq \in [Prios -> Seq(Threads)]
  BY DEF Situation, LifeInvAt, RunqRight, LifeTypeOK, SchedTypes
<1>2. Distinct(Prios, runq, OffLwps("UT_RUNNABLE"))
  BY <1>1 DEF RunqOK, Distinct, OffLwps
<1>3. \A q \in Prios : \A i \in 1..Len(runq[q]) : runq[q][i] # u
  BY <1>1 DEF RunqOK, OnNoLwp, OnLwp, Running
<1> QED BY <1>1, <1>2, <1>3, DistinctAppend DEF Enqueued

-----------------------------------------------------------------------------
(* A step that makes a thread runnable.                                    *)

\* What a thread keeps to itself, but for its state.
KeptArgs(u) ==
    /\ ut_no_preempt_count'[u] = ut_no_preempt_count[u]
    /\ stack'[u] = stack[u] /\ swarg'[u] = swarg[u] /\ wakee'[u] = wakee[u]
    /\ newthr'[u] = newthr[u] /\ tgt'[u] = tgt[u]
    /\ marg'[u] = marg[u] /\ carg'[u] = carg[u] /\ crit'[u] = crit[u]

\* Thread t, on LWP l, puts u at the end of the run queue of priority prio.
Enqueues(pt, cx, pq, cd, l, t, u, prio) ==
    /\ Situation(pt, cx) /\ l \in LWPs /\ Running(l, t) /\ u \in Threads \ {t} /\ prio \in Prios
    /\ ut_state[u] \in {"UT_WAIT", "UT_TRANSITION"} /\ (u \in claimed => ut_state[u] = "UT_WAIT")
    /\ ~OnLwp(u) /\ pt[u] \in {"off"} \cup Woken /\ \A o \in Objs : ~InQueue(o, u)
    /\ ut_state'[u] = "UT_RUNNABLE" /\ ut_prio'[u] = prio
    /\ \A v \in Threads \ {u} : ut_state'[v] = ut_state[v] /\ ut_prio'[v] = ut_prio[v]
    /\ runq' = Enqueued(runq, prio, u) /\ tq_size' = SizeUp(tq_size, prio) /\ runq_mtx' = NoLwp
    /\ lwp' \in Released(runq, lwp)
    /\ \A v \in Threads \ {t} : pq[v] = pt[v] /\ cd[v] = cx[v] /\ KeptArgs(v)
    /\ wakee'[t] = NoThread /\ wakee[t] \in {u, NoThread}
    /\ UNCHANGED <<curthr, waitq, pmut, m_owner, tgt, reap_queue, claimed, ut_detached, halted>>

LEMMA EnqueueRunq ==
    ASSUME NEW pt, NEW cx, NEW pq, NEW cd, NEW l, NEW t \in Threads, NEW u, NEW prio,
           Enqueues(pt, cx, pq, cd, l, t, u, prio)
    PROVE  RunqRight'
<1>1. /\ u \in Threads /\ prio \in Prios /\ Situation(pt, cx) /\ RunqRight /\ ~OnLwp(u)
      /\ runq \in [Prios -> Seq(Threads)] /\ tq_size \in [Prios -> Int]
      /\ lwp \in [LWPs -> {"unborn", "running", "parked", "signalled"}]
      /\ curthr \in [LWPs -> Threads \cup {NoThread}]
      /\ runq' = Enqueued(runq, prio, u) /\ tq_size' = SizeUp(tq_size, prio) /\ runq_mtx' = NoLwp
      /\ lwp' \in Released(runq, lwp) /\ curthr' = curthr
      /\ ut_state[u] # "UT_RUNNABLE" /\ ut_state'[u] = "UT_RUNNABLE" /\ ut_prio'[u] = prio
      /\ \A v \in Threads \ {u} : ut_state'[v] = ut_state[v] /\ ut_prio'[v] = ut_prio[v]
  BY DEF Enqueues, Situation, LifeInvAt, LifeTypeOK, SchedTypes
<1>2. LwpOK'
  <2>1. ASSUME NEW k \in LWPs, curthr'[k] # NoThread PROVE lwp'[k] = "running"
    <3>1. lwp[k] = "running"
      BY <1>1, <2>1 DEF RunqRight, LwpOK
    <3> QED BY <1>1, <3>1, ReleaseKeeps
  <2> QED BY <2>1 DEF LwpOK
<1>3. QueueCountsAgree'
  <2>1. \A q \in Prios : tq_size[q] = Len(runq[q])
    BY <1>1 DEF RunqRight, QueueCountsAgree
  <2>2. \A q \in Prios : SizeUp(tq_size, prio)[q] = Len(Enqueued(runq, prio, u)[q])
    BY <1>1, <2>1, EnqueueCounts
  <2> QED BY <1>1, <2>2 DEF QueueCountsAgree
<1>4. RunqOK'
  <2>1. Distinct(Prios, runq', OffLwps("UT_RUNNABLE") \cup {u})
    BY <1>1, EnqueueDistinct
  <2>2. OffLwps("UT_RUNNABLE") \cup {u} \subseteq OffLwps("UT_RUNNABLE")'
    BY <1>1 DEF OffLwps, OnNoLwp, OnLwp, Running
  <2>3. Distinct(Prios, runq', OffLwps("UT_RUNNABLE")')
    BY <2>1, <2>2, DistinctWider
  <2> QED BY <2>3, PlacesDistinctNext
<1>5. PrioOK'
  BY <1>1 DEF RunqRight, PrioOK
<1>6. ASSUME NEW v \in Threads, ut_state'[v] = "UT_RUNNABLE", ~OnLwp(v)' PROVE Queued(v)'
  <2>1. ~OnLwp(v)
    BY <1>1, <1>6 DEF OnLwp, Running
  <2>2. OnRunq(runq, v) \/ v = u
    BY <1>1, <1>6, <2>1 DEF RunqRight, Queued, OnRunq
  <2>3. OnRunq(runq', v)
    BY <1>1, <2>2, EnqueueQueue
  <2> QED BY <2>3 DEF Queued, OnRunq
<1> QED BY <1>1, <1>2, <1>3, <1>4, <1>5, <1>6 DEF RunqRight

LEMMA EnqueueFrame ==
    ASSUME NEW pt, NEW cx, NEW pq, NEW cd, NEW l, NEW t \in Threads, NEW u, NEW prio,
           Enqueues(pt, cx, pq, cd, l, t, u, prio)
    PROVE  /\ \A v \in Threads \ {t} : Private(v, pq[v], cd[v])'
           /\ Carries(pt, cx, pq, cd, t)
<1>1. ASSUME NEW v \in Threads \ {t} PROVE Private(v, pq[v], cd[v])'
  <2>1. Private(v, pt[v], cx[v]) /\ KeptArgs(v) /\ pq[v] = pt[v] /\ cd[v] = cx[v]
    BY DEF Enqueues, Situation, LifeInvAt
  <2>2. OnLwp(v)' <=> OnLwp(v)
    BY DEF Enqueues, OnLwp, Running
  <2>3. CASE v # u
    <3>1. ut_state'[v] = ut_state[v]
      BY <2>3 DEF Enqueues
    <3> QED BY <2>1, <2>2, <3>1, KeptPrivate DEF Kept, KeptArgs
  <2>4. CASE v = u
    <3>1. Is(pt[v], cx[v], ut_no_preempt_count[v], stack[v])'
      BY <2>1 DEF Private, KeptArgs
    <3>2. ModeOf(pt[v], cx[v], OnLwp(v), ut_state[v])'
      BY <2>2, <2>4 DEF Enqueues, ModeOf, StateOff
    <3>3. SwitchArgs(v, pt[v])' /\ LockArgs(v, pt[v], cx[v])'
      BY <2>1 DEF Private, KeptArgs, SwitchArgs, LockArgs
    <3>4. CallArgs(v, pt[v], cx[v])' /\ Roles(v, pt[v], cx[v])'
      BY <2>1 DEF Private, KeptArgs, CallArgs, Roles
    <3> QED BY <2>1, <3>1, <3>2, <3>3, <3>4 DEF Private
  <2> QED BY <2>3, <2>4
<1>2. Carries(pt, cx, pq, cd, t)
  <2>1. /\ Situation(pt, cx) /\ UNCHANGED <<tgt, reap_queue, claimed, ut_detached>>
        /\ \A v \in Threads \ {t} : pq[v] = pt[v] /\ cd[v] = cx[v]
    BY DEF Enqueues
  <2>2. /\ claimed \subseteq Threads /\ ut_state'[u] = "UT_RUNNABLE" /\ (u \in claimed => ut_state[u] = "UT_WAIT")
        /\ \A v \in Threads \ {u} : ut_state'[v] = ut_state[v]
    BY DEF Enqueues, Situation, LifeInvAt, LifeTypeOK
  <2>3. \A v \in Threads : ut_state'[v] \in Unborn => ut_state[v] \in Unborn
    BY <2>2 DEF Unborn
  <2>4. \A v \in claimed : ut_state[v] \in Unborn => ut_state'[v] \in Unborn
    BY <2>2 DEF Unborn
  <2> QED BY <2>1, <2>3, <2>4 DEF Carries
<1> QED BY <1>1, <1>2

LEMMA EnqueueWaits ==
    ASSUME NEW pt, NEW cx, NEW pq, NEW cd, NEW l, NEW t \in Threads, NEW u, NEW prio,
           Enqueues(pt, cx, pq, cd, l, t, u, prio)
    PROVE  WaitsRight(pq)'
<1>1. /\ WaitsRight(pt) /\ UNCHANGED <<curthr, waitq, tgt>> /\ u \in Threads \ {t}
      /\ \A o \in Objs : ~InQueue(o, u) /\ ~InQueue(o, t)
      /\ \A v \in Threads \ {u} : ut_state'[v] = ut_state[v]
      /\ ut_state'[u] = "UT_RUNNABLE" /\ wakee'[t] = NoThread /\ wakee[t] \in {u, NoThread}
      /\ \A v \in Threads \ {t} : pq[v] = pt[v] /\ wakee'[v] = wakee[v] /\ pt[v] \in Resting
  BY OneRuns, OffLwpRests DEF Enqueues, KeptArgs, Situation, LifeInvAt
<1>2. /\ \A v : OnLwp(v)' <=> OnLwp(v)
      /\ \A o, v : InQueue(o, v)' <=> InQueue(o, v)
  BY <1>1 DEF OnLwp, Running, InQueue
<1>3. \A v \in Threads : wakee'[v] = NoThread
  <2>1. \A v \in Threads \ {t} : wakee[v] = NoThread
    BY <1>1 DEF Enqueues, Situation, LifeInvAt, Private, CallArgs, WakePoints, Resting
  <2> QED BY <1>1, <2>1
<1>4. \A v \in Threads \ {u} : \A x \in Threads : wakee[x] = v => x # t
  BY <1>1, LifeObjects
<1>5. \A v \in Threads : wakee[v] = NoThread \/ wakee[v] = u
  <2>1. \A v \in Threads \ {t} : wakee[v] = NoThread
    BY <1>1 DEF Enqueues, Situation, LifeInvAt, Private, CallArgs, WakePoints, Resting
  <2> QED BY <1>1, <2>1
<1>6. WaitqOK'
  <2>1. \A o \in Objs : \A i \in 1..Len(waitq[o]) : waitq[o][i] \in Threads /\ waitq[o][i] # u
    BY <1>1 DEF Enqueues, Situation, LifeInvAt, LifeTypeOK, SchedTypes, InQueue
  <2> QED BY <1>1, <2>1 DEF WaitsRight, WaitqOK, OnNoLwp
<1>7. \A v \in Threads :
          /\ InQueue(reap_mtx, v)' => pq[v] = "mtx_locked"
          /\ InQueue(reap_cond, v)' => pq[v] = "cond_relock"
          /\ \A x \in Threads : InQueue(x, v)' => pq[v] = "join_woken" /\ tgt'[v] = x
  BY <1>1, <1>2, LifeObjects DEF WaitsRight
<1>8. ASSUME NEW v \in Threads, ut_state'[v] = "UT_WAIT", ~OnLwp(v)'
      PROVE  \E o \in Objs : InQueue(o, v)'
  <2>1. v # u /\ ut_state[v] = "UT_WAIT" /\ ~OnLwp(v)
    BY <1>1, <1>2, <1>8
  <2>2. (\E o \in Objs : InQueue(o, v)) \/ \E x \in Threads : wakee[x] = v
    BY <1>1, <2>1 DEF WaitsRight
  <2>3. \A x \in Threads : wakee[x] # v
    BY <1>5, <2>1, LifeObjects
  <2> QED BY <1>2, <2>2, <2>3
<1> QED BY <1>3, <1>6, <1>7, <1>8 DEF WaitsRight

LEMMA CarryMutex ==
    ASSUME NEW pt, NEW cx, NEW pq, NEW cd, NEW t \in Threads, Carries(pt, cx, pq, cd, t),
           UNCHANGED <<waitq, m_owner>>,
           InSection(pq[t], cd[t]) <=> InSection(pt[t], cx[t]),
           {pt[t], pq[t]} \cap {"mtx_locked", "mtx_switch"} = {}
    PROVE  MutexRight(pq, cd)'
<1>1. /\ MutexRight(pt, cx) /\ UNCHANGED <<waitq, m_owner>>
      /\ \A u \in Threads \ {t} : pq[u] = pt[u] /\ cd[u] = cx[u]
  BY DEF Carries, Situation, LifeInvAt
<1>2. \A u : InQueue(reap_mtx, u)' <=> InQueue(reap_mtx, u)
  BY <1>1 DEF InQueue
<1>3. \A u \in Threads : /\ InSection(pq[u], cd[u]) <=> InSection(pt[u], cx[u])
                         /\ pq[u] = "mtx_locked" <=> pt[u] = "mtx_locked"
                         /\ pq[u] = "mtx_switch" <=> pt[u] = "mtx_switch"
  BY <1>1
<1> QED BY <1>1, <1>2, <1>3 DEF MutexRight

LEMMA CarryJoins ==
    ASSUME NEW pt, NEW cx, NEW pq, NEW cd, NEW t \in Threads, Carries(pt, cx, pq, cd, t),
           waitq' = waitq, NEW l \in LWPs, Running(l, t),
           Gone(pq[t], cd[t]) <=> Gone(pt[t], cx[t]), pq[t] \notin {"join_switch", "join_woken"}
    PROVE  JoinsRight(pq, cd)'
<1>1. /\ JoinsRight(pt, cx) /\ UNCHANGED <<tgt, waitq>> /\ Situation(pt, cx)
      /\ \A u \in Threads \ {t} : pq[u] = pt[u] /\ cd[u] = cx[u]
  BY DEF Carries, Situation, LifeInvAt
<1>2. \A u \in Threads \ {t} : pt[u] \in Resting
  BY <1>1, OneRuns, OffLwpRests
<1>3. \A o, u : InQueue(o, u)' <=> InQueue(o, u)
  BY <1>1 DEF InQueue
<1>4. \A u \in Threads : Gone(pq[u], cd[u]) <=> Gone(pt[u], cx[u])
  BY <1>1
<1>5. \A u \in Threads : pq[u] # "join_switch" /\ (pq[u] = "join_woken" => pt[u] = "join_woken" /\ tgt'[u] = tgt[u])
  BY <1>1, <1>2 DEF Resting
<1>6. \A u \in Threads : pt[u] = "join_woken" => tgt[u] \in Threads
  BY <1>1 DEF Situation, LifeInvAt, LifeTypeOK, Private, CallArgs, Has, JoinCode
<1>7. \A u, v \in Threads : InQueue(v, u)' => ~Gone(pq[v], cd[v])
  BY <1>1, <1>3, <1>4 DEF JoinsRight
<1>8. ASSUME NEW u \in Threads, pq[u] = "join_woken"
      PROVE  InQueue(tgt[u], u)' \/ Gone(pq[tgt'[u]], cd[tgt'[u]])
  <2>1. /\ tgt'[u] = tgt[u] /\ tgt[u] \in Threads
        /\ InQueue(tgt[u], u) \/ Gone(pt[tgt[u]], cx[tgt[u]])
    BY <1>1, <1>5, <1>6, <1>8 DEF JoinsRight
  <2>2. \A x, y : x = y /\ InQueue(x, u)' => InQueue(y, u)'
    OBVIOUS
  <2> QED BY <1>3, <1>4, <2>1, <2>2
<1> QED BY <1>5, <1>7, <1>8 DEF JoinsRight

LEMMA CarryReaper ==
    ASSUME NEW pt, NEW cx, NEW pq, NEW cd, NEW t \in Threads, Carries(pt, cx, pq, cd, t),
           waitq' = waitq, halted' = halted,
           pt[t] \notin {"reaper_scan", "cond_signal"},
           \A u \in Threads : ut_state'[u] = "UT_NO_STATE" => ut_state[u] = "UT_NO_STATE",
           Settling(pq[t], cd[t]) => Settling(pt[t], cx[t])
    PROVE  ReaperRight(pq, cd)'
<1>1. /\ ReaperRight(pt, cx) /\ UNCHANGED <<reap_queue, waitq, halted>>
      /\ \A u \in Threads \ {t} : pq[u] = pt[u] /\ cd[u] = cx[u]
      /\ \A u \in Threads : ut_state'[u] = "UT_NO_STATE" => ut_state[u] = "UT_NO_STATE"
  BY DEF Carries, Situation, LifeInvAt
<1>2. \A u : InQueue(reap_cond, u)' <=> InQueue(reap_cond, u)
  BY <1>1 DEF InQueue
<1>3. \A u \in Threads : Settling(pq[u], cd[u]) => Settling(pt[u], cx[u])
  BY <1>1
<1>4. \A u \in Threads : pt[u] \in {"reaper_scan", "cond_signal"} => pq[u] = pt[u]
  BY <1>1
<1>5. Reaper \in Threads
  BY LifeObjects
<1> QED BY <1>1, <1>2, <1>3, <1>4, <1>5 DEF ReaperRight

\* The points from which a thread puts another one on a run queue, and those
\* that it goes to: the same for everybody else.
Puts(p, c, q, d) ==
    /\ SameRole(p, c, q, d)
    /\ InSection(q, d) <=> InSection(p, c)
    /\ Gone(q, d) <=> Gone(p, c)
    /\ Settling(q, d) => Settling(p, c)
    /\ {p, q} \cap {"mtx_locked", "mtx_switch", "join_switch", "join_woken", "reaper_scan", "cond_signal"} = {}
    /\ \A t \in Threads, o \in Objs : Locks(t, q, d, o) <=> Locks(t, p, c, o)

LEMMA PutSteps ==
    /\ Puts("exit_wake", "exit", "exit_switch", "exit")
    /\ Puts("startonrunq", "client", "rest", "client")
    /\ \A c \in Buriers \cup {"reaper_loop"} : Puts("unl_wake", c, "unl_off", c)
    /\ \A c \in Buriers : Puts("sig_wake", c, "sig_off", c)
<1>1. Puts("exit_wake", "exit", "exit_switch", "exit")
  BY DEF Puts, SameRole, Has, Frees, Passed, Joins, HasDead, JoinCode, Sections, Unlocks, Buriers,
         InSection, ReaperCode, Gone, Settling, Locks
<1>2. Puts("startonrunq", "client", "rest", "client")
  BY DEF Puts, SameRole, Has, Frees, Passed, Joins, HasDead, JoinCode, Sections, Unlocks, Buriers,
         InSection, ReaperCode, Gone, Settling, Locks
<1>3. ASSUME NEW c \in Buriers \cup {"reaper_loop"} PROVE Puts("unl_wake", c, "unl_off", c)
  BY DEF Puts, SameRole, Has, Frees, Passed, Joins, HasDead, JoinCode, Sections, Unlocks, Buriers,
         InSection, ReaperCode, Gone, Settling, Locks
<1>4. ASSUME NEW c \in Buriers PROVE Puts("sig_wake", c, "sig_off", c)
  BY DEF Puts, SameRole, Has, Frees, Passed, Joins, HasDead, JoinCode, Sections, Unlocks, Buriers,
         InSection, ReaperCode, Gone, Settling, Locks
<1> QED BY <1>1, <1>2, <1>3, <1>4

\* A step that puts a thread on a run queue keeps the invariant.
LEMMA EnqueueEnds ==
    ASSUME NEW pt, NEW cx, NEW pq \in [Threads -> Points], NEW cd \in [Threads -> Contexts],
           NEW l \in LWPs, NEW t \in Threads, NEW u, NEW prio,
           Enqueues(pt, cx, pq, cd, l, t, u, prio), Puts(pt[t], cx[t], pq[t], cd[t]),
           Private(t, pq[t], cd[t])', LifeTypeOK', NewRight(pq)'
    PROVE  LifeInv'
<1>1. /\ Running(l, t) /\ UNCHANGED <<waitq, pmut, m_owner, halted>> /\ Situation(pt, cx)
      /\ \A v \in Threads : ut_state'[v] = "UT_NO_STATE" => ut_state[v] = "UT_NO_STATE"
  BY DEF Enqueues
<1>2. /\ \A v \in Threads \ {t} : Private(v, pq[v], cd[v])'
      /\ Carries(pt, cx, pq, cd, t)
  BY EnqueueFrame
<1>3. RunqRight' /\ WaitsRight(pq)'
  BY EnqueueRunq, EnqueueWaits
<1>4. /\ SameRole(pt[t], cx[t], pq[t], cd[t])
      /\ InSection(pq[t], cd[t]) <=> InSection(pt[t], cx[t])
      /\ Gone(pq[t], cd[t]) <=> Gone(pt[t], cx[t])
      /\ Settling(pq[t], cd[t]) => Settling(pt[t], cx[t])
      /\ {pt[t], pq[t]} \cap {"mtx_locked", "mtx_switch"} = {}
      /\ pq[t] \notin {"join_switch", "join_woken"} /\ pt[t] \notin {"reaper_scan", "cond_signal"}
  BY DEF Puts
<1>5. \A o \in Objs : Locks(t, pq[t], cd[t], o) <=> Locks(t, pt[t], cx[t], o)
  BY DEF Puts
<1>6. Custody(pq, cd)' /\ Targets(pq, cd)' /\ CaredFor(pq, cd)'
  BY <1>2, <1>4, CarryCustody, CarryTargets, CarryCare
<1>7. PmutsRight(pq, cd)'
  BY <1>1, <1>2, <1>5, CarryPmuts
<1>8. MutexRight(pq, cd)'
  BY <1>1, <1>2, <1>4, CarryMutex
<1>9. JoinsRight(pq, cd)'
  BY <1>1, <1>2, <1>4, CarryJoins
<1>10. ReaperRight(pq, cd)'
  BY <1>1, <1>2, <1>4, CarryReaper
<1>11. HaltRight'
  <2>1. halted = "none" \/ curthr' = curthr
    BY DEF Enqueues
  <2>2. halted # "lwp_park"
    <3>1. OnLwp(t)
      BY <1>1 DEF OnLwp
    <3> QED BY <1>1, <3>1 DEF Situation, LifeInvAt, HaltRight
  <2> QED BY <1>1, <2>2 DEF Situation, LifeInvAt, HaltRight
<1>12. \A v \in Threads : Private(v, pq[v], cd[v])'
  BY <1>2
<1> QED BY <1>3, <1>6, <1>7, <1>8, <1>9, <1>10, <1>11, <1>12, LifeEnds DEF Rights

-----------------------------------------------------------------------------
(* The steps that put a thread on a run queue.                             *)

\* What uthread_wake changes, when preemption was masked before.
LEMMA WakeChanges ==
    ASSUME NEW pt, NEW cx, Situation(pt, cx), NEW l \in LWPs, NEW t \in Threads, halted = "none",
           Wake(l, t), UNCHANGED <<mtxVars, lifeVars>>,
           pt[t] \in WakePoints, ut_no_preempt_count[t] \in Nat, ut_no_preempt_count[t] > 1
    PROVE  /\ wakee[t] \in Threads \ {t} /\ ut_state[wakee[t]] = "UT_WAIT" /\ ~OnLwp(wakee[t])
           /\ ut_prio[wakee[t]] \in Prios /\ pt[wakee[t]] \in Woken
           /\ \A o \in Objs : ~InQueue(o, wakee[t])
           /\ WakeQueues(wakee[t]) /\ NopreemptOff(t) /\ Continue(t, <<>>)
           /\ runq_mtx' = NoLwp /\ wakee' = [wakee EXCEPT ![t] = NoThread]
           /\ UNCHANGED <<curthr, ut_prio, waitq, pmut, swarg, sparg, newthr, halted, m_owner, marg, carg,
                          crit, ut_detached, reap_queue, tgt, claimed>>
<1>1. /\ Private(t, pt[t], cx[t]) /\ LifeTypeOK /\ WaitsRight(pt) /\ PrioOK /\ Running(l, t)
      /\ \A k \in LWPs : k = l
  BY OneRuns DEF Situation, LifeInvAt, RunqRight, Wake, At
<1>2. wakee[t] \in Threads
  BY <1>1 DEF Private, CallArgs, LifeTypeOK, SchedTypes
<1>3. /\ ut_state[wakee[t]] = "UT_WAIT" /\ ~OnLwp(wakee[t])
      /\ \A o \in Objs : ~InQueue(o, wakee[t])
  BY <1>1, <1>2, LifeObjects DEF WaitsRight
<1>4. pt[wakee[t]] \in Woken
  <2>1. StateOff(pt[wakee[t]], cx[wakee[t]], ut_state[wakee[t]])
    BY <1>2, <1>3, OffLwpRests
  <2> QED BY <1>3, <2>1 DEF StateOff
<1>5. ut_prio[wakee[t]] \in Prios
  BY <1>2, <1>3, <1>1 DEF PrioOK
<1>6. OnLwp(t)
  BY <1>1 DEF OnLwp
<1>7. WakeQueues(wakee[t])
  BY <1>3 DEF Wake, MakeRunnable
<1>8. /\ NopreemptOff(t) /\ wakee' = [wakee EXCEPT ![t] = NoThread]
      /\ runq_mtx' = NoLwp /\ Continue(t, <<>>)
  BY DEF Wake
<1>9. UNCHANGED <<curthr, ut_prio, waitq, pmut, swarg, sparg, newthr, halted, m_owner, marg, carg,
                  crit, ut_detached, reap_queue, tgt, claimed>>
  BY DEF Wake, waitVars, mtxVars, lifeVars
<1> QED BY <1>2, <1>3, <1>4, <1>5, <1>6, <1>7, <1>8, <1>9

LEMMA WakeTypes ==
    ASSUME NEW pt, NEW cx, Situation(pt, cx), NEW l \in LWPs, NEW t \in Threads, halted = "none",
           Wake(l, t), UNCHANGED <<mtxVars, lifeVars>>,
           pt[t] \in WakePoints, ut_no_preempt_count[t] \in Nat, ut_no_preempt_count[t] > 1
    PROVE  /\ LifeTypeOK' /\ stack'[t] = Tail(stack[t])
           /\ ut_no_preempt_count'[t] = ut_no_preempt_count[t] - 1 /\ wakee'[t] = NoThread
           /\ ut_state'[wakee[t]] = "UT_RUNNABLE"
           /\ \A v \in Threads \ {wakee[t]} : ut_state'[v] = ut_state[v]
           /\ \A v \in Threads \ {t} : KeptArgs(v)
<1>1. /\ LifeTypeOK /\ stack[t] # <<>>
  BY DEF Situation, LifeInvAt, Wake, At
<1>2. PICK u \in Threads : u = wakee[t]
  BY WakeChanges
<1>3. /\ ut_prio[u] \in Prios /\ WakeQueues(u) /\ NopreemptOff(t) /\ Continue(t, <<>>)
      /\ runq_mtx' = NoLwp /\ wakee' = [wakee EXCEPT ![t] = NoThread]
      /\ UNCHANGED <<curthr, ut_prio, waitq, pmut, swarg, sparg, newthr, halted, m_owner, marg, carg,
                     crit, ut_detached, reap_queue, tgt, claimed>>
  BY <1>2, WakeChanges
<1>4. /\ stack' \in [Threads -> Seq(LifeNames)] /\ stack'[t] = Tail(stack[t])
      /\ \A v \in Threads \ {t} : stack'[v] = stack[v]
  BY <1>1, <1>3, LifeContinue
<1>5. /\ ut_no_preempt_count' \in [Threads -> Nat] /\ ut_no_preempt_count'[t] = ut_no_preempt_count[t] - 1
      /\ \A v \in Threads \ {t} : ut_no_preempt_count'[v] = ut_no_preempt_count[v]
  BY <1>1, <1>3 DEF NopreemptOff, LifeTypeOK, SchedTypes
<1>6. /\ wakee' \in [Threads -> Threads \cup {NoThread}] /\ wakee'[t] = NoThread
      /\ \A v \in Threads \ {t} : wakee'[v] = wakee[v]
  BY <1>1, <1>3 DEF LifeTypeOK, SchedTypes
<1>7. /\ ut_state' \in [Threads -> UtStates] /\ ut_state'[u] = "UT_RUNNABLE"
      /\ \A v \in Threads \ {u} : ut_state'[v] = ut_state[v]
  BY <1>1, <1>3 DEF WakeQueues, LifeTypeOK, SchedTypes, UtStates
<1>8. runq' \in [Prios -> Seq(Threads)] /\ tq_size' \in [Prios -> Int]
  <2>1. runq' = Enqueued(runq, ut_prio[u], u) /\ tq_size' = SizeUp(tq_size, ut_prio[u])
    BY <1>3 DEF WakeQueues
  <2>2. runq \in [Prios -> Seq(Threads)] /\ tq_size \in [Prios -> Int]
    BY <1>1 DEF LifeTypeOK, SchedTypes
  <2> QED BY <1>3, <2>1, <2>2, EnqueuedType
<1>9. lwp' \in [LWPs -> {"unborn", "running", "parked", "signalled"}]
  <2>1. lwp' \in Released(runq, lwp)
    BY <1>3 DEF WakeQueues
  <2>2. lwp \in [LWPs -> {"unborn", "running", "parked", "signalled"}]
    BY <1>1 DEF LifeTypeOK, SchedTypes
  <2> QED BY <2>1, <2>2, ReleasedType
<1>10. LifeTypeOK'
  BY <1>1, <1>3, <1>4, <1>5, <1>6, <1>7, <1>8, <1>9 DEF LifeTypeOK, SchedTypes, LifeNames
<1>11. \A v \in Threads \ {t} : KeptArgs(v)
  BY <1>3, <1>4, <1>5, <1>6 DEF KeptArgs
<1> QED BY <1>2, <1>4, <1>5, <1>6, <1>7, <1>10, <1>11

LEMMA WakeEnqueues ==
    ASSUME NEW pt, NEW cx, Situation(pt, cx), NEW l \in LWPs, NEW t \in Threads, halted = "none",
           Wake(l, t), UNCHANGED <<mtxVars, lifeVars>>,
           pt[t] \in WakePoints, ut_no_preempt_count[t] \in Nat, ut_no_preempt_count[t] > 1,
           NEW pq, NEW cd, \A v \in Threads \ {t} : pq[v] = pt[v] /\ cd[v] = cx[v],
           {pt[t], pq[t]} \cap {"alloc_claim", "startonrunq"} = {}
    PROVE  Enqueues(pt, cx, pq, cd, l, t, wakee[t], ut_prio[wakee[t]]) /\ NewRight(pq)'
<1>1. PICK u \in Threads : u = wakee[t]
  BY WakeChanges
<1>2. /\ u # t /\ ut_state[u] = "UT_WAIT" /\ ~OnLwp(u) /\ ut_prio[u] \in Prios /\ pt[u] \in Woken
      /\ \A o \in Objs : ~InQueue(o, u)
      /\ WakeQueues(u) /\ runq_mtx' = NoLwp
      /\ UNCHANGED <<curthr, ut_prio, waitq, pmut, swarg, sparg, newthr, halted, m_owner, marg, carg,
                     crit, ut_detached, reap_queue, tgt, claimed>>
  BY <1>1, WakeChanges
<1>3. /\ ut_state'[u] = "UT_RUNNABLE" /\ wakee'[t] = NoThread
      /\ \A v \in Threads \ {u} : ut_state'[v] = ut_state[v]
      /\ \A v \in Threads \ {t} : KeptArgs(v)
  BY <1>1, WakeTypes
<1>4. /\ runq' = Enqueued(runq, ut_prio[u], u) /\ tq_size' = SizeUp(tq_size, ut_prio[u])
      /\ lwp' \in Released(runq, lwp)
  BY <1>2 DEF WakeQueues
<1>5. Running(l, t)
  BY DEF Wake, At
<1>6. ut_prio'[u] = ut_prio[u] /\ \A v \in Threads \ {u} : ut_prio'[v] = ut_prio[v]
  BY <1>2
<1>7. ut_state[u] \in {"UT_WAIT", "UT_TRANSITION"} /\ pt[u] \in {"off"} \cup Woken
  BY <1>2
<1>8. Enqueues(pt, cx, pq, cd, l, t, u, ut_prio[u])
  BY <1>1, <1>2, <1>3, <1>4, <1>5, <1>6, <1>7 DEF Enqueues
<1>9. Carries(pt, cx, pq, cd, t)
  BY <1>8, EnqueueFrame
<1>10. \A v \in Threads : ut_state'[v] = ut_state[v] \/ (v = u /\ ut_state[u] = "UT_WAIT" /\ ut_state'[u] = "UT_RUNNABLE")
  BY <1>2, <1>3
<1>11. NewRight(pq)'
  <2>1. \A v \in Threads : {pt[v], pq[v]} \cap {"alloc_claim", "startonrunq"} = {}
    <3>1. \A v \in Threads \ {t} : pt[v] \in Resting /\ pq[v] = pt[v]
      BY <1>5, OneRuns, OffLwpRests
    <3> QED BY <3>1 DEF Resting
  <2>2. \A v \in Threads : ut_state[v] \in Unborn \/ ut_state'[v] \in Unborn => ut_state'[v] = ut_state[v]
    BY <1>10 DEF Unborn
  <2>3. ut_state[t] \notin Unborn
    BY <1>5, OneRuns DEF Unborn
  <2> QED BY <1>2, <1>9, <2>1, <2>2, <2>3, CarryNew
<1> QED BY <1>1, <1>8, <1>11

LEMMA RowOfExitWake ==
    ASSUME NEW p, NEW c, NEW n, NEW r, Row(p, c, n, "wake", r), p = "exit_wake"
    PROVE  c \in {"exit"} /\ n = 2 /\ r = <<"exit_switch">>
<1> DEFINE h == "wake"
<1>1. Row(p, c, n, h, r) /\ h = "wake"
  OBVIOUS
<1> HIDE DEF h
<1> QED BY <1>1, RowsOfSwitches

LEMMA RowOfUnlockWake ==
    ASSUME NEW p, NEW c, NEW n, NEW r, Row(p, c, n, "wake", r), p = "unl_wake"
    PROVE  c \in Buriers \cup {"reaper_loop"} /\ n = Base(c) + 3 /\ r = <<"nopreempt_off">> \o (<<AfterUnlock(c)>> \o Below(c))
<1> DEFINE h == "wake"
<1>1. Row(p, c, n, h, r) /\ h = "wake"
  OBVIOUS
<1> HIDE DEF h
<1> QED BY <1>1, RowsOfSwitches

LEMMA RowOfSignalWake ==
    ASSUME NEW p, NEW c, NEW n, NEW r, Row(p, c, n, "wake", r), p = "sig_wake"
    PROVE  c \in Buriers /\ n = Base(c) + 3 /\ r = <<"nopreempt_off">> \o (<<"reap_unlock">> \o Below(c))
<1> DEFINE h == "wake"
<1>1. Row(p, c, n, h, r) /\ h = "wake"
  OBVIOUS
<1> HIDE DEF h
<1> QED BY <1>1, RowsOfSwitches

LEMMA WakeEnds ==
    ASSUME NEW pt, NEW cx, Situation(pt, cx), NEW l \in LWPs, NEW t \in Threads, halted = "none",
           Wake(l, t), UNCHANGED <<mtxVars, lifeVars>>,
           pt[t] \in WakePoints, ut_no_preempt_count[t] \in Nat, ut_no_preempt_count[t] > 1,
           NEW q \in Points, NEW d \in Contexts, Puts(pt[t], cx[t], q, d), q \notin {"alloc_claim", "startonrunq"},
           Private(t, q, d)'
    PROVE  LifeInv'
<1>1. PICK pq \in [Threads -> Points], cd \in [Threads -> Contexts] : Moves(pt, pq, t, q) /\ Moves(cx, cd, t, d)
  BY MovesExist DEF Situation
<1>2. /\ pq[t] = q /\ cd[t] = d /\ Private(t, pq[t], cd[t])' /\ Puts(pt[t], cx[t], pq[t], cd[t])
      /\ \A u \in Threads \ {t} : pq[u] = pt[u] /\ cd[u] = cx[u]
  BY <1>1 DEF Moves
<1>3. {pt[t], pq[t]} \cap {"alloc_claim", "startonrunq"} = {}
  BY <1>2 DEF WakePoints
<1>4. LifeTypeOK'
  BY WakeTypes
<1>5. PICK u \in Threads, prio \in Prios : u = wakee[t] /\ prio = ut_prio[wakee[t]]
  BY WakeChanges
<1>6. Enqueues(pt, cx, pq, cd, l, t, u, prio) /\ NewRight(pq)'
  BY <1>2, <1>3, <1>5, WakeEnqueues
<1> QED BY <1>2, <1>4, <1>6, EnqueueEnds

\* uthread_exit wakes its joiner.
LEMMA LifeExitWake ==
    ASSUME NEW pt, NEW cx, Situation(pt, cx), NEW l \in LWPs, NEW t \in Threads, halted = "none",
           Wake(l, t), UNCHANGED <<mtxVars, lifeVars>>, pt[t] = "exit_wake"
    PROVE  LifeInv'
<1> DEFINE c == cx[t]
<1>1. /\ Running(l, t) /\ stack[t] # <<>> /\ pt[t] = "exit_wake" /\ c \in {"exit"}
      /\ ut_no_preempt_count[t] = 2 /\ Tail(stack[t]) = <<"exit_switch">>
  <2>1. /\ Row(pt[t], c, ut_no_preempt_count[t], "wake", Tail(stack[t])) /\ stack[t] # <<>>
        /\ Running(l, t)
    BY AtPoint DEF Wake
  <2>2. /\ c \in {"exit"} /\ ut_no_preempt_count[t] = 2 /\ Tail(stack[t]) = <<"exit_switch">>
    BY <2>1, RowOfExitWake
  <2> QED BY <2>1, <2>2
<1>2. /\ Private(t, pt[t], c) /\ LifeTypeOK /\ c \in Contexts
      /\ ut_no_preempt_count[t] \in Nat /\ ut_no_preempt_count[t] > 1 /\ Base(c) \in Nat
  <2>1. Private(t, pt[t], c) /\ LifeTypeOK /\ c \in Contexts /\ ut_no_preempt_count[t] \in Nat
    BY DEF Situation, LifeInvAt, LifeTypeOK, SchedTypes
  <2>2. Base(c) \in Nat
    BY <2>1, BaseNat
  <2> QED BY <1>1, <2>1, <2>2
<1>3. pt[t] \in WakePoints
  BY <1>1 DEF WakePoints
<1>4. wakee[t] \in Threads \ {t}
  BY <1>2, <1>3, WakeChanges
<1>5. UNCHANGED <<curthr, swarg, newthr, marg, carg, crit, tgt>>
  BY <1>2, <1>3, WakeChanges
<1>6. /\ stack'[t] = <<"exit_switch">> /\ ut_no_preempt_count'[t] = (2) - 1
      /\ wakee'[t] = NoThread /\ ut_state'[t] = ut_state[t]
  <2>1. /\ stack'[t] = Tail(stack[t]) /\ ut_no_preempt_count'[t] = ut_no_preempt_count[t] - 1
        /\ wakee'[t] = NoThread
    BY <1>2, <1>3, WakeTypes
  <2>2. \A v \in Threads \ {wakee[t]} : ut_state'[v] = ut_state[v]
    BY <1>2, <1>3, WakeTypes
  <2>3. Tail(stack[t]) = <<"exit_switch">> /\ ut_no_preempt_count[t] = 2
    BY <1>1
  <2>4. ut_state'[t] = ut_state[t]
    BY <1>4, <2>2
  <2>5. stack'[t] = <<"exit_switch">>
    <3>1. stack'[t] = Tail(stack[t])
      BY <2>1
    <3>2. Tail(stack[t]) = <<"exit_switch">>
      BY <2>3
    <3> QED BY <3>1, <3>2
  <2>6. ut_no_preempt_count'[t] = (2) - 1
    <3>1. ut_no_preempt_count'[t] = ut_no_preempt_count[t] - 1
      BY <2>1
    <3>2. ut_no_preempt_count[t] = 2
      BY <2>3
    <3> QED BY <3>1, <3>2
  <2> QED BY <2>1, <2>4, <2>5, <2>6
<1>7. Private(t, "exit_switch", c)'
  <2>1. Is("exit_switch", c, ut_no_preempt_count[t], stack[t])'
    <3>1. ExitRow("exit_switch", "exit", 1, "exit_switch", <<>>)
      BY DEF ExitRow
    <3>2. stack'[t] # <<>> /\ Head(stack'[t]) = "exit_switch" /\ Tail(stack'[t]) = <<>>
      BY <1>6, NamesKnown, OneName
    <3>3. c = "exit" /\ ut_no_preempt_count'[t] = 1
      BY <1>1, <1>6
    <3> QED BY <3>1, <3>2, <3>3 DEF Is, Row
  <2>2. ModeOf("exit_switch", c, OnLwp(t), ut_state[t])'
    <3>1. ut_state[t] = StateOn(pt[t], c)
      BY <1>1, OneRuns
    <3>2. ut_state'[t] = StateOn("exit_switch", c)
      BY <1>1, <1>6, <3>1 DEF StateOn
    <3> QED BY <1>1, <1>5, <3>2, StaysOn
  <2>3. SwitchArgs(t, "exit_switch")' /\ LockArgs(t, "exit_switch", c)'
    BY <1>1, <1>2, <1>5, LifeObjects DEF Private, SwitchArgs, LockArgs, InSection, Settling, CondWaits, Sections, ReaperCode, Unlocks, Preemptible, Buriers
  <2>4. CallArgs(t, "exit_switch", c)' /\ Roles(t, "exit_switch", c)'
    BY <1>1, <1>2, <1>5, <1>6, LifeObjects DEF Private, CallArgs, Roles, Allocates, WakePoints, Has, Frees, Sections, Unlocks, JoinCode, Buriers, Preemptible, Yields
  <2> QED BY <2>1, <2>2, <2>3, <2>4 DEF Private
<1>8. "exit_switch" \in Points /\ "exit_switch" \notin {"alloc_claim", "startonrunq"}
  BY DEF Points, ExitCode, Unlocks, Sections
<1>9. Puts(pt[t], c, "exit_switch", c)
  BY <1>1, PutSteps
<1> QED BY <1>2, <1>3, <1>7, <1>8, <1>9, WakeEnds

\* uthread_mtx_unlock wakes the thread that it passes the mutex to.
LEMMA LifeUnlockWake ==
    ASSUME NEW pt, NEW cx, Situation(pt, cx), NEW l \in LWPs, NEW t \in Threads, halted = "none",
           Wake(l, t), UNCHANGED <<mtxVars, lifeVars>>, pt[t] = "unl_wake"
    PROVE  LifeInv'
<1> DEFINE c == cx[t]
<1>1. /\ Running(l, t) /\ stack[t] # <<>> /\ pt[t] = "unl_wake" /\ c \in Buriers \cup {"reaper_loop"}
      /\ ut_no_preempt_count[t] = Base(c) + 3 /\ Tail(stack[t]) = <<"nopreempt_off">> \o (<<AfterUnlock(c)>> \o Below(c))
  <2>1. /\ Row(pt[t], c, ut_no_preempt_count[t], "wake", Tail(stack[t])) /\ stack[t] # <<>>
        /\ Running(l, t)
    BY AtPoint DEF Wake
  <2>2. /\ c \in Buriers \cup {"reaper_loop"} /\ ut_no_preempt_count[t] = Base(c) + 3 /\ Tail(stack[t]) = <<"nopreempt_off">> \o (<<AfterUnlock(c)>> \o Below(c))
    BY <2>1, RowOfUnlockWake
  <2> QED BY <2>1, <2>2
<1>2. /\ Private(t, pt[t], c) /\ LifeTypeOK /\ c \in Contexts
      /\ ut_no_preempt_count[t] \in Nat /\ ut_no_preempt_count[t] > 1 /\ Base(c) \in Nat
  <2>1. Private(t, pt[t], c) /\ LifeTypeOK /\ c \in Contexts /\ ut_no_preempt_count[t] \in Nat
    BY DEF Situation, LifeInvAt, LifeTypeOK, SchedTypes
  <2>2. Base(c) \in Nat
    BY <2>1, BaseNat
  <2> QED BY <1>1, <2>1, <2>2
<1>3. pt[t] \in WakePoints
  BY <1>1 DEF WakePoints
<1>4. wakee[t] \in Threads \ {t}
  BY <1>2, <1>3, WakeChanges
<1>5. UNCHANGED <<curthr, swarg, newthr, marg, carg, crit, tgt>>
  BY <1>2, <1>3, WakeChanges
<1>6. /\ stack'[t] = <<"nopreempt_off">> \o (<<AfterUnlock(c)>> \o Below(c)) /\ ut_no_preempt_count'[t] = (Base(c) + 3) - 1
      /\ wakee'[t] = NoThread /\ ut_state'[t] = ut_state[t]
  <2>1. /\ stack'[t] = Tail(stack[t]) /\ ut_no_preempt_count'[t] = ut_no_preempt_count[t] - 1
        /\ wakee'[t] = NoThread
    BY <1>2, <1>3, WakeTypes
  <2>2. \A v \in Threads \ {wakee[t]} : ut_state'[v] = ut_state[v]
    BY <1>2, <1>3, WakeTypes
  <2>3. Tail(stack[t]) = <<"nopreempt_off">> \o (<<AfterUnlock(c)>> \o Below(c)) /\ ut_no_preempt_count[t] = Base(c) + 3
    BY <1>1
  <2>4. ut_state'[t] = ut_state[t]
    BY <1>4, <2>2
  <2>5. stack'[t] = <<"nopreempt_off">> \o (<<AfterUnlock(c)>> \o Below(c))
    <3>1. stack'[t] = Tail(stack[t])
      BY <2>1
    <3>2. Tail(stack[t]) = <<"nopreempt_off">> \o (<<AfterUnlock(c)>> \o Below(c))
      BY <2>3
    <3> QED BY <3>1, <3>2
  <2>6. ut_no_preempt_count'[t] = (Base(c) + 3) - 1
    <3>1. ut_no_preempt_count'[t] = ut_no_preempt_count[t] - 1
      BY <2>1
    <3>2. ut_no_preempt_count[t] = Base(c) + 3
      BY <2>3
    <3> QED BY <3>1, <3>2
  <2> QED BY <2>1, <2>4, <2>5, <2>6
<1>7. Private(t, "unl_off", c)'
  <2>1. Is("unl_off", c, ut_no_preempt_count[t], stack[t])'
    <3>1. UnlockRow("unl_off", c, Base(c) + 2, "nopreempt_off", <<AfterUnlock(c)>> \o Below(c))
      BY <1>1 DEF UnlockRow
    <3>2. /\ stack'[t] # <<>> /\ Head(stack'[t]) = "nopreempt_off"
          /\ Tail(stack'[t]) = <<AfterUnlock(c)>> \o Below(c)
      <4>1. AfterUnlock(c) \in LifeNames /\ "nopreempt_off" \in LifeNames /\ Below(c) \in Seq(LifeNames)
        BY <1>2, BelowType, NamesKnown
      <4>2. <<AfterUnlock(c)>> \o Below(c) \in Seq(LifeNames)
        BY <4>1, AfterCons
      <4> QED BY <1>6, <4>1, <4>2, AfterCons
    <3>3. ut_no_preempt_count'[t] = Base(c) + 2
      BY <1>2, <1>6
    <3> QED BY <3>1, <3>2, <3>3 DEF Is, Row
  <2>2. ModeOf("unl_off", c, OnLwp(t), ut_state[t])'
    <3>1. ut_state[t] = StateOn(pt[t], c)
      BY <1>1, OneRuns
    <3>2. ut_state'[t] = StateOn("unl_off", c)
      BY <1>1, <1>6, <3>1 DEF StateOn
    <3> QED BY <1>1, <1>5, <3>2, StaysOn
  <2>3. SwitchArgs(t, "unl_off")' /\ LockArgs(t, "unl_off", c)'
    BY <1>1, <1>2, <1>5, LifeObjects DEF Private, SwitchArgs, LockArgs, InSection, Settling, CondWaits, Sections, ReaperCode, Unlocks, Preemptible, Buriers
  <2>4. CallArgs(t, "unl_off", c)' /\ Roles(t, "unl_off", c)'
    BY <1>1, <1>2, <1>5, <1>6, LifeObjects DEF Private, CallArgs, Roles, Allocates, WakePoints, Has, Frees, Sections, Unlocks, JoinCode, Buriers, Preemptible, Yields
  <2> QED BY <2>1, <2>2, <2>3, <2>4 DEF Private
<1>8. "unl_off" \in Points /\ "unl_off" \notin {"alloc_claim", "startonrunq"}
  BY DEF Points, ExitCode, Unlocks, Sections
<1>9. Puts(pt[t], c, "unl_off", c)
  BY <1>1, PutSteps
<1> QED BY <1>2, <1>3, <1>7, <1>8, <1>9, WakeEnds

\* uthread_cond_signal wakes the reaper.
LEMMA LifeSignalWake ==
    ASSUME NEW pt, NEW cx, Situation(pt, cx), NEW l \in LWPs, NEW t \in Threads, halted = "none",
           Wake(l, t), UNCHANGED <<mtxVars, lifeVars>>, pt[t] = "sig_wake"
    PROVE  LifeInv'
<1> DEFINE c == cx[t]
<1>1. /\ Running(l, t) /\ stack[t] # <<>> /\ pt[t] = "sig_wake" /\ c \in Buriers
      /\ ut_no_preempt_count[t] = Base(c) + 3 /\ Tail(stack[t]) = <<"nopreempt_off">> \o (<<"reap_unlock">> \o Below(c))
  <2>1. /\ Row(pt[t], c, ut_no_preempt_count[t], "wake", Tail(stack[t])) /\ stack[t] # <<>>
        /\ Running(l, t)
    BY AtPoint DEF Wake
  <2>2. /\ c \in Buriers /\ ut_no_preempt_count[t] = Base(c) + 3 /\ Tail(stack[t]) = <<"nopreempt_off">> \o (<<"reap_unlock">> \o Below(c))
    BY <2>1, RowOfSignalWake
  <2> QED BY <2>1, <2>2
<1>2. /\ Private(t, pt[t], c) /\ LifeTypeOK /\ c \in Contexts
      /\ ut_no_preempt_count[t] \in Nat /\ ut_no_preempt_count[t] > 1 /\ Base(c) \in Nat
  <2>1. Private(t, pt[t], c) /\ LifeTypeOK /\ c \in Contexts /\ ut_no_preempt_count[t] \in Nat
    BY DEF Situation, LifeInvAt, LifeTypeOK, SchedTypes
  <2>2. Base(c) \in Nat
    BY <2>1, BaseNat
  <2> QED BY <1>1, <2>1, <2>2
<1>3. pt[t] \in WakePoints
  BY <1>1 DEF WakePoints
<1>4. wakee[t] \in Threads \ {t}
  BY <1>2, <1>3, WakeChanges
<1>5. UNCHANGED <<curthr, swarg, newthr, marg, carg, crit, tgt>>
  BY <1>2, <1>3, WakeChanges
<1>6. /\ stack'[t] = <<"nopreempt_off">> \o (<<"reap_unlock">> \o Below(c)) /\ ut_no_preempt_count'[t] = (Base(c) + 3) - 1
      /\ wakee'[t] = NoThread /\ ut_state'[t] = ut_state[t]
  <2>1. /\ stack'[t] = Tail(stack[t]) /\ ut_no_preempt_count'[t] = ut_no_preempt_count[t] - 1
        /\ wakee'[t] = NoThread
    BY <1>2, <1>3, WakeTypes
  <2>2. \A v \in Threads \ {wakee[t]} : ut_state'[v] = ut_state[v]
    BY <1>2, <1>3, WakeTypes
  <2>3. Tail(stack[t]) = <<"nopreempt_off">> \o (<<"reap_unlock">> \o Below(c)) /\ ut_no_preempt_count[t] = Base(c) + 3
    BY <1>1
  <2>4. ut_state'[t] = ut_state[t]
    BY <1>4, <2>2
  <2>5. stack'[t] = <<"nopreempt_off">> \o (<<"reap_unlock">> \o Below(c))
    <3>1. stack'[t] = Tail(stack[t])
      BY <2>1
    <3>2. Tail(stack[t]) = <<"nopreempt_off">> \o (<<"reap_unlock">> \o Below(c))
      BY <2>3
    <3> QED BY <3>1, <3>2
  <2>6. ut_no_preempt_count'[t] = (Base(c) + 3) - 1
    <3>1. ut_no_preempt_count'[t] = ut_no_preempt_count[t] - 1
      BY <2>1
    <3>2. ut_no_preempt_count[t] = Base(c) + 3
      BY <2>3
    <3> QED BY <3>1, <3>2
  <2> QED BY <2>1, <2>4, <2>5, <2>6
<1>7. Private(t, "sig_off", c)'
  <2>1. Is("sig_off", c, ut_no_preempt_count[t], stack[t])'
    <3>1. BurialRow("sig_off", c, Base(c) + 2, "nopreempt_off", <<"reap_unlock">> \o Below(c))
      BY <1>1 DEF BurialRow
    <3>2. /\ stack'[t] # <<>> /\ Head(stack'[t]) = "nopreempt_off"
          /\ Tail(stack'[t]) = <<"reap_unlock">> \o Below(c)
      <4>1. "reap_unlock" \in LifeNames /\ "nopreempt_off" \in LifeNames /\ Below(c) \in Seq(LifeNames)
        BY <1>2, BelowType, NamesKnown
      <4>2. <<"reap_unlock">> \o Below(c) \in Seq(LifeNames)
        BY <4>1, AfterCons
      <4> QED BY <1>6, <4>1, <4>2, AfterCons
    <3>3. ut_no_preempt_count'[t] = Base(c) + 2
      BY <1>2, <1>6
    <3> QED BY <3>1, <3>2, <3>3 DEF Is, Row
  <2>2. ModeOf("sig_off", c, OnLwp(t), ut_state[t])'
    <3>1. ut_state[t] = StateOn(pt[t], c)
      BY <1>1, OneRuns
    <3>2. ut_state'[t] = StateOn("sig_off", c)
      BY <1>1, <1>6, <3>1 DEF StateOn
    <3> QED BY <1>1, <1>5, <3>2, StaysOn
  <2>3. SwitchArgs(t, "sig_off")' /\ LockArgs(t, "sig_off", c)'
    BY <1>1, <1>2, <1>5, LifeObjects DEF Private, SwitchArgs, LockArgs, InSection, Settling, CondWaits, Sections, ReaperCode, Unlocks, Preemptible, Buriers
  <2>4. CallArgs(t, "sig_off", c)' /\ Roles(t, "sig_off", c)'
    BY <1>1, <1>2, <1>5, <1>6, LifeObjects DEF Private, CallArgs, Roles, Allocates, WakePoints, Has, Frees, Sections, Unlocks, JoinCode, Buriers, Preemptible, Yields
  <2> QED BY <2>1, <2>2, <2>3, <2>4 DEF Private
<1>8. "sig_off" \in Points /\ "sig_off" \notin {"alloc_claim", "startonrunq"}
  BY DEF Points, ExitCode, Unlocks, Sections
<1>9. Puts(pt[t], c, "sig_off", c)
  BY <1>1, PutSteps
<1> QED BY <1>2, <1>3, <1>7, <1>8, <1>9, WakeEnds

\* A thread that was created joins the run queue.
LEMMA StartChanges ==
    ASSUME NEW pt, NEW cx, Situation(pt, cx), NEW l \in LWPs, NEW t \in Threads, halted = "none",
           NEW prio \in Prios, StartOnRunq(l, t, prio), UNCHANGED <<mtxVars, lifeVars>>
    PROVE  /\ Running(l, t) /\ pt[t] = "startonrunq" /\ cx[t] = "client"
           /\ ut_no_preempt_count[t] = 1 /\ stack[t] # <<>> /\ Tail(stack[t]) = <<>>
           /\ newthr[t] \in Threads \ {t} /\ ut_state[newthr[t]] = "UT_TRANSITION" /\ ~OnLwp(newthr[t])
           /\ pt[newthr[t]] = "off" /\ newthr[t] \notin claimed /\ wakee[t] = NoThread
           /\ \A o \in Objs : ~InQueue(o, newthr[t])
<1>1. /\ Row(pt[t], cx[t], ut_no_preempt_count[t], "startonrunq", Tail(stack[t]))
      /\ stack[t] # <<>> /\ Running(l, t)
  BY AtPoint DEF StartOnRunq
<1>2. pt[t] = "startonrunq" /\ cx[t] = "client" /\ ut_no_preempt_count[t] = 1
  BY <1>1, RowsOfClients
<1>3. Tail(stack[t]) = <<>>
  BY <1>1, RowsOfClients
<1>4. Private(t, pt[t], cx[t]) /\ LifeTypeOK /\ NewRight(pt) /\ WaitsRight(pt) /\ OnLwp(t)
  BY <1>1 DEF Situation, LifeInvAt, OnLwp
<1>5. newthr[t] \in Threads /\ wakee[t] = NoThread
  BY <1>2, <1>4 DEF Private, CallArgs, Allocates, WakePoints, LifeTypeOK, SchedTypes
<1>6. ut_state[newthr[t]] = "UT_TRANSITION" /\ pt[newthr[t]] = "off" /\ newthr[t] \notin claimed
  BY <1>2, <1>4, <1>5, LifeObjects DEF NewRight
<1>7. ~OnLwp(newthr[t])
  <2>1. ModeOf(pt[newthr[t]], cx[newthr[t]], OnLwp(newthr[t]), ut_state[newthr[t]])
    BY <1>5 DEF Situation, LifeInvAt, Private
  <2> QED BY <1>6, <2>1 DEF ModeOf, StateOn
<1>8. \A o \in Objs : ~InQueue(o, newthr[t])
  BY <1>4, <1>6 DEF WaitsRight, WaitqOK, InQueue
<1> QED BY <1>1, <1>2, <1>3, <1>4, <1>5, <1>6, <1>7, <1>8

\* A new thread has one creator.
LEMMA OneCreator ==
    ASSUME NEW pt, NewRight(pt), LifeTypeOK, NEW t \in Threads, newthr[t] \in Threads
    PROVE  \A v \in Threads : newthr[v] \in Threads \cup {NoThread} /\ (newthr[v] = newthr[t] => v = t)
<1>1. newthr[t] # NoThread
  BY LifeObjects
<1>2. \A v \in Threads : newthr[v] = newthr[t] => t = v
  BY <1>1 DEF NewRight
<1>3. \A v \in Threads : newthr[v] \in Threads \cup {NoThread}
  BY DEF LifeTypeOK, SchedTypes
<1> QED BY <1>2, <1>3

LEMMA LifeStart ==
    ASSUME NEW pt, NEW cx, Situation(pt, cx), NEW l \in LWPs, NEW t \in Threads, halted = "none",
           NEW prio \in Prios, StartOnRunq(l, t, prio), UNCHANGED <<mtxVars, lifeVars>>
    PROVE  LifeInv'
<1>1. PICK u \in Threads \ {t} : u = newthr[t]
  BY StartChanges
<1>2. /\ Running(l, t) /\ pt[t] = "startonrunq" /\ cx[t] = "client"
      /\ ut_no_preempt_count[t] = 1 /\ stack[t] # <<>> /\ Tail(stack[t]) = <<>>
      /\ ut_state[u] = "UT_TRANSITION" /\ ~OnLwp(u) /\ pt[u] = "off" /\ u \notin claimed
      /\ wakee[t] = NoThread /\ \A o \in Objs : ~InQueue(o, u)
  BY <1>1, StartChanges
<1>3. /\ Private(t, "startonrunq", "client") /\ LifeTypeOK /\ NewRight(pt)
      /\ ut_state[t] = "UT_ON_CPU"
  <2>1. ut_state[t] = StateOn(pt[t], cx[t])
    BY <1>2, OneRuns
  <2> QED BY <1>2, <2>1 DEF Situation, LifeInvAt, StateOn
<1>4. /\ ut_prio' = [ut_prio EXCEPT ![u] = prio] /\ ut_state' = [ut_state EXCEPT ![u] = "UT_RUNNABLE"]
      /\ runq' = Enqueued(runq, prio, u) /\ tq_size' = SizeUp(tq_size, prio)
      /\ lwp' \in Released(runq, lwp) /\ NopreemptOff(t) /\ newthr' = [newthr EXCEPT ![t] = NoThread]
      /\ Continue(t, <<>>) /\ runq_mtx = NoLwp
  BY <1>1, <1>2 DEF StartOnRunq
<1>5. UNCHANGED <<curthr, runq_mtx, waitq, pmut, swarg, wakee, sparg, halted, m_owner, marg, carg,
                  crit, ut_detached, reap_queue, tgt, claimed>>
  BY <1>1, <1>2 DEF StartOnRunq, waitVars, mtxVars, lifeVars
<1>6. /\ stack' \in [Threads -> Seq(LifeNames)] /\ stack'[t] = <<>>
      /\ \A v \in Threads \ {t} : stack'[v] = stack[v]
  BY <1>2, <1>3, <1>4, LifeContinue
<1>7. /\ ut_no_preempt_count' \in [Threads -> Nat] /\ ut_no_preempt_count'[t] = 0
      /\ \A v \in Threads \ {t} : ut_no_preempt_count'[v] = ut_no_preempt_count[v]
  BY <1>2, <1>3, <1>4 DEF NopreemptOff, LifeTypeOK, SchedTypes
<1>8. /\ newthr' \in [Threads -> Threads \cup {NoThread}] /\ newthr'[t] = NoThread
      /\ \A v \in Threads \ {t} : newthr'[v] = newthr[v]
  BY <1>3, <1>4 DEF LifeTypeOK, SchedTypes
<1>9. /\ ut_state' \in [Threads -> UtStates] /\ ut_state'[u] = "UT_RUNNABLE"
      /\ \A v \in Threads \ {u} : ut_state'[v] = ut_state[v]
      /\ ut_prio' \in [Threads -> Prios \cup {-1}] /\ ut_prio'[u] = prio
      /\ \A v \in Threads \ {u} : ut_prio'[v] = ut_prio[v]
  BY <1>3, <1>4 DEF LifeTypeOK, SchedTypes, UtStates
<1>10. runq' \in [Prios -> Seq(Threads)] /\ tq_size' \in [Prios -> Int]
  BY <1>3, <1>4, EnqueuedType DEF LifeTypeOK, SchedTypes
<1>11. lwp' \in [LWPs -> {"unborn", "running", "parked", "signalled"}]
  BY <1>3, <1>4, ReleasedType DEF LifeTypeOK, SchedTypes
<1>12. LifeTypeOK'
  BY <1>3, <1>5, <1>6, <1>7, <1>8, <1>9, <1>10, <1>11 DEF LifeTypeOK, SchedTypes, LifeNames
<1>13. PICK pq \in [Threads -> Points], cd \in [Threads -> Contexts] :
          Moves(pt, pq, t, "rest") /\ Moves(cx, cd, t, "client")
  <2>1. "rest" \in Points /\ "client" \in Contexts
    BY DEF Points, Contexts, Preemptible
  <2> QED BY <2>1, MovesExist DEF Situation
<1>14. /\ pq[t] = "rest" /\ cd[t] = "client"
       /\ \A v \in Threads \ {t} : pq[v] = pt[v] /\ cd[v] = cx[v]
  BY <1>13 DEF Moves
<1>15. Private(t, "rest", "client")'
  <2>1. Is("rest", "client", ut_no_preempt_count[t], stack[t])'
    BY <1>6, <1>7 DEF Is
  <2>2. ModeOf("rest", "client", OnLwp(t), ut_state[t])'
    <3>1. ut_state'[t] = StateOn("rest", "client")
      BY <1>1, <1>3, <1>9 DEF StateOn
    <3> QED BY <1>2, <1>5, <3>1, StaysOn
  <2>3. SwitchArgs(t, "rest")' /\ LockArgs(t, "rest", "client")'
    BY <1>3, <1>5 DEF Private, SwitchArgs, LockArgs, InSection, Settling, CondWaits, Sections, ReaperCode,
                      Unlocks, Preemptible, Buriers
  <2>4. CallArgs(t, "rest", "client")' /\ Roles(t, "rest", "client")'
    BY <1>2, <1>3, <1>5, <1>8 DEF Private, CallArgs, Roles, Allocates, WakePoints, Has, Frees, Sections,
                      Unlocks, JoinCode, Buriers, Preemptible, Yields
  <2> QED BY <2>1, <2>2, <2>3, <2>4 DEF Private
<1>16. Enqueues(pt, cx, pq, cd, l, t, u, prio)
  <2>1. \A v \in Threads \ {t} : KeptArgs(v)
    BY <1>5, <1>6, <1>7, <1>8 DEF KeptArgs
  <2>2. ut_state[u] \in {"UT_WAIT", "UT_TRANSITION"} /\ pt[u] \in {"off"} \cup Woken
    BY <1>2
  <2>3. runq_mtx' = NoLwp /\ wakee'[t] = NoThread
    BY <1>2, <1>4, <1>5
  <2> QED BY <1>1, <1>2, <1>4, <1>5, <1>9, <1>14, <2>1, <2>2, <2>3 DEF Enqueues
<1>17. NewRight(pq)'
  <2>1. \A v \in Threads \ {t} : pt[v] \in Resting
    BY <1>2, OneRuns, OffLwpRests
  <2>2. \A v \in Threads : newthr[v] \in Threads \cup {NoThread} /\ (newthr[v] = u => v = t)
    BY <1>1, <1>3, OneCreator
  <2>3. ASSUME NEW v \in Threads, newthr'[v] # NoThread
        PROVE  /\ ut_state'[newthr'[v]] = IF pq[v] = "alloc_claim" THEN "UT_NO_STATE" ELSE "UT_TRANSITION"
               /\ pq[v] # "startonrunq" /\ \A x \in Threads : newthr'[x] = newthr'[v] => v = x
    <3>1. v # t /\ newthr'[v] = newthr[v] /\ newthr[v] \in Threads \ {u} /\ pq[v] = pt[v]
          /\ pt[v] \notin {"alloc_claim", "startonrunq"}
      BY <1>8, <1>14, <2>1, <2>2, <2>3 DEF Resting
    <3>2. /\ ut_state[newthr[v]] = "UT_TRANSITION"
          /\ \A x \in Threads : newthr[x] = newthr[v] => v = x
      BY <1>3, <2>3, <3>1 DEF NewRight
    <3>3. ut_state'[newthr[v]] = "UT_TRANSITION"
      BY <1>9, <3>1, <3>2
    <3>4. \A x \in Threads : newthr'[x] = newthr[v] => v = x
      BY <1>8, <2>3, <3>1, <3>2
    <3> QED BY <3>1, <3>3, <3>4
  <2>4. ASSUME NEW v \in Threads, ut_state'[v] = "UT_TRANSITION" PROVE \E x \in Threads : newthr'[x] = v
    <3>1. v # u /\ ut_state[v] = "UT_TRANSITION"
      BY <1>9, <2>4
    <3>2. PICK x \in Threads : newthr[x] = v
      BY <1>3, <3>1 DEF NewRight
    <3> QED BY <1>1, <1>8, <3>1, <3>2
  <2>5. ASSUME NEW v \in Threads, ut_state'[v] = "UT_NO_STATE" PROVE pq[v] = "free"
    <3>1. v # u /\ v # t /\ ut_state[v] = "UT_NO_STATE"
      BY <1>3, <1>9, <2>5
    <3> QED BY <1>3, <1>14, <3>1 DEF NewRight
  <2> QED BY <2>3, <2>4, <2>5 DEF NewRight
<1>18. Puts(pt[t], cx[t], pq[t], cd[t])
  BY <1>2, <1>14, PutSteps
<1>19. Private(t, pq[t], cd[t])'
  BY <1>14, <1>15
<1> QED BY <1>12, <1>16, <1>17, <1>18, <1>19, EnqueueEnds

-----------------------------------------------------------------------------
(* The steps by which a thread makes, or frees, the slot of another one.   *)

Makes(p, c, q, d) ==
    \/ p = "alloc_claim" /\ c = "client" /\ q = "rest" /\ d = "create_init"
    \/ p = "rest" /\ c = "create_init" /\ q = "startonrunq" /\ d = "client"
    \/ p = "reaper_destroy" /\ c = "reaper_loop" /\ q = "reaper_scan" /\ d = "reaper_loop"

LEMMA MakeSteps ==
    ASSUME NEW p, NEW c, NEW q, NEW d, Makes(p, c, q, d)
    PROVE  /\ ~Has(q, d) /\ ~Frees(p, c) /\ ~Frees(q, d) /\ (Has(p, c) => p = "reaper_destroy")
           /\ ~Joins(q, d) /\ ~HasDead(q, d) /\ ~Passed(p, c) /\ ~Gone(p, c) /\ ~Gone(q, d)
           /\ ~Settling(q, d) /\ c # "exit" /\ d # "exit"
           /\ InSection(q, d) <=> InSection(p, c)
           /\ {p, q} \cap {"mtx_locked", "mtx_switch", "join_switch", "join_woken", "detach_check", "dead",
                           "cond_signal", "cond_relock", "reaper_scan", "free", "off"} \subseteq {"reaper_scan"}
           /\ p # "reaper_scan"
           /\ \A t, o : ~Locks(t, p, c, o) /\ ~Locks(t, q, d, o)
<1>1. ~Has(q, d) /\ ~Frees(p, c) /\ ~Frees(q, d) /\ (Has(p, c) => p = "reaper_destroy")
  BY DEF Makes, Has, Frees, JoinCode, Buriers, Sections, Unlocks
<1>2. ~Joins(q, d) /\ ~HasDead(q, d) /\ ~Passed(p, c) /\ ~Gone(p, c) /\ ~Gone(q, d)
  BY <1>1 DEF Makes, Joins, HasDead, Passed, Gone
<1>3. ~Settling(q, d) /\ c # "exit" /\ d # "exit" /\ p # "reaper_scan"
  BY DEF Makes, Settling, Unlocks
<1>4. InSection(q, d) <=> InSection(p, c)
  BY DEF Makes, InSection, Sections, ReaperCode
<1>5. {p, q} \cap {"mtx_locked", "mtx_switch", "join_switch", "join_woken", "detach_check", "dead",
                   "cond_signal", "cond_relock", "reaper_scan", "free", "off"} \subseteq {"reaper_scan"}
  BY DEF Makes
<1>6. \A t, o : ~Locks(t, p, c, o) /\ ~Locks(t, q, d, o)
  BY DEF Makes, Locks, Frees, Sections, Unlocks, Buriers
<1> QED BY <1>1, <1>2, <1>3, <1>4, <1>5, <1>6

\* Thread t makes a slot of u, which no LWP runs.
Reworks(pt, cx, pq, cd, l, t, u) ==
    /\ Situation(pt, cx) /\ l \in LWPs /\ Running(l, t) /\ u \in Threads \ {t} /\ ~OnLwp(u)
    /\ ut_state[u] \in Unborn \cup {"UT_ZOMBIE"} /\ ut_state'[u] \in Unborn
    /\ \A v \in Threads \ {u} : ut_state'[v] = ut_state[v] /\ ut_prio'[v] = ut_prio[v]
    /\ \A v \in Threads \ {t, u} : Kept(v) /\ pq[v] = pt[v] /\ cd[v] = cx[v]
    /\ pt[u] \in {"free", "off", "dead"} /\ pq[u] \in {"free", "off"} /\ cd[u] = "client"
    /\ tgt'[u] = tgt[u] /\ ~InReapQueue(u)
    /\ \A v \in Threads \ {t} : Has(pt[v], cx[v]) => tgt[v] # u
    /\ pt[t] = "reaper_destroy" => tgt[t] = u
    /\ ut_state'[Reaper] # "UT_NO_STATE" /\ (t = Reaper => pq[t] = "reaper_scan")
    /\ claimed' \subseteq claimed /\ \A v \in Threads \ {u} : v \in claimed => v \in claimed'
    /\ \A v \in Threads \ {u} : ut_detached'[v] = ut_detached[v]
    /\ ut_detached'[u] => ut_detached[u] /\ u \in claimed'
    /\ Makes(pt[t], cx[t], pq[t], cd[t])
    /\ UNCHANGED <<curthr, lwp, runq, tq_size, runq_mtx, waitq, pmut, wakee, newthr, halted, m_owner, reap_queue>>

LEMMA ReworkRunq ==
    ASSUME NEW pt, NEW cx, NEW pq, NEW cd, NEW l, NEW t \in Threads, NEW u,
           Reworks(pt, cx, pq, cd, l, t, u)
    PROVE  RunqRight'
<1>0. /\ RunqRight /\ u \in Threads
      /\ \A v \in Threads \ {u} : ut_state'[v] = ut_state[v] /\ ut_prio'[v] = ut_prio[v]
      /\ ut_state[u] # "UT_RUNNABLE" /\ ut_state'[u] \in {"UT_NO_STATE", "UT_TRANSITION"}
      /\ UNCHANGED <<curthr, lwp, runq, tq_size, runq_mtx>>
  BY DEF Reworks, Situation, LifeInvAt, Unborn
<1>1. runq_mtx' = NoLwp /\ LwpOK' /\ QueueCountsAgree'
  BY <1>0 DEF RunqRight, LwpOK, QueueCountsAgree
<1>2. PrioOK'
  BY <1>0 DEF RunqRight, PrioOK
<1>3. RunqOK'
  <2>1. \A p \in Prios : \A i \in 1..Len(runq[p]) : runq[p][i] \in Threads
    BY DEF Reworks, Situation, LifeInvAt, LifeTypeOK, SchedTypes
  <2>2. \A p \in Prios : \A i \in 1..Len(runq[p]) : runq[p][i] # u
    BY <1>0 DEF RunqRight, RunqOK
  <2> QED BY <1>0, <2>1, <2>2 DEF RunqRight, RunqOK, OnNoLwp
<1>4. \A v \in Threads : ut_state'[v] = "UT_RUNNABLE" /\ ~OnLwp(v)' => Queued(v)'
  <2>1. \A v : (OnLwp(v)' <=> OnLwp(v)) /\ (Queued(v)' <=> Queued(v))
    BY <1>0 DEF OnLwp, Running, Queued
  <2> QED BY <1>0, <2>1 DEF RunqRight
<1> QED BY <1>1, <1>2, <1>3, <1>4 DEF RunqRight

LEMMA ReworkFrame ==
    ASSUME NEW pt, NEW cx, NEW pq, NEW cd, NEW l, NEW t \in Threads, NEW u,
           Reworks(pt, cx, pq, cd, l, t, u)
    PROVE  /\ \A v : OnLwp(v)' <=> OnLwp(v)
           /\ \A o, v : InQueue(o, v)' <=> InQueue(o, v)
           /\ \A v : InReapQueue(v)' <=> InReapQueue(v)
           /\ \A v \in Threads \ {t, u} : Private(v, pq[v], cd[v])'
           /\ \A v \in Threads \ {t, u} : tgt'[v] = tgt[v] /\ pq[v] = pt[v] /\ cd[v] = cx[v]
           /\ \A o \in Objs : ~InQueue(o, u) /\ ~InQueue(o, t)
           /\ cx[u] \in {"exit", "client"}
<1>1. /\ \A v : OnLwp(v)' <=> OnLwp(v)
      /\ \A o, v : InQueue(o, v)' <=> InQueue(o, v)
      /\ \A v : InReapQueue(v)' <=> InReapQueue(v)
  BY DEF Reworks, OnLwp, Running, InQueue, InReapQueue
<1>2. \A v \in Threads \ {t, u} : Kept(v) /\ tgt'[v] = tgt[v] /\ pq[v] = pt[v] /\ cd[v] = cx[v]
  BY DEF Reworks, Kept
<1>3. ASSUME NEW v \in Threads \ {t, u} PROVE Private(v, pq[v], cd[v])'
  <2>1. Private(v, pt[v], cx[v])
    BY DEF Reworks, Situation, LifeInvAt
  <2> QED BY <1>1, <1>2, <2>1, KeptPrivate
<1>4. \A o \in Objs : ~InQueue(o, t)
  BY OneRuns DEF Reworks
<1>5. \A o \in Objs : ~InQueue(o, u)
  <2>1. WaitqOK /\ ut_state[u] # "UT_WAIT"
    BY DEF Reworks, Situation, LifeInvAt, WaitsRight, Unborn
  <2> QED BY <2>1 DEF WaitqOK, InQueue
<1>6. cx[u] \in {"exit", "client"}
  <2>1. /\ StateOff(pt[u], cx[u], ut_state[u]) /\ (pt[u] = "dead" => cx[u] = "exit")
    BY OffLwpRests DEF Reworks
  <2>2. ut_state[u] \in {"UT_NO_STATE", "UT_TRANSITION", "UT_ZOMBIE"}
    BY DEF Reworks, Unborn
  <2>3. CASE ut_state[u] = "UT_ZOMBIE"
    BY <2>1, <2>3 DEF StateOff
  <2>4. CASE ut_state[u] # "UT_ZOMBIE"
    BY <2>1, <2>2, <2>4 DEF StateOff
  <2> QED BY <2>3, <2>4
<1> QED BY <1>1, <1>2, <1>3, <1>4, <1>5, <1>6

LEMMA ReworkWaits ==
    ASSUME NEW pt, NEW cx, NEW pq, NEW cd, NEW l, NEW t \in Threads, NEW u,
           Reworks(pt, cx, pq, cd, l, t, u)
    PROVE  WaitsRight(pq)'
<1>0. /\ WaitsRight(pt) /\ u \in Threads
      /\ \A v \in Threads \ {u} : ut_state'[v] = ut_state[v]
      /\ ut_state[u] # "UT_WAIT" /\ ut_state'[u] # "UT_WAIT"
      /\ UNCHANGED <<curthr, waitq, wakee>>
  BY DEF Reworks, Situation, LifeInvAt, Unborn
<1>1. /\ \A v : OnLwp(v)' <=> OnLwp(v)
      /\ \A o, v : InQueue(o, v)' <=> InQueue(o, v)
      /\ \A v \in Threads \ {t, u} : tgt'[v] = tgt[v] /\ pq[v] = pt[v]
      /\ \A o \in Objs : ~InQueue(o, u) /\ ~InQueue(o, t)
  <2>1. \A v : OnLwp(v)' <=> OnLwp(v)
    BY ReworkFrame
  <2>2. \A o, v : InQueue(o, v)' <=> InQueue(o, v)
    BY ReworkFrame
  <2>3. \A v \in Threads \ {t, u} : tgt'[v] = tgt[v] /\ pq[v] = pt[v]
    <3>1. ASSUME NEW v \in Threads \ {t, u} PROVE tgt'[v] = tgt[v] /\ pq[v] = pt[v]
      BY DEF Reworks, Kept
    <3> QED BY <3>1
  <2>4. \A o \in Objs : ~InQueue(o, u) /\ ~InQueue(o, t)
    <3>1. \A o \in Objs : ~InQueue(o, u)
      BY ReworkFrame
    <3>2. \A o \in Objs : ~InQueue(o, t)
      BY ReworkFrame
    <3> QED BY <3>1, <3>2
  <2> QED BY <2>1, <2>2, <2>3, <2>4
<1>2. WaitqOK'
  <2>1. \A o \in Objs : \A i \in 1..Len(waitq[o]) : waitq[o][i] \in Threads
    BY DEF Reworks, Situation, LifeInvAt, LifeTypeOK, SchedTypes
  <2>2. \A o \in Objs : \A i \in 1..Len(waitq[o]) : waitq[o][i] # u
    BY <1>1 DEF InQueue
  <2> QED BY <1>0, <2>1, <2>2 DEF WaitsRight, WaitqOK, OnNoLwp
<1>3. \A v \in Threads :
          /\ InQueue(reap_mtx, v)' => pq[v] = "mtx_locked"
          /\ InQueue(reap_cond, v)' => pq[v] = "cond_relock"
          /\ \A x \in Threads : InQueue(x, v)' => pq[v] = "join_woken" /\ tgt'[v] = x
  BY <1>0, <1>1, LifeObjects DEF WaitsRight
<1>4. \A v \in Threads : wakee'[v] # NoThread =>
          /\ ut_state'[wakee'[v]] = "UT_WAIT" /\ ~OnLwp(wakee[v])'
          /\ \A o \in Objs : ~InQueue(o, wakee[v])'
  <2>1. \A v \in Threads : wakee[v] \in Threads \cup {NoThread}
    BY DEF Reworks, Situation, LifeInvAt, LifeTypeOK, SchedTypes
  <2> QED BY <1>0, <1>1, <2>1 DEF WaitsRight
<1>5. \A v \in Threads : ut_state'[v] = "UT_WAIT" /\ ~OnLwp(v)' =>
          \/ \E o \in Objs : InQueue(o, v)'
          \/ \E x \in Threads : wakee'[x] = v
  BY <1>0, <1>1 DEF WaitsRight
<1> QED BY <1>2, <1>3, <1>4, <1>5 DEF WaitsRight

\* What the other threads do, seen from the slot that changes.
LEMMA ReworkSlots ==
    ASSUME NEW pt, NEW cx, NEW pq, NEW cd, NEW l, NEW t \in Threads, NEW u,
           Reworks(pt, cx, pq, cd, l, t, u)
    PROVE  /\ Makes(pt[t], cx[t], pq[t], cd[t]) /\ u \in Threads /\ u # t
           /\ pt[u] \in {"free", "off", "dead"} /\ pq[u] \in {"free", "off"} /\ cd[u] = "client"
           /\ cx[u] \in {"exit", "client"} /\ (pt[u] = "dead" => cx[u] = "exit")
           /\ pt[t] = "reaper_destroy" => tgt[t] = u
<1>1. /\ Situation(pt, cx) /\ Running(l, t) /\ u \in Threads /\ ~OnLwp(u)
  BY DEF Reworks
<1>2. pt[u] = "dead" => cx[u] = "exit"
  BY <1>1, OffLwpRests
<1>3. cx[u] \in {"exit", "client"}
  BY ReworkFrame
<1> QED BY <1>2, <1>3 DEF Reworks

LEMMA ReworkOthers ==
    ASSUME NEW pt, NEW cx, NEW pq, NEW cd, NEW l, NEW t \in Threads, NEW u,
           Reworks(pt, cx, pq, cd, l, t, u), NEW v \in Threads \ {t, u}
    PROVE  /\ pq[v] = pt[v] /\ cd[v] = cx[v] /\ tgt'[v] = tgt[v]
           /\ ~Frees(pt[v], cx[v]) /\ (Has(pt[v], cx[v]) => tgt[v] # u)
<1>1. pq[v] = pt[v] /\ cd[v] = cx[v] /\ tgt'[v] = tgt[v] /\ (Has(pt[v], cx[v]) => tgt[v] # u)
  BY DEF Reworks, Kept
<1>2. ~OnLwp(v) /\ Situation(pt, cx)
  BY OneRuns DEF Reworks
<1> QED BY <1>1, <1>2, OffLwpRests

LEMMA ReworkHas ==
    ASSUME NEW pt, NEW cx, NEW pq, NEW cd, NEW l, NEW t \in Threads, NEW u,
           Reworks(pt, cx, pq, cd, l, t, u), NEW v \in Threads
    PROVE  /\ Has(pq[v], cd[v]) => Has(pt[v], cx[v]) /\ tgt'[v] = tgt[v] /\ tgt[v] # u
           /\ Has(pt[v], cx[v]) /\ tgt[v] # u => Has(pq[v], cd[v]) /\ tgt'[v] = tgt[v]
           /\ ~Frees(pq[v], cd[v])
<1>1. CASE v = t
  <2>1. Makes(pt[t], cx[t], pq[t], cd[t]) /\ (pt[t] = "reaper_destroy" => tgt[t] = u) /\ u # t
    BY ReworkSlots
  <2>2. ~Has(pq[t], cd[t])
    BY <2>1, MakeSteps
  <2>3. ~Frees(pq[t], cd[t])
    BY <2>1, MakeSteps
  <2>4. Has(pt[t], cx[t]) => pt[t] = "reaper_destroy"
    BY <2>1, MakeSteps
  <2> QED BY <1>1, <2>1, <2>2, <2>3, <2>4
<1>2. CASE v = u
  <2>1. /\ pt[u] \in {"free", "off", "dead"} /\ pq[u] \in {"free", "off"} /\ cd[u] = "client" /\ u # t
        /\ cx[u] \in {"exit", "client"} /\ (pt[u] = "dead" => cx[u] = "exit")
    BY ReworkSlots
  <2>2. ~Has(pq[u], cd[u]) /\ ~Has(pt[u], cx[u])
    BY <2>1 DEF Has, JoinCode, Buriers
  <2>3. ~Frees(pq[u], cd[u])
    BY <2>1 DEF Frees, Sections, Unlocks, Buriers
  <2> QED BY <1>2, <2>2, <2>3
<1>3. CASE v # t /\ v # u
  <2>1. /\ pq[v] = pt[v] /\ cd[v] = cx[v] /\ tgt'[v] = tgt[v]
        /\ ~Frees(pt[v], cx[v]) /\ (Has(pt[v], cx[v]) => tgt[v] # u)
    BY <1>3, ReworkOthers
  <2> QED BY <1>3, <2>1
<1> QED BY <1>1, <1>2, <1>3

LEMMA ReworkTargets ==
    ASSUME NEW pt, NEW cx, NEW pq, NEW cd, NEW l, NEW t \in Threads, NEW u,
           Reworks(pt, cx, pq, cd, l, t, u), NEW v \in Threads
    PROVE  /\ Joins(pq[v], cd[v]) => Joins(pt[v], cx[v])
           /\ HasDead(pq[v], cd[v]) => HasDead(pt[v], cx[v])
           /\ pq[v] = "detach_check" => pt[v] = "detach_check"
<1>1. CASE v = t
  <2>1. Makes(pt[t], cx[t], pq[t], cd[t]) /\ (pt[t] = "reaper_destroy" => tgt[t] = u) /\ u # t
    BY ReworkSlots
  <2>2. ~Joins(pq[t], cd[t])
    BY <2>1, MakeSteps
  <2>3. ~HasDead(pq[t], cd[t])
    BY <2>1, MakeSteps
  <2>4. pq[t] # "detach_check"
    BY <2>1 DEF Makes
  <2> QED BY <1>1, <2>1, <2>2, <2>3, <2>4
<1>2. CASE v = u
  <2>1. /\ pt[u] \in {"free", "off", "dead"} /\ pq[u] \in {"free", "off"} /\ cd[u] = "client" /\ u # t
        /\ cx[u] \in {"exit", "client"} /\ (pt[u] = "dead" => cx[u] = "exit")
    BY ReworkSlots
  <2> QED BY <1>2, <2>1 DEF Has, Joins, HasDead, JoinCode, Buriers
<1>3. CASE v # t /\ v # u
  <2>1. /\ pq[v] = pt[v] /\ cd[v] = cx[v] /\ tgt'[v] = tgt[v]
        /\ ~Frees(pt[v], cx[v]) /\ (Has(pt[v], cx[v]) => tgt[v] # u)
    BY <1>3, ReworkOthers
  <2> QED BY <1>3, <2>1
<1> QED BY <1>1, <1>2, <1>3

LEMMA ReworkEnds ==
    ASSUME NEW pt, NEW cx, NEW pq, NEW cd, NEW l, NEW t \in Threads, NEW u,
           Reworks(pt, cx, pq, cd, l, t, u), NEW v \in Threads
    PROVE  /\ v # u => (Passed(pt[v], cx[v]) => Passed(pq[v], cd[v]))
           /\ v # u => (Gone(pq[v], cd[v]) <=> Gone(pt[v], cx[v]))
           /\ v # u /\ pt[v] = "dead" => pq[v] = "dead"
           /\ v # u /\ cd[v] = "exit" => cx[v] = "exit" /\ (pt[v] = "exit_check" => pq[v] = "exit_check")
<1>1. CASE v = t
  <2>1. Makes(pt[t], cx[t], pq[t], cd[t]) /\ (pt[t] = "reaper_destroy" => tgt[t] = u) /\ u # t
    BY ReworkSlots
  <2>2. ~Passed(pt[t], cx[t])
    BY <2>1, MakeSteps
  <2>3. ~Gone(pt[t], cx[t]) /\ ~Gone(pq[t], cd[t])
    BY <2>1, MakeSteps
  <2>4. cd[t] # "exit" /\ pt[t] # "dead"
    BY <2>1 DEF Makes
  <2> QED BY <1>1, <2>1, <2>2, <2>3, <2>4
<1>2. CASE v = u
  <2>1. /\ pt[u] \in {"free", "off", "dead"} /\ pq[u] \in {"free", "off"} /\ cd[u] = "client" /\ u # t
        /\ cx[u] \in {"exit", "client"} /\ (pt[u] = "dead" => cx[u] = "exit")
    BY ReworkSlots
  <2> QED BY <1>2, <2>1 DEF Passed, Gone
<1>3. CASE v # t /\ v # u
  <2>1. /\ pq[v] = pt[v] /\ cd[v] = cx[v] /\ tgt'[v] = tgt[v]
        /\ ~Frees(pt[v], cx[v]) /\ (Has(pt[v], cx[v]) => tgt[v] # u)
    BY <1>3, ReworkOthers
  <2> QED BY <1>3, <2>1
<1> QED BY <1>1, <1>2, <1>3

LEMMA ReworkElse ==
    ASSUME NEW pt, NEW cx, NEW pq, NEW cd, NEW l, NEW t \in Threads, NEW u,
           Reworks(pt, cx, pq, cd, l, t, u), NEW v \in Threads
    PROVE  /\ InSection(pq[v], cd[v]) <=> InSection(pt[v], cx[v])
           /\ pq[v] = "mtx_locked" <=> pt[v] = "mtx_locked"
           /\ pq[v] = "mtx_switch" <=> pt[v] = "mtx_switch"
           /\ pq[v] = "join_switch" <=> pt[v] = "join_switch"
           /\ pq[v] = "join_woken" <=> pt[v] = "join_woken"
           /\ pq[v] = "cond_signal" <=> pt[v] = "cond_signal"
           /\ Settling(pq[v], cd[v]) => Settling(pt[v], cx[v])
<1>1. CASE v = t
  <2>1. Makes(pt[t], cx[t], pq[t], cd[t]) /\ (pt[t] = "reaper_destroy" => tgt[t] = u) /\ u # t
    BY ReworkSlots
  <2>2. InSection(pq[t], cd[t]) <=> InSection(pt[t], cx[t])
    BY <2>1, MakeSteps
  <2>3. ~Settling(pq[t], cd[t])
    BY <2>1, MakeSteps
  <2>4. {pt[t], pq[t]} \cap {"mtx_locked", "mtx_switch", "join_switch", "join_woken", "cond_signal"} = {}
    BY <2>1, MakeSteps
  <2> QED BY <1>1, <2>1, <2>2, <2>3, <2>4
<1>2. CASE v = u
  <2>1. /\ pt[u] \in {"free", "off", "dead"} /\ pq[u] \in {"free", "off"} /\ cd[u] = "client" /\ u # t
        /\ cx[u] \in {"exit", "client"} /\ (pt[u] = "dead" => cx[u] = "exit")
    BY ReworkSlots
  <2> QED BY <1>2, <2>1 DEF InSection, Sections, ReaperCode, Settling, Unlocks
<1>3. CASE v # t /\ v # u
  <2>1. /\ pq[v] = pt[v] /\ cd[v] = cx[v] /\ tgt'[v] = tgt[v]
        /\ ~Frees(pt[v], cx[v]) /\ (Has(pt[v], cx[v]) => tgt[v] # u)
    BY <1>3, ReworkOthers
  <2> QED BY <1>3, <2>1
<1> QED BY <1>1, <1>2, <1>3

LEMMA ReworkLocks ==
    ASSUME NEW pt, NEW cx, NEW pq, NEW cd, NEW l, NEW t \in Threads, NEW u,
           Reworks(pt, cx, pq, cd, l, t, u), NEW v \in Threads
    PROVE  \A o : Locks(v, pq[v], cd[v], o)' <=> Locks(v, pt[v], cx[v], o)
<1>1. CASE v = t
  <2>1. Makes(pt[t], cx[t], pq[t], cd[t]) /\ (pt[t] = "reaper_destroy" => tgt[t] = u) /\ u # t
    BY ReworkSlots
  <2>2. \A x, o : ~Locks(x, pt[t], cx[t], o)
    BY <2>1, MakeSteps
  <2>3. \A x, o : ~Locks(x, pq[t], cd[t], o)
    BY <2>1, MakeSteps
  <2>4. \A o : ~Locks(t, pq[t], cd[t], o)'
    BY <2>1 DEF Makes, Locks, Frees, Sections, Unlocks, Buriers
  <2> QED BY <1>1, <2>1, <2>2, <2>3, <2>4
<1>2. CASE v = u
  <2>1. /\ pt[u] \in {"free", "off", "dead"} /\ pq[u] \in {"free", "off"} /\ cd[u] = "client" /\ u # t
        /\ cx[u] \in {"exit", "client"} /\ (pt[u] = "dead" => cx[u] = "exit")
    BY ReworkSlots
  <2> QED BY <1>2, <2>1 DEF Locks, Frees, Sections, Unlocks, Buriers
<1>3. CASE v # t /\ v # u
  <2>1. /\ pq[v] = pt[v] /\ cd[v] = cx[v] /\ tgt'[v] = tgt[v]
        /\ ~Frees(pt[v], cx[v]) /\ (Has(pt[v], cx[v]) => tgt[v] # u)
    BY <1>3, ReworkOthers
  <2> QED BY <1>3, <2>1 DEF Locks
<1> QED BY <1>1, <1>2, <1>3

LEMMA ReworkCustody ==
    ASSUME NEW pt, NEW cx, NEW pq, NEW cd, NEW l, NEW t \in Threads, NEW u,
           Reworks(pt, cx, pq, cd, l, t, u)
    PROVE  Custody(pq, cd)' /\ Targets(pq, cd)'
<1>1. /\ Custody(pt, cx) /\ Targets(pt, cx) /\ reap_queue' = reap_queue /\ u \in Threads
      /\ ~InReapQueue(u)
      /\ \A v \in Threads \ {u} : ut_state'[v] = ut_state[v] /\ ut_detached'[v] = ut_detached[v]
      /\ \A v \in Threads \ {u} : v \in claimed => v \in claimed'
      /\ ut_detached'[u] => u \in claimed'
  BY DEF Reworks, Situation, LifeInvAt
<1>2. \A v \in Threads : Has(pt[v], cx[v]) => tgt[v] \in Threads
  BY DEF Reworks, Situation, LifeInvAt, LifeTypeOK, Private, CallArgs
<1>3. \A v : InReapQueue(v)' <=> InReapQueue(v)
  BY <1>1 DEF InReapQueue
<1>4. \A v \in Threads : Has(pq[v], cd[v]) =>
         Has(pt[v], cx[v]) /\ tgt'[v] = tgt[v] /\ tgt[v] \in Threads \ {u}
  BY <1>2, ReworkHas
<1>5. ASSUME NEW v \in Threads, Has(pq[v], cd[v])
      PROVE  /\ ~InReapQueue(tgt[v])' /\ tgt'[v] \in claimed'
             /\ ut_state'[tgt'[v]] \notin {"UT_NO_STATE", "UT_TRANSITION"}
  <2>1. PICK x \in Threads \ {u} : x = tgt[v] /\ tgt'[v] = x /\ Has(pt[v], cx[v])
    BY <1>4, <1>5
  <2>2. ~InReapQueue(x) /\ x \in claimed /\ ut_state[x] \notin {"UT_NO_STATE", "UT_TRANSITION"}
    BY <1>1, <2>1 DEF Custody
  <2>3. \A a, b : a = b /\ ~InReapQueue(a)' => ~InReapQueue(b)'
    OBVIOUS
  <2> QED BY <1>1, <1>3, <2>1, <2>2, <2>3
<1>6. \A v, x \in Threads : Has(pq[v], cd[v]) /\ Has(pq[x], cd[x]) /\ tgt'[v] = tgt'[x] => v = x
  BY <1>1, <1>4 DEF Custody
<1>7. ASSUME NEW v \in Threads, InReapQueue(v)' PROVE v \in claimed' /\ Passed(pq[v], cd[v])
  <2>1. v # u /\ v \in claimed /\ Passed(pt[v], cx[v])
    BY <1>1, <1>3, <1>7 DEF Custody
  <2>2. Passed(pq[v], cd[v])
    BY <2>1, ReworkEnds
  <2> QED BY <1>1, <2>1, <2>2
<1>8. \A v \in Threads : ~Frees(pq[v], cd[v])
  BY ReworkHas
<1>9. Custody(pq, cd)'
  BY <1>1, <1>5, <1>6, <1>7, <1>8 DEF Custody
<1>10. \A v \in Threads : Joins(pq[v], cd[v]) => ~ut_detached'[tgt'[v]]
  <2>1. \A v \in Threads : Joins(pq[v], cd[v]) => Joins(pt[v], cx[v]) /\ Has(pq[v], cd[v])
    BY ReworkTargets DEF Joins
  <2> QED BY <1>1, <1>4, <2>1 DEF Targets
<1>11. \A v \in Threads : HasDead(pq[v], cd[v]) => pq[tgt'[v]] = "dead"
  <2>1. \A v \in Threads : HasDead(pq[v], cd[v]) => HasDead(pt[v], cx[v]) /\ Has(pq[v], cd[v])
    BY ReworkTargets DEF HasDead
  <2>2. \A v \in Threads \ {u} : pt[v] = "dead" => pq[v] = "dead"
    BY ReworkEnds
  <2> QED BY <1>1, <1>4, <2>1, <2>2 DEF Targets
<1>12. \A v \in Threads : pq[v] = "detach_check" => ut_detached'[tgt'[v]]
  <2>1. \A v \in Threads : pq[v] = "detach_check" => pt[v] = "detach_check" /\ Has(pq[v], cd[v])
    BY ReworkTargets DEF Has
  <2> QED BY <1>1, <1>4, <2>1 DEF Targets
<1>13. \A v \in Threads : ut_detached'[v] => v \in claimed'
  BY <1>1 DEF Targets
<1>14. Targets(pq, cd)'
  BY <1>10, <1>11, <1>12, <1>13 DEF Targets
<1> QED BY <1>9, <1>14

LEMMA ReworkCare ==
    ASSUME NEW pt, NEW cx, NEW pq, NEW cd, NEW l, NEW t \in Threads, NEW u,
           Reworks(pt, cx, pq, cd, l, t, u)
    PROVE  CaredFor(pq, cd)'
<1>1. /\ CaredFor(pt, cx) /\ claimed \subseteq Threads /\ claimed' \subseteq claimed
      /\ ut_state'[u] \in {"UT_NO_STATE", "UT_TRANSITION"} /\ reap_queue' = reap_queue
      /\ \A v \in Threads \ {u} : ut_state'[v] = ut_state[v] /\ ut_detached'[v] = ut_detached[v]
  BY DEF Reworks, Situation, LifeInvAt, LifeTypeOK, Unborn
<1>2. \A v : InReapQueue(v)' <=> InReapQueue(v)
  BY <1>1 DEF InReapQueue
<1>3. ASSUME NEW v \in claimed', v # u
      PROVE  \/ ut_state'[v] \in {"UT_NO_STATE", "UT_TRANSITION"} \/ InReapQueue(v)'
             \/ ut_detached'[v] /\ (cd[v] = "exit" => pq[v] = "exit_check")
             \/ \E x \in Threads : Has(pq[x], cd[x]) /\ tgt'[x] = v
  <2>1. v \in claimed /\ v \in Threads /\ ut_state'[v] = ut_state[v] /\ ut_detached'[v] = ut_detached[v]
    BY <1>1, <1>3
  <2>2. \/ ut_state[v] \in {"UT_NO_STATE", "UT_TRANSITION"} \/ InReapQueue(v)
        \/ ut_detached[v] /\ (cx[v] = "exit" => pt[v] = "exit_check")
        \/ \E x \in Threads : Has(pt[x], cx[x]) /\ tgt[x] = v
    BY <1>1, <2>1 DEF CaredFor
  <2>3. cd[v] = "exit" => cx[v] = "exit" /\ (pt[v] = "exit_check" => pq[v] = "exit_check")
    BY <1>3, <2>1, ReworkEnds
  <2>4. \A x \in Threads : Has(pt[x], cx[x]) /\ tgt[x] = v => Has(pq[x], cd[x]) /\ tgt'[x] = v
    BY <1>3, ReworkHas
  <2> QED BY <1>2, <2>1, <2>2, <2>3, <2>4
<1> QED BY <1>1, <1>3 DEF CaredFor

\* The step keeps the invariant, whatever becomes of the slot.
LEMMA ReworkEndsIn ==
    ASSUME NEW pt, NEW cx, NEW pq \in [Threads -> Points], NEW cd \in [Threads -> Contexts],
           NEW l, NEW t \in Threads, NEW u, Reworks(pt, cx, pq, cd, l, t, u),
           Private(t, pq[t], cd[t])', Private(u, pq[u], cd[u])', LifeTypeOK', NewRight(pq)', halted = "none"
    PROVE  LifeInv'
<1>1. /\ Situation(pt, cx) /\ PmutsRight(pt, cx) /\ MutexRight(pt, cx) /\ JoinsRight(pt, cx)
      /\ ReaperRight(pt, cx) /\ u \in Threads
      /\ UNCHANGED <<waitq, pmut, m_owner, reap_queue, halted>>
  BY DEF Reworks, Situation, LifeInvAt
<1>2. \A v \in Threads : Private(v, pq[v], cd[v])'
  <2>1. \A v \in Threads \ {t, u} : Private(v, pq[v], cd[v])'
    BY ReworkFrame
  <2> QED BY <2>1
<1>3. RunqRight' /\ WaitsRight(pq)' /\ Custody(pq, cd)' /\ Targets(pq, cd)' /\ CaredFor(pq, cd)'
  BY ReworkRunq, ReworkWaits, ReworkCustody, ReworkCare
<1>4. \A o, v : InQueue(o, v)' <=> InQueue(o, v)
  BY ReworkFrame
<1>5. PmutsRight(pq, cd)'
  <2>1. \A v \in Threads : \A o : Locks(v, pq[v], cd[v], o)' <=> Locks(v, pt[v], cx[v], o)
    BY ReworkLocks
  <2> QED BY <1>1, <2>1 DEF PmutsRight
<1>6. MutexRight(pq, cd)'
  <2>1. ASSUME NEW v \in Threads
        PROVE  /\ InSection(pq[v], cd[v]) <=> InSection(pt[v], cx[v])
               /\ pq[v] = "mtx_locked" <=> pt[v] = "mtx_locked"
               /\ pq[v] = "mtx_switch" <=> pt[v] = "mtx_switch"
    <3>1. InSection(pq[v], cd[v]) <=> InSection(pt[v], cx[v])
      BY ReworkElse
    <3> QED BY <3>1, ReworkElse
  <2> QED BY <1>1, <1>4, <2>1 DEF MutexRight
<1>7. JoinsRight(pq, cd)'
  <2>1. \A v \in Threads : /\ pq[v] = "join_switch" <=> pt[v] = "join_switch"
                           /\ pq[v] = "join_woken" <=> pt[v] = "join_woken"
    BY ReworkElse
  <2>2. \A v \in Threads \ {u} : Gone(pq[v], cd[v]) <=> Gone(pt[v], cx[v])
    BY ReworkEnds
  <2>3. \A o \in Objs, v \in Threads : InQueue(o, v) => v # u /\ v # t
    BY ReworkFrame
  <2>4. \A v \in Threads : ~InQueue(u, v)
    <3>1. ASSUME NEW v \in Threads, InQueue(u, v) PROVE FALSE
      <4>1. WaitsRight(pt) /\ u \in Objs
        BY <1>1, LifeObjects DEF Situation, LifeInvAt
      <4>2. pt[v] = "join_woken" /\ tgt[v] = u /\ v # t
        BY <1>1, <2>3, <3>1, <4>1 DEF WaitsRight
      <4>3. Has(pt[v], cx[v])
        BY <4>2 DEF Has, JoinCode
      <4> QED BY <4>2, <4>3 DEF Reworks
    <3> QED BY <3>1
  <2>5. ASSUME NEW v \in Threads, pq[v] \in {"join_switch", "join_woken"}
        PROVE  /\ v # t /\ v # u /\ tgt'[v] = tgt[v] /\ tgt[v] \in Threads \ {u}
               /\ pt[v] = pq[v] /\ ut_state'[tgt[v]] = ut_state[tgt[v]]
    <3>1. Has(pq[v], cd[v]) /\ pt[v] = pq[v]
      BY <2>1, <2>5 DEF Has, JoinCode
    <3>2. Has(pt[v], cx[v]) /\ tgt'[v] = tgt[v] /\ tgt[v] # u
      BY <3>1, ReworkHas
    <3>3. tgt[v] \in Threads
      BY <3>2 DEF Situation, LifeInvAt, LifeTypeOK, Private, CallArgs, Reworks
    <3>4. v # t /\ v # u
      <4>1. Makes(pt[t], cx[t], pq[t], cd[t]) /\ pq[u] \in {"free", "off"}
        BY DEF Reworks
      <4> QED BY <2>5, <4>1 DEF Makes
    <3> QED BY <3>1, <3>2, <3>3, <3>4 DEF Reworks
  <2>6. ASSUME NEW v \in Threads, pq[v] = "join_woken"
        PROVE  InQueue(tgt[v], v)' \/ Gone(pq[tgt'[v]], cd[tgt'[v]])
    <3>1. /\ tgt'[v] = tgt[v] /\ tgt[v] \in Threads \ {u} /\ pt[v] = "join_woken"
      BY <2>5, <2>6
    <3>2. InQueue(tgt[v], v) \/ Gone(pt[tgt[v]], cx[tgt[v]])
      BY <1>1, <3>1 DEF JoinsRight
    <3>3. \A x, y : x = y /\ InQueue(x, v)' => InQueue(y, v)'
      OBVIOUS
    <3> QED BY <1>4, <2>2, <3>1, <3>2, <3>3
  <2>7. ASSUME NEW v \in Threads, pq[v] = "join_switch"
        PROVE  ut_state'[tgt'[v]] # "UT_ZOMBIE" /\ ~Gone(pq[tgt'[v]], cd[tgt'[v]])
    <3>1. /\ tgt'[v] = tgt[v] /\ tgt[v] \in Threads \ {u} /\ pt[v] = "join_switch"
          /\ ut_state'[tgt[v]] = ut_state[tgt[v]]
      BY <2>5, <2>7
    <3> QED BY <1>1, <2>2, <3>1 DEF JoinsRight
  <2>8. \A v, x \in Threads : InQueue(x, v)' => ~Gone(pq[x], cd[x])
    BY <1>1, <1>4, <2>2, <2>4 DEF JoinsRight
  <2> QED BY <2>6, <2>7, <2>8 DEF JoinsRight
<1>8. ReaperRight(pq, cd)'
  <2>1. \A v \in Threads : /\ Settling(pq[v], cd[v]) => Settling(pt[v], cx[v])
                           /\ pq[v] = "cond_signal" <=> pt[v] = "cond_signal"
    BY ReworkElse
  <2>2. ut_state'[Reaper] # "UT_NO_STATE"
    BY DEF Reworks
  <2>3. \/ pq[Reaper] = "reaper_scan" \/ halted' = "exit"
        \/ \E v \in Threads \ {Reaper} : ut_state'[v] # "UT_NO_STATE"
    <3>1. CASE t = Reaper
      BY <3>1 DEF Reworks
    <3>2. CASE t # Reaper
      <4>1. ut_state'[t] = ut_state[t] /\ ut_state[t] # "UT_NO_STATE"
        BY OneRuns DEF Reworks
      <4> QED BY <3>2, <4>1
    <3> QED BY <3>1, <3>2
  <2> QED BY <1>1, <1>4, <2>1, <2>2, <2>3 DEF ReaperRight
<1>9. HaltRight'
  BY <1>1 DEF HaltRight
<1> QED BY <1>2, <1>3, <1>5, <1>6, <1>7, <1>8, <1>9, LifeEnds DEF Rights

\* Nobody has a thread that is not there yet.
LEMMA UnbornAlone ==
    ASSUME NEW pt, NEW cx, Situation(pt, cx), NEW u \in Threads, ut_state[u] \in Unborn
    PROVE  /\ ~OnLwp(u) /\ pt[u] \in {"free", "off"} /\ cx[u] = "client" /\ ~InReapQueue(u)
           /\ \A v \in Threads : Has(pt[v], cx[v]) => tgt[v] # u
           /\ \A v \in Threads : ~InQueue(u, v)
<1>1. Private(u, pt[u], cx[u]) /\ Custody(pt, cx) /\ WaitsRight(pt)
  BY DEF Situation, LifeInvAt
<1>2. ~OnLwp(u)
  BY <1>1 DEF Private, ModeOf, StateOn, Unborn
<1>3. StateOff(pt[u], cx[u], ut_state[u])
  BY <1>2, OffLwpRests
<1>4. pt[u] \in {"free", "off"} /\ cx[u] = "client"
  BY <1>3 DEF StateOff, Unborn
<1>5. ~InReapQueue(u)
  BY <1>1, <1>4 DEF Custody, Passed
<1>6. \A v \in Threads : Has(pt[v], cx[v]) => tgt[v] # u
  BY <1>1 DEF Custody, Unborn
<1>7. \A v \in Threads : ~InQueue(u, v)
  BY <1>1, <1>6 DEF WaitsRight, Has, JoinCode
<1> QED BY <1>2, <1>4, <1>5, <1>6, <1>7

LEMMA NobodyQueues ==
    ASSUME LifeTypeOK, NEW u \in Threads, \A v \in Threads : ~InQueue(u, v)
    PROVE  waitq[u] = <<>> /\ u \in Objs
<1>1. waitq[u] \in Seq(Threads) /\ u \in Objs
  BY LifeObjects DEF LifeTypeOK, SchedTypes
<1>2. ASSUME waitq[u] # <<>> PROVE FALSE
  <2>1. 1 \in 1..Len(waitq[u]) /\ waitq[u][1] \in Threads
    BY <1>1, <1>2
  <2> QED BY <2>1 DEF InQueue
<1> QED BY <1>1, <1>2

\* uthread_alloc claims the slot that it found.
LEMMA LifeAllocClaim ==
    ASSUME NEW pt, NEW cx, Situation(pt, cx), NEW l \in LWPs, NEW t \in Threads, halted = "none",
           AllocClaim(l, t), UNCHANGED <<mtxVars, lifeVars>>
    PROVE  LifeInv'
<1>1. /\ Running(l, t) /\ stack[t] # <<>> /\ pt[t] = "alloc_claim" /\ cx[t] = "client"
      /\ ut_no_preempt_count[t] = 1 /\ Tail(stack[t]) = <<>>
  <2>1. /\ Row(pt[t], cx[t], ut_no_preempt_count[t], "alloc_claim", Tail(stack[t])) /\ stack[t] # <<>>
        /\ Running(l, t)
    BY AtPoint DEF AllocClaim
  <2>2. pt[t] = "alloc_claim" /\ cx[t] = "client" /\ ut_no_preempt_count[t] = 1
    BY <2>1, RowsOfClients
  <2>3. Tail(stack[t]) = <<>>
    BY <2>1, RowsOfClients
  <2> QED BY <2>1, <2>2, <2>3
<1>2. /\ Private(t, "alloc_claim", "client") /\ LifeTypeOK /\ NewRight(pt) /\ ReaperRight(pt, cx)
      /\ claimed \subseteq Threads /\ Targets(pt, cx)
  BY <1>1 DEF Situation, LifeInvAt, LifeTypeOK
<1>3. PICK u \in Threads : u = newthr[t] /\ ut_state[u] = "UT_NO_STATE"
  <2>1. newthr[t] \in Threads
    BY <1>2 DEF Private, CallArgs, Allocates, LifeTypeOK, SchedTypes
  <2>2. ut_state[newthr[t]] = "UT_NO_STATE"
    BY <1>1, <1>2, <2>1, LifeObjects DEF NewRight
  <2> QED BY <2>1, <2>2
<1>4. /\ ~OnLwp(u) /\ pt[u] = "free" /\ cx[u] = "client" /\ ~InReapQueue(u) /\ u # t /\ u # Reaper /\ t # Reaper
      /\ \A v \in Threads : Has(pt[v], cx[v]) => tgt[v] # u
  <2>1. /\ ~OnLwp(u) /\ cx[u] = "client" /\ ~InReapQueue(u)
        /\ \A v \in Threads : Has(pt[v], cx[v]) => tgt[v] # u
    BY <1>3, UnbornAlone DEF Unborn
  <2>2. pt[u] = "free" /\ u # Reaper
    BY <1>2, <1>3 DEF NewRight, ReaperRight
  <2>3. u # t
    BY <1>1, <2>1 DEF OnLwp
  <2>4. t # Reaper
    BY <1>2 DEF Private, Roles, Yields
  <2> QED BY <2>1, <2>2, <2>3, <2>4
<1>5. /\ stack' \in [Threads -> Seq(LifeNames)] /\ stack'[t] # <<>>
      /\ Head(stack'[t]) = "create_init" /\ Tail(stack'[t]) = <<>>
      /\ \A v \in Threads \ {t} : stack'[v] = stack[v]
  <2>1. Continue(t, <<"create_init">>)
    BY DEF AllocClaim
  <2>2. "create_init" \in LifeNames
    BY NamesKnown
  <2> QED BY <1>1, <1>2, <2>1, <2>2, LifeContinue
<1>6. /\ ut_no_preempt_count' \in [Threads -> Nat] /\ ut_no_preempt_count'[t] = 0
      /\ \A v \in Threads \ {t} : ut_no_preempt_count'[v] = ut_no_preempt_count[v]
  BY <1>1, <1>2 DEF AllocClaim, NopreemptOff, LifeTypeOK, SchedTypes
<1>7. /\ ut_state' \in [Threads -> UtStates] /\ ut_state'[u] = "UT_TRANSITION"
      /\ \A v \in Threads \ {u} : ut_state'[v] = ut_state[v]
  BY <1>2, <1>3 DEF AllocClaim, LifeTypeOK, SchedTypes, UtStates
<1>8. UNCHANGED <<curthr, lwp, ut_prio, runq, tq_size, runq_mtx, waitq, pmut, swarg, wakee, sparg, newthr,
                  halted, m_owner, marg, carg, crit, ut_detached, reap_queue, tgt, claimed>>
  BY DEF AllocClaim, cpuVars, runqVars, waitVars, argVars, mtxVars, lifeVars
<1>9. LifeTypeOK'
  BY <1>2, <1>5, <1>6, <1>7, <1>8 DEF LifeTypeOK, SchedTypes, LifeNames
<1>10. PICK pq \in [Threads -> Points], cd \in [Threads -> Contexts] :
          Moves(pt, pq, t, "rest") /\ Moves(cx, cd, t, "create_init")
  <2>1. "rest" \in Points /\ "create_init" \in Contexts
    BY DEF Points, Contexts, Preemptible
  <2> QED BY <2>1, MovesExist DEF Situation
<1>11. /\ pq[t] = "rest" /\ cd[t] = "create_init"
       /\ \A v \in Threads \ {t} : pq[v] = pt[v] /\ cd[v] = cx[v]
  BY <1>10 DEF Moves
<1>12. Private(t, "rest", "create_init")'
  <2>1. Is("rest", "create_init", ut_no_preempt_count[t], stack[t])'
    <3>1. ClientRow("rest", "create_init", 0, "create_init", <<>>)
      BY DEF ClientRow, Preemptible
    <3> QED BY <1>5, <1>6, <3>1 DEF Is, Row
  <2>2. ModeOf("rest", "create_init", OnLwp(t), ut_state[t])'
    <3>1. ut_state'[t] = StateOn("rest", "create_init")
      <4>1. ut_state[t] = StateOn(pt[t], cx[t]) /\ ut_state'[t] = ut_state[t]
        BY <1>1, <1>4, <1>7, OneRuns
      <4> QED BY <1>1, <4>1 DEF StateOn
    <3> QED BY <1>1, <1>8, <3>1, StaysOn
  <2>3. SwitchArgs(t, "rest")' /\ LockArgs(t, "rest", "create_init")'
    BY <1>2, <1>8 DEF Private, SwitchArgs, LockArgs, InSection, Settling, CondWaits, Sections, ReaperCode, Unlocks, Preemptible, Buriers
  <2>4. CallArgs(t, "rest", "create_init")' /\ Roles(t, "rest", "create_init")'
    BY <1>2, <1>4, <1>8, LifeObjects DEF Private, CallArgs, Roles, Allocates, WakePoints, Has, Frees, Sections, Unlocks, JoinCode, Buriers, Preemptible, Yields
  <2> QED BY <2>1, <2>2, <2>3, <2>4 DEF Private
<1>13. Private(u, "free", "client")'
  <2>1. Private(u, "free", "client")
    BY <1>4 DEF Situation, LifeInvAt
  <2>2. Is("free", "client", ut_no_preempt_count[u], stack[u])'
    BY <1>4, <1>5, <1>6, <2>1 DEF Private
  <2>3. ModeOf("free", "client", OnLwp(u), ut_state[u])'
    <3>1. ~OnLwp(u)'
      BY <1>4, <1>8 DEF OnLwp, Running
    <3> QED BY <1>7, <3>1 DEF ModeOf, StateOff
  <2>4. SwitchArgs(u, "free")' /\ LockArgs(u, "free", "client")'
    BY <1>8, <2>1 DEF Private, SwitchArgs, LockArgs
  <2>5. CallArgs(u, "free", "client")' /\ Roles(u, "free", "client")'
    BY <1>8, <2>1 DEF Private, CallArgs, Roles
  <2> QED BY <2>2, <2>3, <2>4, <2>5 DEF Private
<1>14. Reworks(pt, cx, pq, cd, l, t, u)
  <2>1. /\ ut_state[u] \in Unborn \cup {"UT_ZOMBIE"} /\ ut_state'[u] \in Unborn
        /\ ut_state'[Reaper] # "UT_NO_STATE"
    BY <1>2, <1>3, <1>4, <1>7, LifeObjects DEF Unborn, ReaperRight
  <2>2. \A v \in Threads \ {t, u} : Kept(v) /\ pq[v] = pt[v] /\ cd[v] = cx[v]
    BY <1>5, <1>6, <1>7, <1>8, <1>11 DEF Kept
  <2>3. Makes(pt[t], cx[t], pq[t], cd[t])
    BY <1>1, <1>11 DEF Makes
  <2>4. \A v \in Threads \ {u} : ut_state'[v] = ut_state[v] /\ ut_prio'[v] = ut_prio[v]
    BY <1>7, <1>8
  <2>5. ut_detached'[u] => ut_detached[u] /\ u \in claimed'
    BY <1>2, <1>8 DEF Targets
  <2>6. pt[u] \in {"free", "off", "dead"} /\ pq[u] \in {"free", "off"} /\ cd[u] = "client"
    BY <1>4, <1>11
  <2>7. pt[t] # "reaper_destroy" /\ Running(l, t)
    BY <1>1
  <2> QED BY <1>4, <1>8, <2>1, <2>2, <2>3, <2>4, <2>5, <2>6, <2>7 DEF Reworks
<1>15. NewRight(pq)'
  <2>1. \A v \in Threads \ {t} : pt[v] \in Resting
    BY <1>1, OneRuns, OffLwpRests
  <2>2. \A v \in Threads : newthr[v] \in Threads \cup {NoThread} /\ (newthr[v] = u => v = t)
    BY <1>2, <1>3, OneCreator
  <2>3. ASSUME NEW v \in Threads, newthr[v] # NoThread
        PROVE  /\ ut_state'[newthr[v]] = "UT_TRANSITION" /\ pq[v] \notin {"alloc_claim", "startonrunq"}
               /\ \A x \in Threads : newthr[x] = newthr[v] => v = x
    <3>1. CASE v = t
      BY <1>2, <1>3, <1>7, <1>11, <2>3, <3>1 DEF NewRight
    <3>2. CASE v # t
      <4>1. /\ newthr[v] \in Threads \ {u} /\ pq[v] = pt[v] /\ pt[v] \notin {"alloc_claim", "startonrunq"}
        BY <1>11, <2>1, <2>2, <2>3, <3>2 DEF Resting
      <4>2. ut_state[newthr[v]] = "UT_TRANSITION" /\ \A x \in Threads : newthr[x] = newthr[v] => v = x
        BY <1>2, <2>3, <4>1 DEF NewRight
      <4> QED BY <1>7, <4>1, <4>2
    <3> QED BY <3>1, <3>2
  <2>4. ASSUME NEW v \in Threads, ut_state'[v] = "UT_TRANSITION" PROVE \E x \in Threads : newthr[x] = v
    <3>1. CASE v = u
      BY <1>3, <3>1
    <3>2. CASE v # u
      BY <1>2, <1>7, <2>4, <3>2 DEF NewRight
    <3> QED BY <3>1, <3>2
  <2>5. ASSUME NEW v \in Threads, ut_state'[v] = "UT_NO_STATE" PROVE pq[v] = "free"
    <3>1. v # u /\ ut_state[v] = "UT_NO_STATE"
      BY <1>7, <2>5
    <3>2. pt[v] = "free"
      BY <1>2, <3>1 DEF NewRight
    <3> QED BY <1>1, <1>11, <3>2
  <2> QED BY <1>8, <2>3, <2>4, <2>5 DEF NewRight
<1>16. Private(t, pq[t], cd[t])' /\ Private(u, pq[u], cd[u])'
  BY <1>4, <1>11, <1>12, <1>13
<1> QED BY <1>9, <1>14, <1>15, <1>16, ReworkEndsIn

\* The thread whose slot uthread_create initialises.
LEMMA InitialisedSlot ==
    ASSUME NEW pt, NEW cx, Situation(pt, cx), NEW l \in LWPs, NEW t \in Threads, CreateInit(l, t),
           pt[t] = "rest" /\ cx[t] = "create_init", NEW u \in Threads \ {t}, u = newthr[t],
           ut_state[u] = "UT_TRANSITION", pt[u] \in {"free", "off"}, cx[u] = "client", Tail(stack[t]) = <<>>
    PROVE  /\ stack'[t] = <<"startonrunq">> /\ stack'[u] = <<"nopreempt_off">>
           /\ stack' \in [Threads -> Seq(LifeNames)]
           /\ \A v \in Threads \ {t, u} : stack'[v] = stack[v]
           /\ \A v \in Threads : Initialised(v) <=> v = u
<1>1. /\ stack \in [Threads -> Seq(LifeNames)] /\ stack[t] # <<>> /\ Head(stack[t]) = "create_init"
  BY DEF Situation, LifeInvAt, LifeTypeOK, SchedTypes, LifeNames, CreateInit, At
<1>2. stack' = [stack EXCEPT ![u] = <<"nopreempt_off">>, ![t] = <<"startonrunq">> \o Tail(@)]
  BY DEF CreateInit
<1>3. <<"startonrunq">> \in Seq(LifeNames) /\ <<"nopreempt_off">> \in Seq(LifeNames)
  BY NamesKnown, OneName
<1>4. <<"startonrunq">> \o Tail(stack[t]) = <<"startonrunq">>
  BY NamesKnown, OneName
<1>5. /\ stack'[t] = <<"startonrunq">> /\ stack'[u] = <<"nopreempt_off">>
      /\ stack' \in [Threads -> Seq(LifeNames)]
      /\ \A v \in Threads \ {t, u} : stack'[v] = stack[v]
  <2>1. stack'[t] = <<"startonrunq">> \o Tail(stack[t]) /\ stack'[u] = <<"nopreempt_off">>
    BY <1>1, <1>2
  <2>2. \A v \in Threads \ {t, u} : stack'[v] = stack[v]
    BY <1>1, <1>2
  <2>3. DOMAIN stack' = Threads /\ stack' = [v \in Threads |-> stack'[v]]
    BY <1>1, <1>2
  <2>4. \A v \in Threads : stack'[v] \in Seq(LifeNames)
    BY <1>1, <1>3, <1>4, <2>1, <2>2
  <2> QED BY <1>4, <2>1, <2>2, <2>3, <2>4
<1>6. Head(stack'[t]) = "startonrunq"
  BY <1>5, NamesKnown, OneName
<1>7. Is(pt[u], cx[u], ut_no_preempt_count[u], stack[u])
  BY DEF Situation, LifeInvAt, Private
<1>8. stack[u] # <<>> => Head(stack[u]) # "create_init"
  <2>1. ASSUME stack[u] # <<>>, Head(stack[u]) = "create_init" PROVE FALSE
    <3>1. Row(pt[u], cx[u], ut_no_preempt_count[u], "create_init", Tail(stack[u]))
      BY <1>7, <2>1 DEF Is
    <3> QED BY <3>1, RowsOfRests
  <2> QED BY <2>1
<1>9. ASSUME NEW v \in Threads PROVE Initialised(v) <=> v = u
  <2>1. ASSUME NEW x \in Threads, newthr[x] = v, stack[x] # <<>>, Head(stack[x]) = "create_init",
               Head(stack'[x]) = "startonrunq"
        PROVE  v = u
    <3>1. x # u
      BY <1>8, <2>1
    <3>2. x = t
      BY <1>5, <2>1, <3>1
    <3> QED BY <2>1, <3>2
  <2>2. v = u => newthr[t] = v /\ stack[t] # <<>> /\ Head(stack[t]) = "create_init" /\ Head(stack'[t]) = "startonrunq"
    BY <1>1, <1>6
  <2> QED BY <2>1, <2>2 DEF Initialised
<1> QED BY <1>5, <1>9

\* uthread_create initialises the slot.
LEMMA LifeCreateInit ==
    ASSUME NEW pt, NEW cx, Situation(pt, cx), NEW l \in LWPs, NEW t \in Threads, halted = "none",
           CreateInit(l, t), CreateResets, UNCHANGED mtxVars
    PROVE  LifeInv'
<1>1. /\ Running(l, t) /\ stack[t] # <<>> /\ pt[t] = "rest" /\ cx[t] = "create_init"
      /\ ut_no_preempt_count[t] = 0 /\ Tail(stack[t]) = <<>>
  <2>1. /\ Row(pt[t], cx[t], ut_no_preempt_count[t], "create_init", Tail(stack[t])) /\ stack[t] # <<>>
        /\ Running(l, t)
    BY AtPoint DEF CreateInit
  <2>2. pt[t] = "rest" /\ cx[t] = "create_init" /\ ut_no_preempt_count[t] = 0
    BY <2>1, RowsOfRests
  <2>3. Tail(stack[t]) = <<>>
    BY <2>1, BelowRests
  <2> QED BY <2>1, <2>2, <2>3
<1>2. /\ Private(t, "rest", "create_init") /\ LifeTypeOK /\ NewRight(pt) /\ ReaperRight(pt, cx)
      /\ PmutsRight(pt, cx) /\ claimed \subseteq Threads /\ Targets(pt, cx)
  BY <1>1 DEF Situation, LifeInvAt, LifeTypeOK
<1>3. PICK u \in Threads : u = newthr[t] /\ ut_state[u] = "UT_TRANSITION"
  <2>1. newthr[t] \in Threads
    BY <1>2 DEF Private, CallArgs, Allocates, LifeTypeOK, SchedTypes
  <2>2. ut_state[newthr[t]] = "UT_TRANSITION"
    BY <1>1, <1>2, <2>1, LifeObjects DEF NewRight
  <2> QED BY <2>1, <2>2
<1>4. /\ ~OnLwp(u) /\ pt[u] \in {"free", "off"} /\ cx[u] = "client" /\ ~InReapQueue(u) /\ u # t /\ t # Reaper
      /\ \A v \in Threads : Has(pt[v], cx[v]) => tgt[v] # u
      /\ \A v \in Threads : ~InQueue(u, v)
  <2>1. /\ ~OnLwp(u) /\ pt[u] \in {"free", "off"} /\ cx[u] = "client" /\ ~InReapQueue(u)
    BY <1>3, UnbornAlone DEF Unborn
  <2>2. \A v \in Threads : Has(pt[v], cx[v]) => tgt[v] # u
    BY <1>3, UnbornAlone DEF Unborn
  <2>3. \A v \in Threads : ~InQueue(u, v)
    BY <1>3, UnbornAlone DEF Unborn
  <2>4. u # t
    BY <1>1, <2>1 DEF OnLwp
  <2>5. t # Reaper
    BY <1>2 DEF Private, Roles
  <2> QED BY <2>1, <2>2, <2>3, <2>4, <2>5
<1>5. waitq[u] = <<>> /\ u \in Objs
  BY <1>2, <1>4, NobodyQueues
<1>6. pmut[u] = NoLwp
  <2>1. ASSUME NEW v \in Threads, Locks(v, pt[v], cx[v], u) PROVE FALSE
    <3>1. CASE v = t
      BY <1>1, <2>1, <3>1 DEF Locks, Frees, Buriers
    <3>2. CASE v = u
      BY <1>4, <2>1, <3>2 DEF Locks, Frees, Sections, Unlocks
    <3>3. CASE v # t
      <4>1. ~OnLwp(v)
        BY <1>1, <3>3, OneRuns
      <4>2. Has(pt[v], cx[v]) /\ u = tgt[v]
        BY <2>1, <4>1, OffLwpLocks
      <4> QED BY <1>4, <4>2
    <3> QED BY <3>1, <3>3
  <2> QED BY <1>2, <1>5, <2>1 DEF PmutsRight
<1>7. /\ waitq' = waitq /\ pmut' = pmut
  <2>1. waitq' = [waitq EXCEPT ![u] = <<>>] /\ pmut' = [pmut EXCEPT ![u] = NoLwp]
    BY <1>3 DEF CreateInit
  <2>2. waitq \in [Objs -> Seq(Threads)] /\ pmut \in [Objs -> LWPs \cup {NoLwp}]
    BY <1>2 DEF LifeTypeOK, SchedTypes
  <2> QED BY <1>5, <1>6, <2>1, <2>2
<1>8. /\ stack'[t] = <<"startonrunq">> /\ stack'[u] = <<"nopreempt_off">>
      /\ stack' \in [Threads -> Seq(LifeNames)]
      /\ \A v \in Threads \ {t, u} : stack'[v] = stack[v]
  <2> u \in Threads \ {t} /\ u = newthr[t] /\ ut_state[u] = "UT_TRANSITION" /\ CreateInit(l, t)
    BY <1>3, <1>4
  <2>1. stack'[t] = <<"startonrunq">>
    BY <1>1, <1>4, InitialisedSlot
  <2>2. stack'[u] = <<"nopreempt_off">>
    <3>1. stack' = [stack EXCEPT ![u] = <<"nopreempt_off">>, ![t] = <<"startonrunq">> \o Tail(@)]
      BY DEF CreateInit
    <3>2. stack \in [Threads -> Seq(LifeNames)]
      BY <1>2 DEF LifeTypeOK, SchedTypes, LifeNames
    <3> QED BY <1>4, <3>1, <3>2
  <2>3. stack' \in [Threads -> Seq(LifeNames)]
    BY <1>1, <1>4, InitialisedSlot
  <2>4. \A v \in Threads \ {t, u} : stack'[v] = stack[v]
    BY <1>1, <1>4, InitialisedSlot
  <2> QED BY <2>1, <2>2, <2>3, <2>4
<1>9. \A v \in Threads : Initialised(v) <=> v = u
  BY <1>1, <1>3, <1>4, InitialisedSlot
<1>10. /\ ut_no_preempt_count' \in [Threads -> Nat] /\ ut_no_preempt_count'[t] = 1 /\ ut_no_preempt_count'[u] = 1
       /\ \A v \in Threads \ {t, u} : ut_no_preempt_count'[v] = ut_no_preempt_count[v]
  <2>1. ut_no_preempt_count' = [ut_no_preempt_count EXCEPT ![u] = 1, ![t] = @ + 1]
    BY <1>3 DEF CreateInit
  <2>2. ut_no_preempt_count \in [Threads -> Nat]
    BY <1>2 DEF LifeTypeOK, SchedTypes
  <2> QED BY <1>1, <1>4, <2>1, <2>2
<1>11. /\ ut_prio' \in [Threads -> Prios \cup {-1}]
       /\ \A v \in Threads \ {u} : ut_prio'[v] = ut_prio[v]
  <2>1. ut_prio' = [ut_prio EXCEPT ![u] = -1]
    BY <1>3 DEF CreateInit
  <2> QED BY <1>2, <2>1 DEF LifeTypeOK, SchedTypes
<1>12. UNCHANGED <<curthr, lwp, ut_state, runq, tq_size, runq_mtx, waitq, pmut, swarg, wakee, sparg, newthr,
                   halted, m_owner, marg, carg, crit, reap_queue, tgt>>
  BY <1>7 DEF CreateInit, CreateResets, cpuVars, runqVars, argVars, mtxVars
<1>13. /\ ut_detached' \in [Threads -> BOOLEAN] /\ ~ut_detached'[u]
       /\ \A v \in Threads \ {u} : ut_detached'[v] = ut_detached[v]
       /\ claimed' = claimed \ {u}
  <2>1. ut_detached' = [v \in Threads |-> ut_detached[v] /\ ~Initialised(v)]
    BY DEF CreateResets
  <2>2. claimed' = {v \in claimed : ~Initialised(v)}
    BY DEF CreateResets
  <2>3. \A v \in Threads : ut_detached'[v] = (ut_detached[v] /\ ~Initialised(v))
    BY <2>1
  <2>4. \A v \in Threads : ut_detached'[v] \in BOOLEAN
    BY <2>3
  <2>5. ut_detached' \in [Threads -> BOOLEAN]
    BY <2>1
  <2>6. \A v \in Threads \ {u} : ut_detached'[v] = ut_detached[v]
    <3>1. \A v \in Threads : ut_detached[v] \in BOOLEAN
      BY <1>2 DEF LifeTypeOK
    <3> QED BY <1>9, <2>3, <3>1
  <2>7. ~ut_detached'[u]
    BY <1>9, <2>3
  <2>8. claimed' = claimed \ {u}
    BY <1>2, <1>9, <2>2
  <2> QED BY <2>5, <2>6, <2>7, <2>8
<1>14. LifeTypeOK'
  BY <1>2, <1>8, <1>10, <1>11, <1>12, <1>13 DEF LifeTypeOK, SchedTypes, LifeNames
<1>15. PICK pq \in [Threads -> Points], cd \in [Threads -> Contexts] :
          /\ pq[t] = "startonrunq" /\ cd[t] = "client" /\ pq[u] = "off" /\ cd[u] = "client"
          /\ \A v \in Threads \ {t, u} : pq[v] = pt[v] /\ cd[v] = cx[v]
  <2>1. /\ "startonrunq" \in Points /\ "off" \in Points /\ "client" \in Contexts
        /\ pt \in [Threads -> Points] /\ cx \in [Threads -> Contexts]
    BY DEF Points, Contexts, Preemptible, Yields, Situation
  <2>2. PICK pr \in [Threads -> Points], ce \in [Threads -> Contexts] :
           Moves(pt, pr, t, "startonrunq") /\ Moves(cx, ce, t, "client")
    BY <2>1, MovesExist
  <2>3. PICK pq \in [Threads -> Points], cd \in [Threads -> Contexts] :
           Moves(pr, pq, u, "off") /\ Moves(ce, cd, u, "client")
    BY <2>1, MovesExist
  <2> QED BY <1>4, <2>2, <2>3 DEF Moves
<1>16. Private(t, "startonrunq", "client")'
  <2>1. Is("startonrunq", "client", ut_no_preempt_count[t], stack[t])'
    <3>1. ClientRow("startonrunq", "client", 1, "startonrunq", <<>>)
      BY DEF ClientRow
    <3>2. stack'[t] # <<>> /\ Head(stack'[t]) = "startonrunq" /\ Tail(stack'[t]) = <<>>
      BY <1>8, NamesKnown, OneName
    <3> QED BY <1>10, <3>1, <3>2 DEF Is, Row
  <2>2. ModeOf("startonrunq", "client", OnLwp(t), ut_state[t])'
    <3>1. ut_state'[t] = StateOn("startonrunq", "client")
      <4>1. ut_state[t] = StateOn(pt[t], cx[t])
        BY <1>1, OneRuns
      <4> QED BY <1>1, <1>12, <4>1 DEF StateOn
    <3> QED BY <1>1, <1>12, <3>1, StaysOn
  <2>3. SwitchArgs(t, "startonrunq")' /\ LockArgs(t, "startonrunq", "client")'
    BY <1>2, <1>12 DEF Private, SwitchArgs, LockArgs, InSection, Settling, CondWaits, Sections, ReaperCode, Unlocks, Preemptible, Buriers
  <2>4. CallArgs(t, "startonrunq", "client")' /\ Roles(t, "startonrunq", "client")'
    BY <1>2, <1>4, <1>12, LifeObjects DEF Private, CallArgs, Roles, Allocates, WakePoints, Has, Frees, Sections, Unlocks, JoinCode, Buriers, Preemptible, Yields
  <2> QED BY <2>1, <2>2, <2>3, <2>4 DEF Private
<1>17. Private(u, "off", "client")'
  <2>1. Private(u, pt[u], "client") /\ pt[u] \in {"free", "off"}
    BY <1>4 DEF Situation, LifeInvAt
  <2>2. Is("off", "client", ut_no_preempt_count[u], stack[u])'
    <3>1. ClientRow("off", "client", 1, "nopreempt_off", <<>>)
      BY DEF ClientRow, Preemptible, Below
    <3>2. stack'[u] # <<>> /\ Head(stack'[u]) = "nopreempt_off" /\ Tail(stack'[u]) = <<>>
      BY <1>8, NamesKnown, OneName
    <3> QED BY <1>10, <3>1, <3>2 DEF Is, Row
  <2>3. ModeOf("off", "client", OnLwp(u), ut_state[u])'
    <3>1. ~OnLwp(u)' /\ ut_state'[u] = "UT_TRANSITION"
      BY <1>3, <1>4, <1>12 DEF OnLwp, Running
    <3> QED BY <3>1 DEF ModeOf, StateOff
  <2>4. SwitchArgs(u, "off")' /\ LockArgs(u, "off", "client")'
    BY <1>12, <2>1 DEF Private, SwitchArgs, LockArgs, InSection, Settling, CondWaits, Sections, ReaperCode, Unlocks, Preemptible, Buriers
  <2>5. CallArgs(u, "off", "client")' /\ Roles(u, "off", "client")'
    BY <1>12, <2>1 DEF Private, CallArgs, Roles, Allocates, WakePoints, Has, Frees, Sections, Unlocks, JoinCode, Buriers, Preemptible, Yields
  <2> QED BY <2>2, <2>3, <2>4, <2>5 DEF Private
<1>18. Reworks(pt, cx, pq, cd, l, t, u)
  <2>1. /\ ut_state[u] \in Unborn \cup {"UT_ZOMBIE"} /\ ut_state'[u] \in Unborn
        /\ ut_state'[Reaper] # "UT_NO_STATE"
    BY <1>2, <1>3, <1>12 DEF Unborn, ReaperRight
  <2>2. \A v \in Threads \ {t, u} : Kept(v) /\ pq[v] = pt[v] /\ cd[v] = cx[v]
    BY <1>8, <1>10, <1>12, <1>15 DEF Kept
  <2>3. Makes(pt[t], cx[t], pq[t], cd[t])
    BY <1>1, <1>15 DEF Makes
  <2>4. \A v \in Threads \ {u} : ut_state'[v] = ut_state[v] /\ ut_prio'[v] = ut_prio[v]
    BY <1>11, <1>12
  <2>5. /\ claimed' \subseteq claimed /\ \A v \in Threads \ {u} : v \in claimed => v \in claimed'
        /\ \A v \in Threads \ {u} : ut_detached'[v] = ut_detached[v]
        /\ ut_detached'[u] => ut_detached[u] /\ u \in claimed'
    BY <1>13
  <2>6. pt[u] \in {"free", "off", "dead"} /\ pq[u] \in {"free", "off"} /\ cd[u] = "client"
    BY <1>4, <1>15
  <2>7. pt[t] # "reaper_destroy" /\ Running(l, t)
    BY <1>1
  <2> QED BY <1>4, <1>12, <2>1, <2>2, <2>3, <2>4, <2>5, <2>6, <2>7 DEF Reworks
<1>19. NewRight(pq)'
  <2>1. \A v \in Threads \ {t} : pt[v] \in Resting
    BY <1>1, OneRuns, OffLwpRests
  <2>2. ASSUME NEW v \in Threads, newthr[v] # NoThread
        PROVE  /\ ut_state[newthr[v]] = IF pq[v] = "alloc_claim" THEN "UT_NO_STATE" ELSE "UT_TRANSITION"
               /\ pq[v] = "startonrunq" => pq[newthr[v]] = "off" /\ newthr[v] \notin claimed'
               /\ \A x \in Threads : newthr[x] = newthr[v] => v = x
    <3>1. CASE v = t
      BY <1>2, <1>3, <1>13, <1>15, <2>2, <3>1 DEF NewRight
    <3>2. CASE v # t
      <4>1. pq[v] \notin {"alloc_claim", "startonrunq"} /\ pt[v] \notin {"alloc_claim", "startonrunq"}
        <5>1. CASE v = u
          BY <1>4, <1>15, <5>1
        <5>2. CASE v # u
          BY <1>15, <2>1, <3>2, <5>2 DEF Resting
        <5> QED BY <5>1, <5>2
      <4>2. ut_state[newthr[v]] = "UT_TRANSITION" /\ \A x \in Threads : newthr[x] = newthr[v] => v = x
        BY <1>2, <2>2, <4>1 DEF NewRight
      <4> QED BY <4>1, <4>2
    <3> QED BY <3>1, <3>2
  <2>3. ASSUME NEW v \in Threads, ut_state[v] = "UT_NO_STATE" PROVE pq[v] = "free"
    <3>1. v # u /\ v # t
      BY <1>1, <1>3, <2>3, OneRuns
    <3> QED BY <1>2, <1>15, <2>3, <3>1 DEF NewRight
  <2>4. \A v \in Threads : ut_state[v] = "UT_TRANSITION" => \E x \in Threads : newthr[x] = v
    BY <1>2 DEF NewRight
  <2> QED BY <1>12, <2>2, <2>3, <2>4 DEF NewRight
<1>20. Private(t, pq[t], cd[t])' /\ Private(u, pq[u], cd[u])'
  BY <1>15, <1>16, <1>17
<1> QED BY <1>14, <1>18, <1>19, <1>20, ReworkEndsIn

\* The dead thread that the reaper destroys.
LEMMA DestroyedThread ==
    ASSUME NEW pt, NEW cx, Situation(pt, cx), NEW l \in LWPs, NEW t \in Threads, Running(l, t),
           pt[t] = "reaper_destroy", cx[t] = "reaper_loop", NEW u, u = tgt[t]
    PROVE  /\ u \in Threads \ {t} /\ ~OnLwp(u) /\ pt[u] = "dead" /\ cx[u] = "exit"
           /\ ut_state[u] = "UT_ZOMBIE" /\ ~InReapQueue(u) /\ u \in claimed /\ waitq[u] = <<>>
           /\ \A v \in Threads \ {t} : Has(pt[v], cx[v]) => tgt[v] # u
<1>1. /\ LifeTypeOK /\ Private(t, "reaper_destroy", "reaper_loop") /\ Custody(pt, cx) /\ Targets(pt, cx)
      /\ JoinsRight(pt, cx)
  BY DEF Situation, LifeInvAt
<1>2. Has(pt[t], cx[t]) /\ HasDead(pt[t], cx[t])
  BY DEF Has, HasDead, JoinCode
<1>3. u \in Threads /\ u # t
  BY <1>1, <1>2 DEF Private, CallArgs, Roles, Allocates, WakePoints, Has, Frees, Sections, Unlocks, JoinCode, Buriers, Preemptible, Yields, LifeTypeOK
<1>4. ~OnLwp(u)
  BY <1>3, OneRuns
<1>5. pt[u] = "dead"
  BY <1>2, <1>1 DEF Targets
<1>6. cx[u] = "exit" /\ ut_state[u] = "UT_ZOMBIE"
  BY <1>3, <1>4, <1>5, OffLwpRests
<1>7. ~InReapQueue(u) /\ u \in claimed
  BY <1>1, <1>2 DEF Custody
<1>8. \A v \in Threads \ {t} : Has(pt[v], cx[v]) => tgt[v] # u
  BY <1>1, <1>2 DEF Custody
<1>9. waitq[u] = <<>>
  <2>1. \A v \in Threads : ~InQueue(u, v)
    BY <1>1, <1>3, <1>5, <1>6 DEF JoinsRight, Gone
  <2> QED BY <1>1, <1>3, <2>1, NobodyQueues
<1> QED BY <1>3, <1>4, <1>5, <1>6, <1>7, <1>8, <1>9

\* reaper frees the slot of a dead thread.
LEMMA LifeReaperDestroy ==
    ASSUME NEW pt, NEW cx, Situation(pt, cx), NEW l \in LWPs, NEW t \in Threads, halted = "none",
           ReaperDestroy(l, t)
    PROVE  LifeInv'
<1>1. /\ Running(l, t) /\ stack[t] # <<>> /\ pt[t] = "reaper_destroy" /\ cx[t] = "reaper_loop"
      /\ ut_no_preempt_count[t] = 1 /\ Tail(stack[t]) = <<>>
  <2>1. /\ Row(pt[t], cx[t], ut_no_preempt_count[t], "reaper_destroy", Tail(stack[t])) /\ stack[t] # <<>>
        /\ Running(l, t)
    BY AtPoint DEF ReaperDestroy
  <2>2. pt[t] = "reaper_destroy" /\ cx[t] = "reaper_loop" /\ ut_no_preempt_count[t] = 1
    BY <2>1, RowsOfReaper DEF ReaperCode
  <2>3. Tail(stack[t]) = <<>>
    BY <2>1, RowsOfReaper DEF ReaperCode
  <2> QED BY <2>1, <2>2, <2>3
<1>2. /\ Private(t, "reaper_destroy", "reaper_loop") /\ LifeTypeOK /\ NewRight(pt) /\ ReaperRight(pt, cx)
      /\ Targets(pt, cx)
  BY <1>1 DEF Situation, LifeInvAt
<1>3. PICK u \in Threads : u = tgt[t]
  BY <1>1, DestroyedThread
<1>4. /\ u # t /\ ~OnLwp(u) /\ pt[u] = "dead" /\ cx[u] = "exit"
      /\ ut_state[u] = "UT_ZOMBIE" /\ ~InReapQueue(u) /\ u \in claimed /\ waitq[u] = <<>>
      /\ \A v \in Threads \ {t} : Has(pt[v], cx[v]) => tgt[v] # u
  <2>1. u # t /\ ~OnLwp(u) /\ pt[u] = "dead" /\ cx[u] = "exit" /\ ut_state[u] = "UT_ZOMBIE"
    BY <1>1, <1>3, DestroyedThread
  <2>2. ~InReapQueue(u) /\ u \in claimed /\ waitq[u] = <<>>
    BY <1>1, <1>3, DestroyedThread
  <2>3. \A v \in Threads \ {t} : Has(pt[v], cx[v]) => tgt[v] # u
    BY <1>1, <1>3, DestroyedThread
  <2> QED BY <2>1, <2>2, <2>3
<1>5. t = Reaper
  BY <1>2 DEF Private, Roles
<1>6. /\ ut_state' = [ut_state EXCEPT ![u] = "UT_NO_STATE"]
      /\ ut_detached' = [ut_detached EXCEPT ![u] = FALSE]
      /\ waitq' = [waitq EXCEPT ![u] = <<>>]
      /\ stack' = [stack EXCEPT ![u] = <<>>, ![t] = <<"reaper_scan">> \o Tail(@)]
      /\ tgt' = [tgt EXCEPT ![t] = NoThread]
      /\ halted' = halted
  BY <1>3, <1>4 DEF ReaperDestroy
<1>7. UNCHANGED <<curthr, lwp, ut_prio, ut_no_preempt_count, runq, tq_size, runq_mtx, pmut, swarg, wakee, sparg,
                  newthr, m_owner, marg, carg, crit, reap_queue, claimed>>
  BY DEF ReaperDestroy, cpuVars, runqVars, argVars, mtxVars
<1>8. waitq' = waitq
  <2>1. waitq \in [Objs -> Seq(Threads)]
    BY <1>2 DEF LifeTypeOK, SchedTypes
  <2> QED BY <1>4, <1>6, <2>1
<1>9. /\ stack'[t] = <<"reaper_scan">> /\ stack'[u] = <<>>
      /\ stack' \in [Threads -> Seq(LifeNames)]
      /\ \A v \in Threads \ {t, u} : stack'[v] = stack[v]
  <2>1. stack \in [Threads -> Seq(LifeNames)]
    BY <1>2 DEF LifeTypeOK, SchedTypes, LifeNames
  <2>2. <<"reaper_scan">> \in Seq(LifeNames) /\ <<>> \in Seq(LifeNames)
    BY NamesKnown, OneName
  <2>3. <<"reaper_scan">> \o Tail(stack[t]) = <<"reaper_scan">>
    BY <1>1, NamesKnown, OneName
  <2>4. stack'[t] = <<"reaper_scan">> /\ stack'[u] = <<>>
    BY <1>4, <1>6, <2>1, <2>3
  <2>5. \A v \in Threads \ {t, u} : stack'[v] = stack[v]
    BY <1>6, <2>1
  <2>6. stack' = [v \in Threads |-> stack'[v]]
    BY <1>6, <2>1
  <2>7. \A v \in Threads : stack'[v] \in Seq(LifeNames)
    BY <2>1, <2>2, <2>4, <2>5
  <2>8. stack' \in [Threads -> Seq(LifeNames)]
    BY <2>6, <2>7
  <2> QED BY <2>4, <2>5, <2>8
<1>10. /\ ut_state' \in [Threads -> UtStates] /\ ut_state'[u] = "UT_NO_STATE"
       /\ \A v \in Threads \ {u} : ut_state'[v] = ut_state[v]
  BY <1>2, <1>6 DEF LifeTypeOK, SchedTypes, UtStates
<1>11. /\ ut_detached' \in [Threads -> BOOLEAN] /\ ~ut_detached'[u]
       /\ \A v \in Threads \ {u} : ut_detached'[v] = ut_detached[v]
  BY <1>2, <1>6 DEF LifeTypeOK
<1>12. /\ tgt' \in [Threads -> Threads \cup {NoThread}] /\ tgt'[t] = NoThread
       /\ \A v \in Threads \ {t} : tgt'[v] = tgt[v]
  BY <1>2, <1>6 DEF LifeTypeOK
<1>13. LifeTypeOK'
  BY <1>2, <1>6, <1>7, <1>8, <1>9, <1>10, <1>11, <1>12 DEF LifeTypeOK, SchedTypes, LifeNames
<1>14. PICK pq \in [Threads -> Points], cd \in [Threads -> Contexts] :
          /\ pq[t] = "reaper_scan" /\ cd[t] = "reaper_loop" /\ pq[u] = "free" /\ cd[u] = "client"
          /\ \A v \in Threads \ {t, u} : pq[v] = pt[v] /\ cd[v] = cx[v]
  <2>1. /\ "reaper_scan" \in Points /\ "free" \in Points /\ "client" \in Contexts /\ "reaper_loop" \in Contexts
        /\ pt \in [Threads -> Points] /\ cx \in [Threads -> Contexts]
    BY DEF Points, ReaperCode, Contexts, Preemptible, Lockers, Situation
  <2>2. PICK pr \in [Threads -> Points], ce \in [Threads -> Contexts] :
           Moves(pt, pr, t, "reaper_scan") /\ Moves(cx, ce, t, "reaper_loop")
    BY <2>1, MovesExist
  <2>3. PICK pq \in [Threads -> Points], cd \in [Threads -> Contexts] :
           Moves(pr, pq, u, "free") /\ Moves(ce, cd, u, "client")
    BY <2>1, MovesExist
  <2> QED BY <1>4, <2>2, <2>3 DEF Moves
<1>15. Private(t, "reaper_scan", "reaper_loop")'
  <2>1. Is("reaper_scan", "reaper_loop", ut_no_preempt_count[t], stack[t])'
    <3>1. ReaperRow("reaper_scan", "reaper_loop", 1, "reaper_scan", <<>>)
      BY DEF ReaperRow, ReaperCode
    <3>2. stack'[t] # <<>> /\ Head(stack'[t]) = "reaper_scan" /\ Tail(stack'[t]) = <<>>
      BY <1>9, NamesKnown, OneName
    <3> QED BY <1>1, <1>7, <3>1, <3>2 DEF Is, Row
  <2>2. ModeOf("reaper_scan", "reaper_loop", OnLwp(t), ut_state[t])'
    <3>1. ut_state'[t] = StateOn("reaper_scan", "reaper_loop")
      <4>1. ut_state[t] = StateOn(pt[t], cx[t])
        BY <1>1, OneRuns
      <4> QED BY <1>1, <1>4, <1>10, <4>1 DEF StateOn
    <3> QED BY <1>1, <1>7, <3>1, StaysOn
  <2>3. SwitchArgs(t, "reaper_scan")' /\ LockArgs(t, "reaper_scan", "reaper_loop")'
    BY <1>2, <1>7 DEF Private, SwitchArgs, LockArgs, InSection, Settling, CondWaits, Sections, ReaperCode, Unlocks, Preemptible, Buriers
  <2>4. CallArgs(t, "reaper_scan", "reaper_loop")' /\ Roles(t, "reaper_scan", "reaper_loop")'
    BY <1>2, <1>7, <1>12, LifeObjects DEF Private, CallArgs, Roles, Allocates, WakePoints, Has, Frees, Sections, Unlocks, JoinCode, Buriers, Preemptible, Yields
  <2> QED BY <2>1, <2>2, <2>3, <2>4 DEF Private
<1>16. Private(u, "free", "client")'
  <2>1. Private(u, "dead", "exit")
    BY <1>4 DEF Situation, LifeInvAt
  <2>2. Is("free", "client", ut_no_preempt_count[u], stack[u])'
    BY <1>9 DEF Is
  <2>3. ModeOf("free", "client", OnLwp(u), ut_state[u])'
    <3>1. ~OnLwp(u)' /\ ut_state'[u] = "UT_NO_STATE"
      BY <1>4, <1>7, <1>10 DEF OnLwp, Running
    <3> QED BY <3>1 DEF ModeOf, StateOff
  <2>4. SwitchArgs(u, "free")' /\ LockArgs(u, "free", "client")'
    BY <1>7, <2>1 DEF Private, SwitchArgs, LockArgs, InSection, Settling, CondWaits, Sections, ReaperCode, Unlocks, Preemptible, Buriers
  <2>5. CallArgs(u, "free", "client")' /\ Roles(u, "free", "client")'
    BY <1>4, <1>5, <1>7, <2>1 DEF Private, CallArgs, Roles, Allocates, WakePoints, Has, Frees, Sections, Unlocks, JoinCode, Buriers, Preemptible, Yields
  <2> QED BY <2>2, <2>3, <2>4, <2>5 DEF Private
<1>17. Reworks(pt, cx, pq, cd, l, t, u)
  <2>1. /\ ut_state[u] \in Unborn \cup {"UT_ZOMBIE"} /\ ut_state'[u] \in Unborn
        /\ ut_state'[Reaper] # "UT_NO_STATE"
    BY <1>2, <1>4, <1>5, <1>10 DEF Unborn, ReaperRight
  <2>2. \A v \in Threads \ {t, u} : Kept(v) /\ pq[v] = pt[v] /\ cd[v] = cx[v]
    BY <1>7, <1>9, <1>10, <1>12, <1>14 DEF Kept
  <2>3. Makes(pt[t], cx[t], pq[t], cd[t])
    BY <1>1, <1>14 DEF Makes
  <2>4. \A v \in Threads \ {u} : ut_state'[v] = ut_state[v] /\ ut_prio'[v] = ut_prio[v]
    BY <1>7, <1>10
  <2>5. /\ claimed' \subseteq claimed /\ \A v \in Threads \ {u} : v \in claimed => v \in claimed'
        /\ \A v \in Threads \ {u} : ut_detached'[v] = ut_detached[v]
        /\ ut_detached'[u] => ut_detached[u] /\ u \in claimed'
    BY <1>7, <1>11
  <2>6. pt[u] \in {"free", "off", "dead"} /\ pq[u] \in {"free", "off"} /\ cd[u] = "client"
    BY <1>4, <1>14
  <2>7. Running(l, t) /\ u \in Threads \ {t} /\ tgt'[u] = tgt[u] /\ tgt[t] = u /\ pq[t] = "reaper_scan"
    BY <1>1, <1>3, <1>4, <1>12, <1>14
  <2>8. UNCHANGED <<curthr, lwp, runq, tq_size, runq_mtx, waitq, pmut, wakee, newthr, halted, m_owner, reap_queue>>
    BY <1>6, <1>7, <1>8
  <2> QED BY <1>4, <2>1, <2>2, <2>3, <2>4, <2>5, <2>6, <2>7, <2>8 DEF Reworks
<1>18. NewRight(pq)'
  <2>1. ASSUME NEW v \in Threads, newthr[v] # NoThread
        PROVE  /\ ut_state'[newthr[v]] = IF pq[v] = "alloc_claim" THEN "UT_NO_STATE" ELSE "UT_TRANSITION"
               /\ pq[v] = "startonrunq" => pq[newthr[v]] = "off" /\ newthr[v] \notin claimed
               /\ \A x \in Threads : newthr[x] = newthr[v] => v = x
    <3>1. /\ ut_state[newthr[v]] = IF pt[v] = "alloc_claim" THEN "UT_NO_STATE" ELSE "UT_TRANSITION"
          /\ pt[v] = "startonrunq" => pt[newthr[v]] = "off" /\ newthr[v] \notin claimed
      BY <1>2, <2>1 DEF NewRight
    <3>2. \A x \in Threads : newthr[x] = newthr[v] => v = x
      BY <1>2, <2>1 DEF NewRight
    <3>3. newthr[v] \in Threads /\ newthr[v] # u
      BY <1>2, <1>4, <2>1, <3>1 DEF LifeTypeOK, SchedTypes
    <3>4. newthr[v] # t
      BY <1>1, <3>1, OneRuns
    <3>5. v # t /\ v # u
      <4>1. newthr[t] = NoThread
        BY <1>2 DEF Private, CallArgs, Roles, Allocates, WakePoints, Has, Frees, Sections, Unlocks, JoinCode, Buriers, Preemptible, Yields
      <4>2. newthr[u] = NoThread
        <5>1. Private(u, "dead", "exit")
          BY <1>4 DEF Situation, LifeInvAt
        <5> QED BY <5>1 DEF Private, CallArgs, Roles, Allocates, WakePoints, Has, Frees, Sections, Unlocks, JoinCode, Buriers, Preemptible, Yields
      <4> QED BY <2>1, <4>1, <4>2
    <3> QED BY <1>10, <1>14, <3>1, <3>2, <3>3, <3>4, <3>5
  <2>2. ASSUME NEW v \in Threads, ut_state'[v] = "UT_NO_STATE" PROVE pq[v] = "free"
    <3>1. CASE v = u
      BY <1>14, <3>1
    <3>2. CASE v # u
      <4>1. ut_state[v] = "UT_NO_STATE" /\ v # t
        BY <1>1, <1>10, <2>2, <3>2, OneRuns
      <4> QED BY <1>2, <1>14, <3>2, <4>1 DEF NewRight
    <3> QED BY <3>1, <3>2
  <2>3. ASSUME NEW v \in Threads, ut_state'[v] = "UT_TRANSITION" PROVE \E x \in Threads : newthr[x] = v
    <3>1. ut_state[v] = "UT_TRANSITION"
      BY <1>10, <2>3
    <3> QED BY <1>2, <3>1 DEF NewRight
  <2> QED BY <1>7, <2>1, <2>2, <2>3 DEF NewRight
<1>19. Private(t, pq[t], cd[t])' /\ Private(u, pq[u], cd[u])'
  BY <1>14, <1>15, <1>16
<1> QED BY <1>13, <1>17, <1>18, <1>19, ReworkEndsIn

-----------------------------------------------------------------------------
(* The LWP scans the run queues, on its own stack.                         *)

LwpStates == {"unborn", "running", "parked", "signalled"}

\* What the LWP finds: the queues rq, with the counters sz, hold the threads
\* that are runnable in st.
ScanArgs(l, rq, sz, st, lw) ==
    /\ l \in LWPs /\ (\A k \in LWPs : k = l) /\ NoThread \notin Threads /\ halted = "none"
    /\ curthr \in [LWPs -> Threads \cup {NoThread}]
    /\ rq \in [Prios -> Seq(Threads)] /\ sz \in [Prios -> Int]
    /\ st \in [Threads -> UtStates] /\ lw \in [LWPs -> LwpStates]
    /\ \A p \in Prios : sz[p] = Len(rq[p])
    /\ Distinct(Prios, rq, {u \in Threads : st[u] = "UT_RUNNABLE"})
    /\ \A u \in Threads : st[u] = "UT_RUNNABLE" => OnRunq(rq, u)
    /\ \A u \in Threads : st[u] \notin {"UT_NO_STATE", "UT_TRANSITION"} => ut_prio[u] \in Prios
    /\ runq_mtx = NoLwp /\ UNCHANGED <<runq_mtx, ut_prio>>

\* What it leaves: one runnable thread runs, or none is left.
Scanned(l, st) ==
    /\ RunqRight' /\ HaltRight'
    /\ \A u \in Threads :
          \/ ut_state'[u] = st[u] /\ ~OnLwp(u)'
          \/ st[u] = "UT_RUNNABLE" /\ ut_state'[u] = "UT_ON_CPU" /\ OnLwp(u)'
    /\ curthr' \in [LWPs -> Threads \cup {NoThread}] /\ lwp' \in [LWPs -> LwpStates]
    /\ ut_state' \in [Threads -> UtStates]
    /\ runq' \in [Prios -> Seq(Threads)] /\ tq_size' \in [Prios -> Int]
    /\ halted' \in {"none", "lwp_park"}

\* The thread that is taken leaves the queues; the others stay there.
LEMMA ScanTakes ==
    ASSUME NEW rq \in [Prios -> Seq(Threads)], NEW S, Distinct(Prios, rq, S), NEW p \in Prios, rq[p] # <<>>,
           NEW r, r = [rq EXCEPT ![p] = Tail(@)]
    PROVE  /\ Head(rq[p]) \in Threads /\ Head(rq[p]) \in S /\ r \in [Prios -> Seq(Threads)]
           /\ Distinct(Prios, r, S \ {Head(rq[p])})
           /\ Len(r[p]) = Len(rq[p]) - 1 /\ \A q \in Prios \ {p} : r[q] = rq[q]
           /\ \A u : OnRunq(rq, u) /\ u # Head(rq[p]) => OnRunq(r, u)
<1> DEFINE s == rq[p]
<1>1. s \in Seq(Threads) /\ r[p] = Tail(s) /\ \A q \in Prios \ {p} : r[q] = rq[q]
  OBVIOUS
<1>2. /\ Head(s) \in Threads /\ Tail(s) \in Seq(Threads) /\ Len(Tail(s)) = Len(s) - 1
  BY <1>1, QueueTails
<1>3. Distinct(Prios, r, S \ {Head(s)}) /\ Head(s) \in S
  BY DistinctTail
<1>4. \A i, j \in 1..Len(s) : s[i] = s[j] => i = j
  BY DEF Distinct
<1>5. ASSUME NEW u, OnRunq(rq, u), u # Head(s) PROVE OnRunq(r, u)
  <2>1. PICK q \in Prios : Contains(rq[q], u)
    BY <1>5 DEF OnRunq
  <2>2. CASE q = p
    <3>1. (\E i \in 1..Len(Tail(s)) : Tail(s)[i] = u) <=> (\E i \in 1..Len(s) : s[i] = u) /\ u # Head(s)
      BY <1>1, <1>4, SeqTailMember
    <3>2. \E i \in 1..Len(s) : s[i] = u
      BY <2>1, <2>2 DEF Contains
    <3>3. \E i \in 1..Len(Tail(s)) : Tail(s)[i] = u
      BY <1>5, <3>1, <3>2
    <3> QED BY <1>1, <3>3 DEF OnRunq, Contains
  <2>3. CASE q # p
    BY <1>1, <2>1, <2>3 DEF OnRunq
  <2> QED BY <2>2, <2>3
<1>6. r \in [Prios -> Seq(Threads)]
  BY <1>1, <1>2
<1> QED BY <1>1, <1>2, <1>3, <1>5, <1>6

LEMMA ScanPicks ==
    ASSUME NEW l, NEW rq, NEW sz, NEW st, NEW lw, ScanArgs(l, rq, sz, st, lw), PickThread(l, rq, sz, st, lw)
    PROVE  Scanned(l, st)
<1> DEFINE S == {u \in Threads : st[u] = "UT_RUNNABLE"}
<1>1. PICK p \in Prios :
        /\ rq[p] # <<>>
        /\ curthr' = [curthr EXCEPT ![l] = Head(rq[p])]
        /\ lwp' = [lw EXCEPT ![l] = "running"]
        /\ runq' = [rq EXCEPT ![p] = Tail(@)]
        /\ tq_size' = [sz EXCEPT ![p] = @ - 1]
        /\ ut_state' = [st EXCEPT ![Head(rq[p])] = "UT_ON_CPU"]
        /\ halted' = halted
  BY DEF PickThread
<1>2. /\ l \in LWPs /\ (\A k \in LWPs : k = l) /\ NoThread \notin Threads /\ halted = "none"
      /\ curthr \in [LWPs -> Threads \cup {NoThread}]
      /\ rq \in [Prios -> Seq(Threads)] /\ sz \in [Prios -> Int]
      /\ st \in [Threads -> UtStates] /\ lw \in [LWPs -> LwpStates]
      /\ Distinct(Prios, rq, S)
      /\ runq_mtx = NoLwp /\ UNCHANGED <<runq_mtx, ut_prio>>
  BY DEF ScanArgs
<1>3. /\ \A q \in Prios : sz[q] = Len(rq[q])
      /\ \A u \in Threads : st[u] = "UT_RUNNABLE" => OnRunq(rq, u)
      /\ \A u \in Threads : st[u] \notin {"UT_NO_STATE", "UT_TRANSITION"} => ut_prio[u] \in Prios
  BY DEF ScanArgs
<1>S. \A u : u \in S <=> u \in Threads /\ st[u] = "UT_RUNNABLE"
  OBVIOUS
<1> HIDE DEF S
<1>4. PICK h, r : h = Head(rq[p]) /\ r = runq'
  OBVIOUS
<1>5. /\ h \in Threads /\ h \in S /\ r \in [Prios -> Seq(Threads)]
      /\ Distinct(Prios, r, S \ {h})
      /\ Len(r[p]) = Len(rq[p]) - 1 /\ \A q \in Prios \ {p} : r[q] = rq[q]
  <2>0. /\ rq \in [Prios -> Seq(Threads)] /\ Distinct(Prios, rq, S) /\ p \in Prios /\ rq[p] # <<>>
        /\ r = [rq EXCEPT ![p] = Tail(@)]
    BY <1>1, <1>2, <1>4
  <2>1. h \in Threads /\ h \in S /\ r \in [Prios -> Seq(Threads)]
    BY <1>4, <2>0, ScanTakes
  <2>2. Distinct(Prios, r, S \ {h})
    BY <1>4, <2>0, ScanTakes
  <2>3. Len(r[p]) = Len(rq[p]) - 1 /\ \A q \in Prios \ {p} : r[q] = rq[q]
    BY <1>4, <2>0, ScanTakes
  <2> QED BY <2>1, <2>2, <2>3
<1>6. \A u : OnRunq(rq, u) /\ u # h => OnRunq(r, u)
  <2>0. /\ rq \in [Prios -> Seq(Threads)] /\ Distinct(Prios, rq, S) /\ p \in Prios /\ rq[p] # <<>>
        /\ r = [rq EXCEPT ![p] = Tail(@)]
    BY <1>1, <1>2, <1>4
  <2> QED BY <1>4, <2>0, ScanTakes
<1>7. st[h] = "UT_RUNNABLE"
  BY <1>S, <1>5
<1>8. /\ curthr' \in [LWPs -> Threads \cup {NoThread}] /\ curthr'[l] = h
      /\ lwp' \in [LWPs -> LwpStates] /\ lwp'[l] = "running"
  BY <1>1, <1>2, <1>4, <1>5 DEF LwpStates
<1>9. /\ ut_state' \in [Threads -> UtStates] /\ ut_state'[h] = "UT_ON_CPU"
      /\ \A u \in Threads \ {h} : ut_state'[u] = st[u]
  BY <1>1, <1>2, <1>4, <1>5 DEF UtStates
<1>10. \A u : OnLwp(u)' <=> u = h
  BY <1>2, <1>8 DEF OnLwp, Running
<1>11. tq_size' \in [Prios -> Int] /\ QueueCountsAgree'
  <2>1. tq_size' \in [Prios -> Int] /\ tq_size'[p] = sz[p] - 1 /\ \A q \in Prios \ {p} : tq_size'[q] = sz[q]
    BY <1>1, <1>2
  <2> QED BY <1>3, <1>4, <1>5, <2>1 DEF QueueCountsAgree
<1>12. LwpOK'
  BY <1>2, <1>8 DEF LwpOK
<1>13. RunqOK'
  <2>1. S \ {h} \subseteq OffLwps("UT_RUNNABLE")'
    <3>1. \A u \in S \ {h} : u \in Threads /\ ut_state'[u] = "UT_RUNNABLE" /\ ~OnLwp(u)'
      BY <1>S, <1>9, <1>10
    <3> QED BY <3>1 DEF OffLwps, OnNoLwp, OnLwp, Running
  <2>2. Distinct(Prios, runq', OffLwps("UT_RUNNABLE")')
    BY <1>4, <1>5, <2>1, DistinctWider
  <2> QED BY <2>2, PlacesDistinctNext
<1>14. PrioOK'
  BY <1>2, <1>3, <1>7, <1>9 DEF PrioOK
<1>15. \A u \in Threads : ut_state'[u] = "UT_RUNNABLE" /\ ~OnLwp(u)' => Queued(u)'
  <2> TAKE u \in Threads
  <2> HAVE ut_state'[u] = "UT_RUNNABLE" /\ ~OnLwp(u)'
  <2>1. u # h /\ st[u] = "UT_RUNNABLE"
    BY <1>9, <1>10
  <2>2. OnRunq(runq', u)
    BY <1>3, <1>4, <1>6, <2>1
  <2> QED BY <2>2 DEF OnRunq, Queued
<1>16. RunqRight' /\ HaltRight'
  <2>1. halted' = "none" /\ runq_mtx' = NoLwp
    BY <1>1, <1>2
  <2> QED BY <1>11, <1>12, <1>13, <1>14, <1>15, <2>1 DEF RunqRight, HaltRight
<1>17. \A u \in Threads : \/ ut_state'[u] = st[u] /\ ~OnLwp(u)'
                          \/ st[u] = "UT_RUNNABLE" /\ ut_state'[u] = "UT_ON_CPU" /\ OnLwp(u)'
  BY <1>7, <1>9, <1>10
<1> QED BY <1>1, <1>2, <1>4, <1>5, <1>8, <1>9, <1>11, <1>16, <1>17 DEF Scanned

LEMMA ScanParks ==
    ASSUME NEW l, NEW rq, NEW sz, NEW st, NEW lw, ScanArgs(l, rq, sz, st, lw), Park(l, rq, sz, st, lw)
    PROVE  Scanned(l, st)
<1>1. /\ \A p \in Prios : rq[p] = <<>>
      /\ curthr' = [curthr EXCEPT ![l] = NoThread]
      /\ lwp' = [lw EXCEPT ![l] = "parked"]
      /\ halted' \in {"lwp_park", halted}
      /\ runq' = rq /\ tq_size' = sz /\ ut_state' = st
  BY DEF Park
<1>2. /\ l \in LWPs /\ (\A k \in LWPs : k = l) /\ NoThread \notin Threads /\ halted = "none"
      /\ curthr \in [LWPs -> Threads \cup {NoThread}]
      /\ rq \in [Prios -> Seq(Threads)] /\ sz \in [Prios -> Int]
      /\ st \in [Threads -> UtStates] /\ lw \in [LWPs -> LwpStates]
      /\ runq_mtx = NoLwp /\ UNCHANGED <<runq_mtx, ut_prio>>
  BY DEF ScanArgs
<1>3. /\ \A q \in Prios : sz[q] = Len(rq[q])
      /\ \A u \in Threads : st[u] = "UT_RUNNABLE" => OnRunq(rq, u)
      /\ \A u \in Threads : st[u] \notin {"UT_NO_STATE", "UT_TRANSITION"} => ut_prio[u] \in Prios
  BY DEF ScanArgs
<1>4. /\ curthr' \in [LWPs -> Threads \cup {NoThread}] /\ \A k \in LWPs : curthr'[k] = NoThread
      /\ lwp' \in [LWPs -> LwpStates]
  BY <1>1, <1>2 DEF LwpStates
<1>5. \A u \in Threads : ~OnLwp(u)'
  BY <1>2, <1>4 DEF OnLwp, Running
<1>6. QueueCountsAgree' /\ LwpOK' /\ RunqOK' /\ PrioOK'
  <2>1. QueueCountsAgree' /\ LwpOK'
    BY <1>1, <1>3, <1>4 DEF QueueCountsAgree, LwpOK
  <2>2. RunqOK'
    BY <1>1 DEF RunqOK
  <2> QED BY <1>1, <1>2, <1>3, <2>1, <2>2 DEF PrioOK
<1>7. \A u \in Threads : ut_state'[u] = "UT_RUNNABLE" /\ ~OnLwp(u)' => Queued(u)'
  BY <1>1, <1>3 DEF OnRunq, Queued
<1>8. RunqRight'
  BY <1>2, <1>6, <1>7 DEF RunqRight
<1>9. HaltRight'
  <2>1. RunqEmpty(runq)'
    BY <1>1 DEF RunqEmpty
  <2> QED BY <1>1, <1>2, <1>5, <2>1 DEF HaltRight
<1> QED BY <1>1, <1>2, <1>4, <1>5, <1>8, <1>9 DEF Scanned

\* The counters of the queues never disagree with them.
LEMMA ScanFinds ==
    ASSUME NEW l, NEW rq, NEW sz, NEW st, NEW lw, ScanArgs(l, rq, sz, st, lw), Dispatch(l, rq, sz, st, lw)
    PROVE  Scanned(l, st)
<1>1. ~BadQueue(l, rq, sz, st, lw)
  <2>1. \A p \in Prios : sz[p] = Len(rq[p]) /\ rq[p] \in Seq(Threads)
    BY DEF ScanArgs
  <2>2. \A p \in Prios : (sz[p] = 0) = (rq[p] = <<>>)
    BY <2>1
  <2> QED BY <2>2 DEF BadQueue
<1> QED BY <1>1, ScanPicks, ScanParks DEF Dispatch

-----------------------------------------------------------------------------
(* A step in which the LWP leaves the stack of a thread, or has none.      *)

\* Thread u rests in state s, at point p in context c, once the step is over,
\* unless the LWP takes it.
Settled(u, p, c, s) ==
    /\ Is(p, c, ut_no_preempt_count'[u], stack'[u])
    /\ StateOff(p, c, s)
    /\ SwitchArgs(u, p)' /\ LockArgs(u, p, c)' /\ CallArgs(u, p, c)' /\ Roles(u, p, c)

\* LWP l leaves the stack of t, or was idle, and scans the run queues.
Leaves(pt, cx, pq, cd, l, t, st) ==
    /\ Situation(pt, cx) /\ l \in LWPs /\ halted = "none"
    /\ \A u \in Threads \ {t} : ~OnLwp(u) /\ pq[u] = pt[u] /\ cd[u] = cx[u] /\ KeptArgs(u)
    /\ \A u \in Threads : st[u] = ut_state[u] /\ wakee[u] = NoThread /\ wakee'[u] = NoThread
    /\ Scanned(l, st) /\ Settled(t, pq[t], cd[t], st[t])
    /\ {pt[t], pq[t]} \cap {"alloc_claim", "startonrunq"} = {}
    /\ ut_state[t] = "UT_NO_STATE" => pq[t] = pt[t]
    /\ UNCHANGED <<newthr, tgt, reap_queue, claimed, ut_detached, m_owner>>

LEMMA SettledPrivate ==
    ASSUME NEW l, NEW st, Scanned(l, st), NEW u \in Threads, NEW p, NEW c, Settled(u, p, c, st[u])
    PROVE  Private(u, p, c)'
<1>1. /\ Is(p, c, ut_no_preempt_count'[u], stack'[u]) /\ StateOff(p, c, st[u])
  BY DEF Settled
<1>2. ModeOf(p, c, OnLwp(u), ut_state[u])'
  <2>1. CASE ut_state'[u] = st[u] /\ ~OnLwp(u)'
    BY <1>1, <2>1 DEF ModeOf
  <2>2. CASE st[u] = "UT_RUNNABLE" /\ ut_state'[u] = "UT_ON_CPU" /\ OnLwp(u)'
    <3>1. p = "off" \/ p \in Woken
      BY <1>1, <2>2 DEF StateOff
    <3>2. c = "exit" => p = "mtx_locked"
      BY <1>1, <3>1 DEF Woken, Is, Row, ClientRow, ExitRow, LockRow, UnlockRow, BurialRow, ReaperRow, Preemptible, ReaperCode
    <3>3. p \notin {"dead", "free"} /\ StateOn(p, c) = "UT_ON_CPU"
      BY <3>1, <3>2 DEF StateOn, Woken
    <3> QED BY <2>2, <3>3 DEF ModeOf
  <2> QED BY <2>1, <2>2 DEF Scanned
<1>3. SwitchArgs(u, p)' /\ LockArgs(u, p, c)'
  BY DEF Settled
<1>4. CallArgs(u, p, c)' /\ Roles(u, p, c)'
  BY DEF Settled, Roles
<1> QED BY <1>1, <1>2, <1>3, <1>4 DEF Private

LEMMA OtherSettled ==
    ASSUME NEW u \in Threads, NEW p, NEW c, Private(u, p, c), ~OnLwp(u), KeptArgs(u)
    PROVE  Settled(u, p, c, ut_state[u])
<1>1. Is(p, c, ut_no_preempt_count'[u], stack'[u]) /\ StateOff(p, c, ut_state[u])
  BY DEF Private, KeptArgs, ModeOf
<1>2. SwitchArgs(u, p)' /\ LockArgs(u, p, c)'
  BY DEF Private, KeptArgs, SwitchArgs, LockArgs
<1>3. CallArgs(u, p, c)' /\ Roles(u, p, c)
  BY DEF Private, KeptArgs, CallArgs, Roles
<1> QED BY <1>1, <1>2, <1>3 DEF Settled

LEMMA LeavesPrivate ==
    ASSUME NEW pt, NEW cx, NEW pq, NEW cd, NEW l, NEW t \in Threads, NEW st,
           Leaves(pt, cx, pq, cd, l, t, st), NEW u \in Threads
    PROVE  Private(u, pq[u], cd[u])'
<1>1. Scanned(l, st) /\ st[u] = ut_state[u]
  BY DEF Leaves
<1>2. CASE u = t
  <2>1. Settled(t, pq[t], cd[t], st[t])
    BY DEF Leaves
  <2> QED BY <1>1, <1>2, <2>1, SettledPrivate
<1>3. CASE u # t
  <2>1. Private(u, pt[u], cx[u]) /\ ~OnLwp(u) /\ KeptArgs(u) /\ pq[u] = pt[u] /\ cd[u] = cx[u]
    BY <1>3 DEF Leaves, Situation, LifeInvAt
  <2>2. Settled(u, pt[u], cx[u], st[u])
    BY <1>1, <2>1, OtherSettled
  <2> QED BY <1>1, <2>1, <2>2, SettledPrivate
<1> QED BY <1>2, <1>3

LEMMA LeavesFrame ==
    ASSUME NEW pt, NEW cx, NEW pq, NEW cd, NEW l, NEW t \in Threads, NEW st,
           Leaves(pt, cx, pq, cd, l, t, st)
    PROVE  /\ RunqRight' /\ HaltRight'
           /\ Carries(pt, cx, pq, cd, t)
           /\ NewRight(pq)'
<1>0. /\ Situation(pt, cx)
      /\ \A u \in Threads \ {t} : ~OnLwp(u) /\ pq[u] = pt[u] /\ cd[u] = cx[u]
      /\ {pt[t], pq[t]} \cap {"alloc_claim", "startonrunq"} = {}
      /\ ut_state[t] = "UT_NO_STATE" => pq[t] = pt[t]
      /\ UNCHANGED <<newthr, tgt, reap_queue, claimed, ut_detached, m_owner>>
  BY DEF Leaves
<1>1. RunqRight' /\ HaltRight'
  BY DEF Leaves, Scanned
<1>2. \A u \in Threads : ut_state'[u] = ut_state[u] \/ (ut_state[u] = "UT_RUNNABLE" /\ ut_state'[u] = "UT_ON_CPU")
  BY DEF Leaves, Scanned
<1>3. Carries(pt, cx, pq, cd, t)
  <2>1. /\ \A u \in Threads : ut_state'[u] \in Unborn => ut_state[u] \in Unborn
        /\ \A u \in Threads : ut_state[u] \in Unborn => ut_state'[u] \in Unborn
    BY <1>2 DEF Unborn
  <2>2. claimed \subseteq Threads
    BY <1>0 DEF Situation, LifeInvAt, LifeTypeOK
  <2> QED BY <1>0, <2>1, <2>2 DEF Carries
<1>4. NewRight(pq)'
  <2>1. \A u \in Threads \ {t} : pt[u] \in Resting
    BY <1>0, OffLwpRests
  <2>2. \A u \in Threads : pt[u] \notin {"alloc_claim", "startonrunq"} /\ pq[u] \notin {"alloc_claim", "startonrunq"}
    BY <1>0, <2>1 DEF Resting
  <2>3. NewRight(pt) /\ \A u \in Threads : newthr[u] \in Threads \cup {NoThread}
    BY <1>0 DEF Situation, LifeInvAt, LifeTypeOK, SchedTypes
  <2>4. ASSUME NEW u \in Threads, newthr[u] # NoThread
        PROVE  newthr[u] \in Threads /\ ut_state'[newthr[u]] = "UT_TRANSITION"
    <3>1. newthr[u] \in Threads /\ ut_state[newthr[u]] = "UT_TRANSITION"
      BY <2>2, <2>3, <2>4 DEF NewRight
    <3> QED BY <1>2, <3>1
  <2>5. \A u \in Threads : newthr[u] # NoThread => \A v \in Threads : newthr[v] = newthr[u] => u = v
    BY <2>3 DEF NewRight
  <2>6. ASSUME NEW u \in Threads, ut_state'[u] = "UT_TRANSITION" PROVE \E v \in Threads : newthr[v] = u
    BY <1>2, <2>3, <2>6 DEF NewRight
  <2>7. ASSUME NEW u \in Threads, ut_state'[u] = "UT_NO_STATE" PROVE pq[u] = "free"
    <3>1. ut_state[u] = "UT_NO_STATE"
      BY <1>2, <2>7
    <3>2. pt[u] = "free"
      BY <2>3, <3>1 DEF NewRight
    <3> QED BY <1>0, <3>1, <3>2
  <2> QED BY <1>0, <2>2, <2>4, <2>5, <2>6, <2>7 DEF NewRight
<1> QED BY <1>1, <1>3, <1>4

\* The LWP changes no wait queue.
LEMMA LeavesWaits ==
    ASSUME NEW pt, NEW cx, NEW pq, NEW cd, NEW l, NEW t \in Threads, NEW st,
           Leaves(pt, cx, pq, cd, l, t, st), waitq' = waitq,
           \A o \in Objs : InQueue(o, t) => pq[t] = pt[t],
           ut_state[t] = "UT_WAIT" => ~OnLwp(t)
    PROVE  WaitsRight(pq)'
<1>1. /\ WaitsRight(pt) /\ tgt' = tgt
      /\ \A u \in Threads \ {t} : pq[u] = pt[u] /\ ~OnLwp(u)
      /\ \A u \in Threads : wakee[u] = NoThread /\ wakee'[u] = NoThread
  BY DEF Leaves, Situation, LifeInvAt
<1>2. \A u \in Threads : /\ ut_state'[u] = "UT_WAIT" <=> ut_state[u] = "UT_WAIT"
                         /\ ut_state'[u] = "UT_WAIT" => ~OnLwp(u)'
  BY DEF Leaves, Scanned
<1>3. \A o, u : InQueue(o, u)' <=> InQueue(o, u)
  BY DEF InQueue
<1>4. WaitqOK'
  <2>0. WaitqOK /\ waitq \in [Objs -> Seq(Threads)]
    BY <1>1 DEF WaitsRight, Leaves, Situation, LifeInvAt, LifeTypeOK, SchedTypes
  <2>1. Distinct(Objs, waitq, OffLwps("UT_WAIT"))
    BY <2>0 DEF WaitqOK, Distinct, OffLwps
  <2>2. OffLwps("UT_WAIT") \subseteq OffLwps("UT_WAIT")'
    <3>1. \A u \in Threads : ut_state[u] = "UT_WAIT" => ut_state'[u] = "UT_WAIT" /\ ~OnLwp(u)'
      BY <1>2
    <3> QED BY <3>1 DEF OffLwps, OnNoLwp, OnLwp, Running
  <2>3. Distinct(Objs, waitq', OffLwps("UT_WAIT")')
    BY <2>1, <2>2, DistinctWider
  <2> QED BY <2>3, PlacesDistinctNext
<1>5. \A o \in Objs, u \in Threads : InQueue(o, u) => pq[u] = pt[u]
  BY <1>1
<1>6. \A u \in Threads :
          /\ InQueue(reap_mtx, u)' => pq[u] = "mtx_locked"
          /\ InQueue(reap_cond, u)' => pq[u] = "cond_relock"
          /\ \A v \in Threads : InQueue(v, u)' => pq[u] = "join_woken" /\ tgt'[u] = v
  BY <1>1, <1>3, <1>5, LifeObjects DEF WaitsRight
<1>7. ASSUME NEW u \in Threads, ut_state'[u] = "UT_WAIT" PROVE \E o \in Objs : InQueue(o, u)'
  <2>1. ut_state[u] = "UT_WAIT" /\ ~OnLwp(u)
    BY <1>1, <1>2, <1>7
  <2>2. \A v \in Threads : wakee[v] # u
    BY <1>1, LifeObjects
  <2>3. \E o \in Objs : InQueue(o, u)
    BY <1>1, <2>1, <2>2 DEF WaitsRight
  <2> QED BY <1>3, <2>3
<1> QED BY <1>1, <1>4, <1>6, <1>7 DEF WaitsRight

\* The thread joins the queue that its next point says.
LEMMA LeavesToWait ==
    ASSUME NEW pt, NEW cx, NEW pq, NEW cd, NEW l, NEW t \in Threads, NEW st, NEW o \in Objs,
           Leaves(pt, cx, pq, cd, l, t, st), Running(l, t), ut_state[t] = "UT_WAIT",
           waitq' = [waitq EXCEPT ![o] = Append(@, t)],
           o = reap_mtx => pq[t] = "mtx_locked",
           o = reap_cond => pq[t] = "cond_relock",
           o \in Threads => pq[t] = "join_woken" /\ tgt[t] = o
    PROVE  /\ WaitsRight(pq)' /\ waitq' \in [Objs -> Seq(Threads)]
           /\ \A r \in Objs, u \in Threads : InQueue(r, u)' <=> InQueue(r, u) \/ (r = o /\ u = t)
<1>1. /\ WaitsRight(pt) /\ tgt' = tgt /\ waitq \in [Objs -> Seq(Threads)]
      /\ \A u \in Threads \ {t} : pq[u] = pt[u] /\ ~OnLwp(u)
      /\ \A u \in Threads : wakee[u] = NoThread /\ wakee'[u] = NoThread
  BY DEF Leaves, Situation, LifeInvAt, LifeTypeOK, SchedTypes
<1>2. \A u \in Threads : /\ ut_state'[u] = "UT_WAIT" <=> ut_state[u] = "UT_WAIT"
                         /\ ut_state'[u] = "UT_WAIT" => ~OnLwp(u)'
  BY DEF Leaves, Scanned
<1>3. /\ waitq' \in [Objs -> Seq(Threads)]
      /\ \A r \in Objs, u \in Threads : InQueue(r, u)' <=> InQueue(r, u) \/ (r = o /\ u = t)
  BY <1>1, QueueJoined
<1>4. \A r \in Objs : ~InQueue(r, t)
  BY OneRuns DEF Leaves
<1>5. WaitqOK'
  <2>0. WaitqOK /\ waitq \in [Objs -> Seq(Threads)]
    BY <1>1 DEF WaitsRight, Leaves, Situation, LifeInvAt, LifeTypeOK, SchedTypes
  <2>1. Distinct(Objs, waitq, OffLwps("UT_WAIT"))
    BY <2>0 DEF WaitqOK, Distinct, OffLwps
  <2>2. \A r \in Objs : \A i \in 1..Len(waitq[r]) : waitq[r][i] # t
    BY <1>4 DEF InQueue
  <2>3. Distinct(Objs, waitq', OffLwps("UT_WAIT") \cup {t})
    BY <1>1, <2>1, <2>2, DistinctAppend
  <2>4. OffLwps("UT_WAIT") \cup {t} \subseteq OffLwps("UT_WAIT")'
    <3>1. \A u \in Threads : ut_state[u] = "UT_WAIT" => ut_state'[u] = "UT_WAIT" /\ ~OnLwp(u)'
      BY <1>2
    <3> QED BY <3>1 DEF OffLwps, OnNoLwp, OnLwp, Running
  <2>5. Distinct(Objs, waitq', OffLwps("UT_WAIT")')
    BY <2>3, <2>4, DistinctWider
  <2> QED BY <2>5, PlacesDistinctNext
<1>6. ASSUME NEW u \in Threads
      PROVE  /\ InQueue(reap_mtx, u)' => pq[u] = "mtx_locked"
             /\ InQueue(reap_cond, u)' => pq[u] = "cond_relock"
             /\ \A v \in Threads : InQueue(v, u)' => pq[u] = "join_woken" /\ tgt'[u] = v
  <2>1. CASE u = t
    BY <1>1, <1>3, <1>4, <2>1, LifeObjects
  <2>2. CASE u # t
    BY <1>1, <1>3, <2>2, LifeObjects DEF WaitsRight
  <2> QED BY <2>1, <2>2
<1>7. ASSUME NEW u \in Threads, ut_state'[u] = "UT_WAIT" PROVE \E r \in Objs : InQueue(r, u)'
  <2>1. CASE u = t
    BY <1>3, <2>1
  <2>2. CASE u # t
    <3>1. ut_state[u] = "UT_WAIT" /\ ~OnLwp(u)
      BY <1>1, <1>2, <1>7, <2>2
    <3>2. \A v \in Threads : wakee[v] # u
      BY <1>1, LifeObjects
    <3>3. \E r \in Objs : InQueue(r, u)
      BY <1>1, <3>1, <3>2 DEF WaitsRight
    <3> QED BY <1>3, <3>3
  <2> QED BY <2>1, <2>2
<1>8. WaitsRight(pq)'
  BY <1>1, <1>5, <1>6, <1>7 DEF WaitsRight
<1> QED BY <1>3, <1>8

-----------------------------------------------------------------------------
(* uthread_switch.                                                         *)

\* A thread that switches at point p in context c comes back at point q.
Lands(p, q, c) ==
    \/ p = "yield_switch" /\ c \in Preemptible /\ q = "off"
    \/ p = "mtx_switch" /\ c \in Lockers /\ q = "mtx_locked"
    \/ p = "cond_switch" /\ c = "reaper_loop" /\ q = "cond_relock"
    \/ p = "join_switch" /\ c = "join" /\ q = "join_woken"
    \/ p = "last_switch" /\ c = "exit" /\ q = "dead"

\* The queue that it sleeps in, and the POSIX mutex that its LWP releases.
SleepsIn(t, p) == IF p = "mtx_switch" THEN reap_mtx ELSE IF p = "cond_switch" THEN reap_cond
                  ELSE IF p = "join_switch" THEN tgt[t] ELSE NoObj
Releases(t, p) == IF p \in {"yield_switch", "last_switch"} THEN t ELSE SleepsIn(t, p)

LEMMA LandSteps ==
    ASSUME NEW p, NEW q, NEW c, Lands(p, q, c)
    PROVE  /\ SameRole(p, c, q, c)
           /\ InSection(q, c) <=> InSection(p, c)
           /\ Gone(q, c) <=> Gone(p, c)
           /\ ~Settling(q, c)
           /\ p \notin {"reaper_scan", "cond_signal", "join_woken", "mtx_locked", "free", "alloc_claim", "startonrunq"}
           /\ q \notin {"reaper_scan", "mtx_switch", "join_switch", "alloc_claim", "startonrunq"}
           /\ p = "cond_switch" => Settling(p, c)
<1>1. SameRole(p, c, q, c)
  BY DEF Lands, SameRole, Has, Frees, Passed, Joins, HasDead, JoinCode, Sections, Unlocks, Buriers, Preemptible
<1>2. InSection(q, c) <=> InSection(p, c)
  BY DEF Lands, InSection, Sections, ReaperCode, Lockers, Buriers
<1>3. Gone(q, c) <=> Gone(p, c)
  BY DEF Lands, Gone, Preemptible
<1>4. /\ ~Settling(q, c)
      /\ p \notin {"reaper_scan", "cond_signal", "join_woken", "mtx_locked", "free", "alloc_claim", "startonrunq"}
      /\ q \notin {"reaper_scan", "mtx_switch", "join_switch", "alloc_claim", "startonrunq"}
      /\ p = "cond_switch" => Settling(p, c)
  BY DEF Lands, Settling, Unlocks
<1> QED BY <1>1, <1>2, <1>3, <1>4

\* Nobody else has locked the POSIX mutex that the LWP releases.
LEMMA LandLocks ==
    ASSUME NEW pt, NEW cx, Situation(pt, cx), NEW l \in LWPs, NEW t \in Threads, Running(l, t),
           NEW q, Lands(pt[t], q, cx[t]), NEW m, m = Releases(t, pt[t])
    PROVE  /\ m \in Objs
           /\ \A u \in Threads \ {t} : ~Locks(u, pt[u], cx[u], m)
           /\ \A x \in Objs : Locks(t, q, cx[t], x) <=> Locks(t, pt[t], cx[t], x) /\ x # m
<1>1. /\ Private(t, pt[t], cx[t]) /\ Custody(pt, cx) /\ Targets(pt, cx)
      /\ \A u \in Threads : tgt[u] \in Threads \cup {NoThread}
  BY DEF Situation, LifeInvAt, LifeTypeOK
<1>2. pt[t] = "join_switch" => tgt[t] \in Threads /\ Has(pt[t], cx[t])
  BY <1>1, LifeObjects DEF Private, CallArgs, Has, JoinCode
<1>3. m \in Objs
  BY <1>2, LifeObjects DEF Releases, SleepsIn, Lands
<1>4. ASSUME NEW u \in Threads \ {t}, Locks(u, pt[u], cx[u], m) PROVE FALSE
  <2>1. ~OnLwp(u)
    BY OneRuns
  <2>2. cx[u] = "make_reapable" /\ Has(pt[u], cx[u]) /\ m = tgt[u]
    BY <1>4, <2>1, OffLwpLocks
  <2>3. HasDead(pt[u], cx[u])
    <3>1. pt[u] = "off"
      BY <2>1, <2>2, OffLwpRests DEF InSection
    <3> QED BY <2>2, <3>1 DEF HasDead, JoinCode
  <2>4. m \in Threads /\ pt[m] = "dead"
    BY <1>1, <1>3, <2>2, <2>3, LifeObjects DEF Targets, Private, CallArgs, Situation, LifeInvAt
  <2>5. m = tgt[t] /\ pt[t] = "join_switch"
    BY <2>4, LifeObjects DEF Releases, SleepsIn, Lands
  <2> QED BY <1>1, <1>2, <2>2, <2>5 DEF Custody
<1>5. cx[t] = "make_reapable" => tgt[t] # t \/ pt[t] # "yield_switch"
  BY <1>1 DEF Private, CallArgs, Has
<1>6. ASSUME NEW x \in Objs PROVE Locks(t, q, cx[t], x) <=> Locks(t, pt[t], cx[t], x) /\ x # m
  BY <1>5, LifeObjects DEF Lands, Locks, Releases, SleepsIn, Frees, Sections, Unlocks, Buriers, Preemptible, Lockers
<1> QED BY <1>3, <1>4, <1>6

\* Thread t switches, to sleep in queue o, which may be none.
Leaving(pt, cx, pq, cd, l, t, st, o) ==
    /\ Leaves(pt, cx, pq, cd, l, t, st) /\ Running(l, t)
    /\ Lands(pt[t], pq[t], cx[t]) /\ cd[t] = cx[t]
    /\ o = SleepsIn(t, pt[t]) /\ pmut' = [pmut EXCEPT ![Releases(t, pt[t])] = NoLwp]
    /\ \A r \in Objs, u \in Threads : InQueue(r, u)' <=> InQueue(r, u) \/ (r = o /\ u = t)
    /\ waitq'[reap_mtx] = waitq[reap_mtx] \/ o = reap_mtx

LEMMA LeavingPmuts ==
    ASSUME NEW pt, NEW cx, NEW pq, NEW cd, NEW l, NEW t \in Threads, NEW st, NEW o,
           Leaving(pt, cx, pq, cd, l, t, st, o)
    PROVE  Custody(pq, cd)' /\ Targets(pq, cd)' /\ CaredFor(pq, cd)' /\ PmutsRight(pq, cd)'
<1>1. /\ Carries(pt, cx, pq, cd, t) /\ Situation(pt, cx) /\ l \in LWPs /\ Running(l, t)
      /\ SameRole(pt[t], cx[t], pq[t], cd[t]) /\ Lands(pt[t], pq[t], cx[t]) /\ cd[t] = cx[t]
  BY LeavesFrame, LandSteps DEF Leaving, Leaves
<1>2. Custody(pq, cd)' /\ Targets(pq, cd)' /\ CaredFor(pq, cd)'
  BY <1>1, CarryCustody, CarryTargets, CarryCare
<1>3. PICK m : m = Releases(t, pt[t])
  OBVIOUS
<1>4. m \in Objs /\ pmut' = [pmut EXCEPT ![m] = NoLwp]
  BY <1>1, <1>3, LandLocks DEF Leaving
<1>5. \A u \in Threads \ {t} : ~Locks(u, pt[u], cx[u], m)
  BY <1>1, <1>3, LandLocks
<1>6. \A x \in Objs : Locks(t, pq[t], cd[t], x) <=> Locks(t, pt[t], cx[t], x) /\ x # m
  BY <1>1, <1>3, LandLocks
<1>7. PmutsRight(pq, cd)'
  <2>1. \A u \in Threads, x \in Objs : Locks(u, pq[u], cd[u], x)' <=> Locks(u, pq[u], cd[u], x)
    BY <1>1 DEF Carries, Locks
  <2>2. \A u \in Threads \ {t}, x \in Objs : Locks(u, pq[u], cd[u], x) <=> Locks(u, pt[u], cx[u], x)
    BY <1>1 DEF Carries
  <2>3. PmutsRight(pt, cx) /\ pmut \in [Objs -> LWPs \cup {NoLwp}]
    BY <1>1 DEF Situation, LifeInvAt, LifeTypeOK, SchedTypes
  <2>4. pmut'[m] = NoLwp /\ \A x \in Objs \ {m} : pmut'[x] = pmut[x]
    BY <1>4, <2>3
  <2> QED BY <1>4, <1>5, <1>6, <2>1, <2>2, <2>3, <2>4 DEF PmutsRight
<1> QED BY <1>2, <1>7

LEMMA LeavingMutex ==
    ASSUME NEW pt, NEW cx, NEW pq, NEW cd, NEW l, NEW t \in Threads, NEW st, NEW o,
           Leaving(pt, cx, pq, cd, l, t, st, o)
    PROVE  MutexRight(pq, cd)'
<1>1. /\ MutexRight(pt, cx) /\ m_owner' = m_owner /\ reap_mtx \in Objs /\ reap_mtx # reap_cond
      /\ \A u \in Threads \ {t} : pq[u] = pt[u] /\ cd[u] = cx[u]
  BY LifeObjects DEF Leaving, Leaves, Situation, LifeInvAt
<1>2. \A u \in Threads : InQueue(reap_mtx, u)' <=> InQueue(reap_mtx, u) \/ (o = reap_mtx /\ u = t)
  BY <1>1 DEF Leaving
<1>3. o = reap_mtx <=> pt[t] = "mtx_switch"
  <2>1. pt[t] = "join_switch" => tgt[t] \in Threads \cup {NoThread}
    BY DEF Leaving, Leaves, Situation, LifeInvAt, LifeTypeOK
  <2>2. pt[t] = "join_switch" => tgt[t] # NoThread
    BY DEF Leaving, Leaves, Situation, LifeInvAt, Private, CallArgs, Has, JoinCode
  <2> QED BY <1>1, <2>1, <2>2, LifeObjects DEF Leaving, SleepsIn
<1>4. /\ pt[t] = "mtx_switch" <=> pq[t] = "mtx_locked"
      /\ pq[t] # "mtx_switch" /\ pt[t] # "mtx_locked"
      /\ InSection(pq[t], cd[t]) <=> InSection(pt[t], cx[t])
  <2>1. Lands(pt[t], pq[t], cx[t]) /\ cd[t] = cx[t]
    BY DEF Leaving
  <2>2. InSection(pq[t], cd[t]) <=> InSection(pt[t], cx[t])
    BY <2>1, LandSteps
  <2> QED BY <2>1, <2>2 DEF Lands
<1>5. waitq'[reap_mtx] # <<>> => m_owner[reap_mtx] # NoThread
  <2>1. waitq'[reap_mtx] = waitq[reap_mtx] \/ o = reap_mtx
    BY DEF Leaving
  <2> QED BY <1>1, <1>3, <2>1 DEF MutexRight
<1>6. \A u \in Threads : InSection(pq[u], cd[u]) => m_owner[reap_mtx] = u
  BY <1>1, <1>4 DEF MutexRight
<1>7. ASSUME NEW u \in Threads, m_owner[reap_mtx] = u
      PROVE  InSection(pq[u], cd[u]) \/ (pq[u] = "mtx_locked" /\ ~InQueue(reap_mtx, u)')
  BY <1>1, <1>2, <1>4, <1>7 DEF MutexRight
<1>8. ASSUME NEW u \in Threads
      PROVE  /\ pq[u] = "mtx_switch" => m_owner[reap_mtx] # NoThread
             /\ pq[u] = "mtx_locked" => InQueue(reap_mtx, u)' \/ m_owner[reap_mtx] = u
  BY <1>1, <1>2, <1>3, <1>4 DEF MutexRight
<1> QED BY <1>1, <1>5, <1>6, <1>7, <1>8 DEF MutexRight

LEMMA LeavingJoins ==
    ASSUME NEW pt, NEW cx, NEW pq, NEW cd, NEW l, NEW t \in Threads, NEW st, NEW o,
           Leaving(pt, cx, pq, cd, l, t, st, o)
    PROVE  JoinsRight(pq, cd)'
<1>1. /\ JoinsRight(pt, cx) /\ tgt' = tgt /\ Situation(pt, cx) /\ l \in LWPs /\ Running(l, t)
      /\ \A u \in Threads \ {t} : pq[u] = pt[u] /\ cd[u] = cx[u]
      /\ Lands(pt[t], pq[t], cx[t]) /\ cd[t] = cx[t] /\ o = SleepsIn(t, pt[t])
  BY DEF Leaving, Leaves, Situation, LifeInvAt
<1>2. \A u \in Threads : Gone(pq[u], cd[u]) <=> Gone(pt[u], cx[u])
  BY <1>1, LandSteps
<1>3. \A r \in Objs, u \in Threads : InQueue(r, u)' <=> InQueue(r, u) \/ (r = o /\ u = t)
  BY DEF Leaving
<1>4. \A u \in Threads : pt[u] = "join_woken" \/ pt[u] = "join_switch" => tgt[u] \in Threads
  BY <1>1 DEF Situation, LifeInvAt, LifeTypeOK, Private, CallArgs, Has, JoinCode
<1>5. pt[t] = "join_switch" => tgt[t] \in Threads /\ o = tgt[t] /\ ~Gone(pt[tgt[t]], cx[tgt[t]])
  BY <1>1, <1>4 DEF JoinsRight, SleepsIn
<1>6. \A u \in Threads : u \in Objs /\ u # reap_mtx /\ u # reap_cond /\ u # NoObj
  BY LifeObjects
<1>7. ASSUME NEW u \in Threads, NEW v \in Threads, InQueue(u, v)' PROVE ~Gone(pq[u], cd[u])
  <2>1. CASE InQueue(u, v)
    BY <1>1, <1>2, <2>1 DEF JoinsRight
  <2>2. CASE u = o /\ v = t
    <3>1. pt[t] = "join_switch"
      BY <1>1, <1>6, <2>2 DEF SleepsIn
    <3> QED BY <1>2, <1>5, <2>2, <3>1
  <2> QED BY <1>3, <1>6, <1>7, <2>1, <2>2
<1>8. \A u \in Threads : pq[u] # "join_switch"
  <2>1. \A u \in Threads \ {t} : pt[u] \in Resting
    BY <1>1, OneRuns, OffLwpRests
  <2> QED BY <1>1, <2>1 DEF Resting, Lands
<1>9. ASSUME NEW u \in Threads, pq[u] = "join_woken"
      PROVE  InQueue(tgt[u], u)' \/ Gone(pq[tgt'[u]], cd[tgt'[u]])
  <2>0. \A x, y : x = y /\ InQueue(x, u)' => InQueue(y, u)'
    OBVIOUS
  <2>1. CASE u = t
    <3>1. pt[t] = "join_switch"
      BY <1>1, <1>9, <2>1 DEF Lands
    <3>2. InQueue(o, t)'
      BY <1>3, <1>5, <1>6, <3>1
    <3>3. o = tgt'[u]
      BY <1>1, <1>5, <2>1, <3>1
    <3> QED BY <2>0, <2>1, <3>2, <3>3
  <2>2. CASE u # t
    <3>1. /\ pt[u] = "join_woken" /\ tgt[u] \in Threads /\ tgt'[u] = tgt[u]
          /\ InQueue(tgt[u], u) \/ Gone(pt[tgt[u]], cx[tgt[u]])
      BY <1>1, <1>4, <1>9, <2>2 DEF JoinsRight
    <3> QED BY <1>2, <1>3, <1>6, <2>0, <3>1
  <2> QED BY <2>1, <2>2
<1> QED BY <1>7, <1>8, <1>9 DEF JoinsRight

LEMMA LeavingReaper ==
    ASSUME NEW pt, NEW cx, NEW pq, NEW cd, NEW l, NEW t \in Threads, NEW st, NEW o,
           Leaving(pt, cx, pq, cd, l, t, st, o)
    PROVE  ReaperRight(pq, cd)'
<1>1. /\ ReaperRight(pt, cx) /\ reap_queue' = reap_queue /\ halted = "none" /\ halted' \in {"none", "lwp_park"}
      /\ \A u \in Threads \ {t} : pq[u] = pt[u] /\ cd[u] = cx[u]
      /\ Lands(pt[t], pq[t], cx[t]) /\ cd[t] = cx[t] /\ o = SleepsIn(t, pt[t])
      /\ reap_cond \in Objs /\ Reaper \in Threads /\ reap_cond # reap_mtx /\ reap_cond # NoObj
  BY LifeObjects DEF Leaving, Leaves, Situation, LifeInvAt, Scanned
<1>2. \A u \in Threads : ut_state'[u] = "UT_NO_STATE" <=> ut_state[u] = "UT_NO_STATE"
  BY DEF Leaving, Leaves, Scanned
<1>3. \A u \in Threads : InQueue(reap_cond, u)' <=> InQueue(reap_cond, u) \/ (reap_cond = o /\ u = t)
  BY <1>1 DEF Leaving
<1>4. /\ ~Settling(pq[t], cd[t]) /\ pt[t] \notin {"reaper_scan", "cond_signal"}
      /\ pt[t] = "cond_switch" => Settling(pt[t], cx[t])
  BY <1>1, LandSteps
<1>5. \A u \in Threads : pt[u] \in {"reaper_scan", "cond_signal"} => pq[u] = pt[u]
  BY <1>1, <1>4
<1>6. \A u \in Threads : Settling(pq[u], cd[u]) => reap_queue' = <<>>
  BY <1>1, <1>4 DEF ReaperRight
<1>7. o = reap_cond => pt[t] = "cond_switch"
  <2>1. pt[t] = "join_switch" => tgt[t] \in Threads \cup {NoThread}
    BY DEF Leaving, Leaves, Situation, LifeInvAt, LifeTypeOK
  <2>2. pt[t] = "join_switch" => tgt[t] # NoThread
    BY DEF Leaving, Leaves, Situation, LifeInvAt, Private, CallArgs, Has, JoinCode
  <2> QED BY <1>1, <2>1, <2>2, LifeObjects DEF SleepsIn
<1>8. ASSUME NEW u \in Threads, InQueue(reap_cond, u)'
      PROVE  reap_queue' = <<>> \/ \E v \in Threads : pq[v] = "cond_signal"
  <2>1. CASE InQueue(reap_cond, u)
    BY <1>1, <1>5, <2>1 DEF ReaperRight
  <2>2. CASE reap_cond = o
    BY <1>1, <1>4, <1>7, <2>2 DEF ReaperRight
  <2> QED BY <1>3, <1>8, <2>1, <2>2
<1>9. \/ pq[Reaper] = "reaper_scan" \/ \E u \in Threads \ {Reaper} : ut_state'[u] # "UT_NO_STATE"
  BY <1>1, <1>2, <1>5 DEF ReaperRight
<1>10. ut_state'[Reaper] # "UT_NO_STATE"
  BY <1>1, <1>2 DEF ReaperRight
<1> QED BY <1>6, <1>8, <1>9, <1>10 DEF ReaperRight

LEMMA LeavingEnds ==
    ASSUME NEW pt, NEW cx, NEW pq \in [Threads -> Points], NEW cd \in [Threads -> Contexts],
           NEW l, NEW t \in Threads, NEW st, NEW o,
           Leaving(pt, cx, pq, cd, l, t, st, o), WaitsRight(pq)', LifeTypeOK'
    PROVE  LifeInv'
<1>1. Leaves(pt, cx, pq, cd, l, t, st)
  BY DEF Leaving
<1>2. RunqRight' /\ HaltRight' /\ NewRight(pq)'
  BY <1>1, LeavesFrame
<1>3. \A u \in Threads : Private(u, pq[u], cd[u])'
  BY <1>1, LeavesPrivate
<1>4. Rights(pq, cd)'
  BY LeavingPmuts, LeavingMutex, LeavingJoins, LeavingReaper DEF Rights
<1> QED BY <1>2, <1>3, <1>4, LifeEnds

\* Where a thread that switches comes back.
LEMMA LandsSomewhere ==
    ASSUME NEW p, NEW c \in Contexts, NEW n, NEW r, Row(p, c, n, "switch", r)
    PROVE  \E q \in Points : Lands(p, q, c) /\ Is(q, c, n, r)
<1> DEFINE h == "switch"
<1>0. Row(p, c, n, h, r) /\ h = "switch"
  OBVIOUS
<1> HIDE DEF h
<1>1. \/ p = "yield_switch" /\ c \in Preemptible /\ n = 1 /\ r = <<"nopreempt_off">> \o Below(c)
      \/ p = "mtx_switch" /\ c \in Lockers /\ n = Base(c) + 1 /\ r = <<Locked(c)>> \o AfterLock(c)
      \/ p = "cond_switch" /\ c = "reaper_loop" /\ n = 2 /\ r = <<"cond_relock">> \o <<"reaper_loop">>
      \/ p = "join_switch" /\ c = "join" /\ n = 1 /\ r = <<"join_woken">>
      \/ p = "last_switch" /\ c = "exit" /\ n \in {1, 2} /\ r = <<"dead">>
  BY <1>0, RowsOfSwitches
<1>2. /\ Below(c) \in Seq(LifeNames) /\ AfterLock(c) \in Seq(LifeNames) /\ Locked(c) \in LifeNames
      /\ {"nopreempt_off", "cond_relock", "reaper_loop", "join_woken", "dead"} \subseteq LifeNames
  BY BelowType, NamesKnown
<1>3. {"off", "mtx_locked", "cond_relock", "join_woken", "dead"} \subseteq Points
  BY DEF Points, Yields, CondWaits, JoinCode, ExitCode
<1>4. CASE p = "yield_switch" /\ c \in Preemptible /\ n = 1 /\ r = <<"nopreempt_off">> \o Below(c)
  <2>1. r # <<>> /\ Head(r) = "nopreempt_off" /\ Tail(r) = Below(c)
    BY <1>2, <1>4, AfterCons
  <2>2. ClientRow("off", c, n, "nopreempt_off", Below(c))
    BY <1>4 DEF ClientRow
  <2>3. Lands(p, "off", c) /\ Is("off", c, n, r)
    BY <1>4, <2>1, <2>2 DEF Is, Row, Lands
  <2> QED BY <1>3, <2>3
<1>5. CASE p = "mtx_switch" /\ c \in Lockers /\ n = Base(c) + 1 /\ r = <<Locked(c)>> \o AfterLock(c)
  <2>1. r # <<>> /\ Head(r) = Locked(c) /\ Tail(r) = AfterLock(c)
    BY <1>2, <1>5, AfterCons
  <2>2. LockRow("mtx_locked", c, n, Locked(c), AfterLock(c))
    BY <1>5 DEF LockRow
  <2>3. Lands(p, "mtx_locked", c) /\ Is("mtx_locked", c, n, r)
    BY <1>5, <2>1, <2>2 DEF Is, Row, Lands
  <2> QED BY <1>3, <2>3
<1>6. CASE p = "cond_switch" /\ c = "reaper_loop" /\ n = 2 /\ r = <<"cond_relock">> \o <<"reaper_loop">>
  <2>0. <<"reaper_loop">> \in Seq(LifeNames)
    BY <1>2, OneName
  <2>1. r # <<>> /\ Head(r) = "cond_relock" /\ Tail(r) = <<"reaper_loop">>
    BY <1>2, <1>6, <2>0, AfterCons
  <2>2. ReaperRow("cond_relock", c, n, "cond_relock", <<"reaper_loop">>)
    BY <1>6 DEF ReaperRow
  <2>3. Lands(p, "cond_relock", c) /\ Is("cond_relock", c, n, r)
    BY <1>6, <2>1, <2>2 DEF Is, Row, Lands
  <2> QED BY <1>3, <2>3
<1>7. CASE p = "join_switch" /\ c = "join" /\ n = 1 /\ r = <<"join_woken">>
  <2>1. r # <<>> /\ Head(r) = "join_woken" /\ Tail(r) = <<>>
    BY <1>2, <1>7, OneName
  <2>2. ClientRow("join_woken", c, n, "join_woken", <<>>)
    BY <1>7 DEF ClientRow
  <2>3. Lands(p, "join_woken", c) /\ Is("join_woken", c, n, r)
    BY <1>7, <2>1, <2>2 DEF Is, Row, Lands
  <2> QED BY <1>3, <2>3
<1>8. CASE p = "last_switch" /\ c = "exit" /\ n \in {1, 2} /\ r = <<"dead">>
  <2>1. r # <<>> /\ Head(r) = "dead" /\ Tail(r) = <<>>
    BY <1>2, <1>8, OneName
  <2>2. ExitRow("dead", c, n, "dead", <<>>)
    BY <1>8 DEF ExitRow
  <2>3. Lands(p, "dead", c) /\ Is("dead", c, n, r)
    BY <1>8, <2>1, <2>2 DEF Is, Row, Lands
  <2> QED BY <1>3, <2>3
<1> QED BY <1>1, <1>4, <1>5, <1>6, <1>7, <1>8

\* The state in which it is left behind, and its arguments.
LEMMA LandsRest ==
    ASSUME NEW p, NEW q, NEW c, NEW s, Lands(p, q, c), s = StateOn(p, c)
    PROVE  /\ StateOff(q, c, s)
           /\ s = "UT_WAIT" <=> p \in {"mtx_switch", "cond_switch", "join_switch"}
           /\ s = "UT_RUNNABLE" <=> p = "yield_switch"
           /\ s \notin {"UT_NO_STATE", "UT_TRANSITION"}
  BY DEF Lands, StateOn, StateOff, Woken, Lockers, Buriers, Preemptible

LEMMA LandsArgs ==
    ASSUME NEW t \in Threads, NEW p, NEW q, NEW c, Lands(p, q, c), Private(t, p, c),
           UNCHANGED <<wakee, newthr, tgt, marg, carg, crit>>
    PROVE  /\ SwitchArgs(t, q)' /\ LockArgs(t, q, c)' /\ CallArgs(t, q, c)' /\ Roles(t, q, c)
           /\ wakee[t] = NoThread
<1>1. SwitchArgs(t, q)'
  BY DEF Lands, SwitchArgs
<1>2. LockArgs(t, q, c)'
  BY DEF Lands, Private, LockArgs, InSection, Settling, CondWaits, Sections, ReaperCode, Unlocks, Preemptible,
         Lockers, Buriers
<1>3. CallArgs(t, q, c)' /\ wakee[t] = NoThread
  BY DEF Lands, Private, CallArgs, Allocates, WakePoints, Has, Frees, Sections, Unlocks, JoinCode, Buriers,
         Preemptible
<1>4. Roles(t, q, c)
  BY DEF Lands, Private, Roles, Yields
<1> QED BY <1>1, <1>2, <1>3, <1>4

\* uthread_switch finds the run queues as they should be.
LEMMA SwitchScans ==
    ASSUME NEW pt, NEW cx, Situation(pt, cx), NEW l \in LWPs, NEW t \in Threads, Switch(l, t), halted = "none",
           swarg[t].queue = NoObj /\ swarg[t].saveonrq <=> ut_state[t] = "UT_RUNNABLE"
    PROVE  Scanned(l, ut_state)
<1> DEFINE save == swarg[t].saveonrq /\ swarg[t].queue = NoObj
           rq == IF save THEN Enqueued(runq, ut_prio[t], t) ELSE runq
           sz == IF save THEN SizeUp(tq_size, ut_prio[t]) ELSE tq_size
           st == IF save THEN [ut_state EXCEPT ![t] = "UT_RUNNABLE"] ELSE ut_state
<1>1. PICK lw \in (IF save THEN Released(runq, lwp) ELSE {lwp}) : Dispatch(l, rq, sz, st, lw)
  BY DEF Switch
<1>2. /\ Running(l, t) /\ runq_mtx = NoLwp /\ UNCHANGED <<runq_mtx, ut_prio>>
  BY DEF Switch, At
<1>3. /\ curthr \in [LWPs -> Threads \cup {NoThread}] /\ lwp \in [LWPs -> LwpStates]
      /\ ut_state \in [Threads -> UtStates] /\ runq \in [Prios -> Seq(Threads)] /\ tq_size \in [Prios -> Int]
      /\ RunqRight
  BY DEF Situation, LifeInvAt, LifeTypeOK, SchedTypes, LwpStates
<1>4. /\ (\A k \in LWPs : k = l) /\ NoThread \notin Threads
      /\ OnLwp(t) /\ \A u \in Threads \ {t} : ~OnLwp(u)
  BY <1>2, OneRuns, LifeObjects
<1>5. save <=> ut_state[t] = "UT_RUNNABLE"
  OBVIOUS
<1>6. st = ut_state
  BY <1>3, <1>5
<1>7. lw \in [LWPs -> LwpStates]
  BY <1>1, <1>3, ReleasedType DEF LwpStates
<1>8. /\ \A u \in Threads : ut_state[u] \notin {"UT_NO_STATE", "UT_TRANSITION"} => ut_prio[u] \in Prios
      /\ \A p \in Prios : tq_size[p] = Len(runq[p])
      /\ \A u \in Threads : ut_state[u] = "UT_RUNNABLE" /\ ~OnLwp(u) => OnRunq(runq, u)
      /\ RunqOK
  BY <1>3 DEF RunqRight, PrioOK, QueueCountsAgree, Queued, OnRunq
<1>9. /\ rq \in [Prios -> Seq(Threads)] /\ sz \in [Prios -> Int]
      /\ \A p \in Prios : sz[p] = Len(rq[p])
      /\ Distinct(Prios, rq, {u \in Threads : ut_state[u] = "UT_RUNNABLE"})
      /\ \A u \in Threads : ut_state[u] = "UT_RUNNABLE" => OnRunq(rq, u)
  <2>1. CASE save
    <3>1. ut_prio[t] \in Prios /\ ut_state[t] = "UT_RUNNABLE"
      BY <1>5, <1>8, <2>1
    <3>2. rq = Enqueued(runq, ut_prio[t], t) /\ sz = SizeUp(tq_size, ut_prio[t])
      BY <2>1
    <3> HIDE DEF rq, sz, save
    <3>3. rq \in [Prios -> Seq(Threads)] /\ sz \in [Prios -> Int]
      BY <1>3, <3>1, <3>2, EnqueuedType
    <3>4. \A u : OnRunq(runq, u) \/ u = t => OnRunq(rq, u)
      BY <1>3, <3>1, <3>2, EnqueueQueue
    <3>5. \A p \in Prios : sz[p] = Len(rq[p])
      BY <1>3, <1>8, <3>1, <3>2, EnqueueCounts
    <3>6. Distinct(Prios, rq, OffLwps("UT_RUNNABLE") \cup {t})
      BY <1>4, <3>1, <3>2, EnqueueDistinct
    <3>7. OffLwps("UT_RUNNABLE") \cup {t} \subseteq {u \in Threads : ut_state[u] = "UT_RUNNABLE"}
      BY <3>1 DEF OffLwps
    <3>8. Distinct(Prios, rq, {u \in Threads : ut_state[u] = "UT_RUNNABLE"})
      BY <3>6, <3>7, DistinctWider
    <3> QED BY <1>4, <1>8, <3>3, <3>4, <3>5, <3>8
  <2>2. CASE ~save
    <3>1. rq = runq /\ sz = tq_size /\ ut_state[t] # "UT_RUNNABLE"
      BY <1>5, <2>2
    <3> HIDE DEF rq, sz, save
    <3>2. Distinct(Prios, runq, OffLwps("UT_RUNNABLE"))
      BY <1>3, <1>8 DEF RunqOK, Distinct, OffLwps
    <3>3. OffLwps("UT_RUNNABLE") \subseteq {u \in Threads : ut_state[u] = "UT_RUNNABLE"}
      BY DEF OffLwps
    <3>4. Distinct(Prios, rq, {u \in Threads : ut_state[u] = "UT_RUNNABLE"})
      BY <3>1, <3>2, <3>3, DistinctWider
    <3> QED BY <1>3, <1>4, <1>8, <3>1, <3>4
  <2> QED BY <2>1, <2>2
<1>10. Dispatch(l, rq, sz, ut_state, lw)
  BY <1>1, <1>6
<1> HIDE DEF rq, sz, st, save
<1>11. ScanArgs(l, rq, sz, ut_state, lw)
  BY <1>2, <1>3, <1>4, <1>7, <1>8, <1>9 DEF ScanArgs
<1> QED BY <1>10, <1>11, ScanFinds

\* uthread_switch puts the thread where it says, and the LWP takes another one.
LEMMA LifeSwitch ==
    ASSUME NEW pt, NEW cx, Situation(pt, cx), NEW l \in LWPs, NEW t \in Threads, halted = "none",
           Switch(l, t), UNCHANGED <<mtxVars, lifeVars>>
    PROVE  LifeInv'
<1>1. /\ Row(pt[t], cx[t], ut_no_preempt_count[t], "switch", Tail(stack[t])) /\ stack[t] # <<>>
      /\ Running(l, t)
  BY AtPoint DEF Switch
<1>2. /\ pt \in [Threads -> Points] /\ cx \in [Threads -> Contexts] /\ LifeTypeOK
      /\ Private(t, pt[t], cx[t])
  BY DEF Situation, LifeInvAt
<1>3. PICK q \in Points : Lands(pt[t], q, cx[t]) /\ Is(q, cx[t], ut_no_preempt_count[t], Tail(stack[t]))
  BY <1>1, <1>2, LandsSomewhere
<1>4. PICK pq \in [Threads -> Points], cd \in [Threads -> Contexts] : Moves(pt, pq, t, q) /\ Moves(cx, cd, t, cx[t])
  BY <1>2, MovesExist
<1>5. /\ pq[t] = q /\ cd[t] = cx[t]
      /\ \A u \in Threads \ {t} : pq[u] = pt[u] /\ cd[u] = cx[u]
  BY <1>4 DEF Moves
<1>6. /\ UNCHANGED <<ut_prio, ut_no_preempt_count, runq_mtx, wakee, sparg, newthr, m_owner, marg, carg, crit,
                     ut_detached, reap_queue, tgt, claimed>>
      /\ swarg' = [swarg EXCEPT ![t] = NoSwitch]
      /\ Continue(t, <<>>)
  BY DEF Switch, mtxVars, lifeVars
<1>7. /\ waitq' = IF swarg[t].queue = NoObj THEN waitq ELSE [waitq EXCEPT ![swarg[t].queue] = Append(@, t)]
      /\ pmut' = IF swarg[t].pmut = NoObj THEN pmut ELSE [pmut EXCEPT ![swarg[t].pmut] = NoLwp]
  BY DEF Switch
<1>8. /\ stack' \in [Threads -> Seq(LifeNames)] /\ stack'[t] = Tail(stack[t])
      /\ \A u \in Threads \ {t} : stack'[u] = stack[u]
  BY <1>1, <1>2, <1>6, LifeContinue
<1>9. /\ ut_state[t] = StateOn(pt[t], cx[t]) /\ \A u \in Threads \ {t} : ~OnLwp(u)
      /\ \A r \in Objs : ~InQueue(r, t)
      /\ OnLwp(t)
  BY <1>1, OneRuns
<1>10. /\ StateOff(q, cx[t], ut_state[t])
       /\ ut_state[t] = "UT_WAIT" <=> pt[t] \in {"mtx_switch", "cond_switch", "join_switch"}
       /\ ut_state[t] = "UT_RUNNABLE" <=> pt[t] = "yield_switch"
       /\ ut_state[t] \notin {"UT_NO_STATE", "UT_TRANSITION"}
  BY <1>3, <1>9, LandsRest
<1>11. PICK o, m : o = SleepsIn(t, pt[t]) /\ m = Releases(t, pt[t])
  OBVIOUS
<1>12. m \in Objs
  BY <1>1, <1>3, <1>11, LandLocks
<1>13. pt[t] \in {"mtx_switch", "cond_switch", "join_switch"} => o \in Objs
  BY <1>11, <1>12 DEF Releases
<1>14. /\ swarg[t].queue = o /\ swarg[t].pmut = m
       /\ swarg[t].saveonrq <=> pt[t] = "yield_switch"
  BY <1>2, <1>3, <1>11 DEF Private, SwitchArgs, SleepsIn, Releases, Lands
<1>15. NoObj \notin Objs
  BY LifeObjects
<1>16. o = NoObj <=> pt[t] \notin {"mtx_switch", "cond_switch", "join_switch"}
  BY <1>11, <1>13, <1>15 DEF SleepsIn
<1>17. pmut' = [pmut EXCEPT ![m] = NoLwp]
  BY <1>7, <1>12, <1>14, <1>15
<1>18. Scanned(l, ut_state)
  <2>1. swarg[t].queue = NoObj /\ swarg[t].saveonrq <=> ut_state[t] = "UT_RUNNABLE"
    BY <1>10, <1>14, <1>16
  <2> QED BY <2>1, SwitchScans
<1>19. /\ SwitchArgs(t, q)' /\ LockArgs(t, q, cx[t])' /\ CallArgs(t, q, cx[t])' /\ Roles(t, q, cx[t])
       /\ wakee[t] = NoThread
  BY <1>2, <1>3, <1>6, LandsArgs
<1>20. Leaves(pt, cx, pq, cd, l, t, ut_state)
  <2>1. Settled(t, pq[t], cd[t], ut_state[t])
    <3>1. Is(q, cx[t], ut_no_preempt_count'[t], stack'[t])
      BY <1>3, <1>6, <1>8
    <3>2. Settled(t, q, cx[t], ut_state[t])
      BY <1>10, <1>19, <3>1 DEF Settled
    <3> QED BY <1>5, <3>2
  <2>2. ASSUME NEW u \in Threads \ {t} PROVE KeptArgs(u)
    <3>1. swarg'[u] = swarg[u]
      <4>1. swarg \in [Threads -> [queue : Objs \cup {NoObj}, saveonrq : BOOLEAN, pmut : Objs \cup {NoObj}]]
        BY <1>2 DEF LifeTypeOK, SchedTypes
      <4> QED BY <1>6, <4>1
    <3> QED BY <1>6, <1>8, <3>1 DEF KeptArgs
  <2>3. ASSUME NEW u \in Threads PROVE wakee[u] = NoThread
    <3>1. CASE u = t
      BY <1>19, <3>1
    <3>2. CASE u # t
      <4>1. Private(u, pt[u], cx[u]) /\ pt[u] \in Resting
        BY <1>9, <3>2, OffLwpRests DEF Situation, LifeInvAt
      <4> QED BY <4>1 DEF Private, CallArgs, WakePoints, Resting
    <3> QED BY <3>1, <3>2
  <2>4. {pt[t], pq[t]} \cap {"alloc_claim", "startonrunq"} = {}
    BY <1>3, <1>5, LandSteps
  <2> QED BY <1>5, <1>6, <1>9, <1>10, <1>18, <2>1, <2>2, <2>3, <2>4 DEF Leaves
<1>21. LifeTypeOK' \/ waitq' \notin [Objs -> Seq(Threads)]
  <2>1. swarg' \in [Threads -> [queue : Objs \cup {NoObj}, saveonrq : BOOLEAN, pmut : Objs \cup {NoObj}]]
    <3>1. NoSwitch \in [queue : Objs \cup {NoObj}, saveonrq : BOOLEAN, pmut : Objs \cup {NoObj}]
      BY DEF NoSwitch
    <3>2. swarg \in [Threads -> [queue : Objs \cup {NoObj}, saveonrq : BOOLEAN, pmut : Objs \cup {NoObj}]]
      BY <1>2 DEF LifeTypeOK, SchedTypes
    <3> HIDE DEF NoSwitch
    <3> QED BY <1>6, <3>1, <3>2
  <2>2. pmut' \in [Objs -> LWPs \cup {NoLwp}]
    BY <1>2, <1>17 DEF LifeTypeOK, SchedTypes
  <2>3. /\ curthr' \in [LWPs -> Threads \cup {NoThread}] /\ lwp' \in [LWPs -> LwpStates]
        /\ ut_state' \in [Threads -> UtStates]
        /\ runq' \in [Prios -> Seq(Threads)] /\ tq_size' \in [Prios -> Int]
        /\ halted' \in {"none", "lwp_park"}
    BY <1>18 DEF Scanned
  <2> QED BY <1>2, <1>6, <1>8, <2>1, <2>2, <2>3 DEF LifeTypeOK, SchedTypes, LifeNames, LwpStates
<1>22. reap_mtx \in Objs /\ reap_cond \in Objs /\ Objs = Threads \cup {reap_mtx, reap_cond}
       /\ reap_mtx # reap_cond /\ reap_mtx \notin Threads /\ reap_cond \notin Threads
  BY LifeObjects
<1>23. CASE o = NoObj
  <2>1. waitq' = waitq
    BY <1>7, <1>14, <1>23
  <2>2. WaitsRight(pq)'
    BY <1>9, <1>10, <1>16, <1>20, <1>23, <2>1, LeavesWaits
  <2>3. Leaving(pt, cx, pq, cd, l, t, ut_state, o)
    <3>1. \A r \in Objs, u \in Threads : InQueue(r, u)' <=> InQueue(r, u) \/ (r = o /\ u = t)
      BY <1>15, <1>23, <2>1 DEF InQueue
    <3> QED BY <1>1, <1>3, <1>5, <1>11, <1>17, <1>20, <2>1, <3>1 DEF Leaving
  <2>4. LifeTypeOK'
    BY <1>2, <1>21, <2>1 DEF LifeTypeOK, SchedTypes
  <2> QED BY <2>2, <2>3, <2>4, LeavingEnds
<1>24. CASE o # NoObj
  <2>1. waitq' = [waitq EXCEPT ![o] = Append(@, t)] /\ o \in Objs /\ ut_state[t] = "UT_WAIT"
    BY <1>7, <1>10, <1>13, <1>14, <1>16, <1>24
  <2>2. /\ o = reap_mtx => pt[t] = "mtx_switch"
        /\ o = reap_cond => pt[t] = "cond_switch"
        /\ o \in Threads => pt[t] = "join_switch" /\ tgt[t] = o
    <3>1. pt[t] = "join_switch" => tgt[t] \in Threads /\ o = tgt[t]
      <4>1. pt[t] = "join_switch" => o = tgt[t]
        BY <1>11 DEF SleepsIn
      <4>2. pt[t] = "join_switch" => tgt[t] # NoThread
        BY <1>2 DEF Private, CallArgs, Has, JoinCode
      <4> QED BY <1>2, <4>1, <4>2 DEF LifeTypeOK
    <3> QED BY <1>11, <1>15, <1>22, <1>24, <3>1 DEF SleepsIn
  <2>3. /\ o = reap_mtx => pq[t] = "mtx_locked"
        /\ o = reap_cond => pq[t] = "cond_relock"
        /\ o \in Threads => pq[t] = "join_woken" /\ tgt[t] = o
    BY <1>3, <1>5, <2>2 DEF Lands
  <2>4. /\ WaitsRight(pq)' /\ waitq' \in [Objs -> Seq(Threads)]
        /\ \A r \in Objs, u \in Threads : InQueue(r, u)' <=> InQueue(r, u) \/ (r = o /\ u = t)
    BY <1>1, <1>20, <2>1, <2>3, LeavesToWait
  <2>5. Leaving(pt, cx, pq, cd, l, t, ut_state, o)
    <3>1. waitq'[reap_mtx] = waitq[reap_mtx] \/ o = reap_mtx
      BY <1>2, <1>22, <2>1 DEF LifeTypeOK, SchedTypes
    <3> QED BY <1>1, <1>3, <1>5, <1>11, <1>17, <1>20, <2>4, <3>1 DEF Leaving
  <2>6. LifeTypeOK'
    BY <1>21, <2>4
  <2> QED BY <2>4, <2>5, <2>6, LeavingEnds
<1> QED BY <1>23, <1>24

-----------------------------------------------------------------------------
(* The LWP without a thread: lwp_start and lwp_park.                       *)

LEMMA Idle ==
    ASSUME NEW pt, NEW cx, Situation(pt, cx), NEW l \in LWPs, lwp[l] # "running"
    PROVE  \A u \in Threads : ~OnLwp(u)
<1>1. LwpOK /\ \A k \in LWPs : k = l
  BY DEF Situation, LifeInvAt, RunqRight, OneLwpOnly
<1>2. curthr[l] = NoThread
  BY <1>1 DEF LwpOK
<1> QED BY <1>1, <1>2, LifeObjects DEF OnLwp, Running

LEMMA IdleScans ==
    ASSUME NEW pt, NEW cx, Situation(pt, cx), NEW l \in LWPs, lwp[l] # "running", halted = "none",
           runq_mtx = NoLwp, UNCHANGED <<runq_mtx, ut_prio>>, Dispatch(l, runq, tq_size, ut_state, lwp)
    PROVE  Scanned(l, ut_state)
<1>1. /\ curthr \in [LWPs -> Threads \cup {NoThread}] /\ lwp \in [LWPs -> LwpStates]
      /\ ut_state \in [Threads -> UtStates] /\ runq \in [Prios -> Seq(Threads)] /\ tq_size \in [Prios -> Int]
      /\ RunqRight /\ NoThread \notin Threads /\ \A k \in LWPs : k = l
  BY LifeObjects DEF Situation, LifeInvAt, LifeTypeOK, SchedTypes, LwpStates, OneLwpOnly
<1>2. \A u \in Threads : ~OnLwp(u)
  BY Idle
<1>3. /\ \A u \in Threads : ut_state[u] \notin {"UT_NO_STATE", "UT_TRANSITION"} => ut_prio[u] \in Prios
      /\ \A p \in Prios : tq_size[p] = Len(runq[p])
      /\ \A u \in Threads : ut_state[u] = "UT_RUNNABLE" /\ ~OnLwp(u) => OnRunq(runq, u)
      /\ RunqOK
  BY <1>1 DEF RunqRight, PrioOK, QueueCountsAgree, Queued, OnRunq
<1>4. Distinct(Prios, runq, {u \in Threads : ut_state[u] = "UT_RUNNABLE"})
  <2>1. Distinct(Prios, runq, OffLwps("UT_RUNNABLE"))
    BY <1>1, <1>3 DEF RunqOK, Distinct, OffLwps
  <2>2. OffLwps("UT_RUNNABLE") \subseteq {u \in Threads : ut_state[u] = "UT_RUNNABLE"}
    BY DEF OffLwps
  <2> QED BY <2>1, <2>2, DistinctWider
<1>5. ScanArgs(l, runq, tq_size, ut_state, lwp)
  BY <1>1, <1>2, <1>3, <1>4 DEF ScanArgs
<1> QED BY <1>5, ScanFinds

\* What the threads have is not touched.
LEMMA IdleRights ==
    ASSUME NEW pt, NEW cx, Situation(pt, cx), halted = "none", halted' \in {"none", "lwp_park"},
           Carries(pt, cx, pt, cx, Reaper), UNCHANGED <<waitq, pmut, m_owner>>,
           \A u \in Threads : ut_state'[u] = "UT_NO_STATE" <=> ut_state[u] = "UT_NO_STATE",
           \A u \in Threads : pt[u] # "join_switch"
    PROVE  Rights(pt, cx)'
<1>1. /\ PmutsRight(pt, cx) /\ MutexRight(pt, cx) /\ JoinsRight(pt, cx) /\ ReaperRight(pt, cx)
      /\ Reaper \in Threads /\ UNCHANGED <<tgt, reap_queue>>
      /\ Private(Reaper, pt[Reaper], cx[Reaper])
  BY LifeObjects DEF Situation, LifeInvAt, Carries
<1>2. SameRole(pt[Reaper], cx[Reaper], pt[Reaper], cx[Reaper])
  <2>1. pt[Reaper] # "detach_check"
    <3>1. Roles(Reaper, pt[Reaper], cx[Reaper]) /\ Is(pt[Reaper], cx[Reaper], ut_no_preempt_count[Reaper], stack[Reaper])
      BY <1>1 DEF Private
    <3> QED BY <3>1 DEF Roles, Yields, Is, Row, ClientRow, ExitRow, LockRow, UnlockRow, BurialRow, ReaperRow, ReaperCode
  <2> QED BY <2>1 DEF SameRole
<1>3. Custody(pt, cx)' /\ Targets(pt, cx)' /\ CaredFor(pt, cx)'
  BY <1>1, <1>2, CarryCustody, CarryTargets, CarryCare
<1>4. PmutsRight(pt, cx)'
  BY <1>1 DEF PmutsRight, Locks
<1>0. \A o, u : InQueue(o, u)' <=> InQueue(o, u)
  BY DEF InQueue
<1>5. MutexRight(pt, cx)' /\ JoinsRight(pt, cx)'
  <2>1. MutexRight(pt, cx)'
    BY <1>0, <1>1 DEF MutexRight
  <2>2. \A x, y, u : x = y /\ InQueue(x, u)' => InQueue(y, u)'
    OBVIOUS
  <2>3. ASSUME NEW u \in Threads, pt[u] = "join_woken"
        PROVE  InQueue(tgt[u], u)' \/ Gone(pt[tgt'[u]], cx[tgt'[u]])
    <3>1. tgt'[u] = tgt[u] /\ (InQueue(tgt[u], u) \/ Gone(pt[tgt[u]], cx[tgt[u]]))
      BY <1>1, <2>3 DEF JoinsRight
    <3> QED BY <1>0, <2>2, <3>1
  <2>4. ASSUME NEW u \in Threads, NEW v \in Threads, InQueue(u, v)' PROVE ~Gone(pt[u], cx[u])
    BY <1>0, <1>1, <2>4 DEF JoinsRight
  <2>5. JoinsRight(pt, cx)'
    BY <2>3, <2>4 DEF JoinsRight
  <2> QED BY <2>1, <2>5
<1>6. ReaperRight(pt, cx)'
  BY <1>0, <1>1 DEF ReaperRight
<1> QED BY <1>3, <1>4, <1>5, <1>6 DEF Rights

LEMMA LifeIdleScan ==
    ASSUME NEW pt, NEW cx, Situation(pt, cx), NEW l \in LWPs, lwp[l] # "running", halted = "none",
           runq_mtx = NoLwp, Dispatch(l, runq, tq_size, ut_state, lwp),
           UNCHANGED <<ut_prio, ut_no_preempt_count, runq_mtx, waitVars, stack, argVars, mtxVars, lifeVars>>
    PROVE  LifeInv'
<1>1. UNCHANGED <<ut_prio, ut_no_preempt_count, runq_mtx, waitq, pmut, stack, swarg, wakee, sparg, newthr, m_owner,
                  marg, carg, crit, ut_detached, reap_queue, tgt, claimed>>
  BY DEF waitVars, argVars, mtxVars, lifeVars
<1>2. Scanned(l, ut_state)
  BY <1>1, IdleScans
<1>3. \A u \in Threads : ~OnLwp(u)
  BY Idle
<1>4. /\ \A u \in Threads : pt[u] \in Resting
      /\ \A u \in Threads : Private(u, pt[u], cx[u]) /\ KeptArgs(u)
      /\ LifeTypeOK /\ pt \in [Threads -> Points] /\ cx \in [Threads -> Contexts] /\ Reaper \in Threads
  BY <1>1, <1>3, OffLwpRests, LifeObjects DEF Situation, LifeInvAt, KeptArgs
<1>5. Leaves(pt, cx, pt, cx, l, Reaper, ut_state)
  <2>1. Settled(Reaper, pt[Reaper], cx[Reaper], ut_state[Reaper])
    BY <1>3, <1>4, OtherSettled
  <2>2. \A u \in Threads : wakee[u] = NoThread
    BY <1>4 DEF Private, CallArgs, WakePoints, Resting
  <2>3. pt[Reaper] \notin {"alloc_claim", "startonrunq"}
    BY <1>4 DEF Resting
  <2> QED BY <1>1, <1>2, <1>3, <1>4, <2>1, <2>2, <2>3 DEF Leaves
<1>6. /\ RunqRight' /\ HaltRight' /\ NewRight(pt)' /\ Carries(pt, cx, pt, cx, Reaper)
  BY <1>4, <1>5, LeavesFrame
<1>7. \A u \in Threads : Private(u, pt[u], cx[u])'
  BY <1>4, <1>5, LeavesPrivate
<1>8. WaitsRight(pt)'
  BY <1>1, <1>3, <1>4, <1>5, LeavesWaits
<1>9. LifeTypeOK'
  <2>1. /\ curthr' \in [LWPs -> Threads \cup {NoThread}] /\ lwp' \in [LWPs -> LwpStates]
        /\ ut_state' \in [Threads -> UtStates]
        /\ runq' \in [Prios -> Seq(Threads)] /\ tq_size' \in [Prios -> Int]
        /\ halted' \in {"none", "lwp_park"}
    BY <1>2 DEF Scanned
  <2> QED BY <1>1, <1>4, <2>1 DEF LifeTypeOK, SchedTypes, LwpStates
<1>10. Rights(pt, cx)'
  <2>1. \A u \in Threads : ut_state'[u] = "UT_NO_STATE" <=> ut_state[u] = "UT_NO_STATE"
    BY <1>2 DEF Scanned
  <2>2. halted' \in {"none", "lwp_park"}
    BY <1>2 DEF Scanned
  <2>3. \A u \in Threads : pt[u] # "join_switch"
    BY <1>4 DEF Resting
  <2> QED BY <1>1, <1>6, <2>1, <2>2, <2>3, IdleRights
<1> QED BY <1>4, <1>6, <1>7, <1>8, <1>9, <1>10, LifeEnds

\* An LWP that waits in lwp_park is signalled, or waits again.
LEMMA LifeIdleWait ==
    ASSUME NEW pt, NEW cx, Situation(pt, cx), NEW l \in LWPs, lwp[l] # "running", halted = "none",
           lwp' \in [LWPs -> LwpStates],
           UNCHANGED <<curthr, thrVars, runqVars, waitVars, stack, argVars, halted, mtxVars, lifeVars>>
    PROVE  LifeInv'
<1>1. UNCHANGED <<curthr, ut_state, ut_prio, ut_no_preempt_count, runq, tq_size, runq_mtx, waitq, pmut, stack, swarg,
                  wakee, sparg, newthr, m_owner, marg, carg, crit, ut_detached, reap_queue, tgt, claimed, halted>>
  BY DEF thrVars, runqVars, waitVars, argVars, mtxVars, lifeVars
<1>2. \A u \in Threads : ~OnLwp(u)
  BY Idle
<1>3. /\ \A u \in Threads : Private(u, pt[u], cx[u])
      /\ LifeTypeOK /\ pt \in [Threads -> Points] /\ cx \in [Threads -> Contexts] /\ Reaper \in Threads
      /\ RunqRight /\ WaitsRight(pt) /\ NewRight(pt) /\ HaltRight
      /\ curthr \in [LWPs -> Threads \cup {NoThread}]
  BY LifeObjects DEF Situation, LifeInvAt, LifeTypeOK, SchedTypes
<1>4. \A u : OnLwp(u)' <=> OnLwp(u)
  BY <1>1 DEF OnLwp, Running
<1>5. ASSUME NEW u \in Threads PROVE Private(u, pt[u], cx[u])'
  <2>1. Kept(u)
    BY <1>1 DEF Kept
  <2> QED BY <1>3, <1>4, <2>1, KeptPrivate
<1>6. LwpOK'
  <2>1. \A k \in LWPs : curthr'[k] = NoThread
    BY <1>1, <1>2, <1>3 DEF OnLwp, Running
  <2> QED BY <2>1 DEF LwpOK
<1>7. RunqRight'
  <2>1. QueueCountsAgree' /\ RunqOK' /\ PrioOK'
    BY <1>1, <1>3 DEF RunqRight, QueueCountsAgree, RunqOK, PrioOK, OnNoLwp
  <2>2. \A u \in Threads : ut_state'[u] = "UT_RUNNABLE" /\ ~OnLwp(u)' => Queued(u)'
    BY <1>1, <1>3, <1>4 DEF RunqRight, Queued
  <2> QED BY <1>1, <1>3, <1>6, <2>1, <2>2 DEF RunqRight
<1>8. WaitsRight(pt)'
  <2>1. WaitqOK'
    BY <1>1, <1>3 DEF WaitsRight, WaitqOK, OnNoLwp
  <2>2. \A o, u : InQueue(o, u)' <=> InQueue(o, u)
    BY <1>1 DEF InQueue
  <2>3. \A u \in Threads : wakee[u] = NoThread /\ wakee'[u] = NoThread
    <3>1. \A u \in Threads : pt[u] \in Resting
      BY <1>2, OffLwpRests
    <3> QED BY <1>1, <1>3, <3>1 DEF Private, CallArgs, WakePoints, Resting
  <2>4. \A u \in Threads :
          /\ InQueue(reap_mtx, u)' => pt[u] = "mtx_locked"
          /\ InQueue(reap_cond, u)' => pt[u] = "cond_relock"
          /\ \A v \in Threads : InQueue(v, u)' => pt[u] = "join_woken" /\ tgt'[u] = v
    BY <1>1, <1>3, <2>2, LifeObjects DEF WaitsRight
  <2>5. ASSUME NEW u \in Threads, ut_state'[u] = "UT_WAIT" PROVE \E o \in Objs : InQueue(o, u)'
    <3>1. \A v \in Threads : wakee[v] # u
      BY <2>3, LifeObjects
    <3>2. \E o \in Objs : InQueue(o, u)
      BY <1>1, <1>2, <1>3, <2>5, <3>1 DEF WaitsRight
    <3> QED BY <2>2, <3>2
  <2> QED BY <2>1, <2>3, <2>4, <2>5 DEF WaitsRight
<1>9. NewRight(pt)'
  BY <1>1, <1>3 DEF NewRight
<1>10. HaltRight'
  BY <1>1, <1>3, <1>4 DEF HaltRight, RunqEmpty
<1>11. LifeTypeOK'
  BY <1>1, <1>3 DEF LifeTypeOK, SchedTypes, LwpStates
<1>12. Rights(pt, cx)'
  <2>1. Carries(pt, cx, pt, cx, Reaper)
    BY <1>1 DEF Carries
  <2>2. \A u \in Threads : pt[u] # "join_switch"
    BY <1>2, OffLwpRests DEF Resting
  <2> QED BY <1>1, <2>1, <2>2, IdleRights
<1> QED BY <1>3, <1>5, <1>7, <1>8, <1>9, <1>10, <1>11, <1>12, LifeEnds

\* Every step of an LWP that runs no thread.
LEMMA LifeLwpStep ==
    ASSUME NEW pt, NEW cx, Situation(pt, cx), NEW l \in LWPs, halted = "none", LwpStep(l),
           UNCHANGED <<mtxVars, lifeVars>>
    PROVE  LifeInv'
<1>1. lwp \in [LWPs -> LwpStates]
  BY DEF Situation, LifeInvAt, LifeTypeOK, SchedTypes, LwpStates
<1>2. CASE LwpStart(l)
  BY <1>2, LifeIdleScan DEF LwpStart
<1>3. CASE Unpark(l) /\ ~RunqEmpty(runq)
  BY <1>3, LifeIdleScan DEF Unpark
<1>4. CASE Unpark(l) /\ RunqEmpty(runq)
  <2>1. lwp' = [lwp EXCEPT ![l] = "parked"] /\ lwp[l] # "running"
    BY <1>4 DEF Unpark
  <2>2. lwp' \in [LWPs -> LwpStates]
    BY <1>1, <2>1 DEF LwpStates
  <2>3. UNCHANGED <<curthr, thrVars, runqVars, waitVars, stack, argVars, halted>>
    BY <1>4 DEF Unpark, thrVars, runqVars
  <2> QED BY <2>1, <2>2, <2>3, LifeIdleWait
<1>5. CASE SpuriousWakeup(l)
  <2>1. lwp' = [lwp EXCEPT ![l] = "signalled"] /\ lwp[l] # "running"
    BY <1>5 DEF SpuriousWakeup
  <2>2. lwp' \in [LWPs -> LwpStates]
    BY <1>1, <2>1 DEF LwpStates
  <2>3. UNCHANGED <<curthr, thrVars, runqVars, waitVars, stack, argVars, halted>>
    BY <1>5 DEF SpuriousWakeup
  <2> QED BY <2>1, <2>2, <2>3, LifeIdleWait
<1> QED BY <1>2, <1>3, <1>4, <1>5 DEF LwpStep

-----------------------------------------------------------------------------
(* The steps of the scheduler and of the mutexes: uthread_create alone     *)
(* initialises a thread, and most of the scheduler's calls do not appear.  *)

\* A step that does not initialise a thread leaves the life cycle alone.
LEMMA NothingReset ==
    ASSUME NEW t \in Threads, LifeTypeOK, CreateResets,
           \A x \in Threads \ {t} : stack'[x] = stack[x],
           stack[t] = <<>> \/ Head(stack[t]) # "create_init" \/ Head(stack'[t]) # "startonrunq"
    PROVE  UNCHANGED lifeVars
<1>1. ASSUME NEW u PROVE ~Initialised(u)
  <2>1. ASSUME NEW x \in Threads, stack[x] # <<>>, Head(stack[x]) = "create_init", Head(stack'[x]) = "startonrunq"
        PROVE  FALSE
    BY <2>1
  <2> QED BY <2>1 DEF Initialised
<1>2. ut_detached \in [Threads -> BOOLEAN] /\ claimed \subseteq Threads
  BY DEF LifeTypeOK
<1>3. ut_detached' = ut_detached
  <2>1. ut_detached' = [u \in Threads |-> ut_detached[u] /\ ~Initialised(u)]
    BY DEF CreateResets
  <2>2. \A u \in Threads : (ut_detached[u] /\ ~Initialised(u)) = ut_detached[u]
    BY <1>1, <1>2
  <2> QED BY <1>2, <2>1, <2>2
<1>4. claimed' = claimed
  BY <1>1 DEF CreateResets
<1> QED BY <1>3, <1>4 DEF CreateResets, lifeVars

LEMMA NothingResetAt ==
    ASSUME NEW pt, NEW cx, Situation(pt, cx), NEW l \in LWPs, NEW t \in Threads, CreateResets,
           NEW h, At(l, t, h), h # "create_init", NEW fs, Continue(t, fs)
    PROVE  UNCHANGED lifeVars
<1>1. LifeTypeOK /\ stack \in [Threads -> Seq(LifeNames)]
  BY DEF Situation, LifeInvAt, LifeTypeOK, SchedTypes, LifeNames
<1>2. \A x \in Threads \ {t} : stack'[x] = stack[x]
  BY <1>1 DEF Continue
<1>3. Head(stack[t]) # "create_init"
  BY DEF At
<1> QED BY <1>1, <1>2, <1>3, NothingReset

\* The calls that no client makes, and the errors that no LWP meets.
LEMMA NoSuchStep ==
    ASSUME NEW pt, NEW cx, Situation(pt, cx), NEW l \in LWPs, NEW t \in Threads
    PROVE  /\ ~SwitchAborts(l, t) /\ ~WakeUnlock(l, t) /\ ~SetprioWrite(l, t) /\ ~SetprioLock(l, t)
           /\ ~AllocStackFails(l, t) /\ ~UthreadBlock(l, t)
           /\ \A u \in Threads : ~UthreadWake(l, t, u) /\ \A prio \in Prios : ~SetprioRead(l, t, u, prio)
           /\ ~MtxTrylock(l, t) /\ ~CondBroadcast(l, t) /\ ~SyncClientStep(l, t)
<1>1. ASSUME NEW h \in {"wake_unlock", "setprio_write", "setprio_lock", "mtx_trylock", "cond_broadcast"}, At(l, t, h)
      PROVE  FALSE
  <2>1. Row(pt[t], cx[t], ut_no_preempt_count[t], h, Tail(stack[t]))
    BY <1>1, AtPoint
  <2> QED BY <2>1, RowsOfSwitches
<1>2. "enomem" \notin Calls /\ "block" \notin Calls /\ "wake" \notin Calls /\ "setprio" \notin Calls /\ SyncCalls = {}
  BY LifeAssumption
<1>3. ~SwitchAborts(l, t)
  <2>1. runq_mtx = NoLwp /\ NoLwp \notin LWPs
    BY LifeObjects DEF Situation, LifeInvAt, RunqRight
  <2> QED BY <2>1 DEF SwitchAborts
<1>4. ~WakeUnlock(l, t) /\ ~SetprioWrite(l, t) /\ ~SetprioLock(l, t) /\ ~MtxTrylock(l, t) /\ ~CondBroadcast(l, t)
  BY <1>1 DEF WakeUnlock, SetprioWrite, SetprioLock, MtxTrylock, CondBroadcast
<1>5. ~AllocStackFails(l, t) /\ ~UthreadBlock(l, t)
  BY <1>2 DEF AllocStackFails, UthreadBlock
<1>6. \A u \in Threads : ~UthreadWake(l, t, u) /\ \A prio \in Prios : ~SetprioRead(l, t, u, prio)
  BY <1>2 DEF UthreadWake, SetprioRead
<1>7. ~SyncClientStep(l, t)
  <2>1. ASSUME NEW m \in Mutexes, UthreadMtxUnlock(l, t, m) \/ \E c \in Conds : UthreadCondWait(l, t, c, m) PROVE FALSE
    <3>1. InClient(l, t) /\ m \in crit[t]
      BY <1>2, <2>1 DEF UthreadMtxUnlock, UthreadCondWait
    <3>2. pt[t] = "rest" /\ cx[t] = "client" /\ Private(t, pt[t], cx[t])
      BY <3>1, AtPoint DEF Situation, LifeInvAt
    <3>3. ~InSection(pt[t], cx[t])
      BY <3>2 DEF InSection, Sections, ReaperCode
    <3> QED BY <3>1, <3>2, <3>3 DEF Private, LockArgs
  <2>2. ASSUME NEW m \in Mutexes PROVE ~UthreadMtxLock(l, t, m) /\ ~UthreadMtxTrylock(l, t, m)
    BY <1>2 DEF UthreadMtxLock, UthreadMtxTrylock
  <2>3. ASSUME NEW c \in Conds PROVE ~UthreadCondSignal(l, t, c) /\ ~UthreadCondBroadcast(l, t, c)
    BY <1>2 DEF UthreadCondSignal, UthreadCondBroadcast
  <2> QED BY <2>1, <2>2, <2>3 DEF SyncClientStep
<1> QED BY <1>3, <1>4, <1>5, <1>6, <1>7

\* No thread executes behind its last switch, and no LWP locks a ut_pmut that
\* it owns.
LEMMA RelockRows ==
    ASSUME NEW p, NEW c, NEW n, NEW r, NEW h, Row(p, c, n, h, r),
           h \in {"exit_lock", "reap_pmut", "join_lock", "reaper_lock"}
    PROVE  \/ p = "exit_lock" /\ c = "exit"
           \/ p \in {"reap_pmut", "join_lock", "reaper_lock"} /\ c \in Contexts \ {"make_reapable"} /\ c # "exit"
           \/ p = "reap_pmut" /\ c = "exit"
           \/ p = "rest" /\ c = "reap_pmut"
<1>1. CASE h = "exit_lock"
  BY <1>1, RowsOfExits
<1>2. CASE h = "reap_pmut"
  <2>1. h \in {"reap_pmut", "make_reapable"}
    BY <1>2
  <2>2. p # "rest" => p = h /\ c \in Buriers \ {"join"}
    BY <2>1, RowsOfReapables
  <2>3. p = "rest" => c = h
    BY <2>1, RowsOfReapables
  <2> QED BY <1>2, <2>2, <2>3 DEF Contexts, Lockers, Buriers
<1>3. CASE h = "join_lock"
  <2>1. p = h /\ c = "join"
    BY <1>3, RowsOfJoins
  <2> QED BY <1>3, <2>1 DEF Contexts, Lockers, Buriers
<1>4. CASE h = "reaper_lock"
  <2>1. h \in ReaperCode
    BY <1>4 DEF ReaperCode
  <2>2. p = h /\ c = "reaper_loop"
    BY <2>1, RowsOfReaper
  <2> QED BY <1>4, <2>2 DEF Contexts, Lockers, Buriers
<1> QED BY <1>1, <1>2, <1>3, <1>4

LEMMA NoRelock ==
    ASSUME NEW pt, NEW cx, Situation(pt, cx), NEW l \in LWPs, NEW t \in Threads
    PROVE  ~PmutRelock(l, t) /\ ~Undead(l, t)
<1>1. ASSUME NEW h \in {"exit_lock", "reap_pmut", "join_lock", "reaper_lock"}, At(l, t, h), pmut[tgt[t]] = l
      PROVE  FALSE
  <2>1. /\ Row(pt[t], cx[t], ut_no_preempt_count[t], h, Tail(stack[t])) /\ Running(l, t)
        /\ \A u \in Threads : Private(u, pt[u], cx[u])
        /\ PmutsRight(pt, cx) /\ Custody(pt, cx) /\ Targets(pt, cx) /\ LifeTypeOK
    BY <1>1, AtPoint DEF Situation, LifeInvAt
  <2>2. \/ pt[t] = "exit_lock" /\ cx[t] = "exit"
        \/ pt[t] \in {"reap_pmut", "join_lock", "reaper_lock"} /\ cx[t] \in Contexts \ {"make_reapable"}
        \/ pt[t] = "rest" /\ cx[t] = "reap_pmut"
    <3>1. cx[t] \in Contexts
      BY DEF Situation
    <3> HIDE DEF Contexts
    <3>2. \/ pt[t] = "exit_lock" /\ cx[t] = "exit"
          \/ pt[t] \in {"reap_pmut", "join_lock", "reaper_lock"} /\ cx[t] \in Contexts \ {"make_reapable"} /\ cx[t] # "exit"
          \/ pt[t] = "reap_pmut" /\ cx[t] = "exit"
          \/ pt[t] = "rest" /\ cx[t] = "reap_pmut"
      BY <1>1, <2>1, RelockRows
    <3> QED BY <3>1, <3>2
  <2>3. (pt[t] = "exit_lock" /\ tgt[t] = t) \/ Has(pt[t], cx[t])
    <3>1. cx[t] = "exit" => tgt[t] = t
      BY <2>1 DEF Private, CallArgs
    <3> QED BY <2>2, <3>1 DEF Has, JoinCode
  <2>4. tgt[t] \in Threads /\ tgt[t] \in Objs /\ NoLwp \notin LWPs
    <3>1. tgt[t] # NoThread
      BY <2>1, <2>3, LifeObjects DEF Private, CallArgs
    <3> QED BY <2>1, <3>1, LifeObjects DEF LifeTypeOK
  <2>5. PICK u \in Threads : Locks(u, pt[u], cx[u], tgt[t])
    BY <1>1, <2>1, <2>4 DEF PmutsRight
  <2>6. u # t
    BY <2>2, <2>5, LifeObjects DEF Locks, Unlocks, Sections, Frees
  <2>7. ~OnLwp(u)
    BY <2>1, <2>6, OneRuns
  <2>8. cx[u] = "make_reapable" /\ Has(pt[u], cx[u]) /\ tgt[u] = tgt[t] /\ pt[u] \in Resting
    BY <2>5, <2>7, OffLwpRests
  <2>9. Has(pt[u], cx[u]) /\ HasDead(pt[u], cx[u])
    <3>1. Is(pt[u], cx[u], ut_no_preempt_count[u], stack[u])
      BY <2>1 DEF Private
    <3>2. pt[u] # "join_woken"
      BY <2>8, <3>1 DEF Is, Row, ClientRow, ExitRow, LockRow, UnlockRow, BurialRow, ReaperRow, ReaperCode
    <3> QED BY <2>8, <3>2 DEF HasDead, JoinCode, Resting
  <2>10. CASE Has(pt[t], cx[t])
    BY <2>1, <2>6, <2>8, <2>9, <2>10 DEF Custody
  <2>11. CASE pt[t] = "exit_lock" /\ tgt[t] = t
    BY <2>1, <2>8, <2>9, <2>11 DEF Targets
  <2> QED BY <2>3, <2>10, <2>11
<1>2. ~PmutRelock(l, t)
  BY <1>1 DEF PmutRelock
<1>3. ASSUME At(l, t, "dead") PROVE FALSE
  <2> DEFINE h == "dead"
  <2>1. Row(pt[t], cx[t], ut_no_preempt_count[t], h, Tail(stack[t])) /\ Running(l, t) /\ h = "dead"
    BY <1>3, AtPoint
  <2> HIDE DEF h
  <2>2. pt[t] = "dead"
    BY <2>1, RowsOfExits
  <2>3. Private(t, pt[t], cx[t]) /\ OnLwp(t)
    BY <2>1 DEF Situation, LifeInvAt, OnLwp
  <2> QED BY <2>2, <2>3 DEF Private, ModeOf
<1> QED BY <1>2, <1>3 DEF Undead

-----------------------------------------------------------------------------
(* Every step keeps the invariant.                                         *)

LEMMA RowsOfWakes ==
    ASSUME NEW p, NEW c, NEW n, NEW h, NEW r, Row(p, c, n, h, r), h = "wake"
    PROVE  p \in WakePoints
  BY DEF WakePoints, Row, ClientRow, ExitRow, LockRow, UnlockRow, BurialRow, ReaperRow, ReaperCode, Preemptible, Locked

\* The step of thread t on LWP l, which it could take at points pt and cx.
LEMMA LifeSchedLibrary ==
    ASSUME NEW pt, NEW cx, Situation(pt, cx), NEW l \in LWPs, NEW t \in Threads, halted = "none",
           LibraryStep(l, t), UNCHANGED mtxVars, CreateResets
    PROVE  LifeInv'
<1>1. CASE Switch(l, t)
  <2>1. UNCHANGED lifeVars
    BY <1>1, NothingResetAt DEF Switch
  <2> QED BY <1>1, <2>1, LifeSwitch
<1>2. CASE Return(l, t)
  <2>1. UNCHANGED lifeVars
    BY <1>2, NothingResetAt DEF Return
  <2> QED BY <1>2, <2>1, LifeReturn
<1>3. CASE YieldLock(l, t)
  <2>1. UNCHANGED lifeVars
    BY <1>3, NothingResetAt DEF YieldLock
  <2> QED BY <1>3, <2>1, LifeYieldLock
<1>4. CASE Wake(l, t)
  <2>1. At(l, t, "wake") /\ (Continue(t, <<"wake_unlock">>) \/ Continue(t, <<>>))
    BY <1>4 DEF Wake
  <2>2. UNCHANGED lifeVars
    BY <2>1, NothingResetAt
  <2> DEFINE h == "wake"
  <2>3. Row(pt[t], cx[t], ut_no_preempt_count[t], h, Tail(stack[t])) /\ h = "wake"
    BY <2>1, AtPoint
  <2> HIDE DEF h
  <2>4. pt[t] \in {"exit_wake", "unl_wake", "sig_wake"}
    BY <2>3, RowsOfWakes DEF WakePoints
  <2>5. UNCHANGED <<mtxVars, lifeVars>>
    BY <2>2
  <2> QED BY <1>4, <2>4, <2>5, LifeExitWake, LifeUnlockWake, LifeSignalWake
<1>5. CASE AllocClaim(l, t)
  <2>1. UNCHANGED lifeVars
    BY <1>5, NothingResetAt DEF AllocClaim
  <2> QED BY <1>5, <2>1, LifeAllocClaim
<1>6. CASE CreateInit(l, t)
  BY <1>6, LifeCreateInit
<1>7. ASSUME NEW prio \in Prios, StartOnRunq(l, t, prio) PROVE LifeInv'
  <2>1. At(l, t, "startonrunq") /\ (Continue(t, <<>>) \/ UNCHANGED stack)
    BY <1>7 DEF StartOnRunq
  <2>2. LifeTypeOK /\ stack \in [Threads -> Seq(LifeNames)] /\ Head(stack[t]) # "create_init"
    BY <2>1 DEF Situation, LifeInvAt, LifeTypeOK, SchedTypes, LifeNames, At
  <2>3. \A x \in Threads \ {t} : stack'[x] = stack[x]
    BY <2>1, <2>2 DEF Continue
  <2>4. UNCHANGED lifeVars
    BY <2>2, <2>3, NothingReset
  <2> QED BY <1>7, <2>4, LifeStart
<1> QED BY <1>1, <1>2, <1>3, <1>4, <1>5, <1>6, <1>7, NoSuchStep DEF LibraryStep

LEMMA LifeSchedClient ==
    ASSUME NEW pt, NEW cx, Situation(pt, cx), NEW l \in LWPs, NEW t \in Threads, halted = "none",
           ClientStep(l, t) \/ ClockInterrupt(l, t), UNCHANGED mtxVars, CreateResets
    PROVE  LifeInv'
<1>1. LifeTypeOK /\ stack \in [Threads -> Seq(LifeNames)]
  BY DEF Situation, LifeInvAt, LifeTypeOK, SchedTypes, LifeNames
<1>2. CASE UthreadYield(l, t) \/ ClockInterrupt(l, t)
  <2>1. Push(t, <<"yield_lock", "nopreempt_off">>)
    BY <1>2 DEF UthreadYield, ClockInterrupt, YieldFrames
  <2>2. "yield_lock" \in LifeNames /\ "nopreempt_off" \in LifeNames
    BY NamesKnown
  <2>3. Head(stack'[t]) = "yield_lock" /\ \A x \in Threads \ {t} : stack'[x] = stack[x]
    BY <1>1, <2>1, <2>2, LifePush
  <2>4. UNCHANGED lifeVars
    BY <1>1, <2>3, NothingReset
  <2> QED BY <1>2, <2>4, LifeYield
<1>3. ASSUME NEW u \in Threads, AllocScan(l, t, u) PROVE LifeInv'
  <2>1. stack[t] = <<>> /\ Push(t, <<"alloc_claim">>)
    BY <1>3 DEF AllocScan, AllocFound, InClient
  <2>2. \A x \in Threads \ {t} : stack'[x] = stack[x]
    BY <1>1, <2>1 DEF Push
  <2>3. UNCHANGED lifeVars
    BY <1>1, <2>1, <2>2, NothingReset
  <2> QED BY <1>3, <2>3, LifeAllocScan
<1> QED BY <1>2, <1>3, NoSuchStep DEF ClientStep

LEMMA LifeSyncStep ==
    ASSUME NEW pt, NEW cx, Situation(pt, cx), NEW l \in LWPs, NEW t \in Threads, halted = "none",
           SyncLibraryStep(l, t), CreateResets
    PROVE  LifeInv'
<1>1. CASE MtxLock(l, t)
  <2>1. At(l, t, "mtx_lock") /\ (Continue(t, <<>>) \/ Continue(t, SleepFrames(t)))
    BY <1>1 DEF MtxLock
  <2>2. UNCHANGED lifeVars
    BY <2>1, NothingResetAt
  <2> QED BY <1>1, <2>2, LifeMtxLockFree, LifeMtxSleep
<1>2. CASE MtxLocked(l, t)
  <2>1. UNCHANGED lifeVars
    BY <1>2, NothingResetAt DEF MtxLocked
  <2> QED BY <1>2, <2>1, LifeMtxLocked
<1>3. CASE MtxUnlock(l, t)
  <2>1. At(l, t, "mtx_unlock") /\ (Continue(t, <<>>) \/ Continue(t, <<"wake", "nopreempt_off">>))
    BY <1>3 DEF MtxUnlock, PassOn
  <2>2. UNCHANGED lifeVars
    BY <2>1, NothingResetAt
  <2> QED BY <1>3, <2>2, LifeMtxUnlockFree, LifeMtxUnlockPass
<1>4. CASE CondWait(l, t)
  <2>1. UNCHANGED lifeVars
    BY <1>4, NothingResetAt DEF CondWait
  <2> QED BY <1>4, <2>1, LifeCondWait
<1>5. CASE CondSleep(l, t)
  <2>1. UNCHANGED lifeVars
    BY <1>5, NothingResetAt DEF CondSleep
  <2> QED BY <1>5, <2>1, LifeCondSleep
<1>6. CASE CondRelock(l, t)
  <2>1. UNCHANGED lifeVars
    BY <1>6, NothingResetAt DEF CondRelock
  <2> QED BY <1>6, <2>1, LifeCondRelock
<1>7. CASE CondSignal(l, t)
  <2>1. At(l, t, "cond_signal") /\ (Continue(t, <<>>) \/ Continue(t, <<"wake", "nopreempt_off">>))
    BY <1>7 DEF CondSignal, WakeOldest
  <2>2. UNCHANGED lifeVars
    BY <2>1, NothingResetAt
  <2> QED BY <1>7, <2>2, LifeCondSignalNone, LifeCondSignalSome
<1> QED BY <1>1, <1>2, <1>3, <1>4, <1>5, <1>6, <1>7, NoSuchStep DEF SyncLibraryStep

LEMMA LifeStep ==
    ASSUME NEW pt, NEW cx, Situation(pt, cx), NEW l \in LWPs, NEW t \in Threads, halted = "none",
           LifeLibraryStep(l, t) \/ LifeClientStep(l, t)
    PROVE  LifeInv'
<1>1. CASE ExitCheck(l, t)
  BY <1>1, LifeExitDetached, LifeExitJoinable
<1>2. CASE ExitLock(l, t)
  BY <1>2, LifeExitAlone, LifeExitWakes
<1>3. CASE ExitSwitch(l, t)
  BY <1>3, LifeExitSwitch
<1>4. CASE MtxLockedZombie(l, t)
  BY <1>4, LifeMtxLockedZombie
<1>5. CASE ReapPmut(l, t)
  BY <1>5, LifeReapPmut, LifeReapPmutRest
<1>6. CASE MakeReapable(l, t)
  BY <1>6, LifeMakeReapable, LifeMakeReapableRest
<1>7. CASE ReapUnlock(l, t)
  BY <1>7, LifeReapUnlock
<1>8. CASE ReapRelease(l, t)
  <2> DEFINE h == "reap_release"
  <2>1. Row(pt[t], cx[t], ut_no_preempt_count[t], h, Tail(stack[t])) /\ h = "reap_release" /\ tgt[t] # t
    BY <1>8, AtPoint DEF ReapRelease
  <2> HIDE DEF h
  <2>2. cx[t] \in Buriers
    BY <2>1, RowsOfSignals
  <2>3. cx[t] # "exit"
    BY <2>1 DEF Situation, LifeInvAt, Private, CallArgs
  <2>4. cx[t] = "join" \/ cx[t] = "nopreempt_off"
    BY <2>2, <2>3 DEF Buriers
  <2> QED BY <1>8, <2>4, LifeReapReleaseJoin, LifeReapReleaseDetach
<1>9. CASE ReapSwitch(l, t)
  BY <1>9, LifeReapSwitch
<1>10. CASE JoinLock(l, t)
  BY <1>10, LifeJoinSleep, LifeJoinZombie
<1>11. CASE JoinWoken(l, t)
  BY <1>11, LifeJoinWoken
<1>12. CASE JoinReap(l, t)
  BY <1>12, LifeJoinReap
<1>13. CASE DetachCheck(l, t)
  BY <1>13, LifeDetachDead, LifeDetachLive
<1>14. CASE ReaperStart(l, t)
  BY <1>14, LifeReaperStart
<1>15. CASE ReaperWait(l, t)
  BY <1>15, LifeReaperWait
<1>16. CASE ReaperTake(l, t)
  <2>1. At(l, t, "reaper_loop") \/ At(l, t, "reaper_scan")
    BY <1>16 DEF ReaperTake
  <2> QED BY <1>16, <2>1, LifeReaperTake, LifeReaperTakeScanning
<1>17. CASE ReaperLock(l, t)
  BY <1>17, LifeReaperLock
<1>18. CASE ReaperDestroy(l, t)
  BY <1>18, LifeReaperDestroy
<1>19. CASE ReaperScan(l, t)
  BY <1>19, LifeReaperScan
<1>20. CASE UthreadExit(l, t)
  BY <1>20, LifeExit
<1>21. ASSUME NEW u \in Threads, UthreadJoin(l, t, u) \/ UthreadDetach(l, t, u) PROVE LifeInv'
  BY <1>21, LifeJoin, LifeDetach
<1>22. CASE LifeClientStep(l, t)
  BY <1>20, <1>21, <1>22 DEF LifeClientStep
<1>23. CASE LifeLibraryStep(l, t)
  BY <1>1, <1>2, <1>3, <1>4, <1>5, <1>6, <1>7, <1>8, <1>9, <1>10, <1>11, <1>12, <1>13, <1>14,
     <1>15, <1>16, <1>17, <1>18, <1>19, <1>23, NoRelock DEF LifeLibraryStep
<1> QED BY <1>22, <1>23

LEMMA LifeInvNext == OneLwpOnly /\ LifeInv /\ LifeNext => LifeInv'
<1> SUFFICES ASSUME OneLwpOnly, LifeInv, LifeNext PROVE LifeInv'
  OBVIOUS
<1>1. PICK pt \in [Threads -> Points], cx \in [Threads -> Contexts] : LifeInvAt(pt, cx)
  BY DEF LifeInv
<1>2. Situation(pt, cx)
  BY <1>1 DEF Situation
<1>3. CASE SchedNext /\ UNCHANGED mtxVars /\ CreateResets
  <2>1. PICK l \in LWPs : LwpStep(l) \/ \E t \in Threads : LibraryStep(l, t) \/ ClientStep(l, t) \/ ClockInterrupt(l, t)
    BY <1>3 DEF SchedNext
  <2>2. CASE LwpStep(l)
    <3>1. UNCHANGED stack /\ halted = "none"
      BY <1>3, <2>2 DEF SchedNext, LwpStep, LwpStart, Unpark, SpuriousWakeup
    <3>2. LifeTypeOK /\ Reaper \in Threads
      BY <1>1, LifeObjects DEF LifeInvAt
    <3>3. stack[Reaper] = <<>> \/ Head(stack[Reaper]) # "create_init" \/ Head(stack'[Reaper]) # "startonrunq"
      BY <3>1
    <3>4. UNCHANGED lifeVars
      BY <1>3, <3>1, <3>2, <3>3, NothingReset
    <3> QED BY <1>2, <1>3, <2>2, <3>1, <3>4, LifeLwpStep
  <2>3. ASSUME NEW t \in Threads, LibraryStep(l, t) \/ ClientStep(l, t) \/ ClockInterrupt(l, t) PROVE LifeInv'
    <3>1. halted = "none"
      BY <1>3 DEF SchedNext
    <3> QED BY <1>2, <1>3, <2>3, <3>1, LifeSchedLibrary, LifeSchedClient
  <2> QED BY <2>1, <2>2, <2>3
<1>4. ASSUME halted = "none", CreateResets, NEW l \in LWPs, NEW t \in Threads, SyncLibraryStep(l, t) \/ SyncClientStep(l, t)
      PROVE  LifeInv'
  BY <1>2, <1>4, LifeSyncStep, NoSuchStep
<1>5. ASSUME halted = "none", NEW l \in LWPs, NEW t \in Threads, LifeLibraryStep(l, t) \/ LifeClientStep(l, t)
      PROVE  LifeInv'
  BY <1>2, <1>5, LifeStep
<1> QED BY <1>3, <1>4, <1>5 DEF LifeNext, SyncNext

LEMMA LifeInvStutters == LifeInv /\ UNCHANGED allLifeVars => LifeInv'
<1> SUFFICES ASSUME LifeInv, UNCHANGED allLifeVars PROVE LifeInv'
  OBVIOUS
<1>1. PICK pt \in [Threads -> Points], cx \in [Threads -> Contexts] : LifeInvAt(pt, cx)
  BY DEF LifeInv
<1>2. UNCHANGED <<curthr, lwp, ut_state, ut_prio, ut_no_preempt_count, runq, tq_size, runq_mtx, waitq, pmut, stack, swarg,
                  wakee, sparg, newthr, m_owner, marg, carg, crit, ut_detached, reap_queue, tgt, claimed, halted>>
  BY DEF allLifeVars, syncVars, schedVars, cpuVars, thrVars, runqVars, waitVars, argVars, mtxVars, lifeVars
<1>3. LifeTypeOK'
  BY <1>1, <1>2 DEF LifeInvAt, LifeTypeOK, SchedTypes
<1>4. \A u : OnLwp(u)' <=> OnLwp(u)
  BY <1>2 DEF OnLwp, Running
<1>5. \A o, u : InQueue(o, u)' <=> InQueue(o, u)
  BY <1>2 DEF InQueue
<1>6. \A u : InReapQueue(u)' <=> InReapQueue(u)
  BY <1>2 DEF InReapQueue
<1>7. ASSUME NEW t \in Threads PROVE Private(t, pt[t], cx[t])'
  <2>1. Private(t, pt[t], cx[t])
    BY <1>1 DEF LifeInvAt
  <2> QED BY <1>2, <1>4, <2>1 DEF Private, SwitchArgs, LockArgs, CallArgs, Roles
<1>8. RunqRight'
  <2>1. RunqRight
    BY <1>1 DEF LifeInvAt
  <2>2. runq_mtx' = NoLwp /\ LwpOK' /\ QueueCountsAgree' /\ PrioOK'
    BY <1>2, <2>1 DEF RunqRight, LwpOK, QueueCountsAgree, PrioOK
  <2>3. RunqOK'
    BY <1>2, <2>1 DEF RunqRight, RunqOK, OnNoLwp
  <2>4. \A t \in Threads : (ut_state[t] = "UT_RUNNABLE" /\ ~OnLwp(t) => Queued(t))'
    BY <1>2, <1>4, <2>1 DEF RunqRight, Queued
  <2> QED BY <2>2, <2>3, <2>4 DEF RunqRight
<1>9. WaitsRight(pt)'
  <2>1. WaitsRight(pt)
    BY <1>1 DEF LifeInvAt
  <2>2. WaitqOK'
    BY <1>2, <2>1 DEF WaitsRight, WaitqOK, OnNoLwp
  <2>3. ASSUME NEW t \in Threads
        PROVE  /\ InQueue(reap_mtx, t)' => pt[t] = "mtx_locked"
               /\ InQueue(reap_cond, t)' => pt[t] = "cond_relock"
               /\ \A u \in Threads : InQueue(u, t)' => pt[t] = "join_woken" /\ tgt'[t] = u
    BY <1>2, <1>5, <2>1 DEF WaitsRight
  <2>4. ASSUME NEW t \in Threads, wakee'[t] # NoThread
        PROVE  /\ ut_state'[wakee'[t]] = "UT_WAIT" /\ ~OnLwp(wakee[t])'
               /\ \A o \in Objs : ~InQueue(o, wakee[t])'
    <3>1. wakee' = wakee /\ ut_state' = ut_state
      BY <1>2
    <3>2. PICK h : h = wakee[t]
      OBVIOUS
    <3>3. h # NoThread /\ ut_state[h] = "UT_WAIT" /\ ~OnLwp(h) /\ \A o \in Objs : ~InQueue(o, h)
      BY <2>1, <2>4, <3>1, <3>2 DEF WaitsRight
    <3>4. ~OnLwp(h)' /\ \A o \in Objs : ~InQueue(o, h)'
      BY <1>4, <1>5, <3>3
    <3>5. wakee'[t] = h /\ ut_state'[h] = "UT_WAIT"
      BY <3>1, <3>2, <3>3
    <3> QED BY <3>4, <3>5 DEF OnLwp, Running, InQueue
  <2>5. ASSUME NEW t \in Threads, ut_state'[t] = "UT_WAIT", ~OnLwp(t)'
        PROVE  (\E o \in Objs : InQueue(o, t)') \/ \E u \in Threads : wakee'[u] = t
    BY <1>2, <1>4, <1>5, <2>1, <2>5 DEF WaitsRight
  <2> QED BY <2>2, <2>3, <2>4, <2>5 DEF WaitsRight
<1>10. NewRight(pt)'
  <2>1. NewRight(pt)
    BY <1>1 DEF LifeInvAt
  <2> QED BY <1>2, <2>1 DEF NewRight
<1>11. PmutsRight(pt, cx)' /\ MutexRight(pt, cx)'
  <2>1. PmutsRight(pt, cx)'
    BY <1>1, <1>2 DEF LifeInvAt, PmutsRight, Locks
  <2>2. MutexRight(pt, cx)'
    BY <1>1, <1>2, <1>5 DEF LifeInvAt, MutexRight
  <2> QED BY <2>1, <2>2
<1>12. Custody(pt, cx)' /\ Targets(pt, cx)' /\ CaredFor(pt, cx)'
  <2>1. Custody(pt, cx)'
    BY <1>1, <1>2, <1>6 DEF LifeInvAt, Custody
  <2>2. Targets(pt, cx)'
    BY <1>1, <1>2 DEF LifeInvAt, Targets
  <2>3. CaredFor(pt, cx)'
    BY <1>1, <1>2, <1>6 DEF LifeInvAt, CaredFor
  <2> QED BY <2>1, <2>2, <2>3
<1>13. JoinsRight(pt, cx)' /\ HaltRight' /\ ReaperRight(pt, cx)'
  <2>1. JoinsRight(pt, cx)'
    BY <1>1, <1>2, <1>5 DEF LifeInvAt, JoinsRight
  <2>2. HaltRight'
    BY <1>1, <1>2, <1>4 DEF LifeInvAt, HaltRight, RunqEmpty
  <2>3. ReaperRight(pt, cx)'
    BY <1>1, <1>2, <1>5 DEF LifeInvAt, ReaperRight
  <2> QED BY <2>1, <2>2, <2>3
<1>14. LifeInvAt(pt, cx)'
  BY <1>3, <1>7, <1>8, <1>9, <1>10, <1>11, <1>12, <1>13 DEF LifeInvAt
<1> QED BY <1>14 DEF LifeInv

-----------------------------------------------------------------------------
(* The initial states: the booted threads are queued, and nothing is dead.  *)

BootPoints   == [t \in Threads |-> IF Contains(Boot, t) THEN "off" ELSE "free"]
BootContexts == [t \in Threads |-> "client"]

LEMMA BootRight ==
    ASSUME LifeInit, NEW t \in Threads
    PROVE  /\ halted = "none" /\ reap_queue = <<>> /\ runq_mtx = NoLwp
           /\ \A u : ~Running(u, t) \/ u \notin LWPs
           /\ ~OnLwp(t) /\ wakee[t] = NoThread /\ newthr[t] = NoThread /\ tgt[t] = NoThread
           /\ crit[t] = {}
           /\ \A o \in Objs : ~InQueue(o, t) /\ waitq[o] = <<>> /\ pmut[o] = NoLwp
           /\ ~InReapQueue(t)
           /\ m_owner[reap_mtx] = NoThread
<1> USE DEF LifeInit, SyncInit, SchedInit, MtxInit
<1>1. \A u : ~Running(u, t) \/ u \notin LWPs
  BY LifeObjects DEF Running
<1>2. ~OnLwp(t)
  BY <1>1 DEF OnLwp
<1>3. \A o \in Objs : ~InQueue(o, t) /\ waitq[o] = <<>> /\ pmut[o] = NoLwp
  BY DEF InQueue
<1>4. ~InReapQueue(t)
  BY DEF InReapQueue
<1>5. m_owner[reap_mtx] = NoThread
  BY LifeObjects
<1> QED BY <1>1, <1>2, <1>3, <1>4, <1>5

LEMMA BootPrivate ==
    ASSUME LifeInit, NEW t \in Threads
    PROVE  Private(t, BootPoints[t], BootContexts[t])
<1>1. /\ ~OnLwp(t) /\ wakee[t] = NoThread /\ newthr[t] = NoThread /\ tgt[t] = NoThread /\ crit[t] = {}
  BY BootRight
<1> DEFINE p == BootPoints[t]
           c == BootContexts[t]
<1>2. /\ c = "client" /\ p \in {"off", "free"} /\ (p = "off" <=> Contains(Boot, t))
  BY DEF BootPoints, BootContexts
<1>3. /\ ut_state[t] = IF p = "off" THEN "UT_RUNNABLE" ELSE "UT_NO_STATE"
      /\ p = "off" => ut_no_preempt_count[t] = 1 /\ stack[t] = <<"nopreempt_off">>
      /\ p = "free" => stack[t] = <<>>
  BY <1>2 DEF LifeInit, SyncInit, SchedInit
<1>4. t = Reaper => p = "off"
  BY <1>2, LifeAssumption
<1> HIDE DEF p, c
<1>5. Is(p, c, ut_no_preempt_count[t], stack[t])
  <2>1. CASE p = "off"
    <3>1. /\ stack[t] # <<>> /\ Head(stack[t]) = "nopreempt_off" /\ Tail(stack[t]) = <<>>
          /\ ut_no_preempt_count[t] = 1
      <4>1. stack[t] = <<"nopreempt_off">> /\ ut_no_preempt_count[t] = 1
        BY <1>3, <2>1
      <4>2. "nopreempt_off" \in LifeNames
        BY NamesKnown
      <4> QED BY <4>1, <4>2, OneName
    <3>2. Below(c) = <<>>
      <4>1. c = "client"
        BY <1>2
      <4>2. Below("client") = <<>>
        BY DEF Below
      <4> QED BY <4>1, <4>2
    <3>3. ClientRow(p, c, 1, "nopreempt_off", <<>>)
      BY <1>2, <2>1, <3>2 DEF ClientRow, Preemptible
    <3>4. Row(p, c, 1, "nopreempt_off", <<>>)
      BY <3>3 DEF Row
    <3>5. Row(p, c, ut_no_preempt_count[t], Head(stack[t]), Tail(stack[t]))
      BY <3>1, <3>4
    <3> QED BY <3>1, <3>5 DEF Is
  <2>2. CASE p = "free"
    BY <1>2, <1>3, <2>2 DEF Is
  <2> QED BY <1>2, <2>1, <2>2
<1>6. ModeOf(p, c, OnLwp(t), ut_state[t])
  BY <1>1, <1>2, <1>3 DEF ModeOf, StateOff
<1>7. SwitchArgs(t, p)
  BY <1>2 DEF SwitchArgs
<1>8. LockArgs(t, p, c)
  BY <1>1, <1>2 DEF LockArgs, CondWaits, Settling, InSection, Sections, ReaperCode
<1>9. CallArgs(t, p, c) /\ Roles(t, p, c)
  BY <1>1, <1>2, <1>4 DEF CallArgs, Roles, Has, Frees, JoinCode, Buriers, WakePoints, Allocates, Yields
<1> QED BY <1>5, <1>6, <1>7, <1>8, <1>9 DEF Private, p, c

LEMMA LifeInvInit == LifeInit => LifeInv
<1> SUFFICES ASSUME LifeInit PROVE LifeInv
  OBVIOUS
<1> DEFINE pt == BootPoints
           cx == BootContexts
<1>1. pt \in [Threads -> Points] /\ cx \in [Threads -> Contexts]
  BY DEF BootPoints, BootContexts, Points, Yields, Contexts, Preemptible
<1>2. /\ \A t \in Threads : cx[t] = "client" /\ pt[t] \in {"off", "free"} /\ (pt[t] = "off" <=> Contains(Boot, t))
      /\ Reaper \in Threads
  BY LifeObjects DEF BootPoints, BootContexts
<1>3. PlaceInv /\ SyncTypeOK
  BY PlaceInvInit DEF LifeInit, PlaceInv, TypeInv
<1>4. LifeTypeOK
  <2>1. stack \in [Threads -> Seq(LifeNames)]
    <3>1. <<"nopreempt_off">> \in Seq(LifeNames) /\ <<>> \in Seq(LifeNames)
      BY NamesKnown, OneName
    <3> QED BY <3>1 DEF LifeInit, SyncInit, SchedInit
  <2>2. SchedTypes(LifeNames)
    BY <1>3, <2>1 DEF SyncTypeOK, SchedTypes
  <2>3. /\ ut_detached \in [Threads -> BOOLEAN] /\ reap_queue \in Seq(Threads)
        /\ tgt \in [Threads -> Threads \cup {NoThread}] /\ claimed \subseteq Threads
    BY DEF LifeInit, Contains
  <2> QED BY <1>3, <2>2, <2>3 DEF SyncTypeOK, LifeTypeOK, LifeNames
<1>5. \A t \in Threads : /\ ut_state[t] = IF pt[t] = "off" THEN "UT_RUNNABLE" ELSE "UT_NO_STATE"
                         /\ ut_detached[t] <=> pt[t] = "off"
                         /\ t \in claimed <=> pt[t] = "off"
  BY <1>2 DEF LifeInit, SyncInit, SchedInit
<1>6. RunqRight
  <2>1. runq_mtx = NoLwp /\ LwpOK /\ RunqOK
    BY <1>3 DEF PlaceInv, LifeInit, SyncInit, SchedInit
  <2>2. PrioOK
    <3>1. MaxPrio \in Prios
      BY SchedAssumption DEF Prios
    <3> QED BY <3>1 DEF PrioOK, LifeInit, SyncInit, SchedInit
  <2>3. QueueCountsAgree
    BY DEF QueueCountsAgree, LifeInit, SyncInit, SchedInit
  <2>4. ASSUME NEW t \in Threads, ut_state[t] = "UT_RUNNABLE" PROVE Queued(t)
    <3>1. Contains(Boot, t) /\ MaxPrio \in Prios
      BY <1>2, <1>5, <2>4, SchedAssumption DEF Prios
    <3>2. runq[MaxPrio] = Boot
      BY <3>1 DEF LifeInit, SyncInit, SchedInit
    <3> QED BY <3>1, <3>2 DEF Queued
  <2> QED BY <2>1, <2>2, <2>3, <2>4 DEF RunqRight
<1>7. /\ halted = "none" /\ reap_queue = <<>>
      /\ \A t \in Threads : ~OnLwp(t) /\ wakee[t] = NoThread /\ newthr[t] = NoThread /\ ~InReapQueue(t)
      /\ \A t \in Threads : \A o \in Objs : ~InQueue(o, t)
      /\ \A o \in Objs : waitq[o] = <<>> /\ pmut[o] = NoLwp
      /\ m_owner[reap_mtx] = NoThread /\ NoThread \notin Threads
      /\ reap_mtx \in Objs /\ reap_cond \in Objs /\ Threads \subseteq Objs
  BY <1>2, BootRight, LifeObjects
<1>8. ASSUME NEW t \in Threads
      PROVE  /\ ~Has(pt[t], cx[t]) /\ ~Frees(pt[t], cx[t]) /\ ~InSection(pt[t], cx[t])
             /\ ~Settling(pt[t], cx[t]) /\ \A o : ~Locks(t, pt[t], cx[t], o)
             /\ pt[t] \notin {"mtx_locked", "mtx_switch", "join_switch", "join_woken", "detach_check", "startonrunq"}
  <2>1. cx[t] = "client" /\ pt[t] \in {"off", "free"}
    BY <1>2
  <2> HIDE DEF pt, cx
  <2>2. ~Frees(pt[t], cx[t])
    BY <2>1 DEF Frees, Buriers
  <2>3. \A o : ~Locks(t, pt[t], cx[t], o)
    BY <2>1, <2>2 DEF Locks
  <2> QED BY <2>1, <2>2, <2>3 DEF Has, JoinCode, Buriers, InSection, Sections, ReaperCode, Settling
<1>9. \A t \in Threads : Private(t, pt[t], cx[t])
  BY BootPrivate
<1> HIDE DEF pt, cx
<1>10. WaitsRight(pt)
  <2>1. WaitqOK
    BY <1>3 DEF PlaceInv
  <2> QED BY <1>5, <1>7, <2>1 DEF WaitsRight
<1>11. NewRight(pt)
  BY <1>2, <1>5, <1>7 DEF NewRight
<1>12. PmutsRight(pt, cx)
  BY <1>7, <1>8 DEF PmutsRight
<1>13. MutexRight(pt, cx)
  BY <1>7, <1>8 DEF MutexRight
<1>14. Custody(pt, cx)
  BY <1>7, <1>8 DEF Custody
<1>15. Targets(pt, cx)
  BY <1>5, <1>8 DEF Targets, Joins, HasDead
<1>16. CaredFor(pt, cx)
  BY <1>2, <1>4, <1>5 DEF CaredFor, LifeTypeOK
<1>17. JoinsRight(pt, cx)
  BY <1>7, <1>8 DEF JoinsRight
<1>18. HaltRight
  BY <1>7 DEF HaltRight
<1>19. ReaperRight(pt, cx)
  <2>1. PICK u \in Threads \ {Reaper} : Contains(Boot, u)
    BY LifeAssumption
  <2>2. ut_state[u] # "UT_NO_STATE"
    BY <1>2, <1>5, <2>1
  <2>3. ut_state[Reaper] # "UT_NO_STATE"
    BY <1>2, <1>5, LifeAssumption
  <2> QED BY <1>7, <2>2, <2>3 DEF ReaperRight
<1>20. LifeInvAt(pt, cx)
  BY <1>4, <1>6, <1>9, <1>10, <1>11, <1>12, <1>13, <1>14, <1>15, <1>16, <1>17, <1>18, <1>19 DEF LifeInvAt
<1> QED BY <1>1, <1>20 DEF LifeInv

-----------------------------------------------------------------------------
(* What the invariant says of the properties.                              *)

LEMMA InvNoJoinerStranded == ASSUME NEW pt, NEW cx, Situation(pt, cx) PROVE NoJoinerStranded
<1> SUFFICES ASSUME NEW u \in Threads, waitq[u] # <<>>, ut_state[u] \in {"UT_ZOMBIE", "UT_NO_STATE"}
             PROVE  Looking(u)
  BY DEF NoJoinerStranded
<1>1. /\ LifeTypeOK /\ WaitsRight(pt) /\ NewRight(pt) /\ Custody(pt, cx) /\ JoinsRight(pt, cx)
      /\ Private(u, pt[u], cx[u])
  BY DEF Situation, LifeInvAt
<1>2. waitq[u] \in Seq(Threads) /\ waitq[u] # <<>>
  BY <1>1, LifeObjects DEF LifeTypeOK, SchedTypes
<1>3. PICK t \in Threads : InQueue(u, t)
  <2>1. waitq[u][1] \in Threads /\ 1 \in 1..Len(waitq[u])
    BY <1>2
  <2> QED BY <2>1 DEF InQueue
<1>4. pt[t] = "join_woken" /\ tgt[t] = u /\ ~Gone(pt[u], cx[u])
  BY <1>1, <1>3 DEF WaitsRight, JoinsRight
<1>5. ut_state[u] = "UT_ZOMBIE"
  <2>1. Has(pt[t], cx[t])
    BY <1>4 DEF Has, JoinCode
  <2> QED BY <1>1, <1>4, <2>1 DEF Custody
<1>6. cx[u] = "exit" /\ pt[u] \in {"exit_check", "exit_lock"}
  <2>1. CASE OnLwp(u)
    <3>1. StateOn(pt[u], cx[u]) = "UT_ZOMBIE"
      BY <1>1, <1>5, <2>1 DEF Private, ModeOf
    <3>2. cx[u] = "exit"
      BY <3>1 DEF StateOn
    <3> QED BY <1>4, <3>2 DEF Gone
  <2>2. CASE ~OnLwp(u)
    <3>1. pt[u] = "dead"
      BY <1>1, <1>5, <2>2 DEF Private, ModeOf, StateOff
    <3>2. cx[u] = "exit"
      BY <2>2, <3>1, OffLwpRests
    <3> QED BY <1>4, <3>1, <3>2 DEF Gone
  <2> QED BY <2>1, <2>2
<1>7. stack[u] # <<>> /\ Row(pt[u], cx[u], ut_no_preempt_count[u], Head(stack[u]), Tail(stack[u]))
  BY <1>1, <1>6 DEF Private, Is
<1>8. Head(stack[u]) = pt[u]
  BY <1>6, <1>7 DEF Row, ClientRow, ExitRow, LockRow, UnlockRow, BurialRow, ReaperRow, Unlocks, ReaperCode
<1> QED BY <1>6, <1>7, <1>8 DEF Looking

LEMMA InvReapedOffStack == ASSUME NEW pt, NEW cx, Situation(pt, cx) PROVE ReapedOffStack
<1> SUFFICES ASSUME NEW u \in Threads, ut_state[u] = "UT_NO_STATE", NEW l \in LWPs, curthr[l] = u
             PROVE  FALSE
  BY DEF ReapedOffStack
<1>1. OnLwp(u) /\ Private(u, pt[u], cx[u])
  BY DEF OnLwp, Running, Situation, LifeInvAt
<1> QED BY <1>1 DEF Private, ModeOf, StateOn

-----------------------------------------------------------------------------
(* The process that dies in lwp_park: no LWP runs a thread, and no thread  *)
(* is queued.                                                              *)

LwpParked(pt, cx) == Situation(pt, cx) /\ halted = "lwp_park"

LEMMA ParkedRests ==
    ASSUME NEW pt, NEW cx, LwpParked(pt, cx), NEW t \in Threads
    PROVE  /\ ~OnLwp(t) /\ ut_state[t] # "UT_RUNNABLE" /\ pt[t] \in Resting
           /\ pt[t] = "off" => cx[t] = "client"
           /\ wakee[t] = NoThread
<1>1. Situation(pt, cx) /\ HaltRight /\ RunqRight /\ LifeTypeOK /\ Private(t, pt[t], cx[t])
  BY DEF LwpParked, Situation, LifeInvAt
<1>2. ~OnLwp(t) /\ RunqEmpty(runq)
  BY <1>1 DEF LwpParked, HaltRight
<1>3. ut_state[t] # "UT_RUNNABLE"
  <2>1. ~Queued(t)
    BY <1>2 DEF Queued, RunqEmpty, Contains
  <2> QED BY <1>1, <1>2, <2>1 DEF RunqRight
<1>4. pt[t] \in Resting /\ StateOff(pt[t], cx[t], ut_state[t])
  BY <1>1, <1>2, OffLwpRests
<1>5. pt[t] = "off" => cx[t] = "client"
  BY <1>3, <1>4 DEF StateOff, Woken
<1>6. wakee[t] = NoThread
  BY <1>1, <1>4 DEF Private, CallArgs, WakePoints, Resting
<1> QED BY <1>2, <1>3, <1>4, <1>5, <1>6

LEMMA ParkedWaits ==
    ASSUME NEW pt, NEW cx, LwpParked(pt, cx), NEW t \in Threads, ut_state[t] = "UT_WAIT"
    PROVE  \/ InQueue(reap_mtx, t) /\ pt[t] = "mtx_locked"
           \/ InQueue(reap_cond, t) /\ pt[t] = "cond_relock"
           \/ \E o \in Threads : InQueue(o, t) /\ pt[t] = "join_woken" /\ tgt[t] = o
<1>1. WaitsRight(pt) /\ \A u \in Threads : ~OnLwp(u) /\ wakee[u] = NoThread
  BY ParkedRests DEF LwpParked, Situation, LifeInvAt
<1>2. PICK o \in Objs : InQueue(o, t)
  BY <1>1, LifeObjects DEF WaitsRight
<1> QED BY <1>1, <1>2, LifeObjects DEF WaitsRight

\* Nobody has reap_mtx, and so nobody waits for it.
LEMMA ParkedMutexFree ==
    ASSUME NEW pt, NEW cx, LwpParked(pt, cx), NEW t \in Threads
    PROVE  ~InQueue(reap_mtx, t) /\ pt[t] # "mtx_locked"
<1>1. /\ Situation(pt, cx) /\ MutexRight(pt, cx) /\ LifeTypeOK
      /\ m_owner[reap_mtx] \in Threads \cup {NoThread}
  BY LifeObjects DEF LwpParked, Situation, LifeInvAt, LifeTypeOK
<1>2. ASSUME NEW w \in Threads, m_owner[reap_mtx] = w PROVE FALSE
  <2>1. ~OnLwp(w) /\ ut_state[w] # "UT_RUNNABLE" /\ StateOff(pt[w], cx[w], ut_state[w])
    BY <1>1, ParkedRests, OffLwpRests
  <2>2. ~InSection(pt[w], cx[w])
    BY <1>1, <2>1, OffLwpRests
  <2>3. pt[w] = "mtx_locked" /\ ~InQueue(reap_mtx, w)
    BY <1>1, <1>2, <2>2 DEF MutexRight
  <2>4. ut_state[w] = "UT_WAIT"
    BY <2>1, <2>3 DEF StateOff
  <2> QED BY <2>3, <2>4, ParkedWaits
<1>3. m_owner[reap_mtx] = NoThread
  BY <1>1, <1>2
<1>4. waitq[reap_mtx] = <<>>
  BY <1>1, <1>3 DEF MutexRight
<1>5. ~InQueue(reap_mtx, t)
  BY <1>4 DEF InQueue
<1> QED BY <1>1, <1>3, <1>5, LifeObjects DEF MutexRight

LEMMA ParkedReaper ==
    ASSUME NEW pt, NEW cx, LwpParked(pt, cx)
    PROVE  InQueue(reap_cond, Reaper) /\ reap_queue = <<>>
<1>1. /\ Reaper \in Threads /\ Situation(pt, cx) /\ ReaperRight(pt, cx) /\ NewRight(pt) /\ LifeTypeOK
      /\ \A t \in Threads : Private(t, pt[t], cx[t])
  BY LifeObjects DEF LwpParked, Situation, LifeInvAt
<1>2. /\ pt[Reaper] \in Resting /\ StateOff(pt[Reaper], cx[Reaper], ut_state[Reaper])
      /\ ut_state[Reaper] # "UT_RUNNABLE" /\ ut_state[Reaper] # "UT_NO_STATE"
      /\ pt[Reaper] = "dead" => cx[Reaper] = "exit"
  BY <1>1, ParkedRests, OffLwpRests DEF ReaperRight
<1>3. ut_state[Reaper] # "UT_TRANSITION"
  <2>1. ASSUME NEW t \in Threads, newthr[t] = Reaper PROVE FALSE
    <3>1. Allocates(pt[t], cx[t]) /\ pt[t] \in Resting /\ (pt[t] = "off" => cx[t] = "client")
      BY <1>1, <2>1, LifeObjects, ParkedRests DEF Private, CallArgs
    <3>2. cx[t] = "create_init" /\ Is(pt[t], cx[t], ut_no_preempt_count[t], stack[t])
      BY <1>1, <3>1 DEF Allocates, Resting, Private
    <3> QED BY <3>1, <3>2 DEF Resting, Is, Row, ClientRow, ExitRow, LockRow, UnlockRow, BurialRow, ReaperRow,
               Buriers, Lockers, Unlocks, ReaperCode
  <2> QED BY <1>1, <2>1 DEF NewRight
<1>4. Roles(Reaper, pt[Reaper], cx[Reaper]) /\ Is(pt[Reaper], cx[Reaper], ut_no_preempt_count[Reaper], stack[Reaper])
  BY <1>1 DEF Private
<1>5. pt[Reaper] \notin {"dead", "join_woken"}
  <2>1. pt[Reaper] # "dead"
    BY <1>2, <1>4 DEF Roles
  <2>2. pt[Reaper] = "join_woken" => cx[Reaper] = "join"
    BY <1>4 DEF Is, Row, ClientRow, ExitRow, LockRow, UnlockRow, BurialRow, ReaperRow, Unlocks, ReaperCode
  <2> QED BY <1>4, <2>1, <2>2 DEF Roles
<1>6. ut_state[Reaper] = "UT_WAIT"
  BY <1>2, <1>3, <1>5 DEF StateOff
<1>7. InQueue(reap_cond, Reaper)
  BY <1>1, <1>5, <1>6, ParkedWaits, ParkedMutexFree
<1>8. \A u \in Threads : pt[u] # "cond_signal"
  BY ParkedRests DEF Resting
<1> QED BY <1>1, <1>7, <1>8 DEF ReaperRight

LEMMA ParkedTransition ==
    ASSUME NEW pt, NEW cx, LwpParked(pt, cx), NEW u \in Threads
    PROVE  ut_state[u] # "UT_TRANSITION"
<1>1. /\ Situation(pt, cx) /\ NewRight(pt)
      /\ \A t \in Threads : Private(t, pt[t], cx[t])
  BY LifeObjects DEF LwpParked, Situation, LifeInvAt
<1>2. ASSUME NEW t \in Threads, newthr[t] = u PROVE FALSE
  <2>1. Allocates(pt[t], cx[t]) /\ pt[t] \in Resting /\ (pt[t] = "off" => cx[t] = "client")
    BY <1>1, <1>2, LifeObjects, ParkedRests DEF Private, CallArgs
  <2>2. cx[t] = "create_init" /\ Is(pt[t], cx[t], ut_no_preempt_count[t], stack[t])
    BY <1>1, <2>1 DEF Allocates, Resting, Private
  <2> QED BY <2>1, <2>2 DEF Resting, Is, Row, ClientRow, ExitRow, LockRow, UnlockRow, BurialRow, ReaperRow,
             Buriers, Lockers, Unlocks, ReaperCode
<1> QED BY <1>1, <1>2 DEF NewRight

\* A dead thread that somebody has claimed is in nobody's hands any more.
LEMMA ParkedDead ==
    ASSUME NEW pt, NEW cx, LwpParked(pt, cx), NEW u \in claimed
    PROVE  ut_state[u] # "UT_ZOMBIE"
<1> SUFFICES ASSUME ut_state[u] = "UT_ZOMBIE" PROVE FALSE
  OBVIOUS
<1>1. /\ Situation(pt, cx) /\ LifeTypeOK /\ CaredFor(pt, cx) /\ JoinsRight(pt, cx)
      /\ \A t \in Threads : Private(t, pt[t], cx[t])
  BY DEF LwpParked, Situation, LifeInvAt
<1>2. u \in Threads /\ ~OnLwp(u)
  BY <1>1, ParkedRests DEF LifeTypeOK
<1>3. pt[u] = "dead"
  BY <1>1, <1>2, OffLwpRests DEF StateOff
<1>4. cx[u] = "exit"
  BY <1>1, <1>2, <1>3, OffLwpRests
<1>5. ~InReapQueue(u)
  BY ParkedReaper DEF InReapQueue
<1>6. PICK t \in Threads : Has(pt[t], cx[t]) /\ tgt[t] = u
  BY <1>1, <1>3, <1>4, <1>5 DEF CaredFor
<1>7. /\ ~OnLwp(t) /\ pt[t] \in Resting /\ pt[t] # "mtx_locked" /\ (pt[t] = "off" => cx[t] = "client")
      /\ StateOff(pt[t], cx[t], ut_state[t]) /\ ut_state[t] # "UT_RUNNABLE"
      /\ (pt[t] = "dead" => ~Has(pt[t], cx[t]))
  BY <1>1, ParkedRests, ParkedMutexFree, OffLwpRests
<1>8. Is(pt[t], cx[t], ut_no_preempt_count[t], stack[t])
  BY <1>1 DEF Private
<1>9. pt[t] = "join_woken"
  <2>1. pt[t] # "dead"
    BY <1>6, <1>7
  <2>2. pt[t] \in {"free", "off"} => cx[t] = "client"
    BY <1>7, <1>8 DEF Is, Row, ClientRow, ExitRow, LockRow, UnlockRow, BurialRow, ReaperRow, Unlocks, ReaperCode
  <2>3. pt[t] = "cond_relock" => cx[t] = "reaper_loop"
    BY <1>8 DEF Is, Row, ClientRow, ExitRow, LockRow, UnlockRow, BurialRow, ReaperRow, Unlocks, ReaperCode
  <2> QED BY <1>6, <1>7, <2>1, <2>2, <2>3 DEF Has, JoinCode, Buriers, Resting
<1>10. ut_state[t] = "UT_WAIT"
  BY <1>7, <1>9 DEF StateOff
<1>11. InQueue(u, t)
  <2>1. PICK o \in Threads : InQueue(o, t) /\ tgt[t] = o
    BY <1>9, <1>10, ParkedWaits
  <2> QED BY <1>6, <2>1
<1>12. ~Gone(pt[u], cx[u])
  BY <1>1, <1>2, <1>11 DEF JoinsRight
<1> QED BY <1>3, <1>4, <1>12 DEF Gone

LEMMA InvOnlyClientsGetStuck == ASSUME NEW pt, NEW cx, Situation(pt, cx) PROVE OnlyClientsGetStuck
<1> SUFFICES ASSUME halted = "lwp_park", \A u \in Threads : ut_state[u] = "UT_ZOMBIE" => u \in claimed
             PROVE  /\ \E u \in Threads \ {Reaper} : ut_state[u] # "UT_NO_STATE"
                    /\ \A u \in Threads \ {Reaper} :
                          ut_state[u] # "UT_NO_STATE" => \E o \in Threads : Contains(waitq[o], u)
  BY DEF OnlyClientsGetStuck
<1>1. LwpParked(pt, cx) /\ LifeTypeOK /\ ReaperRight(pt, cx) /\ Reaper \in Threads
      /\ \A t \in Threads : Private(t, pt[t], cx[t])
  BY LifeObjects DEF LwpParked, Situation, LifeInvAt
<1>2. \E u \in Threads \ {Reaper} : ut_state[u] # "UT_NO_STATE"
  <2>1. pt[Reaper] # "reaper_scan"
    BY <1>1, ParkedRests DEF Resting
  <2> QED BY <1>1, <2>1 DEF ReaperRight
<1>3. ASSUME NEW u \in Threads, u # Reaper, ut_state[u] # "UT_NO_STATE"
      PROVE  \E o \in Threads : Contains(waitq[o], u)
  <2>1. ut_state[u] \notin {"UT_ZOMBIE", "UT_RUNNABLE", "UT_TRANSITION"} /\ ~OnLwp(u)
    BY <1>1, ParkedDead, ParkedRests, ParkedTransition
  <2>2. StateOff(pt[u], cx[u], ut_state[u])
    BY <2>1, OffLwpRests
  <2>3. ut_state[u] = "UT_WAIT"
    BY <1>3, <2>1, <2>2 DEF StateOff
  <2>4. ~(InQueue(reap_cond, u) /\ pt[u] = "cond_relock")
    <3>1. pt[u] = "cond_relock" => cx[u] = "reaper_loop"
      BY <1>1 DEF Private, Is, Row, ClientRow, ExitRow, LockRow, UnlockRow, BurialRow, ReaperRow, Unlocks, ReaperCode
    <3>2. cx[u] # "reaper_loop"
      BY <1>1, <1>3 DEF Private, Roles
    <3> QED BY <3>1, <3>2
  <2>5. PICK o \in Threads : InQueue(o, u)
    BY <1>1, <2>3, <2>4, ParkedWaits, ParkedMutexFree
  <2> QED BY <2>5 DEF InQueue, Contains
<1> QED BY <1>2, <1>3

-----------------------------------------------------------------------------
(* A dead thread is in one pair of hands.                                  *)

LEMMA ContainsHead ==
    ASSUME NEW s \in Seq(LifeNames), s # <<>>, NEW e, Contains(s, e)
    PROVE  Head(s) = e \/ Contains(Tail(s), e)
<1>1. PICK i \in 1..Len(s) : s[i] = e
  BY DEF Contains
<1>2. i # 1 => i - 1 \in 1..Len(Tail(s)) /\ Tail(s)[i - 1] = e
  BY <1>1
<1>3. i = 1 => Head(s) = e
  BY <1>1
<1> QED BY <1>2, <1>3 DEF Contains

LEMMA ContainsCons ==
    ASSUME NEW f \in LifeNames, NEW s \in Seq(LifeNames), NEW e, Contains(<<f>> \o s, e)
    PROVE  f = e \/ Contains(s, e)
<1> DEFINE q == <<f>> \o s
<1>1. Contains(q, e)
  OBVIOUS
<1>2. q \in Seq(LifeNames) /\ q # <<>> /\ Head(q) = f /\ Tail(q) = s
  BY AfterCons
<1> HIDE DEF q
<1>3. Head(q) = e \/ Contains(Tail(q), e)
  BY <1>1, <1>2, ContainsHead
<1> QED BY <1>2, <1>3

\* The code that passes a dead thread to the reaper.
Burials == {"reap_pmut", "make_reapable"}

LEMMA BelowBuries ==
    ASSUME NEW c \in Contexts, NEW e \in Burials
    PROVE  /\ Contains(Below(c), e) => c \in {"reap_pmut", "make_reapable"}
           /\ Contains(AfterLock(c), e) => c \in Buriers \cup {"reap_pmut", "make_reapable"}
<1>1. Contains(Below(c), e) => c \in {"reap_pmut", "make_reapable"}
  <2> SUFFICES ASSUME Contains(Below(c), e) PROVE c \in {"reap_pmut", "make_reapable"}
    OBVIOUS
  <2>1. CASE c \in {"client", "exit", "join"}
    BY <2>1 DEF Below, Contains
  <2>2. CASE c = "relock"
    <3>1. <<"reaper_loop">> \in Seq(LifeNames) /\ "nopreempt_off" \in LifeNames
      BY NamesKnown
    <3>2. Contains(<<"nopreempt_off">> \o <<"reaper_loop">>, e)
      BY <2>2 DEF Below
    <3>3. "nopreempt_off" = e \/ Contains(<<"reaper_loop">>, e)
      BY <3>1, <3>2, ContainsCons
    <3> QED BY <3>3 DEF Contains, Burials
  <2>3. CASE c \notin {"client", "exit", "join", "relock"}
    <3>1. Contains(<<c>>, e)
      BY <2>3 DEF Below
    <3>2. c = e
      BY <3>1 DEF Contains
    <3> QED BY <3>2 DEF Burials
  <2> QED BY <2>1, <2>2, <2>3
<1>2. Contains(AfterLock(c), e) => c \in Buriers \cup {"reap_pmut", "make_reapable"}
  BY <1>1 DEF AfterLock
<1> QED BY <1>1, <1>2

LEMMA RowBuries ==
    ASSUME NEW p, NEW c \in Contexts, NEW n, NEW h, NEW r, Row(p, c, n, h, r), NEW e \in Burials,
           h = e \/ Contains(r, e)
    PROVE  Has(p, c)
<1> SUFFICES ASSUME ~Has(p, c) PROVE FALSE
  OBVIOUS
<1>1. /\ p \notin Burials /\ c \notin Burials
      /\ p \in {"mtx_lock", "mtx_switch", "mtx_locked"} => c \notin Buriers
  BY DEF Has, Burials
<1>2. ~Contains(Below(c), e) /\ (c \notin Buriers => ~Contains(AfterLock(c), e))
  BY <1>1, BelowBuries DEF Burials
<1>3. /\ ~Contains(<<>>, e) /\ ~Contains(<<"join_woken">>, e) /\ ~Contains(<<"dead">>, e)
      /\ ~Contains(<<"exit_switch">>, e) /\ ~Contains(<<"reaper_loop">>, e)
  BY DEF Contains, Burials
<1>4. Below(c) \in Seq(LifeNames) /\ AfterLock(c) \in Seq(LifeNames) /\ AfterUnlock(c) \in LifeNames /\ Locked(c) \in LifeNames
  BY BelowType
<1>5. /\ "nopreempt_off" \in LifeNames /\ "reap_unlock" \in LifeNames /\ "cond_relock" \in LifeNames
      /\ <<"reaper_loop">> \in Seq(LifeNames)
  BY NamesKnown
<1>6. /\ ~Contains(<<"nopreempt_off">> \o Below(c), e) /\ ~Contains(<<"reap_unlock">> \o Below(c), e)
      /\ ~Contains(<<AfterUnlock(c)>> \o Below(c), e)
  <2>1. "nopreempt_off" # e /\ "reap_unlock" # e /\ AfterUnlock(c) # e
    BY DEF Burials, AfterUnlock
  <2> QED BY <1>2, <1>4, <1>5, <2>1, ContainsCons
<1>7. /\ ~Contains(<<"nopreempt_off">> \o (<<AfterUnlock(c)>> \o Below(c)), e)
      /\ ~Contains(<<"nopreempt_off">> \o (<<"reap_unlock">> \o Below(c)), e)
  <2>1. "nopreempt_off" # e
    BY DEF Burials
  <2>2. <<AfterUnlock(c)>> \o Below(c) \in Seq(LifeNames) /\ <<"reap_unlock">> \o Below(c) \in Seq(LifeNames)
    BY <1>4, <1>5, AfterCons
  <2> QED BY <1>5, <1>6, <2>1, <2>2, ContainsCons
<1>8. /\ c \notin Buriers => ~Contains(<<Locked(c)>> \o AfterLock(c), e)
      /\ ~Contains(<<"cond_relock">> \o <<"reaper_loop">>, e)
  <2>1. Locked(c) # e /\ "cond_relock" # e
    BY DEF Burials, Locked
  <2> QED BY <1>2, <1>3, <1>4, <1>5, <2>1, ContainsCons
<1>9. p \in Burials \/ h # e
  <2>1. h \in Burials => p \in Burials \/ c \in Burials
    BY DEF Row, ClientRow, ExitRow, LockRow, UnlockRow, BurialRow, ReaperRow, Burials, AfterUnlock, Preemptible, ReaperCode,
       Locked
  <2> QED BY <1>1, <2>1
<1>10. Contains(r, e)
  BY <1>1, <1>9
<1>11. ~ClientRow(p, c, n, h, r)
  BY <1>2, <1>3, <1>6, <1>10 DEF ClientRow
<1>12. ~ExitRow(p, c, n, h, r)
  BY <1>3, <1>10 DEF ExitRow
<1>13. ~LockRow(p, c, n, h, r)
  BY <1>1, <1>2, <1>8, <1>10 DEF LockRow
<1>14. ~UnlockRow(p, c, n, h, r)
  BY <1>6, <1>7, <1>10 DEF UnlockRow
<1>15. ~BurialRow(p, c, n, h, r)
  BY <1>2, <1>6, <1>7, <1>10 DEF BurialRow
<1>16. ~ReaperRow(p, c, n, h, r)
  BY <1>3, <1>8, <1>10 DEF ReaperRow
<1> QED BY <1>11, <1>12, <1>13, <1>14, <1>15, <1>16 DEF Row

LEMMA ReaperIdleInit == LifeInit => ReaperIdle
  BY LifeObjects DEF LifeInit, ReaperIdle

\* Who works for the reaper does nothing else.
LEMMA ReaperWorks ==
    ASSUME NEW pt, NEW cx, Situation(pt, cx), stack[Reaper] # <<>>,
           Head(stack[Reaper]) \in {"reaper_lock", "reaper_destroy"}
    PROVE  ut_no_preempt_count[Reaper] = 1 /\ OnLwp(Reaper)
<1>1. Reaper \in Threads /\ Private(Reaper, pt[Reaper], cx[Reaper])
  BY LifeObjects DEF Situation, LifeInvAt
<1> DEFINE h == Head(stack[Reaper])
<1>2. Row(pt[Reaper], cx[Reaper], ut_no_preempt_count[Reaper], h, Tail(stack[Reaper]))
  BY <1>1 DEF Private, Is
<1>3. h \in ReaperCode /\ h \in {"reaper_lock", "reaper_destroy"}
  BY DEF ReaperCode
<1> HIDE DEF h
<1>4. pt[Reaper] = h /\ ut_no_preempt_count[Reaper] = 1
  BY <1>2, <1>3, RowsOfReaper
<1>5. ~OnLwp(Reaper) => pt[Reaper] \in Resting
  BY <1>1, OffLwpRests
<1> QED BY <1>3, <1>4, <1>5 DEF Resting

LEMMA ReaperIdleNext ==
    ASSUME OneLwpOnly, LifeInv, ReaperIdle, LifeNext
    PROVE  ReaperIdle'
<1>1. PICK pt \in [Threads -> Points], cx \in [Threads -> Contexts] : LifeInvAt(pt, cx)
  BY DEF LifeInv
<1>2. Situation(pt, cx)
  BY <1>1 DEF Situation
<1>3. LifeTypeOK /\ Reaper \in Threads /\ NoThread \notin Threads /\ stack \in [Threads -> Seq(LifeNames)]
      /\ tgt \in [Threads -> Threads \cup {NoThread}]
  BY <1>1, LifeObjects DEF LifeInvAt, LifeTypeOK, SchedTypes, LifeNames
<1>4. CASE tgt[Reaper] = NoThread
  <2>1. CASE SyncNext /\ CreateResets
    BY <1>4, <2>1 DEF CreateResets, ReaperIdle
  <2>2. ASSUME NEW l \in LWPs, NEW t \in Threads, LifeLibraryStep(l, t) \/ LifeClientStep(l, t), ~ReaperTake(l, t)
        PROVE  tgt'[Reaper] = NoThread
    <3>1. CASE UthreadExit(l, t) \/ \E u \in Threads : UthreadJoin(l, t, u) \/ UthreadDetach(l, t, u)
      <4>1. t # Reaper
        BY <3>1, LifeAssumption DEF UthreadExit, UthreadJoin, UthreadDetach
      <4>2. \E u \in Threads : tgt' = [tgt EXCEPT ![t] = u]
        BY <3>1 DEF UthreadExit, UthreadJoin, UthreadDetach
      <4> QED BY <1>3, <1>4, <4>1, <4>2
    <3>2. CASE JoinLock(l, t) \/ ReapRelease(l, t) \/ DetachCheck(l, t) \/ ReaperDestroy(l, t)
      <4>1. tgt' = tgt \/ tgt' = [tgt EXCEPT ![t] = NoThread]
        BY <3>2 DEF JoinLock, JoinSleep, LeaveWithout, ReapRelease, DetachCheck, ReaperDestroy, lifeVars
      <4> QED BY <1>3, <1>4, <4>1
    <3>3. CASE \/ ExitCheck(l, t) \/ ExitLock(l, t) \/ ExitSwitch(l, t) \/ Undead(l, t) \/ MtxLockedZombie(l, t)
               \/ ReapPmut(l, t) \/ ReapUnlock(l, t) \/ ReapSwitch(l, t)
      <4>1. tgt' = tgt
        BY <3>3 DEF ExitCheck, ExitLock, ExitSwitch, Undead, MtxLockedZombie, ReapPmut, ReapUnlock, ReapSwitch, lifeVars
      <4> QED BY <1>4, <4>1
    <3>4. CASE \/ MakeReapable(l, t) \/ PmutRelock(l, t) \/ JoinWoken(l, t) \/ JoinReap(l, t)
               \/ ReaperStart(l, t) \/ ReaperWait(l, t) \/ ReaperLock(l, t) \/ ReaperScan(l, t)
      <4>1. tgt' = tgt
        BY <3>4 DEF MakeReapable, PmutRelock, JoinWoken, JoinReap, ReaperStart, ReaperWait, ReaperLock, ReaperScan, lifeVars
      <4> QED BY <1>4, <4>1
    <3> QED BY <2>2, <3>1, <3>2, <3>3, <3>4 DEF LifeLibraryStep, LifeClientStep
  <2>3. ASSUME NEW l \in LWPs, NEW t \in Threads, ReaperTake(l, t)
        PROVE  ReaperIdle'
    <3> DEFINE h == Head(stack[t])
    <3>1. h \in ReaperCode /\ At(l, t, h)
      BY <2>3 DEF ReaperTake, At, ReaperCode
    <3>2. Row(pt[t], cx[t], ut_no_preempt_count[t], h, Tail(stack[t])) /\ stack[t] # <<>>
      BY <1>2, <3>1, AtPoint
    <3> HIDE DEF h
    <3>3. cx[t] = "reaper_loop"
      BY <3>1, <3>2, RowsOfReaper
    <3>4. t = Reaper
      BY <1>1, <3>3 DEF LifeInvAt, Private, Roles
    <3>5. CASE UNCHANGED tgt
      BY <1>4, <3>5 DEF ReaperIdle
    <3>6. CASE Continue(t, <<"reaper_lock">>)
      <4>1. "reaper_lock" \in LifeNames
        BY NamesKnown
      <4>2. stack'[t] # <<>> /\ Head(stack'[t]) = "reaper_lock"
        BY <1>3, <3>2, <3>6, <4>1, LifeContinue
      <4> QED BY <3>4, <4>2 DEF ReaperIdle
    <3> QED BY <2>3, <3>5, <3>6 DEF ReaperTake
  <2> QED BY <2>1, <2>2, <2>3 DEF LifeNext, ReaperIdle
<1>5. CASE tgt[Reaper] # NoThread
  <2>1. /\ stack[Reaper] # <<>> /\ Head(stack[Reaper]) \in {"reaper_lock", "reaper_destroy"}
        /\ ut_no_preempt_count[Reaper] = 1 /\ OnLwp(Reaper)
    BY <1>2, <1>5, ReaperWorks DEF ReaperIdle
  <2>2. PICK k \in LWPs : Running(k, Reaper)
    BY <2>1 DEF OnLwp
  <2>3. \A l \in LWPs, t \in Threads : Running(l, t) => t = Reaper
    BY <2>2 DEF OneLwpOnly, Running
  <2>4. ASSUME NEW l \in LWPs, NEW t \in Threads PROVE ~InClient(l, t) /\ ~ClockInterrupt(l, t)
    BY <2>1, <2>3 DEF InClient, ClockInterrupt
  <2>5. ASSUME NEW l \in LWPs, NEW t \in Threads, NEW h, At(l, t, h)
        PROVE  t = Reaper /\ h \in {"reaper_lock", "reaper_destroy"}
    BY <2>1, <2>3, <2>5 DEF At
  <2>6. \A l \in LWPs : ~LwpStep(l)
    <3>1. lwp[k] = "running"
      BY <1>2, <2>1, <2>2, <1>3, Idle
    <3>2. \A l \in LWPs : l = k
      BY DEF OneLwpOnly
    <3> QED BY <3>1, <3>2 DEF LwpStep, LwpStart, Unpark, SpuriousWakeup
  <2>7. ASSUME NEW l \in LWPs, NEW t \in Threads PROVE ~LibraryStep(l, t)
    BY <2>5 DEF LibraryStep, Switch, SwitchAborts, Return, YieldLock, Wake, WakeUnlock, SetprioWrite, SetprioLock,
       AllocClaim, CreateInit, AllocStackFails, StartOnRunq
  <2>8. ASSUME NEW l \in LWPs, NEW t \in Threads PROVE ~ClientStep(l, t)
    BY <2>4 DEF ClientStep, UthreadYield, UthreadBlock, UthreadWake, AllocScan, AllocFound, SetprioRead
  <2>9. ASSUME NEW l \in LWPs, NEW t \in Threads PROVE ~SyncLibraryStep(l, t)
    BY <2>5 DEF SyncLibraryStep, MtxLock, MtxLocked, MtxTrylock, MtxUnlock, CondWait, CondSleep, CondRelock,
       CondSignal, CondBroadcast
  <2>10. ASSUME NEW l \in LWPs, NEW t \in Threads PROVE ~SyncClientStep(l, t)
    BY <2>4 DEF SyncClientStep, UthreadMtxLock, UthreadMtxTrylock, UthreadMtxUnlock, UthreadCondWait,
       UthreadCondSignal, UthreadCondBroadcast
  <2>11. ~SyncNext
    BY <2>4, <2>6, <2>7, <2>8, <2>9, <2>10 DEF SyncNext, SchedNext
  <2>12. ASSUME NEW l \in LWPs, NEW t \in Threads PROVE ~LifeClientStep(l, t) /\ ~ReaperStart(l, t)
    BY <2>4 DEF LifeClientStep, UthreadExit, UthreadJoin, UthreadDetach, ReaperStart
  <2>13. ASSUME NEW l \in LWPs, NEW t \in Threads, LifeLibraryStep(l, t)
         PROVE  ReaperLock(l, t) \/ ReaperDestroy(l, t) \/ PmutRelock(l, t)
    <3>1. ~ExitCheck(l, t) /\ ~ExitLock(l, t) /\ ~ExitSwitch(l, t) /\ ~Undead(l, t) /\ ~MtxLockedZombie(l, t)
      BY <2>5 DEF ExitCheck, ExitLock, ExitSwitch, Undead, MtxLockedZombie
    <3>2. ~ReapPmut(l, t) /\ ~MakeReapable(l, t) /\ ~ReapUnlock(l, t) /\ ~ReapRelease(l, t) /\ ~ReapSwitch(l, t)
      BY <2>5 DEF ReapPmut, LockReaped, MakeReapable, ReapUnlock, ReapRelease, ReapSwitch
    <3>3. ~JoinLock(l, t) /\ ~JoinWoken(l, t) /\ ~JoinReap(l, t) /\ ~DetachCheck(l, t)
      BY <2>5 DEF JoinLock, JoinWoken, JoinReap, DetachCheck
    <3>4. ~ReaperWait(l, t) /\ ~ReaperTake(l, t) /\ ~ReaperScan(l, t)
      BY <2>5 DEF ReaperWait, ReaperTake, ReaperScan
    <3> QED BY <2>12, <2>13, <3>1, <3>2, <3>3, <3>4 DEF LifeLibraryStep
  <2>14. ASSUME NEW l \in LWPs, NEW t \in Threads, ReaperLock(l, t) \/ ReaperDestroy(l, t) \/ PmutRelock(l, t)
         PROVE  ReaperIdle'
    <3>1. t = Reaper
      BY <2>5, <2>14 DEF ReaperLock, ReaperDestroy, PmutRelock
    <3>2. CASE UNCHANGED <<stack, tgt>>
      BY <3>2 DEF ReaperIdle
    <3>3. CASE ReaperLock(l, t)
      <4>1. Continue(t, <<"reaper_destroy">>) /\ "reaper_destroy" \in LifeNames
        BY <3>3, NamesKnown DEF ReaperLock
      <4>2. stack'[t] # <<>> /\ Head(stack'[t]) = "reaper_destroy"
        BY <1>3, <2>1, <3>1, <4>1, LifeContinue
      <4> QED BY <3>1, <4>2 DEF ReaperIdle
    <3>4. CASE tgt' = [tgt EXCEPT ![t] = NoThread]
      BY <1>3, <3>1, <3>4 DEF ReaperIdle
    <3>5. CASE ReaperDestroy(l, t)
      BY <3>2, <3>4, <3>5 DEF ReaperDestroy
    <3>6. CASE PmutRelock(l, t)
      BY <3>2, <3>6 DEF PmutRelock, lifeVars
    <3> QED BY <2>14, <3>3, <3>5, <3>6
  <2> QED BY <2>11, <2>12, <2>13, <2>14 DEF LifeNext
<1> QED BY <1>4, <1>5

LEMMA ReaperIdleStutters == ReaperIdle /\ UNCHANGED allLifeVars => ReaperIdle'
  BY DEF ReaperIdle, allLifeVars, lifeVars, syncVars, schedVars

LEMMA InvBuriedOnce == ASSUME NEW pt, NEW cx, Situation(pt, cx), ReaperIdle PROVE BuriedOnce
<1>1. LifeTypeOK /\ Custody(pt, cx) /\ Reaper \in Threads /\ \A t \in Threads : Private(t, pt[t], cx[t])
  BY LifeObjects DEF Situation, LifeInvAt
<1>2. ASSUME NEW t \in Threads, Buries(t) PROVE Has(pt[t], cx[t])
  <2>1. CASE t = Reaper
    <3> DEFINE h == Head(stack[Reaper])
    <3>1. stack[Reaper] # <<>> /\ h \in {"reaper_lock", "reaper_destroy"} /\ h \in ReaperCode
      BY <1>2, <2>1 DEF Buries, ReaperIdle, ReaperCode
    <3>2. Row(pt[Reaper], cx[Reaper], ut_no_preempt_count[Reaper], h, Tail(stack[Reaper]))
      BY <1>1, <3>1 DEF Private, Is
    <3> HIDE DEF h
    <3>3. pt[Reaper] = h
      BY <3>1, <3>2, RowsOfReaper
    <3> QED BY <2>1, <3>1, <3>3 DEF Has
  <2>2. ASSUME NEW e \in Burials, Contains(stack[t], e) PROVE Has(pt[t], cx[t])
    <3>1. stack[t] \in Seq(LifeNames) /\ stack[t] # <<>>
      BY <1>1, <2>2 DEF LifeTypeOK, SchedTypes, LifeNames, Contains
    <3>2. Head(stack[t]) = e \/ Contains(Tail(stack[t]), e)
      BY <2>2, <3>1, ContainsHead
    <3>3. Row(pt[t], cx[t], ut_no_preempt_count[t], Head(stack[t]), Tail(stack[t])) /\ cx[t] \in Contexts
      BY <1>1, <3>1 DEF Private, Is, Situation
    <3> QED BY <3>2, <3>3, RowBuries
  <2> QED BY <1>2, <2>1, <2>2 DEF Buries, Burials
<1>3. \A t, u \in Threads : Buries(t) /\ Buries(u) /\ tgt[t] = tgt[u] => t = u
  BY <1>1, <1>2 DEF Custody
<1>4. \A t \in Threads : Buries(t) => ~Contains(reap_queue, tgt[t])
  BY <1>1, <1>2 DEF Custody, InReapQueue, Contains
<1>5. \A i, j \in DOMAIN reap_queue : reap_queue[i] = reap_queue[j] => i = j
  BY <1>1 DEF Custody, LifeTypeOK
<1> QED BY <1>3, <1>4, <1>5 DEF BuriedOnce

-----------------------------------------------------------------------------
(* The theorems.                                                           *)

LEMMA LifeSituation ==
    ASSUME OneLwpOnly, LifeInv
    PROVE  \E pt \in [Threads -> Points], cx \in [Threads -> Contexts] : Situation(pt, cx)
  BY DEF LifeInv, Situation

\* On one LWP every thread is at a point of the code that explains its stack,
\* its preemption count, its state and what it holds, whatever the clients of
\* uthread_create, uthread_exit, uthread_join, uthread_detach and
\* uthread_yield do and wherever the clock strikes.
THEOREM LifeInvariant ==
    ASSUME OneLwpOnly
    PROVE  LifeSpec => [](LifeInv /\ ReaperIdle)
<1>1. LifeInit => LifeInv /\ ReaperIdle
  BY LifeInvInit, ReaperIdleInit
<1>2. LifeInv /\ ReaperIdle /\ [LifeNext]_allLifeVars => LifeInv' /\ ReaperIdle'
  <2>1. LifeInv /\ ReaperIdle /\ LifeNext => LifeInv' /\ ReaperIdle'
    BY LifeInvNext, ReaperIdleNext
  <2>2. LifeInv /\ ReaperIdle /\ UNCHANGED allLifeVars => LifeInv' /\ ReaperIdle'
    BY LifeInvStutters, ReaperIdleStutters
  <2> QED BY <2>1, <2>2
<1> QED BY <1>1, <1>2, PTL DEF LifeSpec

\* Every variable of the scheduler, of reap_mtx, of reap_cond and of the life
\* cycle keeps its type.
THEOREM LifeTypesRight ==
    ASSUME OneLwpOnly
    PROVE  LifeSpec => []LifeTypeOK
<1>1. LifeInv => LifeTypeOK
  BY DEF LifeInv, LifeInvAt
<1> QED BY <1>1, LifeInvariant, PTL

\* make_reapable gets a dead thread once, from the thread itself, from the
\* one that joined it or from the one that detached it too late, and the
\* reaper destroys it once.
THEOREM BurialsRight ==
    ASSUME OneLwpOnly
    PROVE  LifeSpec => []BuriedOnce
<1>1. LifeInv /\ ReaperIdle => BuriedOnce
  BY LifeSituation, InvBuriedOnce
<1> QED BY <1>1, LifeInvariant, PTL

\* No assertion of uthread.c fails, no zombie returns from its last switch,
\* and no POSIX mutex is locked twice or unlocked by an LWP without it.
THEOREM LifeNeverAborts ==
    ASSUME OneLwpOnly
    PROVE  LifeSpec => []NoAbort
<1>1. LifeInv => NoAbort
  BY DEF LifeInv, LifeInvAt, HaltRight, NoAbort
<1> QED BY <1>1, LifeInvariant, PTL

\* uthread_exit finds the joiner that uthread_join has queued, and
\* uthread_join queues nobody on a thread that has already looked.
THEOREM JoinersFound ==
    ASSUME OneLwpOnly
    PROVE  LifeSpec => []NoJoinerStranded
<1>1. LifeInv => NoJoinerStranded
  BY LifeSituation, InvNoJoinerStranded
<1> QED BY <1>1, LifeInvariant, PTL

\* The reaper destroys a thread only after its LWP has left the thread's
\* stack.  On several LWPs a thread that somebody joins can be destroyed
\* earlier.
THEOREM StacksLeft ==
    ASSUME OneLwpOnly
    PROVE  LifeSpec => [](ReapedOffStack /\ DetachedOffStack)
<1>1. LifeInv => ReapedOffStack
  BY LifeSituation, InvReapedOffStack
<1>2. ReapedOffStack => DetachedOffStack
  BY DEF ReapedOffStack, DetachedOffStack
<1> QED BY <1>1, <1>2, LifeInvariant, PTL

\* When lwp_park finds nothing that could ever run, a client has left an
\* exited thread without uthread_join or uthread_detach, or every thread but
\* the reaper waits in uthread_join: reap_mtx, reap_cond and the reaper lose
\* nobody.
THEOREM StuckByClients ==
    ASSUME OneLwpOnly
    PROVE  LifeSpec => []OnlyClientsGetStuck
<1>1. LifeInv => OnlyClientsGetStuck
  BY LifeSituation, InvOnlyClientsGetStuck
<1> QED BY <1>1, LifeInvariant, PTL
=============================================================================
