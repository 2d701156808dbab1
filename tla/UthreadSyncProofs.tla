-------------------------- MODULE UthreadSyncProofs ---------------------------
(***************************************************************************)
(* What the scheduler, the mutexes and the condition variables promise,    *)
(* for any number of threads, LWPs, priorities, mutexes and condition      *)
(* variables, when the clients are Disciplined.  The first part proves     *)
(* SchedInv: no thread is lost, runnable threads are queued at their       *)
(* priority, and lwp_park asserts only when all is over; the counters of   *)
(* the run queues agree with their lists and a slot is allocated once      *)
(* when one LWP runs every thread.  The second proves OwnerInv and         *)
(* LockInv, and with them MutualExclusion, NoStrandedWaiter, WaitIsAtomic  *)
(* and HandOff.  The third proves MonitorInv, and with it that UthreadSync *)
(* implements the monitor of module Monitor.                               *)
(***************************************************************************)
EXTENDS UthreadPlaceProofs, UthreadMonitor

-----------------------------------------------------------------------------
(* What the operations on queues do to their members.                      *)

LEMMA AppendContains ==
    ASSUME NEW s \in Seq(Threads), NEW u \in Threads, NEW v
    PROVE  Contains(Append(s, u), v) <=> Contains(s, v) \/ v = u
<1>1. /\ Len(s) \in Nat /\ Len(Append(s, u)) = Len(s) + 1 /\ Append(s, u)[Len(s) + 1] = u
      /\ \A i \in 1..Len(s) : Append(s, u)[i] = s[i]
  OBVIOUS
<1>2. ASSUME Contains(Append(s, u), v) PROVE Contains(s, v) \/ v = u
  <2>1. PICK i \in 1..(Len(s) + 1) : Append(s, u)[i] = v
    BY <1>1, <1>2 DEF Contains
  <2>2. i = Len(s) + 1 \/ i \in 1..Len(s)
    BY <1>1
  <2> QED BY <1>1, <2>1, <2>2 DEF Contains
<1>3. ASSUME Contains(s, v) \/ v = u PROVE Contains(Append(s, u), v)
  <2>1. CASE Contains(s, v)
    <3>1. PICK i \in 1..Len(s) : s[i] = v
      BY <2>1 DEF Contains
    <3>2. i \in 1..Len(Append(s, u)) /\ Append(s, u)[i] = v
      BY <1>1, <3>1
    <3> QED BY <3>2 DEF Contains
  <2>2. CASE v = u
    <3>1. Len(s) + 1 \in 1..Len(Append(s, u))
      BY <1>1
    <3> QED BY <1>1, <2>2, <3>1 DEF Contains
  <2> QED BY <1>3, <2>1, <2>2
<1> QED BY <1>2, <1>3

LEMMA TailContains ==
    ASSUME NEW s \in Seq(Threads), s # <<>>, NEW v
    PROVE  Contains(s, v) <=> Contains(Tail(s), v) \/ v = Head(s)
<1>1. /\ Len(s) \in Nat /\ Len(s) >= 1 /\ Len(Tail(s)) = Len(s) - 1 /\ Head(s) = s[1]
      /\ \A i \in 1..Len(Tail(s)) : Tail(s)[i] = s[i + 1]
  OBVIOUS
<1>2. ASSUME Contains(s, v) PROVE Contains(Tail(s), v) \/ v = Head(s)
  <2>1. PICK i \in 1..Len(s) : s[i] = v
    BY <1>2 DEF Contains
  <2>2. CASE i = 1
    BY <1>1, <2>1, <2>2
  <2>3. CASE i # 1
    <3>1. i - 1 \in 1..Len(Tail(s)) /\ (i - 1) + 1 = i
      BY <1>1, <2>3
    <3>2. Tail(s)[i - 1] = v
      BY <1>1, <2>1, <3>1
    <3> QED BY <3>1, <3>2 DEF Contains
  <2> QED BY <2>2, <2>3
<1>3. ASSUME Contains(Tail(s), v) \/ v = Head(s) PROVE Contains(s, v)
  <2>1. CASE Contains(Tail(s), v)
    <3>1. PICK i \in 1..Len(Tail(s)) : Tail(s)[i] = v
      BY <2>1 DEF Contains
    <3>2. i + 1 \in 1..Len(s) /\ s[i + 1] = v
      BY <1>1, <3>1
    <3> QED BY <3>2 DEF Contains
  <2>2. CASE v = Head(s)
    <3>1. 1 \in 1..Len(s)
      BY <1>1
    <3> QED BY <1>1, <2>2, <3>1 DEF Contains
  <2> QED BY <1>3, <2>1, <2>2
<1> QED BY <1>2, <1>3

LEMMA RemoveContains ==
    ASSUME NEW s \in Seq(Threads), NEW k \in 1..Len(s), NEW v
    PROVE  /\ Contains(s, v) <=> Contains(RemoveAt(s, k), v) \/ v = s[k]
           /\ Len(RemoveAt(s, k)) = Len(s) - 1
<1>1. Len(s) \in Nat /\ k \in Nat /\ k >= 1 /\ k <= Len(s)
  OBVIOUS
<1>2. /\ Len(RemoveAt(s, k)) = Len(s) - 1
      /\ \A i \in 1..(k - 1) : RemoveAt(s, k)[i] = s[i]
      /\ \A i \in k..(Len(s) - 1) : RemoveAt(s, k)[i] = s[i + 1]
  <2> DEFINE a == SubSeq(s, 1, k - 1)
             b == SubSeq(s, k + 1, Len(s))
  <2>1. a \in Seq(Threads) /\ Len(a) = k - 1 /\ \A i \in 1..(k - 1) : a[i] = s[i]
    BY <1>1
  <2>2. b \in Seq(Threads) /\ Len(b) = Len(s) - k /\ \A i \in 1..(Len(s) - k) : b[i] = s[i + k]
    BY <1>1
  <2>3. RemoveAt(s, k) = a \o b
    BY DEF RemoveAt
  <2> HIDE DEF a, b
  <2>4. Len(a \o b) = Len(s) - 1
    <3>1. a \in Seq(Threads) /\ b \in Seq(Threads)
      BY <2>1, <2>2
    <3>2. Len(a \o b) = Len(a) + Len(b)
      BY <3>1
    <3> QED BY <1>1, <2>1, <2>2, <3>2
  <2>5. ASSUME NEW i \in 1..(k - 1) PROVE (a \o b)[i] = s[i]
    <3>1. i \in 1..(Len(a) + Len(b)) /\ i <= Len(a)
      BY <1>1, <2>1, <2>2
    <3>2. (a \o b)[i] = a[i]
      BY <2>1, <2>2, <3>1
    <3> QED BY <2>1, <3>2
  <2>6. ASSUME NEW i \in k..(Len(s) - 1) PROVE (a \o b)[i] = s[i + 1]
    <3>1. i - (k - 1) \in 1..(Len(s) - k) /\ (i - (k - 1)) + k = i + 1
      BY <1>1
    <3>2. (a \o b)[i] = b[i - (k - 1)]
      BY <1>1, <2>1, <2>2
    <3> QED BY <2>2, <3>1, <3>2
  <2> QED BY <2>3, <2>4, <2>5, <2>6
<1>3. ASSUME Contains(s, v), v # s[k] PROVE Contains(RemoveAt(s, k), v)
  <2>1. PICK i \in 1..Len(s) : s[i] = v
    BY <1>3 DEF Contains
  <2>2. CASE i < k
    <3>1. i \in 1..(k - 1) /\ i \in 1..Len(RemoveAt(s, k))
      BY <1>1, <1>2, <2>2
    <3> QED BY <1>2, <2>1, <3>1 DEF Contains
  <2>3. CASE i > k
    <3>1. i - 1 \in k..(Len(s) - 1) /\ i - 1 \in 1..Len(RemoveAt(s, k)) /\ (i - 1) + 1 = i
      BY <1>1, <1>2, <2>3
    <3>2. RemoveAt(s, k)[i - 1] = v
      BY <1>2, <2>1, <3>1
    <3> QED BY <3>1, <3>2 DEF Contains
  <2> QED BY <1>1, <1>3, <2>1, <2>2, <2>3
<1>4. ASSUME Contains(RemoveAt(s, k), v) PROVE Contains(s, v)
  <2>1. PICK i \in 1..Len(RemoveAt(s, k)) : RemoveAt(s, k)[i] = v
    BY <1>4 DEF Contains
  <2>2. i < k \/ i >= k
    BY <1>1, <1>2
  <2>3. CASE i < k
    BY <2>1, <2>3, RemoveAtElements DEF Contains
  <2>4. CASE i >= k
    BY <2>1, <2>4, RemoveAtElements DEF Contains
  <2> QED BY <2>2, <2>3, <2>4
<1>5. v = s[k] => Contains(s, v)
  BY DEF Contains
<1> QED BY <1>2, <1>3, <1>4, <1>5

LEMMA EnqueuedContains ==
    ASSUME NEW rq \in [Prios -> Seq(Threads)], NEW p, NEW u \in Threads, NEW q \in Prios, NEW v
    PROVE  Contains(Enqueued(rq, p, u)[q], v) <=> Contains(rq[q], v) \/ (q = p /\ v = u)
<1>1. CASE q = p
  <2>1. Enqueued(rq, p, u)[q] = Append(rq[q], u) /\ rq[q] \in Seq(Threads)
    BY <1>1 DEF Enqueued
  <2> QED BY <1>1, <2>1, AppendContains
<1>2. CASE q # p
  BY <1>2 DEF Enqueued
<1> QED BY <1>1, <1>2

-----------------------------------------------------------------------------
(* SchedInv: what it says of one thread, and what keeps it.                *)

\* What SchedInv says of where threads are, and of what queues they are for.
Kept == CallersRun /\ SwitchOK /\ NobodyLost /\ NoJoiners
Ranked == PrioOK /\ QueuedAtItsPriority

Fresh == {"UT_NO_STATE", "UT_TRANSITION"}

SchedTypesAt ==
    /\ ut_prio \in [Threads -> Prios \cup {-1}]
    /\ sparg \in [Threads -> [thr : Threads \cup {NoThread}, prio : Prios, old : Prios \cup {-1}]]
    /\ tq_size \in [Prios -> Int]

LEMMA SchedTypesOf == TypeInv => SchedTypesAt
  BY DEF TypeInv, SyncTypeOK, SchedTypes, SchedTypesAt

LEMMA SchedTypesNext == TypeInv' => SchedTypesAt'
  BY DEF TypeInv, SyncTypeOK, SchedTypes, SchedTypesAt

LEMMA OnOrOff == \A t : OnNoLwp(t) <=> ~OnLwp(t)
  BY DEF OnNoLwp, OnLwp, Running

\* A thread that executes is neither fresh, nor queued, nor about to be woken;
\* if it waits it is in a switch.
LEMMA Executing ==
    ASSUME SchedInv, NEW l \in LWPs, NEW t \in Threads, Running(l, t)
    PROVE  /\ ut_state[t] \notin Fresh /\ ut_prio[t] \in Prios
           /\ \A p \in Prios : ~Contains(runq[p], t)
           /\ \A o \in Objs : ~Contains(waitq[o], t)
           /\ \A u \in Threads : wakee[u] # t
           /\ ~AtHead(t, {"switch"}) => ut_state[t] # "UT_WAIT" /\ swarg[t].queue = NoObj
           /\ ~AtHead(t, {"wake"}) => wakee[t] = NoThread
           /\ ~AtHead(t, {"setprio_write", "setprio_lock"}) => sparg[t].thr = NoThread
<1>0. PlaceInv /\ PlaceTypes /\ NoThread \notin Threads
  BY TypesOf DEF SchedInv, PlaceInv
<1>1. ~OnNoLwp(t)
  BY DEF OnNoLwp, Running
<1>2. ut_state[t] \notin Fresh /\ ut_prio[t] \in Prios
  BY <1>0 DEF PlaceInv, TypeInv, ThreadsExist, NewbornOK, Fresh, SchedInv, PrioOK
<1>3. \A p \in Prios : ~Contains(runq[p], t)
  BY <1>0, <1>1 DEF PlaceInv, RunqOK, Contains
<1>4. \A o \in Objs : ~Contains(waitq[o], t)
  BY <1>0, <1>1 DEF PlaceInv, WaitqOK, Contains
<1>5. \A u \in Threads : wakee[u] # t
  BY <1>0, <1>1 DEF PlaceInv, WakeeOK
<1>6. ASSUME ~AtHead(t, {"switch"})
      PROVE  ut_state[t] # "UT_WAIT" /\ swarg[t].queue = NoObj
  <2>1. swarg[t].queue = NoObj
    BY <1>0, <1>6 DEF PlaceInv, SleeperOK, AtHead
  <2>2. ~IsWaiting(t)
    BY <1>4, <1>5, <2>1 DEF IsWaiting
  <2> QED BY <2>1, <2>2 DEF SchedInv, NobodyLost
<1>7. /\ ~AtHead(t, {"wake"}) => wakee[t] = NoThread
      /\ ~AtHead(t, {"setprio_write", "setprio_lock"}) => sparg[t].thr = NoThread
  BY DEF SchedInv, CallersRun
<1> QED BY <1>2, <1>3, <1>4, <1>5, <1>6, <1>7

\* A step of t that leaves every LWP on its thread.
LEMMA KeptFrame ==
    ASSUME SchedInv, NEW l \in LWPs, NEW t \in Threads, Running(l, t), UNCHANGED curthr,
           \A v \in Threads : Queued(v) => Queued(v)',
           \A v \in Threads \ {t} :
              /\ \/ ut_state'[v] = ut_state[v]
                 \/ OnNoLwp(v) /\ (ut_state'[v] = "UT_TRANSITION" \/ (ut_state'[v] = "UT_RUNNABLE" /\ Queued(v)'))
              /\ swarg'[v] = swarg[v] /\ wakee'[v] = wakee[v] /\ sparg'[v] = sparg[v]
              /\ stack'[v] = stack[v] \/ (OnNoLwp(v) /\ ~AtHead(v, {"yield_lock", "switch"})')
              /\ ut_state'[v] = "UT_WAIT" /\ IsWaiting(v) => IsWaiting(v)',
           \A v \in Threads : waitq'[v] = <<>>, swarg'[t].queue \notin Threads,
           wakee'[t] # NoThread => AtHead(t, {"wake"})',
           sparg'[t].thr # NoThread => AtHead(t, {"setprio_write", "setprio_lock"})',
           AtHead(t, {"yield_lock"})' => ut_state'[t] = "UT_RUNNABLE",
           AtHead(t, {"switch"})' =>
              \/ swarg'[t].queue = NoObj /\ swarg'[t].saveonrq /\ ut_state'[t] = "UT_RUNNABLE"
              \/ swarg'[t].queue # NoObj /\ ut_state'[t] = "UT_WAIT",
           ut_state'[t] = "UT_WAIT" => swarg'[t].queue # NoObj
    PROVE  Kept'
<1>0. \A v : (OnLwp(v)' <=> OnLwp(v)) /\ (OnNoLwp(v) <=> ~OnLwp(v))
  BY OnOrOff DEF OnLwp, Running
<1>1. OnLwp(t)
  BY DEF OnLwp
<1>2. CallersRun'
  <2>1. SUFFICES ASSUME NEW v \in Threads
                 PROVE  /\ wakee'[v] # NoThread => OnLwp(v)' /\ AtHead(v, {"wake"})'
                        /\ sparg'[v].thr # NoThread =>
                              OnLwp(v)' /\ AtHead(v, {"setprio_write", "setprio_lock"})'
    BY DEF CallersRun
  <2>2. CASE v = t
    BY <1>0, <1>1, <2>2
  <2>3. CASE v # t
    BY <1>0, <2>3 DEF SchedInv, CallersRun, AtHead
  <2> QED BY <2>2, <2>3
<1>3. SwitchOK'
  <2>1. SUFFICES ASSUME NEW v \in Threads
                 PROVE  /\ AtHead(v, {"yield_lock"})' => OnLwp(v)' /\ ut_state'[v] = "UT_RUNNABLE"
                        /\ AtHead(v, {"switch"})' =>
                              /\ OnLwp(v)'
                              /\ \/ swarg'[v].queue = NoObj /\ swarg'[v].saveonrq /\ ut_state'[v] = "UT_RUNNABLE"
                                 \/ swarg'[v].queue # NoObj /\ ut_state'[v] = "UT_WAIT"
    BY DEF SwitchOK
  <2>2. CASE v = t
    BY <1>0, <1>1, <2>2
  <2>3. CASE v # t
    <3>1. CASE stack'[v] = stack[v]
      BY <1>0, <2>3, <3>1 DEF SchedInv, SwitchOK, AtHead
    <3>2. CASE ~AtHead(v, {"yield_lock", "switch"})'
      BY <3>2 DEF AtHead
    <3> QED BY <2>3, <3>1, <3>2
  <2> QED BY <2>2, <2>3
<1>4. NobodyLost'
  <2>1. SUFFICES ASSUME NEW v \in Threads
                 PROVE  /\ ut_state'[v] = "UT_ON_CPU" => OnLwp(v)'
                        /\ ut_state'[v] = "UT_RUNNABLE" => OnLwp(v)' \/ Queued(v)'
                        /\ ut_state'[v] = "UT_WAIT" => IsWaiting(v)'
    BY DEF NobodyLost
  <2>2. CASE v = t
    BY <1>0, <1>1, <2>2 DEF IsWaiting
  <2>3. CASE v # t /\ ut_state'[v] = ut_state[v]
    BY <1>0, <2>3 DEF SchedInv, NobodyLost
  <2>4. CASE v # t /\ ut_state'[v] # ut_state[v]
    BY <2>4
  <2> QED BY <2>2, <2>3, <2>4
<1>5. NoJoiners'
  BY DEF SchedInv, NoJoiners
<1> QED BY <1>2, <1>3, <1>4, <1>5 DEF Kept

\* The code that a return uncovers.
LEMMA PopHead ==
    ASSUME TypeInv, NEW t \in Threads, stack[t] # <<>>, Continue(t, <<>>)
    PROVE  ~AtHead(t, {"yield_lock", "switch", "wake", "setprio_write", "setprio_lock", "alloc_claim"})'
<1>1. stack'[t] = Tail(stack[t])
  BY AfterContinue
<1> DEFINE r == Tail(stack[t])
<1>2. r \in {<<>>, <<"nopreempt_off">>, <<"create_init">>, <<"cond_sleep">>, <<"cond_broadcast">>,
             <<"mtx_locked">>, <<"cond_relock">>, <<"mtx_locked", "nopreempt_off">>,
             <<"nopreempt_off", "cond_sleep">>} \cup Yielding
  <2>1. <<ut_no_preempt_count[t], Head(stack[t]), r>> \in Continuations
    BY RowOf
  <2> HIDE DEF r
  <2> QED BY <2>1 DEF Continuations
<1> HIDE DEF r
<1>3. \/ r = <<>>
      \/ Head(r) \in {"nopreempt_off", "create_init", "cond_sleep", "cond_broadcast", "mtx_locked",
                      "cond_relock", "wake_unlock"}
  BY <1>2, Literals DEF Yielding
<1> QED BY <1>1, <1>3 DEF AtHead, r

\* The code that a call or a jump to f uncovers.
LEMMA GoHead ==
    ASSUME TypeInv, NEW t \in Threads, NEW f \in AllLabels, NEW g \in AllLabels,
           \/ stack[t] # <<>> /\ (Continue(t, <<f>>) \/ Continue(t, <<f, g>>))
           \/ Push(t, <<f>>) \/ Push(t, <<f, g>>)
    PROVE  /\ \A labels : AtHead(t, labels)' <=> f \in labels
           /\ \A u \in Threads \ {t} : stack'[u] = stack[u]
<1>1. /\ stack'[t] # <<>> /\ Head(stack'[t]) = f
      /\ \A u \in Threads \ {t} : stack'[u] = stack[u]
  <2>1. CASE stack[t] # <<>> /\ Continue(t, <<f>>)
    BY <2>1, AfterContinue
  <2>2. CASE stack[t] # <<>> /\ Continue(t, <<f, g>>)
    BY <2>2, AfterContinue
  <2>3. CASE Push(t, <<f>>)
    BY <2>3, AfterPush
  <2>4. CASE Push(t, <<f, g>>)
    BY <2>4, AfterPush
  <2> QED BY <2>1, <2>2, <2>3, <2>4
<1> QED BY <1>1 DEF AtHead

\* A step of t that moves no thread, from code that keeps nothing.
LEMMA KeptQuiet ==
    ASSUME SchedInv, NEW l \in LWPs, NEW t \in Threads, Running(l, t),
           UNCHANGED <<curthr, ut_state, runq, waitq, wakee, swarg>>,
           \A v \in Threads \ {t} : stack'[v] = stack[v] /\ sparg'[v] = sparg[v],
           ~AtHead(t, {"switch", "wake"}), ~AtHead(t, {"yield_lock", "switch"})',
           sparg'[t].thr # NoThread => AtHead(t, {"setprio_write", "setprio_lock"})'
    PROVE  Kept'
<1>1. ut_state[t] # "UT_WAIT" /\ swarg[t].queue = NoObj /\ wakee[t] = NoThread
  BY Executing DEF AtHead
<1>2. \A v \in Threads : (Queued(v) => Queued(v)') /\ (IsWaiting(v) => IsWaiting(v)')
  BY DEF Queued, IsWaiting
<1>3. \A v \in Threads : waitq'[v] = <<>> /\ swarg'[v].queue \notin Threads
  BY DEF SchedInv, NoJoiners
<1>4. ~AtHead(t, {"yield_lock"})' /\ ~AtHead(t, {"switch"})'
  BY DEF AtHead
<1> QED BY <1>1, <1>2, <1>3, <1>4, KeptFrame

LEMMA PopKept ==
    ASSUME SchedInv, NEW l \in LWPs, NEW t \in Threads, Running(l, t),
           stack[t] # <<>>, Head(stack[t]) \notin {"switch", "wake", "setprio_write", "setprio_lock"},
           Continue(t, <<>>), UNCHANGED <<curthr, ut_state, runq, waitq, wakee, swarg, sparg>>
    PROVE  Kept'
<1>0. TypeInv
  BY DEF SchedInv, PlaceInv
<1>1. ~AtHead(t, {"switch", "wake"}) /\ sparg[t].thr = NoThread
  BY Executing DEF AtHead
<1>2. ~AtHead(t, {"yield_lock", "switch"})'
  BY <1>0, PopHead DEF AtHead
<1>3. \A v \in Threads \ {t} : stack'[v] = stack[v]
  BY <1>0, AfterContinue
<1> QED BY <1>1, <1>2, <1>3, KeptQuiet

LEMMA GoKept ==
    ASSUME SchedInv, NEW l \in LWPs, NEW t \in Threads, Running(l, t),
           NEW f \in AllLabels \ {"yield_lock", "switch"}, NEW g \in AllLabels,
           \/ stack[t] # <<>> /\ (Continue(t, <<f>>) \/ Continue(t, <<f, g>>))
           \/ Push(t, <<f>>) \/ Push(t, <<f, g>>),
           ~AtHead(t, {"switch", "wake"}),
           UNCHANGED <<curthr, ut_state, runq, waitq, wakee, swarg>>,
           \A v \in Threads \ {t} : sparg'[v] = sparg[v],
           sparg'[t].thr # NoThread => f \in {"setprio_write", "setprio_lock"}
    PROVE  Kept'
<1>0. TypeInv
  BY DEF SchedInv, PlaceInv
<1>1. /\ \A labels : AtHead(t, labels)' <=> f \in labels
      /\ \A u \in Threads \ {t} : stack'[u] = stack[u]
  BY <1>0, GoHead
<1>2. ~AtHead(t, {"yield_lock", "switch"})' /\ (f \in {"setprio_write", "setprio_lock"} =>
        AtHead(t, {"setprio_write", "setprio_lock"})')
  BY <1>1
<1> QED BY <1>1, <1>2, KeptQuiet

-----------------------------------------------------------------------------
(* Priorities.                                                             *)

LEMMA RankedFrame ==
    ASSUME Ranked, PlaceTypes, PlaceTypes',
           \A v \in Threads : ut_state'[v] \notin Fresh =>
              ut_prio'[v] \in Prios \/ (ut_state[v] \notin Fresh /\ ut_prio'[v] = ut_prio[v]),
           \A p \in Prios, v \in Threads : Contains(runq'[p], v) =>
              \/ ut_prio'[v] = p
              \/ \E w \in Threads : sparg'[w].thr = v
              \/ /\ Contains(runq[p], v) /\ ut_prio'[v] = ut_prio[v]
                 /\ \A w \in Threads : sparg[w].thr = v => sparg'[w].thr = v
    PROVE  Ranked'
<1>1. PrioOK'
  BY DEF Ranked, PrioOK, Fresh
<1>2. QueuedAtItsPriority'
  <2>1. SUFFICES ASSUME NEW p \in Prios, NEW i \in 1..Len(runq'[p])
                 PROVE  ut_prio'[runq'[p][i]] = p \/ \E w \in Threads : sparg'[w].thr = runq'[p][i]
    BY DEF QueuedAtItsPriority
  <2>2. PICK v \in Threads : v = runq'[p][i]
    BY <2>1 DEF PlaceTypes
  <2>3. Contains(runq'[p], v)
    BY <2>2 DEF Contains
  <2>4. CASE /\ Contains(runq[p], v) /\ ut_prio'[v] = ut_prio[v]
             /\ \A w \in Threads : sparg[w].thr = v => sparg'[w].thr = v
    <3>1. ut_prio[v] = p \/ \E w \in Threads : sparg[w].thr = v
      BY <2>4 DEF Ranked, QueuedAtItsPriority, Contains
    <3> QED BY <2>2, <2>4, <3>1
  <2> QED BY <2>2, <2>3, <2>4
<1> QED BY <1>1, <1>2 DEF Ranked

\* No thread is queued, no priority changes, no fresh thread starts.
LEMMA RankedCalm ==
    ASSUME Ranked, PlaceTypes, PlaceTypes', UNCHANGED <<ut_prio, sparg>>,
           \A p \in Prios, v \in Threads : Contains(runq'[p], v) => Contains(runq[p], v),
           \A v \in Threads : ut_state[v] \in Fresh => ut_state'[v] \in Fresh
    PROVE  Ranked'
  BY RankedFrame

-----------------------------------------------------------------------------
(* LWP l scans the queues rq.                                              *)

\* LWP l has taken a thread from rq, or none; the threads were in states st.
Scanned(l, rq, st) ==
    /\ \A k \in LWPs \ {l} : curthr'[k] = curthr[k]
    /\ curthr'[l] # NoThread =>
          /\ curthr'[l] \in Threads /\ ut_state'[curthr'[l]] = "UT_ON_CPU"
          /\ \E p \in Prios : Contains(rq[p], curthr'[l])
    /\ \A v \in Threads : v # curthr'[l] => ut_state'[v] = st[v]
    /\ \A v \in Threads, p \in Prios : Contains(rq[p], v) => Queued(v)' \/ v = curthr'[l]
    /\ \A v \in Threads, p \in Prios : Contains(runq'[p], v) => Contains(rq[p], v)

LEMMA DispatchKeeps ==
    ASSUME NEW l \in LWPs, NEW rq \in [Prios -> Seq(Threads)], NEW sz, NEW st \in [Threads -> UtStates], NEW lw,
           NoThread \notin Threads, curthr \in [LWPs -> Threads \cup {NoThread}],
           Dispatch(l, rq, sz, st, lw)
    PROVE  Scanned(l, rq, st)
<1>1. CASE PickThread(l, rq, sz, st, lw)
  <2>1. PICK p \in Prios :
          /\ rq[p] # <<>>
          /\ curthr' = [curthr EXCEPT ![l] = Head(rq[p])]
          /\ runq' = [rq EXCEPT ![p] = Tail(@)]
          /\ ut_state' = [st EXCEPT ![Head(rq[p])] = "UT_ON_CPU"]
    BY <1>1 DEF PickThread
  <2>2. PICK u \in Threads : u = Head(rq[p])
    BY <2>1
  <2>3. curthr'[l] = u /\ \A k \in LWPs \ {l} : curthr'[k] = curthr[k]
    BY <2>1, <2>2
  <2>4. ut_state'[u] = "UT_ON_CPU" /\ \A v \in Threads : v # u => ut_state'[v] = st[v]
    BY <2>1, <2>2
  <2>5. runq'[p] = Tail(rq[p]) /\ \A q \in Prios \ {p} : runq'[q] = rq[q]
    BY <2>1
  <2>6. ASSUME NEW v PROVE Contains(rq[p], v) <=> Contains(runq'[p], v) \/ v = u
    BY <2>1, <2>2, <2>5, TailContains
  <2>7. ASSUME NEW v \in Threads, NEW q \in Prios
        PROVE  /\ Contains(rq[q], v) => Contains(runq'[q], v) \/ v = u
               /\ Contains(runq'[q], v) => Contains(rq[q], v)
    BY <2>5, <2>6
  <2>8. Contains(rq[p], u)
    BY <2>6
  <2> QED BY <2>2, <2>3, <2>4, <2>7, <2>8 DEF Queued, Scanned
<1>2. CASE Park(l, rq, sz, st, lw) \/ BadQueue(l, rq, sz, st, lw)
  <2>1. curthr' = [curthr EXCEPT ![l] = NoThread] /\ runq' = rq /\ ut_state' = st
    BY <1>2 DEF Park, BadQueue
  <2> QED BY <2>1 DEF Queued, Scanned
<1> QED BY <1>1, <1>2 DEF Dispatch

\* The assertion of lwp_park fires when the queues are empty and no LWP runs.
LEMMA DispatchHalts ==
    ASSUME NEW l, NEW rq, NEW sz, NEW st, NEW lw, Dispatch(l, rq, sz, st, lw),
           halted # "lwp_park", halted' = "lwp_park"
    PROVE  RunqEmpty(runq') /\ Parked(lwp') = Started(lwp')
<1>1. Park(l, rq, sz, st, lw)
  BY DEF Dispatch, PickThread, BadQueue
<1> QED BY <1>1 DEF Park, RunqEmpty

\* A scan of the run queues by LWP l, which has left thread t if it had one.
LEMMA ScanKept ==
    ASSUME SchedInv, OneLwp', NEW l \in LWPs, NEW t, curthr[l] = t,
           NEW rq \in [Prios -> Seq(Threads)], NEW sz, NEW st \in [Threads -> UtStates], NEW lw,
           Dispatch(l, rq, sz, st, lw),
           \A v \in Threads \ {t} :
              /\ st[v] = ut_state[v] /\ swarg'[v] = swarg[v] /\ stack'[v] = stack[v]
              /\ IsWaiting(v) => IsWaiting(v)',
           UNCHANGED <<wakee, sparg>>,
           \A v \in Threads, p \in Prios : Contains(runq[p], v) => Contains(rq[p], v),
           t \in Threads =>
              /\ wakee[t] = NoThread /\ sparg[t].thr = NoThread
              /\ ~AtHead(t, {"yield_lock", "switch"})'
              /\ st[t] # "UT_ON_CPU"
              /\ st[t] = "UT_RUNNABLE" => \E p \in Prios : Contains(rq[p], t)
              /\ st[t] = "UT_WAIT" => IsWaiting(t)',
           \A v \in Threads : waitq'[v] = <<>> /\ swarg'[v].queue \notin Threads
    PROVE  Kept'
<1>0. PlaceTypes /\ NoThread \notin Threads
  BY TypesOf DEF SchedInv, PlaceInv
<1>1. /\ \A k \in LWPs \ {l} : curthr'[k] = curthr[k]
      /\ curthr'[l] # NoThread => curthr'[l] \in Threads /\ ut_state'[curthr'[l]] = "UT_ON_CPU"
      /\ \A v \in Threads : v # curthr'[l] => ut_state'[v] = st[v]
      /\ \A v \in Threads, p \in Prios : Contains(rq[p], v) => Queued(v)' \/ v = curthr'[l]
  <2>1. curthr \in [LWPs -> Threads \cup {NoThread}]
    BY <1>0 DEF PlaceTypes
  <2>2. Scanned(l, rq, st)
    BY <1>0, <2>1, DispatchKeeps
  <2> QED BY <2>2 DEF Scanned
<1>2. ASSUME NEW v \in Threads \ {t}, OnLwp(v)
      PROVE  OnLwp(v)' /\ ut_state'[v] = ut_state[v]
  <2>1. PICK k \in LWPs \ {l} : curthr[k] = v
    BY <1>2 DEF OnLwp, Running
  <2>2. curthr'[k] = v /\ v # curthr'[l]
    BY <1>0, <1>1, <2>1 DEF OneLwp
  <2> QED BY <1>1, <2>1, <2>2 DEF OnLwp, Running
<1>3. CallersRun'
  <2>1. SUFFICES ASSUME NEW v \in Threads
                 PROVE  /\ wakee'[v] # NoThread => OnLwp(v)' /\ AtHead(v, {"wake"})'
                        /\ sparg'[v].thr # NoThread =>
                              OnLwp(v)' /\ AtHead(v, {"setprio_write", "setprio_lock"})'
    BY DEF CallersRun
  <2>2. CASE v = t
    BY <2>2
  <2>3. CASE v # t
    BY <1>2, <2>3 DEF SchedInv, CallersRun, AtHead
  <2> QED BY <2>2, <2>3
<1>4. SwitchOK'
  <2>1. SUFFICES ASSUME NEW v \in Threads
                 PROVE  /\ AtHead(v, {"yield_lock"})' => OnLwp(v)' /\ ut_state'[v] = "UT_RUNNABLE"
                        /\ AtHead(v, {"switch"})' =>
                              /\ OnLwp(v)'
                              /\ \/ swarg'[v].queue = NoObj /\ swarg'[v].saveonrq /\ ut_state'[v] = "UT_RUNNABLE"
                                 \/ swarg'[v].queue # NoObj /\ ut_state'[v] = "UT_WAIT"
    BY DEF SwitchOK
  <2>2. CASE v = t
    BY <2>2 DEF AtHead
  <2>3. CASE v # t
    BY <1>2, <2>3 DEF SchedInv, SwitchOK, AtHead
  <2> QED BY <2>2, <2>3
<1>5. NobodyLost'
  <2>1. SUFFICES ASSUME NEW v \in Threads
                 PROVE  /\ ut_state'[v] = "UT_ON_CPU" => OnLwp(v)'
                        /\ ut_state'[v] = "UT_RUNNABLE" => OnLwp(v)' \/ Queued(v)'
                        /\ ut_state'[v] = "UT_WAIT" => IsWaiting(v)'
    BY DEF NobodyLost
  <2>2. CASE v = curthr'[l]
    BY <1>0, <1>1, <2>2 DEF OnLwp, Running
  <2>3. CASE v # curthr'[l] /\ v = t
    BY <1>1, <2>3
  <2>4. CASE v # curthr'[l] /\ v # t
    <3>1. ut_state'[v] = ut_state[v]
      BY <1>1, <2>4
    <3>2. ut_state[v] = "UT_ON_CPU" => OnLwp(v)'
      BY <1>2, <2>4 DEF SchedInv, NobodyLost
    <3>3. ut_state[v] = "UT_RUNNABLE" => OnLwp(v)' \/ Queued(v)'
      <4>1. Queued(v) => Queued(v)'
        BY <1>1, <2>4 DEF Queued
      <4> QED BY <1>2, <2>4, <4>1 DEF SchedInv, NobodyLost
    <3>4. ut_state[v] = "UT_WAIT" => IsWaiting(v)'
      BY <2>4 DEF SchedInv, NobodyLost
    <3> QED BY <3>1, <3>2, <3>3, <3>4
  <2> QED BY <2>2, <2>3, <2>4
<1>6. NoJoiners'
  BY DEF NoJoiners
<1> QED BY <1>3, <1>4, <1>5, <1>6 DEF Kept

\* An LWP on its own stack.
LEMMA LwpSched ==
    ASSUME SchedInv, PlaceInv', NEW l \in LWPs, LwpStep(l)
    PROVE  Kept' /\ Ranked'
<1>0. PlaceInv /\ TypeInv /\ PlaceTypes /\ PlaceTypes' /\ NoThread \notin Threads
  BY TypesOf, TypesNext DEF SchedInv, PlaceInv
<1>1. CASE UNCHANGED <<curthr, ut_state, ut_prio, runq, waitq, stack, swarg, wakee, sparg>>
  BY <1>1 DEF SchedInv, Kept, CallersRun, SwitchOK, NobodyLost, NoJoiners, Ranked, PrioOK, QueuedAtItsPriority,
              OnLwp, Running, AtHead, IsWaiting, Queued
<1>2. CASE /\ LwpStart(l) \/ Unpark(l)
           /\ Dispatch(l, runq, tq_size, ut_state, lwp)
           /\ UNCHANGED <<ut_prio, waitq, stack, swarg, wakee, sparg>>
  <2>1. curthr[l] = NoThread
    BY <1>0, <1>2 DEF PlaceInv, LwpOK, LwpStart, Unpark
  <2>2. /\ curthr \in [LWPs -> Threads \cup {NoThread}] /\ runq \in [Prios -> Seq(Threads)]
        /\ ut_state \in [Threads -> UtStates]
    BY <1>0 DEF PlaceTypes
  <2>3. \A v \in Threads : IsWaiting(v) => IsWaiting(v)'
    BY <1>2 DEF IsWaiting
  <2>4. \A v \in Threads : waitq'[v] = <<>> /\ swarg'[v].queue \notin Threads
    BY <1>2 DEF SchedInv, NoJoiners
  <2>5. Kept'
    BY <1>0, <1>2, <2>1, <2>2, <2>3, <2>4, ScanKept DEF PlaceInv
  <2>6. /\ curthr'[l] # NoThread => curthr'[l] \in Threads /\ \E p \in Prios : Contains(runq[p], curthr'[l])
        /\ \A v \in Threads : v # curthr'[l] => ut_state'[v] = ut_state[v]
        /\ \A v \in Threads, p \in Prios : Contains(runq'[p], v) => Contains(runq[p], v)
    <3>1. Scanned(l, runq, ut_state)
      BY <1>0, <1>2, <2>2, DispatchKeeps
    <3> QED BY <3>1 DEF Scanned
  <2>7. \A v \in Threads : ut_state[v] \in Fresh => ut_state'[v] \in Fresh
    <3>1. \A v \in Threads, p \in Prios : Contains(runq[p], v) => ut_state[v] \notin Fresh
      BY <1>0 DEF PlaceInv, RunqOK, Contains, Fresh
    <3> QED BY <1>0, <2>6, <3>1
  <2> QED BY <1>0, <1>2, <2>5, <2>6, <2>7, RankedCalm DEF SchedInv, Ranked
<1>3. \/ UNCHANGED <<curthr, ut_state, ut_prio, runq, waitq, stack, swarg, wakee, sparg>>
      \/ /\ LwpStart(l) \/ Unpark(l)
         /\ Dispatch(l, runq, tq_size, ut_state, lwp)
         /\ UNCHANGED <<ut_prio, waitq, stack, swarg, wakee, sparg>>
  BY DEF LwpStep, LwpStart, Unpark, SpuriousWakeup, thrVars, runqVars, waitVars, argVars
<1> QED BY <1>1, <1>2, <1>3

\* Thread t leaves its stack for a queue.
LEMMA SwitchSched ==
    ASSUME SchedInv, PlaceInv', NEW l \in LWPs, NEW t \in Threads, Switch(l, t)
    PROVE  Kept' /\ Ranked'
<1> DEFINE a == swarg[t]
           save == a.saveonrq /\ a.queue = NoObj
           rq == IF save THEN Enqueued(runq, ut_prio[t], t) ELSE runq
           sz == IF save THEN SizeUp(tq_size, ut_prio[t]) ELSE tq_size
           st == IF save THEN [ut_state EXCEPT ![t] = "UT_RUNNABLE"] ELSE ut_state
<1>0. /\ PlaceInv /\ TypeInv /\ PlaceTypes /\ PlaceTypes' /\ NoThread \notin Threads /\ NoObj \notin Objs
  BY TypesOf, TypesNext DEF SchedInv, PlaceInv
<1>1. /\ Running(l, t) /\ AtHead(t, {"switch"}) /\ curthr[l] = t /\ stack[t] # <<>>
      /\ swarg' = [swarg EXCEPT ![t] = NoSwitch] /\ Continue(t, <<>>)
      /\ waitq' = IF a.queue = NoObj THEN waitq ELSE [waitq EXCEPT ![a.queue] = Append(@, t)]
  BY DEF Switch, At, AtHead, Running
<1>2. UNCHANGED <<ut_prio, wakee, sparg>>
  BY DEF Switch
<1>3. \E lw : Dispatch(l, rq, sz, st, lw)
  BY DEF Switch
<1>4. /\ ut_prio[t] \in Prios /\ wakee[t] = NoThread /\ sparg[t].thr = NoThread
      /\ ut_state[t] \notin Fresh
  BY <1>1, Executing DEF AtHead
<1>5. /\ ~AtHead(t, {"yield_lock", "switch"})'
      /\ \A v \in Threads \ {t} : stack'[v] = stack[v]
  BY <1>0, <1>1, PopHead, AfterContinue DEF AtHead
<1>6. /\ rq \in [Prios -> Seq(Threads)] /\ st \in [Threads -> UtStates]
      /\ \A v \in Threads \ {t} : st[v] = ut_state[v]
      /\ st[t] \in {"UT_RUNNABLE", ut_state[t]} /\ (~save => st[t] = ut_state[t])
  <2>1. TypeInv /\ tq_size \in [Prios -> Int] /\ runq \in [Prios -> Seq(Threads)]
    BY <1>0, SchedTypesOf DEF SchedTypesAt, PlaceTypes
  <2>2. rq \in [Prios -> Seq(Threads)]
    BY <2>1, EnqueuedType
  <2> QED BY <1>0, <2>2 DEF PlaceTypes, UtStates
<1>7. \A v \in Threads, p \in Prios :
         Contains(rq[p], v) <=> Contains(runq[p], v) \/ (save /\ p = ut_prio[t] /\ v = t)
  <2>1. runq \in [Prios -> Seq(Threads)]
    BY <1>0 DEF PlaceTypes
  <2>2. CASE save
    <3>1. rq = Enqueued(runq, ut_prio[t], t)
      BY <2>2
    <3> HIDE DEF rq, save
    <3>2. \A p \in Prios : \A v : Contains(rq[p], v) <=> Contains(runq[p], v) \/ (p = ut_prio[t] /\ v = t)
      BY <2>1, <3>1, EnqueuedContains
    <3> QED BY <2>2, <3>2
  <2>3. CASE ~save
    <3>1. rq = runq
      BY <2>3
    <3> HIDE DEF rq, save
    <3> QED BY <2>3, <3>1
  <2> QED BY <2>2, <2>3
<1>8. /\ \/ a.queue = NoObj /\ save /\ ut_state[t] = "UT_RUNNABLE"
         \/ a.queue # NoObj /\ ~save /\ ut_state[t] = "UT_WAIT"
      /\ a.queue \notin Threads
  BY <1>1 DEF SchedInv, SwitchOK, NoJoiners
<1>9. /\ \A v \in Threads \ {t} : swarg'[v] = swarg[v] /\ (IsWaiting(v) => IsWaiting(v)')
      /\ a.queue # NoObj => IsWaiting(t)'
  <2>1. \A v \in Threads, o \in Objs :
           Contains(waitq'[o], v) <=> Contains(waitq[o], v) \/ (a.queue = o /\ v = t)
    <3>1. SUFFICES ASSUME NEW v \in Threads, NEW o \in Objs
                   PROVE Contains(waitq'[o], v) <=> Contains(waitq[o], v) \/ (a.queue = o /\ v = t)
      OBVIOUS
    <3>2. waitq[o] \in Seq(Threads)
      BY <1>0 DEF PlaceTypes
    <3>3. CASE a.queue = o
      <4>1. waitq'[o] = Append(waitq[o], t)
        BY <1>0, <1>1, <3>3 DEF PlaceTypes
      <4> QED BY <3>2, <3>3, <4>1, AppendContains
    <3>4. CASE a.queue # o
      <4>1. waitq'[o] = waitq[o]
        BY <1>0, <1>1, <3>4 DEF PlaceTypes
      <4> QED BY <3>4, <4>1
    <3> QED BY <3>3, <3>4
  <2>2. \A v \in Threads \ {t} : swarg'[v] = swarg[v]
    BY <1>0, <1>1 DEF PlaceTypes
  <2>3. a.queue \in Objs \cup {NoObj}
    BY <1>0 DEF PlaceTypes
  <2> HIDE DEF a
  <2> QED BY <1>2, <2>1, <2>2, <2>3 DEF IsWaiting
<1>10. \A v \in Threads : waitq'[v] = <<>> /\ swarg'[v].queue \notin Threads
  <2>1. \A v \in Threads : v \in Objs /\ waitq[v] = <<>> /\ swarg[v].queue \notin Threads
    BY DEF SchedInv, NoJoiners, Objs
  <2>2. NoSwitch.queue \notin Threads
    BY <1>0 DEF NoSwitch, Objs
  <2> QED BY <1>0, <1>1, <1>8, <2>1, <2>2 DEF PlaceTypes
<1> HIDE DEF rq, sz, st, save, a
<1>11. Kept'
  <2>1. PICK lw : Dispatch(l, rq, sz, st, lw)
    BY <1>3
  <2>2. st[t] # "UT_ON_CPU"
    BY <1>6, <1>8
  <2>3. st[t] = "UT_RUNNABLE" => \E p \in Prios : Contains(rq[p], t)
    <3>1. save => Contains(rq[ut_prio[t]], t)
      BY <1>4, <1>7
    <3>2. st[t] = "UT_RUNNABLE" => save
      BY <1>6, <1>8
    <3> QED BY <1>4, <3>1, <3>2
  <2>4. st[t] = "UT_WAIT" => IsWaiting(t)'
    BY <1>6, <1>8, <1>9
  <2>5. \A v \in Threads, p \in Prios : Contains(runq[p], v) => Contains(rq[p], v)
    BY <1>7
  <2>6. \A v \in Threads \ {t} :
           /\ st[v] = ut_state[v] /\ swarg'[v] = swarg[v] /\ stack'[v] = stack[v]
           /\ IsWaiting(v) => IsWaiting(v)'
    BY <1>5, <1>6, <1>9
  <2>7. UNCHANGED <<wakee, sparg>> /\ OneLwp'
    BY <1>2 DEF PlaceInv
  <2> QED BY <1>1, <1>4, <1>5, <1>6, <1>10, <2>1, <2>2, <2>3, <2>4, <2>5, <2>6, <2>7, ScanKept
<1>12. Ranked'
  <2>0. curthr \in [LWPs -> Threads \cup {NoThread}]
    BY <1>0 DEF PlaceTypes
  <2>1. /\ curthr'[l] # NoThread => curthr'[l] \in Threads /\ \E p \in Prios : Contains(rq[p], curthr'[l])
        /\ \A v \in Threads : v # curthr'[l] => ut_state'[v] = st[v]
        /\ \A v \in Threads, p \in Prios : Contains(runq'[p], v) => Contains(rq[p], v)
    <3>1. Scanned(l, rq, st)
      BY <1>0, <1>3, <1>6, <2>0, DispatchKeeps
    <3> QED BY <3>1 DEF Scanned
  <2>2. \A v \in Threads, p \in Prios : Contains(rq[p], v) => ut_state[v] \notin Fresh
    <3>1. \A v \in Threads, p \in Prios : Contains(runq[p], v) => ut_state[v] \notin Fresh
      BY <1>0 DEF PlaceInv, RunqOK, Contains, Fresh
    <3> QED BY <1>4, <1>7, <3>1
  <2>3. \A v \in Threads : ut_state[v] \in Fresh => ut_state'[v] \in Fresh
    BY <1>0, <1>4, <1>6, <2>1, <2>2
  <2>4. \A p \in Prios, v \in Threads : Contains(runq'[p], v) =>
           Contains(runq[p], v) \/ ut_prio'[v] = p
    BY <1>2, <1>7, <2>1
  <2> QED BY <1>0, <1>2, <2>3, <2>4, RankedFrame DEF SchedInv, Ranked
<1> QED BY <1>11, <1>12

-----------------------------------------------------------------------------
(* What threads do inside the library.                                     *)

LEMMA PopSched ==
    ASSUME SchedInv, PlaceInv', NEW l \in LWPs, NEW t \in Threads,
           Return(l, t) \/ WakeUnlock(l, t) \/ AllocStackFails(l, t)
    PROVE  Kept' /\ Ranked'
<1>0. PlaceTypes /\ PlaceTypes'
  BY TypesOf, TypesNext DEF SchedInv, PlaceInv
<1>1. /\ Running(l, t) /\ stack[t] # <<>>
      /\ Head(stack[t]) \in {"nopreempt_off", "wake_unlock", "create_init"}
      /\ Continue(t, <<>>)
      /\ UNCHANGED <<curthr, ut_state, ut_prio, runq, waitq, wakee, swarg, sparg>>
  BY DEF Return, WakeUnlock, AllocStackFails, At, cpuVars, thrVars, runqVars, waitVars, argVars
<1>2. Kept'
  BY <1>1, PopKept
<1>3. Ranked'
  BY <1>0, <1>1, RankedCalm DEF SchedInv, Ranked
<1> QED BY <1>2, <1>3

LEMMA AbortSched ==
    ASSUME SchedInv, NEW l \in LWPs, NEW t \in Threads, SwitchAborts(l, t)
    PROVE  Kept' /\ Ranked'
<1>1. UNCHANGED <<curthr, ut_state, ut_prio, runq, waitq, stack, wakee, swarg, sparg>>
  BY DEF SwitchAborts, cpuVars, thrVars, runqVars, waitVars, argVars
<1> QED BY <1>1 DEF SchedInv, Kept, CallersRun, SwitchOK, NobodyLost, NoJoiners, Ranked, PrioOK, QueuedAtItsPriority,
                OnLwp, Running, AtHead, IsWaiting, Queued

\* uthread_yield, and the clock.
LEMMA YieldSched ==
    ASSUME SchedInv, PlaceInv', NEW l \in LWPs, NEW t \in Threads,
           UthreadYield(l, t) \/ ClockInterrupt(l, t)
    PROVE  Kept' /\ Ranked'
<1>0. TypeInv /\ PlaceTypes /\ PlaceTypes'
  BY TypesOf, TypesNext DEF SchedInv, PlaceInv
<1>1. /\ Running(l, t) /\ Push(t, <<"yield_lock", "nopreempt_off">>)
      /\ ut_state' = [ut_state EXCEPT ![t] = "UT_RUNNABLE"]
      /\ UNCHANGED <<curthr, ut_prio, runq, waitq, wakee, swarg, sparg>>
  BY DEF UthreadYield, ClockInterrupt, InClient, Running, YieldEnter, YieldFrames, cpuVars, runqVars, waitVars, argVars
<1>2. ~AtHead(t, {"switch", "wake", "setprio_write", "setprio_lock"})
  <2>1. CASE UthreadYield(l, t)
    BY <2>1 DEF UthreadYield, InClient, AtHead
  <2>2. CASE ClockInterrupt(l, t)
    <3>1. stack[t] # <<>> => Head(stack[t]) \notin {"switch", "wake", "setprio_write", "setprio_lock"}
      <4>1. SUFFICES ASSUME stack[t] # <<>>
                     PROVE  Head(stack[t]) \notin {"switch", "wake", "setprio_write", "setprio_lock"}
        OBVIOUS
      <4>2. <<ut_no_preempt_count[t], Head(stack[t]), Tail(stack[t])>> \in Continuations
        BY <1>0, <4>1, RowOf
      <4>3. ut_no_preempt_count[t] = 0
        BY <2>2 DEF ClockInterrupt
      <4> QED BY <4>2, <4>3, Rows
    <3> QED BY <3>1 DEF AtHead
  <2> QED BY <2>1, <2>2
<1>3. /\ swarg[t].queue = NoObj /\ wakee[t] = NoThread /\ sparg[t].thr = NoThread /\ ut_state[t] \notin Fresh
  BY <1>1, <1>2, Executing DEF AtHead
<1>4. /\ ut_state'[t] = "UT_RUNNABLE" /\ \A v \in Threads \ {t} : ut_state'[v] = ut_state[v]
  BY <1>0, <1>1 DEF PlaceTypes
<1>5. /\ ~AtHead(t, {"switch"})' /\ \A v \in Threads \ {t} : stack'[v] = stack[v]
  BY <1>0, <1>1, GoHead, LabelNames
<1>6. \A v \in Threads : (Queued(v) => Queued(v)') /\ (IsWaiting(v) => IsWaiting(v)')
  BY <1>1 DEF Queued, IsWaiting
<1>7. \A v \in Threads : waitq'[v] = <<>> /\ swarg'[v].queue \notin Threads
  BY <1>1 DEF SchedInv, NoJoiners
<1>8. Kept'
  BY <1>1, <1>3, <1>4, <1>5, <1>6, <1>7, KeptFrame
<1>9. Ranked'
  BY <1>0, <1>1, <1>3, <1>4, RankedCalm DEF SchedInv, Ranked
<1> QED BY <1>8, <1>9

LEMMA YieldLockSched ==
    ASSUME SchedInv, PlaceInv', NEW l \in LWPs, NEW t \in Threads, YieldLock(l, t)
    PROVE  Kept' /\ Ranked'
<1>0. TypeInv /\ PlaceTypes /\ PlaceTypes' /\ NoObj \notin Objs
  BY TypesOf, TypesNext DEF SchedInv, PlaceInv
<1>1. /\ Running(l, t) /\ AtHead(t, {"yield_lock"}) /\ stack[t] # <<>> /\ Continue(t, <<"switch">>)
      /\ swarg' = [swarg EXCEPT ![t] = [queue |-> NoObj, saveonrq |-> TRUE, pmut |-> t]]
      /\ UNCHANGED <<curthr, ut_state, ut_prio, runq, waitq, wakee, sparg>>
  BY DEF YieldLock, At, AtHead, cpuVars, thrVars, runqVars
<1>2. wakee[t] = NoThread /\ sparg[t].thr = NoThread /\ swarg[t].queue = NoObj
  BY <1>1, Executing DEF AtHead
<1>3. ut_state[t] = "UT_RUNNABLE"
  BY <1>1 DEF SchedInv, SwitchOK
<1>4. /\ swarg'[t].queue = NoObj /\ swarg'[t].saveonrq
      /\ \A v \in Threads \ {t} : swarg'[v] = swarg[v]
  BY <1>0, <1>1 DEF PlaceTypes
<1>5. ~AtHead(t, {"yield_lock"})' /\ \A v \in Threads \ {t} : stack'[v] = stack[v]
  BY <1>0, <1>1, GoHead, LabelNames
<1>6. \A v \in Threads : (Queued(v) => Queued(v)') /\ (v # t /\ IsWaiting(v) => IsWaiting(v)')
  BY <1>1, <1>4 DEF Queued, IsWaiting
<1>7. \A v \in Threads : waitq'[v] = <<>> /\ swarg'[v].queue \notin Threads
  <2>1. NoObj \notin Threads
    BY <1>0 DEF Objs
  <2> QED BY <1>1, <1>4, <2>1 DEF SchedInv, NoJoiners
<1>8. Kept'
  BY <1>1, <1>2, <1>3, <1>4, <1>5, <1>6, <1>7, KeptFrame
<1>9. Ranked'
  BY <1>0, <1>1, RankedCalm DEF SchedInv, Ranked
<1> QED BY <1>8, <1>9

\* A thread falls asleep, and its switch is to queue it on o.
LEMMA SleepSched ==
    ASSUME SchedInv, PlaceInv', NEW l \in LWPs, NEW t \in Threads, Running(l, t), stack[t] # <<>>,
           Head(stack[t]) \in {"mtx_lock", "cond_sleep"},
           NEW o \in SyncObjs, NEW a, swarg' = [swarg EXCEPT ![t] = a], a.queue = o,
           ut_state' = [ut_state EXCEPT ![t] = "UT_WAIT"],
           NEW g \in AllLabels, Continue(t, <<"switch", g>>),
           UNCHANGED <<curthr, ut_prio, runq, waitq, wakee, sparg>>
    PROVE  Kept' /\ Ranked'
<1>0. TypeInv /\ PlaceTypes /\ PlaceTypes' /\ NoObj \notin Objs
  BY TypesOf, TypesNext DEF SchedInv, PlaceInv
<1>1. wakee[t] = NoThread /\ sparg[t].thr = NoThread /\ ut_state[t] \notin Fresh
  BY Executing DEF AtHead
<1>2. /\ swarg'[t].queue = o /\ o # NoObj /\ o \notin Threads
      /\ \A v \in Threads \ {t} : swarg'[v] = swarg[v]
  BY <1>0, SchedAssumption DEF PlaceTypes, Objs
<1>3. ut_state'[t] = "UT_WAIT" /\ \A v \in Threads \ {t} : ut_state'[v] = ut_state[v]
  BY <1>0 DEF PlaceTypes
<1>4. ~AtHead(t, {"yield_lock"})' /\ \A v \in Threads \ {t} : stack'[v] = stack[v]
  <2>1. "switch" \in AllLabels
    BY LabelNames
  <2> QED BY <1>0, <2>1, GoHead
<1>5. \A v \in Threads : (Queued(v) => Queued(v)') /\ (v # t /\ IsWaiting(v) => IsWaiting(v)')
  BY <1>2 DEF Queued, IsWaiting
<1>6. \A v \in Threads : waitq'[v] = <<>> /\ swarg'[v].queue \notin Threads
  BY <1>2 DEF SchedInv, NoJoiners
<1>7. Kept'
  BY <1>1, <1>2, <1>3, <1>4, <1>5, <1>6, KeptFrame
<1>8. Ranked'
  BY <1>0, <1>1, <1>3, RankedCalm DEF SchedInv, Ranked
<1> QED BY <1>7, <1>8

-----------------------------------------------------------------------------
(* uthread_create.                                                         *)

LEMMA AllocSched ==
    ASSUME SchedInv, PlaceInv', NEW l \in LWPs, NEW t \in Threads, AllocClaim(l, t) \/ CreateInit(l, t)
    PROVE  Kept' /\ Ranked'
<1>0. TypeInv /\ PlaceInv /\ PlaceTypes /\ PlaceTypes' /\ NoThread \notin Threads
  BY TypesOf, TypesNext DEF SchedInv, PlaceInv
<1>1. /\ Running(l, t) /\ stack[t] # <<>> /\ Head(stack[t]) \in {"alloc_claim", "create_init"}
      /\ UNCHANGED <<curthr, runq, wakee, swarg, sparg>>
  BY DEF AllocClaim, CreateInit, At, cpuVars, thrVars, runqVars, argVars
<1>2. PICK u \in Threads \ {t} : u = newthr[t]
  BY <1>0, <1>1, Newborn
<1>3. OnNoLwp(u) /\ ut_state[u] \in Fresh
  BY <1>0, <1>1, <1>2, Newborn DEF Fresh
<1>4. /\ wakee[t] = NoThread /\ sparg[t].thr = NoThread /\ swarg[t].queue = NoObj
      /\ ut_state[t] # "UT_WAIT" /\ ut_state[t] \notin Fresh
  BY <1>1, Executing DEF AtHead
<1>5. \A p \in Prios : ~Contains(runq[p], u)
  BY <1>0, <1>3 DEF PlaceInv, RunqOK, Contains, Fresh
<1>6. CASE AllocClaim(l, t)
  <2>1. /\ ut_state' = [ut_state EXCEPT ![u] = "UT_TRANSITION"] /\ Continue(t, <<"create_init">>)
        /\ UNCHANGED <<waitq, ut_prio>>
    BY <1>2, <1>6 DEF AllocClaim, waitVars
  <2>2. ut_state'[u] = "UT_TRANSITION" /\ \A v \in Threads \ {u} : ut_state'[v] = ut_state[v]
    BY <1>0, <2>1 DEF PlaceTypes
  <2>3. /\ ~AtHead(t, {"yield_lock"})' /\ ~AtHead(t, {"switch"})'
        /\ \A v \in Threads \ {t} : stack'[v] = stack[v]
    BY <1>0, <1>1, <2>1, GoHead, LabelNames
  <2>4. \A v \in Threads : (Queued(v) => Queued(v)') /\ (IsWaiting(v) => IsWaiting(v)')
    BY <1>1, <2>1 DEF Queued, IsWaiting
  <2>5. \A v \in Threads : waitq'[v] = <<>> /\ swarg'[v].queue \notin Threads
    BY <1>1, <2>1 DEF SchedInv, NoJoiners
  <2>6. Kept'
    BY <1>1, <1>3, <1>4, <2>2, <2>3, <2>4, <2>5, KeptFrame
  <2>7. \A v \in Threads : ut_state[v] \in Fresh => ut_state'[v] \in Fresh
    BY <2>2 DEF Fresh
  <2>8. Ranked'
    BY <1>0, <1>1, <2>1, <2>7, RankedCalm DEF SchedInv, Ranked
  <2> QED BY <2>6, <2>8
<1>7. CASE CreateInit(l, t)
  <2>1. /\ ut_prio' = [ut_prio EXCEPT ![u] = -1]
        /\ waitq' = [waitq EXCEPT ![u] = <<>>]
        /\ stack' = [stack EXCEPT ![u] = <<"nopreempt_off">>, ![t] = <<"startonrunq">> \o Tail(@)]
        /\ UNCHANGED ut_state
    BY <1>2, <1>7 DEF CreateInit
  <2>2. waitq' = waitq
    BY <1>0, <2>1 DEF SchedInv, NoJoiners, PlaceTypes
  <2>3. /\ stack'[u] = <<"nopreempt_off">> /\ stack'[t] = <<"startonrunq">> \o Tail(stack[t])
        /\ \A v \in Threads \ {t} : v # u => stack'[v] = stack[v]
    BY <1>0, <2>1 DEF PlaceTypes
  <2>4. ~AtHead(u, {"yield_lock", "switch"})'
    BY <2>3, Literals DEF AtHead
  <2>5. ~AtHead(t, {"yield_lock"})' /\ ~AtHead(t, {"switch"})'
    <3>1. Tail(stack[t]) \in Seq(AllLabels) /\ "startonrunq" \in AllLabels
      BY <1>0, <1>1, RowOf, LabelNames
    <3>2. Head(stack'[t]) = "startonrunq"
      BY <2>3, <3>1, ConsProperties
    <3> QED BY <3>2 DEF AtHead
  <2>6. \A v \in Threads : (Queued(v) => Queued(v)') /\ (IsWaiting(v) => IsWaiting(v)')
    BY <1>1, <2>2 DEF Queued, IsWaiting
  <2>7. \A v \in Threads : waitq'[v] = <<>> /\ swarg'[v].queue \notin Threads
    BY <1>1, <2>2 DEF SchedInv, NoJoiners
  <2>8. \A v \in Threads \ {t} : stack'[v] = stack[v] \/ (OnNoLwp(v) /\ ~AtHead(v, {"yield_lock", "switch"})')
    BY <1>3, <2>3, <2>4
  <2>9. Kept'
    BY <1>1, <1>3, <1>4, <2>1, <2>5, <2>6, <2>7, <2>8, KeptFrame
  <2>10. \A v \in Threads \ {u} : ut_prio'[v] = ut_prio[v]
    BY <1>0, <2>1, SchedTypesOf DEF SchedTypesAt
  <2>11. \A v \in Threads : ut_state'[v] \notin Fresh => ut_state[v] \notin Fresh /\ ut_prio'[v] = ut_prio[v]
    BY <1>3, <2>1, <2>10
  <2>12. \A p \in Prios, v \in Threads : Contains(runq'[p], v) => Contains(runq[p], v) /\ ut_prio'[v] = ut_prio[v]
    BY <1>1, <1>5, <2>10
  <2>13. Ranked'
    BY <1>0, <1>1, <2>11, <2>12, RankedFrame DEF SchedInv, Ranked
  <2> QED BY <2>9, <2>13
<1> QED BY <1>6, <1>7

\* Thread u, which is on no queue, becomes runnable at priority p.
LEMMA QueuedSched ==
    ASSUME SchedInv, PlaceInv', NEW l \in LWPs, NEW t \in Threads, Running(l, t), stack[t] # <<>>,
           Head(stack[t]) \in {"wake", "startonrunq"},
           NEW u \in Threads \ {t}, OnNoLwp(u), ut_state[u] # "UT_RUNNABLE", NEW p \in Prios,
           runq' = Enqueued(runq, p, u), ut_state' = [ut_state EXCEPT ![u] = "UT_RUNNABLE"],
           ut_prio' = [ut_prio EXCEPT ![u] = p],
           wakee' = [wakee EXCEPT ![t] = NoThread], \A v \in Threads : wakee[t] = v => v = u,
           Continue(t, <<>>) \/ Continue(t, <<"wake_unlock">>),
           UNCHANGED <<curthr, waitq, swarg, sparg>>
    PROVE  Kept' /\ Ranked'
<1>0. TypeInv /\ PlaceInv /\ PlaceTypes /\ PlaceTypes' /\ NoThread \notin Threads
  BY TypesOf, TypesNext DEF SchedInv, PlaceInv
<1>1. sparg[t].thr = NoThread /\ swarg[t].queue = NoObj /\ ut_state[t] # "UT_WAIT"
  BY Executing DEF AtHead
<1>2. ut_state'[u] = "UT_RUNNABLE" /\ \A v \in Threads \ {u} : ut_state'[v] = ut_state[v]
  BY <1>0 DEF PlaceTypes
<1>3. \A q \in Prios, v \in Threads : Contains(runq'[q], v) <=> Contains(runq[q], v) \/ (q = p /\ v = u)
  <2>1. runq \in [Prios -> Seq(Threads)]
    BY <1>0 DEF PlaceTypes
  <2>2. ASSUME NEW q \in Prios, NEW v \in Threads
        PROVE  Contains(Enqueued(runq, p, u)[q], v) <=> Contains(runq[q], v) \/ (q = p /\ v = u)
    <3>1. u \in Threads
      OBVIOUS
    <3> QED BY ONLY <2>1, <2>2, <3>1, EnqueuedContains
  <2> QED BY <2>2
<1>4. Queued(u)' /\ \A v \in Threads : Queued(v) => Queued(v)'
  BY <1>3 DEF Queued
<1>5. wakee'[t] = NoThread /\ \A v \in Threads \ {t} : wakee'[v] = wakee[v]
  BY <1>0 DEF PlaceTypes
<1>6. \A v \in Threads \ {u} : IsWaiting(v) => IsWaiting(v)'
  BY <1>5 DEF IsWaiting
<1>7. /\ ~AtHead(t, {"yield_lock"})' /\ ~AtHead(t, {"switch"})'
      /\ \A v \in Threads \ {t} : stack'[v] = stack[v]
  <2>1. CASE Continue(t, <<>>)
    <3>1. \A v \in Threads \ {t} : stack'[v] = stack[v]
      BY <1>0, <2>1, AfterContinue
    <3> QED BY <1>0, <2>1, <3>1, PopHead DEF AtHead
  <2>2. CASE Continue(t, <<"wake_unlock">>)
    BY <1>0, <2>2, GoHead, LabelNames
  <2> QED BY <2>1, <2>2
<1>8. \A v \in Threads : waitq'[v] = <<>> /\ swarg'[v].queue \notin Threads
  BY DEF SchedInv, NoJoiners
<1>9. Kept'
  BY <1>1, <1>2, <1>4, <1>5, <1>6, <1>7, <1>8, KeptFrame
<1>10. ut_prio'[u] = p /\ \A v \in Threads \ {u} : ut_prio'[v] = ut_prio[v]
  BY <1>0, SchedTypesOf DEF SchedTypesAt
<1>11. \A v \in Threads : ut_state'[v] \notin Fresh =>
          ut_prio'[v] \in Prios \/ (ut_state[v] \notin Fresh /\ ut_prio'[v] = ut_prio[v])
  BY <1>2, <1>10
<1>12. \A q \in Prios, v \in Threads : Contains(runq'[q], v) =>
          ut_prio'[v] = q \/ (Contains(runq[q], v) /\ ut_prio'[v] = ut_prio[v])
  <2>1. \A q \in Prios : ~Contains(runq[q], u)
    BY <1>0 DEF PlaceInv, RunqOK, Contains
  <2> QED BY <1>3, <1>10, <2>1
<1>13. Ranked'
  BY <1>0, <1>11, <1>12, RankedFrame DEF SchedInv, Ranked
<1> QED BY <1>9, <1>13

LEMMA WakeSched ==
    ASSUME SchedInv, PlaceInv', NEW l \in LWPs, NEW t \in Threads, Wake(l, t)
    PROVE  Kept' /\ Ranked'
<1>0. TypeInv /\ PlaceInv /\ PlaceTypes /\ NoThread \notin Threads
  BY TypesOf DEF SchedInv, PlaceInv
<1>1. Running(l, t) /\ stack[t] # <<>> /\ Head(stack[t]) = "wake"
  BY DEF Wake, At
<1>2. PICK u \in Threads : u = wakee[t]
  BY <1>0, <1>1 DEF TypeInv, ArgumentsOK, ArgumentsOf, Pending, PlaceTypes
<1>3. ut_state[u] = "UT_WAIT" /\ OnNoLwp(u) /\ u # t
  BY <1>0, <1>1, <1>2 DEF PlaceInv, WakeeOK, OnNoLwp, Running
<1>4. PICK p \in Prios : p = ut_prio[u]
  BY <1>3 DEF SchedInv, PrioOK
<1>5. /\ WakeQueues(u) /\ wakee' = [wakee EXCEPT ![t] = NoThread]
      /\ UNCHANGED <<curthr, ut_prio, waitq, swarg, sparg>>
      /\ Continue(t, <<>>) \/ Continue(t, <<"wake_unlock">>)
  <2>1. wakee' = [wakee EXCEPT ![t] = NoThread] /\ UNCHANGED <<curthr, ut_prio, waitq, swarg>>
    BY DEF Wake, waitVars
  <2>2. WakeQueues(u) /\ (Continue(t, <<>>) \/ Continue(t, <<"wake_unlock">>))
    BY <1>2, <1>3 DEF Wake, MakeRunnable
  <2>3. UNCHANGED sparg
    BY DEF Wake
  <2> QED BY <2>1, <2>2, <2>3
<1>6. runq' = Enqueued(runq, p, u) /\ ut_state' = [ut_state EXCEPT ![u] = "UT_RUNNABLE"]
  BY <1>4, <1>5 DEF WakeQueues
<1>7. ut_prio' = [ut_prio EXCEPT ![u] = p]
  BY <1>0, <1>4, <1>5, SchedTypesOf DEF SchedTypesAt
<1>8. \A v \in Threads : wakee[t] = v => v = u
  BY <1>2
<1>9. u \in Threads \ {t} /\ ut_state[u] # "UT_RUNNABLE" /\ Head(stack[t]) \in {"wake", "startonrunq"}
  BY <1>1, <1>3
<1> QED BY <1>1, <1>3, <1>5, <1>6, <1>7, <1>8, <1>9, QueuedSched

LEMMA StartSched ==
    ASSUME SchedInv, PlaceInv', NEW l \in LWPs, NEW t \in Threads, NEW prio \in Prios,
           StartOnRunq(l, t, prio)
    PROVE  Kept' /\ Ranked'
<1>0. TypeInv /\ PlaceInv /\ PlaceTypes /\ PlaceTypes' /\ NoThread \notin Threads
  BY TypesOf, TypesNext DEF SchedInv, PlaceInv
<1>1. Running(l, t) /\ stack[t] # <<>> /\ Head(stack[t]) = "startonrunq"
  BY DEF StartOnRunq, At
<1>2. PICK u \in Threads \ {t} : u = newthr[t]
  BY <1>0, <1>1, Newborn
<1>3. OnNoLwp(u) /\ ut_state[u] \in Fresh
  BY <1>0, <1>1, <1>2, Newborn DEF Fresh
<1>4. wakee[t] = NoThread /\ sparg[t].thr = NoThread
  BY <1>1, Executing DEF AtHead
<1>5. ut_prio' = [ut_prio EXCEPT ![u] = prio] /\ UNCHANGED <<curthr, waitq, swarg, wakee, sparg>>
  BY <1>2 DEF StartOnRunq, waitVars
<1>6. CASE ut_state[u] = "UT_TRANSITION"
  <2>1. /\ runq' = Enqueued(runq, prio, u) /\ ut_state' = [ut_state EXCEPT ![u] = "UT_RUNNABLE"]
        /\ Continue(t, <<>>)
    BY <1>2, <1>6 DEF StartOnRunq
  <2>2. wakee' = [wakee EXCEPT ![t] = NoThread]
    BY <1>0, <1>4, <1>5 DEF PlaceTypes
  <2>3. \A v \in Threads : wakee[t] = v => v = u
    BY <1>0, <1>4
  <2> QED BY <1>1, <1>3, <1>5, <1>6, <2>1, <2>2, <2>3, QueuedSched
<1>7. CASE ut_state[u] # "UT_TRANSITION"
  <2>1. UNCHANGED <<ut_state, runq, stack>>
    BY <1>2, <1>7 DEF StartOnRunq
  <2>2. Kept'
    BY <1>1, <1>4, <1>5, <2>1, KeptQuiet DEF AtHead
  <2>3. \A v \in Threads \ {u} : ut_prio'[v] = ut_prio[v]
    BY <1>0, <1>5, SchedTypesOf DEF SchedTypesAt
  <2>4. \A p \in Prios : ~Contains(runq[p], u)
    BY <1>0, <1>3 DEF PlaceInv, RunqOK, Contains, Fresh
  <2>5. Ranked'
    BY <1>0, <1>3, <1>5, <2>1, <2>3, <2>4, RankedFrame DEF SchedInv, Ranked
  <2> QED BY <2>2, <2>5
<1> QED BY <1>6, <1>7

-----------------------------------------------------------------------------
(* uthread_setprio.                                                        *)

\* A runnable thread that changes run queues is on the new one or on none.
LEMMA RequeueKeeps ==
    ASSUME PlaceInv, NEW u \in Threads, ut_state[u] = "UT_RUNNABLE", NEW from, NEW to \in Prios,
           RequeueAs(u, from, to)
    PROVE  /\ \A v \in Threads : Queued(v) => Queued(v)'
           /\ \A p \in Prios, v \in Threads : Contains(runq'[p], v) =>
                 Contains(runq[p], v) \/ (v = u /\ p = to)
           /\ \A p \in Prios : Contains(runq'[p], u) => p = to
<1>0. runq \in [Prios -> Seq(Threads)] /\ Distinct(Prios, runq, OffLwps("UT_RUNNABLE"))
  <2>1. PlaceTypes
    BY TypesOf DEF PlaceInv
  <2> QED BY <2>1, PlacesDistinct DEF PlaceInv, PlaceTypes
<1>1. CASE UNCHANGED runq /\ \A p \in Prios : ~Contains(runq[p], u)
  BY <1>1 DEF Queued
<1>2. ASSUME NEW p \in Prios, NEW i \in 1..Len(runq[p]), runq[p][i] = u, NEW g,
             g = [runq EXCEPT ![p] = RemoveAt(@, i)], runq' = Enqueued(g, to, u)
      PROVE  /\ \A v \in Threads : Queued(v) => Queued(v)'
             /\ \A q \in Prios, v \in Threads : Contains(runq'[q], v) =>
                   Contains(runq[q], v) \/ (v = u /\ q = to)
             /\ \A q \in Prios : Contains(runq'[q], u) => q = to
  <2>1. g \in [Prios -> Seq(Threads)]
    BY <1>0, <1>2, RemoveAtType
  <2>2. \A q \in Prios : ~Contains(g[q], u)
    <3>1. Distinct(Prios, g, OffLwps("UT_RUNNABLE") \ {u})
      BY <1>0, <1>2, DistinctRemove
    <3> QED BY <3>1 DEF Distinct, Contains
  <2>3. ASSUME NEW q \in Prios, NEW v \in Threads \ {u}
        PROVE  Contains(g[q], v) <=> Contains(runq[q], v)
    <3>1. CASE q = p
      <4>1. g[q] = RemoveAt(runq[p], i) /\ runq[p] \in Seq(Threads)
        BY <1>0, <1>2, <3>1
      <4>2. Contains(runq[p], v) <=> Contains(RemoveAt(runq[p], i), v) \/ v = runq[p][i]
        BY <4>1, RemoveContains
      <4> QED BY <1>2, <3>1, <4>1, <4>2
    <3>2. CASE q # p
      BY <1>0, <1>2, <3>2
    <3> QED BY <3>1, <3>2
  <2>4. ASSUME NEW q \in Prios, NEW v \in Threads
        PROVE  Contains(runq'[q], v) <=> Contains(g[q], v) \/ (q = to /\ v = u)
    <3>1. Contains(Enqueued(g, to, u)[q], v) <=> Contains(g[q], v) \/ (q = to /\ v = u)
      BY <2>1, EnqueuedContains
    <3> QED BY <1>2, <3>1
  <2> QED BY <2>2, <2>3, <2>4 DEF Queued
<1> QED BY <1>1, <1>2 DEF RequeueAs

LEMMA SetprioWriteSched ==
    ASSUME SchedInv, PlaceInv', NEW l \in LWPs, NEW t \in Threads, SetprioWrite(l, t)
    PROVE  Kept' /\ Ranked'
<1>0. TypeInv /\ PlaceTypes /\ PlaceTypes' /\ SchedTypesAt
  BY TypesOf, TypesNext, SchedTypesOf DEF SchedInv, PlaceInv
<1>1. /\ Running(l, t) /\ stack[t] # <<>> /\ Head(stack[t]) = "setprio_write"
      /\ Continue(t, <<"setprio_lock">>) /\ ut_prio' = [ut_prio EXCEPT ![sparg[t].thr] = sparg[t].prio]
      /\ UNCHANGED <<curthr, ut_state, runq, waitq, wakee, swarg, sparg>>
  BY DEF SetprioWrite, At, cpuVars, runqVars, waitVars, argVars
<1>2. Kept'
  <2>1. ~AtHead(t, {"switch", "wake"})
    BY <1>1 DEF AtHead
  <2> QED BY <1>1, <2>1, GoKept, LabelNames
<1>3. \A v \in Threads : ut_prio'[v] \in Prios \/ ut_prio'[v] = ut_prio[v]
  BY <1>0, <1>1 DEF SchedTypesAt
<1>4. \A v \in Threads : v = sparg'[t].thr \/ ut_prio'[v] = ut_prio[v]
  BY <1>0, <1>1 DEF SchedTypesAt
<1>5. Ranked'
  BY <1>0, <1>1, <1>3, <1>4, RankedFrame DEF SchedInv, Ranked
<1> QED BY <1>2, <1>5

LEMMA SetprioLockSched ==
    ASSUME SchedInv, PlaceInv', NEW l \in LWPs, NEW t \in Threads, SetprioLock(l, t)
    PROVE  Kept' /\ Ranked'
<1>0. TypeInv /\ PlaceInv /\ PlaceTypes /\ PlaceTypes' /\ SchedTypesAt /\ NoThread \notin Threads
  BY TypesOf, TypesNext, SchedTypesOf DEF SchedInv, PlaceInv
<1>1. /\ Running(l, t) /\ stack[t] # <<>> /\ Head(stack[t]) = "setprio_lock"
      /\ sparg' = [sparg EXCEPT ![t] = NoSetprio]
      /\ UNCHANGED <<curthr, ut_prio, waitq, wakee, swarg>>
  BY DEF SetprioLock, At, cpuVars, waitVars
<1>2. PICK u \in Threads : u = sparg[t].thr
  BY <1>0, <1>1 DEF TypeInv, ArgumentsOK, ArgumentsOf, Pending, SchedTypesAt
<1>3. /\ (ut_state[u] = "UT_RUNNABLE" /\ Requeue(u, sparg[t].old)) \/ (ut_state[u] # "UT_RUNNABLE" /\ UNCHANGED runq)
      /\ \/ YieldEnter(t) /\ Continue(t, YieldFrames)
         \/ UNCHANGED ut_state /\ Continue(t, <<>>)
  BY <1>2 DEF SetprioLock
<1>4. /\ \A v \in Threads : Queued(v) => Queued(v)'
      /\ \A p \in Prios, v \in Threads : Contains(runq'[p], v) =>
            ut_prio[v] = p \/ (v # u /\ Contains(runq[p], v))
  <2>1. CASE ut_state[u] = "UT_RUNNABLE" /\ Requeue(u, sparg[t].old)
    <3>1. PICK to \in Prios : to = ut_prio[u]
      BY <2>1 DEF SchedInv, PrioOK
    <3>2. PICK from : RequeueAs(u, from, to)
      BY <2>1, <3>1 DEF Requeue
    <3> QED BY <1>0, <2>1, <3>1, <3>2, RequeueKeeps
  <2>2. CASE ut_state[u] # "UT_RUNNABLE" /\ UNCHANGED runq
    <3>1. \A p \in Prios : ~Contains(runq[p], u)
      BY <1>0, <2>2 DEF PlaceInv, RunqOK, Contains
    <3> QED BY <2>2, <3>1 DEF Queued
  <2> QED BY <1>3, <2>1, <2>2
<1>5. sparg'[t].thr = NoThread /\ \A v \in Threads \ {t} : sparg'[v] = sparg[v]
  BY <1>0, <1>1 DEF SchedTypesAt, NoSetprio
<1>6. wakee[t] = NoThread /\ swarg[t].queue = NoObj /\ ut_state[t] \notin Fresh /\ ut_state[t] # "UT_WAIT"
  BY <1>1, Executing DEF AtHead
<1>7. /\ \A v \in Threads \ {t} : ut_state'[v] = ut_state[v] /\ stack'[v] = stack[v]
      /\ \/ ut_state'[t] = ut_state[t] /\ ~AtHead(t, {"yield_lock"})'
         \/ ut_state'[t] = "UT_RUNNABLE"
      /\ ~AtHead(t, {"switch"})'
  <2>1. CASE YieldEnter(t) /\ Continue(t, YieldFrames)
    <3>1. ut_state' = [ut_state EXCEPT ![t] = "UT_RUNNABLE"] /\ Continue(t, <<"yield_lock", "nopreempt_off">>)
      BY <2>1 DEF YieldEnter, YieldFrames
    <3>2. ~AtHead(t, {"switch"})' /\ \A v \in Threads \ {t} : stack'[v] = stack[v]
      BY <1>0, <1>1, <3>1, GoHead, LabelNames
    <3> QED BY <1>0, <3>1, <3>2 DEF PlaceTypes
  <2>2. CASE UNCHANGED ut_state /\ Continue(t, <<>>)
    <3>1. \A v \in Threads \ {t} : stack'[v] = stack[v]
      BY <1>0, <1>1, <2>2, AfterContinue
    <3>2. ~AtHead(t, {"yield_lock", "switch", "wake", "setprio_write", "setprio_lock", "alloc_claim"})'
      BY <1>0, <1>1, <2>2, PopHead
    <3> QED BY <2>2, <3>1, <3>2 DEF AtHead
  <2> QED BY <1>3, <2>1, <2>2
<1>8. \A v \in Threads : IsWaiting(v) => IsWaiting(v)'
  BY <1>1 DEF IsWaiting
<1>9. \A v \in Threads : waitq'[v] = <<>> /\ swarg'[v].queue \notin Threads
  BY <1>1 DEF SchedInv, NoJoiners
<1>10. Kept'
  BY <1>1, <1>4, <1>5, <1>6, <1>7, <1>8, <1>9, KeptFrame
<1>11. \A v \in Threads : ut_state'[v] \notin Fresh => ut_state[v] \notin Fresh /\ ut_prio'[v] = ut_prio[v]
  BY <1>1, <1>6, <1>7
<1>12. \A p \in Prios, v \in Threads : Contains(runq'[p], v) =>
          \/ ut_prio'[v] = p
          \/ /\ Contains(runq[p], v) /\ ut_prio'[v] = ut_prio[v]
             /\ \A w \in Threads : sparg[w].thr = v => sparg'[w].thr = v
  BY <1>1, <1>2, <1>4, <1>5
<1>13. Ranked'
  BY <1>0, <1>11, <1>12, RankedFrame DEF SchedInv, Ranked
<1> QED BY <1>10, <1>13

-----------------------------------------------------------------------------
(* What clients call.                                                      *)

LEMMA ClientSched ==
    ASSUME Disciplined, SchedInv, PlaceInv', NEW l \in LWPs, NEW t \in Threads, ClientStep(l, t)
    PROVE  Kept' /\ Ranked'
<1>0. TypeInv /\ PlaceTypes /\ PlaceTypes' /\ SchedTypesAt
  BY TypesOf, TypesNext, SchedTypesOf DEF SchedInv, PlaceInv
<1>1. CASE UthreadYield(l, t)
  BY <1>1, YieldSched
<1>2. ASSUME NEW u \in Threads, AllocScan(l, t, u)
      PROVE  Kept' /\ Ranked'
  <2>1. /\ Running(l, t) /\ stack[t] = <<>> /\ Push(t, <<"alloc_claim">>)
        /\ UNCHANGED <<curthr, ut_state, ut_prio, runq, waitq, wakee, swarg, sparg>>
    BY <1>2 DEF AllocScan, AllocFound, InClient, Running, cpuVars, runqVars, waitVars
  <2>2. ~AtHead(t, {"switch", "wake"}) /\ sparg[t].thr = NoThread
    BY <2>1, Executing DEF AtHead
  <2>3. "alloc_claim" \in AllLabels \ {"yield_lock", "switch"}
    BY LabelNames
  <2>4. Kept'
    BY <2>1, <2>2, <2>3, GoKept
  <2>5. Ranked'
    BY <1>0, <2>1, RankedCalm DEF SchedInv, Ranked
  <2> QED BY <2>4, <2>5
<1>3. ASSUME NEW u \in Threads, NEW prio \in Prios, SetprioRead(l, t, u, prio)
      PROVE  Kept' /\ Ranked'
  <2>1. /\ Running(l, t) /\ stack[t] = <<>> /\ Push(t, <<"setprio_write">>)
        /\ sparg' = [sparg EXCEPT ![t] = [thr |-> u, prio |-> prio, old |-> ut_prio[u]]]
        /\ UNCHANGED <<curthr, ut_state, ut_prio, runq, waitq, wakee, swarg>>
    BY <1>3 DEF SetprioRead, InClient, Running, cpuVars, runqVars, waitVars
  <2>2. ~AtHead(t, {"switch", "wake"}) /\ sparg[t].thr = NoThread
    BY <2>1, Executing DEF AtHead
  <2>3. "setprio_write" \in AllLabels \ {"yield_lock", "switch"}
    BY LabelNames
  <2>4. \A v \in Threads \ {t} : sparg'[v] = sparg[v]
    BY <1>0, <2>1 DEF SchedTypesAt
  <2>5. Kept'
    BY <2>1, <2>2, <2>3, <2>4, GoKept
  <2>6. \A v, w \in Threads : sparg[w].thr = v => sparg'[w].thr = v
    BY <2>2, <2>4, SchedAssumption
  <2>7. Ranked'
    BY <1>0, <2>1, <2>6, RankedFrame DEF SchedInv, Ranked
  <2> QED BY <2>5, <2>7
<1>4. ~UthreadBlock(l, t) /\ \A u \in Threads : ~UthreadWake(l, t, u)
  BY DEF UthreadBlock, UthreadWake, Disciplined
<1> QED BY <1>1, <1>2, <1>3, <1>4 DEF ClientStep

LEMMA SyncClientSched ==
    ASSUME SchedInv, PlaceInv', NEW l \in LWPs, NEW t \in Threads, SyncClientStep(l, t)
    PROVE  Kept' /\ Ranked'
<1>0. PlaceTypes /\ PlaceTypes'
  BY TypesOf, TypesNext DEF SchedInv, PlaceInv
<1>1. ASSUME NEW f \in SyncLabels, Enter(t, f), InClient(l, t), EntryUnchanged
      PROVE  Kept' /\ Ranked'
  <2>1. Push(t, <<f>>) /\ Running(l, t) /\ stack[t] = <<>>
    BY <1>1 DEF Enter, InClient, Running
  <2>2. UNCHANGED <<curthr, ut_state, ut_prio, runq, waitq, wakee, swarg, sparg>>
    BY <1>1 DEF EntryUnchanged, cpuVars, runqVars, waitVars, argVars
  <2>3. f \in AllLabels \ {"yield_lock", "switch"}
    BY DEF AllLabels, SyncLabels
  <2>4. ~AtHead(t, {"switch", "wake"}) /\ sparg[t].thr = NoThread
    BY <2>1, Executing DEF AtHead
  <2>5. Kept'
    BY <2>1, <2>2, <2>3, <2>4, GoKept
  <2>6. Ranked'
    BY <1>0, <2>2, RankedCalm DEF SchedInv, Ranked
  <2> QED BY <2>5, <2>6
<1>2. \E f \in SyncLabels : Enter(t, f) /\ InClient(l, t) /\ EntryUnchanged
  BY DEF SyncClientStep, UthreadMtxLock, UthreadMtxTrylock, UthreadMtxUnlock, UthreadCondWait,
         UthreadCondSignal, UthreadCondBroadcast, SyncLabels
<1> QED BY <1>1, <1>2

-----------------------------------------------------------------------------
(* uthread_mtx.c and uthread_cond.c.                                       *)

LEMMA QuietSyncSched ==
    ASSUME SchedInv, PlaceInv', NEW l \in LWPs, NEW t \in Threads,
           MtxLocked(l, t) \/ MtxTrylock(l, t) \/ CondWait(l, t) \/ CondRelock(l, t)
    PROVE  Kept' /\ Ranked'
<1>0. PlaceTypes /\ PlaceTypes'
  BY TypesOf, TypesNext DEF SchedInv, PlaceInv
<1>1. /\ Running(l, t) /\ stack[t] # <<>>
      /\ Head(stack[t]) \in {"mtx_locked", "mtx_trylock", "cond_wait", "cond_relock"}
      /\ UNCHANGED <<curthr, ut_state, ut_prio, runq, waitq, wakee, swarg, sparg>>
  BY DEF MtxLocked, MtxTrylock, CondWait, CondRelock, At, cpuVars, runqVars, waitVars, argVars
<1>2. ~AtHead(t, {"switch", "wake"}) /\ sparg[t].thr = NoThread
  BY <1>1, Executing DEF AtHead
<1>3. Kept'
  <2>1. CASE Continue(t, <<>>)
    BY <1>1, <2>1, PopKept
  <2>2. ASSUME NEW f \in {"mtx_unlock", "mtx_lock"}, NEW g \in {"cond_sleep", "nopreempt_off"}, Continue(t, <<f, g>>)
        PROVE  Kept'
    <3>1. f \in AllLabels \ {"yield_lock", "switch"} /\ g \in AllLabels
      BY LabelNames
    <3> QED BY <1>1, <1>2, <2>2, <3>1, GoKept
  <2> QED BY <2>1, <2>2 DEF MtxLocked, MtxTrylock, CondWait, CondRelock
<1>4. Ranked'
  BY <1>0, <1>1, RankedCalm DEF SchedInv, Ranked
<1> QED BY <1>3, <1>4

LEMMA SleepingSched ==
    ASSUME SchedInv, PlaceInv', NEW l \in LWPs, NEW t \in Threads, MtxLock(l, t) \/ CondSleep(l, t)
    PROVE  Kept' /\ Ranked'
<1>0. PlaceInv /\ TypeInv /\ PlaceTypes /\ PlaceTypes'
  BY TypesOf, TypesNext DEF SchedInv, PlaceInv
<1>1. /\ Running(l, t) /\ stack[t] # <<>> /\ Head(stack[t]) \in {"mtx_lock", "cond_sleep"}
      /\ UNCHANGED <<curthr, ut_prio, runq, wakee, sparg>>
  BY DEF MtxLock, CondSleep, At, cpuVars, runqVars
<1>2. CASE MtxLock(l, t) /\ Continue(t, <<>>) /\ UNCHANGED <<ut_state, waitq, swarg>>
  <2>1. Kept'
    BY <1>1, <1>2, PopKept
  <2>2. Ranked'
    BY <1>0, <1>1, <1>2, RankedCalm DEF SchedInv, Ranked
  <2> QED BY <2>1, <2>2
<1>3. CASE MtxLock(l, t) /\ MtxSleep(l, t, marg[t]) /\ Continue(t, SleepFrames(t))
  <2>1. PICK g \in AllLabels : SleepFrames(t) = <<"switch", g>>
    BY LabelNames DEF SleepFrames
  <2>2. Continue(t, <<"switch", g>>)
    BY <1>3, <2>1
  <2>3. PICK o \in SyncObjs : o = marg[t]
    <3>1. Head(stack[t]) = "mtx_lock"
      BY <1>3 DEF MtxLock, At
    <3> QED BY <1>0, <1>1, <3>1, SyncAssumption DEF TypeInv, ArgumentsOK, ArgumentsOf, NeedsMutex, Pending, SyncTypeOK
  <2> DEFINE a == [queue |-> o, saveonrq |-> FALSE, pmut |-> o]
  <2>4. /\ swarg' = [swarg EXCEPT ![t] = a] /\ a.queue = o
        /\ ut_state' = [ut_state EXCEPT ![t] = "UT_WAIT"] /\ UNCHANGED waitq
    BY <1>3, <2>3 DEF MtxSleep
  <2> HIDE DEF a
  <2> QED BY <1>1, <2>2, <2>4, SleepSched
<1>4. CASE CondSleep(l, t)
  <2>1. PICK o \in SyncObjs : o = carg[t]
    <3>1. Head(stack[t]) = "cond_sleep"
      BY <1>4 DEF CondSleep, At
    <3> QED BY <1>0, <1>1, <3>1, SyncAssumption DEF TypeInv, ArgumentsOK, ArgumentsOf, NeedsCond, Pending, SyncTypeOK
  <2> DEFINE a == [queue |-> o, saveonrq |-> FALSE, pmut |-> o]
  <2>2. /\ swarg' = [swarg EXCEPT ![t] = a] /\ a.queue = o
        /\ ut_state' = [ut_state EXCEPT ![t] = "UT_WAIT"] /\ UNCHANGED waitq
        /\ Continue(t, <<"switch", "cond_relock">>)
    BY <1>4, <2>1 DEF CondSleep, waitVars
  <2>3. "cond_relock" \in AllLabels
    BY LabelNames
  <2> HIDE DEF a
  <2> QED BY <1>1, <2>2, <2>3, SleepSched
<1>5. MtxLock(l, t) =>
         \/ Continue(t, <<>>) /\ UNCHANGED <<ut_state, waitq, swarg>>
         \/ MtxSleep(l, t, marg[t]) /\ Continue(t, SleepFrames(t))
  BY DEF MtxLock
<1> QED BY <1>2, <1>3, <1>4, <1>5

\* The oldest waiter of o passes into the hands of t.
LEMMA WakeNextSched ==
    ASSUME SchedInv, PlaceInv', NEW l \in LWPs, NEW t \in Threads,
           MtxUnlock(l, t) \/ CondSignal(l, t) \/ CondBroadcast(l, t)
    PROVE  Kept' /\ Ranked'
<1>0. PlaceInv /\ TypeInv /\ PlaceTypes /\ PlaceTypes' /\ NoThread \notin Threads
  BY TypesOf, TypesNext DEF SchedInv, PlaceInv
<1>1. /\ Running(l, t) /\ stack[t] # <<>>
      /\ Head(stack[t]) \in {"mtx_unlock", "cond_signal", "cond_broadcast"}
      /\ UNCHANGED <<curthr, ut_state, ut_prio, runq, swarg, sparg>>
  BY DEF MtxUnlock, CondSignal, CondBroadcast, At, cpuVars, runqVars
<1>2. /\ wakee[t] = NoThread /\ sparg[t].thr = NoThread /\ swarg[t].queue = NoObj
      /\ ut_state[t] # "UT_WAIT"
  BY <1>1, Executing DEF AtHead
<1>3. Ranked'
  BY <1>0, <1>1, RankedCalm DEF SchedInv, Ranked
<1>4. CASE Continue(t, <<>>) /\ UNCHANGED <<waitq, wakee>>
  <2>1. Kept'
    BY <1>1, <1>4, PopKept
  <2> QED BY <1>3, <2>1
<1>5. ASSUME NEW o \in SyncObjs, waitq[o] # <<>>, waitq' = [waitq EXCEPT ![o] = Tail(@)],
             wakee' = [wakee EXCEPT ![t] = Head(waitq[o])],
             NEW g \in {"nopreempt_off", "cond_broadcast"}, Continue(t, <<"wake", g>>)
      PROVE  Kept'
  <2>1. o \in Objs /\ o \notin Threads /\ \A v \in Threads : v \in Objs
    BY SchedAssumption DEF Objs
  <2>2. waitq'[o] = Tail(waitq[o]) /\ \A q \in Objs \ {o} : waitq'[q] = waitq[q]
    BY <1>0, <1>5, <2>1 DEF PlaceTypes
  <2>3. wakee'[t] = Head(waitq[o]) /\ \A v \in Threads \ {t} : wakee'[v] = wakee[v]
    BY <1>0, <1>5 DEF PlaceTypes
  <2>4. \A v \in Threads : Contains(waitq[o], v) => Contains(waitq'[o], v) \/ v = wakee'[t]
    <3>1. waitq[o] \in Seq(Threads)
      BY <1>0, <2>1 DEF PlaceTypes
    <3> QED BY <1>5, <2>2, <2>3, <3>1, TailContains
  <2>5. ASSUME NEW v \in Threads, IsWaiting(v)
        PROVE  IsWaiting(v)'
    <3>1. CASE \E q \in Objs : Contains(waitq[q], v)
      BY <2>1, <2>2, <2>4, <3>1 DEF IsWaiting
    <3>2. CASE swarg[v].queue # NoObj
      BY <1>1, <3>2 DEF IsWaiting
    <3>3. CASE \E u \in Threads : wakee[u] = v
      BY <1>0, <1>2, <2>3, <3>3 DEF IsWaiting
    <3> QED BY <2>5, <3>1, <3>2, <3>3 DEF IsWaiting
  <2>6. /\ \A labels : AtHead(t, labels)' <=> "wake" \in labels
        /\ \A v \in Threads \ {t} : stack'[v] = stack[v]
    <3>1. "wake" \in AllLabels /\ g \in AllLabels
      BY LabelNames
    <3> QED BY <1>0, <1>1, <1>5, <3>1, GoHead
  <2>7. AtHead(t, {"wake"})' /\ ~AtHead(t, {"yield_lock"})' /\ ~AtHead(t, {"switch"})'
    BY <2>6
  <2>8. \A v \in Threads : waitq'[v] = <<>> /\ swarg'[v].queue \notin Threads
    BY <1>1, <2>1, <2>2 DEF SchedInv, NoJoiners
  <2>9. \A v \in Threads : Queued(v) => Queued(v)'
    BY <1>1 DEF Queued
  <2> QED BY <1>1, <1>2, <2>3, <2>5, <2>6, <2>7, <2>8, <2>9, KeptFrame
<1>6. \/ Continue(t, <<>>) /\ UNCHANGED <<waitq, wakee>>
      \/ \E o \in SyncObjs, g \in {"nopreempt_off", "cond_broadcast"} :
            /\ waitq[o] # <<>> /\ waitq' = [waitq EXCEPT ![o] = Tail(@)]
            /\ wakee' = [wakee EXCEPT ![t] = Head(waitq[o])] /\ Continue(t, <<"wake", g>>)
  <2>0. Mutexes \cup Conds = SyncObjs
    BY SyncAssumption
  <2>1. CASE MtxUnlock(l, t)
    <3>1. marg[t] \in SyncObjs
      BY <1>0, <2>0, <2>1 DEF MtxUnlock, At, TypeInv, ArgumentsOK, ArgumentsOf, NeedsMutex, Pending, SyncTypeOK
    <3> QED BY <2>1, <3>1 DEF MtxUnlock, PassOn
  <2>2. CASE CondSignal(l, t) \/ CondBroadcast(l, t)
    <3>1. carg[t] \in SyncObjs
      BY <1>0, <2>0, <2>2 DEF CondSignal, CondBroadcast, At, TypeInv, ArgumentsOK, ArgumentsOf, NeedsCond, Pending, SyncTypeOK
    <3> QED BY <2>2, <3>1 DEF CondSignal, CondBroadcast, WakeOldest
  <2> QED BY <2>1, <2>2
<1> QED BY <1>3, <1>4, <1>5, <1>6

-----------------------------------------------------------------------------
(* The assertion of lwp_park.                                              *)

\* Only the scan of the run queues can end the process there.
LEMMA HaltsInPark ==
    ASSUME halted = "none", SyncNext, halted' = "lwp_park"
    PROVE  RunqEmpty(runq') /\ Parked(lwp') = Started(lwp')
<1>1. CASE \E l, rq, sz, st, lw : Dispatch(l, rq, sz, st, lw)
  BY <1>1, DispatchHalts
<1>2. CASE halted' = halted
  BY <1>2
<1>3. ASSUME NEW l \in LWPs, LwpStep(l)
      PROVE  halted' = halted \/ \E rq, sz, st, lw : Dispatch(l, rq, sz, st, lw)
  BY <1>3 DEF LwpStep, LwpStart, Unpark, SpuriousWakeup
<1>4. ASSUME NEW l \in LWPs, NEW t \in Threads, LibraryStep(l, t)
      PROVE  halted' = halted \/ \E rq, sz, st, lw : Dispatch(l, rq, sz, st, lw)
  <2>1. ~SwitchAborts(l, t)
    BY DEF SwitchAborts
  <2>2. CASE Switch(l, t)
    BY <2>2 DEF Switch
  <2>3. CASE Return(l, t) \/ YieldLock(l, t) \/ WakeUnlock(l, t) \/ SetprioWrite(l, t) \/ SetprioLock(l, t)
    BY <2>3 DEF Return, YieldLock, WakeUnlock, SetprioWrite, SetprioLock
  <2>4. CASE Wake(l, t) \/ AllocClaim(l, t) \/ CreateInit(l, t) \/ AllocStackFails(l, t)
    BY <2>4 DEF Wake, AllocClaim, CreateInit, AllocStackFails
  <2>5. ASSUME NEW prio \in Prios, StartOnRunq(l, t, prio) PROVE halted' = halted
    BY <2>5 DEF StartOnRunq
  <2> QED BY <1>4, <2>1, <2>2, <2>3, <2>4, <2>5 DEF LibraryStep
<1>5. ASSUME NEW l \in LWPs, NEW t \in Threads, ClientStep(l, t) \/ ClockInterrupt(l, t)
      PROVE  halted' = halted
  BY <1>5 DEF ClientStep, ClockInterrupt, UthreadYield, UthreadBlock, UthreadWake, AllocScan, AllocFound, SetprioRead
<1>6. ASSUME NEW l \in LWPs, NEW t \in Threads, SyncLibraryStep(l, t) PROVE halted' = halted
  BY <1>6 DEF SyncLibraryStep, MtxLock, MtxLocked, MtxTrylock, MtxUnlock, CondWait, CondSleep, CondRelock,
              CondSignal, CondBroadcast
<1>7. ASSUME NEW l \in LWPs, NEW t \in Threads, SyncClientStep(l, t) PROVE halted' = halted
  BY <1>7 DEF SyncClientStep, UthreadMtxLock, UthreadMtxTrylock, UthreadMtxUnlock, UthreadCondWait,
              UthreadCondSignal, UthreadCondBroadcast, EntryUnchanged
<1> QED BY <1>1, <1>2, <1>3, <1>4, <1>5, <1>6, <1>7 DEF SyncNext, SchedNext

\* Nobody runs then, and a thread that is runnable or on a processor would be
\* on an LWP or a run queue.
LEMMA StuckInPark ==
    ASSUME TypeInv', LwpOK', NobodyLost', RunqEmpty(runq'), Parked(lwp') = Started(lwp')
    PROVE  /\ \A l \in LWPs : curthr'[l] = NoThread
           /\ \A t \in Threads : ut_state'[t] \notin {"UT_RUNNABLE", "UT_ON_CPU"}
<1>0. NoThread \notin Threads
  BY SchedAssumption
<1>1. ASSUME NEW l \in LWPs, curthr'[l] # NoThread PROVE FALSE
  <2>1. lwp'[l] = "running"
    BY <1>1 DEF LwpOK
  <2> QED BY <2>1 DEF Parked, Started
<1>2. \A t \in Threads : ~OnLwp(t)'
  BY <1>0, <1>1 DEF OnLwp, Running
<1>3. \A t \in Threads : ~Queued(t)'
  BY DEF RunqEmpty, Queued, Contains
<1> QED BY <1>1, <1>2, <1>3 DEF NobodyLost

-----------------------------------------------------------------------------
(* SchedInv is an invariant.                                               *)

LEMMA SchedInvInit == SyncInit => SchedInv
<1> SUFFICES ASSUME SyncInit PROVE SchedInv
  OBVIOUS
<1>0. PlaceInv /\ TypeInv /\ PlaceTypes
  BY PlaceInvInit, TypesOf DEF PlaceInv
<1>1. /\ halted = "none" /\ sparg = [t \in Threads |-> NoSetprio] /\ wakee = [t \in Threads |-> NoThread]
      /\ swarg = [t \in Threads |-> NoSwitch] /\ waitq = [o \in Objs |-> <<>>]
  BY DEF SyncInit, SchedInit
<1>2. \A t \in Threads : ~AtHead(t, {"yield_lock"}) /\ ~AtHead(t, {"switch"})
  BY Literals DEF SyncInit, SchedInit, AtHead
<1>3. CallersRun
  BY <1>1 DEF CallersRun, NoSetprio
<1>4. SwitchOK
  BY <1>2 DEF SwitchOK
<1>5. MaxPrio \in Prios /\ \A p \in Prios : runq[p] = IF p = MaxPrio THEN Boot ELSE <<>>
  BY SchedAssumption DEF SyncInit, SchedInit, Prios
<1>6. /\ ut_state = [t \in Threads |-> IF Contains(Boot, t) THEN "UT_RUNNABLE" ELSE "UT_NO_STATE"]
      /\ ut_prio = [t \in Threads |-> IF Contains(Boot, t) THEN MaxPrio ELSE 0]
  BY DEF SyncInit, SchedInit
<1>7. NobodyLost
  <2>1. \A t \in Threads : ut_state[t] = "UT_RUNNABLE" => Contains(runq[MaxPrio], t)
    BY <1>5, <1>6
  <2>2. \A t \in Threads : ut_state[t] \in {"UT_RUNNABLE", "UT_NO_STATE"}
    BY <1>6
  <2> QED BY <1>5, <2>1, <2>2 DEF NobodyLost, Queued
<1>8. NoJoiners
  <2>1. \A t \in Threads : t \in Objs
    BY DEF Objs
  <2> QED BY <1>1, <2>1, SchedAssumption DEF NoJoiners, NoSwitch, Objs
<1>9. PrioOK
  <2>1. \A t \in Threads : ut_state[t] = "UT_RUNNABLE" => ut_prio[t] = MaxPrio
    BY <1>6
  <2>2. \A t \in Threads : ut_state[t] \in {"UT_RUNNABLE", "UT_NO_STATE"}
    BY <1>6
  <2> QED BY <1>5, <2>1, <2>2 DEF PrioOK
<1>10. QueuedAtItsPriority
  <2>1. SUFFICES ASSUME NEW p \in Prios, NEW i \in 1..Len(runq[p]) PROVE ut_prio[runq[p][i]] = p
    BY DEF QueuedAtItsPriority
  <2>2. p = MaxPrio /\ runq[p] = Boot
    BY <1>5, <2>1
  <2>3. Contains(Boot, Boot[i]) /\ Boot[i] \in Threads
    BY <2>1, <2>2, SchedAssumption DEF Contains
  <2> QED BY <1>6, <2>2, <2>3
<1>11. ParkAssertMeansStuck
  BY <1>1 DEF ParkAssertMeansStuck
<1> QED BY <1>0, <1>3, <1>4, <1>7, <1>8, <1>9, <1>10, <1>11 DEF SchedInv

LEMMA SchedStep ==
    ASSUME Disciplined, SchedInv, PlaceInv', SyncNext
    PROVE  Kept' /\ Ranked'
<1>1. ASSUME NEW l \in LWPs, LwpStep(l) PROVE Kept' /\ Ranked'
  BY <1>1, LwpSched
<1>2. ASSUME NEW l \in LWPs, NEW t \in Threads, LibraryStep(l, t) PROVE Kept' /\ Ranked'
  <2>1. CASE Switch(l, t)
    BY <2>1, SwitchSched
  <2>2. CASE SwitchAborts(l, t)
    BY <2>2, AbortSched
  <2>3. CASE Return(l, t) \/ WakeUnlock(l, t) \/ AllocStackFails(l, t)
    BY <2>3, PopSched
  <2>4. CASE YieldLock(l, t)
    BY <2>4, YieldLockSched
  <2>5. CASE Wake(l, t)
    BY <2>5, WakeSched
  <2>6. CASE SetprioWrite(l, t)
    BY <2>6, SetprioWriteSched
  <2>7. CASE SetprioLock(l, t)
    BY <2>7, SetprioLockSched
  <2>8. CASE AllocClaim(l, t) \/ CreateInit(l, t)
    BY <2>8, AllocSched
  <2>9. ASSUME NEW prio \in Prios, StartOnRunq(l, t, prio) PROVE Kept' /\ Ranked'
    BY <2>9, StartSched
  <2> QED BY <1>2, <2>1, <2>2, <2>3, <2>4, <2>5, <2>6, <2>7, <2>8, <2>9 DEF LibraryStep
<1>3. ASSUME NEW l \in LWPs, NEW t \in Threads, ClientStep(l, t) \/ ClockInterrupt(l, t) PROVE Kept' /\ Ranked'
  BY <1>3, ClientSched, YieldSched
<1>4. ASSUME NEW l \in LWPs, NEW t \in Threads, SyncLibraryStep(l, t) PROVE Kept' /\ Ranked'
  <2>1. CASE MtxLocked(l, t) \/ MtxTrylock(l, t) \/ CondWait(l, t) \/ CondRelock(l, t)
    BY <2>1, QuietSyncSched
  <2>2. CASE MtxLock(l, t) \/ CondSleep(l, t)
    BY <2>2, SleepingSched
  <2>3. CASE MtxUnlock(l, t) \/ CondSignal(l, t) \/ CondBroadcast(l, t)
    BY <2>3, WakeNextSched
  <2> QED BY <1>4, <2>1, <2>2, <2>3 DEF SyncLibraryStep
<1>5. ASSUME NEW l \in LWPs, NEW t \in Threads, SyncClientStep(l, t) PROVE Kept' /\ Ranked'
  BY <1>5, SyncClientSched
<1> QED BY <1>1, <1>2, <1>3, <1>4, <1>5 DEF SyncNext, SchedNext

LEMMA SchedInvNext ==
    ASSUME Disciplined, SchedInv, [SyncNext]_syncVars
    PROVE  SchedInv'
<1>1. PlaceInv'
  BY PlaceInvNext DEF SchedInv
<1>2. CASE SyncNext
  <2>1. Kept' /\ Ranked'
    BY <1>1, <1>2, SchedStep
  <2>2. halted = "none"
    BY <1>2 DEF SyncNext, SchedNext
  <2>3. ParkAssertMeansStuck'
    <3>1. SUFFICES ASSUME halted' = "lwp_park"
                   PROVE  /\ RunqEmpty(runq') /\ \A l \in LWPs : curthr'[l] = NoThread
                          /\ \A t \in Threads : ut_state'[t] \notin {"UT_RUNNABLE", "UT_ON_CPU"}
      BY DEF ParkAssertMeansStuck
    <3>2. RunqEmpty(runq') /\ Parked(lwp') = Started(lwp')
      BY <1>2, <2>2, <3>1, HaltsInPark
    <3>3. TypeInv' /\ LwpOK' /\ NobodyLost'
      BY <1>1, <2>1 DEF PlaceInv, Kept
    <3> QED BY <3>2, <3>3, StuckInPark
  <2> QED BY <1>1, <2>1, <2>3 DEF SchedInv, Kept, Ranked
<1>3. CASE UNCHANGED syncVars
  <2>1. UNCHANGED <<curthr, ut_state, ut_prio, runq, waitq, stack, wakee, swarg, sparg, halted>>
    BY <1>3 DEF syncVars, schedVars, cpuVars, thrVars, runqVars, waitVars, argVars
  <2> QED BY <1>1, <2>1 DEF SchedInv, CallersRun, SwitchOK, NobodyLost, NoJoiners, PrioOK, QueuedAtItsPriority,
                ParkAssertMeansStuck, RunqEmpty, OnLwp, Running, AtHead, IsWaiting, Queued
<1> QED BY <1>2, <1>3

\* SchedInv holds throughout: in particular somebody has every thread, its
\* LWP, the run queue, a wait queue or the thread about to wake it.
THEOREM SchedInvariant ==
    ASSUME Disciplined
    PROVE  SyncSpec => []SchedInv
<1>1. SyncInit => SchedInv
  BY SchedInvInit
<1>2. SchedInv /\ [SyncNext]_syncVars => SchedInv'
  BY SchedInvNext
<1> QED BY <1>1, <1>2, PTL DEF SyncSpec

\* No two LWPs execute on the stack of one thread, and a queued thread is on
\* one run queue, once, and on no LWP.
THEOREM StacksApart ==
    ASSUME Disciplined
    PROVE  SyncSpec => []OneStackOneLwp
<1>1. ThreadInOnePlace => OneStackOneLwp
  BY DEF ThreadInOnePlace
<1> QED BY <1>1, PlaceCorrect, PTL

\* Runnable threads wait on the run queue of their own priority, unless a
\* uthread_setprio is about to move them.
THEOREM RightQueue ==
    ASSUME Disciplined
    PROVE  SyncSpec => []QueuedAtItsPriority
<1>1. SchedInv => QueuedAtItsPriority
  BY DEF SchedInv
<1> QED BY <1>1, SchedInvariant, PTL

\* The assertion of lwp_park fires only when no thread can run ever again.
THEOREM ParkAssertIsRight ==
    ASSUME Disciplined
    PROVE  SyncSpec => []ParkAssertMeansStuck
<1>1. SchedInv => ParkAssertMeansStuck
  BY DEF SchedInv
<1> QED BY <1>1, SchedInvariant, PTL

-----------------------------------------------------------------------------
(* The counters of the run queues, where one LWP runs every thread if      *)
(* uthread_setprio is called at all.                                       *)

SetprioAlone == "setprio" \in Calls => OneLwpOnly

Agree(rq, sz) == \A p \in Prios : sz[p] = Len(rq[p])

LEMMA EnqueuedAgree ==
    ASSUME NEW rq \in [Prios -> Seq(Threads)], NEW sz \in [Prios -> Int], Agree(rq, sz),
           NEW p \in Prios, NEW u \in Threads
    PROVE  /\ Agree(Enqueued(rq, p, u), SizeUp(sz, p))
           /\ Enqueued(rq, p, u) \in [Prios -> Seq(Threads)] /\ SizeUp(sz, p) \in [Prios -> Int]
<1>1. Enqueued(rq, p, u)[p] = Append(rq[p], u) /\ rq[p] \in Seq(Threads)
  BY DEF Enqueued
<1>2. Len(Append(rq[p], u)) = Len(rq[p]) + 1
  BY <1>1
<1>3. SizeUp(sz, p)[p] = sz[p] + 1
  BY DEF SizeUp
<1>4. \A q \in Prios \ {p} : Enqueued(rq, p, u)[q] = rq[q] /\ SizeUp(sz, p)[q] = sz[q]
  BY DEF Enqueued, SizeUp
<1>5. Agree(Enqueued(rq, p, u), SizeUp(sz, p))
  BY <1>1, <1>2, <1>3, <1>4 DEF Agree
<1>6. Enqueued(rq, p, u) \in [Prios -> Seq(Threads)] /\ SizeUp(sz, p) \in [Prios -> Int]
  BY <1>1 DEF Enqueued, SizeUp
<1> QED BY <1>5, <1>6

LEMMA RemovedAgree ==
    ASSUME NEW rq \in [Prios -> Seq(Threads)], NEW sz \in [Prios -> Int], Agree(rq, sz),
           NEW p \in Prios, NEW i \in 1..Len(rq[p])
    PROVE  /\ Agree([rq EXCEPT ![p] = RemoveAt(@, i)], [sz EXCEPT ![p] = @ - 1])
           /\ [rq EXCEPT ![p] = RemoveAt(@, i)] \in [Prios -> Seq(Threads)]
           /\ [sz EXCEPT ![p] = @ - 1] \in [Prios -> Int]
<1> DEFINE rm == RemoveAt(rq[p], i)
<1>1. rq[p] \in Seq(Threads)
  OBVIOUS
<1>2. Len(rm) = Len(rq[p]) - 1
  BY <1>1, RemoveContains
<1>3. [rq EXCEPT ![p] = rm] \in [Prios -> Seq(Threads)]
  BY RemoveAtType
<1> HIDE DEF rm
<1>4. [sz EXCEPT ![p] = @ - 1] \in [Prios -> Int]
  OBVIOUS
<1>5. Agree([rq EXCEPT ![p] = rm], [sz EXCEPT ![p] = @ - 1])
  BY <1>2 DEF Agree
<1> QED BY <1>3, <1>4, <1>5 DEF rm

LEMMA ScanAgree ==
    ASSUME NEW l \in LWPs, NEW rq \in [Prios -> Seq(Threads)], NEW sz \in [Prios -> Int], Agree(rq, sz),
           NEW st, NEW lw, Dispatch(l, rq, sz, st, lw)
    PROVE  Agree(runq', tq_size')
<1>1. CASE PickThread(l, rq, sz, st, lw)
  <2>1. PICK p \in Prios :
          rq[p] # <<>> /\ runq' = [rq EXCEPT ![p] = Tail(@)] /\ tq_size' = [sz EXCEPT ![p] = @ - 1]
    BY <1>1 DEF PickThread
  <2>2. rq[p] \in Seq(Threads)
    OBVIOUS
  <2>3. Len(Tail(rq[p])) = Len(rq[p]) - 1
    BY <2>1, <2>2
  <2> QED BY <2>1, <2>3 DEF Agree
<1>2. CASE Park(l, rq, sz, st, lw) \/ BadQueue(l, rq, sz, st, lw)
  BY <1>2 DEF Park, BadQueue, Agree
<1> QED BY <1>1, <1>2 DEF Dispatch

\* No uthread_setprio is pending while its LWP does something else.
LEMMA NobodySetsPrio ==
    ASSUME CountInv, SetprioAlone, NEW l \in LWPs,
           \A t \in Threads : curthr[l] = t => ~AtHead(t, {"setprio_write", "setprio_lock"})
    PROVE  \A v \in Threads : sparg[v].thr = NoThread
<1>1. SUFFICES ASSUME NEW v \in Threads, sparg[v].thr # NoThread PROVE FALSE
  OBVIOUS
<1>2. OnLwp(v) /\ AtHead(v, {"setprio_write", "setprio_lock"})
  BY <1>1 DEF CountInv, SchedInv, CallersRun
<1>3. OneLwpOnly
  BY <1>1 DEF CountInv, SetprioOK, SetprioAlone
<1> QED BY <1>2, <1>3 DEF OneLwpOnly, OnLwp, Running

\* A step that leaves the run queues alone, or that nobody's uthread_setprio sees.
LEMMA SetprioFrame ==
    ASSUME CountInv, \A v \in Threads : sparg'[v] = sparg[v] \/ sparg'[v].thr = NoThread,
           UNCHANGED runq \/ \A v \in Threads : sparg[v].thr = NoThread
    PROVE  SetprioOK'
  BY DEF CountInv, SetprioOK

\* The scan of an LWP that has left its thread, if it had one.
LEMMA LwpCount ==
    ASSUME CountInv, SetprioAlone, NEW l \in LWPs, LwpStep(l)
    PROVE  SetprioOK' /\ QueueCountsAgree'
<1>0. /\ runq \in [Prios -> Seq(Threads)] /\ tq_size \in [Prios -> Int] /\ NoThread \notin Threads /\ LwpOK
      /\ Agree(runq, tq_size)
  BY TypesOf, SchedTypesOf DEF CountInv, SchedInv, PlaceInv, PlaceTypes, SchedTypesAt, Agree, QueueCountsAgree
<1>1. curthr[l] = NoThread /\ UNCHANGED sparg
  BY <1>0 DEF LwpStep, LwpStart, Unpark, SpuriousWakeup, LwpOK, argVars
<1>2. SetprioOK'
  <2>1. \A v \in Threads : sparg[v].thr = NoThread
    BY <1>0, <1>1, NobodySetsPrio
  <2> QED BY <1>1, <2>1, SetprioFrame
<1>3. CASE Dispatch(l, runq, tq_size, ut_state, lwp)
  <2>1. Agree(runq', tq_size')
    BY <1>0, <1>3, ScanAgree
  <2> QED BY <1>2, <2>1 DEF Agree, QueueCountsAgree
<1>4. CASE UNCHANGED <<runq, tq_size>>
  BY <1>0, <1>2, <1>4 DEF Agree, QueueCountsAgree
<1> QED BY <1>3, <1>4 DEF LwpStep, LwpStart, Unpark, SpuriousWakeup, runqVars

LEMMA SwitchCount ==
    ASSUME CountInv, SetprioAlone, NEW l \in LWPs, NEW t \in Threads, Switch(l, t)
    PROVE  SetprioOK' /\ QueueCountsAgree'
<1> DEFINE save == swarg[t].saveonrq /\ swarg[t].queue = NoObj
           rq == IF save THEN Enqueued(runq, ut_prio[t], t) ELSE runq
           sz == IF save THEN SizeUp(tq_size, ut_prio[t]) ELSE tq_size
           st == IF save THEN [ut_state EXCEPT ![t] = "UT_RUNNABLE"] ELSE ut_state
<1>0. /\ runq \in [Prios -> Seq(Threads)] /\ tq_size \in [Prios -> Int] /\ Agree(runq, tq_size) /\ SchedInv
  BY TypesOf, SchedTypesOf DEF CountInv, SchedInv, PlaceInv, PlaceTypes, SchedTypesAt, Agree, QueueCountsAgree
<1>1. Running(l, t) /\ ~AtHead(t, {"setprio_write", "setprio_lock"}) /\ UNCHANGED sparg
  BY DEF Switch, At, AtHead
<1>2. SetprioOK'
  <2>1. \A v \in Threads : sparg[v].thr = NoThread
    BY <1>1, NobodySetsPrio DEF Running
  <2> QED BY <1>1, <2>1, SetprioFrame
<1>3. ut_prio[t] \in Prios
  BY <1>0, <1>1, Executing
<1>4. Agree(rq, sz) /\ rq \in [Prios -> Seq(Threads)] /\ sz \in [Prios -> Int]
  BY <1>0, <1>3, EnqueuedAgree
<1>5. PICK lw : Dispatch(l, rq, sz, st, lw)
  BY DEF Switch
<1> HIDE DEF rq, sz, st, save
<1>6. Agree(runq', tq_size')
  BY <1>4, <1>5, ScanAgree
<1> QED BY <1>2, <1>6 DEF Agree, QueueCountsAgree

\* uthread_wake and uthread_startonrunq: one thread more on a run queue, or none.
LEMMA EnqueueCount ==
    ASSUME CountInv, SetprioAlone, NEW l \in LWPs, NEW t \in Threads,
           Wake(l, t) \/ \E prio \in Prios : StartOnRunq(l, t, prio)
    PROVE  SetprioOK' /\ QueueCountsAgree'
<1>0. /\ runq \in [Prios -> Seq(Threads)] /\ tq_size \in [Prios -> Int] /\ Agree(runq, tq_size)
      /\ SchedInv /\ PlaceInv /\ TypeInv /\ PlaceTypes
  BY TypesOf, SchedTypesOf DEF CountInv, SchedInv, PlaceInv, PlaceTypes, SchedTypesAt, Agree, QueueCountsAgree
<1>1. Running(l, t) /\ stack[t] # <<>> /\ Head(stack[t]) \in {"wake", "startonrunq"} /\ UNCHANGED sparg
  BY DEF Wake, StartOnRunq, At
<1>2. SetprioOK'
  <2>1. ~AtHead(t, {"setprio_write", "setprio_lock"})
    BY <1>1 DEF AtHead
  <2>2. \A v \in Threads : sparg[v].thr = NoThread
    BY <1>1, <2>1, NobodySetsPrio DEF Running
  <2> QED BY <1>1, <2>2, SetprioFrame
<1>3. \/ UNCHANGED <<runq, tq_size>>
      \/ \E u \in Threads, p \in Prios : runq' = Enqueued(runq, p, u) /\ tq_size' = SizeUp(tq_size, p)
  <2>1. CASE Wake(l, t)
    <3>1. PICK u \in Threads : u = wakee[t]
      BY <1>0, <2>1 DEF Wake, At, TypeInv, ArgumentsOK, ArgumentsOf, Pending, PlaceTypes
    <3>2. CASE UNCHANGED <<runq, tq_size>>
      BY <3>2
    <3>3. CASE ut_state[u] = "UT_WAIT" /\ WakeQueues(u)
      <4>1. ut_prio[u] \in Prios
        BY <1>0, <3>3 DEF SchedInv, PrioOK
      <4> QED BY <3>3, <4>1 DEF WakeQueues
    <3> QED BY <2>1, <3>1, <3>2, <3>3 DEF Wake, MakeRunnable
  <2>2. ASSUME NEW prio \in Prios, StartOnRunq(l, t, prio)
        PROVE  \/ UNCHANGED <<runq, tq_size>>
               \/ \E u \in Threads, p \in Prios : runq' = Enqueued(runq, p, u) /\ tq_size' = SizeUp(tq_size, p)
    <3>1. PICK u \in Threads : u = newthr[t]
      BY <1>0, <1>1, <2>2, Newborn DEF StartOnRunq, At
    <3> QED BY <2>2, <3>1 DEF StartOnRunq
  <2> QED BY <2>1, <2>2
<1>4. Agree(runq', tq_size')
  BY <1>0, <1>3, EnqueuedAgree
<1> QED BY <1>2, <1>4 DEF Agree, QueueCountsAgree

\* uthread_runq_requeue decrements the counter of the list it unlinks from.
LEMMA SetprioCount ==
    ASSUME CountInv, SetprioAlone, NEW l \in LWPs, NEW t \in Threads, SetprioLock(l, t)
    PROVE  SetprioOK' /\ QueueCountsAgree'
<1>0. /\ runq \in [Prios -> Seq(Threads)] /\ tq_size \in [Prios -> Int] /\ Agree(runq, tq_size)
      /\ SchedInv /\ TypeInv /\ SchedTypesAt /\ NoThread \notin Threads
  BY TypesOf, SchedTypesOf DEF CountInv, SchedInv, PlaceInv, PlaceTypes, SchedTypesAt, Agree, QueueCountsAgree
<1>1. Running(l, t) /\ stack[t] # <<>> /\ Head(stack[t]) = "setprio_lock" /\ sparg' = [sparg EXCEPT ![t] = NoSetprio]
  BY DEF SetprioLock, At
<1>2. PICK u \in Threads : u = sparg[t].thr
  BY <1>0, <1>1 DEF TypeInv, ArgumentsOK, ArgumentsOf, Pending, SchedTypesAt
<1>3. SetprioOK'
  <2>1. sparg[t].thr # NoThread
    BY <1>0, <1>2
  <2>2. OneLwpOnly
    BY <2>1 DEF CountInv, SetprioOK, SetprioAlone
  <2>3. \A v \in Threads : sparg[v].thr # NoThread => v = t
    BY <1>0, <1>1, <2>2 DEF SchedInv, CallersRun, OnLwp, Running, OneLwpOnly
  <2>4. sparg'[t].thr = NoThread /\ \A v \in Threads \ {t} : sparg'[v] = sparg[v]
    BY <1>0, <1>1 DEF SchedTypesAt, NoSetprio
  <2> QED BY <2>3, <2>4 DEF SetprioOK
<1>4. CASE UNCHANGED <<runq, tq_size>>
  BY <1>0, <1>3, <1>4 DEF Agree, QueueCountsAgree
<1>5. CASE ut_state[u] = "UT_RUNNABLE" /\ Requeue(u, sparg[t].old)
  <2>1. PICK to \in Prios : to = ut_prio[u]
    BY <1>0, <1>5 DEF SchedInv, PrioOK
  <2>2. ASSUME NEW p \in Prios, NEW i \in 1..Len(runq[p]), runq[p][i] = u,
               runq' = Enqueued([runq EXCEPT ![p] = RemoveAt(@, i)], to, u),
               tq_size' = SizeUp([tq_size EXCEPT ![sparg[t].old] = @ - 1], to)
        PROVE  Agree(runq', tq_size')
    <3>1. p = sparg[t].old
      BY <1>0, <1>2, <2>2 DEF CountInv, SetprioOK, Contains
    <3> DEFINE g == [runq EXCEPT ![p] = RemoveAt(@, i)]
               from == [tq_size EXCEPT ![p] = @ - 1]
    <3>2. Agree(g, from) /\ g \in [Prios -> Seq(Threads)] /\ from \in [Prios -> Int]
      BY <1>0, RemovedAgree
    <3>3. runq' = Enqueued(g, to, u) /\ tq_size' = SizeUp(from, to)
      BY <2>2, <3>1
    <3> HIDE DEF g, from
    <3> QED BY <3>2, <3>3, EnqueuedAgree
  <2>3. Agree(runq', tq_size')
    BY <1>0, <1>5, <2>1, <2>2 DEF Requeue, RequeueAs, Agree
  <2> QED BY <1>3, <2>3 DEF Agree, QueueCountsAgree
<1> QED BY <1>2, <1>4, <1>5 DEF SetprioLock

\* uthread_setprio reads a priority at which the thread, if queued, is queued.
LEMMA SetprioReadCount ==
    ASSUME CountInv, SetprioAlone, NEW l \in LWPs, NEW t \in Threads, NEW u \in Threads, NEW prio \in Prios,
           SetprioRead(l, t, u, prio)
    PROVE  SetprioOK' /\ UNCHANGED <<runq, tq_size>>
<1>0. runq \in [Prios -> Seq(Threads)] /\ SchedInv /\ SchedTypesAt /\ NoThread \notin Threads
  BY TypesOf, SchedTypesOf DEF CountInv, SchedInv, PlaceInv, PlaceTypes
<1>1. /\ Running(l, t) /\ ~AtHead(t, {"setprio_write", "setprio_lock"}) /\ "setprio" \in Calls
      /\ sparg' = [sparg EXCEPT ![t] = [thr |-> u, prio |-> prio, old |-> ut_prio[u]]]
      /\ UNCHANGED <<runq, tq_size>>
  BY DEF SetprioRead, InClient, Running, AtHead, runqVars
<1>2. \A v \in Threads : sparg[v].thr = NoThread
  BY <1>1, NobodySetsPrio DEF Running
<1>3. \A p \in Prios : Contains(runq[p], u) => p = ut_prio[u]
  BY <1>0, <1>2 DEF SchedInv, QueuedAtItsPriority, Contains
<1>4. /\ sparg'[t].thr = u /\ sparg'[t].old = ut_prio[u]
      /\ \A v \in Threads \ {t} : sparg'[v] = sparg[v]
  BY <1>0, <1>1 DEF SchedTypesAt
<1>5. SetprioOK'
  BY <1>1, <1>2, <1>3, <1>4 DEF SetprioOK
<1> QED BY <1>1, <1>5

LEMMA CountStep ==
    ASSUME Disciplined, SetprioAlone, CountInv, SyncNext
    PROVE  SetprioOK' /\ QueueCountsAgree'
<1>1. ASSUME UNCHANGED <<runq, tq_size, sparg>>
      PROVE  SetprioOK' /\ QueueCountsAgree'
  BY <1>1, SetprioFrame DEF CountInv, QueueCountsAgree
<1>2. ASSUME NEW l \in LWPs, NEW t \in Threads, LibraryStep(l, t)
      PROVE  SetprioOK' /\ QueueCountsAgree'
  <2>1. SwitchAborts(l, t) \/ Return(l, t) \/ YieldLock(l, t) \/ WakeUnlock(l, t) \/ SetprioWrite(l, t)
          \/ AllocClaim(l, t) \/ CreateInit(l, t) \/ AllocStackFails(l, t)
        => UNCHANGED <<runq, tq_size, sparg>>
    BY DEF SwitchAborts, Return, YieldLock, WakeUnlock, SetprioWrite, AllocClaim, CreateInit, AllocStackFails,
           runqVars, argVars
  <2> QED BY <1>1, <1>2, <2>1, SwitchCount, EnqueueCount, SetprioCount DEF LibraryStep
<1>3. ASSUME NEW l \in LWPs, NEW t \in Threads, ClientStep(l, t) \/ ClockInterrupt(l, t)
      PROVE  SetprioOK' /\ QueueCountsAgree'
  <2>1. UthreadYield(l, t) \/ UthreadBlock(l, t) \/ ClockInterrupt(l, t) => UNCHANGED <<runq, tq_size, sparg>>
    BY DEF UthreadYield, UthreadBlock, ClockInterrupt, runqVars, argVars
  <2>2. \A u \in Threads : UthreadWake(l, t, u) \/ AllocScan(l, t, u) => UNCHANGED <<runq, tq_size, sparg>>
    BY DEF UthreadWake, AllocScan, AllocFound, runqVars
  <2>3. ASSUME NEW u \in Threads, NEW prio \in Prios, SetprioRead(l, t, u, prio)
        PROVE  SetprioOK' /\ QueueCountsAgree'
    BY <2>3, SetprioReadCount DEF CountInv, QueueCountsAgree
  <2> QED BY <1>1, <1>3, <2>1, <2>2, <2>3 DEF ClientStep
<1>4. ASSUME NEW l \in LWPs, NEW t \in Threads, SyncLibraryStep(l, t)
      PROVE  UNCHANGED <<runq, tq_size, sparg>>
  BY <1>4 DEF SyncLibraryStep, MtxLock, MtxLocked, MtxTrylock, MtxUnlock, CondWait, CondSleep, CondRelock,
              CondSignal, CondBroadcast, runqVars, argVars
<1>5. ASSUME NEW l \in LWPs, NEW t \in Threads, SyncClientStep(l, t)
      PROVE  UNCHANGED <<runq, tq_size, sparg>>
  BY <1>5 DEF SyncClientStep, UthreadMtxLock, UthreadMtxTrylock, UthreadMtxUnlock, UthreadCondWait,
              UthreadCondSignal, UthreadCondBroadcast, EntryUnchanged, runqVars, argVars
<1> QED BY <1>1, <1>2, <1>3, <1>4, <1>5, LwpCount DEF SyncNext, SchedNext

LEMMA CountInvInit == SyncInit => CountInv
<1> SUFFICES ASSUME SyncInit PROVE CountInv
  OBVIOUS
<1>1. SetprioOK
  BY DEF SyncInit, SchedInit, NoSetprio, SetprioOK
<1>2. QueueCountsAgree
  BY SchedAssumption DEF SyncInit, SchedInit, QueueCountsAgree
<1> QED BY <1>1, <1>2, SchedInvInit DEF CountInv

\* Every counter is the length of its list, so the assertion of utqueue_empty
\* holds, provided that a uthread_setprio meets no other LWP.
THEOREM CountsAgree ==
    ASSUME Disciplined, "setprio" \in Calls => OneLwpOnly
    PROVE  SyncSpec => []QueueCountsAgree
<1>1. CountInv /\ [SyncNext]_syncVars => CountInv'
  <2>1. SUFFICES ASSUME CountInv, [SyncNext]_syncVars PROVE SetprioOK' /\ QueueCountsAgree'
    BY SchedInvNext DEF CountInv
  <2>2. CASE SyncNext
    BY <2>1, <2>2, CountStep DEF SetprioAlone
  <2>3. CASE UNCHANGED syncVars
    <3>1. UNCHANGED <<runq, tq_size, sparg>>
      BY <2>3 DEF syncVars, schedVars, runqVars, argVars
    <3> QED BY <2>1, <3>1 DEF CountInv, SetprioOK, QueueCountsAgree
  <2> QED BY <2>1, <2>2, <2>3
<1>2. CountInv => QueueCountsAgree
  BY DEF CountInv
<1> QED BY <1>1, <1>2, CountInvInit, PTL DEF SyncSpec

-----------------------------------------------------------------------------
(* uthread_alloc, where one LWP runs every thread.                         *)

\* The current code of t ends, or becomes other code than uthread_alloc's.
MovesOn(t) ==
    \/ stack[t] # <<>> /\ Continue(t, <<>>)
    \/ \E f \in AllLabels \ {"alloc_claim"}, g \in AllLabels :
          \/ stack[t] # <<>> /\ (Continue(t, <<f>>) \/ Continue(t, <<f, g>>))
          \/ Push(t, <<f>>) \/ Push(t, <<f, g>>)

LEMMA MovesOnHead ==
    ASSUME TypeInv, NEW t \in Threads, MovesOn(t)
    PROVE  ~AtHead(t, {"alloc_claim"})' /\ \A v \in Threads \ {t} : stack'[v] = stack[v]
<1>1. CASE stack[t] # <<>> /\ Continue(t, <<>>)
  <2>1. \A v \in Threads \ {t} : stack'[v] = stack[v]
    BY <1>1, AfterContinue
  <2> QED BY <1>1, <2>1, PopHead DEF AtHead
<1>2. ASSUME NEW f \in AllLabels \ {"alloc_claim"}, NEW g \in AllLabels,
             \/ stack[t] # <<>> /\ (Continue(t, <<f>>) \/ Continue(t, <<f, g>>))
             \/ Push(t, <<f>>) \/ Push(t, <<f, g>>)
      PROVE  ~AtHead(t, {"alloc_claim"})' /\ \A v \in Threads \ {t} : stack'[v] = stack[v]
  <2>1. AtHead(t, {"alloc_claim"})' <=> f \in {"alloc_claim"}
    BY <1>2, GoHead
  <2> QED BY <1>2, <2>1, GoHead
<1> QED BY <1>1, <1>2 DEF MovesOn

\* Every step of the LWP's thread t, if any, except that of uthread_alloc's scan.
LEMMA AllocFrame ==
    ASSUME OneLwpOnly, AllocInv, NEW l \in LWPs, NEW t, curthr[l] = t,
           \A v \in Threads : newthr'[v] = newthr[v] \/ newthr'[v] = NoThread,
           \A v \in Threads \ {t} : stack'[v] = stack[v] \/ ~AtHead(v, {"alloc_claim"})',
           \A v \in Threads : ut_state[v] # "UT_NO_STATE" => ut_state'[v] # "UT_NO_STATE",
           t \in Threads =>
              /\ ~AtHead(t, {"alloc_claim"})'
              /\ AtHead(t, {"alloc_claim"}) /\ newthr'[t] # NoThread => ut_state'[newthr[t]] # "UT_NO_STATE"
    PROVE  AllocOK' /\ AllocatedOnce'
<1>0. newthr \in [Threads -> Threads \cup {NoThread}]
  BY TypesOf DEF AllocInv, PlaceTypes
<1>1. \A v \in Threads \ {t} : ~AtHead(v, {"alloc_claim"})
  BY DEF AllocInv, AllocOK, OnLwp, Running, OneLwpOnly
<1>2. \A v \in Threads : ~AtHead(v, {"alloc_claim"})'
  BY <1>1 DEF AtHead
<1>3. ASSUME NEW v \in Threads, newthr'[v] # NoThread
      PROVE  ut_state'[newthr'[v]] # "UT_NO_STATE"
  <2>1. newthr'[v] = newthr[v] /\ newthr[v] \in Threads
    BY <1>0, <1>3
  <2>2. CASE v = t /\ AtHead(t, {"alloc_claim"})
    BY <1>3, <2>1, <2>2
  <2>3. CASE ~AtHead(v, {"alloc_claim"})
    BY <1>3, <2>1, <2>3 DEF AllocInv, AllocOK
  <2> QED BY <1>1, <2>2, <2>3
<1>4. AllocatedOnce'
  BY DEF AllocInv, AllocatedOnce
<1> QED BY <1>2, <1>3, <1>4 DEF AllocOK

\* Steps of threads that neither scan for a slot nor claim one.
LEMMA AllocQuiet ==
    ASSUME OneLwpOnly, AllocInv, NEW l \in LWPs, NEW t \in Threads, Running(l, t),
           ~AtHead(t, {"alloc_claim"}), MovesOn(t) \/ (UNCHANGED stack),
           \A v \in Threads : newthr'[v] = newthr[v] \/ newthr'[v] = NoThread,
           \A v \in Threads : ut_state[v] # "UT_NO_STATE" => ut_state'[v] # "UT_NO_STATE"
    PROVE  AllocOK' /\ AllocatedOnce'
<1>1. ~AtHead(t, {"alloc_claim"})' /\ \A v \in Threads \ {t} : stack'[v] = stack[v]
  <2>1. CASE MovesOn(t)
    BY <2>1, MovesOnHead DEF AllocInv
  <2>2. CASE UNCHANGED stack
    BY <2>2 DEF AtHead
  <2> QED BY <2>1, <2>2
<1>2. curthr[l] = t
  BY DEF Running
<1> QED BY <1>1, <1>2, AllocFrame

\* What a scan of the run queues does to the states.
LEMMA ScanStates ==
    ASSUME NEW l \in LWPs, NEW rq \in [Prios -> Seq(Threads)], NEW sz, NEW st \in [Threads -> UtStates], NEW lw,
           curthr \in [LWPs -> Threads \cup {NoThread}], Dispatch(l, rq, sz, st, lw)
    PROVE  \A v \in Threads : st[v] # "UT_NO_STATE" => ut_state'[v] # "UT_NO_STATE"
<1>1. Scanned(l, rq, st)
  BY DispatchKeeps, SchedAssumption
<1> QED BY <1>1, SchedAssumption DEF Scanned

LEMMA LwpAlloc ==
    ASSUME OneLwpOnly, AllocInv, NEW l \in LWPs, LwpStep(l)
    PROVE  AllocOK' /\ AllocatedOnce'
<1>0. /\ runq \in [Prios -> Seq(Threads)] /\ ut_state \in [Threads -> UtStates]
      /\ curthr \in [LWPs -> Threads \cup {NoThread}] /\ LwpOK /\ NoThread \notin Threads
  BY TypesOf DEF AllocInv, PlaceTypes
<1>1. curthr[l] = NoThread /\ UNCHANGED <<stack, newthr>>
  BY <1>0 DEF LwpStep, LwpStart, Unpark, SpuriousWakeup, LwpOK, argVars
<1>2. \A v \in Threads : ut_state[v] # "UT_NO_STATE" => ut_state'[v] # "UT_NO_STATE"
  <2>1. CASE Dispatch(l, runq, tq_size, ut_state, lwp)
    BY <1>0, <2>1, ScanStates
  <2>2. CASE UNCHANGED ut_state
    BY <2>2
  <2> QED BY <2>1, <2>2 DEF LwpStep, LwpStart, Unpark, SpuriousWakeup, thrVars
<1> QED BY <1>0, <1>1, <1>2, AllocFrame

LEMMA SwitchAlloc ==
    ASSUME OneLwpOnly, AllocInv, NEW l \in LWPs, NEW t \in Threads, Switch(l, t)
    PROVE  AllocOK' /\ AllocatedOnce'
<1> DEFINE save == swarg[t].saveonrq /\ swarg[t].queue = NoObj
           rq == IF save THEN Enqueued(runq, ut_prio[t], t) ELSE runq
           sz == IF save THEN SizeUp(tq_size, ut_prio[t]) ELSE tq_size
           st == IF save THEN [ut_state EXCEPT ![t] = "UT_RUNNABLE"] ELSE ut_state
<1>0. /\ runq \in [Prios -> Seq(Threads)] /\ ut_state \in [Threads -> UtStates] /\ tq_size \in [Prios -> Int]
      /\ curthr \in [LWPs -> Threads \cup {NoThread}]
  BY TypesOf, SchedTypesOf DEF AllocInv, PlaceTypes, SchedTypesAt
<1>1. Running(l, t) /\ ~AtHead(t, {"alloc_claim"}) /\ stack[t] # <<>> /\ Continue(t, <<>>) /\ UNCHANGED newthr
  BY DEF Switch, At, AtHead
<1>2. PICK lw : Dispatch(l, rq, sz, st, lw)
  BY DEF Switch
<1>3. rq \in [Prios -> Seq(Threads)]
  <2>1. Enqueued(runq, ut_prio[t], t) \in [Prios -> Seq(Threads)]
    <3>1. \A p \in Prios : Append(runq[p], t) \in Seq(Threads)
      BY <1>0
    <3> QED BY <1>0, <3>1 DEF Enqueued
  <2> QED BY <1>0, <2>1
<1>4. st \in [Threads -> UtStates] /\ \A v \in Threads : ut_state[v] # "UT_NO_STATE" => st[v] # "UT_NO_STATE"
  BY <1>0 DEF UtStates
<1> HIDE DEF rq, sz, st, save
<1>5. \A v \in Threads : ut_state[v] # "UT_NO_STATE" => ut_state'[v] # "UT_NO_STATE"
  BY <1>0, <1>2, <1>3, <1>4, ScanStates
<1>6. MovesOn(t)
  BY <1>1 DEF MovesOn
<1> QED BY <1>1, <1>5, <1>6, AllocQuiet

\* The scan finds a free slot, which no other uthread_create has found, and the
\* claim takes it.
LEMMA ScanAlloc ==
    ASSUME OneLwpOnly, AllocInv, NEW l \in LWPs, NEW t \in Threads, NEW u \in Threads, AllocScan(l, t, u)
    PROVE  AllocOK' /\ AllocatedOnce'
<1>0. TypeInv /\ PlaceTypes /\ NoThread \notin Threads
  BY TypesOf DEF AllocInv
<1>1. /\ Running(l, t) /\ stack[t] = <<>> /\ ut_state[u] = "UT_NO_STATE" /\ Push(t, <<"alloc_claim">>)
      /\ newthr' = [newthr EXCEPT ![t] = u] /\ UNCHANGED <<curthr, ut_state>>
  BY DEF AllocScan, AllocFound, InClient, Running, cpuVars
<1>2. newthr'[t] = u /\ \A v \in Threads \ {t} : newthr'[v] = newthr[v]
  BY <1>0, <1>1 DEF PlaceTypes
<1>3. AtHead(t, {"alloc_claim"})' /\ \A v \in Threads \ {t} : stack'[v] = stack[v]
  BY <1>0, <1>1, GoHead, LabelNames
<1>4. \A v \in Threads \ {t} : ~AtHead(v, {"alloc_claim"})
  BY <1>1 DEF AllocInv, AllocOK, OnLwp, Running, OneLwpOnly
<1>5. \A v \in Threads \ {t} : newthr[v] # u
  BY <1>0, <1>1, <1>4 DEF AllocInv, AllocOK
<1>6. AllocatedOnce'
  BY <1>2, <1>5 DEF AllocInv, AllocatedOnce
<1>7. \A v \in Threads : AtHead(v, {"alloc_claim"})' => OnLwp(v)'
  BY <1>1, <1>3, <1>4 DEF AtHead, OnLwp, Running
<1>8. \A v \in Threads : newthr'[v] # NoThread /\ ~AtHead(v, {"alloc_claim"})' => ut_state'[newthr'[v]] # "UT_NO_STATE"
  BY <1>1, <1>2, <1>3, <1>4 DEF AllocInv, AllocOK
<1> QED BY <1>6, <1>7, <1>8 DEF AllocOK

LEMMA ClaimAlloc ==
    ASSUME OneLwpOnly, AllocInv, NEW l \in LWPs, NEW t \in Threads,
           AllocClaim(l, t) \/ CreateInit(l, t)
    PROVE  AllocOK' /\ AllocatedOnce'
<1>0. TypeInv /\ PlaceTypes /\ NoThread \notin Threads
  BY TypesOf DEF AllocInv
<1>1. /\ Running(l, t) /\ curthr[l] = t /\ stack[t] # <<>> /\ UNCHANGED newthr
  BY DEF AllocClaim, CreateInit, At, Running, argVars
<1>2. CASE AllocClaim(l, t)
  <2>1. Head(stack[t]) = "alloc_claim"
    BY <1>2 DEF AllocClaim, At
  <2>2. PICK u \in Threads : u = newthr[t]
    BY <1>0, <1>1, <2>1 DEF TypeInv, ArgumentsOK, ArgumentsOf, NeedsNewthr, Pending, PlaceTypes
  <2>3. ut_state' = [ut_state EXCEPT ![u] = "UT_TRANSITION"] /\ Continue(t, <<"create_init">>)
    BY <1>2, <2>2 DEF AllocClaim
  <2>4. ut_state'[u] = "UT_TRANSITION" /\ \A v \in Threads \ {u} : ut_state'[v] = ut_state[v]
    BY <1>0, <2>3 DEF PlaceTypes
  <2>5. MovesOn(t)
    <3>1. "create_init" \in AllLabels \ {"alloc_claim"}
      BY LabelNames
    <3> QED BY <1>1, <2>3, <3>1 DEF MovesOn
  <2>6. ~AtHead(t, {"alloc_claim"})' /\ \A v \in Threads \ {t} : stack'[v] = stack[v]
    BY <1>0, <2>5, MovesOnHead
  <2>7. \A v \in Threads : ut_state[v] # "UT_NO_STATE" => ut_state'[v] # "UT_NO_STATE"
    BY <2>4
  <2> QED BY <1>1, <2>2, <2>4, <2>6, <2>7, AllocFrame
<1>3. CASE CreateInit(l, t)
  <2>1. Head(stack[t]) = "create_init"
    BY <1>3 DEF CreateInit, At
  <2>2. PICK u \in Threads : u = newthr[t] /\ u # t
    BY <1>0, <1>1, <2>1 DEF TypeInv, ThreadsExist, ArgumentsOK, ArgumentsOf, NeedsNewthr, Pending, PlaceTypes
  <2>3. /\ stack' = [stack EXCEPT ![u] = <<"nopreempt_off">>, ![t] = <<"startonrunq">> \o Tail(@)]
        /\ UNCHANGED ut_state
    BY <1>3, <2>2 DEF CreateInit
  <2>4. /\ stack'[u] = <<"nopreempt_off">> /\ stack'[t] = <<"startonrunq">> \o Tail(stack[t])
        /\ \A v \in Threads \ {t} : v # u => stack'[v] = stack[v]
    BY <1>0, <2>2, <2>3 DEF PlaceTypes
  <2>5. ~AtHead(u, {"alloc_claim"})'
    BY <2>4, Literals DEF AtHead
  <2>6. ~AtHead(t, {"alloc_claim"})'
    <3>1. Tail(stack[t]) \in Seq(AllLabels) /\ "startonrunq" \in AllLabels
      BY <1>0, <1>1, RowOf, LabelNames
    <3>2. Head(stack'[t]) = "startonrunq"
      BY <2>4, <3>1, ConsProperties
    <3> QED BY <3>2 DEF AtHead
  <2>7. ~AtHead(t, {"alloc_claim"})
    BY <2>1 DEF AtHead
  <2>8. \A v \in Threads \ {t} : stack'[v] = stack[v] \/ ~AtHead(v, {"alloc_claim"})'
    BY <2>4, <2>5
  <2> QED BY <1>1, <2>3, <2>6, <2>7, <2>8, AllocFrame
<1> QED BY <1>2, <1>3

LEMMA LibraryAlloc ==
    ASSUME OneLwpOnly, AllocInv, NEW l \in LWPs, NEW t \in Threads, LibraryStep(l, t)
    PROVE  AllocOK' /\ AllocatedOnce'
<1>0. TypeInv /\ PlaceTypes
  BY TypesOf DEF AllocInv
<1>1. ASSUME Running(l, t), stack[t] # <<>>, Head(stack[t]) # "alloc_claim", MovesOn(t) \/ UNCHANGED stack,
             \A v \in Threads : newthr'[v] = newthr[v] \/ newthr'[v] = NoThread,
             UNCHANGED ut_state \/ \E u : ut_state' = [ut_state EXCEPT ![u] = "UT_RUNNABLE"]
      PROVE  AllocOK' /\ AllocatedOnce'
  <2>1. \A v \in Threads : ut_state[v] # "UT_NO_STATE" => ut_state'[v] # "UT_NO_STATE"
    BY <1>0, <1>1 DEF PlaceTypes
  <2>2. ~AtHead(t, {"alloc_claim"})
    BY <1>1 DEF AtHead
  <2> QED BY <1>1, <2>1, <2>2, AllocQuiet
<1>2. CASE SwitchAborts(l, t)
  <2>1. Running(l, t) /\ stack[t] # <<>> /\ Head(stack[t]) # "alloc_claim" /\ UNCHANGED <<stack, ut_state, newthr>>
    BY <1>2 DEF SwitchAborts, At, thrVars, argVars
  <2> QED BY <1>1, <2>1
<1>3. CASE Return(l, t) \/ WakeUnlock(l, t)
  <2>1. /\ Running(l, t) /\ stack[t] # <<>> /\ Head(stack[t]) # "alloc_claim" /\ Continue(t, <<>>)
        /\ UNCHANGED <<ut_state, newthr>>
    BY <1>3 DEF Return, WakeUnlock, At, thrVars, argVars
  <2> QED BY <1>1, <2>1 DEF MovesOn
<1>4. CASE AllocStackFails(l, t)
  <2>1. /\ Running(l, t) /\ stack[t] # <<>> /\ Head(stack[t]) # "alloc_claim" /\ Continue(t, <<>>)
        /\ UNCHANGED ut_state /\ newthr' = [newthr EXCEPT ![t] = NoThread]
    BY <1>4 DEF AllocStackFails, At, thrVars
  <2> QED BY <1>0, <1>1, <2>1 DEF MovesOn, PlaceTypes
<1>5. ASSUME NEW f \in {"switch", "setprio_lock"}, YieldLock(l, t) \/ SetprioWrite(l, t), Continue(t, <<f>>)
      PROVE  AllocOK' /\ AllocatedOnce'
  <2>1. /\ Running(l, t) /\ stack[t] # <<>> /\ Head(stack[t]) # "alloc_claim"
        /\ UNCHANGED <<ut_state, newthr>>
    BY <1>5 DEF YieldLock, SetprioWrite, At, thrVars, argVars
  <2>2. f \in AllLabels \ {"alloc_claim"}
    BY LabelNames
  <2> QED BY <1>1, <1>5, <2>1, <2>2 DEF MovesOn
<1>6. CASE Wake(l, t)
  <2>1. Running(l, t) /\ stack[t] # <<>> /\ Head(stack[t]) # "alloc_claim" /\ UNCHANGED newthr
    BY <1>6 DEF Wake, At
  <2>2. UNCHANGED ut_state \/ \E u : ut_state' = [ut_state EXCEPT ![u] = "UT_RUNNABLE"]
    BY <1>6 DEF Wake, MakeRunnable, WakeQueues
  <2>3. MovesOn(t)
    <3>1. "wake_unlock" \in AllLabels \ {"alloc_claim"}
      BY LabelNames
    <3> QED BY <1>6, <2>1, <3>1 DEF Wake, MovesOn
  <2> QED BY <1>1, <2>1, <2>2, <2>3
<1>7. CASE SetprioLock(l, t)
  <2>1. Running(l, t) /\ stack[t] # <<>> /\ Head(stack[t]) # "alloc_claim" /\ UNCHANGED newthr
    BY <1>7 DEF SetprioLock, At
  <2>2. UNCHANGED ut_state \/ \E u : ut_state' = [ut_state EXCEPT ![u] = "UT_RUNNABLE"]
    BY <1>7 DEF SetprioLock, YieldEnter
  <2>3. MovesOn(t)
    <3>1. "yield_lock" \in AllLabels \ {"alloc_claim"} /\ "nopreempt_off" \in AllLabels
      BY LabelNames
    <3> QED BY <1>7, <2>1, <3>1 DEF SetprioLock, MovesOn, YieldFrames
  <2> QED BY <1>1, <2>1, <2>2, <2>3
<1>8. ASSUME NEW prio \in Prios, StartOnRunq(l, t, prio)
      PROVE  AllocOK' /\ AllocatedOnce'
  <2>1. Running(l, t) /\ stack[t] # <<>> /\ Head(stack[t]) # "alloc_claim"
    BY <1>8 DEF StartOnRunq, At
  <2>2. CASE UNCHANGED <<ut_state, newthr, stack>>
    BY <1>1, <2>1, <2>2
  <2>3. CASE /\ ut_state' = [ut_state EXCEPT ![newthr[t]] = "UT_RUNNABLE"]
             /\ newthr' = [newthr EXCEPT ![t] = NoThread] /\ Continue(t, <<>>)
    BY <1>0, <1>1, <2>1, <2>3 DEF MovesOn, PlaceTypes
  <2> QED BY <1>8, <2>2, <2>3 DEF StartOnRunq
<1>9. YieldLock(l, t) \/ SetprioWrite(l, t) => \E f \in {"switch", "setprio_lock"} : Continue(t, <<f>>)
  BY DEF YieldLock, SetprioWrite
<1> QED BY <1>2, <1>3, <1>4, <1>5, <1>6, <1>7, <1>8, <1>9, SwitchAlloc, ClaimAlloc DEF LibraryStep

\* What clients call, and the clock.
LEMMA ClientAlloc ==
    ASSUME OneLwpOnly, AllocInv, NEW l \in LWPs, NEW t \in Threads,
           ClientStep(l, t) \/ ClockInterrupt(l, t) \/ SyncClientStep(l, t)
    PROVE  AllocOK' /\ AllocatedOnce'
<1>0. TypeInv /\ PlaceTypes
  BY TypesOf DEF AllocInv
<1>1. ASSUME Running(l, t), ~AtHead(t, {"alloc_claim"}), UNCHANGED newthr, NEW f \in AllLabels \ {"alloc_claim"},
             NEW g \in AllLabels, Push(t, <<f>>) \/ Push(t, <<f, g>>),
             UNCHANGED ut_state \/ \E s \in {"UT_RUNNABLE", "UT_WAIT"} : ut_state' = [ut_state EXCEPT ![t] = s]
      PROVE  AllocOK' /\ AllocatedOnce'
  <2>1. MovesOn(t)
    BY <1>1 DEF MovesOn
  <2>2. \A v \in Threads : ut_state[v] # "UT_NO_STATE" => ut_state'[v] # "UT_NO_STATE"
    BY <1>0, <1>1 DEF PlaceTypes
  <2> QED BY <1>1, <2>1, <2>2, AllocQuiet
<1>2. CASE UthreadYield(l, t) \/ ClockInterrupt(l, t)
  <2>1. /\ Running(l, t) /\ UNCHANGED newthr /\ Push(t, <<"yield_lock", "nopreempt_off">>)
        /\ ut_state' = [ut_state EXCEPT ![t] = "UT_RUNNABLE"]
    BY <1>2 DEF UthreadYield, ClockInterrupt, InClient, Running, YieldEnter, YieldFrames, argVars
  <2>2. ~AtHead(t, {"alloc_claim"})
    <3>1. CASE UthreadYield(l, t)
      BY <3>1 DEF UthreadYield, InClient, AtHead
    <3>2. CASE ClockInterrupt(l, t)
      <4>1. ut_no_preempt_count[t] = 0
        BY <3>2 DEF ClockInterrupt
      <4>2. ASSUME stack[t] # <<>> PROVE Head(stack[t]) # "alloc_claim"
        <5>1. <<ut_no_preempt_count[t], Head(stack[t]), Tail(stack[t])>> \in Continuations
          BY <1>0, <4>2, RowOf
        <5> QED BY <4>1, <5>1, Rows
      <4> QED BY <4>2 DEF AtHead
    <3> QED BY <1>2, <3>1, <3>2
  <2>3. "yield_lock" \in AllLabels \ {"alloc_claim"} /\ "nopreempt_off" \in AllLabels
    BY LabelNames
  <2> QED BY <1>1, <2>1, <2>2, <2>3
<1>3. CASE UthreadBlock(l, t)
  <2>1. /\ Running(l, t) /\ stack[t] = <<>> /\ UNCHANGED newthr /\ Push(t, <<"switch", "nopreempt_off">>)
        /\ ut_state' = [ut_state EXCEPT ![t] = "UT_WAIT"]
    BY <1>3 DEF UthreadBlock, InClient, Running, argVars
  <2>2. "switch" \in AllLabels \ {"alloc_claim"} /\ "nopreempt_off" \in AllLabels
    BY LabelNames
  <2> QED BY <1>1, <2>1, <2>2 DEF AtHead
<1>4. ASSUME NEW f \in AllLabels \ {"alloc_claim"}, InClient(l, t), Push(t, <<f>>), UNCHANGED <<ut_state, newthr>>
      PROVE  AllocOK' /\ AllocatedOnce'
  <2>1. Running(l, t) /\ ~AtHead(t, {"alloc_claim"})
    BY <1>4 DEF InClient, AtHead, Running
  <2> QED BY <1>1, <1>4, <2>1
<1>5. ASSUME NEW u \in Threads, UthreadWake(l, t, u) \/ \E prio \in Prios : SetprioRead(l, t, u, prio)
      PROVE  AllocOK' /\ AllocatedOnce'
  <2>1. PICK f \in {"wake", "setprio_write"} : InClient(l, t) /\ Push(t, <<f>>) /\ UNCHANGED <<ut_state, newthr>>
    BY <1>5 DEF UthreadWake, SetprioRead
  <2>2. f \in AllLabels \ {"alloc_claim"}
    BY LabelNames
  <2> QED BY <1>4, <2>1, <2>2
<1>6. CASE SyncClientStep(l, t)
  <2>1. \E f \in SyncLabels : Enter(t, f) /\ InClient(l, t) /\ EntryUnchanged
    BY <1>6 DEF SyncClientStep, UthreadMtxLock, UthreadMtxTrylock, UthreadMtxUnlock, UthreadCondWait,
           UthreadCondSignal, UthreadCondBroadcast, SyncLabels
  <2>2. PICK f \in SyncLabels : Push(t, <<f>>) /\ InClient(l, t) /\ UNCHANGED <<ut_state, newthr>>
    BY <2>1 DEF Enter, EntryUnchanged, argVars
  <2>3. f \in AllLabels \ {"alloc_claim"}
    BY DEF AllLabels, SyncLabels
  <2> QED BY <1>4, <2>2, <2>3
<1> QED BY <1>2, <1>3, <1>5, <1>6, ScanAlloc DEF ClientStep

LEMMA SyncAlloc ==
    ASSUME OneLwpOnly, AllocInv, NEW l \in LWPs, NEW t \in Threads, SyncLibraryStep(l, t)
    PROVE  AllocOK' /\ AllocatedOnce'
<1>0. TypeInv /\ PlaceTypes
  BY TypesOf DEF AllocInv
<1>1. /\ Running(l, t) /\ stack[t] # <<>> /\ UNCHANGED newthr
      /\ Head(stack[t]) \in {"mtx_lock", "mtx_locked", "mtx_trylock", "mtx_unlock", "cond_wait", "cond_sleep",
                             "cond_relock", "cond_signal", "cond_broadcast"}
  BY DEF SyncLibraryStep, MtxLock, MtxLocked, MtxTrylock, MtxUnlock, CondWait, CondSleep, CondRelock,
         CondSignal, CondBroadcast, At, argVars
<1>2. UNCHANGED ut_state \/ ut_state' = [ut_state EXCEPT ![t] = "UT_WAIT"]
  BY DEF SyncLibraryStep, MtxLock, MtxSleep, MtxLocked, MtxTrylock, MtxUnlock, CondWait, CondSleep, CondRelock,
         CondSignal, CondBroadcast
<1>3. \/ Continue(t, <<>>)
      \/ \E f \in {"switch", "wake", "mtx_unlock", "mtx_lock"},
            g \in {"mtx_locked", "mtx_locked_zombie", "nopreempt_off", "cond_sleep", "cond_relock", "cond_broadcast"} :
            Continue(t, <<f, g>>)
  BY DEF SyncLibraryStep, MtxLock, SleepFrames, MtxLocked, MtxTrylock, MtxUnlock, PassOn, CondWait, CondSleep,
         CondRelock, CondSignal, CondBroadcast, WakeOldest
<1>4. MovesOn(t)
  <2>1. {"switch", "wake", "mtx_unlock", "mtx_lock"} \subseteq AllLabels \ {"alloc_claim"}
    BY LabelNames
  <2>2. {"mtx_locked", "mtx_locked_zombie", "nopreempt_off", "cond_sleep", "cond_relock", "cond_broadcast"}
          \subseteq AllLabels
    BY LabelNames
  <2> QED BY <1>1, <1>3, <2>1, <2>2 DEF MovesOn
<1>5. ~AtHead(t, {"alloc_claim"})
  BY <1>1 DEF AtHead
<1>6. \A v \in Threads : ut_state[v] # "UT_NO_STATE" => ut_state'[v] # "UT_NO_STATE"
  BY <1>0, <1>2 DEF PlaceTypes
<1> QED BY <1>1, <1>4, <1>5, <1>6, AllocQuiet

LEMMA AllocInvInit == SyncInit => AllocInv
<1> SUFFICES ASSUME SyncInit PROVE AllocInv
  OBVIOUS
<1>1. \A t \in Threads : ~AtHead(t, {"alloc_claim"})
  BY Literals DEF SyncInit, SchedInit, AtHead
<1>2. \A t \in Threads : newthr[t] = NoThread
  BY DEF SyncInit, SchedInit
<1>3. LwpOK
  BY DEF SyncInit, SchedInit, LwpOK
<1> QED BY <1>1, <1>2, <1>3, TypeInvInit DEF AllocInv, AllocOK, AllocatedOnce

LEMMA AllocInvNext ==
    ASSUME OneLwpOnly, AllocInv, [SyncNext]_syncVars
    PROVE  AllocInv'
<1>1. TypeInv' /\ TypeInv /\ LwpOK
  BY TypeInvNext DEF AllocInv
<1>2. CASE SyncNext
  <2>1. LwpOK'
    BY <1>1, <1>2, LwpStepOK, LibraryStepOK, OtherStepOK DEF SyncNext, SchedNext
  <2>2. AllocOK' /\ AllocatedOnce'
    BY <1>2, LwpAlloc, LibraryAlloc, ClientAlloc, SyncAlloc DEF SyncNext, SchedNext
  <2> QED BY <1>1, <2>1, <2>2 DEF AllocInv
<1>3. CASE UNCHANGED syncVars
  <2>1. UNCHANGED <<curthr, lwp, ut_state, stack, newthr>>
    BY <1>3 DEF syncVars, schedVars, cpuVars, thrVars, argVars
  <2> QED BY <1>1, <2>1 DEF AllocInv, LwpOK, AllocOK, AllocatedOnce, AtHead, OnLwp, Running
<1> QED BY <1>2, <1>3

\* No slot goes to two uthread_create: on one LWP because the scan and the
\* claim are masked, whatever the clients do, and on several when only one
\* thread creates others.
THEOREM SlotsApart ==
    ASSUME OneLwpOnly \/ Disciplined
    PROVE  SyncSpec => []AllocatedOnce
<1>1. ASSUME OneLwpOnly PROVE SyncSpec => []AllocatedOnce
  <2>1. AllocInv /\ [SyncNext]_syncVars => AllocInv'
    BY <1>1, AllocInvNext
  <2>2. AllocInv => AllocatedOnce
    BY DEF AllocInv
  <2> QED BY <2>1, <2>2, AllocInvInit, PTL DEF SyncSpec
<1>2. ASSUME Disciplined PROVE SyncSpec => []AllocatedOnce
  <2>1. SchedInv => AllocatedOnce
    BY <1>2 DEF SchedInv, PlaceInv, NewbornOK, AllocatedOnce, Disciplined
  <2>2. SyncSpec => []SchedInv
    BY <1>2, SchedInvariant
  <2> QED BY <2>1, <2>2, PTL
<1> QED BY <1>1, <1>2
-----------------------------------------------------------------------------
(* Mutexes and condition variables.                                        *)

\* What OwnerInv adds to PlaceInv.
Owners == CritOwns /\ UnlockerHolds /\ SwitchQueues /\ WaitersOfMutex

CallTypes ==
    /\ m_owner \in [Mutexes -> Threads \cup {NoThread}]
    /\ marg \in [Threads -> Mutexes \cup {NoObj}]
    /\ carg \in [Threads -> Conds \cup {NoObj}]
    /\ crit \in [Threads -> SUBSET Mutexes]
    /\ pmut \in [Objs -> LWPs \cup {NoLwp}]

LEMMA CallTypesOf ==
    /\ TypeInv => CallTypes
    /\ TypeInv' => CallTypes'
  BY DEF TypeInv, SyncTypeOK, SchedTypes, CallTypes

LEMMA ObjKinds ==
    /\ Mutexes \subseteq Objs /\ Conds \subseteq Objs /\ Threads \subseteq Objs
    /\ Mutexes \cap Conds = {} /\ Mutexes \cap Threads = {} /\ Conds \cap Threads = {}
    /\ NoObj \notin Mutexes /\ NoObj \notin Conds /\ NoObj \notin Threads
  BY SchedAssumption, SyncAssumption DEF Objs

-----------------------------------------------------------------------------
(* What a thread finds below its frame.                                    *)

\* Heads that OwnerInv says something about.
Watched == {"mtx_unlock", "cond_wait", "mtx_locked", "switch"}

LEMMA BelowFrame ==
    ASSUME TypeInv, NEW t \in Threads, stack[t] # <<>>, Head(stack[t]) # "switch"
    PROVE  /\ Tail(stack[t]) = <<>> \/ Head(Tail(stack[t])) \notin Watched
           /\ Tail(stack[t]) \notin MtxTails
<1> DEFINE r == Tail(stack[t])
<1>1. r \in {<<>>, <<"nopreempt_off">>, <<"create_init">>, <<"cond_sleep">>, <<"cond_broadcast">>,
             <<"nopreempt_off", "cond_sleep">>} \cup Yielding
  <2>1. <<ut_no_preempt_count[t], Head(stack[t]), r>> \in Continuations
    BY RowOf
  <2> HIDE DEF r
  <2> QED BY <2>1 DEF Continuations
<1> HIDE DEF r
<1>2. r = <<>> \/ Head(r) \in {"nopreempt_off", "create_init", "cond_sleep", "cond_broadcast"}
  BY <1>1, Literals DEF Yielding
<1>3. r \notin MtxTails
  BY <1>2, Literals DEF MtxTails
<1> QED BY <1>2, <1>3 DEF Watched, r

LEMMA BelowSwitch ==
    ASSUME TypeInv, NEW t \in Threads, stack[t] # <<>>, Head(stack[t]) = "switch"
    PROVE  /\ Tail(stack[t]) \in MtxTails => Tail(stack[t]) # <<>> /\ Head(Tail(stack[t])) = "mtx_locked"
           /\ Tail(stack[t]) \notin MtxTails =>
                 Tail(stack[t]) = <<>> \/ Head(Tail(stack[t])) \notin Watched
<1> DEFINE r == Tail(stack[t])
<1>1. r \in {<<"nopreempt_off">>, <<"cond_relock">>, <<"mtx_locked">>, <<"mtx_locked", "nopreempt_off">>} \cup Yielding
  <2>1. <<ut_no_preempt_count[t], "switch", r>> \in Continuations
    BY RowOf
  <2> HIDE DEF r
  <2> QED BY <2>1, Rows
<1> HIDE DEF r
<1>2. r \in MtxTails => r # <<>> /\ Head(r) = "mtx_locked"
  BY Literals DEF MtxTails
<1>3. r \notin MtxTails => Head(r) \in {"nopreempt_off", "cond_relock"}
  BY <1>1, Literals DEF Yielding, MtxTails
<1> QED BY <1>2, <1>3 DEF Watched, r

-----------------------------------------------------------------------------
(* A step of one thread.                                                   *)

\* The step leaves thread u in the same place of the same calls, or starts it.
SameCalls(u) ==
    /\ \/ stack'[u] = stack[u]
       \/ ut_state[u] \in {"UT_NO_STATE", "UT_TRANSITION"} /\ stack'[u] = <<"nopreempt_off">>
    /\ swarg'[u] = swarg[u] /\ marg'[u] = marg[u] /\ crit'[u] = crit[u]

LEMMA OwnerFrame ==
    ASSUME OwnerInv, CallTypes', PlaceTypes', NEW l \in LWPs, NEW t \in Threads, Running(l, t),
           \A u \in Threads \ {t} : SameCalls(u),
           \A m \in Mutexes : m_owner'[m] = m_owner[m] \/ m_owner[m] \in {NoThread, t},
           \A m \in Mutexes, u \in Threads \ {t} : InQueue(m, u)' => InQueue(m, u),
           \A m \in Mutexes, u \in Threads \ {t} : InQueue(m, u) => InQueue(m, u)' \/ m_owner'[m] = u,
           \A m \in Mutexes : InQueue(m, t)' => AtHead(t, {"mtx_locked"})' /\ marg'[t] = m,
           \A m \in crit'[t] : m_owner'[m] = t,
           AtHead(t, {"mtx_unlock", "cond_wait"})' => marg'[t] \in crit'[t],
           AtHead(t, {"switch"})' =>
              /\ Tail(stack'[t]) \in MtxTails => swarg'[t].queue = marg'[t]
              /\ swarg'[t].queue \in Mutexes => Tail(stack'[t]) \in MtxTails,
           AtHead(t, {"mtx_locked"})' => InQueue(marg[t], t)' \/ m_owner'[marg'[t]] = t
    PROVE  Owners'
<1>0. TypeInv /\ PlaceTypes /\ CallTypes /\ NoThread \notin Threads
  BY TypesOf, CallTypesOf DEF OwnerInv, PlaceInv
<1>1. ASSUME NEW u \in Threads \ {t}, NEW heads, heads \cap {"nopreempt_off"} = {}
      PROVE  /\ AtHead(u, heads)' => AtHead(u, heads) /\ stack'[u] = stack[u]
             /\ swarg'[u] = swarg[u] /\ marg'[u] = marg[u] /\ crit'[u] = crit[u]
  BY <1>1, Literals DEF SameCalls, AtHead
<1>2. CritOwns'
  <2>1. SUFFICES ASSUME NEW u \in Threads, NEW m \in crit'[u] PROVE m_owner'[m] = u
    BY DEF CritOwns
  <2>2. CASE u = t
    BY <2>1, <2>2
  <2>3. CASE u # t
    <3>1. m \in crit[u] /\ m \in Mutexes
      BY <1>0, <2>1, <2>3 DEF SameCalls, CallTypes
    <3>2. m_owner[m] = u
      BY <3>1 DEF OwnerInv, CritOwns
    <3> QED BY <1>0, <2>3, <3>1, <3>2
  <2> QED BY <2>2, <2>3
<1>3. UnlockerHolds'
  <2>1. SUFFICES ASSUME NEW u \in Threads, AtHead(u, {"mtx_unlock", "cond_wait"})'
                 PROVE  marg'[u] \in crit'[u]
    BY DEF UnlockerHolds
  <2>2. CASE u = t
    BY <2>1, <2>2
  <2>3. CASE u # t
    BY <1>1, <2>1, <2>3 DEF OwnerInv, UnlockerHolds
  <2> QED BY <2>2, <2>3
<1>4. SwitchQueues'
  <2>1. SUFFICES ASSUME NEW u \in Threads, AtHead(u, {"switch"})'
                 PROVE  /\ Tail(stack'[u]) \in MtxTails => swarg'[u].queue = marg'[u]
                        /\ swarg'[u].queue \in Mutexes => Tail(stack'[u]) \in MtxTails
    BY DEF SwitchQueues
  <2>2. CASE u = t
    BY <2>1, <2>2
  <2>3. CASE u # t
    <3>1. AtHead(u, {"switch"}) /\ stack'[u] = stack[u] /\ swarg'[u] = swarg[u] /\ marg'[u] = marg[u]
      BY <1>1, <2>1, <2>3
    <3> QED BY <3>1 DEF OwnerInv, SwitchQueues
  <2> QED BY <2>2, <2>3
<1>5. ASSUME NEW m \in Mutexes, NEW u \in Threads, InQueue(m, u)'
      PROVE  AtHead(u, {"mtx_locked"})' /\ marg'[u] = m
  <2>1. CASE u = t
    BY <1>5, <2>1
  <2>2. CASE u # t
    <3>1. InQueue(m, u)
      BY <1>5, <2>2
    <3>2. AtHead(u, {"mtx_locked"}) /\ marg[u] = m
      BY <3>1 DEF OwnerInv, WaitersOfMutex
    <3>3. ut_state[u] = "UT_WAIT"
      BY <3>1, ObjKinds DEF InQueue, OwnerInv, PlaceInv, WaitqOK
    <3> QED BY <2>2, <3>2, <3>3 DEF SameCalls, AtHead
  <2> QED BY <2>1, <2>2
<1>6. ASSUME NEW u \in Threads, AtHead(u, {"mtx_locked"})'
      PROVE  InQueue(marg[u], u)' \/ m_owner'[marg'[u]] = u
  <2>1. CASE u = t
    BY <1>6, <2>1
  <2>2. CASE u # t
    <3>1. AtHead(u, {"mtx_locked"}) /\ marg'[u] = marg[u]
      BY <1>1, <1>6, <2>2
    <3>2. PICK m \in Mutexes : m = marg[u]
      BY <1>0, <3>1 DEF AtHead, TypeInv, ArgumentsOK, ArgumentsOf, NeedsMutex, Pending, CallTypes
    <3>3. InQueue(m, u) \/ m_owner[m] = u
      BY <3>1, <3>2 DEF OwnerInv, WaitersOfMutex
    <3>4. InQueue(m, u)' \/ m_owner'[m] = u
      BY <1>0, <2>2, <3>3
    <3> QED BY <3>1, <3>2, <3>4 DEF InQueue
  <2> QED BY <2>1, <2>2
<1>7. WaitersOfMutex'
  BY <1>5, <1>6 DEF WaitersOfMutex
<1> QED BY <1>2, <1>3, <1>4, <1>7 DEF Owners

\* Thread t changes no owner and no queue of a mutex, and comes to no code that
\* OwnerInv says something about.
LEMMA Unwatched ==
    ASSUME OwnerInv, CallTypes', PlaceTypes', NEW l \in LWPs, NEW t \in Threads, Running(l, t),
           UNCHANGED <<m_owner, crit>>, \A m \in Mutexes : waitq'[m] = waitq[m],
           \A u \in Threads \ {t} : SameCalls(u),
           \/ UNCHANGED <<stack, swarg, marg>>
           \/ stack'[t] = <<>>
           \/ Head(stack'[t]) \notin Watched
           \/ Head(stack'[t]) = "switch" /\ swarg'[t].queue \notin Mutexes /\ Tail(stack'[t]) \notin MtxTails
    PROVE  Owners'
<1>0. TypeInv /\ PlaceTypes
  BY TypesOf DEF OwnerInv, PlaceInv
<1>1. \A m \in Mutexes, u \in Threads : InQueue(m, u)' <=> InQueue(m, u)
  BY DEF InQueue
<1>2. \A m \in Mutexes : ~InQueue(m, t)
  BY ObjKinds DEF OwnerInv, PlaceInv, WaitqOK, InQueue, OnNoLwp, Running
<1>3. \A m \in crit'[t] : m_owner'[m] = t
  BY DEF OwnerInv, CritOwns
<1>4. AtHead(t, {"mtx_unlock", "cond_wait"})' => marg'[t] \in crit'[t]
  BY DEF OwnerInv, UnlockerHolds, AtHead, Watched
<1>5. AtHead(t, {"switch"})' =>
              /\ Tail(stack'[t]) \in MtxTails => swarg'[t].queue = marg'[t]
              /\ swarg'[t].queue \in Mutexes => Tail(stack'[t]) \in MtxTails
  BY DEF OwnerInv, SwitchQueues, AtHead, Watched
<1>6. AtHead(t, {"mtx_locked"})' => InQueue(marg[t], t)' \/ m_owner'[marg'[t]] = t
  <2>1. SUFFICES ASSUME AtHead(t, {"mtx_locked"})', UNCHANGED <<stack, swarg, marg>>
                 PROVE  m_owner'[marg'[t]] = t
    BY DEF AtHead, Watched
  <2>2. AtHead(t, {"mtx_locked"})
    BY <2>1 DEF AtHead
  <2>3. marg[t] \in Mutexes
    BY <1>0, <2>2, CallTypesOf DEF AtHead, TypeInv, ArgumentsOK, ArgumentsOf, NeedsMutex, Pending, CallTypes
  <2>4. m_owner[marg[t]] = t
    BY <1>2, <2>2, <2>3 DEF OwnerInv, WaitersOfMutex
  <2> QED BY <2>1, <2>4
<1> QED BY <1>1, <1>2, <1>3, <1>4, <1>5, <1>6, OwnerFrame

\* A pop, or new frames on top, in a step that touches no mutex.
LEMMA PopUnwatched ==
    ASSUME OwnerInv, CallTypes', PlaceTypes', NEW l \in LWPs, NEW t \in Threads, Running(l, t),
           stack[t] # <<>>, Head(stack[t]) # "switch", Continue(t, <<>>),
           UNCHANGED <<m_owner, marg, crit, swarg, waitq>>
    PROVE  Owners'
<1>1. TypeInv /\ PlaceInv
  BY DEF OwnerInv, PlaceInv
<1>2. stack'[t] = Tail(stack[t]) /\ \A u \in Threads \ {t} : stack'[u] = stack[u]
  BY <1>1, AfterContinue
<1>3. stack'[t] = <<>> \/ Head(stack'[t]) \notin Watched
  BY <1>1, <1>2, BelowFrame
<1> QED BY <1>2, <1>3, Unwatched DEF SameCalls

LEMMA GoUnwatched ==
    ASSUME OwnerInv, CallTypes', PlaceTypes', NEW l \in LWPs, NEW t \in Threads, Running(l, t),
           NEW f \in AllLabels \ Watched, NEW g \in AllLabels,
           \/ stack[t] # <<>> /\ (Continue(t, <<f>>) \/ Continue(t, <<f, g>>))
           \/ Push(t, <<f>>) \/ Push(t, <<f, g>>),
           UNCHANGED <<m_owner, marg, crit, swarg, waitq>>
    PROVE  Owners'
<1>1. TypeInv /\ PlaceInv
  BY DEF OwnerInv, PlaceInv
<1>2. Head(stack'[t]) = f /\ \A u \in Threads \ {t} : stack'[u] = stack[u]
  BY <1>1, AfterContinue, AfterPush
<1> QED BY <1>2, Unwatched DEF SameCalls

-----------------------------------------------------------------------------
(* The scheduler.                                                          *)

LEMMA PopSchedOwner ==
    ASSUME OwnerInv, CallTypes', PlaceTypes', NEW l \in LWPs, NEW t \in Threads, UNCHANGED mtxVars,
           \/ Return(l, t) \/ WakeUnlock(l, t) \/ AllocStackFails(l, t)
           \/ Wake(l, t) /\ Continue(t, <<>>)
           \/ SetprioLock(l, t) /\ Continue(t, <<>>)
           \/ \E prio \in Prios : StartOnRunq(l, t, prio) /\ Continue(t, <<>>)
    PROVE  Owners'
<1>1. Running(l, t) /\ stack[t] # <<>> /\ Head(stack[t]) # "switch" /\ Continue(t, <<>>)
  BY DEF Return, WakeUnlock, AllocStackFails, Wake, SetprioLock, StartOnRunq, At
<1>2. UNCHANGED <<m_owner, marg, crit, swarg, waitq>>
  BY DEF Return, WakeUnlock, AllocStackFails, Wake, SetprioLock, StartOnRunq, mtxVars, argVars, waitVars
<1> QED BY <1>1, <1>2, PopUnwatched

LEMMA GoSchedOwner ==
    ASSUME OwnerInv, CallTypes', PlaceTypes', Disciplined, NEW l \in LWPs, NEW t \in Threads, UNCHANGED mtxVars,
           \/ SetprioWrite(l, t) \/ AllocClaim(l, t)
           \/ Wake(l, t) /\ Continue(t, <<"wake_unlock">>)
           \/ SetprioLock(l, t) /\ Continue(t, YieldFrames)
           \/ ClientStep(l, t) \/ ClockInterrupt(l, t)
    PROVE  Owners'
<1>1. /\ Running(l, t) /\ UNCHANGED <<m_owner, marg, crit, swarg, waitq>>
      /\ \/ \E f \in {"setprio_lock", "create_init", "wake_unlock"} :
               stack[t] # <<>> /\ Continue(t, <<f>>)
         \/ stack[t] # <<>> /\ Continue(t, <<"yield_lock", "nopreempt_off">>)
         \/ Push(t, <<"yield_lock", "nopreempt_off">>)
         \/ \E f \in {"wake", "setprio_write", "alloc_claim"} : Push(t, <<f>>)
  <2>1. CASE SetprioWrite(l, t) \/ AllocClaim(l, t)
    BY <2>1 DEF SetprioWrite, AllocClaim, At, mtxVars, argVars, waitVars
  <2>2. CASE Wake(l, t) /\ Continue(t, <<"wake_unlock">>)
    BY <2>2 DEF Wake, At, mtxVars, waitVars
  <2>3. CASE SetprioLock(l, t) /\ Continue(t, YieldFrames)
    BY <2>3 DEF SetprioLock, At, mtxVars, waitVars, YieldFrames
  <2>4. CASE ClockInterrupt(l, t)
    BY <2>4 DEF ClockInterrupt, mtxVars, waitVars, argVars, YieldFrames
  <2>5. CASE ClientStep(l, t)
    <3>1. ~UthreadBlock(l, t)
      BY DEF Disciplined, UthreadBlock
    <3>2. UthreadYield(l, t) => Running(l, t) /\ UNCHANGED <<swarg, waitq>> /\ Push(t, <<"yield_lock", "nopreempt_off">>)
      BY DEF UthreadYield, InClient, Running, waitVars, argVars, YieldFrames
    <3>3. ASSUME NEW u \in Threads
          PROVE  /\ UthreadWake(l, t, u) => Running(l, t) /\ UNCHANGED <<swarg, waitq>> /\ Push(t, <<"wake">>)
                 /\ AllocScan(l, t, u) => Running(l, t) /\ UNCHANGED <<swarg, waitq>> /\ Push(t, <<"alloc_claim">>)
                 /\ \A prio \in Prios : SetprioRead(l, t, u, prio) =>
                       Running(l, t) /\ UNCHANGED <<swarg, waitq>> /\ Push(t, <<"setprio_write">>)
      BY DEF UthreadWake, AllocScan, AllocFound, SetprioRead, InClient, Running, waitVars
    <3>4. \/ UthreadYield(l, t)
          \/ \E u \in Threads : \/ UthreadWake(l, t, u) \/ AllocScan(l, t, u)
                                \/ \E prio \in Prios : SetprioRead(l, t, u, prio)
      BY <2>5, <3>1 DEF ClientStep
    <3> QED BY <3>2, <3>3, <3>4 DEF mtxVars
  <2> QED BY <2>1, <2>2, <2>3, <2>4, <2>5
<1>2. /\ {"setprio_lock", "create_init", "wake_unlock", "yield_lock", "wake", "setprio_write", "alloc_claim"}
            \subseteq AllLabels \ Watched
      /\ "nopreempt_off" \in AllLabels
  BY LabelNames DEF Watched
<1>3. ASSUME NEW f \in {"setprio_lock", "create_init", "wake_unlock"}, stack[t] # <<>>, Continue(t, <<f>>)
      PROVE  Owners'
  BY <1>1, <1>2, <1>3, GoUnwatched
<1>4. ASSUME NEW f \in {"wake", "setprio_write", "alloc_claim"}, Push(t, <<f>>)
      PROVE  Owners'
  BY <1>1, <1>2, <1>4, GoUnwatched
<1>5. CASE \/ stack[t] # <<>> /\ Continue(t, <<"yield_lock", "nopreempt_off">>)
           \/ Push(t, <<"yield_lock", "nopreempt_off">>)
  BY <1>1, <1>2, <1>5, GoUnwatched
<1> QED BY <1>1, <1>3, <1>4, <1>5

LEMMA CreateInitOwner ==
    ASSUME OwnerInv, CallTypes', PlaceTypes', NEW l \in LWPs, NEW t \in Threads, UNCHANGED mtxVars,
           CreateInit(l, t)
    PROVE  Owners'
<1>0. PlaceInv /\ TypeInv /\ PlaceTypes
  BY TypesOf DEF OwnerInv, PlaceInv
<1>1. Running(l, t) /\ stack[t] # <<>> /\ Head(stack[t]) = "create_init"
  BY DEF CreateInit, At
<1>2. PICK u \in Threads \ {t} : u = newthr[t] /\ ut_state[u] \in {"UT_NO_STATE", "UT_TRANSITION"}
  BY <1>0, <1>1, Newborn
<1>3. /\ stack' = [stack EXCEPT ![u] = <<"nopreempt_off">>, ![t] = <<"startonrunq">> \o Tail(@)]
      /\ waitq' = [waitq EXCEPT ![u] = <<>>] /\ UNCHANGED <<swarg, m_owner, marg, crit>>
  BY <1>2 DEF CreateInit, argVars, mtxVars
<1>4. /\ stack'[t] = <<"startonrunq">> \o Tail(stack[t]) /\ stack'[u] = <<"nopreempt_off">>
      /\ \A v \in Threads \ {t, u} : stack'[v] = stack[v]
  BY <1>0, <1>3 DEF PlaceTypes
<1>5. Head(stack'[t]) \notin Watched
  <2>1. Tail(stack[t]) \in Seq(AllLabels) /\ "startonrunq" \in AllLabels
    BY <1>0, <1>1, RowOf, LabelNames
  <2>2. Head(<<"startonrunq">> \o Tail(stack[t])) = "startonrunq"
    BY <2>1, ConsProperties
  <2> QED BY <1>4, <2>2 DEF Watched
<1>6. \A m \in Mutexes : waitq'[m] = waitq[m]
  BY <1>0, <1>3, ObjKinds DEF PlaceTypes
<1>7. \A v \in Threads \ {t} : SameCalls(v)
  BY <1>2, <1>3, <1>4 DEF SameCalls
<1> QED BY <1>1, <1>3, <1>5, <1>6, <1>7, Unwatched

LEMMA YieldLockOwner ==
    ASSUME OwnerInv, CallTypes', PlaceTypes', NEW l \in LWPs, NEW t \in Threads, UNCHANGED mtxVars,
           YieldLock(l, t)
    PROVE  Owners'
<1>0. PlaceInv /\ TypeInv /\ PlaceTypes
  BY TypesOf DEF OwnerInv, PlaceInv
<1>1. /\ Running(l, t) /\ stack[t] # <<>> /\ Head(stack[t]) = "yield_lock" /\ Continue(t, <<"switch">>)
      /\ swarg' = [swarg EXCEPT ![t] = [queue |-> NoObj, saveonrq |-> TRUE, pmut |-> t]]
      /\ UNCHANGED <<waitq, m_owner, marg, crit>>
  BY DEF YieldLock, At, mtxVars
<1>2. swarg'[t].queue = NoObj /\ \A u \in Threads \ {t} : swarg'[u] = swarg[u]
  BY <1>0, <1>1 DEF PlaceTypes
<1>3. /\ Head(stack'[t]) = "switch" /\ Tail(stack'[t]) = Tail(stack[t])
      /\ \A u \in Threads \ {t} : stack'[u] = stack[u]
  BY <1>0, <1>1, AfterContinue, LabelNames
<1>4. Tail(stack[t]) \notin MtxTails
  BY <1>0, <1>1, BelowFrame
<1>5. \A u \in Threads \ {t} : SameCalls(u)
  BY <1>1, <1>2, <1>3 DEF SameCalls
<1> QED BY <1>1, <1>2, <1>3, <1>4, <1>5, ObjKinds, Unwatched

LEMMA SwitchOwner ==
    ASSUME OwnerInv, CallTypes', PlaceTypes', NEW l \in LWPs, NEW t \in Threads, UNCHANGED mtxVars,
           Switch(l, t)
    PROVE  Owners'
<1>0. PlaceInv /\ TypeInv /\ PlaceTypes /\ CallTypes
  BY TypesOf, CallTypesOf DEF OwnerInv, PlaceInv
<1> DEFINE q == swarg[t].queue
<1>1. /\ Running(l, t) /\ stack[t] # <<>> /\ Head(stack[t]) = "switch" /\ Continue(t, <<>>)
      /\ waitq' = IF q = NoObj THEN waitq ELSE [waitq EXCEPT ![q] = Append(@, t)]
      /\ swarg' = [swarg EXCEPT ![t] = NoSwitch] /\ UNCHANGED <<m_owner, marg, crit>>
  BY DEF Switch, At, mtxVars
<1>2. /\ stack'[t] = Tail(stack[t]) /\ \A u \in Threads \ {t} : stack'[u] = stack[u] /\ swarg'[u] = swarg[u]
  BY <1>0, <1>1, AfterContinue DEF PlaceTypes
<1>3. \A u \in Threads \ {t} : SameCalls(u)
  BY <1>1, <1>2 DEF SameCalls
<1>4. /\ Tail(stack[t]) \in MtxTails => q = marg[t]
      /\ q \in Mutexes => Tail(stack[t]) \in MtxTails
  BY <1>1 DEF OwnerInv, SwitchQueues, AtHead
<1>5. ASSUME NEW m \in Mutexes
      PROVE  IF q = m THEN waitq'[m] = Append(waitq[m], t) ELSE waitq'[m] = waitq[m]
  BY <1>0, <1>1, ObjKinds DEF PlaceTypes
<1>6. ASSUME NEW m \in Mutexes, NEW u \in Threads
      PROVE  InQueue(m, u)' <=> InQueue(m, u) \/ (q = m /\ u = t)
  <2>1. waitq[m] \in Seq(Threads)
    BY <1>0, ObjKinds DEF PlaceTypes
  <2>2. CASE q = m
    <3>1. ASSUME NEW s \in Seq(Threads)
          PROVE  (\E i \in 1..Len(Append(s, t)) : Append(s, t)[i] = u)
                    <=> (\E i \in 1..Len(s) : s[i] = u) \/ u = t
      <4>1. Len(Append(s, t)) = Len(s) + 1 /\ Append(s, t)[Len(s) + 1] = t
        OBVIOUS
      <4>2. \A i \in 1..Len(s) : Append(s, t)[i] = s[i]
        OBVIOUS
      <4>3. Len(s) + 1 \in 1..(Len(s) + 1) /\ 1..Len(s) \subseteq 1..(Len(s) + 1)
        OBVIOUS
      <4>4. \A i \in 1..(Len(s) + 1) : i \in 1..Len(s) \/ i = Len(s) + 1
        OBVIOUS
      <4> QED BY <4>1, <4>2, <4>3, <4>4
    <3>2. PICK s \in Seq(Threads) : s = waitq[m]
      BY <2>1
    <3>3. InQueue(m, u) <=> \E i \in 1..Len(s) : s[i] = u
      BY <3>2 DEF InQueue
    <3>4. waitq'[m] = Append(s, t)
      BY <1>5, <2>2, <3>2
    <3>5. InQueue(m, u)' <=> \E i \in 1..Len(Append(s, t)) : Append(s, t)[i] = u
      BY <3>4 DEF InQueue
    <3> QED BY <2>2, <3>1, <3>3, <3>5
  <2>3. CASE q # m
    BY <1>5, <2>3 DEF InQueue
  <2> QED BY <2>2, <2>3
<1>7. \A m \in Mutexes : ~InQueue(m, t)
  BY <1>1, ObjKinds DEF OwnerInv, PlaceInv, WaitqOK, InQueue, OnNoLwp, Running
<1>8. /\ Tail(stack[t]) \in MtxTails => stack'[t] # <<>> /\ Head(stack'[t]) = "mtx_locked"
      /\ Tail(stack[t]) \notin MtxTails => stack'[t] = <<>> \/ Head(stack'[t]) \notin Watched
  BY <1>0, <1>1, <1>2, BelowSwitch
<1>9. ASSUME NEW m \in Mutexes, InQueue(m, t)'
      PROVE  AtHead(t, {"mtx_locked"})' /\ marg'[t] = m
  BY <1>1, <1>4, <1>6, <1>7, <1>8, <1>9 DEF AtHead
<1>10. \A m \in crit'[t] : m_owner'[m] = t
  BY <1>1 DEF OwnerInv, CritOwns
<1>11. ~AtHead(t, {"mtx_unlock", "cond_wait"})' /\ ~AtHead(t, {"switch"})'
  BY <1>8 DEF AtHead, Watched
<1>12. AtHead(t, {"mtx_locked"})' => InQueue(marg[t], t)'
  <2>1. SUFFICES ASSUME Tail(stack[t]) \in MtxTails PROVE InQueue(marg[t], t)'
    BY <1>8 DEF AtHead, Watched
  <2>2. PICK m \in Mutexes : m = marg[t]
    <3>1. NeedsMutex(t)
      BY <1>1, <2>1 DEF NeedsMutex, Pending, MtxTails
    <3> QED BY <1>0, <3>1 DEF TypeInv, ArgumentsOK, ArgumentsOf, CallTypes
  <2>3. InQueue(m, t)'
    BY <1>4, <1>6, <2>1, <2>2
  <2> QED BY <1>1, <2>2, <2>3 DEF InQueue
<1> HIDE DEF q
<1>13. \A m \in Mutexes : m_owner'[m] = m_owner[m]
  BY <1>1
<1>14. \A m \in Mutexes, u \in Threads \ {t} : InQueue(m, u)' <=> InQueue(m, u)
  BY <1>6
<1> QED BY <1>1, <1>3, <1>9, <1>10, <1>11, <1>12, <1>13, <1>14, OwnerFrame

LEMMA SchedOwner ==
    ASSUME OwnerInv, CallTypes', PlaceTypes', Disciplined, NEW l \in LWPs, NEW t \in Threads, UNCHANGED mtxVars,
           LibraryStep(l, t) \/ ClientStep(l, t) \/ ClockInterrupt(l, t)
    PROVE  Owners'
<1>1. CASE SwitchAborts(l, t) \/ (\E prio \in Prios : StartOnRunq(l, t, prio) /\ UNCHANGED stack)
  <2>1. Running(l, t) /\ UNCHANGED <<stack, swarg, waitq, m_owner, marg, crit>>
    BY <1>1 DEF SwitchAborts, StartOnRunq, At, mtxVars, argVars, waitVars
  <2> QED BY <2>1, Unwatched DEF SameCalls
<1>2. /\ Wake(l, t) => Continue(t, <<>>) \/ Continue(t, <<"wake_unlock">>)
      /\ SetprioLock(l, t) => Continue(t, <<>>) \/ Continue(t, YieldFrames)
      /\ \A prio \in Prios : StartOnRunq(l, t, prio) => Continue(t, <<>>) \/ UNCHANGED stack
  BY DEF Wake, SetprioLock, StartOnRunq
<1>3. ASSUME NEW prio \in Prios, StartOnRunq(l, t, prio) PROVE Owners'
  BY <1>1, <1>2, <1>3, PopSchedOwner
<1>4. CASE Wake(l, t) \/ SetprioLock(l, t)
  BY <1>2, <1>4, PopSchedOwner, GoSchedOwner
<1>5. CASE Return(l, t) \/ WakeUnlock(l, t) \/ AllocStackFails(l, t)
  BY <1>5, PopSchedOwner
<1>6. CASE SetprioWrite(l, t) \/ AllocClaim(l, t) \/ ClientStep(l, t) \/ ClockInterrupt(l, t)
  BY <1>6, GoSchedOwner
<1>7. CASE CreateInit(l, t) \/ YieldLock(l, t) \/ Switch(l, t)
  BY <1>7, CreateInitOwner, YieldLockOwner, SwitchOwner
<1> QED BY <1>1, <1>3, <1>4, <1>5, <1>6, <1>7 DEF LibraryStep

-----------------------------------------------------------------------------
(* Mutexes and condition variables.                                        *)

\* A step in which no mutex changes hands or queue.
LEMMA CallStep ==
    ASSUME OwnerInv, CallTypes', PlaceTypes', NEW l \in LWPs, NEW t \in Threads, Running(l, t),
           UNCHANGED <<m_owner, crit>>, \A m \in Mutexes : waitq'[m] = waitq[m],
           \A u \in Threads \ {t} : SameCalls(u),
           Head(stack'[t]) # "mtx_locked",
           Head(stack'[t]) \in {"mtx_unlock", "cond_wait"} => marg'[t] \in crit[t],
           Head(stack'[t]) = "switch" =>
              /\ Tail(stack'[t]) \in MtxTails => swarg'[t].queue = marg'[t]
              /\ swarg'[t].queue \in Mutexes => Tail(stack'[t]) \in MtxTails
    PROVE  Owners'
<1>1. \A m \in Mutexes, u \in Threads : InQueue(m, u)' <=> InQueue(m, u)
  BY DEF InQueue
<1>2. \A m \in Mutexes : ~InQueue(m, t)
  BY ObjKinds DEF OwnerInv, PlaceInv, WaitqOK, InQueue, OnNoLwp, Running
<1>3. \A m \in crit'[t] : m_owner'[m] = t
  BY DEF OwnerInv, CritOwns
<1>4. AtHead(t, {"mtx_unlock", "cond_wait"})' => marg'[t] \in crit'[t]
  BY DEF AtHead
<1>5. AtHead(t, {"switch"})' =>
              /\ Tail(stack'[t]) \in MtxTails => swarg'[t].queue = marg'[t]
              /\ swarg'[t].queue \in Mutexes => Tail(stack'[t]) \in MtxTails
  BY DEF AtHead
<1>6. ~AtHead(t, {"mtx_locked"})'
  BY DEF AtHead
<1> QED BY <1>1, <1>2, <1>3, <1>4, <1>5, <1>6, OwnerFrame

\* An entry point, called by a client.
LEMMA EntryOwner ==
    ASSUME OwnerInv, CallTypes', PlaceTypes', NEW l \in LWPs, NEW t \in Threads, SyncClientStep(l, t)
    PROVE  Owners'
<1>0. PlaceInv /\ TypeInv /\ PlaceTypes /\ CallTypes
  BY TypesOf, CallTypesOf DEF OwnerInv, PlaceInv
<1>1. PICK f \in {"mtx_lock", "mtx_trylock", "mtx_unlock", "cond_wait", "cond_signal", "cond_broadcast"} :
         /\ Enter(t, f) /\ InClient(l, t) /\ EntryUnchanged
         /\ UNCHANGED marg \/ \E m \in Mutexes : marg' = [marg EXCEPT ![t] = m]
         /\ f \in {"mtx_unlock", "cond_wait"} => marg'[t] \in crit[t]
  <2>1. ASSUME NEW m \in Mutexes
        PROVE  [marg EXCEPT ![t] = m][t] = m
    BY <1>0 DEF CallTypes
  <2>2. ASSUME NEW m \in Mutexes
        PROVE  /\ UthreadMtxLock(l, t, m) =>
                     Enter(t, "mtx_lock") /\ InClient(l, t) /\ EntryUnchanged /\ marg' = [marg EXCEPT ![t] = m]
               /\ UthreadMtxTrylock(l, t, m) =>
                     Enter(t, "mtx_trylock") /\ InClient(l, t) /\ EntryUnchanged /\ marg' = [marg EXCEPT ![t] = m]
               /\ UthreadMtxUnlock(l, t, m) =>
                     /\ Enter(t, "mtx_unlock") /\ InClient(l, t) /\ EntryUnchanged
                     /\ marg' = [marg EXCEPT ![t] = m] /\ m \in crit[t]
               /\ \A c \in Conds : UthreadCondWait(l, t, c, m) =>
                     /\ Enter(t, "cond_wait") /\ InClient(l, t) /\ EntryUnchanged
                     /\ marg' = [marg EXCEPT ![t] = m] /\ m \in crit[t]
    BY DEF UthreadMtxLock, UthreadMtxTrylock, UthreadMtxUnlock, UthreadCondWait
  <2>3. ASSUME NEW c \in Conds
        PROVE  /\ UthreadCondSignal(l, t, c) =>
                     Enter(t, "cond_signal") /\ InClient(l, t) /\ EntryUnchanged /\ UNCHANGED marg
               /\ UthreadCondBroadcast(l, t, c) =>
                     Enter(t, "cond_broadcast") /\ InClient(l, t) /\ EntryUnchanged /\ UNCHANGED marg
    BY DEF UthreadCondSignal, UthreadCondBroadcast
  <2>4. CASE \E c \in Conds : UthreadCondSignal(l, t, c) \/ UthreadCondBroadcast(l, t, c)
    BY <2>3, <2>4
  <2>5. ASSUME NEW m \in Mutexes,
               \/ UthreadMtxLock(l, t, m) \/ UthreadMtxTrylock(l, t, m) \/ UthreadMtxUnlock(l, t, m)
               \/ \E c \in Conds : UthreadCondWait(l, t, c, m)
        PROVE  \E f \in {"mtx_lock", "mtx_trylock", "mtx_unlock", "cond_wait", "cond_signal", "cond_broadcast"} :
                  /\ Enter(t, f) /\ InClient(l, t) /\ EntryUnchanged
                  /\ UNCHANGED marg \/ \E n \in Mutexes : marg' = [marg EXCEPT ![t] = n]
                  /\ f \in {"mtx_unlock", "cond_wait"} => marg'[t] \in crit[t]
    BY <2>1, <2>2, <2>5
  <2> QED BY <2>4, <2>5 DEF SyncClientStep
<1>2. Running(l, t) /\ Push(t, <<f>>) /\ UNCHANGED <<swarg, waitq, m_owner, crit>>
  BY <1>1 DEF Enter, InClient, Running, EntryUnchanged, waitVars, argVars
<1>3. Head(stack'[t]) = f /\ \A u \in Threads \ {t} : stack'[u] = stack[u]
  <2>1. f \in AllLabels
    BY <1>1, LabelNames
  <2> QED BY <1>0, <1>2, <2>1, AfterPush
<1>4. \A u \in Threads \ {t} : SameCalls(u)
  <2>1. \A u \in Threads \ {t} : marg'[u] = marg[u]
    BY <1>0, <1>1 DEF CallTypes
  <2> QED BY <1>2, <1>3, <2>1 DEF SameCalls
<1> QED BY <1>1, <1>2, <1>3, <1>4, CallStep

\* A free mutex is taken, at once or by the thread it was handed to.
LEMMA TakeOwner ==
    ASSUME OwnerInv, CallTypes', PlaceTypes', NEW l \in LWPs, NEW t \in Threads, Running(l, t),
           stack[t] # <<>>, Head(stack[t]) # "switch", Continue(t, <<>>), UNCHANGED <<swarg, waitq>>,
           NEW m \in Mutexes, NEW n, marg' = [marg EXCEPT ![t] = n],
           \/ m_owner[m] = t /\ UNCHANGED m_owner /\ crit' = [crit EXCEPT ![t] = @ \cup {m}]
           \/ /\ m_owner[m] = NoThread /\ m_owner' = [m_owner EXCEPT ![m] = t]
              /\ crit' = [crit EXCEPT ![t] = @ \cup {m}]
           \/ UNCHANGED <<m_owner, crit>>
    PROVE  Owners'
<1>0. PlaceInv /\ TypeInv /\ PlaceTypes /\ CallTypes
  BY TypesOf, CallTypesOf DEF OwnerInv, PlaceInv
<1>1. /\ stack'[t] = <<>> \/ Head(stack'[t]) \notin Watched
      /\ \A u \in Threads \ {t} : stack'[u] = stack[u]
  BY <1>0, AfterContinue, BelowFrame
<1>2. \A u \in Threads \ {t} : SameCalls(u)
  BY <1>0, <1>1 DEF SameCalls, CallTypes
<1>3. \A q \in Mutexes : m_owner'[q] = m_owner[q] \/ m_owner[q] \in {NoThread, t}
  BY <1>0 DEF CallTypes
<1>4. \A q \in crit'[t] : m_owner'[q] = t
  BY <1>0 DEF CallTypes, OwnerInv, CritOwns
<1>5. \A q \in Mutexes, u \in Threads : InQueue(q, u)' <=> InQueue(q, u)
  BY DEF InQueue
<1>6. \A q \in Mutexes : ~InQueue(q, t)
  BY ObjKinds DEF OwnerInv, PlaceInv, WaitqOK, InQueue, OnNoLwp, Running
<1>7. /\ ~AtHead(t, {"mtx_unlock", "cond_wait"})' /\ ~AtHead(t, {"switch"})'
      /\ ~AtHead(t, {"mtx_locked"})'
  BY <1>1 DEF AtHead, Watched
<1> QED BY <1>2, <1>3, <1>4, <1>5, <1>6, <1>7, OwnerFrame

LEMMA LockOwner ==
    ASSUME OwnerInv, CallTypes', PlaceTypes', NEW l \in LWPs, NEW t \in Threads,
           MtxLock(l, t) \/ MtxLocked(l, t) \/ MtxTrylock(l, t)
    PROVE  Owners'
<1>0. PlaceInv /\ TypeInv /\ PlaceTypes /\ CallTypes
  BY TypesOf, CallTypesOf DEF OwnerInv, PlaceInv
<1>1. Running(l, t) /\ stack[t] # <<>> /\ Head(stack[t]) \in {"mtx_lock", "mtx_locked", "mtx_trylock"}
  BY DEF MtxLock, MtxLocked, MtxTrylock, At
<1>2. PICK m \in Mutexes : m = marg[t]
  BY <1>0, <1>1 DEF TypeInv, ArgumentsOK, ArgumentsOf, NeedsMutex, Pending, CallTypes
<1>3. CASE MtxLocked(l, t)
  <2>1. ~InQueue(m, t)
    BY <1>1, ObjKinds DEF OwnerInv, PlaceInv, WaitqOK, InQueue, OnNoLwp, Running
  <2>2. m_owner[m] = t
    BY <1>2, <1>3, <2>1 DEF MtxLocked, At, OwnerInv, WaitersOfMutex, AtHead
  <2>3. /\ Continue(t, <<>>) /\ UNCHANGED <<swarg, waitq, m_owner>>
        /\ marg' = [marg EXCEPT ![t] = NoObj] /\ crit' = [crit EXCEPT ![t] = @ \cup {m}]
    BY <1>2, <1>3 DEF MtxLocked, waitVars, argVars
  <2> QED BY <1>1, <2>2, <2>3, TakeOwner
<1>4. CASE MtxTrylock(l, t) \/ (MtxLock(l, t) /\ m_owner[m] = NoThread)
  <2>1. /\ Continue(t, <<>>) /\ UNCHANGED <<swarg, waitq>> /\ marg' = [marg EXCEPT ![t] = NoObj]
        /\ \/ /\ m_owner[m] = NoThread /\ m_owner' = [m_owner EXCEPT ![m] = t]
              /\ crit' = [crit EXCEPT ![t] = @ \cup {m}]
           \/ UNCHANGED <<m_owner, crit>>
    BY <1>2, <1>4 DEF MtxTrylock, MtxLock, waitVars, argVars
  <2> QED BY <1>1, <2>1, TakeOwner
<1>5. CASE MtxLock(l, t) /\ m_owner[m] # NoThread
  <2>1. /\ Continue(t, SleepFrames(t)) /\ UNCHANGED <<m_owner, crit, marg, waitq>>
        /\ swarg' = [swarg EXCEPT ![t] = [queue |-> m, saveonrq |-> FALSE, pmut |-> m]]
    BY <1>2, <1>5 DEF MtxLock, MtxSleep
  <2>2. SleepFrames(t) = <<"switch", "mtx_locked">>
    BY <1>0 DEF SleepFrames, TypeInv, ThreadsExist
  <2>3. /\ Head(stack'[t]) = "switch" /\ Tail(stack'[t]) = <<"mtx_locked">> \o Tail(stack[t])
        /\ \A u \in Threads \ {t} : stack'[u] = stack[u]
    BY <1>0, <1>1, <2>1, <2>2, AfterContinue, LabelNames
  <2>4. Tail(stack'[t]) \in MtxTails
    <3>1. <<ut_no_preempt_count[t], "mtx_lock", Tail(stack[t])>> \in Continuations
      BY <1>0, <1>1, <1>5, RowOf DEF MtxLock, At
    <3>2. Tail(stack[t]) = <<>> \/ Tail(stack[t]) = <<"nopreempt_off">>
      BY <3>1, Rows
    <3> QED BY <2>3, <3>2, Concats DEF MtxTails
  <2>5. swarg'[t].queue = marg'[t]
    BY <1>0, <1>2, <2>1 DEF PlaceTypes
  <2>6. \A u \in Threads \ {t} : SameCalls(u)
    BY <1>0, <2>1, <2>3 DEF SameCalls, PlaceTypes
  <2> QED BY <1>1, <2>1, <2>3, <2>4, <2>5, <2>6, CallStep
<1> QED BY <1>3, <1>4, <1>5

\* uthread_mtx_unlock frees the mutex, or hands it to its oldest waiter.
LEMMA UnlockOwner ==
    ASSUME OwnerInv, CallTypes', PlaceTypes', NEW l \in LWPs, NEW t \in Threads, MtxUnlock(l, t)
    PROVE  Owners'
<1>0. PlaceInv /\ TypeInv /\ PlaceTypes /\ CallTypes /\ NoThread \notin Threads
  BY TypesOf, CallTypesOf DEF OwnerInv, PlaceInv
<1>1. Running(l, t) /\ stack[t] # <<>> /\ Head(stack[t]) = "mtx_unlock"
  BY DEF MtxUnlock, At
<1>2. PICK m \in Mutexes : m = marg[t] /\ m \in crit[t] /\ m_owner[m] = t
  BY <1>0, <1>1 DEF CallTypes, OwnerInv, UnlockerHolds, CritOwns, AtHead
<1>3. /\ crit' = [crit EXCEPT ![t] = @ \ {m}] /\ UNCHANGED swarg
      /\ \E n : marg' = [marg EXCEPT ![t] = n]
      /\ \/ /\ waitq[m] = <<>> /\ UNCHANGED waitq
            /\ m_owner' = [m_owner EXCEPT ![m] = NoThread] /\ Continue(t, <<>>)
         \/ /\ waitq[m] # <<>> /\ waitq' = [waitq EXCEPT ![m] = Tail(@)]
            /\ m_owner' = [m_owner EXCEPT ![m] = Head(waitq[m])]
            /\ Continue(t, <<"wake", "nopreempt_off">>)
  BY <1>2 DEF MtxUnlock, PassOn
<1>4. /\ stack'[t] = <<>> \/ Head(stack'[t]) \notin Watched
      /\ \A u \in Threads \ {t} : stack'[u] = stack[u]
  <2>1. CASE Continue(t, <<>>)
    BY <1>0, <1>1, <2>1, AfterContinue, BelowFrame
  <2>2. CASE Continue(t, <<"wake", "nopreempt_off">>)
    BY <1>0, <1>1, <2>2, AfterContinue, LabelNames DEF Watched
  <2> QED BY <1>3, <2>1, <2>2
<1>5. \A u \in Threads \ {t} : SameCalls(u)
  BY <1>0, <1>3, <1>4 DEF SameCalls, CallTypes
<1>6. \A q \in Mutexes \ {m} : m_owner'[q] = m_owner[q] /\ waitq'[q] = waitq[q]
  BY <1>0, <1>3, ObjKinds DEF CallTypes, PlaceTypes
<1>7. \A q \in crit'[t] : m_owner'[q] = t
  BY <1>0, <1>3, <1>6 DEF CallTypes, OwnerInv, CritOwns
<1>8. /\ waitq[m] \in Seq(Threads)
      /\ waitq[m] = <<>> => waitq'[m] = waitq[m]
      /\ waitq[m] # <<>> => waitq'[m] = Tail(waitq[m]) /\ m_owner'[m] = Head(waitq[m])
  BY <1>0, <1>3, ObjKinds DEF CallTypes, PlaceTypes
<1>9. ASSUME NEW u \in Threads
      PROVE  /\ InQueue(m, u)' => InQueue(m, u)
             /\ InQueue(m, u) => InQueue(m, u)' \/ m_owner'[m] = u
  <2>1. CASE waitq[m] = <<>>
    BY <1>8, <2>1 DEF InQueue
  <2>2. CASE waitq[m] # <<>>
    <3>1. ASSUME NEW s \in Seq(Threads), s # <<>>
          PROVE  (\E i \in 1..Len(s) : s[i] = u)
                    <=> (\E i \in 1..Len(Tail(s)) : Tail(s)[i] = u) \/ Head(s) = u
      <4>1. Len(s) \in Nat \ {0} /\ Len(Tail(s)) = Len(s) - 1 /\ Head(s) = s[1]
        BY <3>1
      <4>2. \A i \in 1..Len(Tail(s)) : Tail(s)[i] = s[i + 1] /\ i + 1 \in 1..Len(s)
        BY <3>1
      <4>3. \A i \in 1..Len(s) : i = 1 \/ (i - 1 \in 1..Len(Tail(s)) /\ Tail(s)[i - 1] = s[i])
        BY <3>1
      <4>4. 1 \in 1..Len(s)
        BY <4>1
      <4> QED BY <4>1, <4>2, <4>3, <4>4
    <3>2. PICK s \in Seq(Threads) : s = waitq[m] /\ s # <<>>
      BY <1>8, <2>2
    <3>3. waitq'[m] = Tail(s) /\ m_owner'[m] = Head(s)
      BY <1>8, <2>2, <3>2
    <3>4. InQueue(m, u) <=> \E i \in 1..Len(s) : s[i] = u
      BY <3>2 DEF InQueue
    <3>5. InQueue(m, u)' <=> \E i \in 1..Len(Tail(s)) : Tail(s)[i] = u
      BY <3>3 DEF InQueue
    <3>6. (\E i \in 1..Len(s) : s[i] = u)
             <=> (\E i \in 1..Len(Tail(s)) : Tail(s)[i] = u) \/ Head(s) = u
      BY <3>1, <3>2
    <3> QED BY <3>3, <3>4, <3>5, <3>6
  <2> QED BY <2>1, <2>2
<1>10. /\ \A q \in Mutexes, u \in Threads : InQueue(q, u)' => InQueue(q, u)
       /\ \A q \in Mutexes, u \in Threads : InQueue(q, u) => InQueue(q, u)' \/ m_owner'[q] = u
  BY <1>6, <1>9 DEF InQueue
<1>11. \A q \in Mutexes : ~InQueue(q, t)
  BY <1>1, ObjKinds DEF OwnerInv, PlaceInv, WaitqOK, InQueue, OnNoLwp, Running
<1>12. /\ ~AtHead(t, {"mtx_unlock", "cond_wait"})' /\ ~AtHead(t, {"switch"})'
       /\ ~AtHead(t, {"mtx_locked"})'
  BY <1>4 DEF AtHead, Watched
<1>13. \A q \in Mutexes : m_owner'[q] = m_owner[q] \/ m_owner[q] \in {NoThread, t}
  BY <1>2, <1>6
<1> QED BY <1>1, <1>5, <1>7, <1>10, <1>11, <1>12, <1>13, OwnerFrame

LEMMA CondOwner ==
    ASSUME OwnerInv, CallTypes', PlaceTypes', NEW l \in LWPs, NEW t \in Threads,
           CondWait(l, t) \/ CondSleep(l, t) \/ CondRelock(l, t) \/ CondSignal(l, t) \/ CondBroadcast(l, t)
    PROVE  Owners'
<1>0. PlaceInv /\ TypeInv /\ PlaceTypes /\ CallTypes
  BY TypesOf, CallTypesOf DEF OwnerInv, PlaceInv
<1>1. /\ Running(l, t) /\ stack[t] # <<>> /\ UNCHANGED <<m_owner, marg, crit>>
      /\ Head(stack[t]) \in {"cond_wait", "cond_sleep", "cond_relock", "cond_signal", "cond_broadcast"}
  BY DEF CondWait, CondSleep, CondRelock, CondSignal, CondBroadcast, At, mtxVars
<1>2. PICK c \in Conds : c = carg[t]
  BY <1>0, <1>1 DEF TypeInv, ArgumentsOK, ArgumentsOf, NeedsCond, Pending, CallTypes
<1>3. CASE CondWait(l, t)
  <2>1. Continue(t, <<"mtx_unlock", "cond_sleep">>) /\ UNCHANGED <<waitq, swarg>>
    BY <1>3 DEF CondWait, argVars
  <2>2. Head(stack'[t]) = "mtx_unlock" /\ \A u \in Threads \ {t} : stack'[u] = stack[u]
    BY <1>0, <1>1, <2>1, AfterContinue, LabelNames
  <2>3. marg'[t] \in crit[t]
    BY <1>1, <1>3 DEF CondWait, At, OwnerInv, UnlockerHolds, AtHead
  <2> QED BY <1>1, <2>1, <2>2, <2>3, CallStep DEF SameCalls
<1>4. CASE CondSleep(l, t)
  <2>1. /\ Continue(t, <<"switch", "cond_relock">>) /\ UNCHANGED waitq
        /\ swarg' = [swarg EXCEPT ![t] = [queue |-> c, saveonrq |-> FALSE, pmut |-> c]]
    BY <1>2, <1>4 DEF CondSleep, waitVars
  <2>2. /\ Head(stack'[t]) = "switch" /\ Tail(stack'[t]) = <<"cond_relock">> \o Tail(stack[t])
        /\ \A u \in Threads \ {t} : stack'[u] = stack[u]
    BY <1>0, <1>1, <2>1, AfterContinue, LabelNames
  <2>3. Tail(stack'[t]) \notin MtxTails
    <3>1. Tail(stack[t]) \in Seq(AllLabels) /\ "cond_relock" \in AllLabels
      BY <1>0, <1>1, RowOf, LabelNames
    <3>2. Head(Tail(stack'[t])) = "cond_relock"
      BY <2>2, <3>1, ConsProperties
    <3> QED BY <3>2, Literals DEF MtxTails
  <2>4. swarg'[t].queue = c /\ \A u \in Threads \ {t} : swarg'[u] = swarg[u]
    BY <1>0, <2>1 DEF PlaceTypes
  <2>5. c \notin Mutexes
    BY ObjKinds
  <2>6. \A u \in Threads \ {t} : SameCalls(u)
    BY <1>1, <2>2, <2>4 DEF SameCalls
  <2> QED BY <1>1, <2>1, <2>2, <2>3, <2>4, <2>5, <2>6, CallStep
<1>5. CASE CondRelock(l, t)
  <2>1. Continue(t, <<"mtx_lock", "nopreempt_off">>) /\ UNCHANGED <<waitq, swarg>>
    BY <1>5 DEF CondRelock, argVars, waitVars
  <2>2. "mtx_lock" \in AllLabels \ Watched /\ "nopreempt_off" \in AllLabels
    BY LabelNames DEF Watched
  <2> QED BY <1>1, <2>1, <2>2, GoUnwatched
<1>6. CASE CondSignal(l, t) \/ CondBroadcast(l, t)
  <2>1. /\ UNCHANGED swarg
        /\ UNCHANGED waitq \/ waitq' = [waitq EXCEPT ![c] = Tail(@)]
        /\ Continue(t, <<>>) \/ \E g \in {"nopreempt_off", "cond_broadcast"} : Continue(t, <<"wake", g>>)
    BY <1>2, <1>6 DEF CondSignal, CondBroadcast, WakeOldest
  <2>2. \A m \in Mutexes : waitq'[m] = waitq[m]
    BY <1>0, <2>1, ObjKinds DEF PlaceTypes
  <2>3. /\ stack'[t] = <<>> \/ Head(stack'[t]) \notin Watched
        /\ \A u \in Threads \ {t} : stack'[u] = stack[u]
    <3>1. CASE Continue(t, <<>>)
      BY <1>0, <1>1, <3>1, AfterContinue, BelowFrame
    <3>2. ASSUME NEW g \in {"nopreempt_off", "cond_broadcast"}, Continue(t, <<"wake", g>>)
          PROVE  /\ Head(stack'[t]) = "wake"
                 /\ \A u \in Threads \ {t} : stack'[u] = stack[u]
      <4>1. g \in AllLabels /\ "wake" \in AllLabels
        BY LabelNames
      <4> QED BY <1>0, <1>1, <3>2, <4>1, AfterContinue
    <3> QED BY <2>1, <3>1, <3>2 DEF Watched
  <2>4. \A u \in Threads \ {t} : SameCalls(u)
    BY <1>1, <2>1, <2>3 DEF SameCalls
  <2> QED BY <1>1, <2>2, <2>3, <2>4, Unwatched
<1> QED BY <1>3, <1>4, <1>5, <1>6

-----------------------------------------------------------------------------
LEMMA LwpOwner ==
    ASSUME OwnerInv, NEW l \in LWPs, LwpStep(l), UNCHANGED mtxVars
    PROVE  Owners'
<1>1. UNCHANGED <<stack, swarg, waitq, m_owner, marg, crit>>
  BY DEF LwpStep, SpuriousWakeup, LwpStart, Unpark, mtxVars, thrVars, runqVars, waitVars, argVars
<1> QED BY <1>1 DEF OwnerInv, Owners, CritOwns, UnlockerHolds, SwitchQueues, WaitersOfMutex, AtHead, InQueue

LEMMA OwnerInvInit == SyncInit => OwnerInv
<1> SUFFICES ASSUME SyncInit PROVE OwnerInv
  OBVIOUS
<1>1. PlaceInv
  BY PlaceInvInit
<1>2. \A t \in Threads : crit[t] = {} /\ (stack[t] = <<>> \/ stack[t] = <<"nopreempt_off">>)
  BY DEF SyncInit, SchedInit, MtxInit
<1>3. \A t \in Threads : ~AtHead(t, {"mtx_unlock", "cond_wait"}) /\ ~AtHead(t, {"switch"}) /\ ~AtHead(t, {"mtx_locked"})
  BY <1>2, Literals DEF AtHead
<1>4. \A m \in Mutexes, t \in Threads : ~InQueue(m, t)
  BY ObjKinds DEF InQueue, SyncInit, SchedInit
<1>5. CritOwns
  BY <1>2 DEF CritOwns
<1>6. UnlockerHolds /\ SwitchQueues /\ WaitersOfMutex
  BY <1>3, <1>4 DEF UnlockerHolds, SwitchQueues, WaitersOfMutex
<1> QED BY <1>1, <1>5, <1>6 DEF OwnerInv

LEMMA OwnerInvNext ==
    ASSUME Disciplined, OwnerInv, [SyncNext]_syncVars
    PROVE  OwnerInv'
<1>1. PlaceInv'
  BY PlaceInvNext DEF OwnerInv
<1>2. CallTypes' /\ PlaceTypes'
  BY <1>1, TypesNext, CallTypesOf DEF PlaceInv
<1>3. CASE UNCHANGED syncVars
  <2>1. UNCHANGED <<stack, swarg, waitq, m_owner, marg, crit>>
    BY <1>3 DEF syncVars, schedVars, cpuVars, thrVars, runqVars, waitVars, argVars, mtxVars
  <2>2. CritOwns' /\ UnlockerHolds' /\ SwitchQueues' /\ WaitersOfMutex'
    BY <2>1 DEF OwnerInv, CritOwns, UnlockerHolds, SwitchQueues, WaitersOfMutex, AtHead, InQueue
  <2> QED BY <1>1, <2>2 DEF OwnerInv
<1>4. ASSUME NEW l \in LWPs, LwpStep(l), UNCHANGED mtxVars
      PROVE  Owners'
  BY <1>4, LwpOwner
<1>5. ASSUME NEW l \in LWPs, NEW t \in Threads, UNCHANGED mtxVars,
             LibraryStep(l, t) \/ ClientStep(l, t) \/ ClockInterrupt(l, t)
      PROVE  Owners'
  BY <1>2, <1>5, SchedOwner
<1>6. ASSUME NEW l \in LWPs, NEW t \in Threads, SyncLibraryStep(l, t)
      PROVE  Owners'
  BY <1>2, <1>6, LockOwner, UnlockOwner, CondOwner DEF SyncLibraryStep
<1>7. ASSUME NEW l \in LWPs, NEW t \in Threads, SyncClientStep(l, t)
      PROVE  Owners'
  BY <1>2, <1>7, EntryOwner
<1>8. CASE SyncNext
  <2>1. Owners'
    BY <1>4, <1>5, <1>6, <1>7, <1>8 DEF SyncNext, SchedNext
  <2> QED BY <1>1, <2>1 DEF OwnerInv, Owners
<1> QED BY <1>3, <1>8

LEMMA OwnerInvImplies == OwnerInv => MutualExclusion
<1> SUFFICES ASSUME OwnerInv, NEW t \in Threads, NEW u \in Threads, NEW m \in crit[t] \cap crit[u]
             PROVE  t = u
  BY DEF OwnerInv, CritOwns, MutualExclusion
<1> QED BY DEF OwnerInv, CritOwns

\* No two threads ever hold the same mutex, and the holder is its m_owner,
\* although a thread that was handed the mutex returns from uthread_mtx_lock
\* without reading m_owner: whoever leaves a mutex's queue has been made owner
\* by the unlock that dequeued it.
THEOREM MutexCorrect ==
    ASSUME Disciplined
    PROVE  SyncSpec => []MutualExclusion
<1>1. SyncInit => OwnerInv
  BY OwnerInvInit
<1>2. OwnerInv /\ [SyncNext]_syncVars => OwnerInv'
  BY OwnerInvNext
<1>3. OwnerInv => MutualExclusion
  BY OwnerInvImplies
<1> QED BY <1>1, <1>2, <1>3, PTL DEF SyncSpec

\* What LockInv adds to OwnerInv.
Locks == SwitchHolds /\ CondHolds /\ SleeperOwned /\ NoStrandedWaiter

-----------------------------------------------------------------------------
(* Who holds a POSIX mutex.                                                *)

LEMMA LockTypes ==
    ASSUME LockInv
    PROVE  /\ OwnerInv /\ PlaceInv /\ TypeInv /\ PlaceTypes /\ CallTypes /\ Locks
           /\ NoThread \notin Threads /\ NoObj \notin Objs /\ NoLwp \notin LWPs
  BY TypesOf, CallTypesOf, SchedAssumption DEF LockInv, OwnerInv, PlaceInv, Locks

LEMMA HolderIsUnique ==
    ASSUME LockInv, NEW o \in Objs, NEW t \in Threads, Holds(t, o)
    PROVE  /\ pmut[o] # NoLwp
           /\ \A u \in Threads : Holds(u, o) => u = t
           /\ \A l \in LWPs : Running(l, t) => pmut[o] = l
<1>1. PlaceInv /\ PlaceTypes /\ NoLwp \notin LWPs /\ NoThread \notin Threads
  BY LockTypes
<1> QED BY <1>1 DEF Holds, Running, PlaceInv, OneLwp

\* Only a pending switch has arguments.
LEMMA NoArguments ==
    ASSUME LockInv, NEW t \in Threads, ~AtHead(t, {"switch"})
    PROVE  swarg[t].pmut = NoObj /\ swarg[t].queue = NoObj
  BY DEF LockInv, SwitchHolds

\* What a step of thread t, on LWP l, has to show.
LEMMA LockFrame ==
    ASSUME LockInv, OwnerInv', NEW l \in LWPs, NEW t \in Threads, Running(l, t),
           \A k \in LWPs \ {l} : curthr'[k] = curthr[k],
           \A o \in Objs : \/ pmut'[o] = pmut[o] \/ pmut[o] \in {NoLwp, l}
                           \/ o \in Threads /\ OnNoLwp(o),
           \A u \in Threads \ {t} : SameCalls(u) /\ carg'[u] = carg[u],
           swarg'[t].pmut # NoObj =>
              /\ AtHead(t, {"switch"})' /\ Holds(t, swarg[t].pmut)'
              /\ swarg'[t].pmut \in Threads => swarg'[t].pmut = t,
           swarg'[t].queue # NoObj => swarg'[t].pmut = swarg'[t].queue,
           CondPending(t)' => Holds(t, carg[t])',
           \A m \in Mutexes : m_owner'[m] = NoThread =>
              /\ swarg'[t].queue # m
              /\ \/ m_owner[m] = NoThread /\ waitq'[m] = waitq[m]
                 \/ waitq'[m] = <<>> /\ pmut[m] = NoLwp
    PROVE  Locks'
<1>0. /\ PlaceInv /\ TypeInv /\ PlaceTypes /\ CallTypes /\ Locks
      /\ NoThread \notin Threads /\ NoObj \notin Objs /\ NoLwp \notin LWPs
  BY LockTypes
\* The other threads keep what they hold.
<1>1. ASSUME NEW u \in Threads \ {t}, NEW o \in Objs, Holds(u, o), o \in Threads => o = u
      PROVE  Holds(u, o)'
  <2>1. PICK k \in LWPs : Running(k, u) /\ pmut[o] = k
    BY <1>1 DEF Holds
  <2>2. k # l /\ k # NoLwp
    BY <1>0, <2>1 DEF Running
  <2>3. ~(o \in Threads /\ OnNoLwp(o))
    BY <1>1, <2>1 DEF OnNoLwp, Running
  <2>4. pmut'[o] = k /\ curthr'[k] = u
    BY <2>1, <2>2, <2>3 DEF Running
  <2> QED BY <2>4 DEF Holds, Running
<1>2. ASSUME NEW u \in Threads \ {t}, \E k \in LWPs : Running(k, u)
      PROVE  stack'[u] = stack[u]
  BY <1>0, <1>2 DEF SameCalls, PlaceInv, TypeInv, ThreadsExist, NewbornOK
<1>3. SwitchHolds'
  <2>1. SUFFICES ASSUME NEW u \in Threads
                 PROVE  /\ swarg'[u].pmut # NoObj =>
                              /\ AtHead(u, {"switch"})' /\ Holds(u, swarg[u].pmut)'
                              /\ swarg'[u].pmut \in Threads => swarg'[u].pmut = u
                        /\ swarg'[u].queue # NoObj => swarg'[u].pmut = swarg'[u].queue
    BY DEF SwitchHolds
  <2>2. CASE u = t
    BY <2>2
  <2>3. CASE u # t
    <3>1. swarg'[u] = swarg[u]
      BY <2>3 DEF SameCalls
    <3>2. swarg[u].queue # NoObj => swarg[u].pmut = swarg[u].queue
      BY <1>0 DEF Locks, SwitchHolds
    <3>3. ASSUME swarg[u].pmut # NoObj
          PROVE  /\ AtHead(u, {"switch"})' /\ Holds(u, swarg[u].pmut)'
                 /\ swarg[u].pmut \in Threads => swarg[u].pmut = u
      <4>1. /\ AtHead(u, {"switch"}) /\ Holds(u, swarg[u].pmut)
            /\ swarg[u].pmut \in Threads => swarg[u].pmut = u
        BY <1>0, <3>3 DEF Locks, SwitchHolds
      <4>2. PICK o \in Objs : o = swarg[u].pmut
        BY <1>0, <3>3 DEF PlaceTypes
      <4>3. Holds(u, o)'
        BY <1>1, <2>3, <4>1, <4>2
      <4>4. stack'[u] = stack[u]
        BY <1>2, <2>3, <4>1 DEF Holds
      <4> QED BY <3>1, <4>1, <4>2, <4>3, <4>4 DEF AtHead, Holds
    <3> QED BY <3>1, <3>2, <3>3
  <2> QED BY <2>2, <2>3
<1>4. CondHolds'
  <2>1. SUFFICES ASSUME NEW u \in Threads, CondPending(u)' PROVE Holds(u, carg[u])'
    BY DEF CondHolds, CondPending
  <2>2. CASE u = t
    BY <2>1, <2>2
  <2>3. CASE u # t
    <3>1. CondPending(u)
      <4>1. CASE stack'[u] = stack[u]
        BY <2>1, <4>1 DEF CondPending, Pending
      <4>2. CASE stack'[u] = <<"nopreempt_off">>
        BY <2>1, <4>2, Literals DEF CondPending, Pending
      <4> QED BY <2>3, <4>1, <4>2 DEF SameCalls
    <3>2. Holds(u, carg[u])
      BY <1>0, <3>1 DEF Locks, CondHolds, CondPending
    <3>3. PICK o \in Conds : o = carg[u]
      BY <1>0, <3>1 DEF CondPending, TypeInv, ArgumentsOK, ArgumentsOf, NeedsCond, Pending, CallTypes
    <3>4. o \in Objs /\ o \notin Threads /\ carg'[u] = o
      BY <2>3, <3>3, ObjKinds
    <3>5. Holds(u, o)'
      BY <1>1, <2>3, <3>2, <3>3, <3>4
    <3> QED BY <3>4, <3>5 DEF Holds
  <2> QED BY <2>2, <2>3
<1>5. ASSUME NEW m \in Mutexes, m_owner'[m] = NoThread
      PROVE  waitq'[m] = <<>> /\ \A u \in Threads : swarg'[u].queue # m
  <2>1. m \in Objs /\ m # NoObj
    BY <1>0, ObjKinds
  <2>2. waitq'[m] = <<>>
    BY <1>0, <1>5 DEF Locks, NoStrandedWaiter
  <2>3. ASSUME NEW u \in Threads \ {t}, swarg[u].queue = m
        PROVE  m_owner[m] # NoThread /\ pmut[m] # NoLwp
    <3>1. m_owner[m] # NoThread
      BY <1>0, <2>3 DEF Locks, SleeperOwned
    <3>2. Holds(u, m)
      BY <1>0, <2>1, <2>3 DEF Locks, SwitchHolds
    <3> QED BY <2>1, <3>1, <3>2, HolderIsUnique
  <2>4. \A u \in Threads \ {t} : swarg[u].queue # m
    BY <1>5, <2>3
  <2> QED BY <1>5, <2>2, <2>4 DEF SameCalls
<1>6. SleeperOwned' /\ NoStrandedWaiter'
  BY <1>5 DEF SleeperOwned, NoStrandedWaiter
<1> QED BY <1>3, <1>4, <1>6 DEF Locks

\* A step that neither ends nor prepares a switch, and begins no wait.
LEMMA LockCalm ==
    ASSUME LockInv, OwnerInv', NEW l \in LWPs, NEW t \in Threads, Running(l, t),
           ~AtHead(t, {"switch"}), UNCHANGED <<curthr, swarg>>,
           \A o \in Objs : pmut'[o] = pmut[o] \/ (o \in Threads /\ OnNoLwp(o)),
           \A u \in Threads \ {t} : SameCalls(u) /\ carg'[u] = carg[u],
           CondPending(t)' => CondPending(t) /\ carg'[t] = carg[t],
           \A m \in Mutexes : m_owner'[m] = NoThread =>
              \/ m_owner[m] = NoThread /\ waitq'[m] = waitq[m]
              \/ waitq'[m] = <<>> /\ pmut[m] = NoLwp
    PROVE  Locks'
<1>0. TypeInv /\ CallTypes /\ Locks
  BY LockTypes
<1>1. swarg'[t].pmut = NoObj /\ swarg'[t].queue = NoObj
  BY NoArguments
<1>2. ASSUME CondPending(t)' PROVE Holds(t, carg[t])'
  <2>1. Holds(t, carg[t])
    BY <1>0, <1>2 DEF Locks, CondHolds, CondPending
  <2>2. PICK c \in Conds : c = carg[t]
    BY <1>0, <1>2 DEF CondPending, TypeInv, ArgumentsOK, ArgumentsOf, NeedsCond, Pending, CallTypes
  <2>3. pmut'[c] = pmut[c]
    BY ObjKinds
  <2> QED BY <1>2, <2>1, <2>2, <2>3 DEF Holds, Running
<1>3. \A m \in Mutexes : swarg'[t].queue # m
  BY <1>1, ObjKinds
<1> QED BY <1>1, <1>2, <1>3, LockFrame

-----------------------------------------------------------------------------
(* The frames of a pending uthread_cond_wait.                              *)

LEMMA CondPop ==
    ASSUME TypeInv, NEW t \in Threads, stack[t] # <<>>, Head(stack[t]) # "switch", Continue(t, <<>>)
    PROVE  /\ CondPending(t)' => CondPending(t)
           /\ \A u \in Threads \ {t} : stack'[u] = stack[u]
<1> DEFINE r == Tail(stack[t])
<1>1. stack'[t] = r /\ \A u \in Threads \ {t} : stack'[u] = stack[u]
  BY AfterContinue
<1>2. r \in {<<>>, <<"nopreempt_off">>, <<"create_init">>, <<"cond_sleep">>, <<"cond_broadcast">>,
             <<"nopreempt_off", "cond_sleep">>} \cup Yielding
  <2>1. <<ut_no_preempt_count[t], Head(stack[t]), r>> \in Continuations
    BY RowOf
  <2> HIDE DEF r
  <2> QED BY <2>1 DEF Continuations
<1> HIDE DEF r
<1>3. \/ r = <<>> \/ r \in {<<"cond_sleep">>, <<"nopreempt_off", "cond_sleep">>}
      \/ /\ r # <<>> /\ Head(r) # "cond_sleep"
         /\ Tail(r) = <<>> \/ Tail(r) \in {<<"create_init">>, <<"wake_unlock">>}
  BY <1>2, Literals DEF Yielding
<1>4. /\ <<>> \notin {<<"cond_sleep">>, <<"nopreempt_off", "cond_sleep">>}
      /\ <<"create_init">> \notin {<<"cond_sleep">>, <<"nopreempt_off", "cond_sleep">>}
      /\ <<"wake_unlock">> \notin {<<"cond_sleep">>, <<"nopreempt_off", "cond_sleep">>}
  BY Literals
<1>5. r # <<>> /\ (Head(r) = "cond_sleep" \/ Tail(r) \in {<<"cond_sleep">>, <<"nopreempt_off", "cond_sleep">>})
         => r \in {<<"cond_sleep">>, <<"nopreempt_off", "cond_sleep">>}
  BY <1>3, <1>4
<1> QED BY <1>1, <1>5 DEF CondPending, Pending, r

\* New frames on top of a wait, or none, but no new wait.
LEMMA CondGo ==
    ASSUME TypeInv, NEW t \in Threads, NEW f \in AllLabels \ {"cond_sleep"},
           NEW g \in {"nopreempt_off", "cond_broadcast"},
           \/ stack[t] # <<>> /\ (Continue(t, <<f>>) \/ Continue(t, <<f, g>>))
           \/ Push(t, <<f>>) \/ Push(t, <<f, g>>)
    PROVE  /\ CondPending(t)' => CondPending(t)
           /\ stack'[t] # <<>> /\ Head(stack'[t]) = f
           /\ \A u \in Threads \ {t} : stack'[u] = stack[u]
<1>1. g \in AllLabels
  BY LabelNames
<1> DEFINE Frames(r) == r \in {<<"cond_sleep">>, <<"nopreempt_off", "cond_sleep">>}
<1>2. ASSUME NEW r \in Seq(AllLabels), Frames(<<g>> \o r)
      PROVE  r = <<"cond_sleep">>
  <2>1. Head(<<g>> \o r) = g /\ Tail(<<g>> \o r) = r
    BY <1>1, ConsProperties
  <2>2. g # "cond_sleep"
    OBVIOUS
  <2>3. <<g>> \o r # <<"cond_sleep">>
    BY <2>1, <2>2, Literals
  <2>4. <<g>> \o r = <<"nopreempt_off", "cond_sleep">>
    BY <1>2, <2>3
  <2> QED BY <2>1, <2>4, Literals
<1>3. stack[t] \in Seq(AllLabels)
  BY DEF TypeInv, SyncTypeOK, SchedTypes, AllLabels
<1>4. CASE stack[t] # <<>> /\ Continue(t, <<f>>)
  <2>1. /\ stack'[t] # <<>> /\ Head(stack'[t]) = f /\ Tail(stack'[t]) = Tail(stack[t])
        /\ \A u \in Threads \ {t} : stack'[u] = stack[u]
    BY <1>4, AfterContinue
  <2> QED BY <1>4, <2>1 DEF CondPending, Pending
<1>5. CASE stack[t] # <<>> /\ Continue(t, <<f, g>>)
  <2>1. /\ stack'[t] # <<>> /\ Head(stack'[t]) = f /\ Tail(stack'[t]) = <<g>> \o Tail(stack[t])
        /\ \A u \in Threads \ {t} : stack'[u] = stack[u]
    BY <1>1, <1>5, AfterContinue
  <2>2. Tail(stack[t]) \in Seq(AllLabels)
    BY <1>5, RowOf
  <2> QED BY <1>2, <1>5, <2>1, <2>2 DEF CondPending, Pending
<1>6. CASE Push(t, <<f>>)
  <2>1. /\ stack'[t] # <<>> /\ Head(stack'[t]) = f /\ Tail(stack'[t]) = stack[t]
        /\ \A u \in Threads \ {t} : stack'[u] = stack[u]
    BY <1>6, AfterPush
  <2> QED BY <2>1, Literals DEF CondPending, Pending
<1>7. CASE Push(t, <<f, g>>)
  <2>1. /\ stack'[t] # <<>> /\ Head(stack'[t]) = f /\ Tail(stack'[t]) = <<g>> \o stack[t]
        /\ \A u \in Threads \ {t} : stack'[u] = stack[u]
    BY <1>1, <1>7, AfterPush
  <2>2. CondPending(t)' => stack[t] = <<"cond_sleep">>
    BY <1>2, <1>3, <2>1 DEF CondPending, Pending
  <2> QED BY <2>1, <2>2, Literals DEF CondPending, Pending
<1> QED BY <1>4, <1>5, <1>6, <1>7

-----------------------------------------------------------------------------
(* The scheduler.                                                          *)

LEMMA PopSchedLock ==
    ASSUME LockInv, OwnerInv', NEW l \in LWPs, NEW t \in Threads, UNCHANGED mtxVars,
           \/ Return(l, t) \/ WakeUnlock(l, t) \/ AllocStackFails(l, t)
           \/ Wake(l, t) /\ Continue(t, <<>>)
           \/ SetprioLock(l, t) /\ Continue(t, <<>>)
           \/ \E prio \in Prios : StartOnRunq(l, t, prio) /\ Continue(t, <<>>)
    PROVE  Locks'
<1>1. Running(l, t) /\ stack[t] # <<>> /\ Head(stack[t]) # "switch" /\ Continue(t, <<>>)
  BY DEF Return, WakeUnlock, AllocStackFails, Wake, SetprioLock, StartOnRunq, At
<1>2. UNCHANGED <<m_owner, marg, carg, crit, swarg, waitq, pmut, curthr>>
  BY DEF Return, WakeUnlock, AllocStackFails, Wake, SetprioLock, StartOnRunq, mtxVars, argVars, waitVars, cpuVars
<1>3. (CondPending(t)' => CondPending(t)) /\ \A u \in Threads \ {t} : stack'[u] = stack[u]
  BY <1>1, CondPop, LockTypes
<1> QED BY <1>1, <1>2, <1>3, LockCalm DEF AtHead, SameCalls

\* The code that uthread_setprio, uthread_create, uthread_wake, uthread_yield and
\* the clock go on with.
LEMMA GoSchedFrames ==
    ASSUME TypeInv, Disciplined, NEW l \in LWPs, NEW t \in Threads, UNCHANGED mtxVars,
           \/ SetprioWrite(l, t) \/ AllocClaim(l, t)
           \/ Wake(l, t) /\ Continue(t, <<"wake_unlock">>)
           \/ SetprioLock(l, t) /\ Continue(t, YieldFrames)
           \/ ClientStep(l, t) \/ ClockInterrupt(l, t)
    PROVE  /\ Running(l, t) /\ UNCHANGED <<m_owner, marg, carg, crit, swarg, waitq, pmut, curthr>>
           /\ ~AtHead(t, {"switch"})
           /\ \/ \E f \in {"setprio_lock", "create_init", "wake_unlock"} :
                    stack[t] # <<>> /\ Continue(t, <<f>>)
              \/ stack[t] # <<>> /\ Continue(t, <<"yield_lock", "nopreempt_off">>)
              \/ Push(t, <<"yield_lock", "nopreempt_off">>)
              \/ \E f \in {"wake", "setprio_write", "alloc_claim"} : Push(t, <<f>>)
<1>1. CASE SetprioWrite(l, t) \/ AllocClaim(l, t)
  BY <1>1 DEF SetprioWrite, AllocClaim, At, AtHead, mtxVars, argVars, waitVars, cpuVars
<1>2. CASE Wake(l, t) /\ Continue(t, <<"wake_unlock">>)
  BY <1>2 DEF Wake, At, AtHead, mtxVars, waitVars
<1>3. CASE SetprioLock(l, t) /\ Continue(t, YieldFrames)
  BY <1>3 DEF SetprioLock, At, AtHead, mtxVars, waitVars, cpuVars, YieldFrames
<1>4. CASE ClockInterrupt(l, t)
  <2>1. /\ Running(l, t) /\ UNCHANGED <<m_owner, marg, carg, crit, swarg, waitq, pmut, curthr>>
        /\ Push(t, <<"yield_lock", "nopreempt_off">>) /\ ut_no_preempt_count[t] = 0
    BY <1>4 DEF ClockInterrupt, mtxVars, waitVars, argVars, cpuVars, YieldFrames
  <2>2. ASSUME stack[t] # <<>> PROVE Head(stack[t]) \in {"create_init", "wake_unlock"}
    <3>1. <<0, Head(stack[t]), Tail(stack[t])>> \in Continuations
      BY <2>1, <2>2, RowOf
    <3> QED BY <3>1, Rows
  <2> QED BY <2>1, <2>2 DEF AtHead
<1>5. CASE ClientStep(l, t)
  <2>1. ~UthreadBlock(l, t)
    BY DEF Disciplined, UthreadBlock
  <2>2. UthreadYield(l, t) =>
           /\ InClient(l, t) /\ UNCHANGED <<swarg, waitq, pmut, curthr>>
           /\ Push(t, <<"yield_lock", "nopreempt_off">>)
    BY DEF UthreadYield, waitVars, argVars, cpuVars, YieldFrames
  <2>3. ASSUME NEW u \in Threads
        PROVE  /\ UthreadWake(l, t, u) =>
                     InClient(l, t) /\ UNCHANGED <<swarg, waitq, pmut, curthr>> /\ Push(t, <<"wake">>)
               /\ AllocScan(l, t, u) =>
                     InClient(l, t) /\ UNCHANGED <<swarg, waitq, pmut, curthr>> /\ Push(t, <<"alloc_claim">>)
               /\ \A prio \in Prios : SetprioRead(l, t, u, prio) =>
                     InClient(l, t) /\ UNCHANGED <<swarg, waitq, pmut, curthr>> /\ Push(t, <<"setprio_write">>)
    BY DEF UthreadWake, AllocScan, AllocFound, SetprioRead, waitVars, cpuVars
  <2>4. \/ UthreadYield(l, t)
        \/ \E u \in Threads : \/ UthreadWake(l, t, u) \/ AllocScan(l, t, u)
                              \/ \E prio \in Prios : SetprioRead(l, t, u, prio)
    BY <1>5, <2>1 DEF ClientStep
  <2> QED BY <2>2, <2>3, <2>4 DEF mtxVars, InClient, Running, AtHead
<1> QED BY <1>1, <1>2, <1>3, <1>4, <1>5

LEMMA GoSchedLock ==
    ASSUME LockInv, OwnerInv', Disciplined, NEW l \in LWPs, NEW t \in Threads, UNCHANGED mtxVars,
           \/ SetprioWrite(l, t) \/ AllocClaim(l, t)
           \/ Wake(l, t) /\ Continue(t, <<"wake_unlock">>)
           \/ SetprioLock(l, t) /\ Continue(t, YieldFrames)
           \/ ClientStep(l, t) \/ ClockInterrupt(l, t)
    PROVE  Locks'
<1>1. /\ Running(l, t) /\ UNCHANGED <<m_owner, marg, carg, crit, swarg, waitq, pmut, curthr>>
      /\ ~AtHead(t, {"switch"})
      /\ \/ \E f \in {"setprio_lock", "create_init", "wake_unlock"} :
               stack[t] # <<>> /\ Continue(t, <<f>>)
         \/ stack[t] # <<>> /\ Continue(t, <<"yield_lock", "nopreempt_off">>)
         \/ Push(t, <<"yield_lock", "nopreempt_off">>)
         \/ \E f \in {"wake", "setprio_write", "alloc_claim"} : Push(t, <<f>>)
  BY LockTypes, GoSchedFrames
<1>2. {"setprio_lock", "create_init", "wake_unlock", "yield_lock", "wake", "setprio_write", "alloc_claim"}
            \subseteq AllLabels \ {"cond_sleep"}
  BY LabelNames
<1>3. ASSUME NEW f \in {"setprio_lock", "create_init", "wake_unlock", "yield_lock", "wake",
                        "setprio_write", "alloc_claim"},
             \/ stack[t] # <<>> /\ (Continue(t, <<f>>) \/ Continue(t, <<f, "nopreempt_off">>))
             \/ Push(t, <<f>>) \/ Push(t, <<f, "nopreempt_off">>)
      PROVE  Locks'
  <2>1. f \in AllLabels \ {"cond_sleep"}
    BY <1>2
  <2>2. (CondPending(t)' => CondPending(t)) /\ \A u \in Threads \ {t} : stack'[u] = stack[u]
    BY <1>3, <2>1, CondGo, LockTypes
  <2> QED BY <1>1, <2>2, LockCalm DEF SameCalls
<1>4. CASE \E f \in {"setprio_lock", "create_init", "wake_unlock"} : stack[t] # <<>> /\ Continue(t, <<f>>)
  BY <1>3, <1>4
<1>5. CASE \E f \in {"wake", "setprio_write", "alloc_claim"} : Push(t, <<f>>)
  BY <1>3, <1>5
<1>6. CASE \/ stack[t] # <<>> /\ Continue(t, <<"yield_lock", "nopreempt_off">>)
           \/ Push(t, <<"yield_lock", "nopreempt_off">>)
  BY <1>3, <1>6
<1> QED BY <1>1, <1>4, <1>5, <1>6

LEMMA CreateInitLock ==
    ASSUME LockInv, OwnerInv', NEW l \in LWPs, NEW t \in Threads, UNCHANGED mtxVars, CreateInit(l, t)
    PROVE  Locks'
<1>0. PlaceInv /\ TypeInv /\ PlaceTypes /\ CallTypes
  BY LockTypes
<1>1. Running(l, t) /\ stack[t] # <<>> /\ Head(stack[t]) = "create_init"
  BY DEF CreateInit, At
<1>2. PICK u \in Threads \ {t} : u = newthr[t] /\ ut_state[u] \in {"UT_NO_STATE", "UT_TRANSITION"}
  BY <1>0, <1>1, Newborn
<1>3. /\ stack' = [stack EXCEPT ![u] = <<"nopreempt_off">>, ![t] = <<"startonrunq">> \o Tail(@)]
      /\ waitq' = [waitq EXCEPT ![u] = <<>>] /\ pmut' = [pmut EXCEPT ![u] = NoLwp]
      /\ UNCHANGED <<curthr, swarg, m_owner, marg, carg, crit>>
  BY <1>2 DEF CreateInit, argVars, mtxVars, cpuVars
<1>4. /\ stack'[t] = <<"startonrunq">> \o Tail(stack[t]) /\ stack'[u] = <<"nopreempt_off">>
      /\ \A v \in Threads \ {t, u} : stack'[v] = stack[v]
  BY <1>0, <1>3 DEF PlaceTypes
<1>5. Tail(stack[t]) = <<>>
  BY <1>0, <1>1, RowOf, Rows
<1>6. ~CondPending(t)'
  <2>1. Tail(stack[t]) \in Seq(AllLabels) /\ "startonrunq" \in AllLabels
    BY <1>0, <1>1, RowOf, LabelNames
  <2>2. Head(stack'[t]) = "startonrunq" /\ Tail(stack'[t]) = <<>>
    BY <1>4, <1>5, <2>1, ConsProperties
  <2> QED BY <2>2, Literals DEF CondPending, Pending
<1>7. OnNoLwp(u)
  BY <1>0, <1>2 DEF OnNoLwp, Running, PlaceInv, TypeInv, ThreadsExist, NewbornOK
<1>8. \A o \in Objs : pmut'[o] = pmut[o] \/ (o \in Threads /\ OnNoLwp(o))
  BY <1>0, <1>3, <1>7 DEF CallTypes
<1>9. \A m \in Mutexes : waitq'[m] = waitq[m]
  BY <1>0, <1>3, ObjKinds DEF PlaceTypes
<1>10. \A v \in Threads \ {t} : SameCalls(v) /\ carg'[v] = carg[v]
  BY <1>2, <1>3, <1>4 DEF SameCalls
<1> QED BY <1>1, <1>3, <1>6, <1>8, <1>9, <1>10, LockCalm DEF AtHead

LEMMA YieldLockLock ==
    ASSUME LockInv, OwnerInv', NEW l \in LWPs, NEW t \in Threads, UNCHANGED mtxVars, YieldLock(l, t)
    PROVE  Locks'
<1>0. TypeInv /\ PlaceTypes /\ CallTypes /\ Locks /\ NoObj \notin Objs
  BY LockTypes
<1>1. /\ Running(l, t) /\ stack[t] # <<>> /\ Head(stack[t]) = "yield_lock" /\ Continue(t, <<"switch">>)
      /\ swarg' = [swarg EXCEPT ![t] = [queue |-> NoObj, saveonrq |-> TRUE, pmut |-> t]]
      /\ pmut[t] = NoLwp /\ pmut' = [pmut EXCEPT ![t] = l]
      /\ UNCHANGED <<curthr, waitq, m_owner, marg, carg, crit>>
  BY DEF YieldLock, At, mtxVars, cpuVars
<1>2. t \in Objs
  BY ObjKinds
<1>3. /\ swarg'[t].queue = NoObj /\ swarg'[t].pmut = t /\ \A u \in Threads \ {t} : swarg'[u] = swarg[u]
      /\ pmut'[t] = l /\ \A o \in Objs \ {t} : pmut'[o] = pmut[o]
  BY <1>0, <1>1, <1>2 DEF PlaceTypes, CallTypes
<1>4. /\ stack'[t] # <<>> /\ Head(stack'[t]) = "switch" /\ \A u \in Threads \ {t} : stack'[u] = stack[u]
      /\ Tail(stack'[t]) = Tail(stack[t])
  BY <1>0, <1>1, AfterContinue, LabelNames
<1>5. \A u \in Threads \ {t} : SameCalls(u) /\ carg'[u] = carg[u]
  BY <1>1, <1>3, <1>4 DEF SameCalls
<1>6. AtHead(t, {"switch"})' /\ Holds(t, swarg[t].pmut)'
  BY <1>1, <1>3, <1>4 DEF AtHead, Holds, Running
<1>7. CondPending(t)' => CondPending(t)
  BY <1>1, <1>4 DEF CondPending, Pending
<1>8. CondPending(t)' => Holds(t, carg[t])'
  <2>1. SUFFICES ASSUME CondPending(t) PROVE Holds(t, carg[t])'
    BY <1>7
  <2>2. Holds(t, carg[t])
    BY <1>0, <2>1 DEF Locks, CondHolds, CondPending
  <2>3. PICK c \in Conds : c = carg[t]
    BY <1>0, <2>1 DEF CondPending, TypeInv, ArgumentsOK, ArgumentsOf, NeedsCond, Pending, CallTypes
  <2>4. pmut'[c] = pmut[c]
    BY <1>3, <2>3, ObjKinds
  <2> QED BY <1>1, <2>2, <2>3, <2>4 DEF Holds, Running
<1>9. \A m \in Mutexes : swarg'[t].queue # m
  BY <1>3, ObjKinds
<1> QED BY <1>1, <1>3, <1>5, <1>6, <1>8, <1>9, LockFrame

\* The end of a switch gives back the mutex it was to release.
LEMMA SwitchLock ==
    ASSUME LockInv, OwnerInv', NEW l \in LWPs, NEW t \in Threads, UNCHANGED mtxVars, Switch(l, t)
    PROVE  Locks'
<1>0. TypeInv /\ PlaceTypes /\ CallTypes /\ Locks /\ NoObj \notin Objs
  BY LockTypes
<1> DEFINE q == swarg[t].queue
           b == swarg[t].pmut
<1>1. /\ Running(l, t) /\ stack[t] # <<>> /\ Head(stack[t]) = "switch" /\ Continue(t, <<>>)
      /\ waitq' = IF q = NoObj THEN waitq ELSE [waitq EXCEPT ![q] = Append(@, t)]
      /\ pmut' = IF b = NoObj THEN pmut ELSE [pmut EXCEPT ![b] = NoLwp]
      /\ swarg' = [swarg EXCEPT ![t] = NoSwitch] /\ UNCHANGED <<m_owner, marg, carg, crit>>
  BY DEF Switch, At, mtxVars
<1>2. /\ stack'[t] = Tail(stack[t])
      /\ \A u \in Threads \ {t} : stack'[u] = stack[u] /\ swarg'[u] = swarg[u]
      /\ swarg'[t].queue = NoObj /\ swarg'[t].pmut = NoObj
  BY <1>0, <1>1, AfterContinue DEF PlaceTypes, NoSwitch
<1>3. \A u \in Threads \ {t} : SameCalls(u) /\ carg'[u] = carg[u]
  BY <1>1, <1>2 DEF SameCalls
<1>4. \A k \in LWPs \ {l} : curthr'[k] = curthr[k]
  <2>1. PICK rq, sz, st, lw : Dispatch(l, rq, sz, st, lw)
    BY DEF Switch
  <2> QED BY <1>0, <2>1 DEF Dispatch, PickThread, Park, BadQueue, PlaceTypes
<1>5. b # NoObj => pmut[b] = l
  BY <1>0, <1>1, HolderIsUnique DEF Locks, SwitchHolds, PlaceTypes
<1>6. \A o \in Objs : pmut'[o] = pmut[o] \/ pmut[o] \in {NoLwp, l}
  BY <1>0, <1>1, <1>5 DEF CallTypes
<1>7. ~CondPending(t)'
  <2>1. Tail(stack[t]) \in {<<"nopreempt_off">>, <<"cond_relock">>, <<"mtx_locked">>, <<"mtx_locked", "nopreempt_off">>} \cup Yielding
    BY <1>0, <1>1, RowOf, Rows
  <2>2. Head(Tail(stack[t])) # "cond_sleep" /\ Tail(Tail(stack[t])) \in {<<>>, <<"nopreempt_off">>, <<"create_init">>, <<"wake_unlock">>}
    BY <2>1, Literals DEF Yielding
  <2> QED BY <1>2, <2>2, Literals DEF CondPending, Pending
<1>8. ASSUME NEW m \in Mutexes, m_owner'[m] = NoThread
      PROVE  waitq'[m] = waitq[m] /\ m_owner[m] = NoThread
  <2>1. m_owner[m] = NoThread
    BY <1>1, <1>8
  <2>2. q # m
    BY <1>0, <2>1 DEF Locks, SleeperOwned
  <2> QED BY <1>0, <1>1, <2>1, <2>2, ObjKinds DEF PlaceTypes
<1>9. \A m \in Mutexes : swarg'[t].queue # m
  BY <1>2, ObjKinds
<1> HIDE DEF q, b
<1> QED BY <1>1, <1>2, <1>3, <1>4, <1>6, <1>7, <1>8, <1>9, LockFrame

LEMMA SchedLock ==
    ASSUME LockInv, OwnerInv', Disciplined, NEW l \in LWPs, NEW t \in Threads, UNCHANGED mtxVars,
           LibraryStep(l, t) \/ ClientStep(l, t) \/ ClockInterrupt(l, t)
    PROVE  Locks'
<1>1. CASE SwitchAborts(l, t) \/ (\E prio \in Prios : StartOnRunq(l, t, prio) /\ UNCHANGED stack)
  <2>1. UNCHANGED <<curthr, stack, swarg, waitq, pmut, m_owner, marg, carg, crit>>
    BY <1>1 DEF SwitchAborts, StartOnRunq, mtxVars, argVars, waitVars, cpuVars
  <2> QED BY <2>1, LockTypes DEF Locks, SwitchHolds, CondHolds, SleeperOwned, NoStrandedWaiter, AtHead, Holds, Running, CondPending, Pending
<1>2. /\ Wake(l, t) => Continue(t, <<>>) \/ Continue(t, <<"wake_unlock">>)
      /\ SetprioLock(l, t) => Continue(t, <<>>) \/ Continue(t, YieldFrames)
      /\ \A prio \in Prios : StartOnRunq(l, t, prio) => Continue(t, <<>>) \/ UNCHANGED stack
  BY DEF Wake, SetprioLock, StartOnRunq
<1>3. ASSUME NEW prio \in Prios, StartOnRunq(l, t, prio) PROVE Locks'
  BY <1>1, <1>2, <1>3, PopSchedLock
<1>4. CASE Wake(l, t) \/ SetprioLock(l, t)
  BY <1>2, <1>4, PopSchedLock, GoSchedLock
<1>5. CASE Return(l, t) \/ WakeUnlock(l, t) \/ AllocStackFails(l, t)
  BY <1>5, PopSchedLock
<1>6. CASE SetprioWrite(l, t) \/ AllocClaim(l, t) \/ ClientStep(l, t) \/ ClockInterrupt(l, t)
  BY <1>6, GoSchedLock
<1>7. CASE CreateInit(l, t) \/ YieldLock(l, t) \/ Switch(l, t)
  BY <1>7, CreateInitLock, YieldLockLock, SwitchLock
<1> QED BY <1>1, <1>3, <1>4, <1>5, <1>6, <1>7 DEF LibraryStep

\* An LWP that scans for the first time, or after lwp_park, executes nothing.
LEMMA LwpLock ==
    ASSUME LockInv, OwnerInv', NEW l \in LWPs, LwpStep(l), UNCHANGED mtxVars
    PROVE  Locks'
<1>0. PlaceInv /\ PlaceTypes /\ CallTypes /\ Locks /\ NoThread \notin Threads
  BY LockTypes
<1>1. UNCHANGED <<stack, swarg, waitq, pmut, m_owner, marg, carg, crit>>
  BY DEF LwpStep, SpuriousWakeup, LwpStart, Unpark, mtxVars, thrVars, runqVars, waitVars, argVars
<1>2. curthr[l] = NoThread
  <2>1. lwp[l] # "running"
    BY DEF LwpStep, SpuriousWakeup, LwpStart, Unpark
  <2> QED BY <1>0, <2>1 DEF PlaceInv, LwpOK
<1>3. \A k \in LWPs \ {l} : curthr'[k] = curthr[k]
  <2>1. UNCHANGED curthr \/ \E rq, sz, st, lw : Dispatch(l, rq, sz, st, lw)
    BY DEF LwpStep, SpuriousWakeup, LwpStart, Unpark
  <2> QED BY <1>0, <2>1 DEF Dispatch, PickThread, Park, BadQueue, PlaceTypes
<1>4. \A u \in Threads : \A o : Holds(u, o) => Holds(u, o)'
  BY <1>0, <1>1, <1>2, <1>3 DEF Holds, Running
<1>5. SwitchHolds'
  BY <1>0, <1>1, <1>4 DEF Locks, SwitchHolds, AtHead, Holds
<1>6. CondHolds'
  BY <1>0, <1>1, <1>4 DEF Locks, CondHolds, CondPending, Pending, Holds
<1>7. SleeperOwned' /\ NoStrandedWaiter'
  BY <1>0, <1>1 DEF Locks, SleeperOwned, NoStrandedWaiter
<1> QED BY <1>5, <1>6, <1>7 DEF Locks

-----------------------------------------------------------------------------
(* Mutexes and condition variables.                                        *)

\* A client calls an entry point.
LEMMA EntryFrames ==
    ASSUME CallTypes, NEW l \in LWPs, NEW t \in Threads, SyncClientStep(l, t)
    PROVE  \E f \in {"mtx_lock", "mtx_trylock", "mtx_unlock", "cond_wait", "cond_signal", "cond_broadcast"} :
              /\ Enter(t, f) /\ InClient(l, t) /\ EntryUnchanged
              /\ \A u \in Threads \ {t} : marg'[u] = marg[u] /\ carg'[u] = carg[u]
<1>1. ASSUME NEW m \in Mutexes
      PROVE  /\ UthreadMtxLock(l, t, m) => Enter(t, "mtx_lock") /\ UNCHANGED carg
             /\ UthreadMtxTrylock(l, t, m) => Enter(t, "mtx_trylock") /\ UNCHANGED carg
             /\ UthreadMtxUnlock(l, t, m) => Enter(t, "mtx_unlock") /\ UNCHANGED carg
             /\ UthreadMtxLock(l, t, m) \/ UthreadMtxTrylock(l, t, m) \/ UthreadMtxUnlock(l, t, m)
                   => marg' = [marg EXCEPT ![t] = m] /\ InClient(l, t) /\ EntryUnchanged
  BY DEF UthreadMtxLock, UthreadMtxTrylock, UthreadMtxUnlock
<1>2. ASSUME NEW c \in Conds
      PROVE  /\ \A m \in Mutexes : UthreadCondWait(l, t, c, m) =>
                   Enter(t, "cond_wait") /\ InClient(l, t) /\ EntryUnchanged /\ marg' = [marg EXCEPT ![t] = m]
             /\ UthreadCondSignal(l, t, c) =>
                   Enter(t, "cond_signal") /\ InClient(l, t) /\ EntryUnchanged /\ UNCHANGED marg
             /\ UthreadCondBroadcast(l, t, c) =>
                   Enter(t, "cond_broadcast") /\ InClient(l, t) /\ EntryUnchanged /\ UNCHANGED marg
             /\ (\E m \in Mutexes : UthreadCondWait(l, t, c, m)) \/ UthreadCondSignal(l, t, c)
                   \/ UthreadCondBroadcast(l, t, c) => carg' = [carg EXCEPT ![t] = c]
  BY DEF UthreadCondWait, UthreadCondSignal, UthreadCondBroadcast
<1>3. /\ \A m \in Mutexes, u \in Threads \ {t} : [marg EXCEPT ![t] = m][u] = marg[u]
      /\ \A c \in Conds, u \in Threads \ {t} : [carg EXCEPT ![t] = c][u] = carg[u]
  BY DEF CallTypes
<1> DEFINE P(f) == /\ Enter(t, f) /\ InClient(l, t) /\ EntryUnchanged
                   /\ \A u \in Threads \ {t} : marg'[u] = marg[u] /\ carg'[u] = carg[u]
<1>4. ASSUME NEW m \in Mutexes
      PROVE  /\ UthreadMtxLock(l, t, m) => P("mtx_lock")
             /\ UthreadMtxTrylock(l, t, m) => P("mtx_trylock")
             /\ UthreadMtxUnlock(l, t, m) => P("mtx_unlock")
             /\ \A c \in Conds : UthreadCondWait(l, t, c, m) => P("cond_wait")
  BY <1>1, <1>2, <1>3
<1>5. ASSUME NEW c \in Conds
      PROVE  /\ UthreadCondSignal(l, t, c) => P("cond_signal")
             /\ UthreadCondBroadcast(l, t, c) => P("cond_broadcast")
  BY <1>2, <1>3
<1> HIDE DEF P
<1>6. \E f \in {"mtx_lock", "mtx_trylock", "mtx_unlock", "cond_wait", "cond_signal", "cond_broadcast"} : P(f)
  BY <1>4, <1>5 DEF SyncClientStep
<1> QED BY <1>6 DEF P

\* An entry point, called by a client.
LEMMA EntryLock ==
    ASSUME LockInv, OwnerInv', NEW l \in LWPs, NEW t \in Threads, SyncClientStep(l, t)
    PROVE  Locks'
<1>0. TypeInv /\ CallTypes
  BY LockTypes
<1>1. PICK f \in {"mtx_lock", "mtx_trylock", "mtx_unlock", "cond_wait", "cond_signal", "cond_broadcast"} :
         /\ Enter(t, f) /\ InClient(l, t) /\ EntryUnchanged
         /\ \A u \in Threads \ {t} : marg'[u] = marg[u] /\ carg'[u] = carg[u]
  BY <1>0, EntryFrames
<1>2. Running(l, t) /\ stack[t] = <<>> /\ Push(t, <<f>>) /\ UNCHANGED <<curthr, pmut, swarg, waitq, m_owner, crit>>
  BY <1>1 DEF Enter, InClient, Running, EntryUnchanged, cpuVars, waitVars, argVars
<1>3. (CondPending(t)' => CondPending(t)) /\ \A u \in Threads \ {t} : stack'[u] = stack[u]
  <2>1. f \in AllLabels \ {"cond_sleep"}
    BY <1>1, LabelNames
  <2> QED BY <1>0, <1>2, <2>1, CondGo
<1>4. ~CondPending(t)'
  BY <1>2, <1>3 DEF CondPending, Pending
<1>5. \A u \in Threads \ {t} : SameCalls(u) /\ carg'[u] = carg[u]
  BY <1>1, <1>2, <1>3 DEF SameCalls
<1> QED BY <1>2, <1>4, <1>5, LockCalm DEF AtHead

\* uthread_mtx_lock takes a free mutex, which nobody waits for, or prepares to
\* sleep with m_pmut held; uthread_mtx_trylock and the return of a sleeper.
LEMMA MtxLockLock ==
    ASSUME LockInv, OwnerInv', NEW l \in LWPs, NEW t \in Threads,
           MtxLock(l, t) \/ MtxLocked(l, t) \/ MtxTrylock(l, t)
    PROVE  Locks'
<1>0. PlaceInv /\ TypeInv /\ PlaceTypes /\ CallTypes /\ Locks /\ NoThread \notin Threads /\ NoObj \notin Objs
  BY LockTypes
<1>1. /\ Running(l, t) /\ stack[t] # <<>> /\ Head(stack[t]) \in {"mtx_lock", "mtx_locked", "mtx_trylock"}
      /\ UNCHANGED <<curthr, waitq, carg>>
  BY DEF MtxLock, MtxLocked, MtxTrylock, At, MtxSleep, cpuVars, waitVars
<1>2. PICK m \in Mutexes : m = marg[t]
  BY <1>0, <1>1 DEF TypeInv, ArgumentsOK, ArgumentsOf, NeedsMutex, Pending, CallTypes
<1>3. CASE MtxLocked(l, t) \/ MtxTrylock(l, t) \/ (MtxLock(l, t) /\ m_owner[m] = NoThread)
  <2>1. /\ Continue(t, <<>>) /\ UNCHANGED <<swarg, pmut>> /\ marg' = [marg EXCEPT ![t] = NoObj]
        /\ UNCHANGED m_owner \/ m_owner' = [m_owner EXCEPT ![m] = t]
        /\ UNCHANGED crit \/ crit' = [crit EXCEPT ![t] = @ \cup {m}]
    BY <1>2, <1>3 DEF MtxLocked, MtxTrylock, MtxLock, waitVars, argVars
  <2>2. (CondPending(t)' => CondPending(t)) /\ \A u \in Threads \ {t} : stack'[u] = stack[u]
    BY <1>0, <1>1, <2>1, CondPop
  <2>3. \A u \in Threads \ {t} : SameCalls(u) /\ carg'[u] = carg[u]
    BY <1>0, <1>1, <2>1, <2>2 DEF SameCalls, CallTypes
  <2>4. \A n \in Mutexes : m_owner'[n] = NoThread => m_owner[n] = NoThread
    BY <1>0, <2>1 DEF CallTypes
  <2> QED BY <1>1, <2>1, <2>2, <2>3, <2>4, LockCalm DEF AtHead
<1>4. CASE MtxLock(l, t) /\ m_owner[m] # NoThread
  <2>1. /\ Continue(t, SleepFrames(t)) /\ UNCHANGED <<m_owner, crit, marg>>
        /\ swarg' = [swarg EXCEPT ![t] = [queue |-> m, saveonrq |-> FALSE, pmut |-> m]]
        /\ pmut[m] = NoLwp /\ pmut' = [pmut EXCEPT ![m] = l] /\ Head(stack[t]) = "mtx_lock"
    BY <1>2, <1>4 DEF MtxLock, MtxSleep, At
  <2>2. SleepFrames(t) = <<"switch", "mtx_locked">>
    BY <1>0 DEF SleepFrames, TypeInv, ThreadsExist
  <2>3. /\ stack'[t] # <<>> /\ Head(stack'[t]) = "switch" /\ Tail(stack'[t]) = <<"mtx_locked">> \o Tail(stack[t])
        /\ \A u \in Threads \ {t} : stack'[u] = stack[u]
    BY <1>0, <1>1, <2>1, <2>2, AfterContinue, LabelNames
  <2>4. ~CondPending(t)'
    <3>1. Tail(stack[t]) \in Seq(AllLabels) /\ "mtx_locked" \in AllLabels
      BY <1>0, <1>1, RowOf, LabelNames
    <3>2. Head(Tail(stack'[t])) = "mtx_locked"
      BY <2>3, <3>1, ConsProperties
    <3> QED BY <2>3, <3>2, Literals DEF CondPending, Pending
  <2>5. m \in Objs /\ m \notin Threads /\ m # NoObj
    BY ObjKinds
  <2>6. /\ swarg'[t].queue = m /\ swarg'[t].pmut = m /\ \A u \in Threads \ {t} : swarg'[u] = swarg[u]
        /\ pmut'[m] = l /\ \A o \in Objs \ {m} : pmut'[o] = pmut[o]
    BY <1>0, <2>1, <2>5 DEF PlaceTypes, CallTypes
  <2>7. \A u \in Threads \ {t} : SameCalls(u) /\ carg'[u] = carg[u]
    BY <1>1, <2>1, <2>3, <2>6 DEF SameCalls
  <2>8. AtHead(t, {"switch"})' /\ Holds(t, swarg[t].pmut)'
    BY <1>1, <2>3, <2>6 DEF AtHead, Holds, Running
  <2>9. \A o \in Objs : pmut'[o] = pmut[o] \/ pmut[o] = NoLwp
    BY <2>1, <2>6
  <2>10. \A n \in Mutexes : m_owner'[n] = NoThread => n # m
    BY <1>4, <2>1
  <2> QED BY <1>1, <2>1, <2>4, <2>5, <2>6, <2>7, <2>8, <2>9, <2>10, LockFrame
<1> QED BY <1>3, <1>4

\* uthread_mtx_unlock frees a mutex only when nobody waits for it, and nobody
\* is about to: m_pmut is free.
LEMMA UnlockLock ==
    ASSUME LockInv, OwnerInv', NEW l \in LWPs, NEW t \in Threads, MtxUnlock(l, t)
    PROVE  Locks'
<1>0. TypeInv /\ PlaceTypes /\ CallTypes /\ NoThread \notin Threads
  BY LockTypes
<1>1. /\ Running(l, t) /\ stack[t] # <<>> /\ Head(stack[t]) = "mtx_unlock"
      /\ UNCHANGED <<curthr, swarg, carg, pmut>>
  BY DEF MtxUnlock, At, cpuVars
<1>2. PICK m \in Mutexes : m = marg[t] /\ m \in Objs
  BY <1>0, <1>1, ObjKinds DEF TypeInv, ArgumentsOK, ArgumentsOf, NeedsMutex, Pending, CallTypes
<1>3. /\ crit' = [crit EXCEPT ![t] = @ \ {m}] /\ pmut[m] = NoLwp
      /\ \E n : marg' = [marg EXCEPT ![t] = n]
      /\ \/ /\ waitq[m] = <<>> /\ UNCHANGED waitq
            /\ m_owner' = [m_owner EXCEPT ![m] = NoThread] /\ Continue(t, <<>>)
         \/ /\ waitq[m] # <<>> /\ waitq' = [waitq EXCEPT ![m] = Tail(@)]
            /\ m_owner' = [m_owner EXCEPT ![m] = Head(waitq[m])]
            /\ Continue(t, <<"wake", "nopreempt_off">>)
  BY <1>2 DEF MtxUnlock, PassOn
<1>4. (CondPending(t)' => CondPending(t)) /\ \A u \in Threads \ {t} : stack'[u] = stack[u]
  <2>1. CASE Continue(t, <<>>)
    BY <1>0, <1>1, <2>1, CondPop
  <2>2. CASE Continue(t, <<"wake", "nopreempt_off">>)
    <3>1. "wake" \in AllLabels \ {"cond_sleep"}
      BY LabelNames
    <3> QED BY <1>0, <1>1, <2>2, <3>1, CondGo
  <2> QED BY <1>3, <2>1, <2>2
<1>5. \A u \in Threads \ {t} : SameCalls(u) /\ carg'[u] = carg[u]
  BY <1>0, <1>1, <1>3, <1>4 DEF SameCalls, CallTypes
<1>6. \A n \in Mutexes \ {m} : m_owner'[n] = m_owner[n] /\ waitq'[n] = waitq[n]
  BY <1>0, <1>3, ObjKinds DEF CallTypes, PlaceTypes
<1>7. m_owner'[m] = NoThread => waitq'[m] = <<>>
  <2>1. CASE waitq[m] = <<>>
    BY <1>3, <2>1
  <2>2. CASE waitq[m] # <<>>
    <3>1. Head(waitq[m]) \in Threads
      BY <1>0, <1>2, <2>2 DEF PlaceTypes
    <3> QED BY <1>0, <1>3, <2>2, <3>1 DEF CallTypes
  <2> QED BY <2>1, <2>2
<1>8. ASSUME NEW n \in Mutexes, m_owner'[n] = NoThread
      PROVE  \/ m_owner[n] = NoThread /\ waitq'[n] = waitq[n]
             \/ waitq'[n] = <<>> /\ pmut[n] = NoLwp
  BY <1>3, <1>6, <1>7, <1>8
<1> QED BY <1>1, <1>4, <1>5, <1>8, LockCalm DEF AtHead

LEMMA CondLock ==
    ASSUME LockInv, OwnerInv', NEW l \in LWPs, NEW t \in Threads,
           CondWait(l, t) \/ CondSleep(l, t) \/ CondRelock(l, t) \/ CondSignal(l, t) \/ CondBroadcast(l, t)
    PROVE  Locks'
<1>0. TypeInv /\ PlaceTypes /\ CallTypes /\ Locks /\ NoObj \notin Objs
  BY LockTypes
<1>1. /\ Running(l, t) /\ stack[t] # <<>> /\ UNCHANGED <<curthr, m_owner, marg, crit>>
      /\ Head(stack[t]) \in {"cond_wait", "cond_sleep", "cond_relock", "cond_signal", "cond_broadcast"}
  BY DEF CondWait, CondSleep, CondRelock, CondSignal, CondBroadcast, At, mtxVars, cpuVars
<1>2. PICK c \in Conds : c = carg[t] /\ c \in Objs /\ c # NoObj
  BY <1>0, <1>1, ObjKinds DEF TypeInv, ArgumentsOK, ArgumentsOf, NeedsCond, Pending, CallTypes
<1>3. CASE CondWait(l, t)
  <2>1. /\ Continue(t, <<"mtx_unlock", "cond_sleep">>) /\ UNCHANGED <<waitq, swarg, carg>>
        /\ pmut[c] = NoLwp /\ pmut' = [pmut EXCEPT ![c] = l] /\ Head(stack[t]) = "cond_wait"
    BY <1>2, <1>3 DEF CondWait, At, argVars, mtxVars
  <2>2. Head(stack'[t]) = "mtx_unlock" /\ \A u \in Threads \ {t} : stack'[u] = stack[u]
    BY <1>0, <1>1, <2>1, AfterContinue, LabelNames
  <2>3. pmut'[c] = l /\ \A o \in Objs : pmut'[o] = pmut[o] \/ pmut[o] = NoLwp
    BY <1>0, <1>2, <2>1 DEF CallTypes
  <2>4. Holds(t, carg[t])'
    BY <1>1, <1>2, <2>1, <2>3 DEF Holds, Running
  <2>5. swarg'[t].pmut = NoObj /\ swarg'[t].queue = NoObj
    BY <2>1, NoArguments DEF AtHead
  <2>6. \A m \in Mutexes : swarg'[t].queue # m
    BY <2>5, ObjKinds
  <2> QED BY <1>1, <2>1, <2>2, <2>3, <2>4, <2>5, <2>6, LockFrame DEF SameCalls
<1>4. CASE CondSleep(l, t)
  <2>1. /\ Continue(t, <<"switch", "cond_relock">>) /\ UNCHANGED <<waitq, pmut, carg>>
        /\ swarg' = [swarg EXCEPT ![t] = [queue |-> c, saveonrq |-> FALSE, pmut |-> c]]
        /\ Head(stack[t]) = "cond_sleep"
    BY <1>2, <1>4 DEF CondSleep, At, waitVars, mtxVars
  <2>2. Holds(t, c)
    BY <1>0, <1>1, <1>2, <2>1 DEF Locks, CondHolds, CondPending, Pending
  <2>3. /\ stack'[t] # <<>> /\ Head(stack'[t]) = "switch" /\ Tail(stack'[t]) = <<"cond_relock">> \o Tail(stack[t])
        /\ \A u \in Threads \ {t} : stack'[u] = stack[u]
    BY <1>0, <1>1, <2>1, AfterContinue, LabelNames
  <2>4. ~CondPending(t)'
    <3>1. Tail(stack[t]) \in Seq(AllLabels) /\ "cond_relock" \in AllLabels
      BY <1>0, <1>1, RowOf, LabelNames
    <3>2. Head(Tail(stack'[t])) = "cond_relock"
      BY <2>3, <3>1, ConsProperties
    <3> QED BY <2>3, <3>2, Literals DEF CondPending, Pending
  <2>5. swarg'[t].queue = c /\ swarg'[t].pmut = c /\ \A u \in Threads \ {t} : swarg'[u] = swarg[u]
    BY <1>0, <2>1 DEF PlaceTypes
  <2>6. AtHead(t, {"switch"})' /\ Holds(t, swarg[t].pmut)'
    BY <1>1, <2>1, <2>2, <2>3, <2>5 DEF AtHead, Holds, Running
  <2>7. \A u \in Threads \ {t} : SameCalls(u) /\ carg'[u] = carg[u]
    BY <1>1, <2>1, <2>3, <2>5 DEF SameCalls
  <2>8. c \notin Threads /\ \A m \in Mutexes : m # c
    BY ObjKinds
  <2> QED BY <1>1, <2>1, <2>4, <2>5, <2>6, <2>7, <2>8, LockFrame
<1>5. CASE CondRelock(l, t) \/ CondSignal(l, t) \/ CondBroadcast(l, t)
  <2>1. /\ UNCHANGED <<swarg, pmut>> /\ ~AtHead(t, {"switch"})
        /\ Head(stack[t]) \in {"cond_relock", "cond_signal", "cond_broadcast"}
        /\ UNCHANGED carg \/ carg' = [carg EXCEPT ![t] = NoObj]
        /\ \/ Continue(t, <<>>)
           \/ \E f \in {"wake", "mtx_lock"}, g \in {"nopreempt_off", "cond_broadcast"} : Continue(t, <<f, g>>)
    BY <1>5 DEF CondRelock, CondSignal, CondBroadcast, WakeOldest, At, AtHead, argVars, waitVars
  <2>2. (CondPending(t)' => CondPending(t)) /\ \A u \in Threads \ {t} : stack'[u] = stack[u]
    <3>1. CASE Continue(t, <<>>)
      BY <1>0, <1>1, <2>1, <3>1, CondPop DEF AtHead
    <3>2. ASSUME NEW f \in {"wake", "mtx_lock"}, NEW g \in {"nopreempt_off", "cond_broadcast"},
                 Continue(t, <<f, g>>)
          PROVE  (CondPending(t)' => CondPending(t)) /\ \A u \in Threads \ {t} : stack'[u] = stack[u]
      <4>1. f \in AllLabels \ {"cond_sleep"}
        BY LabelNames
      <4> QED BY <1>0, <1>1, <3>2, <4>1, CondGo
    <3> QED BY <2>1, <3>1, <3>2
  <2>3. ~CondPending(t)
    <3>1. <<ut_no_preempt_count[t], Head(stack[t]), Tail(stack[t])>> \in Continuations
      BY <1>0, <1>1, RowOf
    <3>2. Head(stack[t]) \in Entered \ {"nopreempt_off", "wake", "mtx_lock", "mtx_locked", "mtx_unlock"}
      BY <2>1 DEF Entered
    <3>3. Tail(stack[t]) = <<>>
      BY <3>1, <3>2, Rows
    <3> QED BY <2>1, <3>3, Literals DEF CondPending, Pending
  <2>4. \A u \in Threads \ {t} : SameCalls(u) /\ carg'[u] = carg[u]
    BY <1>0, <1>1, <2>1, <2>2 DEF SameCalls, CallTypes
  <2>5. \A m \in Mutexes : waitq'[m] = waitq[m]
    <3>1. UNCHANGED waitq \/ waitq' = [waitq EXCEPT ![c] = Tail(@)]
      BY <1>2, <1>5 DEF CondRelock, CondSignal, CondBroadcast, WakeOldest, waitVars
    <3> QED BY <1>0, <3>1, ObjKinds DEF PlaceTypes
  <2> QED BY <1>1, <2>1, <2>2, <2>3, <2>4, <2>5, LockCalm
<1> QED BY <1>3, <1>4, <1>5

-----------------------------------------------------------------------------
LEMMA LockInvInit == SyncInit => LockInv
<1> SUFFICES ASSUME SyncInit PROVE LockInv
  OBVIOUS
<1>1. OwnerInv
  BY OwnerInvInit
<1>2. \A t \in Threads : /\ swarg[t].pmut = NoObj /\ swarg[t].queue = NoObj
                         /\ stack[t] = <<>> \/ stack[t] = <<"nopreempt_off">>
  BY DEF SyncInit, SchedInit, NoSwitch
<1>3. SwitchHolds /\ SleeperOwned
  BY <1>2, ObjKinds DEF SwitchHolds, SleeperOwned
<1>4. CondHolds
  BY <1>2, Literals DEF CondHolds, CondPending, Pending
<1>5. NoStrandedWaiter
  BY ObjKinds DEF SyncInit, SchedInit, NoStrandedWaiter
<1> QED BY <1>1, <1>3, <1>4, <1>5 DEF LockInv

LEMMA LockInvNext ==
    ASSUME Disciplined, LockInv, [SyncNext]_syncVars
    PROVE  LockInv'
<1>1. OwnerInv'
  BY OwnerInvNext DEF LockInv
<1>2. CASE UNCHANGED syncVars
  <2>1. UNCHANGED <<curthr, stack, swarg, waitq, pmut, m_owner, carg>>
    BY <1>2 DEF syncVars, schedVars, cpuVars, thrVars, runqVars, waitVars, argVars, mtxVars
  <2>2. SwitchHolds' /\ CondHolds' /\ SleeperOwned' /\ NoStrandedWaiter'
    BY <2>1 DEF LockInv, SwitchHolds, CondHolds, SleeperOwned, NoStrandedWaiter, AtHead, Holds, Running, CondPending, Pending
  <2> QED BY <1>1, <2>2 DEF LockInv
<1>3. ASSUME NEW l \in LWPs, LwpStep(l), UNCHANGED mtxVars
      PROVE  Locks'
  BY <1>1, <1>3, LwpLock
<1>4. ASSUME NEW l \in LWPs, NEW t \in Threads, UNCHANGED mtxVars,
             LibraryStep(l, t) \/ ClientStep(l, t) \/ ClockInterrupt(l, t)
      PROVE  Locks'
  BY <1>1, <1>4, SchedLock
<1>5. ASSUME NEW l \in LWPs, NEW t \in Threads, SyncLibraryStep(l, t)
      PROVE  Locks'
  BY <1>1, <1>5, MtxLockLock, UnlockLock, CondLock DEF SyncLibraryStep
<1>6. ASSUME NEW l \in LWPs, NEW t \in Threads, SyncClientStep(l, t)
      PROVE  Locks'
  BY <1>1, <1>6, EntryLock
<1>7. CASE SyncNext
  <2>1. Locks'
    BY <1>3, <1>4, <1>5, <1>6, <1>7 DEF SyncNext, SchedNext
  <2> QED BY <1>1, <2>1 DEF LockInv, Locks
<1> QED BY <1>2, <1>7

-----------------------------------------------------------------------------
(* What follows from LockInv.                                              *)

\* A thread whose continuation contains the rest of a uthread_cond_wait has it
\* where CondPending looks.
LEMMA WaitFrames ==
    ASSUME TypeInv, NEW t \in Threads, Contains(stack[t], "cond_sleep")
    PROVE  CondPending(t)
<1>1. PICK i \in 1..Len(stack[t]) : stack[t][i] = "cond_sleep"
  BY DEF Contains
<1>2. stack[t] \in Seq(AllLabels) /\ stack[t] # <<>>
  BY <1>1 DEF TypeInv, SyncTypeOK, SchedTypes, AllLabels
<1>3. <<ut_no_preempt_count[t], Head(stack[t]), Tail(stack[t])>> \in Continuations
  BY <1>2, RowOf
<1> DEFINE r == Tail(stack[t])
<1>4. Head(stack[t]) = "cond_sleep" \/ \E j \in 1..Len(r) : r[j] = "cond_sleep"
  <2>1. CASE i = 1
    BY <1>1, <1>2, <2>1
  <2>2. CASE i # 1
    <3>1. i - 1 \in 1..Len(r) /\ r[i - 1] = stack[t][i]
      BY <1>1, <1>2, <2>2
    <3> QED BY <1>1, <3>1
  <2> QED BY <2>1, <2>2
<1>5. r \in {<<>>, <<"nopreempt_off">>, <<"create_init">>, <<"cond_sleep">>, <<"cond_broadcast">>,
             <<"mtx_locked">>, <<"cond_relock">>, <<"mtx_locked", "nopreempt_off">>,
             <<"nopreempt_off", "cond_sleep">>} \cup Yielding
  <2> HIDE DEF r
  <2> QED BY <1>3 DEF Continuations, r
<1>6. /\ \A f, j : j \in 1..Len(<<f>>) => <<f>>[j] = f
      /\ \A f, g, j : j \in 1..Len(<<f, g>>) => <<f, g>>[j] \in {f, g}
      /\ \A j : j \notin 1..Len(<<>>)
  OBVIOUS
<1> HIDE DEF r
<1>7. (\E j \in 1..Len(r) : r[j] = "cond_sleep") => r \in {<<"cond_sleep">>, <<"nopreempt_off", "cond_sleep">>}
  <2>1. CASE r \in {<<"nopreempt_off">>, <<"create_init">>, <<"cond_broadcast">>, <<"mtx_locked">>, <<"cond_relock">>}
    BY <1>6, <2>1
  <2>2. CASE r \in {<<"mtx_locked", "nopreempt_off">>, <<"nopreempt_off", "create_init">>, <<"nopreempt_off", "wake_unlock">>}
    BY <1>6, <2>2
  <2>3. CASE r = <<>>
    BY <1>6, <2>3
  <2> QED BY <1>5, <2>1, <2>2, <2>3 DEF Yielding
<1> QED BY <1>2, <1>4, <1>7 DEF CondPending, Pending, r

LEMMA LockInvImplies == LockInv => NoStrandedWaiter /\ WaitIsAtomic
<1> SUFFICES ASSUME LockInv PROVE WaitIsAtomic
  BY DEF LockInv
<1>0. TypeInv /\ Locks /\ NoObj \notin Objs
  BY LockTypes
<1>1. SUFFICES ASSUME NEW t \in Threads, NEW c \in Conds, LeftMutexNotQueued(t, c)
               PROVE  Holds(t, c)
  BY DEF WaitIsAtomic, Holds, Running
<1>2. CASE Contains(stack[t], "cond_sleep")
  BY <1>0, <1>1, <1>2, WaitFrames DEF LeftMutexNotQueued, Locks, CondHolds, CondPending
<1>3. CASE swarg[t].queue = c
  BY <1>0, <1>3, ObjKinds DEF Locks, SwitchHolds
<1> QED BY <1>1, <1>2, <1>3 DEF LeftMutexNotQueued

\* Whoever takes a mutex that nobody handed over finds its queue empty.
LEMMA HandOffStep ==
    ASSUME LockInv, SyncNext, NEW m \in Mutexes, waitq[m] # <<>>, m_owner'[m] # m_owner[m]
    PROVE  m_owner'[m] = Head(waitq[m]) /\ waitq'[m] = Tail(waitq[m])
<1>0. PlaceTypes /\ CallTypes /\ TypeInv
  BY LockTypes
<1>1. m_owner[m] # NoThread
  BY DEF LockInv, NoStrandedWaiter
<1>2. PICK l \in LWPs, t \in Threads : SyncLibraryStep(l, t)
  <2>1. m_owner' # m_owner
    OBVIOUS
  <2>2. \A l \in LWPs, t \in Threads : SyncClientStep(l, t) => UNCHANGED m_owner
    BY DEF SyncClientStep, UthreadMtxLock, UthreadMtxTrylock, UthreadMtxUnlock, UthreadCondWait,
           UthreadCondSignal, UthreadCondBroadcast, EntryUnchanged
  <2> QED BY <2>1, <2>2 DEF SyncNext, mtxVars
<1>3. CASE MtxLock(l, t) \/ MtxTrylock(l, t)
  <2>1. UNCHANGED m_owner \/ (m_owner[marg[t]] = NoThread /\ m_owner' = [m_owner EXCEPT ![marg[t]] = t])
    BY <1>3 DEF MtxLock, MtxTrylock
  <2>2. marg[t] # m => m_owner'[m] = m_owner[m]
    BY <1>0, <2>1 DEF CallTypes
  <2> QED BY <1>1, <2>1, <2>2
<1>4. CASE MtxUnlock(l, t)
  <2>1. \/ m_owner' = [m_owner EXCEPT ![marg[t]] = NoThread] /\ waitq[marg[t]] = <<>>
        \/ /\ m_owner' = [m_owner EXCEPT ![marg[t]] = Head(waitq[marg[t]])]
           /\ waitq' = [waitq EXCEPT ![marg[t]] = Tail(@)]
    BY <1>4 DEF MtxUnlock, PassOn
  <2>2. marg[t] = m
    BY <1>0, <2>1 DEF CallTypes
  <2> QED BY <1>0, <2>1, <2>2, ObjKinds DEF CallTypes, PlaceTypes
<1>5. CASE \/ MtxLocked(l, t) \/ CondWait(l, t) \/ CondSleep(l, t) \/ CondRelock(l, t)
           \/ CondSignal(l, t) \/ CondBroadcast(l, t)
  BY <1>5 DEF MtxLocked, CondWait, CondSleep, CondRelock, CondSignal, CondBroadcast, mtxVars
<1> QED BY <1>2, <1>3, <1>4, <1>5 DEF SyncLibraryStep

\* The mutexes and condition variables keep LockInv: pmut stays with the
\* thread that is to be queued under it until it has been queued.
THEOREM LockInvariant ==
    ASSUME Disciplined
    PROVE  SyncSpec => []LockInv
<1>1. SyncInit => LockInv
  BY LockInvInit
<1>2. LockInv /\ [SyncNext]_syncVars => LockInv'
  BY LockInvNext
<1> QED BY <1>1, <1>2, PTL DEF SyncSpec

\* No thread sleeps in the queue of a mutex that nobody owns: an unlock cannot
\* fall between a lock's look at m_owner and its queueing.
THEOREM NobodyStranded ==
    ASSUME Disciplined
    PROVE  SyncSpec => []NoStrandedWaiter
<1>1. LockInv => NoStrandedWaiter
  BY LockInvImplies
<1> QED BY <1>1, LockInvariant, PTL

\* uthread_cond_wait releases its mutex and queues its caller in one atomic
\* step: the condition variable's pmut is held from the one to the other.
THEOREM WaitAtomic ==
    ASSUME Disciplined
    PROVE  SyncSpec => []WaitIsAtomic
<1>1. LockInv => WaitIsAtomic
  BY LockInvImplies
<1> QED BY <1>1, LockInvariant, PTL

\* A mutex that threads wait for changes hands by uthread_mtx_unlock only, to
\* the oldest waiter: neither uthread_mtx_lock nor uthread_mtx_trylock can
\* overtake the queue.
THEOREM OldestWaiterNext ==
    ASSUME Disciplined
    PROVE  SyncSpec => HandOff
<1> DEFINE Handed == \A m \in Mutexes :
              waitq[m] # <<>> /\ m_owner'[m] # m_owner[m]
                  => m_owner'[m] = Head(waitq[m]) /\ waitq'[m] = Tail(waitq[m])
<1>1. LockInv /\ [SyncNext]_syncVars => [Handed]_syncVars
  BY HandOffStep
<1> QED BY <1>1, LockInvariant, PTL DEF SyncSpec, HandOff

-----------------------------------------------------------------------------
(* For whom a POSIX mutex is held.                                         *)

Holders == PmutHeld /\ RunqHeld /\ WakeMasked

HolderOf(t, o) == swarg[t].pmut = o \/ (CondPending(t) /\ carg[t] = o)

LEMMA HolderTypes ==
    ASSUME HolderInv
    PROVE  /\ LockInv /\ PlaceInv /\ TypeInv /\ PlaceTypes /\ CallTypes /\ Holders
           /\ runq_mtx \in LWPs \cup {NoLwp} /\ ut_no_preempt_count \in [Threads -> Nat]
           /\ NoThread \notin Threads /\ NoObj \notin Objs /\ NoLwp \notin LWPs
  BY LockTypes DEF HolderInv, Holders, TypeInv, SyncTypeOK, SchedTypes

\* The thread of an LWP that holds a mutex is the one it is held for.
LEMMA HeldFor ==
    ASSUME HolderInv, NEW l \in LWPs, NEW t \in Threads, Running(l, t)
    PROVE  /\ \A o \in Objs : pmut[o] = l => HolderOf(t, o)
           /\ runq_mtx = l => ut_no_preempt_count[t] = 2 /\ AtHead(t, {"yield_lock", "switch"})
  BY HolderTypes DEF Holders, PmutHeld, RunqHeld, HolderOf, Running

LEMMA CondRows ==
    ASSUME TypeInv, NEW t \in Threads, CondPending(t)
    PROVE  /\ ut_no_preempt_count[t] # 0 /\ stack[t] # <<>>
           /\ Head(stack[t]) \in {"mtx_unlock", "nopreempt_off", "wake", "cond_sleep"}
           /\ Head(stack[t]) = "mtx_unlock" => Tail(stack[t]) = <<"cond_sleep">>
           /\ Head(stack[t]) # "cond_sleep" =>
                 Tail(stack[t]) \in {<<"cond_sleep">>, <<"nopreempt_off", "cond_sleep">>}
<1>1. <<ut_no_preempt_count[t], Head(stack[t]), Tail(stack[t])>> \in Continuations /\ stack[t] # <<>>
  BY RowOf DEF CondPending, Pending
<1>2. /\ <<>> \notin {<<"cond_sleep">>, <<"nopreempt_off", "cond_sleep">>}
      /\ Yielding \cap {<<"cond_sleep">>, <<"nopreempt_off", "cond_sleep">>} = {}
      /\ {<<"mtx_locked">>, <<"cond_relock">>, <<"create_init">>, <<"nopreempt_off">>, <<"cond_broadcast">>,
          <<"mtx_locked", "nopreempt_off">>} \cap {<<"cond_sleep">>, <<"nopreempt_off", "cond_sleep">>} = {}
  BY Literals DEF Yielding
<1> DEFINE n == ut_no_preempt_count[t]
           f == Head(stack[t])
           r == Tail(stack[t])
<1>3. f = "cond_sleep" \/ r \in {<<"cond_sleep">>, <<"nopreempt_off", "cond_sleep">>}
  BY DEF CondPending, Pending
<1>4. <<n, f, r>> \in Continuations
  BY <1>1
<1> HIDE DEF n, f, r
<1>5. \/ n = 2 /\ f \in {"mtx_unlock", "nopreempt_off"} /\ r = <<"cond_sleep">>
      \/ n = 3 /\ f = "wake" /\ r = <<"nopreempt_off", "cond_sleep">>
      \/ n = 1 /\ f = "cond_sleep"
  BY <1>2, <1>3, <1>4 DEF Continuations, Entered
<1> QED BY <1>1, <1>5 DEF n, f, r

\* A wait goes on when the code above it returns or goes on.
LEMMA CondKept ==
    ASSUME TypeInv, NEW t \in Threads, CondPending(t), Head(stack[t]) # "cond_sleep",
           \/ Continue(t, <<>>)
           \/ Head(stack[t]) = "mtx_unlock" /\ Continue(t, <<"wake", "nopreempt_off">>)
    PROVE  CondPending(t)'
<1>1. stack[t] # <<>> /\ Tail(stack[t]) \in {<<"cond_sleep">>, <<"nopreempt_off", "cond_sleep">>}
  BY CondRows
<1>2. CASE Continue(t, <<>>)
  <2>1. stack'[t] = Tail(stack[t])
    BY <1>1, <1>2, AfterContinue
  <2> QED BY <1>1, <2>1, Literals DEF CondPending, Pending
<1>3. CASE Head(stack[t]) = "mtx_unlock" /\ Continue(t, <<"wake", "nopreempt_off">>)
  <2>1. stack'[t] # <<>> /\ Tail(stack'[t]) = <<"nopreempt_off">> \o Tail(stack[t])
    BY <1>1, <1>3, AfterContinue, LabelNames
  <2>2. Tail(stack[t]) = <<"cond_sleep">>
    BY <1>3, CondRows
  <2> QED BY <2>1, <2>2, Concats DEF CondPending, Pending
<1> QED BY <1>2, <1>3

\* What a step of thread t, on LWP l, has to show.
LEMMA HolderFrame ==
    ASSUME HolderInv, NEW l \in LWPs, NEW t \in Threads, Running(l, t),
           \A k \in LWPs \ {l} : curthr'[k] = curthr[k],
           \A u \in Threads \ {t} :
              /\ SameCalls(u) /\ carg'[u] = carg[u]
              /\ stack'[u] = stack[u] => ut_no_preempt_count'[u] = ut_no_preempt_count[u],
           \A o \in Objs :
              \/ pmut'[o] = NoLwp \/ (pmut'[o] = pmut[o] /\ pmut[o] # l)
              \/ pmut'[o] = l /\ curthr'[l] = t /\ HolderOf(t, o)',
           \/ runq_mtx' = NoLwp \/ (runq_mtx' = runq_mtx /\ runq_mtx # l)
           \/ /\ runq_mtx' = l /\ curthr'[l] = t /\ ut_no_preempt_count'[t] = 2
              /\ AtHead(t, {"yield_lock", "switch"})',
           AtHead(t, {"wake"})' => ut_no_preempt_count'[t] # 1
    PROVE  Holders'
<1>0. /\ PlaceInv /\ TypeInv /\ PlaceTypes /\ CallTypes /\ Holders
      /\ runq_mtx \in LWPs \cup {NoLwp} /\ NoThread \notin Threads /\ NoLwp \notin LWPs
  BY HolderTypes
<1>1. ASSUME NEW u \in Threads \ {t}, \E k \in LWPs : Running(k, u)
      PROVE  stack'[u] = stack[u] /\ ut_no_preempt_count'[u] = ut_no_preempt_count[u]
  BY <1>0, <1>1 DEF SameCalls, PlaceInv, TypeInv, ThreadsExist, NewbornOK
<1>2. PmutHeld'
  <2>1. SUFFICES ASSUME NEW o \in Objs, pmut'[o] # NoLwp
                 PROVE  \E u \in Threads : curthr'[pmut'[o]] = u /\ HolderOf(u, o)'
    BY DEF PmutHeld, Running, HolderOf
  <2>2. CASE pmut'[o] = pmut[o] /\ pmut[o] # l
    <3>1. pmut[o] \in LWPs
      BY <1>0, <2>1, <2>2 DEF CallTypes
    <3>2. PICK u \in Threads : Running(pmut[o], u) /\ HolderOf(u, o)
      BY <1>0, <2>1, <2>2 DEF Holders, PmutHeld, HolderOf
    <3>3. u # t
      BY <1>0, <2>2, <3>1, <3>2 DEF PlaceInv, OneLwp, Running
    <3>4. stack'[u] = stack[u] /\ swarg'[u] = swarg[u] /\ carg'[u] = carg[u]
      BY <1>1, <3>1, <3>2, <3>3 DEF SameCalls
    <3>5. HolderOf(u, o)'
      BY <3>2, <3>4 DEF HolderOf, CondPending, Pending
    <3> QED BY <2>2, <3>1, <3>2, <3>5 DEF Running
  <2> QED BY <2>1, <2>2
<1>3. RunqHeld'
  <2>1. SUFFICES ASSUME runq_mtx' # NoLwp
                 PROVE  \E u \in Threads : /\ curthr'[runq_mtx'] = u /\ ut_no_preempt_count'[u] = 2
                                           /\ AtHead(u, {"yield_lock", "switch"})'
    BY DEF RunqHeld, Running
  <2>2. CASE runq_mtx' = runq_mtx /\ runq_mtx # l
    <3>1. runq_mtx \in LWPs
      BY <1>0, <2>1, <2>2
    <3>2. PICK u \in Threads : /\ Running(runq_mtx, u) /\ ut_no_preempt_count[u] = 2
                               /\ AtHead(u, {"yield_lock", "switch"})
      BY <1>0, <2>1, <2>2 DEF Holders, RunqHeld
    <3>3. u # t
      BY <1>0, <2>2, <3>1, <3>2 DEF PlaceInv, OneLwp, Running
    <3>4. stack'[u] = stack[u] /\ ut_no_preempt_count'[u] = ut_no_preempt_count[u]
      BY <1>1, <3>1, <3>2, <3>3
    <3> QED BY <2>2, <3>1, <3>2, <3>4 DEF Running, AtHead
  <2> QED BY <2>1, <2>2
<1>4. WakeMasked'
  <2>1. SUFFICES ASSUME NEW u \in Threads \ {t}, AtHead(u, {"wake"})'
                 PROVE  ut_no_preempt_count'[u] # 1
    BY DEF WakeMasked
  <2>2. stack'[u] = stack[u]
    BY <2>1, Literals DEF SameCalls, AtHead
  <2> QED BY <1>0, <2>1, <2>2 DEF Holders, WakeMasked, AtHead
<1> QED BY <1>2, <1>3, <1>4 DEF Holders

\* A step that neither ends nor prepares a switch, and begins no wait.
LEMMA HolderCalm ==
    ASSUME HolderInv, NEW l \in LWPs, NEW t \in Threads, Running(l, t),
           ~AtHead(t, {"yield_lock", "switch"}), UNCHANGED <<curthr, swarg>>,
           \A u \in Threads \ {t} :
              /\ SameCalls(u) /\ carg'[u] = carg[u]
              /\ stack'[u] = stack[u] => ut_no_preempt_count'[u] = ut_no_preempt_count[u],
           \A o \in Objs : pmut'[o] \in {pmut[o], NoLwp},
           runq_mtx' \in {runq_mtx, NoLwp},
           CondPending(t) => CondPending(t)' /\ carg'[t] = carg[t],
           AtHead(t, {"wake"})' => ut_no_preempt_count'[t] # 1
    PROVE  Holders'
<1>1. ASSUME NEW o \in Objs, pmut[o] = l
      PROVE  HolderOf(t, o)'
  <2>1. HolderOf(t, o)
    BY <1>1, HeldFor
  <2> QED BY <2>1 DEF HolderOf
<1>2. runq_mtx # l
  BY HeldFor
<1>3. curthr'[l] = t
  BY DEF Running
<1>4. \A o \in Objs :
              \/ pmut'[o] = NoLwp \/ (pmut'[o] = pmut[o] /\ pmut[o] # l)
              \/ pmut'[o] = l /\ curthr'[l] = t /\ HolderOf(t, o)'
  BY <1>1, <1>3
<1> QED BY <1>2, <1>4, HolderFrame

\* The code that runs next tells the count and what follows.
LEMMA HeadRows ==
    ASSUME TypeInv, NEW t \in Threads, stack[t] # <<>>
    PROVE  /\ Head(stack[t]) \in Entered \ {"nopreempt_off", "wake", "mtx_lock", "mtx_locked", "mtx_unlock"}
                 => ut_no_preempt_count[t] = 1 /\ Tail(stack[t]) = <<>>
           /\ Head(stack[t]) \in {"mtx_lock", "mtx_locked", "mtx_unlock"} => ut_no_preempt_count[t] \in {1, 2}
           /\ ut_no_preempt_count[t] = 0 => Head(stack[t]) \in {"create_init", "wake_unlock"}
<1>1. <<ut_no_preempt_count[t], Head(stack[t]), Tail(stack[t])>> \in Continuations
  BY RowOf
<1> QED BY <1>1, Rows

\* A return uncovers no wake.
LEMMA PopNoWake ==
    ASSUME TypeInv, NEW t \in Threads, stack[t] # <<>>, Continue(t, <<>>)
    PROVE  ~AtHead(t, {"wake"})'
<1>1. stack'[t] = Tail(stack[t])
  BY AfterContinue
<1> DEFINE r == Tail(stack[t])
<1>2. r \in {<<>>, <<"nopreempt_off">>, <<"create_init">>, <<"cond_sleep">>, <<"cond_broadcast">>,
             <<"mtx_locked">>, <<"cond_relock">>, <<"mtx_locked", "nopreempt_off">>,
             <<"nopreempt_off", "cond_sleep">>} \cup Yielding
  <2>1. <<ut_no_preempt_count[t], Head(stack[t]), r>> \in Continuations
    BY RowOf
  <2> HIDE DEF r
  <2> QED BY <2>1 DEF Continuations
<1> HIDE DEF r
<1>3. r = <<>> \/ Head(r) # "wake"
  BY <1>2, Literals DEF Yielding
<1> QED BY <1>1, <1>3 DEF AtHead, r

\* A return, possibly with other effects on the mutexes or on runq_mtx.
LEMMA PopHolder ==
    ASSUME HolderInv, NEW l \in LWPs, NEW t \in Threads, Running(l, t),
           stack[t] # <<>>, Head(stack[t]) \notin {"yield_lock", "switch", "cond_sleep"}, Continue(t, <<>>),
           UNCHANGED <<curthr, swarg, pmut>>, runq_mtx' \in {runq_mtx, NoLwp},
           \A u \in Threads \ {t} :
              /\ marg'[u] = marg[u] /\ crit'[u] = crit[u] /\ carg'[u] = carg[u]
              /\ ut_no_preempt_count'[u] = ut_no_preempt_count[u],
           CondPending(t) => carg'[t] = carg[t]
    PROVE  Holders'
<1>0. TypeInv
  BY HolderTypes
<1>1. /\ CondPending(t) => CondPending(t)'
      /\ ~AtHead(t, {"wake"})' /\ ~AtHead(t, {"yield_lock", "switch"})
  BY <1>0, CondKept, PopNoWake DEF AtHead
<1>2. \A u \in Threads \ {t} : stack'[u] = stack[u]
  BY <1>0, AfterContinue
<1> QED BY <1>1, <1>2, HolderCalm DEF SameCalls

\* New frames on top of a thread that is in no wait.
LEMMA GoHolder ==
    ASSUME HolderInv, NEW l \in LWPs, NEW t \in Threads, Running(l, t),
           NEW f \in AllLabels \ {"cond_sleep"}, NEW g \in {"nopreempt_off", "cond_broadcast"},
           \/ stack[t] # <<>> /\ (Continue(t, <<f>>) \/ Continue(t, <<f, g>>))
           \/ Push(t, <<f>>) \/ Push(t, <<f, g>>),
           f = "wake" => ut_no_preempt_count'[t] # 1,
           ~AtHead(t, {"yield_lock", "switch"}), ~CondPending(t),
           UNCHANGED <<curthr, swarg, pmut, runq_mtx>>,
           \A u \in Threads \ {t} :
              /\ marg'[u] = marg[u] /\ crit'[u] = crit[u] /\ carg'[u] = carg[u]
              /\ ut_no_preempt_count'[u] = ut_no_preempt_count[u]
    PROVE  Holders'
<1>0. TypeInv
  BY HolderTypes
<1>1. Head(stack'[t]) = f /\ \A u \in Threads \ {t} : stack'[u] = stack[u]
  BY <1>0, CondGo
<1> QED BY <1>1, HolderCalm DEF SameCalls, AtHead

LEMMA SchedPopHolder ==
    ASSUME HolderInv, NEW l \in LWPs, NEW t \in Threads, UNCHANGED mtxVars,
           \/ Return(l, t) \/ WakeUnlock(l, t) \/ AllocStackFails(l, t) \/ Wake(l, t)
           \/ SetprioLock(l, t) /\ Continue(t, <<>>) /\ UNCHANGED runq_mtx
           \/ \E prio \in Prios : StartOnRunq(l, t, prio) /\ Continue(t, <<>>)
    PROVE  Holders'
<1>0. ut_no_preempt_count \in [Threads -> Nat] /\ Holders
  BY HolderTypes
<1>1. /\ Running(l, t) /\ stack[t] # <<>>
      /\ Head(stack[t]) \in {"nopreempt_off", "wake_unlock", "create_init", "wake", "setprio_lock", "startonrunq"}
      /\ UNCHANGED <<curthr, swarg, pmut, marg, crit, carg>>
  BY DEF Return, WakeUnlock, AllocStackFails, Wake, SetprioLock, StartOnRunq, At, mtxVars, argVars, waitVars, cpuVars
<1>2. Wake(l, t) => ut_no_preempt_count[t] # 1
  BY <1>0 DEF Wake, At, AtHead, Holders, WakeMasked
<1>3. Continue(t, <<>>) /\ runq_mtx' \in {runq_mtx, NoLwp}
  BY <1>2 DEF Return, WakeUnlock, AllocStackFails, Wake, StartOnRunq, runqVars
<1>4. UNCHANGED ut_no_preempt_count \/ NopreemptOff(t) \/ NopreemptOn(t)
  BY DEF YieldEnter, Return, WakeUnlock, AllocStackFails, Wake, SetprioLock, StartOnRunq, thrVars
<1>5. \A u \in Threads \ {t} : ut_no_preempt_count'[u] = ut_no_preempt_count[u]
  BY <1>0, <1>4 DEF NopreemptOff, NopreemptOn
<1> QED BY <1>1, <1>3, <1>5, PopHolder

LEMMA SchedGoHolder ==
    ASSUME HolderInv, Disciplined, NEW l \in LWPs, NEW t \in Threads, UNCHANGED mtxVars,
           SetprioWrite(l, t) \/ AllocClaim(l, t) \/ ClientStep(l, t) \/ ClockInterrupt(l, t)
    PROVE  Holders'
<1>0. ut_no_preempt_count \in [Threads -> Nat] /\ TypeInv
  BY HolderTypes
<1>1. /\ Running(l, t) /\ UNCHANGED <<curthr, swarg, pmut, runq_mtx, marg, crit, carg>>
      /\ UNCHANGED ut_no_preempt_count \/ NopreemptOn(t) \/ NopreemptOff(t)
      /\ \/ /\ stack[t] # <<>> /\ Head(stack[t]) \in {"setprio_write", "alloc_claim"}
            /\ \E f \in {"setprio_lock", "create_init"} : Continue(t, <<f>>)
         \/ /\ stack[t] = <<>> \/ ut_no_preempt_count[t] = 0
            /\ \/ Push(t, <<"yield_lock", "nopreempt_off">>)
               \/ \E f \in {"setprio_write", "alloc_claim"} : Push(t, <<f>>)
  <2>1. CASE SetprioWrite(l, t) \/ AllocClaim(l, t)
    BY <2>1 DEF SetprioWrite, AllocClaim, At, mtxVars, argVars, waitVars, cpuVars, runqVars
  <2>2. CASE ClockInterrupt(l, t)
    BY <2>2 DEF ClockInterrupt, YieldEnter, mtxVars, waitVars, argVars, cpuVars, runqVars, YieldFrames
  <2>3. CASE ClientStep(l, t)
    <3>1. ~UthreadBlock(l, t) /\ \A u : ~UthreadWake(l, t, u)
      BY DEF Disciplined, UthreadBlock, UthreadWake
    <3>2. UthreadYield(l, t) =>
             /\ InClient(l, t) /\ UNCHANGED <<swarg, pmut, curthr, runq_mtx>> /\ NopreemptOn(t)
             /\ Push(t, <<"yield_lock", "nopreempt_off">>)
      BY DEF UthreadYield, YieldEnter, waitVars, argVars, cpuVars, runqVars, YieldFrames
    <3>3. ASSUME NEW u \in Threads
          PROVE  /\ AllocScan(l, t, u) =>
                       /\ InClient(l, t) /\ UNCHANGED <<swarg, pmut, curthr, runq_mtx>> /\ NopreemptOn(t)
                       /\ Push(t, <<"alloc_claim">>)
                 /\ \A prio \in Prios : SetprioRead(l, t, u, prio) =>
                       /\ InClient(l, t) /\ UNCHANGED <<swarg, pmut, curthr, runq_mtx>> /\ NopreemptOn(t)
                       /\ Push(t, <<"setprio_write">>)
      BY DEF AllocScan, AllocFound, SetprioRead, waitVars, cpuVars, runqVars
    <3>4. \/ UthreadYield(l, t)
          \/ \E u \in Threads : AllocScan(l, t, u) \/ \E prio \in Prios : SetprioRead(l, t, u, prio)
      BY <2>3, <3>1 DEF ClientStep
    <3> QED BY <3>2, <3>3, <3>4 DEF mtxVars, InClient, Running
  <2> QED BY <2>1, <2>2, <2>3
<1>2. \A u \in Threads \ {t} : ut_no_preempt_count'[u] = ut_no_preempt_count[u]
  BY <1>0, <1>1 DEF NopreemptOn, NopreemptOff
<1>3. ~AtHead(t, {"yield_lock", "switch"}) /\ ~CondPending(t)
  <2>1. CASE stack[t] # <<>> /\ Head(stack[t]) \in {"setprio_write", "alloc_claim"}
    BY <1>0, <2>1, CondRows DEF AtHead
  <2>2. CASE stack[t] = <<>>
    BY <2>2 DEF AtHead, CondPending, Pending
  <2>3. CASE ut_no_preempt_count[t] = 0 /\ stack[t] # <<>>
    BY <1>0, <2>3, HeadRows, CondRows DEF AtHead
  <2> QED BY <1>1, <2>1, <2>2, <2>3
<1>4. {"setprio_lock", "create_init", "setprio_write", "alloc_claim", "yield_lock"} \subseteq AllLabels \ {"cond_sleep"}
  BY LabelNames
<1>5. ASSUME NEW f \in {"setprio_lock", "create_init", "setprio_write", "alloc_claim", "yield_lock"},
             \/ stack[t] # <<>> /\ (Continue(t, <<f>>) \/ Continue(t, <<f, "nopreempt_off">>))
             \/ Push(t, <<f>>) \/ Push(t, <<f, "nopreempt_off">>)
      PROVE  Holders'
  <2>1. f \in AllLabels \ {"cond_sleep"} /\ f # "wake"
    BY <1>4
  <2> QED BY <1>1, <1>2, <1>3, <1>5, <2>1, GoHolder
<1>6. CASE stack[t] # <<>> /\ \E f \in {"setprio_lock", "create_init"} : Continue(t, <<f>>)
  BY <1>5, <1>6
<1>7. CASE \E f \in {"setprio_write", "alloc_claim"} : Push(t, <<f>>)
  BY <1>5, <1>7
<1>8. CASE Push(t, <<"yield_lock", "nopreempt_off">>)
  BY <1>5, <1>8
<1> QED BY <1>1, <1>6, <1>7, <1>8

\* uthread_setprio keeps runq_mtx when it yields.
LEMMA SetprioHolder ==
    ASSUME HolderInv, NEW l \in LWPs, NEW t \in Threads, UNCHANGED mtxVars, SetprioLock(l, t)
    PROVE  Holders'
<1>0. ut_no_preempt_count \in [Threads -> Nat] /\ TypeInv
  BY HolderTypes
<1>1. /\ Running(l, t) /\ stack[t] # <<>> /\ Head(stack[t]) = "setprio_lock"
      /\ UNCHANGED <<curthr, swarg, pmut, marg, crit, carg>>
      /\ \/ Continue(t, <<>>) /\ UNCHANGED runq_mtx
         \/ Continue(t, <<"yield_lock", "nopreempt_off">>) /\ runq_mtx' = l /\ NopreemptOn(t)
  BY DEF SetprioLock, YieldEnter, YieldFrames, At, mtxVars, waitVars, cpuVars
<1>2. CASE Continue(t, <<>>) /\ UNCHANGED runq_mtx
  BY <1>2, SchedPopHolder
<1>3. CASE Continue(t, <<"yield_lock", "nopreempt_off">>) /\ runq_mtx' = l /\ NopreemptOn(t)
  <2>1. /\ stack'[t] # <<>> /\ Head(stack'[t]) = "yield_lock"
        /\ \A u \in Threads \ {t} : stack'[u] = stack[u]
    BY <1>0, <1>1, <1>3, AfterContinue, LabelNames
  <2>2. ut_no_preempt_count[t] = 1
    BY <1>0, <1>1, HeadRows DEF Entered
  <2>3. /\ ut_no_preempt_count'[t] = 2
        /\ \A u \in Threads \ {t} : ut_no_preempt_count'[u] = ut_no_preempt_count[u]
    BY <1>0, <1>3, <2>2 DEF NopreemptOn
  <2>4. \A o \in Objs : pmut[o] # l
    BY <1>0, <1>1, HeldFor, CondRows, NoArguments, HolderTypes DEF HolderOf, AtHead
  <2>5. /\ curthr'[l] = t /\ AtHead(t, {"yield_lock", "switch"})' /\ ~AtHead(t, {"wake"})'
        /\ \A u \in Threads \ {t} : SameCalls(u) /\ carg'[u] = carg[u]
    BY <1>1, <2>1 DEF Running, AtHead, SameCalls
  <2> QED BY <1>1, <1>3, <2>3, <2>4, <2>5, HolderFrame
<1> QED BY <1>1, <1>2, <1>3

LEMMA CreateInitHolder ==
    ASSUME HolderInv, NEW l \in LWPs, NEW t \in Threads, UNCHANGED mtxVars, CreateInit(l, t)
    PROVE  Holders'
<1>0. PlaceInv /\ TypeInv /\ PlaceTypes /\ CallTypes /\ ut_no_preempt_count \in [Threads -> Nat]
  BY HolderTypes
<1>1. Running(l, t) /\ stack[t] # <<>> /\ Head(stack[t]) = "create_init"
  BY DEF CreateInit, At
<1>2. PICK u \in Threads \ {t} : u = newthr[t] /\ ut_state[u] \in {"UT_NO_STATE", "UT_TRANSITION"}
  BY <1>0, <1>1, Newborn
<1>3. /\ stack' = [stack EXCEPT ![u] = <<"nopreempt_off">>, ![t] = <<"startonrunq">> \o Tail(@)]
      /\ pmut' = [pmut EXCEPT ![u] = NoLwp]
      /\ ut_no_preempt_count' = [ut_no_preempt_count EXCEPT ![u] = 1, ![t] = @ + 1]
      /\ UNCHANGED <<curthr, runq_mtx, swarg, marg, carg, crit>>
  BY <1>2 DEF CreateInit, argVars, mtxVars, cpuVars, runqVars
<1>4. /\ stack'[t] = <<"startonrunq">> \o Tail(stack[t]) /\ stack'[u] = <<"nopreempt_off">>
      /\ \A v \in Threads \ {t, u} : stack'[v] = stack[v]
  BY <1>0, <1>3 DEF PlaceTypes
<1>5. Head(stack'[t]) = "startonrunq"
  <2>1. Tail(stack[t]) \in Seq(AllLabels) /\ "startonrunq" \in AllLabels
    BY <1>0, <1>1, RowOf, LabelNames
  <2> QED BY <1>4, <2>1, ConsProperties
<1>6. /\ ~CondPending(t) /\ ~AtHead(t, {"yield_lock", "switch"}) /\ ~AtHead(t, {"wake"})'
  BY <1>0, <1>1, <1>5, CondRows DEF AtHead
<1>7. /\ \A v \in Threads \ {t, u} : ut_no_preempt_count'[v] = ut_no_preempt_count[v]
      /\ ut_no_preempt_count'[u] = 1
  BY <1>0, <1>2, <1>3
<1>8. \A o \in Objs : pmut'[o] \in {pmut[o], NoLwp}
  BY <1>0, <1>3 DEF CallTypes
<1>9. \A v \in Threads \ {t} : SameCalls(v) /\ carg'[v] = carg[v]
  BY <1>2, <1>3, <1>4 DEF SameCalls
\* The newborn, if its frames were those of a newborn already, was masked once.
<1>10. stack'[u] = stack[u] => ut_no_preempt_count'[u] = ut_no_preempt_count[u]
  <2>1. SUFFICES ASSUME stack[u] = <<"nopreempt_off">> PROVE ut_no_preempt_count[u] = 1
    BY <1>4, <1>7
  <2>2. stack[u] # <<>> /\ Head(stack[u]) = "nopreempt_off" /\ Tail(stack[u]) = <<>>
    BY <2>1, Literals
  <2>3. <<ut_no_preempt_count[u], Head(stack[u]), Tail(stack[u])>> \in Continuations
    BY <1>0, <2>2, RowOf
  <2> QED BY <2>2, <2>3, Rows, Literals
<1> QED BY <1>1, <1>3, <1>6, <1>7, <1>8, <1>9, <1>10, HolderCalm

\* The step that prepares a switch takes the mutex it is to release, or is in
\* the wait that holds it.
LEMMA SleepHolder ==
    ASSUME HolderInv, NEW l \in LWPs, NEW t \in Threads, Running(l, t), NEW b \in Objs,
           stack[t] # <<>>, ~AtHead(t, {"switch"}), Head(stack'[t]) = "switch", stack'[t] # <<>>,
           \A u \in Threads \ {t} : SameCalls(u) /\ carg'[u] = carg[u],
           UNCHANGED <<curthr, runq_mtx, ut_no_preempt_count>>, swarg'[t].pmut = b,
           \/ ~CondPending(t) /\ pmut' = [pmut EXCEPT ![b] = l]
           \/ carg[t] = b /\ UNCHANGED pmut
    PROVE  Holders'
<1>0. CallTypes /\ LockInv
  BY HolderTypes
<1>1. swarg[t].pmut = NoObj /\ NoObj \notin Objs
  BY <1>0, NoArguments, HolderTypes
<1>2. \A o \in Objs : pmut[o] = l => CondPending(t) /\ carg[t] = o
  BY <1>1, HeldFor DEF HolderOf
<1>3. ASSUME NEW o \in Objs
      PROVE  \/ pmut'[o] = pmut[o] /\ pmut[o] # l
             \/ pmut'[o] = l /\ curthr'[l] = t /\ HolderOf(t, o)'
  <2>1. CASE ~CondPending(t) /\ pmut' = [pmut EXCEPT ![b] = l]
    BY <1>0, <1>2, <2>1 DEF CallTypes, HolderOf, Running
  <2>2. CASE carg[t] = b /\ UNCHANGED pmut
    BY <1>2, <2>2 DEF HolderOf, Running
  <2> QED BY <2>1, <2>2
<1>4. runq_mtx = l => ut_no_preempt_count[t] = 2
  BY HeldFor
<1>5. AtHead(t, {"yield_lock", "switch"})' /\ ~AtHead(t, {"wake"})'
  BY DEF AtHead
<1>6. \/ runq_mtx' = NoLwp \/ (runq_mtx' = runq_mtx /\ runq_mtx # l)
      \/ /\ runq_mtx' = l /\ curthr'[l] = t /\ ut_no_preempt_count'[t] = 2
         /\ AtHead(t, {"yield_lock", "switch"})'
  BY <1>4, <1>5 DEF Running
<1> QED BY <1>3, <1>5, <1>6, HolderFrame

LEMMA YieldLockHolder ==
    ASSUME HolderInv, NEW l \in LWPs, NEW t \in Threads, UNCHANGED mtxVars, YieldLock(l, t)
    PROVE  Holders'
<1>0. TypeInv /\ PlaceTypes
  BY HolderTypes
<1>1. /\ Running(l, t) /\ stack[t] # <<>> /\ Head(stack[t]) = "yield_lock" /\ Continue(t, <<"switch">>)
      /\ swarg' = [swarg EXCEPT ![t] = [queue |-> NoObj, saveonrq |-> TRUE, pmut |-> t]]
      /\ pmut' = [pmut EXCEPT ![t] = l]
      /\ UNCHANGED <<curthr, runq_mtx, ut_no_preempt_count, marg, carg, crit>>
  BY DEF YieldLock, At, mtxVars, cpuVars, thrVars, runqVars
<1>2. swarg'[t].pmut = t /\ \A u \in Threads \ {t} : swarg'[u] = swarg[u]
  BY <1>0, <1>1 DEF PlaceTypes
<1>3. /\ stack'[t] # <<>> /\ Head(stack'[t]) = "switch" /\ \A u \in Threads \ {t} : stack'[u] = stack[u]
  BY <1>0, <1>1, AfterContinue, LabelNames
<1>4. ~CondPending(t) /\ ~AtHead(t, {"switch"}) /\ t \in Objs
  BY <1>0, <1>1, CondRows, ObjKinds DEF AtHead
<1>5. \A u \in Threads \ {t} : SameCalls(u) /\ carg'[u] = carg[u]
  BY <1>1, <1>2, <1>3 DEF SameCalls
<1> QED BY <1>1, <1>2, <1>3, <1>4, <1>5, SleepHolder

LEMMA SwitchHolder ==
    ASSUME HolderInv, NEW l \in LWPs, NEW t \in Threads, UNCHANGED mtxVars, Switch(l, t)
    PROVE  Holders'
<1>0. TypeInv /\ PlaceTypes /\ CallTypes /\ NoObj \notin Objs
  BY HolderTypes
<1> DEFINE b == swarg[t].pmut
<1>1. /\ Running(l, t) /\ stack[t] # <<>> /\ Head(stack[t]) = "switch" /\ Continue(t, <<>>)
      /\ pmut' = IF b = NoObj THEN pmut ELSE [pmut EXCEPT ![b] = NoLwp]
      /\ swarg' = [swarg EXCEPT ![t] = NoSwitch] /\ runq_mtx' = NoLwp
      /\ UNCHANGED <<marg, carg, crit, ut_no_preempt_count>>
  BY DEF Switch, At, mtxVars
<1>2. /\ ~AtHead(t, {"wake"})' /\ \A u \in Threads \ {t} : stack'[u] = stack[u] /\ swarg'[u] = swarg[u]
  BY <1>0, <1>1, AfterContinue, PopNoWake DEF PlaceTypes
<1>3. \A u \in Threads \ {t} : SameCalls(u) /\ carg'[u] = carg[u]
  BY <1>1, <1>2 DEF SameCalls
<1>4. \A k \in LWPs \ {l} : curthr'[k] = curthr[k]
  <2>1. PICK rq, sz, st, lw : Dispatch(l, rq, sz, st, lw)
    BY DEF Switch
  <2> QED BY <1>0, <2>1 DEF Dispatch, PickThread, Park, BadQueue, PlaceTypes
<1>5. \A o \in Objs : pmut[o] = l => o = b
  BY <1>0, <1>1, HeldFor, CondRows DEF HolderOf
<1>6. \A o \in Objs : pmut'[o] = NoLwp \/ (pmut'[o] = pmut[o] /\ pmut[o] # l)
  BY <1>0, <1>1, <1>5 DEF CallTypes
<1> HIDE DEF b
<1> QED BY <1>1, <1>2, <1>3, <1>4, <1>6, HolderFrame

LEMMA SchedHolder ==
    ASSUME HolderInv, Disciplined, NEW l \in LWPs, NEW t \in Threads, UNCHANGED mtxVars,
           LibraryStep(l, t) \/ ClientStep(l, t) \/ ClockInterrupt(l, t)
    PROVE  Holders'
<1>1. CASE SwitchAborts(l, t) \/ (\E prio \in Prios : StartOnRunq(l, t, prio) /\ ~Continue(t, <<>>))
  <2>1. UNCHANGED <<curthr, stack, ut_no_preempt_count, runq_mtx, swarg, pmut, carg>>
    BY <1>1 DEF SwitchAborts, StartOnRunq, mtxVars, argVars, waitVars, cpuVars, thrVars, runqVars
  <2> QED BY <2>1, HolderTypes DEF Holders, PmutHeld, RunqHeld, WakeMasked, AtHead, Running, CondPending, Pending
<1>2. CASE \E prio \in Prios : StartOnRunq(l, t, prio)
  BY <1>1, <1>2, SchedPopHolder
<1>3. CASE Return(l, t) \/ WakeUnlock(l, t) \/ AllocStackFails(l, t) \/ Wake(l, t)
  BY <1>3, SchedPopHolder
<1>4. CASE SetprioWrite(l, t) \/ AllocClaim(l, t) \/ ClientStep(l, t) \/ ClockInterrupt(l, t)
  BY <1>4, SchedGoHolder
<1>5. CASE SetprioLock(l, t) \/ CreateInit(l, t) \/ YieldLock(l, t) \/ Switch(l, t)
  BY <1>5, SetprioHolder, CreateInitHolder, YieldLockHolder, SwitchHolder
<1> QED BY <1>1, <1>2, <1>3, <1>4, <1>5 DEF LibraryStep

LEMMA LwpHolder ==
    ASSUME HolderInv, NEW l \in LWPs, LwpStep(l), UNCHANGED mtxVars
    PROVE  Holders'
<1>0. PlaceInv /\ PlaceTypes /\ CallTypes /\ Holders /\ NoThread \notin Threads /\ runq_mtx \in LWPs \cup {NoLwp}
  BY HolderTypes
<1>1. UNCHANGED <<stack, ut_no_preempt_count, runq_mtx, swarg, pmut, carg>>
  BY DEF LwpStep, SpuriousWakeup, LwpStart, Unpark, mtxVars, thrVars, runqVars, waitVars, argVars
<1>2. curthr[l] = NoThread
  <2>1. lwp[l] # "running"
    BY DEF LwpStep, SpuriousWakeup, LwpStart, Unpark
  <2> QED BY <1>0, <2>1 DEF PlaceInv, LwpOK
<1>3. \A k \in LWPs \ {l} : curthr'[k] = curthr[k]
  <2>1. UNCHANGED curthr \/ \E rq, sz, st, lw : Dispatch(l, rq, sz, st, lw)
    BY DEF LwpStep, SpuriousWakeup, LwpStart, Unpark
  <2> QED BY <1>0, <2>1 DEF Dispatch, PickThread, Park, BadQueue, PlaceTypes
<1>4. \A k \in LWPs, u \in Threads : Running(k, u) => curthr'[k] = u
  BY <1>0, <1>2, <1>3 DEF Running
<1>5. PmutHeld'
  <2>1. SUFFICES ASSUME NEW o \in Objs, pmut[o] # NoLwp
                 PROVE  \E u \in Threads : curthr'[pmut[o]] = u /\ HolderOf(u, o)
    BY <1>1 DEF PmutHeld, HolderOf, Running, CondPending, Pending
  <2>2. PICK u \in Threads : Running(pmut[o], u) /\ HolderOf(u, o)
    BY <1>0, <2>1 DEF Holders, PmutHeld, HolderOf
  <2> QED BY <1>0, <1>4, <2>1, <2>2 DEF CallTypes
<1>6. RunqHeld'
  <2>1. SUFFICES ASSUME runq_mtx # NoLwp
                 PROVE  \E u \in Threads : /\ curthr'[runq_mtx] = u /\ ut_no_preempt_count[u] = 2
                                           /\ AtHead(u, {"yield_lock", "switch"})
    BY <1>1 DEF RunqHeld, AtHead, Running
  <2> QED BY <1>0, <1>4, <2>1 DEF Holders, RunqHeld
<1>7. WakeMasked'
  BY <1>0, <1>1 DEF Holders, WakeMasked, AtHead
<1> QED BY <1>5, <1>6, <1>7 DEF Holders

LEMMA EntryHolder ==
    ASSUME HolderInv, NEW l \in LWPs, NEW t \in Threads, SyncClientStep(l, t)
    PROVE  Holders'
<1>0. CallTypes /\ ut_no_preempt_count \in [Threads -> Nat]
  BY HolderTypes
<1> DEFINE P(f) == Enter(t, f) /\ InClient(l, t) /\ EntryUnchanged
           Arguments == /\ UNCHANGED marg \/ \E m \in Mutexes : marg' = [marg EXCEPT ![t] = m]
                        /\ UNCHANGED carg \/ \E c \in Conds : carg' = [carg EXCEPT ![t] = c]
<1>1. PICK f \in {"mtx_lock", "mtx_trylock", "mtx_unlock", "cond_wait", "cond_signal", "cond_broadcast"} :
         P(f) /\ Arguments
  <2>1. ASSUME NEW m \in Mutexes
        PROVE  /\ UthreadMtxLock(l, t, m) => P("mtx_lock") /\ Arguments
               /\ UthreadMtxTrylock(l, t, m) => P("mtx_trylock") /\ Arguments
               /\ UthreadMtxUnlock(l, t, m) => P("mtx_unlock") /\ Arguments
               /\ \A c \in Conds : UthreadCondWait(l, t, c, m) => P("cond_wait") /\ Arguments
    BY DEF UthreadMtxLock, UthreadMtxTrylock, UthreadMtxUnlock, UthreadCondWait
  <2>2. ASSUME NEW c \in Conds
        PROVE  /\ UthreadCondSignal(l, t, c) => P("cond_signal") /\ Arguments
               /\ UthreadCondBroadcast(l, t, c) => P("cond_broadcast") /\ Arguments
    BY DEF UthreadCondSignal, UthreadCondBroadcast
  <2> HIDE DEF P, Arguments
  <2> QED BY <2>1, <2>2 DEF SyncClientStep
<1>2. /\ Running(l, t) /\ stack[t] = <<>> /\ Push(t, <<f>>) /\ NopreemptOn(t)
      /\ UNCHANGED <<curthr, runq_mtx, pmut, swarg, crit>>
  BY <1>1 DEF Enter, InClient, Running, EntryUnchanged, cpuVars, waitVars, argVars, runqVars
<1>3. \A u \in Threads \ {t} : /\ marg'[u] = marg[u] /\ crit'[u] = crit[u] /\ carg'[u] = carg[u]
                               /\ ut_no_preempt_count'[u] = ut_no_preempt_count[u]
  <2>1. \A u \in Threads \ {t} : ut_no_preempt_count'[u] = ut_no_preempt_count[u]
    BY <1>0, <1>2 DEF NopreemptOn
  <2>2. \A u \in Threads \ {t} : marg'[u] = marg[u]
    BY <1>0, <1>1 DEF CallTypes
  <2>3. \A u \in Threads \ {t} : carg'[u] = carg[u]
    BY <1>0, <1>1 DEF CallTypes
  <2> QED BY <1>2, <2>1, <2>2, <2>3
<1>4. f \in AllLabels \ {"cond_sleep"} /\ f # "wake"
  BY LabelNames
<1>5. ~AtHead(t, {"yield_lock", "switch"}) /\ ~CondPending(t)
  BY <1>2 DEF AtHead, CondPending, Pending
<1> QED BY <1>2, <1>3, <1>4, <1>5, GoHolder

LEMMA MtxHolder ==
    ASSUME HolderInv, NEW l \in LWPs, NEW t \in Threads,
           MtxLock(l, t) \/ MtxLocked(l, t) \/ MtxTrylock(l, t) \/ MtxUnlock(l, t)
    PROVE  Holders'
<1>0. TypeInv /\ PlaceTypes /\ CallTypes /\ ut_no_preempt_count \in [Threads -> Nat]
  BY HolderTypes
<1>1. /\ Running(l, t) /\ stack[t] # <<>>
      /\ Head(stack[t]) \in {"mtx_lock", "mtx_locked", "mtx_trylock", "mtx_unlock"}
      /\ UNCHANGED <<curthr, runq_mtx, carg>>
  BY DEF MtxLock, MtxLocked, MtxTrylock, MtxUnlock, At, MtxSleep, cpuVars, runqVars
<1>2. PICK m \in Mutexes : m = marg[t]
  BY <1>0, <1>1 DEF TypeInv, ArgumentsOK, ArgumentsOf, NeedsMutex, Pending, CallTypes
<1>3. ASSUME \E n : marg' = [marg EXCEPT ![t] = n], \E C : crit' = [crit EXCEPT ![t] = C]
      PROVE  \A u \in Threads \ {t} : marg'[u] = marg[u] /\ crit'[u] = crit[u]
  BY <1>0, <1>3 DEF CallTypes
<1>4. CASE \/ MtxLocked(l, t) \/ MtxTrylock(l, t) \/ (MtxLock(l, t) /\ m_owner[m] = NoThread)
           \/ MtxUnlock(l, t) /\ waitq[m] = <<>>
  <2>1. /\ Continue(t, <<>>) /\ UNCHANGED <<swarg, pmut>> /\ NopreemptOff(t)
        /\ \E n : marg' = [marg EXCEPT ![t] = n]
    BY <1>2, <1>4 DEF MtxLocked, MtxTrylock, MtxLock, MtxUnlock, waitVars, argVars
  <2>2. \E C : crit' = [crit EXCEPT ![t] = C]
    <3>1. \/ UNCHANGED crit \/ crit' = [crit EXCEPT ![t] = @ \cup {m}]
          \/ crit' = [crit EXCEPT ![t] = @ \ {m}]
      BY <1>2, <1>4 DEF MtxLocked, MtxTrylock, MtxLock, MtxUnlock
    <3>2. UNCHANGED crit => crit' = [crit EXCEPT ![t] = crit[t]]
      BY <1>0 DEF CallTypes
    <3> QED BY <3>1, <3>2
  <2>3. \A u \in Threads \ {t} : marg'[u] = marg[u] /\ crit'[u] = crit[u]
    BY <1>3, <2>1, <2>2
  <2>4. \A u \in Threads \ {t} : ut_no_preempt_count'[u] = ut_no_preempt_count[u]
    BY <1>0, <2>1 DEF NopreemptOff
  <2> QED BY <1>1, <2>1, <2>3, <2>4, PopHolder
<1>5. CASE MtxLock(l, t) /\ m_owner[m] # NoThread
  <2>1. /\ Continue(t, SleepFrames(t)) /\ UNCHANGED <<crit, marg, ut_no_preempt_count>>
        /\ swarg' = [swarg EXCEPT ![t] = [queue |-> m, saveonrq |-> FALSE, pmut |-> m]]
        /\ pmut' = [pmut EXCEPT ![m] = l] /\ Head(stack[t]) = "mtx_lock"
    BY <1>2, <1>5 DEF MtxLock, MtxSleep, At
  <2>2. SleepFrames(t) = <<"switch", "mtx_locked">>
    BY <1>0 DEF SleepFrames, TypeInv, ThreadsExist
  <2>3. /\ stack'[t] # <<>> /\ Head(stack'[t]) = "switch"
        /\ \A u \in Threads \ {t} : stack'[u] = stack[u]
    <3>1. Continue(t, <<"switch", "mtx_locked">>) /\ "switch" \in AllLabels /\ "mtx_locked" \in AllLabels
      BY <2>1, <2>2, LabelNames
    <3>2. stack[t] # <<>>
      BY <1>1
    <3> QED BY ONLY <1>0, <3>1, <3>2, AfterContinue, t \in Threads
  <2>4. m \in Objs /\ ~CondPending(t) /\ ~AtHead(t, {"switch"})
    BY <1>0, <1>1, <2>1, CondRows, ObjKinds DEF AtHead
  <2>5. swarg'[t].pmut = m /\ \A u \in Threads \ {t} : swarg'[u] = swarg[u]
    BY <1>0, <2>1 DEF PlaceTypes
  <2>6. \A u \in Threads \ {t} : SameCalls(u) /\ carg'[u] = carg[u]
    BY <1>1, <2>1, <2>3, <2>5 DEF SameCalls
  <2> QED BY <1>1, <2>1, <2>3, <2>4, <2>5, <2>6, SleepHolder
<1>6. CASE MtxUnlock(l, t) /\ waitq[m] # <<>>
  <2>1. /\ Continue(t, <<"wake", "nopreempt_off">>) /\ UNCHANGED <<swarg, pmut>> /\ NopreemptOn(t)
        /\ Head(stack[t]) = "mtx_unlock"
        /\ \E n : marg' = [marg EXCEPT ![t] = n]
        /\ \E C : crit' = [crit EXCEPT ![t] = C]
    BY <1>2, <1>6 DEF MtxUnlock, PassOn, At
  <2>2. \A u \in Threads \ {t} : stack'[u] = stack[u]
    BY <1>0, <1>1, <2>1, AfterContinue, LabelNames
  <2>3. CondPending(t) => CondPending(t)'
    BY <1>0, <2>1, CondKept
  <2>4. ut_no_preempt_count[t] \in {1, 2}
    BY <1>0, <1>1, <2>1, HeadRows
  <2>5. /\ ut_no_preempt_count'[t] # 1
        /\ \A u \in Threads \ {t} : ut_no_preempt_count'[u] = ut_no_preempt_count[u]
    BY <1>0, <2>1, <2>4 DEF NopreemptOn
  <2>6. \A u \in Threads \ {t} : SameCalls(u)
    BY <1>3, <2>1, <2>2 DEF SameCalls
  <2>7. ~AtHead(t, {"yield_lock", "switch"})
    BY <2>1 DEF AtHead
  <2> QED BY <1>1, <2>1, <2>3, <2>5, <2>6, <2>7, HolderCalm
<1> QED BY <1>4, <1>5, <1>6

LEMMA CondHolder ==
    ASSUME HolderInv, NEW l \in LWPs, NEW t \in Threads,
           CondWait(l, t) \/ CondSleep(l, t) \/ CondRelock(l, t) \/ CondSignal(l, t) \/ CondBroadcast(l, t)
    PROVE  Holders'
<1>0. TypeInv /\ PlaceTypes /\ CallTypes /\ ut_no_preempt_count \in [Threads -> Nat] /\ NoObj \notin Objs
  BY HolderTypes
<1>1. /\ Running(l, t) /\ stack[t] # <<>> /\ UNCHANGED <<curthr, runq_mtx, marg, crit>>
      /\ Head(stack[t]) \in {"cond_wait", "cond_sleep", "cond_relock", "cond_signal", "cond_broadcast"}
  BY DEF CondWait, CondSleep, CondRelock, CondSignal, CondBroadcast, At, mtxVars, cpuVars, runqVars
<1>2. PICK c \in Conds : c = carg[t] /\ c \in Objs /\ c # NoObj
  BY <1>0, <1>1, ObjKinds DEF TypeInv, ArgumentsOK, ArgumentsOf, NeedsCond, Pending, CallTypes
<1>3. CASE CondWait(l, t)
  <2>1. /\ Continue(t, <<"mtx_unlock", "cond_sleep">>) /\ UNCHANGED <<swarg, carg>> /\ NopreemptOn(t)
        /\ pmut' = [pmut EXCEPT ![c] = l] /\ Head(stack[t]) = "cond_wait"
    BY <1>2, <1>3 DEF CondWait, At, argVars, mtxVars
  <2>2. /\ stack'[t] # <<>> /\ Head(stack'[t]) = "mtx_unlock" /\ Tail(stack'[t]) = <<"cond_sleep">> \o Tail(stack[t])
        /\ \A u \in Threads \ {t} : stack'[u] = stack[u]
    BY <1>0, <1>1, <2>1, AfterContinue, LabelNames
  <2>3. Tail(stack[t]) = <<>>
    BY <1>0, <1>1, <2>1, HeadRows DEF Entered
  <2>4. CondPending(t)'
    BY <2>2, <2>3, Concats DEF CondPending, Pending
  <2>5. ~AtHead(t, {"switch"}) /\ ~AtHead(t, {"yield_lock", "switch"}) /\ ~CondPending(t)
    BY <1>0, <2>1, CondRows DEF AtHead
  <2>6. runq_mtx # l /\ \A o \in Objs : pmut[o] # l
    BY <1>0, <1>1, <2>5, HeldFor, NoArguments, HolderTypes DEF HolderOf
  <2>7. \A o \in Objs : \/ pmut'[o] = pmut[o]
                        \/ pmut'[o] = l /\ curthr'[l] = t /\ HolderOf(t, o)'
    BY <1>0, <1>1, <1>2, <2>1, <2>4 DEF CallTypes, HolderOf, Running
  <2>8. \A u \in Threads \ {t} : ut_no_preempt_count'[u] = ut_no_preempt_count[u]
    BY <1>0, <2>1 DEF NopreemptOn
  <2>9. ~AtHead(t, {"wake"})' /\ \A u \in Threads \ {t} : SameCalls(u)
    BY <1>1, <2>1, <2>2 DEF AtHead, SameCalls
  <2> QED BY <1>1, <2>1, <2>6, <2>7, <2>8, <2>9, HolderFrame
<1>4. CASE CondSleep(l, t)
  <2>1. /\ Continue(t, <<"switch", "cond_relock">>) /\ UNCHANGED <<pmut, carg, ut_no_preempt_count>>
        /\ swarg' = [swarg EXCEPT ![t] = [queue |-> c, saveonrq |-> FALSE, pmut |-> c]]
        /\ Head(stack[t]) = "cond_sleep"
    BY <1>2, <1>4 DEF CondSleep, At, waitVars, mtxVars
  <2>2. /\ stack'[t] # <<>> /\ Head(stack'[t]) = "switch" /\ \A u \in Threads \ {t} : stack'[u] = stack[u]
    BY <1>0, <1>1, <2>1, AfterContinue, LabelNames
  <2>3. swarg'[t].pmut = c /\ \A u \in Threads \ {t} : swarg'[u] = swarg[u]
    BY <1>0, <2>1 DEF PlaceTypes
  <2>4. ~AtHead(t, {"switch"}) /\ \A u \in Threads \ {t} : SameCalls(u) /\ carg'[u] = carg[u]
    BY <1>1, <2>1, <2>2, <2>3 DEF SameCalls, AtHead
  <2> QED BY <1>1, <1>2, <2>1, <2>2, <2>3, <2>4, SleepHolder
<1>5. CASE CondRelock(l, t) \/ CondSignal(l, t) \/ CondBroadcast(l, t)
  <2>1. /\ UNCHANGED <<swarg, pmut>>
        /\ Head(stack[t]) \in {"cond_relock", "cond_signal", "cond_broadcast"}
        /\ UNCHANGED carg \/ carg' = [carg EXCEPT ![t] = NoObj]
        /\ \/ Continue(t, <<>>) /\ NopreemptOff(t)
           \/ /\ NopreemptOn(t)
              /\ \E f \in {"wake", "mtx_lock"}, g \in {"nopreempt_off", "cond_broadcast"} : Continue(t, <<f, g>>)
    BY <1>5 DEF CondRelock, CondSignal, CondBroadcast, WakeOldest, At, argVars, waitVars
  <2>2. ut_no_preempt_count[t] = 1
    <3>1. Head(stack[t]) \in Entered \ {"nopreempt_off", "wake", "mtx_lock", "mtx_locked", "mtx_unlock"}
      BY <2>1 DEF Entered
    <3> QED BY <1>0, <1>1, <3>1, HeadRows
  <2>3. ~CondPending(t) /\ ~AtHead(t, {"yield_lock", "switch"})
    BY <1>0, <2>1, CondRows DEF AtHead
  <2>4. \A u \in Threads \ {t} : carg'[u] = carg[u]
    BY <1>0, <2>1 DEF CallTypes
  <2>5. CASE Continue(t, <<>>) /\ NopreemptOff(t)
    <3>1. \A u \in Threads \ {t} : ut_no_preempt_count'[u] = ut_no_preempt_count[u]
      BY <1>0, <2>5 DEF NopreemptOff
    <3> QED BY <1>1, <2>1, <2>3, <2>4, <2>5, <3>1, PopHolder
  <2>6. ASSUME NopreemptOn(t), NEW f \in {"wake", "mtx_lock"}, NEW g \in {"nopreempt_off", "cond_broadcast"},
               Continue(t, <<f, g>>)
        PROVE  Holders'
    <3>1. /\ ut_no_preempt_count'[t] # 1
          /\ \A u \in Threads \ {t} : ut_no_preempt_count'[u] = ut_no_preempt_count[u]
      BY <1>0, <2>2, <2>6 DEF NopreemptOn
    <3>2. f \in AllLabels \ {"cond_sleep"}
      BY LabelNames
    <3> QED BY <1>1, <2>1, <2>3, <2>4, <2>6, <3>1, <3>2, GoHolder
  <2> QED BY <2>1, <2>5, <2>6
<1> QED BY <1>3, <1>4, <1>5

LEMMA HolderInvInit == SyncInit => HolderInv
<1> SUFFICES ASSUME SyncInit PROVE HolderInv
  OBVIOUS
<1>1. LockInv
  BY LockInvInit
<1>2. PmutHeld /\ RunqHeld
  BY DEF SyncInit, SchedInit, PmutHeld, RunqHeld
<1>3. \A t \in Threads : stack[t] = <<>> \/ stack[t] = <<"nopreempt_off">>
  BY DEF SyncInit, SchedInit
<1>4. WakeMasked
  BY <1>3, Literals DEF WakeMasked, AtHead
<1> QED BY <1>1, <1>2, <1>4 DEF HolderInv

LEMMA HolderInvNext ==
    ASSUME Disciplined, HolderInv, [SyncNext]_syncVars
    PROVE  HolderInv'
<1>1. LockInv'
  BY LockInvNext DEF HolderInv
<1>2. CASE UNCHANGED syncVars
  <2>1. UNCHANGED <<curthr, stack, ut_no_preempt_count, runq_mtx, swarg, pmut, carg>>
    BY <1>2 DEF syncVars, schedVars, cpuVars, thrVars, runqVars, waitVars, argVars, mtxVars
  <2>2. Holders'
    BY <2>1, HolderTypes DEF Holders, PmutHeld, RunqHeld, WakeMasked, AtHead, Running, CondPending, Pending
  <2> QED BY <1>1, <2>2 DEF HolderInv, Holders
<1>3. ASSUME NEW l \in LWPs, LwpStep(l), UNCHANGED mtxVars
      PROVE  Holders'
  BY <1>3, LwpHolder
<1>4. ASSUME NEW l \in LWPs, NEW t \in Threads, UNCHANGED mtxVars,
             LibraryStep(l, t) \/ ClientStep(l, t) \/ ClockInterrupt(l, t)
      PROVE  Holders'
  BY <1>4, SchedHolder
<1>5. ASSUME NEW l \in LWPs, NEW t \in Threads, SyncLibraryStep(l, t)
      PROVE  Holders'
  BY <1>5, MtxHolder, CondHolder DEF SyncLibraryStep
<1>6. ASSUME NEW l \in LWPs, NEW t \in Threads, SyncClientStep(l, t)
      PROVE  Holders'
  BY <1>6, EntryHolder
<1>7. CASE SyncNext
  <2>1. Holders'
    BY <1>3, <1>4, <1>5, <1>6, <1>7 DEF SyncNext, SchedNext
  <2> QED BY <1>1, <2>1 DEF HolderInv, Holders
<1> QED BY <1>2, <1>7

LEMMA HolderInvImplies == HolderInv => NoLockWhilePreemptible
<1> SUFFICES ASSUME HolderInv, NEW l \in LWPs, curthr[l] # NoThread, ut_no_preempt_count[curthr[l]] = 0
             PROVE  runq_mtx # l /\ \A o \in Objs : pmut[o] # l
  BY DEF NoLockWhilePreemptible
<1>0. TypeInv /\ PlaceTypes /\ LockInv /\ NoObj \notin Objs
  BY HolderTypes
<1>1. PICK t \in Threads : curthr[l] = t /\ Running(l, t)
  BY <1>0 DEF PlaceTypes, Running
<1>2. ~AtHead(t, {"switch"}) /\ ~CondPending(t)
  BY <1>0, <1>1, HeadRows, CondRows DEF AtHead
<1> QED BY <1>0, <1>1, <1>2, HeldFor, NoArguments DEF HolderOf

\* An LWP whose thread can be preempted holds no POSIX mutex: each of them is
\* held for a pending switch or wait, whose thread is masked, although
\* uthread_wake unmasks before it unlocks runq_mtx.
THEOREM PreemptibleFree ==
    ASSUME Disciplined
    PROVE  SyncSpec => []NoLockWhilePreemptible
<1>1. SyncInit => HolderInv
  BY HolderInvInit
<1>2. HolderInv /\ [SyncNext]_syncVars => HolderInv'
  BY HolderInvNext
<1>3. HolderInv => NoLockWhilePreemptible
  BY HolderInvImplies
<1> QED BY <1>1, <1>2, <1>3, PTL DEF SyncSpec

-----------------------------------------------------------------------------
(* The monitor: what MonitorInv adds to HolderInv.                         *)

\* What MonitorInv adds to HolderInv.
Waits == WaiterLeft /\ SwitchWaits /\ FreshThreads


-----------------------------------------------------------------------------
(* The frames that the monitor sees on a stack.                            *)

WaitLabels == {"cond_sleep", "cond_signal", "cond_broadcast"}
SameFrames(t) == \A x \in WaitLabels : Contains(stack[t], x)' <=> Contains(stack[t], x)

LEMMA MonitorTypes ==
    ASSUME MonitorInv
    PROVE  /\ HolderInv /\ LockInv /\ OwnerInv /\ PlaceInv /\ TypeInv /\ PlaceTypes /\ CallTypes
           /\ Locks /\ Waits /\ NoThread \notin Threads /\ NoObj \notin Objs
           /\ NoLwp \notin LWPs
  BY HolderTypes, LockTypes DEF MonitorInv, Waits

LEMMA ContainsParts ==
    ASSUME NEW S, NEW s \in Seq(S), s # <<>>, NEW x
    PROVE  Contains(s, x) <=> Head(s) = x \/ Contains(Tail(s), x)
<1> DEFINE r == Tail(s)
<1>1. /\ r \in Seq(S) /\ Len(r) = Len(s) - 1 /\ Len(s) \in Nat \ {0} /\ Head(s) = s[1]
      /\ \A j \in 1..Len(r) : r[j] = s[j + 1]
  OBVIOUS
<1>2. ASSUME NEW i \in 1..Len(s), s[i] = x PROVE Head(s) = x \/ Contains(r, x)
  <2>1. CASE i = 1
    BY <1>1, <1>2, <2>1
  <2>2. CASE i # 1
    <3>1. i - 1 \in 1..Len(r) /\ r[i - 1] = x
      BY <1>1, <1>2, <2>2
    <3> QED BY <3>1 DEF Contains
  <2> QED BY <2>1, <2>2
<1>3. ASSUME NEW j \in 1..Len(r), r[j] = x PROVE Contains(s, x)
  <2>1. j + 1 \in 1..Len(s) /\ s[j + 1] = x
    BY <1>1, <1>3
  <2> QED BY <2>1 DEF Contains
<1>4. Head(s) = x => Contains(s, x)
  BY <1>1 DEF Contains
<1> QED BY <1>2, <1>3, <1>4 DEF Contains

LEMMA ContainsLiterals ==
    ASSUME NEW f, NEW g, NEW x
    PROVE  /\ ~Contains(<<>>, x)
           /\ Contains(<<f>>, x) <=> x = f
           /\ Contains(<<f, g>>, x) <=> x \in {f, g}
<1>1. ~Contains(<<>>, x)
  BY DEF Contains
<1>2. /\ <<f>> \in Seq({f}) /\ <<f>> # <<>> /\ Head(<<f>>) = f /\ Tail(<<f>>) = <<>>
      /\ <<f, g>> \in Seq({f, g}) /\ <<f, g>> # <<>> /\ Head(<<f, g>>) = f /\ Tail(<<f, g>>) = <<g>>
      /\ <<g>> \in Seq({g}) /\ <<g>> # <<>> /\ Head(<<g>>) = g /\ Tail(<<g>>) = <<>>
  OBVIOUS
<1>3. (Contains(<<f>>, x) <=> x = f) /\ (Contains(<<g>>, x) <=> x = g)
  BY <1>1, <1>2, ContainsParts
<1> QED BY <1>1, <1>2, <1>3, ContainsParts

\* Code that is not of a condition variable comes and goes unseen.
LEMMA PopFrames ==
    ASSUME TypeInv, NEW t \in Threads, stack[t] # <<>>, Head(stack[t]) \notin WaitLabels, Continue(t, <<>>)
    PROVE  SameFrames(t) /\ \A u \in Threads \ {t} : stack'[u] = stack[u]
<1>1. stack'[t] = Tail(stack[t]) /\ \A u \in Threads \ {t} : stack'[u] = stack[u]
  BY AfterContinue
<1>2. stack[t] \in Seq(AllLabels)
  BY DEF TypeInv, SyncTypeOK, SchedTypes, AllLabels
<1>3. \A x : Contains(stack[t], x) <=> Head(stack[t]) = x \/ Contains(Tail(stack[t]), x)
  BY <1>2, ContainsParts
<1> QED BY <1>1, <1>3 DEF SameFrames

LEMMA GoFrames ==
    ASSUME TypeInv, NEW t \in Threads, NEW f \in AllLabels \ WaitLabels, NEW g \in AllLabels \ WaitLabels,
           \/ /\ stack[t] # <<>> /\ Head(stack[t]) \notin WaitLabels
              /\ Continue(t, <<f>>) \/ Continue(t, <<f, g>>)
           \/ Push(t, <<f>>) \/ Push(t, <<f, g>>)
    PROVE  SameFrames(t) /\ \A u \in Threads \ {t} : stack'[u] = stack[u]
<1>0. stack \in [Threads -> Seq(AllLabels)]
  BY DEF TypeInv, SyncTypeOK, SchedTypes, AllLabels
<1>1. PICK r \in Seq(AllLabels) :
         /\ \A x \in WaitLabels : Contains(stack[t], x) <=> Contains(r, x)
         /\ stack' = [stack EXCEPT ![t] = <<f>> \o r] \/ stack' = [stack EXCEPT ![t] = <<f, g>> \o r]
  <2>1. CASE stack[t] # <<>> /\ Head(stack[t]) \notin WaitLabels /\ (Continue(t, <<f>>) \/ Continue(t, <<f, g>>))
    <3>1. Tail(stack[t]) \in Seq(AllLabels)
      BY <1>0, <2>1
    <3>2. \A x \in WaitLabels : Contains(stack[t], x) <=> Contains(Tail(stack[t]), x)
      BY <1>0, <2>1, ContainsParts
    <3> QED BY <2>1, <3>1, <3>2 DEF Continue
  <2>2. CASE Push(t, <<f>>) \/ Push(t, <<f, g>>)
    BY <1>0, <2>2 DEF Push
  <2> QED BY <2>1, <2>2
<1>2. /\ <<f>> \o r \in Seq(AllLabels) /\ <<f>> \o r # <<>> /\ Head(<<f>> \o r) = f /\ Tail(<<f>> \o r) = r
      /\ <<g>> \o r \in Seq(AllLabels) /\ <<g>> \o r # <<>> /\ Head(<<g>> \o r) = g /\ Tail(<<g>> \o r) = r
  BY ConsProperties
<1>3. /\ <<f, g>> \o r \in Seq(AllLabels) /\ <<f, g>> \o r # <<>>
      /\ Head(<<f, g>> \o r) = f /\ Tail(<<f, g>> \o r) = <<g>> \o r
  BY ConsTwoProperties
<1>4. \A x : (Contains(<<f>> \o r, x) <=> f = x \/ Contains(r, x)) /\ (Contains(<<g>> \o r, x) <=> g = x \/ Contains(r, x))
  BY <1>2, ContainsParts
<1>5. \A x : Contains(<<f, g>> \o r, x) <=> f = x \/ Contains(<<g>> \o r, x)
  BY <1>3, ContainsParts
<1>6. stack'[t] \in {<<f>> \o r, <<f, g>> \o r} /\ \A u \in Threads \ {t} : stack'[u] = stack[u]
  BY <1>0, <1>1
<1> QED BY <1>1, <1>4, <1>5, <1>6 DEF SameFrames

-----------------------------------------------------------------------------
(* Sleepers and pending wake-ups.                                          *)

Left(t, c) == LeftMutexNotQueued(t, c)
SameWait(t) ==
    /\ \A c \in Conds : Left(t, c)' <=> Left(t, c)
    /\ PendingWakeup(t)' = PendingWakeup(t)

LEMMA SleepersSame ==
    ASSUME NEW c \in Conds, waitq'[c] = waitq[c], \A u \in Threads : Left(u, c)' <=> Left(u, c)
    PROVE  Sleepers(c)' = Sleepers(c)
<1> DEFINE B == {u \in Threads : LeftMutexNotQueued(u, c)}
           S(b, w) == IF b = {} THEN w ELSE Append(w, CHOOSE t \in b : TRUE)
<1>1. B' = B
  BY DEF Left
<1>2. Sleepers(c) = S(B, waitq[c])
  BY DEF Sleepers
<1>3. Sleepers(c)' = S(B', waitq'[c])
  BY DEF Sleepers
<1> HIDE DEF B, S
<1> QED BY <1>1, <1>2, <1>3

LEMMA NoSleeperLeft ==
    ASSUME NEW c \in Conds
    PROVE  /\ (\A u \in Threads : ~Left(u, c)) => Sleepers(c) = waitq[c]
           /\ (\A u \in Threads : ~Left(u, c)') => Sleepers(c)' = waitq'[c]
<1>1. (\A u \in Threads : ~Left(u, c)) => {u \in Threads : LeftMutexNotQueued(u, c)} = {}
  BY DEF Left
<1>2. (\A u \in Threads : ~Left(u, c)') => {u \in Threads : LeftMutexNotQueued(u, c)}' = {}
  BY DEF Left
<1> QED BY <1>1, <1>2 DEF Sleepers

LEMMA OneSleeperLeft ==
    ASSUME NEW c \in Conds, NEW t \in Threads
    PROVE  /\ Left(t, c) /\ (\A u \in Threads \ {t} : ~Left(u, c)) => Sleepers(c) = Append(waitq[c], t)
           /\ Left(t, c)' /\ (\A u \in Threads \ {t} : ~Left(u, c)') => Sleepers(c)' = Append(waitq'[c], t)
<1>1. ASSUME Left(t, c), \A u \in Threads \ {t} : ~Left(u, c)
      PROVE  Sleepers(c) = Append(waitq[c], t)
  <2>1. {u \in Threads : LeftMutexNotQueued(u, c)} = {t}
    BY <1>1 DEF Left
  <2> QED BY <2>1 DEF Sleepers
<1>2. ASSUME Left(t, c)', \A u \in Threads \ {t} : ~Left(u, c)'
      PROVE  Sleepers(c)' = Append(waitq'[c], t)
  <2>1. {u \in Threads : LeftMutexNotQueued(u, c)}' = {t}
    BY <1>2 DEF Left
  <2> QED BY <2>1 DEF Sleepers
<1> QED BY <1>1, <1>2

\* A thread between its mutex and the queue is the one that holds pmut.
LEMMA LeftHolds ==
    ASSUME MonitorInv, NEW t \in Threads, NEW c \in Conds, Left(t, c)
    PROVE  Holds(t, c)
  BY MonitorTypes, LockInvImplies DEF WaitIsAtomic, Holds, Running, Left

LEMMA LeftIsUnique ==
    ASSUME MonitorInv, NEW c \in Conds
    PROVE  /\ pmut[c] = NoLwp => \A u \in Threads : ~Left(u, c)
           /\ \A t, u \in Threads : Holds(t, c) /\ Left(u, c) => u = t
  BY LeftHolds, HolderIsUnique, MonitorTypes, ObjKinds

\* When a thread is between its mutex and the queue of c.
LEMMA LeftWhen ==
    ASSUME MonitorInv, NEW t \in Threads, NEW c \in Conds
    PROVE  Left(t, c) <=>
              carg[t] = c /\ ((CondPending(t) /\ ~AtHead(t, {"mtx_unlock"})) \/ swarg[t].queue = c)
<1>0. TypeInv /\ Locks /\ Waits /\ NoObj \notin Objs
  BY MonitorTypes
<1>1. CondPending(t) <=> Contains(stack[t], "cond_sleep")
  <2>1. ASSUME CondPending(t) PROVE Contains(stack[t], "cond_sleep")
    <3>1. stack[t] \in Seq(AllLabels) /\ stack[t] # <<>>
      BY <1>0, <2>1, CondRows DEF TypeInv, SyncTypeOK, SchedTypes, AllLabels
    <3>2. Head(stack[t]) = "cond_sleep" \/ Tail(stack[t]) \in {<<"cond_sleep">>, <<"nopreempt_off", "cond_sleep">>}
      BY <1>0, <2>1, CondRows
    <3>3. Tail(stack[t]) \in {<<"cond_sleep">>, <<"nopreempt_off", "cond_sleep">>} => Contains(Tail(stack[t]), "cond_sleep")
      <4>1. Contains(<<"cond_sleep">>, "cond_sleep") /\ Contains(<<"nopreempt_off", "cond_sleep">>, "cond_sleep")
        BY ContainsLiterals
      <4> QED BY <4>1
    <3> QED BY <3>1, <3>2, <3>3, ContainsParts
  <2> QED BY <1>0, <2>1, WaitFrames
<1>2. AtHead(t, {"mtx_unlock"}) => marg[t] \in crit[t]
  BY MonitorTypes DEF OwnerInv, UnlockerHolds, AtHead
<1>3. ~AtHead(t, {"switch"}) => swarg[t].queue = NoObj
  BY MonitorTypes, NoArguments
<1>4. AtHead(t, {"mtx_unlock"}) => ~AtHead(t, {"switch"})
  BY DEF AtHead
<1>5. c # NoObj
  BY ObjKinds
<1> QED BY <1>0, <1>1, <1>2, <1>3, <1>4, <1>5 DEF Left, LeftMutexNotQueued, Waits, WaiterLeft

\* A running thread that is not in a uthread_cond_wait is not asleep.
LEMMA NotAsleepWhenRunning ==
    ASSUME MonitorInv, NEW l \in LWPs, NEW t \in Threads, Running(l, t), \A c \in Conds : ~Left(t, c)
    PROVE  ~Abstract!Asleep(t)
<1>0. PlaceInv /\ PlaceTypes
  BY MonitorTypes
<1>1. \A o \in Objs : \A i \in 1..Len(waitq[o]) : waitq[o][i] # t
  BY <1>0 DEF PlaceInv, WaitqOK, OnNoLwp, Running
<1>2. ASSUME NEW m \in Mutexes PROVE ~Abstract!InSeq([n \in Mutexes |-> waitq[n]][m], t)
  <2>1. DOMAIN waitq[m] = 1..Len(waitq[m]) /\ m \in Objs
    BY <1>0, ObjKinds DEF PlaceTypes
  <2> QED BY <1>1, <2>1 DEF Abstract!InSeq
<1>3. ASSUME NEW c \in Conds PROVE ~Abstract!InSeq([d \in Conds |-> Sleepers(d)][c], t)
  <2>1. c \in Objs /\ waitq[c] \in Seq(Threads)
    BY <1>0, ObjKinds DEF PlaceTypes
  <2>2. CASE \A u \in Threads : ~Left(u, c)
    <3>1. Sleepers(c) = waitq[c] /\ DOMAIN waitq[c] = 1..Len(waitq[c])
      BY <2>1, <2>2, NoSleeperLeft
    <3> QED BY <1>1, <2>1, <3>1 DEF Abstract!InSeq
  <2>3. ASSUME NEW u \in Threads, Left(u, c) PROVE ~Abstract!InSeq([d \in Conds |-> Sleepers(d)][c], t)
    <3>1. u # t /\ Sleepers(c) = Append(waitq[c], u)
      BY <1>3, <2>3, OneSleeperLeft, LeftIsUnique, LeftHolds
    <3>2. /\ DOMAIN Append(waitq[c], u) = 1..(Len(waitq[c]) + 1) /\ Len(waitq[c]) \in Nat
          /\ \A i \in 1..Len(waitq[c]) : Append(waitq[c], u)[i] = waitq[c][i]
          /\ Append(waitq[c], u)[Len(waitq[c]) + 1] = u
      BY <2>1
    <3>3. \A i \in DOMAIN Append(waitq[c], u) : Append(waitq[c], u)[i] # t
      BY <1>1, <2>1, <3>1, <3>2
    <3> QED BY <3>1, <3>3 DEF Abstract!InSeq
  <2> QED BY <2>2, <2>3
<1> QED BY <1>2, <1>3 DEF Abstract!Asleep

-----------------------------------------------------------------------------
(* What every step has to show.                                            *)

\* No thread goes back to the state of a free slot.
FreshStays == \A u \in Threads : ut_state'[u] \in Fresh => ut_state[u] \in Fresh

LEMMA DispatchFresh ==
    ASSUME NEW l, NEW rq, NEW sz, NEW st \in [Threads -> UtStates], NEW lw, Dispatch(l, rq, sz, st, lw),
           \A u \in Threads : st[u] \in Fresh => ut_state[u] \in Fresh
    PROVE  FreshStays
<1>1. ut_state' = st \/ \E h : ut_state' = [st EXCEPT ![h] = "UT_ON_CPU"]
  BY DEF Dispatch, PickThread, Park, BadQueue
<1> QED BY <1>1 DEF FreshStays, Fresh

LEMMA StatesAfter ==
    ASSUME PlaceInv, NEW l \in LWPs, NEW t \in Threads,
           \/ LibraryStep(l, t) \/ ClientStep(l, t) \/ ClockInterrupt(l, t)
           \/ SyncLibraryStep(l, t) \/ SyncClientStep(l, t)
    PROVE  FreshStays
<1>0. ut_state \in [Threads -> UtStates]
  BY TypesOf DEF PlaceInv, PlaceTypes
<1>1. ASSUME NEW u, NEW s \in {"UT_RUNNABLE", "UT_WAIT", "UT_ON_CPU"}, ut_state' = [ut_state EXCEPT ![u] = s]
      PROVE  FreshStays
  BY <1>0, <1>1 DEF FreshStays, Fresh
<1>2. UNCHANGED ut_state => FreshStays
  BY DEF FreshStays
<1>3. CASE Switch(l, t)
  <2>1. /\ UNCHANGED ut_state => FreshStays
        /\ \A st \in [Threads -> UtStates] : (\E rq, sz, lw : Dispatch(l, rq, sz, st, lw))
              /\ (\A u \in Threads : st[u] \in Fresh => ut_state[u] \in Fresh) => FreshStays
    BY <1>2, DispatchFresh
  <2> DEFINE D(st) == \E rq, sz, lw : Dispatch(l, rq, sz, st, lw)
             st1 == [ut_state EXCEPT ![t] = "UT_RUNNABLE"]
  <2>2. D(ut_state) \/ D(st1)
    <3>1. CASE swarg[t].saveonrq /\ swarg[t].queue = NoObj
      <4>1. \E lw : Dispatch(l, Enqueued(runq, ut_prio[t], t), SizeUp(tq_size, ut_prio[t]), st1, lw)
        BY <1>3, <3>1 DEF Switch
      <4> QED BY <4>1
    <3>2. CASE ~(swarg[t].saveonrq /\ swarg[t].queue = NoObj)
      <4>1. \E lw : Dispatch(l, runq, tq_size, ut_state, lw)
        BY <1>3, <3>2 DEF Switch
      <4> QED BY <4>1
    <3> QED BY <3>1, <3>2
  <2>3. st1 \in [Threads -> UtStates] /\ \A u \in Threads : st1[u] \in Fresh => ut_state[u] \in Fresh
    BY <1>0 DEF UtStates, Fresh
  <2> HIDE DEF st1
  <2> QED BY <1>0, <2>1, <2>2, <2>3
<1>4. CASE AllocClaim(l, t)
  <2>1. stack[t] # <<>> /\ Head(stack[t]) = "alloc_claim" /\ ut_state' = [ut_state EXCEPT ![newthr[t]] = "UT_TRANSITION"]
    BY <1>4 DEF AllocClaim, At
  <2>2. newthr[t] \in Threads /\ ut_state[newthr[t]] \in Fresh
    BY <2>1, Newborn DEF Fresh
  <2> QED BY <1>0, <2>1, <2>2 DEF FreshStays, Fresh
<1>5. CASE \/ SwitchAborts(l, t) \/ Return(l, t) \/ YieldLock(l, t) \/ WakeUnlock(l, t)
           \/ SetprioWrite(l, t) \/ CreateInit(l, t) \/ AllocStackFails(l, t)
  BY <1>2, <1>5 DEF SwitchAborts, Return, YieldLock, WakeUnlock, SetprioWrite, CreateInit, AllocStackFails, thrVars
<1>6. CASE Wake(l, t)
  <2>1. UNCHANGED ut_state \/ ut_state' = [ut_state EXCEPT ![wakee[t]] = "UT_RUNNABLE"]
    BY <1>6 DEF Wake, MakeRunnable, WakeQueues
  <2> QED BY <1>1, <1>2, <2>1
<1>7. CASE SetprioLock(l, t) \/ ClockInterrupt(l, t)
  <2>1. UNCHANGED ut_state \/ ut_state' = [ut_state EXCEPT ![t] = "UT_RUNNABLE"]
    BY <1>7 DEF SetprioLock, ClockInterrupt, YieldEnter
  <2> QED BY <1>1, <1>2, <2>1
<1>8. CASE \E prio \in Prios : StartOnRunq(l, t, prio)
  <2>1. UNCHANGED ut_state \/ ut_state' = [ut_state EXCEPT ![newthr[t]] = "UT_RUNNABLE"]
    BY <1>8 DEF StartOnRunq
  <2> QED BY <1>1, <1>2, <2>1
<1>9. CASE ClientStep(l, t)
  <2>1. UthreadYield(l, t) => ut_state' = [ut_state EXCEPT ![t] = "UT_RUNNABLE"]
    BY DEF UthreadYield, YieldEnter
  <2>2. UthreadBlock(l, t) => ut_state' = [ut_state EXCEPT ![t] = "UT_WAIT"]
    BY DEF UthreadBlock
  <2>3. ASSUME NEW u \in Threads
        PROVE  /\ UthreadWake(l, t, u) \/ AllocScan(l, t, u) => UNCHANGED ut_state
               /\ \A prio \in Prios : SetprioRead(l, t, u, prio) => UNCHANGED ut_state
    BY DEF UthreadWake, AllocScan, AllocFound, SetprioRead
  <2> QED BY <1>1, <1>2, <1>9, <2>1, <2>2, <2>3 DEF ClientStep
<1>10. CASE SyncLibraryStep(l, t)
  <2>1. MtxLock(l, t) => UNCHANGED ut_state \/ ut_state' = [ut_state EXCEPT ![t] = "UT_WAIT"]
    BY DEF MtxLock, MtxSleep
  <2>2. CondSleep(l, t) => ut_state' = [ut_state EXCEPT ![t] = "UT_WAIT"]
    BY DEF CondSleep
  <2>3. (\/ MtxLocked(l, t) \/ MtxTrylock(l, t) \/ MtxUnlock(l, t) \/ CondWait(l, t) \/ CondRelock(l, t)
         \/ CondSignal(l, t) \/ CondBroadcast(l, t)) => UNCHANGED ut_state
    BY DEF MtxLocked, MtxTrylock, MtxUnlock, CondWait, CondRelock, CondSignal, CondBroadcast
  <2> QED BY <1>1, <1>2, <1>10, <2>1, <2>2, <2>3 DEF SyncLibraryStep
<1>11. CASE SyncClientStep(l, t)
  BY <1>2, <1>11 DEF SyncClientStep, UthreadMtxLock, UthreadMtxTrylock, UthreadMtxUnlock, UthreadCondWait,
       UthreadCondSignal, UthreadCondBroadcast, EntryUnchanged
<1> QED BY <1>3, <1>4, <1>5, <1>6, <1>7, <1>8, <1>9, <1>10, <1>11 DEF LibraryStep

\* Threads that the step does not run.
Others(t) == \A u \in Threads \ {t} : SameCalls(u) /\ carg'[u] = carg[u]

LEMMA OthersWait ==
    ASSUME MonitorInv, NEW t \in Threads, Others(t), NEW u \in Threads \ {t}
    PROVE  SameFrames(u) /\ SameWait(u)
<1>1. SameFrames(u)
  <2>1. CASE stack'[u] = stack[u]
    BY <2>1 DEF SameFrames
  <2>2. CASE ut_state[u] \in {"UT_NO_STATE", "UT_TRANSITION"} /\ stack'[u] = <<"nopreempt_off">>
    <3>1. stack[u] \in {<<>>, <<"nopreempt_off">>}
      BY <2>2, MonitorTypes DEF Waits, FreshThreads
    <3>2. \A x \in WaitLabels : ~Contains(<<>>, x) /\ ~Contains(<<"nopreempt_off">>, x)
      BY ContainsLiterals DEF WaitLabels
    <3> QED BY <2>2, <3>1, <3>2 DEF SameFrames
  <2> QED BY <2>1, <2>2 DEF Others, SameCalls
<1> QED BY <1>1 DEF Others, SameCalls, SameWait, Left, LeftMutexNotQueued, PendingWakeup, SameFrames, WaitLabels

LEMMA WaitsFrame ==
    ASSUME MonitorInv, NEW l \in LWPs, NEW t \in Threads, Running(l, t), Others(t), FreshStays,
           Contains(stack[t], "cond_sleep")' /\ ~AtHead(t, {"mtx_unlock"})' => marg'[t] \notin crit'[t],
           swarg'[t].queue \in Conds => marg'[t] \notin crit'[t] /\ swarg'[t].queue = carg'[t]
    PROVE  Waits'
<1>0. PlaceInv /\ TypeInv /\ Waits
  BY MonitorTypes
<1>1. ASSUME NEW u \in Threads \ {t}
      PROVE  /\ (Contains(stack[u], "cond_sleep")' /\ ~AtHead(u, {"mtx_unlock"})') \/ swarg'[u].queue \in Conds
                    => marg'[u] \notin crit'[u]
             /\ swarg'[u].queue \in Conds => swarg'[u].queue = carg'[u]
  <2>1. swarg'[u] = swarg[u] /\ carg'[u] = carg[u] /\ marg'[u] = marg[u] /\ crit'[u] = crit[u]
    BY DEF Others, SameCalls
  <2>2. Contains(stack[u], "cond_sleep")' => Contains(stack[u], "cond_sleep") /\ stack'[u] = stack[u]
    <3>1. stack'[u] = stack[u] \/ stack'[u] = <<"nopreempt_off">>
      BY DEF Others, SameCalls
    <3>2. ~Contains(<<"nopreempt_off">>, "cond_sleep")
      BY ContainsLiterals
    <3> QED BY <3>1, <3>2
  <2> QED BY <1>0, <2>1, <2>2 DEF Waits, WaiterLeft, SwitchWaits, AtHead
<1>2. WaiterLeft'
  BY <1>1 DEF WaiterLeft
<1>3. SwitchWaits'
  BY <1>1 DEF SwitchWaits
<1>4. FreshThreads'
  <2>1. ut_state[t] \notin Fresh
    BY <1>0 DEF TypeInv, ThreadsExist, PlaceInv, NewbornOK, Fresh
  <2>2. \A u \in Threads \ {t} : stack'[u] = stack[u] \/ stack'[u] = <<"nopreempt_off">>
    BY DEF Others, SameCalls
  <2> QED BY <1>0, <2>1, <2>2 DEF FreshStays, FreshThreads, Waits, Fresh
<1> QED BY <1>2, <1>3, <1>4 DEF Waits

\* The monitor does not see the step.
Stutter == UNCHANGED Abstract!monVars

LEMMA StutterFrame ==
    ASSUME UNCHANGED m_owner, \A o \in Mutexes \cup Conds : waitq'[o] = waitq[o],
           \A u \in Threads : SameWait(u)
    PROVE  Stutter
<1>1. \A c \in Conds : Sleepers(c)' = Sleepers(c)
  BY SleepersSame DEF SameWait
<1>2. [m \in Mutexes |-> waitq[m]]' = [m \in Mutexes |-> waitq[m]]
  OBVIOUS
<1>3. [c \in Conds |-> Sleepers(c)]' = [c \in Conds |-> Sleepers(c)]
  BY <1>1
<1>4. [t \in Threads |-> PendingWakeup(t)]' = [t \in Threads |-> PendingWakeup(t)]
  BY DEF SameWait
<1> QED BY <1>2, <1>3, <1>4 DEF Stutter, Abstract!monVars

\* A step of code that is neither an unlock nor a switch, on its way through
\* calls that stay the same.
LEMMA QuietStep ==
    ASSUME MonitorInv, NEW l \in LWPs, NEW t \in Threads, Running(l, t), Others(t), FreshStays,
           UNCHANGED m_owner, \A o \in Mutexes \cup Conds : waitq'[o] = waitq[o],
           SameFrames(t), ~AtHead(t, {"mtx_unlock"}),
           carg'[t] = carg[t], marg'[t] = marg[t], crit'[t] = crit[t],
           swarg[t].queue \notin Conds, swarg'[t].queue \notin Conds
    PROVE  /\ Waits'
           /\ Stutter
<1>1. Waits'
  <2>1. SameFrames(t) /\ "cond_sleep" \in WaitLabels
    BY DEF WaitLabels
  <2>2. Contains(stack[t], "cond_sleep") => marg[t] \notin crit[t]
    BY MonitorTypes DEF Waits, WaiterLeft
  <2>3. Contains(stack[t], "cond_sleep")' => Contains(stack[t], "cond_sleep")
    BY <2>1 DEF SameFrames
  <2> QED BY <2>2, <2>3, WaitsFrame
<1>2. SameWait(t)
  BY DEF SameWait, Left, LeftMutexNotQueued, PendingWakeup, SameFrames, WaitLabels
<1>3. \A u \in Threads : SameWait(u)
  BY <1>2, OthersWait
<1>4. Stutter
  BY <1>3, StutterFrame
<1> QED BY <1>1, <1>4

\* A step of a thread that is not in a uthread_cond_wait before it nor after.
LEMMA NotWaiting ==
    ASSUME MonitorInv, NEW l \in LWPs, NEW t \in Threads, Running(l, t), Others(t), FreshStays,
           ~CondPending(t), ~AtHead(t, {"switch"}),
           ~Contains(stack[t], "cond_sleep")', swarg'[t].queue \notin Conds
    PROVE  /\ Waits' /\ \A c \in Conds : ~Left(t, c) /\ ~Left(t, c)'
           /\ ~Abstract!Asleep(t)
           /\ \A c \in Conds : waitq'[c] = waitq[c] => Sleepers(c)' = Sleepers(c)
<1>1. swarg[t].queue = NoObj /\ NoObj \notin Conds
  BY MonitorTypes, NoArguments, ObjKinds
<1>2. ASSUME NEW c \in Conds PROVE ~Left(t, c) /\ ~Left(t, c)'
  BY <1>1, MonitorTypes, WaitFrames DEF Left, LeftMutexNotQueued
<1>3. \A c \in Conds, u \in Threads : Left(u, c)' <=> Left(u, c)
  BY <1>2, OthersWait DEF SameWait
<1>4. ~Abstract!Asleep(t)
  BY <1>2, NotAsleepWhenRunning
<1> QED BY <1>2, <1>3, <1>4, WaitsFrame, SleepersSame

-----------------------------------------------------------------------------
(* The scheduler's steps, but for the end of a switch, are unseen.         *)

LEMMA PopSchedMonitor ==
    ASSUME MonitorInv, NEW l \in LWPs, NEW t \in Threads, UNCHANGED mtxVars, FreshStays,
           \/ Return(l, t) \/ WakeUnlock(l, t) \/ AllocStackFails(l, t)
           \/ Wake(l, t) /\ Continue(t, <<>>)
           \/ SetprioLock(l, t) /\ Continue(t, <<>>)
           \/ \E prio \in Prios : StartOnRunq(l, t, prio) /\ Continue(t, <<>>)
    PROVE  Waits' /\ Stutter
<1>1. /\ Running(l, t) /\ stack[t] # <<>> /\ Continue(t, <<>>)
      /\ Head(stack[t]) \in {"nopreempt_off", "wake_unlock", "create_init", "wake", "setprio_lock", "startonrunq"}
  BY DEF Return, WakeUnlock, AllocStackFails, Wake, SetprioLock, StartOnRunq, At
<1>2. UNCHANGED <<m_owner, marg, carg, crit, swarg, waitq>>
  BY DEF Return, WakeUnlock, AllocStackFails, Wake, SetprioLock, StartOnRunq, mtxVars, argVars, waitVars
<1>3. SameFrames(t) /\ \A u \in Threads \ {t} : stack'[u] = stack[u]
  <2>1. Head(stack[t]) \notin WaitLabels
    BY <1>1 DEF WaitLabels
  <2> QED BY <1>1, <2>1, PopFrames, MonitorTypes
<1>4. Others(t)
  BY <1>2, <1>3 DEF Others, SameCalls
<1>5. swarg[t].queue \notin Conds /\ ~AtHead(t, {"mtx_unlock"})
  BY <1>1, MonitorTypes, NoArguments, ObjKinds DEF AtHead
<1> QED BY <1>1, <1>2, <1>3, <1>4, <1>5, QuietStep

LEMMA GoSchedMonitor ==
    ASSUME MonitorInv, Disciplined, NEW l \in LWPs, NEW t \in Threads, UNCHANGED mtxVars, FreshStays,
           \/ SetprioWrite(l, t) \/ AllocClaim(l, t)
           \/ Wake(l, t) /\ Continue(t, <<"wake_unlock">>)
           \/ SetprioLock(l, t) /\ Continue(t, YieldFrames)
           \/ ClientStep(l, t) \/ ClockInterrupt(l, t)
    PROVE  Waits' /\ Stutter
<1>1. /\ Running(l, t) /\ UNCHANGED <<m_owner, marg, carg, crit, swarg, waitq, pmut, curthr>>
      /\ ~AtHead(t, {"switch"})
      /\ \/ \E f \in {"setprio_lock", "create_init", "wake_unlock"} :
               stack[t] # <<>> /\ Continue(t, <<f>>)
         \/ stack[t] # <<>> /\ Continue(t, <<"yield_lock", "nopreempt_off">>)
         \/ Push(t, <<"yield_lock", "nopreempt_off">>)
         \/ \E f \in {"wake", "setprio_write", "alloc_claim"} : Push(t, <<f>>)
  BY MonitorTypes, GoSchedFrames
<1>2. stack[t] # <<>> => Head(stack[t]) \notin WaitLabels \cup {"mtx_unlock"}
  <2>1. CASE SetprioWrite(l, t) \/ AllocClaim(l, t) \/ Wake(l, t) \/ SetprioLock(l, t)
    BY <2>1 DEF SetprioWrite, AllocClaim, Wake, SetprioLock, At, WaitLabels
  <2>2. CASE ClockInterrupt(l, t)
    <3>1. ASSUME stack[t] # <<>> PROVE Head(stack[t]) \in {"create_init", "wake_unlock"}
      <4>1. <<0, Head(stack[t]), Tail(stack[t])>> \in Continuations
        BY <2>2, <3>1, RowOf, MonitorTypes DEF ClockInterrupt
      <4> QED BY <4>1, Rows
    <3> QED BY <3>1 DEF WaitLabels
  <2>3. CASE ClientStep(l, t)
    BY <2>3 DEF ClientStep, UthreadYield, UthreadBlock, UthreadWake, AllocScan, AllocFound, SetprioRead, InClient
  <2> QED BY <2>1, <2>2, <2>3
<1>3. {"setprio_lock", "create_init", "wake_unlock", "yield_lock", "wake", "setprio_write", "alloc_claim", "nopreempt_off"}
            \subseteq AllLabels \ WaitLabels
  BY LabelNames DEF WaitLabels
<1>4. ASSUME NEW f \in {"setprio_lock", "create_init", "wake_unlock", "yield_lock", "wake",
                        "setprio_write", "alloc_claim"},
             \/ stack[t] # <<>> /\ (Continue(t, <<f>>) \/ Continue(t, <<f, "nopreempt_off">>))
             \/ Push(t, <<f>>) \/ Push(t, <<f, "nopreempt_off">>)
      PROVE  SameFrames(t) /\ \A u \in Threads \ {t} : stack'[u] = stack[u]
  <2>1. f \in AllLabels \ WaitLabels /\ "nopreempt_off" \in AllLabels \ WaitLabels
    BY <1>3
  <2> QED BY <1>2, <1>4, <2>1, GoFrames, MonitorTypes
<1>5. SameFrames(t) /\ \A u \in Threads \ {t} : stack'[u] = stack[u]
  <2>1. CASE \E f \in {"setprio_lock", "create_init", "wake_unlock"} : stack[t] # <<>> /\ Continue(t, <<f>>)
    BY <1>4, <2>1
  <2>2. CASE \E f \in {"wake", "setprio_write", "alloc_claim"} : Push(t, <<f>>)
    BY <1>4, <2>2
  <2>3. CASE \/ stack[t] # <<>> /\ Continue(t, <<"yield_lock", "nopreempt_off">>)
             \/ Push(t, <<"yield_lock", "nopreempt_off">>)
    BY <1>4, <2>3
  <2> QED BY <1>1, <2>1, <2>2, <2>3
<1>6. Others(t)
  BY <1>1, <1>5 DEF Others, SameCalls
<1>7. swarg[t].queue \notin Conds /\ ~AtHead(t, {"mtx_unlock"})
  BY <1>1, <1>2, MonitorTypes, NoArguments, ObjKinds DEF AtHead
<1> QED BY <1>1, <1>5, <1>6, <1>7, QuietStep

LEMMA YieldLockMonitor ==
    ASSUME MonitorInv, NEW l \in LWPs, NEW t \in Threads, UNCHANGED mtxVars, FreshStays, YieldLock(l, t)
    PROVE  Waits' /\ Stutter
<1>1. /\ Running(l, t) /\ stack[t] # <<>> /\ Head(stack[t]) = "yield_lock" /\ Continue(t, <<"switch">>)
      /\ swarg' = [swarg EXCEPT ![t] = [queue |-> NoObj, saveonrq |-> TRUE, pmut |-> t]]
      /\ UNCHANGED <<m_owner, marg, carg, crit, waitq>>
  BY DEF YieldLock, At, mtxVars
<1>2. SameFrames(t) /\ \A u \in Threads \ {t} : stack'[u] = stack[u]
  <2>1. "switch" \in AllLabels \ WaitLabels /\ Head(stack[t]) \notin WaitLabels
    BY <1>1, LabelNames DEF WaitLabels
  <2> QED BY <1>1, <2>1, GoFrames, MonitorTypes
<1>3. swarg'[t].queue = NoObj /\ \A u \in Threads \ {t} : swarg'[u] = swarg[u]
  BY <1>1, MonitorTypes DEF PlaceTypes
<1>4. Others(t)
  BY <1>1, <1>2, <1>3 DEF Others, SameCalls
<1>5. swarg[t].queue \notin Conds /\ ~AtHead(t, {"mtx_unlock"}) /\ NoObj \notin Conds
  BY <1>1, MonitorTypes, NoArguments, ObjKinds DEF AtHead
<1> QED BY <1>1, <1>2, <1>3, <1>4, <1>5, QuietStep

LEMMA CreateInitMonitor ==
    ASSUME MonitorInv, NEW l \in LWPs, NEW t \in Threads, UNCHANGED mtxVars, FreshStays, CreateInit(l, t)
    PROVE  Waits' /\ Stutter
<1>0. PlaceInv /\ TypeInv /\ PlaceTypes
  BY MonitorTypes
<1>1. Running(l, t) /\ stack[t] # <<>> /\ Head(stack[t]) = "create_init"
  BY DEF CreateInit, At
<1>2. PICK u \in Threads \ {t} : u = newthr[t] /\ ut_state[u] \in Fresh
  BY <1>0, <1>1, Newborn DEF Fresh
<1>3. /\ stack' = [stack EXCEPT ![u] = <<"nopreempt_off">>, ![t] = <<"startonrunq">> \o Tail(@)]
      /\ waitq' = [waitq EXCEPT ![u] = <<>>]
      /\ UNCHANGED <<m_owner, marg, carg, crit, swarg>>
  BY <1>2 DEF CreateInit, mtxVars, argVars
<1>4. stack'[u] = <<"nopreempt_off">> /\ \A v \in Threads \ {t, u} : stack'[v] = stack[v]
  BY <1>0, <1>2, <1>3 DEF PlaceTypes
<1>5. SameFrames(t)
  <2>1. Tail(stack[t]) \in Seq(AllLabels) /\ stack[t] \in Seq(AllLabels) /\ "startonrunq" \in AllLabels
    BY <1>0, <1>1, LabelNames DEF PlaceTypes
  <2>2. stack'[t] = <<"startonrunq">> \o Tail(stack[t])
    BY <1>0, <1>2, <1>3 DEF PlaceTypes
  <2>3. stack'[t] \in Seq(AllLabels) /\ stack'[t] # <<>> /\ Head(stack'[t]) = "startonrunq" /\ Tail(stack'[t]) = Tail(stack[t])
    BY <2>1, <2>2, ConsProperties
  <2>4. /\ \A x : Contains(stack'[t], x) <=> Head(stack'[t]) = x \/ Contains(Tail(stack'[t]), x)
        /\ \A x : Contains(stack[t], x) <=> Head(stack[t]) = x \/ Contains(Tail(stack[t]), x)
    BY <1>1, <2>1, <2>3, ContainsParts
  <2> QED BY <1>1, <2>3, <2>4 DEF SameFrames, WaitLabels
<1>6. Others(t)
  BY <1>2, <1>3, <1>4 DEF Others, SameCalls, Fresh
<1>7. \A o \in Mutexes \cup Conds : waitq'[o] = waitq[o]
  BY <1>0, <1>3, ObjKinds DEF PlaceTypes
<1>8. swarg[t].queue \notin Conds /\ ~AtHead(t, {"mtx_unlock"})
  BY <1>1, MonitorTypes, NoArguments, ObjKinds DEF AtHead
<1> QED BY <1>1, <1>3, <1>5, <1>6, <1>7, <1>8, QuietStep

-----------------------------------------------------------------------------
(* The end of a switch.                                                    *)

Seen == Abstract!MonitorNext \/ Stutter

LEMMA SwitchMonitor ==
    ASSUME MonitorInv, NEW l \in LWPs, NEW t \in Threads, UNCHANGED mtxVars, FreshStays, Switch(l, t)
    PROVE  Waits' /\ Seen
<1>0. PlaceTypes /\ TypeInv /\ Locks /\ Waits /\ NoObj \notin Conds
  BY MonitorTypes, ObjKinds
<1> DEFINE q == swarg[t].queue
<1>1. /\ Running(l, t) /\ stack[t] # <<>> /\ Head(stack[t]) = "switch" /\ Continue(t, <<>>)
      /\ waitq' = IF q = NoObj THEN waitq ELSE [waitq EXCEPT ![q] = Append(@, t)]
      /\ swarg' = [swarg EXCEPT ![t] = NoSwitch] /\ UNCHANGED <<m_owner, marg, carg, crit>>
  BY DEF Switch, At, mtxVars
<1>2. swarg'[t].queue = NoObj /\ \A u \in Threads \ {t} : swarg'[u] = swarg[u]
  BY <1>0, <1>1 DEF PlaceTypes, NoSwitch
<1>3. SameFrames(t) /\ \A u \in Threads \ {t} : stack'[u] = stack[u]
  <2>1. Head(stack[t]) \notin WaitLabels
    BY <1>1 DEF WaitLabels
  <2> QED BY <1>0, <1>1, <2>1, PopFrames
<1>4. Others(t)
  BY <1>1, <1>2, <1>3 DEF Others, SameCalls
<1>5. ~CondPending(t) /\ ~Contains(stack[t], "cond_sleep")' /\ ~AtHead(t, {"mtx_unlock"})
  <2>1. ~CondPending(t)
    BY <1>0, <1>1, CondRows
  <2>2. ~Contains(stack[t], "cond_sleep")
    BY <1>0, <2>1, WaitFrames
  <2> QED BY <1>1, <1>3, <2>1, <2>2 DEF SameFrames, WaitLabels, AtHead
<1>6. Waits'
  BY <1>0, <1>1, <1>2, <1>4, <1>5, WaitsFrame
<1>7. PendingWakeup(t)' = PendingWakeup(t)
  BY <1>1, <1>3 DEF PendingWakeup, SameFrames, WaitLabels
<1>8. \A c \in Conds : ~Left(t, c)' /\ (Left(t, c) <=> carg[t] = c /\ q = c)
  BY <1>0, <1>2, <1>5, LeftWhen DEF Left, LeftMutexNotQueued
<1> HIDE DEF q
<1>9. CASE q \notin Mutexes \cup Conds
  <2>1. \A o \in Mutexes \cup Conds : waitq'[o] = waitq[o]
    BY <1>0, <1>1, <1>9, ObjKinds DEF PlaceTypes
  <2>2. SameWait(t)
    BY <1>7, <1>8, <1>9 DEF SameWait
  <2>3. \A u \in Threads : SameWait(u)
    BY <1>4, <2>2, OthersWait
  <2> QED BY <1>1, <1>6, <2>1, <2>3, StutterFrame DEF Seen
<1>10. ASSUME NEW c \in Conds, c = q PROVE Waits' /\ Seen
  <2>1. c = carg[t] /\ Left(t, c)
    BY <1>0, <1>8, <1>10 DEF Waits, SwitchWaits, q
  <2>2. \A u \in Threads \ {t} : ~Left(u, c)
    BY <1>10, <2>1, LeftHolds, LeftIsUnique
  <2>3. \A u \in Threads : ~Left(u, c)'
    BY <1>4, <1>8, <2>2, OthersWait DEF SameWait
  <2>4. waitq'[c] = Append(waitq[c], t) /\ \A o \in (Mutexes \cup Conds) \ {c} : waitq'[o] = waitq[o]
    BY <1>0, <1>1, <1>10, ObjKinds DEF PlaceTypes
  <2>5. Sleepers(c)' = Sleepers(c)
    BY <2>1, <2>2, <2>3, <2>4, OneSleeperLeft, NoSleeperLeft
  <2>6. ASSUME NEW d \in Conds \ {c} PROVE Sleepers(d)' = Sleepers(d)
    <3>1. \A u \in Threads : Left(u, d)' <=> Left(u, d)
      BY <1>4, <1>8, <1>10, OthersWait DEF SameWait
    <3> QED BY <2>4, <3>1, SleepersSame
  <2>7. \A u \in Threads : PendingWakeup(u)' = PendingWakeup(u)
    BY <1>4, <1>7, OthersWait DEF SameWait
  <2>8. \A d \in Conds : Sleepers(d)' = Sleepers(d)
    BY <2>5, <2>6
  <2>9. [m \in Mutexes |-> waitq[m]]' = [m \in Mutexes |-> waitq[m]]
    BY <2>4, ObjKinds
  <2>10. Stutter
    BY <1>1, <2>7, <2>8, <2>9 DEF Stutter, Abstract!monVars
  <2> QED BY <1>6, <2>10 DEF Seen
<1>11. ASSUME NEW m \in Mutexes, m = q PROVE Waits' /\ Seen
  <2>1. m_owner[m] # NoThread
    BY <1>0, <1>11 DEF Locks, SleeperOwned, q
  <2>2. \A c \in Conds : ~Left(t, c)
    BY <1>8, <1>11, ObjKinds
  <2>3. waitq' = [waitq EXCEPT ![m] = Append(@, t)] /\ m \in Objs /\ m \notin Conds
    BY <1>0, <1>1, <1>11, ObjKinds
  <2>4. ASSUME NEW c \in Conds PROVE Sleepers(c)' = Sleepers(c)
    <3>1. \A u \in Threads : Left(u, c)' <=> Left(u, c)
      BY <1>4, <1>8, <2>2, OthersWait DEF SameWait
    <3> QED BY <1>0, <2>3, <3>1, SleepersSame, ObjKinds DEF PlaceTypes
  <2>5. \A u \in Threads : PendingWakeup(u)' = PendingWakeup(u)
    BY <1>4, <1>7, OthersWait DEF SameWait
  <2>6. [n \in Mutexes |-> waitq[n]]' = [[n \in Mutexes |-> waitq[n]] EXCEPT ![m] = Append(@, t)]
    BY <1>0, <2>3, ObjKinds DEF PlaceTypes
  <2>7. Abstract!Acquire(t, m)
    BY <1>1, <2>1, <2>2, <2>4, <2>5, <2>6, NotAsleepWhenRunning DEF Abstract!Acquire
  <2> QED BY <1>6, <2>7 DEF Seen, Abstract!MonitorNext
<1> QED BY <1>9, <1>10, <1>11

LEMMA SchedMonitor ==
    ASSUME MonitorInv, Disciplined, NEW l \in LWPs, NEW t \in Threads, UNCHANGED mtxVars,
           LibraryStep(l, t) \/ ClientStep(l, t) \/ ClockInterrupt(l, t)
    PROVE  Waits' /\ Seen
<1>0. PlaceInv /\ FreshStays
  BY MonitorTypes, StatesAfter
<1>1. CASE SwitchAborts(l, t) \/ (\E prio \in Prios : StartOnRunq(l, t, prio) /\ ~Continue(t, <<>>))
  <2>1. UNCHANGED <<stack, swarg, marg, carg, crit, m_owner, waitq>>
    BY <1>1 DEF SwitchAborts, StartOnRunq, mtxVars, argVars, waitVars
  <2>2. Waits'
    BY <1>0, <2>1, MonitorTypes DEF Waits, WaiterLeft, SwitchWaits, FreshThreads, FreshStays, Fresh, AtHead
  <2>3. \A u \in Threads : SameWait(u)
    BY <2>1 DEF SameWait, Left, LeftMutexNotQueued, PendingWakeup
  <2> QED BY <2>1, <2>2, <2>3, StutterFrame DEF Seen
<1>2. CASE \E prio \in Prios : StartOnRunq(l, t, prio)
  BY <1>0, <1>1, <1>2, PopSchedMonitor DEF Seen
<1>3. CASE Return(l, t) \/ WakeUnlock(l, t) \/ AllocStackFails(l, t)
  BY <1>0, <1>3, PopSchedMonitor DEF Seen
<1>4. CASE Wake(l, t)
  <2>1. Continue(t, <<>>) \/ Continue(t, <<"wake_unlock">>)
    BY <1>4 DEF Wake
  <2> QED BY <1>0, <1>4, <2>1, PopSchedMonitor, GoSchedMonitor DEF Seen
<1>5. CASE SetprioLock(l, t)
  <2>1. Continue(t, <<>>) \/ Continue(t, YieldFrames)
    BY <1>5 DEF SetprioLock
  <2> QED BY <1>0, <1>5, <2>1, PopSchedMonitor, GoSchedMonitor DEF Seen
<1>6. CASE SetprioWrite(l, t) \/ AllocClaim(l, t) \/ ClientStep(l, t) \/ ClockInterrupt(l, t)
  BY <1>0, <1>6, GoSchedMonitor DEF Seen
<1>7. CASE CreateInit(l, t) \/ YieldLock(l, t) \/ Switch(l, t)
  BY <1>0, <1>7, CreateInitMonitor, YieldLockMonitor, SwitchMonitor DEF Seen
<1> QED BY <1>1, <1>2, <1>3, <1>4, <1>5, <1>6, <1>7 DEF LibraryStep

LEMMA LwpMonitor ==
    ASSUME MonitorInv, NEW l \in LWPs, LwpStep(l), UNCHANGED mtxVars
    PROVE  Waits' /\ Seen
<1>1. UNCHANGED <<stack, swarg, waitq, m_owner, marg, carg, crit>>
  BY DEF LwpStep, SpuriousWakeup, LwpStart, Unpark, mtxVars, waitVars, argVars
<1>2. FreshStays
  <2>1. UNCHANGED ut_state \/ \E rq, sz, lw : Dispatch(l, rq, sz, ut_state, lw)
    BY DEF LwpStep, SpuriousWakeup, LwpStart, Unpark, thrVars
  <2>2. ut_state \in [Threads -> UtStates]
    BY MonitorTypes DEF PlaceTypes
  <2>3. CASE \E rq, sz, lw : Dispatch(l, rq, sz, ut_state, lw)
    BY <2>2, <2>3, DispatchFresh
  <2> QED BY <2>1, <2>3 DEF FreshStays
<1>3. Waits'
  BY <1>1, <1>2, MonitorTypes DEF Waits, WaiterLeft, SwitchWaits, FreshThreads, FreshStays, Fresh, AtHead
<1>4. \A u \in Threads : SameWait(u)
  BY <1>1 DEF SameWait, Left, LeftMutexNotQueued, PendingWakeup
<1> QED BY <1>1, <1>3, <1>4, StutterFrame DEF Seen

-----------------------------------------------------------------------------
(* Entry points, and uthread_mtx.c.                                        *)

LEMMA WakeupFrame ==
    ASSUME MonitorInv, NEW t \in Threads, Others(t), NEW w, PendingWakeup(t)' = w
    PROVE  [u \in Threads |-> PendingWakeup(u)]' = [[u \in Threads |-> PendingWakeup(u)] EXCEPT ![t] = w]
<1>1. \A u \in Threads \ {t} : PendingWakeup(u)' = PendingWakeup(u)
  BY OthersWait DEF SameWait
<1> QED BY <1>1

\* A step between waits that leaves the pending wake-ups as they are.
LEMMA WakeupsKept ==
    ASSUME MonitorInv, NEW t \in Threads, Others(t), SameFrames(t), carg'[t] = carg[t]
    PROVE  /\ PendingWakeup(t)' = PendingWakeup(t)
           /\ [u \in Threads |-> PendingWakeup(u)]' = [u \in Threads |-> PendingWakeup(u)]
<1>1. PendingWakeup(t)' = PendingWakeup(t)
  BY DEF PendingWakeup, SameFrames, WaitLabels
<1>2. \A u \in Threads : PendingWakeup(u)' = PendingWakeup(u)
  BY <1>1, OthersWait DEF SameWait
<1> QED BY <1>1, <1>2

LEMMA EntryMonitor ==
    ASSUME MonitorInv, NEW l \in LWPs, NEW t \in Threads, SyncClientStep(l, t)
    PROVE  Waits' /\ Seen
<1>0. CallTypes /\ PlaceTypes /\ PlaceInv /\ NoObj \notin Conds
  BY MonitorTypes, ObjKinds
<1>1. PICK f \in {"mtx_lock", "mtx_trylock", "mtx_unlock", "cond_wait", "cond_signal", "cond_broadcast"} :
         /\ Enter(t, f) /\ InClient(l, t) /\ EntryUnchanged
         /\ \A u \in Threads \ {t} : marg'[u] = marg[u] /\ carg'[u] = carg[u]
  BY <1>0, EntryFrames
<1>2. /\ Running(l, t) /\ stack[t] = <<>> /\ UNCHANGED <<waitq, swarg, crit, m_owner>>
  BY <1>1 DEF InClient, EntryUnchanged, waitVars, argVars
<1>3. stack'[t] = <<f>> /\ \A u \in Threads \ {t} : stack'[u] = stack[u]
  <2>1. stack' = [stack EXCEPT ![t] = <<f>> \o @] /\ <<f>> \o <<>> = <<f>>
    BY <1>1, ConcatLiterals DEF Enter, Push
  <2> QED BY <1>0, <1>2, <2>1 DEF PlaceTypes
<1>4. Others(t) /\ FreshStays
  BY <1>0, <1>1, <1>2, <1>3, StatesAfter DEF Others, SameCalls
<1>5. ~CondPending(t) /\ ~AtHead(t, {"switch"})
  BY <1>2 DEF CondPending, Pending, AtHead
<1>6. \A x : (Contains(stack[t], x) <=> FALSE) /\ (Contains(stack[t], x)' <=> x = f)
  <2>1. ASSUME NEW x PROVE ~Contains(<<>>, x) /\ (Contains(<<f>>, x) <=> x = f)
    BY ContainsLiterals
  <2> QED BY <1>2, <1>3, <2>1
<1>7. swarg'[t].queue \notin Conds
  BY <1>0, <1>2, <1>5, MonitorTypes, NoArguments
<1>8. ~Contains(stack[t], "cond_sleep")'
  BY <1>6
<1>9. /\ Waits' /\ \A c \in Conds : ~Left(t, c) /\ ~Left(t, c)'
      /\ ~Abstract!Asleep(t) /\ \A c \in Conds : Sleepers(c)' = Sleepers(c)
  BY <1>2, <1>4, <1>5, <1>7, <1>8, NotWaiting
<1>10. PendingWakeup(t) = Abstract!NoWakeup
  BY <1>6 DEF PendingWakeup, Abstract!NoWakeup
<1>11. CASE f \notin {"cond_signal", "cond_broadcast"}
  <2>1. PendingWakeup(t)' = PendingWakeup(t)
    BY <1>6, <1>10, <1>11 DEF PendingWakeup, Abstract!NoWakeup
  <2>2. \A u \in Threads : SameWait(u)
    BY <1>4, <1>9, <2>1, OthersWait DEF SameWait
  <2> QED BY <1>2, <1>9, <2>2, StutterFrame DEF Seen
<1>12. CASE f \in {"cond_signal", "cond_broadcast"}
  <2>1. PICK c \in Conds : carg' = [carg EXCEPT ![t] = c]
    <3>1. ASSUME NEW m \in Mutexes
          PROVE  /\ UthreadMtxLock(l, t, m) => Enter(t, "mtx_lock")
                 /\ UthreadMtxTrylock(l, t, m) => Enter(t, "mtx_trylock")
                 /\ UthreadMtxUnlock(l, t, m) => Enter(t, "mtx_unlock")
      BY DEF UthreadMtxLock, UthreadMtxTrylock, UthreadMtxUnlock
    <3>2. \A g : Enter(t, g) => g = f
      <4>1. ASSUME NEW g, Enter(t, g) PROVE g = f
        <5>1. stack' = [stack EXCEPT ![t] = <<g>> \o @] /\ <<g>> \o <<>> = <<g>>
          BY <4>1, ConcatLiterals DEF Enter, Push
        <5>2. stack'[t] = <<g>>
          BY <1>0, <1>2, <5>1 DEF PlaceTypes
        <5> QED BY <1>3, <5>2
      <4> QED BY <4>1
    <3>3. ASSUME NEW c \in Conds
          PROVE  /\ \A m \in Mutexes : UthreadCondWait(l, t, c, m) => carg' = [carg EXCEPT ![t] = c]
                 /\ UthreadCondSignal(l, t, c) \/ UthreadCondBroadcast(l, t, c)
                       => carg' = [carg EXCEPT ![t] = c]
      BY DEF UthreadCondWait, UthreadCondSignal, UthreadCondBroadcast
    <3>4. \A m \in Mutexes : ~UthreadMtxLock(l, t, m) /\ ~UthreadMtxTrylock(l, t, m) /\ ~UthreadMtxUnlock(l, t, m)
      BY <1>12, <3>1, <3>2
    <3> QED BY <3>3, <3>4 DEF SyncClientStep
  <2> DEFINE w == [cond |-> c, all |-> f = "cond_broadcast"]
  <2>2. PendingWakeup(t)' = w
    <3>1. carg'[t] = c
      BY <1>0, <2>1 DEF CallTypes
    <3>2. CASE f = "cond_signal"
      BY <1>6, <3>1, <3>2 DEF PendingWakeup
    <3>3. CASE f = "cond_broadcast"
      BY <1>6, <3>1, <3>3 DEF PendingWakeup
    <3> QED BY <1>12, <3>2, <3>3
  <2>3. \E all \in BOOLEAN : w = [cond |-> c, all |-> all]
    OBVIOUS
  <2> HIDE DEF w
  <2>4. [u \in Threads |-> PendingWakeup(u)]' = [[u \in Threads |-> PendingWakeup(u)] EXCEPT ![t] = w]
    BY <1>4, <2>2, WakeupFrame
  <2>5. Abstract!Request(t, c)
    BY <1>2, <1>9, <1>10, <2>3, <2>4 DEF Abstract!Request
  <2> QED BY <1>9, <2>5 DEF Seen, Abstract!MonitorNext
<1> QED BY <1>11, <1>12

\* A step of uthread_mtx_lock or uthread_mtx_trylock takes the mutex, or is
\* seen only when its thread is queued.
LEMMA TakeMonitor ==
    ASSUME MonitorInv, NEW l \in LWPs, NEW t \in Threads, FreshStays,
           MtxLock(l, t) \/ MtxLocked(l, t) \/ MtxTrylock(l, t)
    PROVE  Waits' /\ Seen
<1>0. TypeInv /\ PlaceTypes /\ CallTypes /\ Locks /\ NoObj \notin Conds
  BY MonitorTypes, ObjKinds
<1>1. /\ Running(l, t) /\ stack[t] # <<>> /\ Head(stack[t]) \in {"mtx_lock", "mtx_locked", "mtx_trylock"}
      /\ UNCHANGED <<waitq, carg>>
  BY DEF MtxLock, MtxLocked, MtxTrylock, At, MtxSleep, waitVars
<1>2. PICK m \in Mutexes : m = marg[t]
  BY <1>0, <1>1 DEF TypeInv, ArgumentsOK, ArgumentsOf, NeedsMutex, Pending, CallTypes
<1>3. ~CondPending(t) /\ ~AtHead(t, {"switch"}) /\ ~Contains(stack[t], "cond_sleep")
  <2>1. ~CondPending(t)
    BY <1>0, <1>1, CondRows
  <2> QED BY <1>0, <1>1, <2>1, WaitFrames DEF AtHead
<1>4. /\ \A u \in Threads \ {t} : marg'[u] = marg[u] /\ crit'[u] = crit[u] /\ swarg'[u] = swarg[u]
      /\ swarg'[t].queue \notin Conds
  <2>1. /\ UNCHANGED marg \/ \E n : marg' = [marg EXCEPT ![t] = n]
        /\ UNCHANGED crit \/ \E C : crit' = [crit EXCEPT ![t] = C]
    <3>1. UNCHANGED crit \/ crit' = [crit EXCEPT ![t] = @ \cup {m}]
      BY <1>2 DEF MtxLock, MtxLocked, MtxTrylock
    <3> QED BY <3>1 DEF MtxLock, MtxLocked, MtxTrylock
  <2>2. UNCHANGED swarg \/ swarg' = [swarg EXCEPT ![t] = [queue |-> m, saveonrq |-> FALSE, pmut |-> m]]
    BY <1>2 DEF MtxLock, MtxLocked, MtxTrylock, MtxSleep, argVars
  <2>3. \A u \in Threads \ {t} : marg'[u] = marg[u] /\ crit'[u] = crit[u]
    BY <1>0, <2>1 DEF CallTypes
  <2>4. (\A u \in Threads \ {t} : swarg'[u] = swarg[u]) /\ (swarg'[t] = swarg[t] \/ swarg'[t].queue = m)
    BY <1>0, <2>2 DEF PlaceTypes
  <2>5. swarg[t].queue \notin Conds /\ m \notin Conds
    BY <1>0, <1>3, MonitorTypes, NoArguments, ObjKinds
  <2> QED BY <2>3, <2>4, <2>5
<1>5. SameFrames(t) /\ \A u \in Threads \ {t} : stack'[u] = stack[u]
  <2>1. Head(stack[t]) \notin WaitLabels
    BY <1>1 DEF WaitLabels
  <2>2. Continue(t, <<>>) \/ Continue(t, <<"switch", "mtx_locked">>)
    <3>1. SleepFrames(t) = <<"switch", "mtx_locked">>
      BY <1>0 DEF SleepFrames, TypeInv, ThreadsExist
    <3> QED BY <3>1 DEF MtxLock, MtxLocked, MtxTrylock
  <2>3. "switch" \in AllLabels \ WaitLabels /\ "mtx_locked" \in AllLabels \ WaitLabels
    BY LabelNames DEF WaitLabels
  <2>4. CASE Continue(t, <<>>)
    BY <1>0, <1>1, <2>1, <2>4, PopFrames
  <2>5. CASE Continue(t, <<"switch", "mtx_locked">>)
    BY ONLY <1>0, <1>1, <2>1, <2>3, <2>5, GoFrames, t \in Threads
  <2> QED BY <2>2, <2>4, <2>5
<1>6. Others(t)
  BY <1>1, <1>4, <1>5 DEF Others, SameCalls
<1>7. ~Contains(stack[t], "cond_sleep")'
  BY <1>3, <1>5 DEF SameFrames, WaitLabels
<1>8. /\ Waits' /\ \A c \in Conds : ~Left(t, c) /\ ~Left(t, c)'
      /\ ~Abstract!Asleep(t) /\ \A c \in Conds : Sleepers(c)' = Sleepers(c)
  BY <1>1, <1>3, <1>4, <1>6, <1>7, NotWaiting
<1>9. /\ PendingWakeup(t)' = PendingWakeup(t)
      /\ [u \in Threads |-> PendingWakeup(u)]' = [u \in Threads |-> PendingWakeup(u)]
  BY <1>1, <1>5, <1>6, WakeupsKept
<1>10. CASE UNCHANGED m_owner
  <2>1. \A u \in Threads : SameWait(u)
    BY <1>6, <1>8, <1>9, OthersWait DEF SameWait
  <2> QED BY <1>1, <1>8, <1>10, <2>1, StutterFrame DEF Seen
<1>11. CASE m_owner[m] = NoThread /\ m_owner' = [m_owner EXCEPT ![m] = t]
  <2>1. waitq[m] = <<>>
    BY <1>0, <1>11 DEF Locks, NoStrandedWaiter
  <2>2. Abstract!Acquire(t, m)
    BY <1>1, <1>8, <1>9, <1>11, <2>1 DEF Abstract!Acquire
  <2> QED BY <1>8, <2>2 DEF Seen, Abstract!MonitorNext
<1>12. UNCHANGED m_owner \/ (m_owner[m] = NoThread /\ m_owner' = [m_owner EXCEPT ![m] = t])
  BY <1>2 DEF MtxLock, MtxLocked, MtxTrylock
<1> QED BY <1>10, <1>11, <1>12

\* uthread_mtx_unlock outside a wait.
LEMMA ReleaseMonitor ==
    ASSUME MonitorInv, NEW l \in LWPs, NEW t \in Threads, FreshStays, MtxUnlock(l, t), ~CondPending(t)
    PROVE  Waits' /\ Seen
<1>0. TypeInv /\ PlaceTypes /\ CallTypes /\ OwnerInv /\ NoObj \notin Conds
  BY MonitorTypes, ObjKinds
<1>1. /\ Running(l, t) /\ stack[t] # <<>> /\ Head(stack[t]) = "mtx_unlock"
      /\ UNCHANGED <<carg, swarg>>
  BY DEF MtxUnlock, At
<1>2. PICK m \in Mutexes : m = marg[t]
  BY <1>0, <1>1 DEF TypeInv, ArgumentsOK, ArgumentsOf, NeedsMutex, Pending, CallTypes
<1>3. ~AtHead(t, {"switch"}) /\ ~Contains(stack[t], "cond_sleep") /\ m_owner[m] = t
  BY <1>0, <1>1, <1>2, WaitFrames DEF AtHead, OwnerInv, UnlockerHolds, CritOwns
<1>4. \A u \in Threads \ {t} : marg'[u] = marg[u] /\ crit'[u] = crit[u]
  <2>1. crit' = [crit EXCEPT ![t] = @ \ {m}] /\ \E n : marg' = [marg EXCEPT ![t] = n]
    BY <1>2 DEF MtxUnlock
  <2> QED BY <1>0, <2>1 DEF CallTypes
<1>5. SameFrames(t) /\ \A u \in Threads \ {t} : stack'[u] = stack[u]
  <2>1. Head(stack[t]) \notin WaitLabels
    BY <1>1 DEF WaitLabels
  <2>2. Continue(t, <<>>) \/ Continue(t, <<"wake", "nopreempt_off">>)
    BY DEF MtxUnlock, PassOn
  <2>3. "wake" \in AllLabels \ WaitLabels /\ "nopreempt_off" \in AllLabels \ WaitLabels
    BY LabelNames DEF WaitLabels
  <2>4. CASE Continue(t, <<>>)
    BY <1>0, <1>1, <2>1, <2>4, PopFrames
  <2>5. CASE Continue(t, <<"wake", "nopreempt_off">>)
    BY ONLY <1>0, <1>1, <2>1, <2>3, <2>5, GoFrames, t \in Threads
  <2> QED BY <2>2, <2>4, <2>5
<1>6. Others(t)
  BY <1>1, <1>4, <1>5 DEF Others, SameCalls
<1>7. ~Contains(stack[t], "cond_sleep")' /\ swarg'[t].queue \notin Conds
  BY <1>0, <1>1, <1>3, <1>5, MonitorTypes, NoArguments DEF SameFrames, WaitLabels
<1>8. /\ Waits' /\ ~Abstract!Asleep(t) /\ \A c \in Conds : waitq'[c] = waitq[c] => Sleepers(c)' = Sleepers(c)
  BY <1>1, <1>3, <1>6, <1>7, NotWaiting
<1>9. /\ PendingWakeup(t)' = PendingWakeup(t)
      /\ [u \in Threads |-> PendingWakeup(u)]' = [u \in Threads |-> PendingWakeup(u)]
  BY <1>1, <1>5, <1>6, WakeupsKept
<1>10. \/ waitq[m] = <<>> /\ UNCHANGED waitq /\ m_owner' = [m_owner EXCEPT ![m] = NoThread]
       \/ /\ waitq[m] # <<>> /\ waitq' = [waitq EXCEPT ![m] = Tail(@)]
          /\ m_owner' = [m_owner EXCEPT ![m] = Head(waitq[m])]
  BY <1>2 DEF MtxUnlock, PassOn
<1>11. /\ \A c \in Conds : waitq'[c] = waitq[c]
       /\ waitq[m] # <<>> => [n \in Mutexes |-> waitq[n]]' = [[n \in Mutexes |-> waitq[n]] EXCEPT ![m] = Tail(@)]
       /\ waitq[m] = <<>> => [n \in Mutexes |-> waitq[n]]' = [n \in Mutexes |-> waitq[n]]
  BY <1>0, <1>10, ObjKinds DEF PlaceTypes
<1>12. [c \in Conds |-> Sleepers(c)]' = [c \in Conds |-> Sleepers(c)]
  BY <1>8, <1>11
<1>13. Abstract!PassOn(t, m)
  BY <1>3, <1>8, <1>10, <1>11 DEF Abstract!PassOn
<1> QED BY <1>8, <1>9, <1>12, <1>13 DEF Seen, Abstract!MonitorNext, Abstract!Release

\* uthread_mtx_unlock called by uthread_cond_wait: from here on its caller
\* sleeps, although it is not on uc_waiters yet.
LEMMA WaitMonitor ==
    ASSUME MonitorInv, NEW l \in LWPs, NEW t \in Threads, FreshStays, MtxUnlock(l, t), CondPending(t)
    PROVE  Waits' /\ Seen
<1>0. TypeInv /\ PlaceTypes /\ CallTypes /\ OwnerInv /\ Locks /\ NoObj \notin Conds
  BY MonitorTypes, ObjKinds
<1>1. /\ Running(l, t) /\ stack[t] # <<>> /\ Head(stack[t]) = "mtx_unlock"
      /\ UNCHANGED <<carg, swarg>>
  BY DEF MtxUnlock, At
<1>2. PICK m \in Mutexes : m = marg[t]
  BY <1>0, <1>1 DEF TypeInv, ArgumentsOK, ArgumentsOf, NeedsMutex, Pending, CallTypes
<1>3. PICK c \in Conds : c = carg[t]
  BY <1>0 DEF TypeInv, ArgumentsOK, ArgumentsOf, NeedsCond, CondPending, Pending, CallTypes
<1>4. /\ ~AtHead(t, {"switch"}) /\ m_owner[m] = t /\ m \in crit[t]
      /\ swarg[t].queue = NoObj
  <2>1. ~AtHead(t, {"switch"})
    BY <1>1 DEF AtHead
  <2>2. m \in crit[t]
    BY <1>0, <1>1, <1>2 DEF AtHead, OwnerInv, UnlockerHolds
  <2> QED BY <1>0, <2>1, <2>2, MonitorTypes, NoArguments DEF OwnerInv, CritOwns
<1>5. Contains(stack[t], "cond_sleep")
  <2>1. Tail(stack[t]) = <<"cond_sleep">> /\ stack[t] \in Seq(AllLabels)
    BY <1>0, <1>1, CondRows DEF PlaceTypes
  <2>2. Contains(<<"cond_sleep">>, "cond_sleep")
    BY ContainsLiterals
  <2> QED BY <1>1, <2>1, <2>2, ContainsParts
<1>6. /\ \A u \in Threads \ {t} : marg'[u] = marg[u] /\ crit'[u] = crit[u]
      /\ marg'[t] = m /\ m \notin crit'[t]
  <2>1. crit' = [crit EXCEPT ![t] = @ \ {m}]
    BY <1>2 DEF MtxUnlock
  <2>2. marg' = [marg EXCEPT ![t] = m]
    BY <1>0, <1>2, <1>3 DEF MtxUnlock
  <2>3. \A u \in Threads \ {t} : marg'[u] = marg[u] /\ crit'[u] = crit[u]
    BY <1>0, <2>1, <2>2 DEF CallTypes
  <2> QED BY <1>0, <2>1, <2>2, <2>3 DEF CallTypes
<1>7. SameFrames(t) /\ \A u \in Threads \ {t} : stack'[u] = stack[u]
  <2>1. Head(stack[t]) \notin WaitLabels
    BY <1>1 DEF WaitLabels
  <2>2. Continue(t, <<>>) \/ Continue(t, <<"wake", "nopreempt_off">>)
    BY DEF MtxUnlock, PassOn
  <2>3. "wake" \in AllLabels \ WaitLabels /\ "nopreempt_off" \in AllLabels \ WaitLabels
    BY LabelNames DEF WaitLabels
  <2>4. CASE Continue(t, <<>>)
    BY <1>0, <1>1, <2>1, <2>4, PopFrames
  <2>5. CASE Continue(t, <<"wake", "nopreempt_off">>)
    BY ONLY <1>0, <1>1, <2>1, <2>3, <2>5, GoFrames, t \in Threads
  <2> QED BY <2>2, <2>4, <2>5
<1>8. Others(t)
  BY <1>1, <1>6, <1>7 DEF Others, SameCalls
<1>9. Waits'
  BY <1>0, <1>1, <1>4, <1>6, <1>8, WaitsFrame
<1>10. Contains(stack[t], "cond_sleep")'
  BY <1>5, <1>7 DEF SameFrames, WaitLabels
<1>11. /\ \A d \in Conds : ~Left(t, d)
       /\ Left(t, c)' /\ \A d \in Conds \ {c} : ~Left(t, d)'
  <2>1. \A d \in Conds : ~Left(t, d)
    BY <1>2, <1>4 DEF Left, LeftMutexNotQueued
  <2>2. Left(t, c)'
    BY <1>1, <1>3, <1>6, <1>10 DEF Left, LeftMutexNotQueued
  <2>3. \A d \in Conds \ {c} : ~Left(t, d)'
    BY <1>1, <1>3 DEF Left, LeftMutexNotQueued
  <2> QED BY <2>1, <2>2, <2>3
<1>12. ~Abstract!Asleep(t)
  BY <1>1, <1>11, NotAsleepWhenRunning
<1>13. [u \in Threads |-> PendingWakeup(u)]' = [u \in Threads |-> PendingWakeup(u)]
  BY <1>1, <1>7, <1>8, WakeupsKept
<1>14. \/ waitq[m] = <<>> /\ UNCHANGED waitq /\ m_owner' = [m_owner EXCEPT ![m] = NoThread]
       \/ /\ waitq[m] # <<>> /\ waitq' = [waitq EXCEPT ![m] = Tail(@)]
          /\ m_owner' = [m_owner EXCEPT ![m] = Head(waitq[m])]
  BY <1>2 DEF MtxUnlock, PassOn
<1>15. /\ \A d \in Conds : waitq'[d] = waitq[d]
       /\ waitq[m] # <<>> => [n \in Mutexes |-> waitq[n]]' = [[n \in Mutexes |-> waitq[n]] EXCEPT ![m] = Tail(@)]
       /\ waitq[m] = <<>> => [n \in Mutexes |-> waitq[n]]' = [n \in Mutexes |-> waitq[n]]
  BY <1>0, <1>14, ObjKinds DEF PlaceTypes
<1>16. \A u \in Threads \ {t} : ~Left(u, c) /\ ~Left(u, c)'
  <2>1. Holds(t, c)
    BY <1>0, <1>3 DEF Locks, CondHolds
  <2> QED BY <1>8, <2>1, LeftIsUnique, OthersWait DEF SameWait
<1>17. Sleepers(c) = waitq[c] /\ Sleepers(c)' = Append(waitq[c], t)
  <2>1. Sleepers(c) = waitq[c]
    BY <1>11, <1>16, NoSleeperLeft
  <2>2. Sleepers(c)' = Append(waitq'[c], t)
    BY <1>11, <1>16, OneSleeperLeft
  <2> QED BY <1>15, <2>1, <2>2
<1>18. ASSUME NEW d \in Conds \ {c} PROVE Sleepers(d)' = Sleepers(d)
  <2>1. \A u \in Threads : Left(u, d)' <=> Left(u, d)
    BY <1>8, <1>11, OthersWait DEF SameWait
  <2> QED BY <1>15, <2>1, SleepersSame
<1>19. [d \in Conds |-> Sleepers(d)]' = [[d \in Conds |-> Sleepers(d)] EXCEPT ![c] = Append(@, t)]
  BY <1>17, <1>18
<1>20. Abstract!PassOn(t, m)
  BY <1>4, <1>12, <1>14, <1>15 DEF Abstract!PassOn
<1> QED BY <1>9, <1>13, <1>19, <1>20 DEF Seen, Abstract!MonitorNext, Abstract!Wait

-----------------------------------------------------------------------------
(* uthread_cond.c.                                                         *)

\* What the code of a condition variable finds when it starts.
LEMMA CondHeads ==
    ASSUME MonitorInv, NEW t \in Threads, stack[t] # <<>>,
           Head(stack[t]) \in {"cond_wait", "cond_sleep", "cond_relock", "cond_signal", "cond_broadcast"}
    PROVE  /\ \A x : Contains(stack[t], x) <=> x = Head(stack[t])
           /\ ~AtHead(t, {"switch", "mtx_unlock"}) /\ swarg[t].queue = NoObj /\ carg[t] \in Conds
           /\ \A fs : Continue(t, fs) => /\ stack'[t] = fs \o <<>>
                                         /\ \A u \in Threads \ {t} : stack'[u] = stack[u]
<1>0. TypeInv /\ PlaceTypes /\ CallTypes
  BY MonitorTypes
<1>1. Tail(stack[t]) = <<>> /\ stack[t] \in Seq(AllLabels)
  <2>1. Head(stack[t]) \in Entered \ {"nopreempt_off", "wake", "mtx_lock", "mtx_locked", "mtx_unlock"}
    BY DEF Entered
  <2> QED BY <1>0, <2>1, HeadRows DEF PlaceTypes
<1>2. \A x : Contains(stack[t], x) <=> x = Head(stack[t])
  <2>1. ASSUME NEW x PROVE Contains(stack[t], x) <=> Head(stack[t]) = x \/ Contains(Tail(stack[t]), x)
    BY <1>1, ContainsParts
  <2>2. \A x : ~Contains(<<>>, x)
    BY ContainsLiterals
  <2> QED BY <1>1, <2>1, <2>2
<1>3. ~AtHead(t, {"switch", "mtx_unlock"}) /\ ~AtHead(t, {"switch"})
  BY DEF AtHead
<1>4. swarg[t].queue = NoObj
  BY <1>3, MonitorTypes, NoArguments
<1>5. carg[t] \in Conds
  BY <1>0 DEF TypeInv, ArgumentsOK, ArgumentsOf, NeedsCond, Pending, CallTypes
<1>6. \A fs : Continue(t, fs) => stack'[t] = fs \o <<>> /\ \A u \in Threads \ {t} : stack'[u] = stack[u]
  BY <1>0, <1>1 DEF Continue, PlaceTypes
<1> QED BY <1>2, <1>3, <1>4, <1>5, <1>6

\* Before it releases its mutex, while it goes to sleep and when it locks its
\* mutex again, a caller of uthread_cond_wait is unseen.
LEMMA UnseenWait ==
    ASSUME MonitorInv, NEW l \in LWPs, NEW t \in Threads, FreshStays,
           CondWait(l, t) \/ CondSleep(l, t) \/ CondRelock(l, t)
    PROVE  Waits' /\ Seen
<1>0. TypeInv /\ PlaceTypes /\ CallTypes /\ Waits /\ OwnerInv /\ NoObj \notin Conds
  BY MonitorTypes, ObjKinds
<1>1. /\ Running(l, t) /\ stack[t] # <<>> /\ UNCHANGED <<m_owner, marg, crit, waitq>>
      /\ Head(stack[t]) \in {"cond_wait", "cond_sleep", "cond_relock"}
  BY DEF CondWait, CondSleep, CondRelock, At, mtxVars, waitVars
<1>2. /\ \A x : Contains(stack[t], x) <=> x = Head(stack[t])
      /\ ~AtHead(t, {"switch", "mtx_unlock"}) /\ swarg[t].queue = NoObj /\ carg[t] \in Conds
      /\ \A fs : Continue(t, fs) => /\ stack'[t] = fs \o <<>>
                                    /\ \A u \in Threads \ {t} : stack'[u] = stack[u]
  BY <1>1, CondHeads
<1>3. PICK c \in Conds : c = carg[t]
  BY <1>2
<1>4. PICK f \in {"mtx_unlock", "switch", "mtx_lock"}, g \in {"cond_sleep", "cond_relock", "nopreempt_off"} :
         /\ Continue(t, <<f, g>>)
         /\ g = "cond_sleep" => f = "mtx_unlock"
  BY DEF CondWait, CondSleep, CondRelock
<1>5. stack'[t] = <<f, g>> /\ \A u \in Threads \ {t} : stack'[u] = stack[u]
  <2>1. <<f, g>> \in Seq({f, g})
    OBVIOUS
  <2>2. <<f, g>> \o <<>> = <<f, g>>
    BY <2>1, ConcatEmptySeq
  <2> QED BY <1>2, <1>4, <2>2
<1>6. \A x : Contains(stack[t], x)' <=> x \in {f, g}
  <2>1. \A x : Contains(<<f, g>>, x) <=> x \in {f, g}
    BY ContainsLiterals
  <2> QED BY <1>5, <2>1
<1>7. Head(stack'[t]) = f /\ stack'[t] # <<>>
  BY <1>5
<1>8. /\ \A u \in Threads \ {t} : swarg'[u] = swarg[u] /\ carg'[u] = carg[u]
      /\ carg'[t] \in {c, NoObj}
      /\ swarg'[t].queue = NoObj \/ (swarg'[t].queue = c /\ carg'[t] = c /\ CondSleep(l, t))
  <2>1. CASE CondWait(l, t)
    BY <1>2, <1>3, <2>1 DEF CondWait, argVars, mtxVars
  <2>2. CASE CondSleep(l, t)
    <3>1. /\ swarg' = [swarg EXCEPT ![t] = [queue |-> c, saveonrq |-> FALSE, pmut |-> c]]
          /\ UNCHANGED carg
      BY <1>3, <2>2 DEF CondSleep, mtxVars
    <3> QED BY <1>0, <1>3, <2>2, <3>1 DEF PlaceTypes
  <2>3. CASE CondRelock(l, t)
    <3>1. carg' = [carg EXCEPT ![t] = NoObj] /\ UNCHANGED swarg
      BY <2>3 DEF CondRelock, argVars
    <3> QED BY <1>0, <1>2, <3>1 DEF CallTypes
  <2> QED BY <1>1, <2>1, <2>2, <2>3 DEF CondWait, CondSleep, CondRelock
<1>9. Others(t)
  BY <1>1, <1>5, <1>8 DEF Others, SameCalls
<1>10. CondSleep(l, t) => Contains(stack[t], "cond_sleep") /\ marg[t] \notin crit[t]
  <2>1. CondSleep(l, t) => Contains(stack[t], "cond_sleep")
    BY <1>2 DEF CondSleep, At
  <2>2. ~AtHead(t, {"mtx_unlock"})
    BY <1>2 DEF AtHead
  <2> QED BY <1>0, <2>1, <2>2 DEF Waits, WaiterLeft
<1>11. Waits'
  <2>1. Contains(stack[t], "cond_sleep")' => AtHead(t, {"mtx_unlock"})'
    BY <1>4, <1>6, <1>7 DEF AtHead
  <2>2. swarg'[t].queue \in Conds => marg'[t] \notin crit'[t] /\ swarg'[t].queue = carg'[t]
    BY <1>0, <1>1, <1>8, <1>10
  <2> QED BY <1>1, <1>9, <2>1, <2>2, WaitsFrame
<1>12. PendingWakeup(t)' = PendingWakeup(t)
  <2>1. ~Contains(stack[t], "cond_signal") /\ ~Contains(stack[t], "cond_broadcast")
    BY <1>1, <1>2
  <2>2. ~Contains(stack[t], "cond_signal")' /\ ~Contains(stack[t], "cond_broadcast")'
    BY <1>6
  <2> QED BY <2>1, <2>2 DEF PendingWakeup
<1>13. ASSUME NEW d \in Conds PROVE Left(t, d)' <=> Left(t, d)
  <2>1. CASE CondSleep(l, t)
    <3>1. Left(t, d) <=> d = c
      BY <1>2, <1>3, <1>10, <2>1 DEF Left, LeftMutexNotQueued
    <3>2. UNCHANGED carg /\ swarg'[t].queue = c
      <4>1. swarg' = [swarg EXCEPT ![t] = [queue |-> c, saveonrq |-> FALSE, pmut |-> c]]
        BY <1>3, <2>1 DEF CondSleep
      <4> QED BY <1>0, <2>1, <4>1 DEF CondSleep, mtxVars, PlaceTypes
    <3>3. Left(t, d)' <=> d = c
      BY <1>1, <1>3, <1>10, <2>1, <3>2 DEF Left, LeftMutexNotQueued
    <3> QED BY <3>1, <3>3
  <2>2. CASE CondWait(l, t)
    <3>1. marg[t] \in crit[t]
      BY <1>0, <2>2 DEF CondWait, At, OwnerInv, UnlockerHolds, AtHead
    <3> QED BY <1>1, <3>1 DEF Left, LeftMutexNotQueued
  <2>3. CASE CondRelock(l, t)
    <3>1. ~Left(t, d)
      <4>1. ~Contains(stack[t], "cond_sleep")
        BY <1>2, <2>3 DEF CondRelock, At
      <4> QED BY <1>0, <1>2, <4>1 DEF Left, LeftMutexNotQueued
    <3>2. ~Left(t, d)'
      <4>1. carg'[t] = NoObj
        BY <1>0, <2>3 DEF CondRelock, CallTypes
      <4> QED BY <1>0, <4>1 DEF Left, LeftMutexNotQueued
    <3> QED BY <3>1, <3>2
  <2> QED BY <2>1, <2>2, <2>3
<1>14. \A u \in Threads : SameWait(u)
  BY <1>9, <1>12, <1>13, OthersWait DEF SameWait
<1> QED BY <1>1, <1>11, <1>14, StutterFrame DEF Seen

\* A signal, or one turn of a broadcast, is performed where the code looks at
\* uc_waiters under pmut: nobody can be between a mutex and the queue then.
LEMMA WakeMonitor ==
    ASSUME MonitorInv, NEW l \in LWPs, NEW t \in Threads, FreshStays,
           CondSignal(l, t) \/ CondBroadcast(l, t)
    PROVE  Waits' /\ Seen
<1>0. TypeInv /\ PlaceTypes /\ CallTypes /\ Waits /\ NoObj \notin Conds
  BY MonitorTypes, ObjKinds
<1> DEFINE all == Head(stack[t]) = "cond_broadcast"
<1>1. /\ Running(l, t) /\ stack[t] # <<>> /\ UNCHANGED <<m_owner, marg, crit, swarg>>
      /\ Head(stack[t]) \in {"cond_signal", "cond_broadcast"}
  BY DEF CondSignal, CondBroadcast, At
<1>2. /\ \A x : Contains(stack[t], x) <=> x = Head(stack[t])
      /\ ~AtHead(t, {"switch", "mtx_unlock"}) /\ swarg[t].queue = NoObj /\ carg[t] \in Conds
      /\ \A fs : Continue(t, fs) => /\ stack'[t] = fs \o <<>>
                                    /\ \A u \in Threads \ {t} : stack'[u] = stack[u]
  BY <1>1, CondHeads
<1>3. PICK c \in Conds : c = carg[t]
  BY <1>2
<1>4. /\ pmut[c] = NoLwp
      /\ \/ /\ waitq[c] = <<>> /\ UNCHANGED waitq /\ Continue(t, <<>>)
            /\ carg' = [carg EXCEPT ![t] = NoObj]
         \/ /\ waitq[c] # <<>> /\ waitq' = [waitq EXCEPT ![c] = Tail(@)]
            /\ \/ all /\ Continue(t, <<"wake", "cond_broadcast">>) /\ UNCHANGED carg
               \/ ~all /\ Continue(t, <<"wake", "nopreempt_off">>) /\ carg' = [carg EXCEPT ![t] = NoObj]
  <2>1. CASE CondSignal(l, t)
    <3>1. ~all /\ WakeOldest(t, <<"wake", "nopreempt_off">>)
      BY <2>1 DEF CondSignal, At
    <3>2. <<"wake", "nopreempt_off">>[2] # "cond_broadcast"
      OBVIOUS
    <3> HIDE DEF all
    <3> QED BY <1>3, <3>1, <3>2 DEF WakeOldest
  <2>2. CASE CondBroadcast(l, t)
    <3>1. all /\ WakeOldest(t, <<"wake", "cond_broadcast">>)
      BY <2>2 DEF CondBroadcast, At
    <3>2. <<"wake", "cond_broadcast">>[2] = "cond_broadcast"
      OBVIOUS
    <3> HIDE DEF all
    <3> QED BY <1>3, <3>1, <3>2 DEF WakeOldest
  <2> QED BY <2>1, <2>2
<1>5. stack'[t] \in {<<>>, <<"wake", "cond_broadcast">>, <<"wake", "nopreempt_off">>}
  <2>1. /\ <<>> \o <<>> = <<>>
        /\ <<"wake", "cond_broadcast">> \o <<>> = <<"wake", "cond_broadcast">>
        /\ <<"wake", "nopreempt_off">> \o <<>> = <<"wake", "nopreempt_off">>
    <3>1. <<>> \in Seq(AllLabels) /\ <<"wake", "cond_broadcast">> \in Seq({"wake", "cond_broadcast"})
          /\ <<"wake", "nopreempt_off">> \in Seq({"wake", "nopreempt_off"})
      OBVIOUS
    <3> QED BY <3>1, ConcatEmptySeq
  <2> QED BY <1>2, <1>4, <2>1
<1>6. \A x : Contains(stack[t], x)' => x \in {"wake", "cond_broadcast", "nopreempt_off"}
  <2>1. \A x : /\ ~Contains(<<>>, x)
               /\ Contains(<<"wake", "cond_broadcast">>, x) => x \in {"wake", "cond_broadcast"}
               /\ Contains(<<"wake", "nopreempt_off">>, x) => x \in {"wake", "nopreempt_off"}
    BY ContainsLiterals
  <2> QED BY <1>5, <2>1
<1>7. /\ \A u \in Threads \ {t} : carg'[u] = carg[u] /\ stack'[u] = stack[u]
      /\ carg'[t] \in {c, NoObj}
  BY <1>0, <1>2, <1>3, <1>4 DEF CallTypes
<1>8. Others(t)
  BY <1>1, <1>7 DEF Others, SameCalls
<1>9. ~CondPending(t) /\ ~AtHead(t, {"switch"}) /\ ~Contains(stack[t], "cond_sleep")'
  BY <1>0, <1>1, <1>2, <1>6, CondRows DEF AtHead
<1>10. /\ Waits' /\ \A d \in Conds : ~Left(t, d) /\ ~Left(t, d)'
       /\ \A d \in Conds : waitq'[d] = waitq[d] => Sleepers(d)' = Sleepers(d)
  BY <1>0, <1>1, <1>2, <1>8, <1>9, NotWaiting
<1>11. Sleepers(c) = waitq[c] /\ Sleepers(c)' = waitq'[c]
  <2>1. \A u \in Threads : ~Left(u, c)
    BY <1>4, LeftIsUnique
  <2>2. \A u \in Threads : ~Left(u, c)'
    BY <1>8, <1>10, <2>1, OthersWait DEF SameWait
  <2> QED BY <2>1, <2>2, NoSleeperLeft
<1>12. [m \in Mutexes |-> waitq[m]]' = [m \in Mutexes |-> waitq[m]]
  <2>1. \A m \in Mutexes : waitq'[m] = waitq[m]
    BY <1>0, <1>4, ObjKinds DEF PlaceTypes
  <2> QED BY <2>1
<1>13. \A d \in Conds \ {c} : Sleepers(d)' = Sleepers(d)
  <2>1. \A d \in Conds \ {c} : waitq'[d] = waitq[d]
    BY <1>0, <1>4, ObjKinds DEF PlaceTypes
  <2> QED BY <1>10, <2>1
<1>14. PendingWakeup(t) = [cond |-> c, all |-> all]
  <2>1. CASE Head(stack[t]) = "cond_signal"
    BY <1>2, <1>3, <2>1 DEF PendingWakeup
  <2>2. CASE Head(stack[t]) = "cond_broadcast"
    BY <1>2, <1>3, <2>2 DEF PendingWakeup
  <2> QED BY <1>1, <2>1, <2>2
<1>15. PendingWakeup(t)' = IF waitq[c] # <<>> /\ all THEN [cond |-> c, all |-> TRUE] ELSE Abstract!NoWakeup
  <2>1. CASE waitq[c] # <<>> /\ all
    <3>1. stack'[t] = <<"wake", "cond_broadcast">> \o <<>> /\ UNCHANGED carg
      BY <1>2, <1>4, <2>1
    <3>2. stack'[t] = <<"wake", "cond_broadcast">>
      BY <1>5, <3>1
    <3>3. ~Contains(<<"wake", "cond_broadcast">>, "cond_signal")
      <4>1. Contains(<<"wake", "cond_broadcast">>, "cond_signal") <=> "cond_signal" \in {"wake", "cond_broadcast"}
        BY ContainsLiterals
      <4> QED BY <4>1
    <3>4. Contains(<<"wake", "cond_broadcast">>, "cond_broadcast")
      <4>1. Contains(<<"wake", "cond_broadcast">>, "cond_broadcast") <=> "cond_broadcast" \in {"wake", "cond_broadcast"}
        BY ContainsLiterals
      <4> QED BY <4>1
    <3> QED BY <1>3, <2>1, <3>1, <3>2, <3>3, <3>4 DEF PendingWakeup
  <2>2. CASE waitq[c] = <<>> \/ ~all
    <3>1. Continue(t, <<>>) \/ Continue(t, <<"wake", "nopreempt_off">>)
      BY <1>4, <2>2
    <3>2. stack'[t] = <<>> \/ stack'[t] = <<"wake", "nopreempt_off">>
      <4>1. <<"wake", "nopreempt_off">> \in Seq({"wake", "nopreempt_off"}) /\ <<>> \in Seq(AllLabels)
        OBVIOUS
      <4>2. <<"wake", "nopreempt_off">> \o <<>> = <<"wake", "nopreempt_off">> /\ <<>> \o <<>> = <<>>
        BY <4>1, ConcatEmptySeq
      <4> QED BY <1>2, <3>1, <4>2
    <3>3. ASSUME NEW x \in {"cond_signal", "cond_broadcast"}
          PROVE  ~Contains(<<>>, x) /\ ~Contains(<<"wake", "nopreempt_off">>, x)
      <4>1. ~Contains(<<>>, x) /\ (Contains(<<"wake", "nopreempt_off">>, x) <=> x \in {"wake", "nopreempt_off"})
        BY ContainsLiterals
      <4> QED BY <4>1
    <3>4. ~Contains(stack[t], "cond_signal")' /\ ~Contains(stack[t], "cond_broadcast")'
      BY <3>2, <3>3
    <3> HIDE DEF all
    <3> QED BY <2>2, <3>4 DEF PendingWakeup, Abstract!NoWakeup
  <2> QED BY <2>1, <2>2
<1> DEFINE w == [u \in Threads |-> PendingWakeup(u)]
           after == IF waitq[c] # <<>> /\ all THEN [cond |-> c, all |-> TRUE] ELSE Abstract!NoWakeup
<1>16. w' = [w EXCEPT ![t] = after] /\ w[t] = [cond |-> c, all |-> all]
  BY <1>8, <1>14, <1>15, WakeupFrame
<1>17. CASE waitq[c] # <<>>
  <2>1. after = IF w[t].all THEN w[t] ELSE Abstract!NoWakeup
    <3>1. after = IF all THEN [cond |-> c, all |-> all] ELSE Abstract!NoWakeup
      BY <1>17
    <3>2. w[t].all = all
      BY <1>16
    <3> HIDE DEF after, w
    <3> QED BY <1>16, <3>1, <3>2
  <2> HIDE DEF after, w
  <2>2. w' = [w EXCEPT ![t] = IF @.all THEN @ ELSE Abstract!NoWakeup]
    BY <1>16, <2>1
  <2>3. waitq'[c] = Tail(waitq[c])
    BY <1>0, <1>4, <1>17, ObjKinds DEF PlaceTypes
  <2>4. [d \in Conds |-> Sleepers(d)]' = [[d \in Conds |-> Sleepers(d)] EXCEPT ![c] = Tail(@)]
    BY <1>11, <1>13, <2>3
  <2>5. [d \in Conds |-> Sleepers(d)][c] # <<>>
    BY <1>11, <1>17
  <2>6. w[t].cond = c
    BY <1>16
  <2>7. Abstract!Perform(t)
    BY <1>0, <1>1, <1>12, <2>2, <2>4, <2>5, <2>6 DEF Abstract!Perform, w
  <2> QED BY <1>10, <2>7 DEF Seen, Abstract!MonitorNext
<1>18. CASE waitq[c] = <<>>
  <2>1. w' = [w EXCEPT ![t] = Abstract!NoWakeup]
    BY <1>16, <1>18
  <2>2. UNCHANGED waitq
    BY <1>4, <1>18
  <2>3. [d \in Conds |-> Sleepers(d)]' = [d \in Conds |-> Sleepers(d)]
    BY <1>11, <1>13, <2>2
  <2>4. [d \in Conds |-> Sleepers(d)][c] = <<>> /\ w[t].cond = c
    BY <1>11, <1>16, <1>18
  <2> HIDE DEF after
  <2>5. Abstract!Perform(t)
    BY <1>0, <1>1, <1>12, <2>1, <2>3, <2>4 DEF Abstract!Perform, w
  <2> QED BY <1>10, <2>5 DEF Seen, Abstract!MonitorNext
<1> QED BY <1>17, <1>18

-----------------------------------------------------------------------------
(* The invariant and the refinement.                                       *)

LEMMA MonitorInvInit == SyncInit => MonitorInv /\ Abstract!MonitorInit
<1> SUFFICES ASSUME SyncInit PROVE MonitorInv /\ Abstract!MonitorInit
  OBVIOUS
<1>1. HolderInv /\ NoObj \notin Conds
  BY HolderInvInit, ObjKinds
<1>2. /\ \A t \in Threads : /\ stack[t] \in {<<>>, <<"nopreempt_off">>} /\ swarg[t].queue = NoObj
                            /\ carg[t] = NoObj
      /\ m_owner = [m \in Mutexes |-> NoThread] /\ \A o \in Objs : waitq[o] = <<>>
  BY DEF SyncInit, SchedInit, MtxInit, NoSwitch
<1>3. \A t \in Threads, x \in WaitLabels : ~Contains(stack[t], x)
  <2>1. ASSUME NEW x \in WaitLabels PROVE ~Contains(<<>>, x) /\ ~Contains(<<"nopreempt_off">>, x)
    <3>1. ~Contains(<<>>, x) /\ (Contains(<<"nopreempt_off">>, x) <=> x = "nopreempt_off")
      BY ContainsLiterals
    <3> QED BY <3>1 DEF WaitLabels
  <2> QED BY <1>2, <2>1
<1>4. MonitorInv
  BY <1>1, <1>2, <1>3 DEF MonitorInv, WaiterLeft, SwitchWaits, FreshThreads, WaitLabels
<1>5. \A c \in Conds : Sleepers(c) = <<>>
  <2>1. \A c \in Conds, t \in Threads : ~Left(t, c)
    BY <1>1, <1>2 DEF Left, LeftMutexNotQueued
  <2> QED BY <1>2, <2>1, NoSleeperLeft, ObjKinds
<1>6. \A t \in Threads : PendingWakeup(t) = Abstract!NoWakeup
  BY <1>3 DEF PendingWakeup, Abstract!NoWakeup, WaitLabels
<1>7. [m \in Mutexes |-> waitq[m]] = [m \in Mutexes |-> <<>>]
  BY <1>2, ObjKinds
<1>8. Abstract!MonitorInit
  BY <1>2, <1>5, <1>6, <1>7 DEF Abstract!MonitorInit
<1> QED BY <1>4, <1>8

LEMMA MonitorStep ==
    ASSUME Disciplined, MonitorInv, [SyncNext]_syncVars
    PROVE  MonitorInv' /\ Seen
<1>0. HolderInv' /\ PlaceInv
  BY HolderInvNext, MonitorTypes
<1>1. CASE UNCHANGED syncVars
  <2>1. UNCHANGED <<stack, swarg, waitq, ut_state, m_owner, marg, carg, crit>>
    BY <1>1 DEF syncVars, schedVars, thrVars, waitVars, argVars, mtxVars
  <2>2. Waits'
    BY <2>1, MonitorTypes DEF Waits, WaiterLeft, SwitchWaits, FreshThreads, AtHead
  <2>3. \A u \in Threads : SameWait(u)
    BY <2>1 DEF SameWait, Left, LeftMutexNotQueued, PendingWakeup
  <2>4. Stutter
    BY <2>1, <2>3, StutterFrame
  <2> QED BY <1>0, <2>2, <2>4 DEF MonitorInv, Waits, Seen
<1>2. ASSUME NEW l \in LWPs, LwpStep(l), UNCHANGED mtxVars
      PROVE  Waits' /\ Seen
  BY <1>2, LwpMonitor
<1>3. ASSUME NEW l \in LWPs, NEW t \in Threads, UNCHANGED mtxVars,
             LibraryStep(l, t) \/ ClientStep(l, t) \/ ClockInterrupt(l, t)
      PROVE  Waits' /\ Seen
  BY <1>3, SchedMonitor
<1>4. ASSUME NEW l \in LWPs, NEW t \in Threads, SyncLibraryStep(l, t)
      PROVE  Waits' /\ Seen
  <2>1. FreshStays
    BY <1>0, <1>4, StatesAfter
  <2> QED BY <1>4, <2>1, TakeMonitor, ReleaseMonitor, WaitMonitor, UnseenWait, WakeMonitor DEF SyncLibraryStep
<1>5. ASSUME NEW l \in LWPs, NEW t \in Threads, SyncClientStep(l, t)
      PROVE  Waits' /\ Seen
  BY <1>5, EntryMonitor
<1>6. CASE SyncNext
  <2>1. Waits' /\ Seen
    BY <1>2, <1>3, <1>4, <1>5, <1>6 DEF SyncNext, SchedNext
  <2> QED BY <1>0, <2>1 DEF MonitorInv, Waits
<1> QED BY <1>1, <1>6

\* A thread that has released its mutex in uthread_cond_wait stays what it is,
\* one sleeper of one condition variable, until it is queued; and the code
\* between two steps is always that of a locked, waiting or masked thread.
THEOREM MonitorInvariant ==
    ASSUME Disciplined
    PROVE  SyncSpec => []MonitorInv
<1>1. SyncInit => MonitorInv
  BY MonitorInvInit
<1>2. MonitorInv /\ [SyncNext]_syncVars => MonitorInv'
  BY MonitorStep
<1> QED BY <1>1, <1>2, PTL DEF SyncSpec

\* Every step of uthread_mtx.c, uthread_cond.c and the scheduler below them is
\* one step of the monitor, or none that it sees: mutexes are passed on in the
\* order they were asked for, a wait is atomic, and a signal that finds
\* somebody asleep wakes the oldest sleeper.
THEOREM MonitorImplemented ==
    ASSUME Disciplined
    PROVE  SyncSpec => ImplementsMonitor
<1>1. SyncInit => Abstract!MonitorInit
  BY MonitorInvInit
<1>2. MonitorInv /\ [SyncNext]_syncVars => [Abstract!MonitorNext]_(Abstract!monVars)
  BY MonitorStep DEF Seen, Stutter
<1> QED BY <1>1, <1>2, MonitorInvariant, PTL DEF SyncSpec, ImplementsMonitor, Abstract!MonitorSpec
=============================================================================
