------------------------------ MODULE UthreadInv ------------------------------
(***************************************************************************)
(* Inductive invariants of mthreads_stencil's scheduler, mutexes and       *)
(* condition variables.  TypeInv strengthens SyncTypeOK for every client.  *)
(* For Disciplined clients PlaceInv strengthens ThreadInOnePlace, OwnerInv *)
(* MutualExclusion, LockInv NoStrandedWaiter and WaitIsAtomic, HolderInv   *)
(* NoLockWhilePreemptible, MonitorInv is what the refinement of module     *)
(* Monitor needs, and SchedInv strengthens QueuedAtItsPriority and         *)
(* ParkAssertMeansStuck.  CountInv adds QueueCountsAgree, and AllocInv     *)
(* strengthens AllocatedOnce, where one LWP runs every thread.             *)
(***************************************************************************)
EXTENDS UthreadSync

\* Clients that leave uthread_block and uthread_wake to the library, and that
\* create threads from one thread only: the two races of uthread_sched.c:84
\* and uthread.c:357 do not concern them.
Disciplined ==
    /\ Calls \cap {"block", "wake"} = {}
    /\ \A t, u \in Creators : t = u

-----------------------------------------------------------------------------
(* What every thread is doing, with its preemption count.                  *)

\* Code entered with the count at 1 that has nothing below it.
Entered == {"nopreempt_off", "wake", "setprio_write", "setprio_lock", "alloc_claim",
            "startonrunq", "mtx_lock", "mtx_locked", "mtx_trylock", "mtx_unlock",
            "cond_wait", "cond_sleep", "cond_relock", "cond_signal", "cond_broadcast"}

\* The code a clock interrupt can find unfinished, below its uthread_yield.
Yielding == {<<"nopreempt_off">>, <<"nopreempt_off", "create_init">>,
             <<"nopreempt_off", "wake_unlock">>}

\* ut_no_preempt_count, the code that runs next, and the code that follows.
Continuations ==
    ({0} \X {"create_init", "wake_unlock"} \X {<<>>})
    \cup ({1} \X Entered \X {<<>>})
    \cup ({1} \X {"yield_lock", "switch"} \X Yielding)
    \cup ({1} \X {"switch"} \X {<<"mtx_locked">>, <<"cond_relock">>})
    \cup ({1} \X {"nopreempt_off"} \X {<<"create_init">>})
    \cup ({2} \X {"yield_lock", "switch", "wake", "mtx_lock", "mtx_locked"} \X {<<"nopreempt_off">>})
    \cup ({2} \X {"mtx_unlock", "nopreempt_off"} \X {<<"cond_sleep">>})
    \cup ({2} \X {"wake"} \X {<<"cond_broadcast">>})
    \cup ({2} \X {"switch"} \X {<<"mtx_locked", "nopreempt_off">>})
    \cup ({3} \X {"wake"} \X {<<"nopreempt_off", "cond_sleep">>})

\* So the count is the number of nopreempt_off still to come, and the clock
\* can strike in client code and in the two places of the first line only.
ContinuationOf(t) ==
    \/ ut_no_preempt_count[t] = 0 /\ stack[t] = <<>>
    \/ /\ stack[t] # <<>>
       /\ <<ut_no_preempt_count[t], Head(stack[t]), Tail(stack[t])>> \in Continuations
ContinuationOK == \A t \in Threads : ContinuationOf(t)

\* A thread that has reached preemptible code, or uthread_yield, with runq_mtx
\* locked stays on the LWP that locked it: any attempt to leave aborts.
Pinned(t) ==
    /\ stack[t] # <<>>
    /\ \/ Head(stack[t]) = "wake_unlock"
       \/ Tail(stack[t]) = <<"nopreempt_off", "wake_unlock">>
       \/ /\ ut_no_preempt_count[t] = 2 /\ Head(stack[t]) \in {"yield_lock", "switch"}
          /\ Tail(stack[t]) = <<"nopreempt_off">>
OnHolder(t) == \E l \in LWPs : Running(l, t) /\ runq_mtx = l
PinnedToHolder == \A t \in Threads : Pinned(t) => OnHolder(t)

\* The thread runs one of heads, or runs above one of tails.
Pending(t, heads, tails) == stack[t] # <<>> /\ (Head(stack[t]) \in heads \/ Tail(stack[t]) \in tails)

NeedsNewthr(t) ==
    Pending(t, {"alloc_claim", "create_init", "startonrunq"},
               {<<"create_init">>, <<"nopreempt_off", "create_init">>})
NeedsMutex(t) ==
    Pending(t, {"mtx_lock", "mtx_locked", "mtx_trylock", "mtx_unlock",
                "cond_wait", "cond_sleep", "cond_relock"},
               {<<"mtx_locked">>, <<"mtx_locked", "nopreempt_off">>, <<"cond_relock">>,
                <<"cond_sleep">>, <<"nopreempt_off", "cond_sleep">>})
NeedsCond(t) ==
    Pending(t, {"cond_wait", "cond_sleep", "cond_relock", "cond_signal", "cond_broadcast"},
               {<<"cond_sleep">>, <<"nopreempt_off", "cond_sleep">>, <<"cond_relock">>,
                <<"cond_broadcast">>})

\* Pending code finds the arguments it was called with.
ArgumentsOf(t) ==
    /\ Pending(t, {"wake"}, {}) => wakee[t] # NoThread
    /\ Pending(t, {"setprio_write", "setprio_lock"}, {}) => sparg[t].thr # NoThread
    /\ NeedsNewthr(t) => newthr[t] # NoThread
    /\ NeedsMutex(t) => marg[t] # NoObj
    /\ NeedsCond(t) => carg[t] # NoObj
ArgumentsOK == \A t \in Threads : ArgumentsOf(t)

\* A thread that executes has been created, and creates another one; nobody
\* exits in this module.
ThreadsExist ==
    /\ \A l \in LWPs, t \in Threads : Running(l, t) => ut_state[t] # "UT_NO_STATE"
    /\ \A t \in Threads : newthr[t] # t /\ ut_state[t] # "UT_ZOMBIE"

TypeInv == SyncTypeOK /\ ContinuationOK /\ PinnedToHolder /\ ArgumentsOK /\ ThreadsExist

-----------------------------------------------------------------------------
(* Where every thread is.                                                  *)

\* An LWP that executes a thread is past its start and not in lwp_park.
LwpOK == \A l \in LWPs : curthr[l] # NoThread => lwp[l] = "running"

OneLwp == \A l, k \in LWPs : curthr[l] = curthr[k] /\ curthr[l] # NoThread => l = k
OnNoLwp(t) == \A l \in LWPs : curthr[l] # t

\* A thread on the run queue is runnable, on no LWP, and there once.
RunqOK ==
    \A p \in Prios : \A i \in 1..Len(runq[p]) :
        /\ ut_state[runq[p][i]] = "UT_RUNNABLE" /\ OnNoLwp(runq[p][i])
        /\ \A q \in Prios : \A j \in 1..Len(runq[q]) : runq[p][i] = runq[q][j] => p = q /\ i = j

\* A thread on a wait queue is waiting, on no LWP, and there once.
WaitqOK ==
    \A o \in Objs : \A i \in 1..Len(waitq[o]) :
        /\ ut_state[waitq[o][i]] = "UT_WAIT" /\ OnNoLwp(waitq[o][i])
        /\ \A r \in Objs : \A j \in 1..Len(waitq[r]) : waitq[o][i] = waitq[r][j] => o = r /\ i = j

\* A thread about to be woken is waiting, on no LWP and no queue, and in the
\* hands of one waker.
WakeeOK ==
    \A t \in Threads : wakee[t] # NoThread =>
        /\ ut_state[wakee[t]] = "UT_WAIT" /\ OnNoLwp(wakee[t])
        /\ \A u \in Threads : wakee[u] = wakee[t] => u = t
        /\ \A o \in Objs : \A i \in 1..Len(waitq[o]) : waitq[o][i] # wakee[t]

\* A thread about to be put on a wait queue is waiting and still executes.
SleeperOK ==
    \A t \in Threads : swarg[t].queue # NoObj =>
        /\ ut_state[t] = "UT_WAIT" /\ \E l \in LWPs : Running(l, t)
        /\ stack[t] # <<>> /\ Head(stack[t]) = "switch"

\* A thread being created is not yet anywhere.
NewbornOK ==
    /\ \A t \in Threads : newthr[t] # NoThread =>
          t \in Creators /\ ut_state[newthr[t]] \in {"UT_NO_STATE", "UT_TRANSITION"}
    /\ \A l \in LWPs, t \in Threads : Running(l, t) => ut_state[t] # "UT_TRANSITION"

PlaceInv == TypeInv /\ LwpOK /\ OneLwp /\ RunqOK /\ WaitqOK /\ WakeeOK /\ SleeperOK /\ NewbornOK

-----------------------------------------------------------------------------
(* Who owns a mutex.                                                       *)

CritOwns == \A t \in Threads : \A m \in crit[t] : m_owner[m] = t

AtHead(t, labels) == stack[t] # <<>> /\ Head(stack[t]) \in labels

\* Code that unlocks has the mutex.
UnlockerHolds == \A t \in Threads : AtHead(t, {"mtx_unlock", "cond_wait"}) => marg[t] \in crit[t]

\* The switch of uthread_mtx_lock, and no other, queues on a mutex.
MtxTails == {<<"mtx_locked">>, <<"mtx_locked", "nopreempt_off">>}
SwitchQueues ==
    \A t \in Threads : AtHead(t, {"switch"}) =>
        /\ Tail(stack[t]) \in MtxTails => swarg[t].queue = marg[t]
        /\ swarg[t].queue \in Mutexes => Tail(stack[t]) \in MtxTails

\* A waiter of m sleeps in a uthread_mtx_lock of m, and a thread there that
\* does not wait owns m.
InQueue(o, t) == \E i \in 1..Len(waitq[o]) : waitq[o][i] = t
WaitersOfMutex ==
    /\ \A m \in Mutexes, t \in Threads :
          InQueue(m, t) => AtHead(t, {"mtx_locked"}) /\ marg[t] = m
    /\ \A t \in Threads : AtHead(t, {"mtx_locked"}) => InQueue(marg[t], t) \/ m_owner[marg[t]] = t

OwnerInv == PlaceInv /\ CritOwns /\ UnlockerHolds /\ SwitchQueues /\ WaitersOfMutex

-----------------------------------------------------------------------------
(* Who holds a POSIX mutex between two steps.                              *)

Holds(t, o) == \E l \in LWPs : Running(l, t) /\ pmut[o] = l

\* A pending switch holds the mutex it is to release, and a thread that it is
\* to queue is queued under that mutex.
SwitchHolds ==
    \A t \in Threads :
        /\ swarg[t].pmut # NoObj =>
              /\ AtHead(t, {"switch"}) /\ Holds(t, swarg[t].pmut)
              /\ swarg[t].pmut \in Threads => swarg[t].pmut = t
        /\ swarg[t].queue # NoObj => swarg[t].pmut = swarg[t].queue

\* Thread t is between the first and the last step of a uthread_cond_wait: it
\* holds the condition variable's pmut up to its switch.
CondPending(t) == Pending(t, {"cond_sleep"}, {<<"cond_sleep">>, <<"nopreempt_off", "cond_sleep">>})
CondHolds == \A t \in Threads : CondPending(t) => Holds(t, carg[t])

\* The mutex that a thread is about to be queued on is not free.
SleeperOwned ==
    \A t \in Threads : swarg[t].queue \in Mutexes => m_owner[swarg[t].queue] # NoThread

LockInv == OwnerInv /\ SwitchHolds /\ CondHolds /\ SleeperOwned /\ NoStrandedWaiter

-----------------------------------------------------------------------------
(* For whom a POSIX mutex is held between two steps.                       *)

PmutHeld ==
    \A o \in Objs : pmut[o] # NoLwp =>
        \E t \in Threads : /\ Running(pmut[o], t)
                           /\ swarg[t].pmut = o \/ (CondPending(t) /\ carg[t] = o)

\* runq_mtx outlives a step only in the uthread_yield of uthread_setprio, whose
\* switch then aborts: a wake-up by the library is always masked twice.
RunqHeld ==
    runq_mtx # NoLwp =>
        \E t \in Threads : /\ Running(runq_mtx, t) /\ ut_no_preempt_count[t] = 2
                           /\ AtHead(t, {"yield_lock", "switch"})
WakeMasked == \A t \in Threads : AtHead(t, {"wake"}) => ut_no_preempt_count[t] # 1

HolderInv == LockInv /\ PmutHeld /\ RunqHeld /\ WakeMasked

-----------------------------------------------------------------------------
(* Who sleeps on a condition variable.                                     *)

\* A caller of uthread_cond_wait that has released its mutex does not hold it
\* again before it is queued, on the condition variable it was called with.
WaiterLeft ==
    \A t \in Threads :
        (Contains(stack[t], "cond_sleep") /\ ~AtHead(t, {"mtx_unlock"})) \/ swarg[t].queue \in Conds
            => marg[t] \notin crit[t]
SwitchWaits == \A t \in Threads : swarg[t].queue \in Conds => swarg[t].queue = carg[t]

\* A slot that is free or being initialised has at most the continuation that
\* uthread_create gives it.
FreshThreads ==
    \A t \in Threads :
        ut_state[t] \in {"UT_NO_STATE", "UT_TRANSITION"} => stack[t] \in {<<>>, <<"nopreempt_off">>}

MonitorInv == HolderInv /\ WaiterLeft /\ SwitchWaits /\ FreshThreads

-----------------------------------------------------------------------------
(* No thread is lost.                                                      *)

OnLwp(t) == \E l \in LWPs : Running(l, t)

\* A uthread_wake and a uthread_setprio keep their arguments while they run.
CallersRun ==
    \A t \in Threads :
        /\ wakee[t] # NoThread => OnLwp(t) /\ AtHead(t, {"wake"})
        /\ sparg[t].thr # NoThread => OnLwp(t) /\ AtHead(t, {"setprio_write", "setprio_lock"})

\* A thread that yields is runnable, and its switch either queues it as such
\* or puts it to sleep: in between it stays on its LWP.
SwitchOK ==
    \A t \in Threads :
        /\ AtHead(t, {"yield_lock"}) => OnLwp(t) /\ ut_state[t] = "UT_RUNNABLE"
        /\ AtHead(t, {"switch"}) =>
              /\ OnLwp(t)
              /\ \/ swarg[t].queue = NoObj /\ swarg[t].saveonrq /\ ut_state[t] = "UT_RUNNABLE"
                 \/ swarg[t].queue # NoObj /\ ut_state[t] = "UT_WAIT"

\* A waiting thread is on a wait queue, about to be put there, or in the hands
\* of the thread about to wake it.
IsWaiting(t) ==
    \/ \E o \in Objs : Contains(waitq[o], t)
    \/ swarg[t].queue # NoObj
    \/ \E u \in Threads : wakee[u] = t

\* Somebody has every thread: its LWP, the run queue or the one it waits for.
NobodyLost ==
    \A t \in Threads :
        /\ ut_state[t] = "UT_ON_CPU" => OnLwp(t)
        /\ ut_state[t] = "UT_RUNNABLE" => OnLwp(t) \/ Queued(t)
        /\ ut_state[t] = "UT_WAIT" => IsWaiting(t)

\* Every thread that exists has a run queue to go to.
PrioOK ==
    \A t \in Threads : ut_state[t] \notin {"UT_NO_STATE", "UT_TRANSITION"} => ut_prio[t] \in Prios

\* Nobody joins a thread in this module.
NoJoiners == \A t \in Threads : waitq[t] = <<>> /\ swarg[t].queue \notin Threads

SchedInv ==
    /\ PlaceInv /\ CallersRun /\ SwitchOK /\ NobodyLost /\ NoJoiners
    /\ PrioOK /\ QueuedAtItsPriority /\ ParkAssertMeansStuck

-----------------------------------------------------------------------------
(* What one LWP does not interleave.                                       *)

OneLwpOnly == \A l, k \in LWPs : l = k

\* A uthread_setprio finds the thread where it was when it read its priority.
SetprioOK ==
    \A t \in Threads : sparg[t].thr # NoThread =>
        /\ "setprio" \in Calls
        /\ \A p \in Prios : Contains(runq[p], sparg[t].thr) => p = sparg[t].old
CountInv == SchedInv /\ SetprioOK /\ QueueCountsAgree

\* A uthread_alloc that has found a slot claims it before anybody looks again.
AllocOK ==
    /\ \A t \in Threads : AtHead(t, {"alloc_claim"}) => OnLwp(t)
    /\ \A t \in Threads :
          newthr[t] # NoThread /\ ~AtHead(t, {"alloc_claim"}) => ut_state[newthr[t]] # "UT_NO_STATE"
AllocInv == TypeInv /\ LwpOK /\ AllocOK /\ AllocatedOnce
=============================================================================
