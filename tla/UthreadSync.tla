----------------------------- MODULE UthreadSync -----------------------------
(***************************************************************************)
(* The uthread mutexes and condition variables of mthreads_stencil         *)
(* (uthread_mtx.c, uthread_cond.c) on top of its scheduler.                *)
(*                                                                         *)
(* Mutex m owns m_pmut = pmut[m] and m_waiters = waitq[m]; condition       *)
(* variable c owns pmut = pmut[c] and uc_waiters = waitq[c].  A POSIX      *)
(* mutex that an entry point locks and unlocks without calling anything    *)
(* in between is held inside one action and only tested for being free.    *)
(***************************************************************************)
EXTENDS UthreadSched

CONSTANTS
    Mutexes, Conds,
    SyncCalls   \* entry points of uthread_mtx.h and uthread_cond.h clients use

ASSUME SyncAssumption ==
    /\ SyncObjs = Mutexes \cup Conds /\ Mutexes \cap Conds = {}
    /\ SyncCalls \subseteq {"lock", "trylock", "wait", "signal", "broadcast"}

VARIABLES
    m_owner,    \* owner field of each mutex
    marg, carg, \* mutex and condition variable a pending call is about
    crit        \* mutexes whose lock call has returned to t, and that t has
                \* not unlocked: what the client believes it holds

callVars == <<marg, carg>>
mtxVars  == <<m_owner, marg, carg, crit>>
syncVars == <<schedVars, mtxVars>>

-----------------------------------------------------------------------------
(* Entry points.  A client locks a mutex it does not hold, and unlocks or  *)
(* waits with one it holds.                                                *)

Enter(t, label) == NopreemptOn(t) /\ Push(t, <<label>>)
EntryUnchanged  == UNCHANGED <<cpuVars, ut_state, ut_prio, runqVars, waitVars,
                               argVars, halted, m_owner, crit>>

UthreadMtxLock(l, t, m) ==
    /\ "lock" \in SyncCalls /\ InClient(l, t) /\ m \notin crit[t]
    /\ Enter(t, "mtx_lock")
    /\ marg' = [marg EXCEPT ![t] = m]
    /\ UNCHANGED carg /\ EntryUnchanged

UthreadMtxTrylock(l, t, m) ==
    /\ "trylock" \in SyncCalls /\ InClient(l, t) /\ m \notin crit[t]
    /\ Enter(t, "mtx_trylock")
    /\ marg' = [marg EXCEPT ![t] = m]
    /\ UNCHANGED carg /\ EntryUnchanged

UthreadMtxUnlock(l, t, m) ==
    /\ InClient(l, t) /\ m \in crit[t]
    /\ Enter(t, "mtx_unlock")
    /\ marg' = [marg EXCEPT ![t] = m]
    /\ UNCHANGED carg /\ EntryUnchanged

UthreadCondWait(l, t, c, m) ==
    /\ "wait" \in SyncCalls /\ InClient(l, t) /\ m \in crit[t]
    /\ Enter(t, "cond_wait")
    /\ marg' = [marg EXCEPT ![t] = m]
    /\ carg' = [carg EXCEPT ![t] = c]
    /\ EntryUnchanged

UthreadCondSignal(l, t, c) ==
    /\ "signal" \in SyncCalls /\ InClient(l, t)
    /\ Enter(t, "cond_signal")
    /\ carg' = [carg EXCEPT ![t] = c]
    /\ UNCHANGED marg /\ EntryUnchanged

UthreadCondBroadcast(l, t, c) ==
    /\ "broadcast" \in SyncCalls /\ InClient(l, t)
    /\ Enter(t, "cond_broadcast")
    /\ carg' = [carg EXCEPT ![t] = c]
    /\ UNCHANGED marg /\ EntryUnchanged

-----------------------------------------------------------------------------
(* uthread_mtx.c.                                                          *)

SleepFrames(t) == <<"switch", IF ut_state[t] = "UT_ZOMBIE" THEN "mtx_locked_zombie"
                                                           ELSE "mtx_locked">>

\* Mutants of the slow path: m_pmut is released before the switch, and the
\* caller is queued either by the switch or, at once, by itself.
MtxSleepUnlocked(l, t, m) ==
    /\ ut_state' = [ut_state EXCEPT ![t] = "UT_WAIT"]
    /\ swarg' = [swarg EXCEPT ![t] = [queue |-> m, saveonrq |-> FALSE, pmut |-> NoObj]]
    /\ UNCHANGED <<pmut, waitq>>
MtxSleepQueued(l, t, m) ==
    /\ ut_state' = [ut_state EXCEPT ![t] = "UT_WAIT"]
    /\ waitq' = [waitq EXCEPT ![m] = Append(@, t)]
    /\ UNCHANGED <<pmut, swarg>>

\* The caller marks itself waiting and takes m_pmut along into uthread_switch,
\* which queues it and only then releases m_pmut.
MtxSleep(l, t, m) ==
    /\ ut_state' = [ut_state EXCEPT ![t] = "UT_WAIT"]
    /\ swarg' = [swarg EXCEPT ![t] = [queue |-> m, saveonrq |-> FALSE, pmut |-> m]]
    /\ pmut' = [pmut EXCEPT ![m] = l]
    /\ UNCHANGED waitq

MtxLock(l, t) ==
    /\ At(l, t, "mtx_lock")
    /\ LET m == marg[t]
       IN  /\ pmut[m] = NoLwp
           /\ \/ /\ m_owner[m] = NoThread
                 /\ m_owner' = [m_owner EXCEPT ![m] = t]
                 /\ crit' = [crit EXCEPT ![t] = @ \cup {m}]
                 /\ marg' = [marg EXCEPT ![t] = NoObj]
                 /\ NopreemptOff(t)
                 /\ Continue(t, <<>>)
                 /\ UNCHANGED <<ut_state, pmut, waitq, swarg>>
              \/ /\ m_owner[m] # NoThread
                 /\ MtxSleep(l, t, m)
                 /\ Continue(t, SleepFrames(t))
                 /\ UNCHANGED <<m_owner, crit, marg, ut_no_preempt_count>>
    /\ UNCHANGED <<cpuVars, ut_prio, runqVars, wakee, sparg, newthr, halted, carg>>

\* A thread that slept in uthread_mtx_lock returns as the owner: it does not
\* look at m_owner again.
MtxLocked(l, t) ==
    /\ At(l, t, "mtx_locked")
    /\ crit' = [crit EXCEPT ![t] = @ \cup {marg[t]}]
    /\ marg' = [marg EXCEPT ![t] = NoObj]
    /\ NopreemptOff(t)
    /\ Continue(t, <<>>)
    /\ UNCHANGED <<cpuVars, ut_state, ut_prio, runqVars, waitVars, argVars, halted, m_owner, carg>>

MtxTrylock(l, t) ==
    /\ At(l, t, "mtx_trylock")
    /\ LET m == marg[t]
       IN  /\ pmut[m] = NoLwp
           /\ \/ /\ m_owner[m] = NoThread
                 /\ m_owner' = [m_owner EXCEPT ![m] = t]
                 /\ crit' = [crit EXCEPT ![t] = @ \cup {m}]
              \/ m_owner[m] # NoThread /\ UNCHANGED <<m_owner, crit>>
    /\ marg' = [marg EXCEPT ![t] = NoObj]
    /\ NopreemptOff(t)
    /\ Continue(t, <<>>)
    /\ UNCHANGED <<cpuVars, ut_state, ut_prio, runqVars, waitVars, argVars, halted, carg>>

\* Mutants: the mutex is freed although its next owner is on its way; it goes
\* to the next owner, whom nobody wakes.
PassFree(t, m) ==
    /\ m_owner' = [m_owner EXCEPT ![m] = NoThread]
    /\ wakee' = [wakee EXCEPT ![t] = Head(waitq[m])]
    /\ NopreemptOn(t)
    /\ Continue(t, <<"wake", "nopreempt_off">>)
PassAsleep(t, m) ==
    /\ m_owner' = [m_owner EXCEPT ![m] = Head(waitq[m])]
    /\ NopreemptOff(t)
    /\ Continue(t, <<>>)
    /\ UNCHANGED wakee

\* The mutex goes straight to the oldest waiter, who is then woken.
PassOn(t, m) ==
    /\ m_owner' = [m_owner EXCEPT ![m] = Head(waitq[m])]
    /\ wakee' = [wakee EXCEPT ![t] = Head(waitq[m])]
    /\ NopreemptOn(t)
    /\ Continue(t, <<"wake", "nopreempt_off">>)

MtxUnlock(l, t) ==
    /\ At(l, t, "mtx_unlock")
    /\ LET m == marg[t]
       IN  /\ pmut[m] = NoLwp
           /\ crit' = [crit EXCEPT ![t] = @ \ {m}]
           /\ \/ /\ waitq[m] = <<>>
                 /\ m_owner' = [m_owner EXCEPT ![m] = NoThread]
                 /\ NopreemptOff(t)
                 /\ Continue(t, <<>>)
                 /\ UNCHANGED <<waitq, wakee>>
              \/ /\ waitq[m] # <<>>
                 /\ waitq' = [waitq EXCEPT ![m] = Tail(@)]
                 /\ PassOn(t, m)
    /\ marg' = [marg EXCEPT ![t] = IF carg[t] = NoObj THEN NoObj ELSE @]
    /\ UNCHANGED <<cpuVars, ut_state, ut_prio, runqVars, pmut, swarg, sparg, newthr, halted, carg>>

-----------------------------------------------------------------------------
(* uthread_cond.c.                                                         *)

\* Mutant: the mutex is released before the condition variable's pmut is held.
CondWaitUnlocked(l, t) ==
    /\ At(l, t, "cond_wait") /\ pmut[carg[t]] = NoLwp
    /\ NopreemptOn(t)
    /\ Continue(t, <<"mtx_unlock", "cond_sleep">>)
    /\ UNCHANGED <<cpuVars, ut_state, ut_prio, runqVars, waitVars, argVars, halted, mtxVars>>

\* The condition variable's pmut is held from before the mutex is released
\* until the caller is queued.
CondWait(l, t) ==
    /\ At(l, t, "cond_wait") /\ pmut[carg[t]] = NoLwp
    /\ pmut' = [pmut EXCEPT ![carg[t]] = l]
    /\ NopreemptOn(t)
    /\ Continue(t, <<"mtx_unlock", "cond_sleep">>)
    /\ UNCHANGED <<cpuVars, ut_state, ut_prio, runqVars, waitq, argVars, halted, mtxVars>>

CondSleep(l, t) ==
    /\ At(l, t, "cond_sleep")
    /\ ut_state' = [ut_state EXCEPT ![t] = "UT_WAIT"]
    /\ swarg' = [swarg EXCEPT ![t] = [queue |-> carg[t], saveonrq |-> FALSE, pmut |-> carg[t]]]
    /\ Continue(t, <<"switch", "cond_relock">>)
    /\ UNCHANGED <<cpuVars, ut_prio, ut_no_preempt_count, runqVars, waitVars, wakee, sparg,
                   newthr, halted, mtxVars>>

\* Woken: uthread_mtx_lock again, then nopreempt_off.
CondRelock(l, t) ==
    /\ At(l, t, "cond_relock")
    /\ NopreemptOn(t)
    /\ Continue(t, <<"mtx_lock", "nopreempt_off">>)
    /\ carg' = [carg EXCEPT ![t] = NoObj]
    /\ UNCHANGED <<cpuVars, ut_state, ut_prio, runqVars, waitVars, argVars, halted,
                   m_owner, marg, crit>>

\* Dequeue the oldest waiter of carg[t] under pmut, then wake it and go on
\* with frames; done when nobody waits.
WakeOldest(t, frames) ==
    LET c == carg[t]
    IN  /\ pmut[c] = NoLwp
        /\ \/ /\ waitq[c] = <<>>
              /\ NopreemptOff(t)
              /\ Continue(t, <<>>)
              /\ carg' = [carg EXCEPT ![t] = NoObj]
              /\ UNCHANGED <<waitq, wakee>>
           \/ /\ waitq[c] # <<>>
              /\ waitq' = [waitq EXCEPT ![c] = Tail(@)]
              /\ wakee' = [wakee EXCEPT ![t] = Head(waitq[c])]
              /\ NopreemptOn(t)
              /\ Continue(t, frames)
              /\ carg' = IF frames[2] = "cond_broadcast" THEN carg
                         ELSE [carg EXCEPT ![t] = NoObj]

CondSignal(l, t) ==
    /\ At(l, t, "cond_signal")
    /\ WakeOldest(t, <<"wake", "nopreempt_off">>)
    /\ UNCHANGED <<cpuVars, ut_state, ut_prio, runqVars, pmut, swarg, sparg, newthr, halted,
                   m_owner, marg, crit>>

\* One turn of the loop: pmut is released while a waiter is woken.
CondBroadcast(l, t) ==
    /\ At(l, t, "cond_broadcast")
    /\ WakeOldest(t, <<"wake", "cond_broadcast">>)
    /\ UNCHANGED <<cpuVars, ut_state, ut_prio, runqVars, pmut, swarg, sparg, newthr, halted,
                   m_owner, marg, crit>>

-----------------------------------------------------------------------------
MtxInit ==
    /\ m_owner = [m \in Mutexes |-> NoThread]
    /\ marg = [t \in Threads |-> NoObj]
    /\ carg = [t \in Threads |-> NoObj]
    /\ crit = [t \in Threads |-> {}]

SyncInit == SchedInit /\ MtxInit

SyncLibraryStep(l, t) ==
    \/ MtxLock(l, t) \/ MtxLocked(l, t) \/ MtxTrylock(l, t) \/ MtxUnlock(l, t)
    \/ CondWait(l, t) \/ CondSleep(l, t) \/ CondRelock(l, t)
    \/ CondSignal(l, t) \/ CondBroadcast(l, t)

SyncClientStep(l, t) ==
    \/ \E m \in Mutexes :
          \/ UthreadMtxLock(l, t, m)
          \/ UthreadMtxTrylock(l, t, m)
          \/ UthreadMtxUnlock(l, t, m)
          \/ \E c \in Conds : UthreadCondWait(l, t, c, m)
    \/ \E c \in Conds : UthreadCondSignal(l, t, c) \/ UthreadCondBroadcast(l, t, c)

SyncNext ==
    \/ SchedNext /\ UNCHANGED mtxVars
    \/ /\ halted = "none"
       /\ \E l \in LWPs, t \in Threads : SyncLibraryStep(l, t) \/ SyncClientStep(l, t)

SyncSpec == SyncInit /\ [][SyncNext]_syncVars

\* The fairness of SchedFairSpec, with the library steps of this module.
SyncLwpRuns(l) ==
    \/ LwpRuns(l) /\ UNCHANGED mtxVars
    \/ halted = "none" /\ \E t \in Threads : SyncLibraryStep(l, t)

SyncFairSpec ==
    /\ SyncSpec
    /\ \A l \in LWPs : WF_syncVars(SyncLwpRuns(l))
    /\ SF_syncVars(ClockTicks /\ UNCHANGED mtxVars)

-----------------------------------------------------------------------------
(* Properties.                                                             *)

SyncLabels == {"mtx_lock", "mtx_locked", "mtx_locked_zombie", "mtx_trylock", "mtx_unlock",
               "cond_wait", "cond_sleep", "cond_relock", "cond_signal", "cond_broadcast"}

\* Every variable of the mutexes and condition variables has its type.
SyncTypeOK ==
    /\ SchedTypes(Labels \cup SyncLabels)
    /\ m_owner \in [Mutexes -> Threads \cup {NoThread}]
    /\ marg \in [Threads -> Mutexes \cup {NoObj}]
    /\ carg \in [Threads -> Conds \cup {NoObj}]
    /\ crit \in [Threads -> SUBSET Mutexes]

\* A thread is in one place: on a processor, on one run queue, on one wait
\* queue, or in the hands of the thread about to wake it.  This is what the
\* third argument of uthread_switch is for: were a caller queued before it
\* leaves its stack, a waker could have it run on two LWPs.
ThreadInOnePlace ==
    /\ OneStackOneLwp
    /\ \A o \in Objs : \A i \in 1..Len(waitq[o]) :
          LET t == waitq[o][i]
          IN  /\ \A l \in LWPs : curthr[l] # t
              /\ \A p \in Prios : ~Contains(runq[p], t)
              /\ \A r \in Objs : \A j \in 1..Len(waitq[r]) : t = waitq[r][j] => o = r /\ i = j
              /\ \A u \in Threads : wakee[u] # t
    /\ \A t, u \in Threads :
          /\ wakee[t] = wakee[u] /\ wakee[t] # NoThread => t = u
          /\ \A l \in LWPs : wakee[t] # NoThread => curthr[l] # wakee[t]
          /\ \A p \in Prios : wakee[t] # NoThread => ~Contains(runq[p], wakee[t])

\* Two threads never both believe that they hold a mutex, and the one that
\* does is its m_owner, although a thread that slept in uthread_mtx_lock
\* never looks at m_owner when it returns.
MutualExclusion ==
    /\ \A t, u \in Threads : crit[t] \cap crit[u] # {} => t = u
    /\ \A t \in Threads : \A m \in crit[t] : m_owner[m] = t

\* A mutex that threads wait for has an owner: no waiter is stranded on a
\* free mutex, whatever the order of a lock's queueing and an unlock.
NoStrandedWaiter == \A m \in Mutexes : waitq[m] # <<>> => m_owner[m] # NoThread

LeftMutexNotQueued(t, c) ==
    /\ carg[t] = c /\ marg[t] \notin crit[t]
    /\ Contains(stack[t], "cond_sleep") \/ swarg[t].queue = c

\* Between releasing the mutex and being queued, a caller of uthread_cond_wait
\* keeps the condition variable's pmut, so that no signal can fall between
\* the two: "the unlock (mtx, arg 2) and sleep operation happen as one atomic
\* step".
WaitIsAtomic ==
    \A t \in Threads, c \in Conds :
        LeftMutexNotQueued(t, c) => \E l \in LWPs : curthr[l] = t /\ pmut[c] = l

\* A thread that has been handed a mutex returns from uthread_mtx_lock (or the
\* process ends): the wake-up that follows a hand-off is never lost.
GrantedMutexIsTaken ==
    \A t \in Threads, m \in Mutexes :
        m_owner[m] = t ~> m \in crit[t] \/ m_owner[m] # t \/ halted # "none"

\* A mutex changes owner only from a thread that unlocks it: to the oldest
\* waiter when there is one, so that nobody overtakes the queue.
HandOff ==
    [][\A m \in Mutexes :
          waitq[m] # <<>> /\ m_owner'[m] # m_owner[m]
              => m_owner'[m] = Head(waitq[m]) /\ waitq'[m] = Tail(waitq[m])]_syncVars
=============================================================================
