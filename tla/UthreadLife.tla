----------------------------- MODULE UthreadLife -----------------------------
(***************************************************************************)
(* The end of a thread in mthreads_stencil (uthread.c): uthread_exit,      *)
(* uthread_join, uthread_detach, make_reapable and the reaper thread, on   *)
(* top of the scheduler, of reap_mtx and of reap_cond.                     *)
(*                                                                         *)
(* A zombie may be destroyed once it has left its stack.  Two locks say    *)
(* so: its error-checking ut_pmut = pmut[t], which the last switch of the  *)
(* thread releases, and reap_mtx, which protects the reap queue.           *)
(***************************************************************************)
EXTENDS UthreadSync

CONSTANTS
    Reaper,             \* the thread create_first_thr makes of the slot reaper_thr_id
    reap_mtx, reap_cond,
    JoinPairs,          \* <<t, u>>: client code in which t may join u
    DetachPairs         \* <<t, u>>: client code in which t may detach u

ASSUME LifeAssumption ==
    /\ Contains(Boot, Reaper) /\ Reaper \notin Creators
    /\ \E t \in Threads \ {Reaper} : Contains(Boot, t)
    /\ Mutexes = {reap_mtx} /\ Conds = {reap_cond} /\ SyncCalls = {}
    /\ Calls \subseteq {"yield"}
    /\ JoinPairs \subseteq {p \in Threads \X Threads : p[1] # p[2] /\ p[1] # Reaper}
    /\ DetachPairs \subseteq {p \in Threads \X Threads : p[1] # Reaper}

VARIABLES
    ut_detached,
    reap_queue,
    tgt,        \* thread the pending join, detach, exit or reaper step is about
    claimed     \* threads that were born detached, or that some client has
                \* begun to join or to detach: no other client may

lifeVars    == <<ut_detached, reap_queue, tgt, claimed>>
allLifeVars == <<syncVars, lifeVars>>

SyncRest == <<curthr, lwp, ut_prio, runqVars, waitq, swarg, wakee, sparg, newthr, m_owner, crit>>

\* An entry into uthread_mtx_lock, with what is left to do after it.
CallMtxLock(t, frames) ==
    /\ NopreemptOn(t)
    /\ marg' = [marg EXCEPT ![t] = reap_mtx]
    /\ Continue(t, <<"mtx_lock">> \o frames)

\* The calls return to the client.
LeaveWithout(t) ==
    /\ NopreemptOff(t)
    /\ tgt' = [tgt EXCEPT ![t] = NoThread]
    /\ Continue(t, <<>>)

\* pthread_mutex_lock(&ut_pmut of u): the error-checking mutex refuses its own
\* LWP, and the wrapper aborts.
Takes(l, u) == pmut[u] = NoLwp /\ pmut' = [pmut EXCEPT ![u] = l]

-----------------------------------------------------------------------------
(* uthread_exit.                                                           *)

UthreadExit(l, t) ==
    /\ InClient(l, t) /\ t # Reaper
    /\ NopreemptOn(t)
    /\ ut_state' = [ut_state EXCEPT ![t] = "UT_ZOMBIE"]
    /\ tgt' = [tgt EXCEPT ![t] = t]
    /\ Push(t, <<"exit_check">>)
    /\ UNCHANGED <<SyncRest, pmut, halted, marg, carg, ut_detached, reap_queue, claimed>>

\* Mutant: the thread does not look whether it is detached.
ExitCheckNot(l, t) ==
    /\ At(l, t, "exit_check") /\ CallMtxLock(t, <<"reap_pmut">>)
    /\ UNCHANGED <<SyncRest, ut_state, pmut, halted, carg, lifeVars>>

\* "lock after reap_mtx - otherwise you'll try to unlock in another process".
ExitCheck(l, t) ==
    /\ At(l, t, "exit_check")
    /\ \/ ut_detached[t] /\ CallMtxLock(t, <<"reap_pmut">>)
       \/ /\ ~ut_detached[t]
          /\ Continue(t, <<"exit_lock">>)
          /\ UNCHANGED <<ut_no_preempt_count, marg>>
    /\ UNCHANGED <<SyncRest, ut_state, pmut, halted, carg, lifeVars>>

\* Mutant: the joiner is dequeued and not woken.
ForgetJoiner(t) ==
    /\ waitq' = [waitq EXCEPT ![t] = <<>>]
    /\ Continue(t, <<"exit_switch">>)
    /\ UNCHANGED <<wakee, ut_no_preempt_count>>

WakeJoiner(t) ==
    \/ /\ waitq[t] = <<>>
       /\ Continue(t, <<"exit_switch">>)
       /\ UNCHANGED <<waitq, wakee, ut_no_preempt_count>>
    \/ /\ waitq[t] # <<>>
       /\ waitq' = [waitq EXCEPT ![t] = Tail(@)]
       /\ wakee' = [wakee EXCEPT ![t] = Head(waitq[t])]
       /\ NopreemptOn(t)
       /\ Continue(t, <<"wake", "exit_switch">>)

\* The joiner, if there is one, is woken with ut_pmut held.
ExitLock(l, t) ==
    /\ At(l, t, "exit_lock") /\ Takes(l, t)
    /\ WakeJoiner(t)
    /\ UNCHANGED <<cpuVars, ut_state, ut_prio, runqVars, swarg, sparg, newthr, halted,
                   mtxVars, lifeVars>>

\* uthread_switch(NULL, 0, &ut_pmut): no queue holds the thread any more.
LastSwitch(t) ==
    /\ swarg' = [swarg EXCEPT ![t] = [queue |-> NoObj, saveonrq |-> FALSE, pmut |-> t]]
    /\ Continue(t, <<"switch", "dead">>)

ExitSwitch(l, t) ==
    /\ At(l, t, "exit_switch") /\ LastSwitch(t)
    /\ UNCHANGED <<cpuVars, thrVars, runqVars, waitVars, wakee, sparg, newthr, halted,
                   mtxVars, lifeVars>>

\* "returned to a dead thread".
Undead(l, t) ==
    /\ At(l, t, "dead") /\ halted' = "PANIC"
    /\ UNCHANGED <<cpuVars, thrVars, runqVars, waitVars, stack, argVars, mtxVars, lifeVars>>

\* A zombie that has had to wait for reap_mtx in uthread_mtx_lock is UT_ON_CPU
\* when it is dispatched, and makes itself UT_ZOMBIE again.
MtxLockedZombie(l, t) ==
    /\ At(l, t, "mtx_locked_zombie")
    /\ ut_state' = [ut_state EXCEPT ![t] = "UT_ZOMBIE"]
    /\ crit' = [crit EXCEPT ![t] = @ \cup {marg[t]}]
    /\ marg' = [marg EXCEPT ![t] = NoObj]
    /\ NopreemptOff(t)
    /\ Continue(t, <<>>)
    /\ UNCHANGED <<cpuVars, ut_prio, runqVars, waitVars, argVars, halted, m_owner, carg, lifeVars>>

-----------------------------------------------------------------------------
(* make_reapable, called with reap_mtx locked; its callers lock ut_pmut.   *)

\* Mutant: ut_pmut is not locked.
LockReapedNot(l, t) == At(l, t, "reap_pmut") /\ UNCHANGED pmut

LockReaped(l, t) == At(l, t, "reap_pmut") /\ Takes(l, tgt[t])

ReapPmut(l, t) ==
    /\ LockReaped(l, t)
    /\ Continue(t, <<"make_reapable">>)
    /\ UNCHANGED <<SyncRest, ut_state, ut_no_preempt_count, halted, marg, carg, lifeVars>>

\* The assertions: the thread is a zombie, and its link is on no list.
MakeReapable(l, t) ==
    /\ At(l, t, "make_reapable")
    /\ IF ut_state[tgt[t]] = "UT_ZOMBIE" /\ ~Contains(reap_queue, tgt[t])
       THEN /\ ut_no_preempt_count' = [ut_no_preempt_count EXCEPT ![t] = @ + 2]
            /\ reap_queue' = Append(reap_queue, tgt[t])
            /\ carg' = [carg EXCEPT ![t] = reap_cond]
            /\ Continue(t, <<"cond_signal", "reap_unlock">>)
            /\ UNCHANGED halted
       ELSE /\ halted' = "assert"
            /\ UNCHANGED <<ut_no_preempt_count, reap_queue, carg, stack>>
    /\ UNCHANGED <<SyncRest, ut_state, pmut, marg, ut_detached, tgt, claimed>>

ReapUnlock(l, t) ==
    /\ At(l, t, "reap_unlock")
    /\ NopreemptOn(t)
    /\ marg' = [marg EXCEPT ![t] = reap_mtx]
    /\ Continue(t, <<"mtx_unlock", "reap_release">>)
    /\ UNCHANGED <<SyncRest, ut_state, pmut, halted, carg, lifeVars>>

\* Another thread's ut_pmut is unlocked at once; the unlock fails, and the
\* wrapper aborts, on an LWP that did not lock it.
ReapRelease(l, t) ==
    /\ At(l, t, "reap_release") /\ tgt[t] # t
    /\ \/ /\ pmut[tgt[t]] = l
          /\ pmut' = [pmut EXCEPT ![tgt[t]] = NoLwp]
          /\ LeaveWithout(t)
          /\ UNCHANGED halted
       \/ /\ pmut[tgt[t]] # l /\ halted' = "EPERM"
          /\ UNCHANGED <<pmut, ut_no_preempt_count, stack, tgt>>
    /\ UNCHANGED <<SyncRest, ut_state, marg, carg, ut_detached, reap_queue, claimed>>

\* A thread's own ut_pmut is released by the switch that leaves its stack.
ReapSwitch(l, t) ==
    /\ At(l, t, "reap_release") /\ tgt[t] = t /\ LastSwitch(t)
    /\ UNCHANGED <<cpuVars, thrVars, runqVars, waitVars, wakee, sparg, newthr, halted,
                   mtxVars, lifeVars>>

\* An LWP that owns an error-checking ut_pmut locks it again.
PmutRelock(l, t) ==
    /\ \/ At(l, t, "exit_lock") \/ At(l, t, "reap_pmut")
       \/ At(l, t, "join_lock") \/ At(l, t, "reaper_lock")
    /\ pmut[tgt[t]] = l
    /\ halted' = "EDEADLK"
    /\ UNCHANGED <<cpuVars, thrVars, runqVars, waitVars, stack, argVars, mtxVars, lifeVars>>

-----------------------------------------------------------------------------
(* uthread_join and uthread_detach.  A client joins or detaches a thread   *)
(* that was created, and each at most once.                                *)

Exists(u) == ut_state[u] \notin {"UT_NO_STATE", "UT_TRANSITION"}

UthreadJoin(l, t, u) ==
    /\ <<t, u>> \in JoinPairs /\ InClient(l, t) /\ Exists(u) /\ u \notin claimed
    /\ NopreemptOn(t)
    /\ tgt' = [tgt EXCEPT ![t] = u]
    /\ claimed' = claimed \cup {u}
    /\ Push(t, <<"join_lock">>)
    /\ UNCHANGED <<SyncRest, ut_state, pmut, halted, marg, carg, ut_detached, reap_queue>>

\* Mutant: ut_pmut is unlocked before the switch.
JoinSleepUnlocked(l, t, u) ==
    /\ ut_state' = [ut_state EXCEPT ![t] = "UT_WAIT"]
    /\ swarg' = [swarg EXCEPT ![t] = [queue |-> u, saveonrq |-> FALSE, pmut |-> NoObj]]
    /\ Continue(t, <<"switch", "join_woken">>)
    /\ UNCHANGED <<pmut, ut_no_preempt_count, tgt>>

\* The caller takes ut_pmut along into uthread_switch, which queues it.
JoinSleep(l, t, u) ==
    /\ ut_state' = [ut_state EXCEPT ![t] = "UT_WAIT"]
    /\ pmut' = [pmut EXCEPT ![u] = l]
    /\ swarg' = [swarg EXCEPT ![t] = [queue |-> u, saveonrq |-> FALSE, pmut |-> u]]
    /\ Continue(t, <<"switch", "join_woken">>)
    /\ UNCHANGED <<ut_no_preempt_count, tgt>>

JoinLock(l, t) ==
    /\ At(l, t, "join_lock")
    /\ LET u == tgt[t]
       IN  /\ pmut[u] = NoLwp
           /\ \/ /\ waitq[u] # <<>> \/ ut_detached[u]
                 /\ LeaveWithout(t)
                 /\ UNCHANGED <<ut_state, pmut, swarg>>
              \/ /\ waitq[u] = <<>> /\ ~ut_detached[u] /\ ut_state[u] # "UT_ZOMBIE"
                 /\ JoinSleep(l, t, u)
              \/ /\ waitq[u] = <<>> /\ ~ut_detached[u] /\ ut_state[u] = "UT_ZOMBIE"
                 /\ Continue(t, <<"join_woken">>)
                 /\ UNCHANGED <<ut_state, pmut, swarg, ut_no_preempt_count, tgt>>
    /\ UNCHANGED <<cpuVars, ut_prio, runqVars, waitq, wakee, sparg, newthr, halted, mtxVars,
                   ut_detached, reap_queue, claimed>>

\* "we know the target has terminated": preemption is allowed again.
JoinWoken(l, t) ==
    /\ At(l, t, "join_woken")
    /\ IF ut_state[tgt[t]] = "UT_ZOMBIE"
       THEN NopreemptOff(t) /\ Continue(t, <<"join_reap">>) /\ UNCHANGED halted
       ELSE halted' = "assert" /\ UNCHANGED <<ut_no_preempt_count, stack>>
    /\ UNCHANGED <<SyncRest, ut_state, pmut, marg, carg, lifeVars>>

\* Between the two steps, and from the return of uthread_mtx_lock until
\* make_reapable masks it, the clock may strike.
JoinReap(l, t) ==
    /\ At(l, t, "join_reap") /\ CallMtxLock(t, <<"reap_pmut">>)
    /\ UNCHANGED <<SyncRest, ut_state, pmut, halted, carg, lifeVars>>

UthreadDetach(l, t, u) ==
    /\ <<t, u>> \in DetachPairs /\ InClient(l, t) /\ Exists(u) /\ u \notin claimed
    /\ NopreemptOn(t)
    /\ ut_detached' = [ut_detached EXCEPT ![u] = TRUE]
    /\ tgt' = [tgt EXCEPT ![t] = u]
    /\ claimed' = claimed \cup {u}
    /\ Push(t, <<"detach_check">>)
    /\ UNCHANGED <<SyncRest, ut_state, pmut, halted, marg, carg, reap_queue>>

\* Mutant: a thread that has already exited is left to its uthread_exit.
DetachCheckNever(l, t) ==
    /\ At(l, t, "detach_check") /\ LeaveWithout(t)
    /\ UNCHANGED <<SyncRest, ut_state, pmut, halted, marg, carg, ut_detached, reap_queue, claimed>>

\* Mutant: the state is not looked at.
DetachCheckAlways(l, t) ==
    /\ At(l, t, "detach_check")
    /\ CallMtxLock(t, <<"reap_pmut", "nopreempt_off">>)
    /\ UNCHANGED <<SyncRest, ut_state, pmut, halted, carg, lifeVars>>

DetachCheck(l, t) ==
    /\ At(l, t, "detach_check")
    /\ \/ ut_state[tgt[t]] = "UT_ZOMBIE" /\ CallMtxLock(t, <<"reap_pmut", "nopreempt_off">>) /\ UNCHANGED tgt
       \/ ut_state[tgt[t]] # "UT_ZOMBIE" /\ LeaveWithout(t) /\ UNCHANGED marg
    /\ UNCHANGED <<SyncRest, ut_state, pmut, halted, carg, ut_detached, reap_queue, claimed>>

-----------------------------------------------------------------------------
(* The reaper.  Its function never returns.                                *)

ReaperStart(l, t) ==
    /\ t = Reaper /\ InClient(l, t)
    /\ ut_no_preempt_count' = [ut_no_preempt_count EXCEPT ![t] = @ + 2]
    /\ marg' = [marg EXCEPT ![t] = reap_mtx]
    /\ Push(t, <<"mtx_lock", "reaper_loop">>)
    /\ UNCHANGED <<SyncRest, ut_state, pmut, halted, carg, lifeVars>>

ReaperWait(l, t) ==
    /\ At(l, t, "reaper_loop") /\ reap_queue = <<>>
    /\ NopreemptOn(t)
    /\ marg' = [marg EXCEPT ![t] = reap_mtx]
    /\ carg' = [carg EXCEPT ![t] = reap_cond]
    /\ Continue(t, <<"cond_wait", "reaper_loop">>)
    /\ UNCHANGED <<SyncRest, ut_state, pmut, halted, lifeVars>>

ReaperTake(l, t) ==
    /\ At(l, t, "reaper_loop") \/ At(l, t, "reaper_scan")
    /\ reap_queue # <<>>
    /\ IF ut_state[Head(reap_queue)] = "UT_ZOMBIE"
       THEN /\ tgt' = [tgt EXCEPT ![t] = Head(reap_queue)]
            /\ reap_queue' = Tail(reap_queue)
            /\ Continue(t, <<"reaper_lock">>)
            /\ UNCHANGED halted
       ELSE halted' = "assert" /\ UNCHANGED <<tgt, reap_queue, stack>>
    /\ UNCHANGED <<SyncRest, ut_state, ut_no_preempt_count, pmut, marg, carg, ut_detached, claimed>>

\* "wait for thread to get off its stack": ut_pmut is locked and unlocked.
ReaperLock(l, t) ==
    /\ At(l, t, "reaper_lock") /\ pmut[tgt[t]] = NoLwp
    /\ Continue(t, <<"reaper_destroy">>)
    /\ UNCHANGED <<SyncRest, ut_state, ut_no_preempt_count, pmut, halted, marg, carg, lifeVars>>

\* uthread_destroy: the slot is free again.
ReaperDestroy(l, t) ==
    /\ At(l, t, "reaper_destroy")
    /\ LET u == tgt[t]
       IN  IF ut_state[u] = "UT_ZOMBIE"
           THEN /\ ut_state' = [ut_state EXCEPT ![u] = "UT_NO_STATE"]
                /\ ut_detached' = [ut_detached EXCEPT ![u] = FALSE]
                /\ waitq' = [waitq EXCEPT ![u] = <<>>]
                /\ stack' = [stack EXCEPT ![u] = <<>>, ![t] = <<"reaper_scan">> \o Tail(@)]
                /\ tgt' = [tgt EXCEPT ![t] = NoThread]
                /\ UNCHANGED halted
           ELSE halted' = "assert" /\ UNCHANGED <<ut_state, ut_detached, waitq, stack, tgt>>
    /\ UNCHANGED <<cpuVars, ut_prio, ut_no_preempt_count, runqVars, pmut, argVars, mtxVars,
                   reap_queue, claimed>>

\* The scan of uthreads[] reads one slot after the other.  It is one step
\* here: a thread in it at the first read stays for the whole scan, only the
\* reaper destroying threads, and only such a thread creates others.
ReaperScan(l, t) ==
    /\ At(l, t, "reaper_scan") /\ reap_queue = <<>>
    /\ halted' = IF \A u \in Threads \ {Reaper} : ut_state[u] = "UT_NO_STATE" THEN "exit" ELSE halted
    /\ Continue(t, <<"reaper_loop">>)
    /\ UNCHANGED <<SyncRest, ut_state, ut_no_preempt_count, pmut, marg, carg, lifeVars>>

-----------------------------------------------------------------------------
LifeInit ==
    /\ SyncInit
    /\ ut_detached = [t \in Threads |-> Contains(Boot, t)]
    /\ reap_queue = <<>>
    /\ tgt = [t \in Threads |-> NoThread]
    /\ claimed = {t \in Threads : Contains(Boot, t)}

LifeLibraryStep(l, t) ==
    \/ ExitCheck(l, t) \/ ExitLock(l, t) \/ ExitSwitch(l, t) \/ Undead(l, t)
    \/ MtxLockedZombie(l, t)
    \/ ReapPmut(l, t) \/ MakeReapable(l, t) \/ ReapUnlock(l, t)
    \/ ReapRelease(l, t) \/ ReapSwitch(l, t) \/ PmutRelock(l, t)
    \/ JoinLock(l, t) \/ JoinWoken(l, t) \/ JoinReap(l, t) \/ DetachCheck(l, t)
    \/ ReaperStart(l, t) \/ ReaperWait(l, t) \/ ReaperTake(l, t)
    \/ ReaperLock(l, t) \/ ReaperDestroy(l, t) \/ ReaperScan(l, t)

LifeClientStep(l, t) ==
    \/ UthreadExit(l, t)
    \/ \E u \in Threads : UthreadJoin(l, t, u) \/ UthreadDetach(l, t, u)

\* uthread_create clears ut_detached of the slot it initialises, and its
\* caller, or the thread itself, may then join or detach the new thread.
Initialised(u) ==
    \E t \in Threads :
        /\ newthr[t] = u /\ stack[t] # <<>> /\ Head(stack[t]) = "create_init"
        /\ Head(stack'[t]) = "startonrunq"
CreateResets ==
    /\ ut_detached' = [u \in Threads |-> ut_detached[u] /\ ~Initialised(u)]
    /\ claimed' = {u \in claimed : ~Initialised(u)}
    /\ UNCHANGED <<reap_queue, tgt>>

LifeNext ==
    \/ SyncNext /\ CreateResets
    \/ /\ halted = "none"
       /\ \E l \in LWPs, t \in Threads : LifeLibraryStep(l, t) \/ LifeClientStep(l, t)

LifeSpec == LifeInit /\ [][LifeNext]_allLifeVars

LifeLwpRuns(l) ==
    \/ SyncLwpRuns(l) /\ CreateResets
    \/ halted = "none" /\ \E t \in Threads : LifeLibraryStep(l, t)

\* The fairness of SyncFairSpec and, for code of the library that the clock
\* may interrupt: a thread that is dispatched again and again gets to execute
\* it, the interval of the timer being longer than a step.
Unmasked(t) == ut_no_preempt_count[t] = 0 /\ halted = "none"
                  /\ \E l \in LWPs : LifeLibraryStep(l, t)

LifeFairSpec ==
    /\ LifeSpec
    /\ \A l \in LWPs : WF_allLifeVars(LifeLwpRuns(l))
    /\ \A t \in Threads : SF_allLifeVars(Unmasked(t))
    /\ SF_allLifeVars(ClockTicks /\ UNCHANGED <<mtxVars, lifeVars>>)

-----------------------------------------------------------------------------
(* Properties.                                                             *)

LifeLabels == {"exit_check", "exit_lock", "exit_switch", "dead", "reap_pmut", "make_reapable",
               "reap_unlock", "reap_release", "join_lock", "join_woken", "join_reap",
               "detach_check", "reaper_loop", "reaper_lock", "reaper_destroy", "reaper_scan"}

\* Every variable of the life cycle has its type.
LifeTypeOK ==
    /\ SchedTypes(Labels \cup SyncLabels \cup LifeLabels)
    /\ m_owner \in [Mutexes -> Threads \cup {NoThread}]
    /\ marg \in [Threads -> Mutexes \cup {NoObj}]
    /\ carg \in [Threads -> Conds \cup {NoObj}]
    /\ crit \in [Threads -> SUBSET Mutexes]
    /\ ut_detached \in [Threads -> BOOLEAN]
    /\ reap_queue \in Seq(Threads)
    /\ tgt \in [Threads -> Threads \cup {NoThread}]
    /\ claimed \subseteq Threads

\* The reaper destroys no thread whose stack an LWP still executes on: "wait
\* for thread to get off its stack: pmut is unlocked when the thread has
\* switched to the LWP's stack".
ReapedOffStack == \A u \in Threads : ut_state[u] = "UT_NO_STATE" => \A l \in LWPs : curthr[l] # u

\* The same for the threads that nobody may join: these the reaper gets only from
\* themselves or from uthread_detach, with their ut_pmut held until they are off
\* their stacks (uthread.c:166-175, 443-446).
DetachedOffStack ==
    \A u \in Threads :
        (\A t \in Threads : <<t, u>> \notin JoinPairs) /\ ut_state[u] = "UT_NO_STATE"
            => \A l \in LWPs : curthr[l] # u

\* A thread never waits for one that is dead: uthread_exit finds every joiner
\* that uthread_join has queued, and uthread_join queues nobody on a thread
\* that has looked.
Looking(u) == stack[u] # <<>> /\ Head(stack[u]) \in {"exit_check", "exit_lock"}
NoJoinerStranded ==
    \A u \in Threads : waitq[u] # <<>> =>
        ut_state[u] \notin {"UT_ZOMBIE", "UT_NO_STATE"} \/ Looking(u)

\* The dead thread that t is about to pass to the reaper, or to destroy.
Buries(t) ==
    /\ tgt[t] # NoThread
    /\ t = Reaper \/ Contains(stack[t], "reap_pmut") \/ Contains(stack[t], "make_reapable")

\* A dead thread is passed to the reaper once: by itself, or by the thread
\* that joined it, or by the one that detached it too late.
BuriedOnce ==
    /\ \A t, u \in Threads : Buries(t) /\ Buries(u) /\ tgt[t] = tgt[u] => t = u
    /\ \A t \in Threads : Buries(t) => ~Contains(reap_queue, tgt[t])
    /\ \A i, j \in DOMAIN reap_queue : reap_queue[i] = reap_queue[j] => i = j

\* No assertion of the life cycle fails and no POSIX mutex is locked twice or
\* unlocked by an LWP that does not own it.
NoAbort == halted \notin {"assert", "PANIC", "EDEADLK", "EPERM", "utqueue_empty"}

\* The process dies in lwp_park only when its own threads are to blame: some
\* exited thread was never joined or detached, or everybody waits in a
\* uthread_join for a thread that waits too.  Otherwise the reaper ends it.
OnlyClientsGetStuck ==
    halted = "lwp_park" =>
        \/ \E u \in Threads : ut_state[u] = "UT_ZOMBIE" /\ u \notin claimed
        \/ /\ \E u \in Threads \ {Reaper} : ut_state[u] # "UT_NO_STATE"
           /\ \A u \in Threads \ {Reaper} :
                 ut_state[u] # "UT_NO_STATE" => \E o \in Threads : Contains(waitq[o], u)

\* A thread that is dead and detached is destroyed, and its slot is free.
DetachedIsReaped ==
    \A u \in Threads :
        ut_state[u] = "UT_ZOMBIE" /\ ut_detached[u] ~> ut_state[u] = "UT_NO_STATE" \/ halted # "none"

\* A uthread_join of a thread that has exited returns.
JoinReturns ==
    \A t, u \in Threads :
        tgt[t] = u /\ t # u /\ ut_state[u] = "UT_ZOMBIE" ~> tgt[t] # u \/ halted # "none"
=============================================================================
