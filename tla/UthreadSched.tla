---------------------------- MODULE UthreadSched ----------------------------
(***************************************************************************)
(* The two-level scheduler of src/systems/cs167/mthreads_stencil: user     *)
(* threads (uthreads) multiplexed on kernel threads (LWPs).                *)
(*                                                                         *)
(* A step is one critical section, or one access to shared state made      *)
(* outside every lock.  Between two steps every other LWP may move.  The   *)
(* continuation of a thread is stack[t], a sequence of labels whose head   *)
(* is the code the thread executes next; <<>> is the client's own code.    *)
(* An LWP executes the thread curthr[l], so a thread moves only while some *)
(* LWP holds it.                                                           *)
(***************************************************************************)
EXTENDS Integers, Sequences, FiniteSets, SequencesExt

CONSTANTS
    Threads,    \* slots of the array uthreads[]
    LWPs,       \* kernel threads: the main one and those of uthread_start_lwp
    MaxPrio,    \* UTH_MAXPRIO
    SyncObjs,   \* objects other than threads that own a wait queue and a POSIX
                \* mutex: uthread mutexes and condition variables
    Boot,       \* threads create_first_thr puts on the run queue, in order
    Creators,   \* threads whose code calls uthread_create
    Calls,      \* entry points of uthread_sched.h the clients use
    NoThread, NoLwp, NoObj

Prios == 0..MaxPrio
Objs  == Threads \cup SyncObjs     \* thread t owns ut_waiter and ut_pmut

ASSUME SchedAssumption ==
    /\ MaxPrio \in Nat
    /\ Boot \in Seq(Threads)
    /\ \A i, j \in 1..Len(Boot) : Boot[i] = Boot[j] => i = j
    /\ Creators \subseteq Threads
    /\ Calls \subseteq {"yield", "block", "wake", "setprio", "enomem"}
    /\ NoThread \notin Threads /\ NoLwp \notin LWPs /\ NoObj \notin Objs
    /\ Threads \cap SyncObjs = {}
    /\ IsFiniteSet(LWPs)

VARIABLES
    curthr,     \* thread on whose stack an LWP executes (ut_curthr, or none
                \* while the LWP is on its own stack in lwp_switch)
    lwp,        \* what an LWP is doing
    ut_state, ut_prio, ut_no_preempt_count,
    runq,       \* runq_table: the lists, oldest thread first
    tq_size,    \* the tq_size counter of each run queue
    runq_mtx,   \* holder of runq_mtx between two steps
    waitq,      \* wait queue of each object
    pmut,       \* LWP that holds the POSIX mutex of each object
    stack,      \* continuation of each thread
    swarg,      \* arguments of the pending uthread_switch
    wakee,      \* argument of the pending uthread_wake
    sparg,      \* arguments and saved priority of the pending uthread_setprio
    newthr,     \* thread the pending uthread_create has allocated
    halted      \* why the process has ended, or "none"

cpuVars   == <<curthr, lwp>>
thrVars   == <<ut_state, ut_prio, ut_no_preempt_count>>
runqVars  == <<runq, tq_size, runq_mtx>>
waitVars  == <<waitq, pmut>>
argVars   == <<swarg, wakee, sparg, newthr>>
schedVars == <<cpuVars, thrVars, runqVars, waitVars, stack, argVars, halted>>

UtStates == {"UT_NO_STATE", "UT_ON_CPU", "UT_RUNNABLE", "UT_WAIT",
             "UT_ZOMBIE", "UT_TRANSITION"}
NoSwitch  == [queue |-> NoObj, saveonrq |-> FALSE, pmut |-> NoObj]
NoSetprio == [thr |-> NoThread, prio |-> 0, old |-> 0]

-----------------------------------------------------------------------------
(* Idioms shared by every action.                                          *)

Running(l, t)   == curthr[l] = t
At(l, t, label) == Running(l, t) /\ stack[t] # <<>> /\ Head(stack[t]) = label
InClient(l, t)  == Running(l, t) /\ stack[t] = <<>>

\* The thread's current frame becomes the frames fs.
Continue(t, fs) == stack' = [stack EXCEPT ![t] = fs \o Tail(@)]
Push(t, fs)     == stack' = [stack EXCEPT ![t] = fs \o @]

NopreemptOn(t)  == ut_no_preempt_count' = [ut_no_preempt_count EXCEPT ![t] = @ + 1]
\* Mutant: the count is dropped twice.
NopreemptOffTwice(t) == ut_no_preempt_count' = [ut_no_preempt_count EXCEPT ![t] = @ - 2]
NopreemptOff(t) == ut_no_preempt_count' = [ut_no_preempt_count EXCEPT ![t] = @ - 1]

\* runq_size is the number of queued threads.
RunqEmpty(rq) == \A p \in Prios : rq[p] = <<>>

Parked(lw)  == {k \in LWPs : lw[k] \in {"parked", "signalled"}}
Started(lw) == {k \in LWPs : lw[k] # "unborn"}

\* lwp_release: pthread_cond_signal picks one of the LWPs still waiting.
LwpRelease(lw) ==
    LET waiting == {k \in LWPs : lw[k] = "parked"}
    IN  IF waiting = {} THEN {lw} ELSE {[lw EXCEPT ![k] = "signalled"] : k \in waiting}

\* uthread_runq_enqueue: the list, the counter, and lwp_release on 0 -> 1.
\* Mutant: the thread goes to the end it is dequeued from.
EnqueuedFirst(rq, p, u) == [rq EXCEPT ![p] = <<u>> \o @]
Enqueued(rq, p, u) == [rq EXCEPT ![p] = Append(@, u)]
SizeUp(sz, p)      == [sz EXCEPT ![p] = @ + 1]
Released(rq, lw)   == IF RunqEmpty(rq) THEN LwpRelease(lw) ELSE {lw}

-----------------------------------------------------------------------------
(* lwp_switch and lwp_park, from the scan of the run queues on: runq_mtx   *)
(* is held on entry and free on exit.  rq, sz, st and lw are the run       *)
(* queues, counters, thread states and LWPs on entry.                      *)

Skipped(rq, sz, p) == \A q \in Prios : q > p => sz[q] = 0 /\ rq[q] = <<>>

PickThread(l, rq, sz, st, lw) ==
    \E p \in Prios :
        /\ sz[p] # 0 /\ rq[p] # <<>> /\ Skipped(rq, sz, p)
        /\ curthr' = [curthr EXCEPT ![l] = Head(rq[p])]
        /\ lwp' = [lw EXCEPT ![l] = "running"]
        /\ runq' = [rq EXCEPT ![p] = Tail(@)]
        /\ tq_size' = [sz EXCEPT ![p] = @ - 1]
        /\ ut_state' = [st EXCEPT ![Head(rq[p])] = "UT_ON_CPU"]
        /\ UNCHANGED halted

\* No thread is runnable: lwp_park asserts that some other LWP is not parked.
Park(l, rq, sz, st, lw) ==
    /\ \A p \in Prios : sz[p] = 0 /\ rq[p] = <<>>
    /\ curthr' = [curthr EXCEPT ![l] = NoThread]
    /\ lwp' = [lw EXCEPT ![l] = "parked"]
    /\ halted' = IF Parked(lwp') = Started(lwp') THEN "lwp_park" ELSE halted
    /\ runq' = rq /\ tq_size' = sz /\ ut_state' = st

\* The assertion of utqueue_empty fails on the first queue scanned whose
\* counter disagrees with its list.
BadQueue(l, rq, sz, st, lw) ==
    /\ \E p \in Prios : (sz[p] = 0) # (rq[p] = <<>>) /\ Skipped(rq, sz, p)
    /\ halted' = "utqueue_empty"
    /\ curthr' = [curthr EXCEPT ![l] = NoThread]
    /\ runq' = rq /\ tq_size' = sz /\ ut_state' = st /\ lwp' = lw

Dispatch(l, rq, sz, st, lw) ==
    \/ PickThread(l, rq, sz, st, lw)
    \/ Park(l, rq, sz, st, lw)
    \/ BadQueue(l, rq, sz, st, lw)

\* lwp_start, and the main LWP at the end of create_first_thr: the first
\* scan of an LWP.  lwp_cnt is Cardinality(Started(lwp)).
LwpStart(l) ==
    /\ lwp[l] = "unborn" /\ runq_mtx = NoLwp
    /\ Dispatch(l, runq, tq_size, ut_state, lwp)
    /\ UNCHANGED <<ut_prio, ut_no_preempt_count, runq_mtx, waitVars, stack, argVars>>

\* An LWP returns from pthread_cond_wait in lwp_park holding runq_mtx, and
\* waits again when another LWP has emptied the run queues meanwhile.
Unpark(l) ==
    /\ lwp[l] = "signalled" /\ runq_mtx = NoLwp
    /\ \/ /\ RunqEmpty(runq)
          /\ lwp' = [lwp EXCEPT ![l] = "parked"]
          /\ UNCHANGED <<curthr, runq, tq_size, ut_state, halted>>
       \/ /\ ~RunqEmpty(runq)
          /\ Dispatch(l, runq, tq_size, ut_state, lwp)
    /\ UNCHANGED <<ut_prio, ut_no_preempt_count, runq_mtx, waitVars, stack, argVars>>

\* POSIX lets pthread_cond_wait return without a signal.
SpuriousWakeup(l) ==
    /\ lwp[l] = "parked"
    /\ lwp' = [lwp EXCEPT ![l] = "signalled"]
    /\ UNCHANGED <<curthr, thrVars, runqVars, waitVars, stack, argVars, halted>>

-----------------------------------------------------------------------------
(* uthread_switch followed by the first half of lwp_switch: leave the      *)
(* stack of t, put t where the arguments say, release the POSIX mutex and  *)
(* scan.  No caller passes a run queue, so that branch does not appear.    *)

Switch(l, t) ==
    /\ At(l, t, "switch") /\ runq_mtx = NoLwp
    /\ LET a    == swarg[t]
           save == a.saveonrq /\ a.queue = NoObj
           rq   == IF save THEN Enqueued(runq, ut_prio[t], t) ELSE runq
           sz   == IF save THEN SizeUp(tq_size, ut_prio[t]) ELSE tq_size
           st   == IF save THEN [ut_state EXCEPT ![t] = "UT_RUNNABLE"] ELSE ut_state
       IN  /\ \E lw \in (IF save THEN Released(runq, lwp) ELSE {lwp}) :
                  Dispatch(l, rq, sz, st, lw)
           /\ waitq' = IF a.queue = NoObj THEN waitq
                       ELSE [waitq EXCEPT ![a.queue] = Append(@, t)]
           /\ pmut' = IF a.pmut = NoObj THEN pmut ELSE [pmut EXCEPT ![a.pmut] = NoLwp]
    /\ swarg' = [swarg EXCEPT ![t] = NoSwitch]
    /\ Continue(t, <<>>)
    /\ UNCHANGED <<ut_prio, ut_no_preempt_count, runq_mtx, wakee, sparg, newthr>>

\* runq_mtx is an error-checking mutex and the wrapper of pthread_mutex_lock
\* aborts when the LWP that owns it locks it again.
SwitchAborts(l, t) ==
    /\ At(l, t, "switch") /\ runq_mtx = l
    /\ halted' = "EDEADLK"
    /\ UNCHANGED <<cpuVars, thrVars, runqVars, waitVars, stack, argVars>>

\* The nopreempt_off that ends most entry points.
Return(l, t) ==
    /\ At(l, t, "nopreempt_off")
    /\ NopreemptOff(t)
    /\ Continue(t, <<>>)
    /\ UNCHANGED <<cpuVars, ut_state, ut_prio, runqVars, waitVars, argVars, halted>>

-----------------------------------------------------------------------------
(* uthread_yield, called by a client, the clock or uthread_setprio.        *)

YieldFrames == <<"yield_lock", "nopreempt_off">>

\* Mutant: uthread_yield without nopreempt_on.
YieldEnterUnmasked(t) ==
    /\ UNCHANGED ut_no_preempt_count
    /\ ut_state' = [ut_state EXCEPT ![t] = "UT_RUNNABLE"]

YieldEnter(t) ==
    /\ NopreemptOn(t)
    /\ ut_state' = [ut_state EXCEPT ![t] = "UT_RUNNABLE"]

UthreadYield(l, t) ==
    /\ "yield" \in Calls /\ InClient(l, t)
    /\ YieldEnter(t) /\ Push(t, YieldFrames)
    /\ UNCHANGED <<cpuVars, ut_prio, runqVars, waitVars, argVars, halted>>

\* SIGVTALRM reaches an LWP only while its thread's count is zero.
ClockInterrupt(l, t) ==
    /\ Running(l, t) /\ ut_no_preempt_count[t] = 0 /\ ut_state[t] = "UT_ON_CPU"
    /\ YieldEnter(t) /\ Push(t, YieldFrames)
    /\ UNCHANGED <<cpuVars, ut_prio, runqVars, waitVars, argVars, halted>>

YieldLock(l, t) ==
    /\ At(l, t, "yield_lock") /\ pmut[t] = NoLwp
    /\ pmut' = [pmut EXCEPT ![t] = l]
    /\ swarg' = [swarg EXCEPT ![t] = [queue |-> NoObj, saveonrq |-> TRUE, pmut |-> t]]
    /\ Continue(t, <<"switch">>)
    /\ UNCHANGED <<cpuVars, thrVars, runqVars, waitq, wakee, sparg, newthr, halted>>

-----------------------------------------------------------------------------
(* uthread_block and uthread_wake.                                         *)

UthreadBlock(l, t) ==
    /\ "block" \in Calls /\ InClient(l, t)
    /\ NopreemptOn(t)
    /\ ut_state' = [ut_state EXCEPT ![t] = "UT_WAIT"]
    /\ Push(t, <<"switch", "nopreempt_off">>)
    /\ UNCHANGED <<cpuVars, ut_prio, runqVars, waitVars, argVars, halted>>

UthreadWake(l, t, u) ==
    /\ "wake" \in Calls /\ InClient(l, t) /\ ut_state[u] # "UT_NO_STATE"
    /\ NopreemptOn(t)
    /\ wakee' = [wakee EXCEPT ![t] = u]
    /\ Push(t, <<"wake">>)
    /\ UNCHANGED <<cpuVars, ut_state, ut_prio, runqVars, waitVars, swarg, sparg, newthr, halted>>

WakeQueues(u) ==
    /\ ut_state' = [ut_state EXCEPT ![u] = "UT_RUNNABLE"]
    /\ runq' = Enqueued(runq, ut_prio[u], u)
    /\ tq_size' = SizeUp(tq_size, ut_prio[u])
    /\ lwp' \in Released(runq, lwp)

\* Mutants: the thread is marked runnable and not queued; it is queued whatever its state.
MakeRunnableUnqueued(u) ==
    /\ ut_state' = [ut_state EXCEPT ![u] = IF @ = "UT_WAIT" THEN "UT_RUNNABLE" ELSE @]
    /\ UNCHANGED <<runq, tq_size, lwp>>
MakeRunnableAlways(u) == WakeQueues(u)

\* "Make sure to only mess with it if it is actually in a wait state."
MakeRunnable(u) ==
    \/ ut_state[u] = "UT_WAIT" /\ WakeQueues(u)
    \/ ut_state[u] # "UT_WAIT" /\ UNCHANGED <<ut_state, runq, tq_size, lwp>>

\* The body of uthread_wake under runq_mtx.  nopreempt_off comes before the
\* unlock: when the caller had preemption enabled, the LWP still owns
\* runq_mtx while it is preemptible again.  The yield to a better priority
\* is never taken, is_masked() being true since nopreempt_on.
Wake(l, t) ==
    /\ At(l, t, "wake") /\ runq_mtx = NoLwp
    /\ MakeRunnable(wakee[t])
    /\ NopreemptOff(t)
    /\ IF ut_no_preempt_count[t] = 1
       THEN runq_mtx' = l /\ Continue(t, <<"wake_unlock">>)
       ELSE runq_mtx' = NoLwp /\ Continue(t, <<>>)
    /\ wakee' = [wakee EXCEPT ![t] = NoThread]
    /\ UNCHANGED <<curthr, ut_prio, waitVars, swarg, sparg, newthr, halted>>

WakeUnlock(l, t) ==
    /\ At(l, t, "wake_unlock")
    /\ runq_mtx' = NoLwp
    /\ Continue(t, <<>>)
    /\ UNCHANGED <<cpuVars, thrVars, runq, tq_size, waitVars, argVars, halted>>

-----------------------------------------------------------------------------
(* uthread_setprio: the state and the priority of thr are read, and the    *)
(* priority is written, before runq_mtx is locked.  The looks at ut_state  *)
(* (147) and at ut_prio (153, 158) are one step, so a change between them  *)
(* is not covered; one between them and the store is.                      *)

SetprioRead(l, t, thr, prio) ==
    /\ "setprio" \in Calls /\ InClient(l, t)
    /\ ut_state[thr] \notin {"UT_NO_STATE", "UT_TRANSITION", "UT_ZOMBIE"}
    /\ ut_prio[thr] # prio
    /\ NopreemptOn(t)
    /\ sparg' = [sparg EXCEPT ![t] = [thr |-> thr, prio |-> prio, old |-> ut_prio[thr]]]
    /\ Push(t, <<"setprio_write">>)
    /\ UNCHANGED <<cpuVars, ut_state, ut_prio, runqVars, waitVars, swarg, wakee, newthr, halted>>

SetprioWrite(l, t) ==
    /\ At(l, t, "setprio_write")
    /\ ut_prio' = [ut_prio EXCEPT ![sparg[t].thr] = sparg[t].prio]
    /\ Continue(t, <<"setprio_lock">>)
    /\ UNCHANGED <<cpuVars, ut_state, ut_no_preempt_count, runqVars, waitVars, argVars, halted>>

\* uthread_runq_requeue: unlink thr from whichever run queue it is on,
\* decrement the counter of the queue of the old priority, enqueue anew.
RequeueAs(thr, from, to) ==
    \/ \E p \in Prios : \E i \in 1..Len(runq[p]) :
          /\ runq[p][i] = thr
          /\ runq' = Enqueued([runq EXCEPT ![p] = RemoveAt(@, i)], to, thr)
          /\ tq_size' = SizeUp(from, to)
    \/ /\ \A p \in Prios : ~Contains(runq[p], thr)
       /\ UNCHANGED <<runq, tq_size>>

\* Mutants: the old queue's counter is left alone; the thread goes back to the
\* queue it came from.
RequeueKeepsCount(thr, old) == RequeueAs(thr, tq_size, ut_prio[thr])
RequeueInPlace(thr, old) == RequeueAs(thr, [tq_size EXCEPT ![old] = @ - 1], old)

Requeue(thr, old) == RequeueAs(thr, [tq_size EXCEPT ![old] = @ - 1], ut_prio[thr])

\* Raising a runnable thread above the caller yields with runq_mtx held.
SetprioLock(l, t) ==
    /\ At(l, t, "setprio_lock") /\ runq_mtx = NoLwp
    /\ LET thr == sparg[t].thr
           raised == sparg[t].prio > ut_prio[t] /\ ut_state[thr] = "UT_RUNNABLE"
       IN  /\ \/ ut_state[thr] = "UT_RUNNABLE" /\ Requeue(thr, sparg[t].old)
              \/ ut_state[thr] # "UT_RUNNABLE" /\ UNCHANGED <<runq, tq_size>>
           /\ \/ raised /\ YieldEnter(t) /\ runq_mtx' = l /\ Continue(t, YieldFrames)
              \/ /\ ~raised /\ NopreemptOff(t) /\ Continue(t, <<>>)
                 /\ UNCHANGED <<ut_state, runq_mtx>>
    /\ sparg' = [sparg EXCEPT ![t] = NoSetprio]
    /\ UNCHANGED <<cpuVars, ut_prio, waitVars, swarg, wakee, newthr, halted>>

-----------------------------------------------------------------------------
(* uthread_create: uthread_alloc finds a free slot and then claims it, with *)
(* only the preemption of its own LWP masked.                               *)

AllocFound(l, t, u) ==
    /\ t \in Creators /\ InClient(l, t) /\ ut_state[u] = "UT_NO_STATE"
    /\ newthr' = [newthr EXCEPT ![t] = u]
    /\ Push(t, <<"alloc_claim">>)
    /\ UNCHANGED <<cpuVars, ut_state, ut_prio, runqVars, waitVars, swarg, wakee, sparg, halted>>

\* Mutant: the scan is not masked, so one creator can preempt another.
AllocScanUnmasked(l, t, u) == AllocFound(l, t, u) /\ UNCHANGED ut_no_preempt_count

AllocScan(l, t, u) == AllocFound(l, t, u) /\ NopreemptOn(t)

AllocClaim(l, t) ==
    /\ At(l, t, "alloc_claim")
    /\ ut_state' = [ut_state EXCEPT ![newthr[t]] = "UT_TRANSITION"]
    /\ NopreemptOff(t)
    /\ Continue(t, <<"create_init">>)
    /\ UNCHANGED <<cpuVars, ut_prio, runqVars, waitVars, argVars, halted>>

\* A new thread starts with preemption masked once; thread_start unmasks it.
CreateInit(l, t) ==
    /\ At(l, t, "create_init")
    /\ LET u == newthr[t]
       IN  /\ ut_prio' = [ut_prio EXCEPT ![u] = -1]
           /\ waitq' = [waitq EXCEPT ![u] = <<>>]
           /\ pmut' = [pmut EXCEPT ![u] = NoLwp]
           /\ stack' = [stack EXCEPT ![u] = <<"nopreempt_off">>,
                                     ![t] = <<"startonrunq">> \o Tail(@)]
           /\ ut_no_preempt_count' = [ut_no_preempt_count EXCEPT ![u] = 1, ![t] = @ + 1]
    /\ UNCHANGED <<cpuVars, ut_state, runqVars, argVars, halted>>

\* alloc_stack returns NULL: uthread_create returns -1, the slot stays claimed.
AllocStackFails(l, t) ==
    /\ "enomem" \in Calls /\ At(l, t, "create_init")
    /\ newthr' = [newthr EXCEPT ![t] = NoThread]
    /\ Continue(t, <<>>)
    /\ UNCHANGED <<cpuVars, thrVars, runqVars, waitVars, swarg, wakee, sparg, halted>>

StartOnRunq(l, t, prio) ==
    /\ At(l, t, "startonrunq") /\ runq_mtx = NoLwp
    /\ LET u == newthr[t]
       IN  /\ ut_prio' = [ut_prio EXCEPT ![u] = prio]
           /\ IF ut_state[u] = "UT_TRANSITION"
              THEN /\ ut_state' = [ut_state EXCEPT ![u] = "UT_RUNNABLE"]
                   /\ runq' = Enqueued(runq, prio, u)
                   /\ tq_size' = SizeUp(tq_size, prio)
                   /\ lwp' \in Released(runq, lwp)
                   /\ NopreemptOff(t)
                   /\ newthr' = [newthr EXCEPT ![t] = NoThread]
                   /\ Continue(t, <<>>)
                   /\ UNCHANGED halted
              ELSE /\ halted' = "PANIC"
                   /\ UNCHANGED <<ut_state, ut_no_preempt_count, runq, tq_size, lwp, newthr, stack>>
    /\ UNCHANGED <<curthr, runq_mtx, waitVars, swarg, wakee, sparg>>

-----------------------------------------------------------------------------
SchedInit ==
    /\ curthr = [l \in LWPs |-> NoThread]
    /\ lwp = [l \in LWPs |-> "unborn"]
    /\ ut_state = [t \in Threads |-> IF Contains(Boot, t) THEN "UT_RUNNABLE" ELSE "UT_NO_STATE"]
    /\ ut_prio = [t \in Threads |-> IF Contains(Boot, t) THEN MaxPrio ELSE 0]
    /\ ut_no_preempt_count = [t \in Threads |-> IF Contains(Boot, t) THEN 1 ELSE 0]
    /\ runq = [p \in Prios |-> IF p = MaxPrio THEN Boot ELSE <<>>]
    /\ tq_size = [p \in Prios |-> IF p = MaxPrio THEN Len(Boot) ELSE 0]
    /\ runq_mtx = NoLwp
    /\ waitq = [o \in Objs |-> <<>>]
    /\ pmut = [o \in Objs |-> NoLwp]
    /\ stack = [t \in Threads |-> IF Contains(Boot, t) THEN <<"nopreempt_off">> ELSE <<>>]
    /\ swarg = [t \in Threads |-> NoSwitch]
    /\ wakee = [t \in Threads |-> NoThread]
    /\ sparg = [t \in Threads |-> NoSetprio]
    /\ newthr = [t \in Threads |-> NoThread]
    /\ halted = "none"

LwpStep(l) == LwpStart(l) \/ Unpark(l) \/ SpuriousWakeup(l)

\* What a thread does inside the library once it has been entered.
LibraryStep(l, t) ==
    \/ Switch(l, t) \/ SwitchAborts(l, t) \/ Return(l, t)
    \/ YieldLock(l, t)
    \/ Wake(l, t) \/ WakeUnlock(l, t)
    \/ SetprioWrite(l, t) \/ SetprioLock(l, t)
    \/ AllocClaim(l, t) \/ CreateInit(l, t) \/ AllocStackFails(l, t)
    \/ \E prio \in Prios : StartOnRunq(l, t, prio)

ClientStep(l, t) ==
    \/ UthreadYield(l, t)
    \/ UthreadBlock(l, t)
    \/ \E u \in Threads :
          \/ UthreadWake(l, t, u)
          \/ AllocScan(l, t, u)
          \/ \E prio \in Prios : SetprioRead(l, t, u, prio)

SchedNext ==
    /\ halted = "none"
    /\ \E l \in LWPs :
          \/ LwpStep(l)
          \/ \E t \in Threads :
                LibraryStep(l, t) \/ ClientStep(l, t) \/ ClockInterrupt(l, t)

SchedSpec == SchedInit /\ [][SchedNext]_schedVars

\* The kernel runs every LWP.  The interval timer is process-wide: a SIGVTALRM
\* that every LWP masks stays pending and is taken by the first LWP to unmask
\* it, hence strong fairness; which LWP that is, and what client code does,
\* is left open.
LwpRuns(l) == /\ halted = "none"
              /\ LwpStart(l) \/ Unpark(l) \/ \E t \in Threads : LibraryStep(l, t)
ClockTicks == halted = "none" /\ \E l \in LWPs, t \in Threads : ClockInterrupt(l, t)

SchedFairSpec ==
    /\ SchedSpec
    /\ \A l \in LWPs : WF_schedVars(LwpRuns(l))
    /\ SF_schedVars(ClockTicks)

-----------------------------------------------------------------------------
(* Properties.                                                             *)

Labels == {"yield_lock", "switch", "nopreempt_off", "wake", "wake_unlock",
           "setprio_write", "setprio_lock", "alloc_claim", "create_init", "startonrunq"}

\* The types of the scheduler's variables when the frames come from labels.
SchedTypes(labels) ==
    /\ curthr \in [LWPs -> Threads \cup {NoThread}]
    /\ lwp \in [LWPs -> {"unborn", "running", "parked", "signalled"}]
    /\ ut_state \in [Threads -> UtStates]
    /\ ut_prio \in [Threads -> Prios \cup {-1}]
    /\ ut_no_preempt_count \in [Threads -> Nat]
    /\ runq \in [Prios -> Seq(Threads)]
    /\ tq_size \in [Prios -> Int]
    /\ runq_mtx \in LWPs \cup {NoLwp}
    /\ waitq \in [Objs -> Seq(Threads)]
    /\ pmut \in [Objs -> LWPs \cup {NoLwp}]
    /\ stack \in [Threads -> Seq(labels)]
    /\ swarg \in [Threads -> [queue : Objs \cup {NoObj}, saveonrq : BOOLEAN, pmut : Objs \cup {NoObj}]]
    /\ wakee \in [Threads -> Threads \cup {NoThread}]
    /\ sparg \in [Threads -> [thr : Threads \cup {NoThread}, prio : Prios, old : Prios \cup {-1}]]
    /\ newthr \in [Threads -> Threads \cup {NoThread}]
    /\ halted \in {"none", "exit", "EDEADLK", "EPERM", "lwp_park", "utqueue_empty", "PANIC", "assert"}

\* Every variable has its type: uthreads[], the run queues, the LWPs and the
\* arguments the library keeps between two steps.
SchedTypeOK == SchedTypes(Labels)

\* No two LWPs execute on the stack of one thread, and a thread on the run
\* queue is there once and executes nowhere: uthread_yield and uthread_switch
\* put a thread on a queue only after its LWP has left the thread's stack.
OneStackOneLwp ==
    /\ \A l, k \in LWPs : curthr[l] = curthr[k] /\ curthr[l] # NoThread => l = k
    /\ \A p \in Prios : \A i \in 1..Len(runq[p]) :
          /\ \A l \in LWPs : curthr[l] # runq[p][i]
          /\ \A q \in Prios : \A j \in 1..Len(runq[q]) :
                runq[p][i] = runq[q][j] => p = q /\ i = j

\* The counter of each run queue agrees with its list, as utqueue_empty
\* asserts, although uthread_setprio moves threads between the lists.
QueueCountsAgree == \A p \in Prios : tq_size[p] = Len(runq[p])

\* A runnable thread waits on the run queue of its own priority, except
\* while a uthread_setprio that has already stored the new priority has
\* still to move it.
QueuedAtItsPriority ==
    \A p \in Prios : \A i \in 1..Len(runq[p]) :
        \/ ut_prio[runq[p][i]] = p
        \/ \E t \in Threads : sparg[t].thr = runq[p][i]

\* An LWP whose thread can be preempted owns neither runq_mtx nor any other
\* POSIX mutex: otherwise the clock takes it into uthread_yield, which locks
\* runq_mtx and moves the thread, and the unlock, to another LWP.
NoLockWhilePreemptible ==
    \A l \in LWPs :
        curthr[l] # NoThread /\ ut_no_preempt_count[curthr[l]] = 0
            => runq_mtx # l /\ \A o \in Objs : pmut[o] # l

\* The assertion of lwp_park fires only when nothing can ever run again: no
\* thread is runnable or on a processor.
ParkAssertMeansStuck ==
    halted = "lwp_park" =>
        /\ RunqEmpty(runq) /\ \A l \in LWPs : curthr[l] = NoThread
        /\ \A t \in Threads : ut_state[t] \notin {"UT_RUNNABLE", "UT_ON_CPU"}

\* Once queued, a thread gets a processor (or the process ends), whatever the
\* running threads do: at equal priorities the clock serves the queue in turn.
Queued(t) == \E p \in Prios : Contains(runq[p], t)
RunnableThreadRuns == \A t \in Threads : Queued(t) ~> ~Queued(t) \/ halted # "none"

\* "A uthread has become runnable. Wake up an LWP to deal with it.": no thread
\* stays queued for ever while an LWP stays parked.
IdleLwpTakesThread ==
    \A t \in Threads, l \in LWPs :
        Queued(t) /\ lwp[l] = "parked" ~> ~Queued(t) \/ lwp[l] # "parked" \/ halted # "none"

\* uthread_setprio yields "if its priority is better than caller's": it does
\* not end the process by locking a mutex that its own LWP holds.
NoSelfDeadlock == halted # "EDEADLK"

\* A slot handed out by uthread_alloc belongs to one uthread_create only.
AllocatedOnce ==
    \A t, u \in Threads : newthr[t] = newthr[u] /\ newthr[t] # NoThread => t = u
=============================================================================
