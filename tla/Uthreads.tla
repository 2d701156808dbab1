-------------------------------- MODULE Uthreads --------------------------------
(***************************************************************************)
(* The one-processor thread library systems/cs167/uthreads_stencil: the    *)
(* priority run queues, the time slicer, mutexes, condition variables and  *)
(* the life of a thread.  One thread runs at a time; the others' calls are *)
(* kept as stacks of what they still have to do.  A step is what no        *)
(* SIGVTALRM can interrupt.                                                *)
(*                                                                         *)
(* The model starts when the reaper waits for work and the first thread    *)
(* has created the clients of First and is gone.                           *)
(* Its uthread_mtx_lock has no matching uthread_nopreempt_off by then, so  *)
(* uthread_no_preempt_count stays above 0 for good, uthread_nopreempt_off  *)
(* never clears the mask, and only uthread_nopreempt_reset does.           *)
(***************************************************************************)
EXTENDS Integers, FiniteSets, SequencesExt

CONSTANTS Threads,       \* the clients' slots in `uthreads`
          reaper,
          First,         \* the clients that exist at the start
          UTH_MAXPRIO,   \* the reaper's priority
          ClientPrios,   \* those of the clients
          Joiner,        \* the thread that joins with each client; its own name: it is detached
          Depth,         \* bound on the calls under which the clock strikes
          None

VARIABLES
    ticks,        \* the clock may strike; a behaviour has either ticks or threads that exit
    ut_curthr,
    no_preempt,   \* uthread_no_preempt
    ut_state,
    ut_prio,
    ut_waiter, ut_detached,
    runq_table,   \* the run queue of each priority
    m_owner, m_waiters, uc_waiters,   \* of each mutex, and the condition of the same name
    reap_queue,
    todo,         \* todo[t]: what t still has to do, innermost call first
    holders,      \* who has returned from locking the client's mutex
    aborted,      \* an assert has failed
    astray        \* one of three things has happened: uthread_switch has found nothing to run, and
                  \* returned all the same; uthread_cond_wait has queued its caller unmasked, as
                  \* the wake in its unlock has yielded; a thread that exits has slept for
                  \* reap_mtx, and UT_ON_CPU has taken the place of its UT_ZOMBIE

utVars == <<ticks, ut_curthr, no_preempt, ut_state, ut_prio, ut_waiter, ut_detached,
            runq_table, m_owner, m_waiters, uc_waiters, reap_queue, todo, holders, aborted, astray>>

All     == Threads \cup {reaper}
Mutexes == {"mtx", "reap"}
Prios   == 0 .. UTH_MAXPRIO

Yield == <<<<"yield">>, <<"enqueue">>, <<"switch">>, <<"reset">>>>
Block == <<<<"block">>, <<"switch">>, <<"reset">>>>

Init ==
    /\ ticks \in BOOLEAN
    /\ ut_prio \in [All -> ClientPrios \cup {UTH_MAXPRIO}]
    /\ ut_prio[reaper] = UTH_MAXPRIO
    /\ \A t \in Threads : ut_prio[t] \in ClientPrios
    /\ ut_curthr \in First
    /\ no_preempt = FALSE
    /\ ut_state = [t \in All |-> IF t = ut_curthr THEN "UT_ON_CPU"
                                 ELSE IF t \in First THEN "UT_RUNNABLE"
                                 ELSE IF t = reaper THEN "UT_WAIT" ELSE "UT_NO_STATE"]
    /\ ut_waiter = [t \in All |-> None]
    /\ ut_detached = [t \in All |-> FALSE]
    /\ runq_table = [p \in Prios |-> SelectSeq(SetToSeq(First \ {ut_curthr}),
                                              LAMBDA t : ut_prio[t] = p)]
    /\ m_owner = [m \in Mutexes |-> None]
    /\ m_waiters = [m \in Mutexes |-> <<>>]
    /\ uc_waiters = [m \in Mutexes |-> IF m = "reap" THEN <<reaper>> ELSE <<>>]
    /\ reap_queue = <<>>
    /\ todo = [t \in All |-> IF t = reaper THEN <<<<"reset">>, <<"lock", "reap">>, <<"reaper">>>>
                             ELSE <<>>]
    /\ holders = {} /\ aborted = FALSE /\ astray = FALSE

------------------------------------------------------------------------------
Me     == ut_curthr
Now(op) == ~aborted /\ todo[Me] # <<>> /\ todo[Me][1][1] = op
Arg    == todo[Me][1][2]

\* The step is done, and calls is what it calls next.
Then(calls) == todo' = [todo EXCEPT ![Me] = calls \o Tail(@)]

Queues == {runq_table[p] : p \in Prios} \cup {m_waiters[m] : m \in Mutexes}
          \cup {uc_waiters[m] : m \in Mutexes} \cup {reap_queue}
Linked(t) == \E q \in Queues : \E i \in DOMAIN q : q[i] = t

\* utqueue_enqueue's assert; FIFO: in at the head, out at the tail.
Enqueued(q, t) == Append(q, t)
Fails(t) == Linked(t) /\ aborted' = TRUE
Fine(t)  == ~Linked(t) /\ UNCHANGED aborted

\* clock_interrupt: a uthread_yield on top of whatever the thread does.
clock_interrupt ==
    /\ ticks /\ ~no_preempt /\ ~aborted
    /\ Len(todo[Me]) <= Depth
    /\ todo' = [todo EXCEPT ![Me] = Yield \o @]
    /\ UNCHANGED <<ticks, ut_prio, ut_curthr, no_preempt, ut_state, ut_waiter, ut_detached, runq_table,
                   m_owner, m_waiters, uc_waiters, reap_queue, holders, aborted, astray>>

------------------------------------------------------------------------------
(* uthread_sched.c *)

uthread_yield ==
    \/ /\ Now("yield") /\ Then(<<>>)
       /\ ut_state' = [ut_state EXCEPT ![Me] = "UT_RUNNABLE"]
       /\ UNCHANGED <<no_preempt, runq_table, aborted>>
    \/ /\ Now("enqueue") /\ Then(<<>>)
       /\ no_preempt' = TRUE
       /\ Fails(Me) \/ Fine(Me)
       /\ runq_table' = [runq_table EXCEPT ![ut_prio[Me]] = Enqueued(@, Me)]
       /\ UNCHANGED ut_state

\* It is in uthread_exit; what it may sleep for there is reap_mtx.
Exiting == Contains(todo[Me], <<"panic">>)

uthread_block == /\ Now("block") /\ Then(<<>>)
                 /\ ut_state' = [ut_state EXCEPT ![Me] = "UT_WAIT"]
                 /\ astray' = (astray \/ Exiting)
                 /\ UNCHANGED <<no_preempt, runq_table, aborted>>

\* Only a waiting thread is woken; the test and the enqueue are two steps.
uthread_wake ==
    \/ /\ Now("wake")
       /\ IF ut_state[Arg] = "UT_WAIT"
          THEN Then(<<<<"wake2", Arg>>>>) /\ ut_state' = [ut_state EXCEPT ![Arg] = "UT_RUNNABLE"]
          ELSE Then(<<>>) /\ UNCHANGED ut_state
       /\ UNCHANGED <<no_preempt, runq_table, aborted>>
    \/ /\ Now("wake2")
       /\ no_preempt' = TRUE
       /\ Fails(Arg) \/ Fine(Arg)
       /\ runq_table' = [runq_table EXCEPT ![ut_prio[Arg]] = Enqueued(@, Arg)]
       /\ Then(IF ut_prio[Arg] > ut_prio[Me] /\ ut_state[Me] = "UT_ON_CPU" THEN Yield ELSE <<>>)
       /\ UNCHANGED ut_state

\* uthread_nopreempt_reset, also by thread_start.
uthread_nopreempt_reset == /\ Now("reset") /\ Then(<<>>)
                           /\ no_preempt' = FALSE
                           /\ UNCHANGED <<ut_state, runq_table, aborted>>

SchedStep == /\ \/ uthread_block
                \/ (uthread_yield \/ uthread_wake \/ uthread_nopreempt_reset) /\ UNCHANGED astray
             /\ UNCHANGED <<ticks, ut_prio, ut_curthr, ut_waiter, ut_detached, m_owner, m_waiters,
                            uc_waiters, reap_queue, holders>>

\* uthread_switch: a waiting thread looks at all the queues, any other one only at those of
\* its own priority and above.  When it finds nothing, it returns, except to priority 1.
Candidates == {p \in Prios : /\ runq_table[p] # <<>>
                             /\ ut_state[Me] = "UT_WAIT" \/ p >= ut_prio[Me]}
uthread_switch ==
    /\ Now("switch")
    /\ no_preempt' = TRUE
    /\ IF Candidates = {}
       THEN /\ astray' = TRUE
            /\ IF ut_state[Me] # "UT_WAIT" /\ ut_prio[Me] = 1 THEN UNCHANGED todo ELSE Then(<<>>)
            /\ UNCHANGED <<ut_curthr, ut_state, runq_table>>
       ELSE LET p    == CHOOSE i \in Candidates : \A j \in Candidates : j <= i
                next == Head(runq_table[p])
            IN  /\ runq_table' = [runq_table EXCEPT ![p] = Tail(@)]
                /\ ut_curthr' = next
                /\ ut_state' = [ut_state EXCEPT ![next] = "UT_ON_CPU"]
                /\ Then(<<>>)
                /\ UNCHANGED astray
    /\ UNCHANGED <<ticks, ut_prio, ut_waiter, ut_detached, m_owner, m_waiters, uc_waiters, reap_queue,
                   holders, aborted>>

------------------------------------------------------------------------------
(* uthread_mtx.c and uthread_cond.c: from uthread_nopreempt_on on, nothing interrupts. *)

uthread_mtx_lock ==
    \/ /\ Now("lock")
       /\ no_preempt' = TRUE
       /\ IF m_owner[Arg] = None
          THEN Then(<<<<"own", Arg>>>>) /\ UNCHANGED <<m_waiters, aborted>>
          ELSE /\ Fails(Me) \/ Fine(Me)
               /\ m_waiters' = [m_waiters EXCEPT ![Arg] = Enqueued(@, Me)]
               /\ Then(Append(Block, <<"own", Arg>>))
       /\ UNCHANGED <<m_owner, uc_waiters, holders>>
    \/ /\ Now("own") /\ Then(<<>>)
       /\ m_owner' = [m_owner EXCEPT ![Arg] = Me]
       /\ holders' = IF Arg = "mtx" THEN holders \cup {Me} ELSE holders
       /\ UNCHANGED <<no_preempt, m_waiters, uc_waiters, aborted>>

\* Mutant of uthread_mtx_unlock: m_owner is cleared when a waiter is woken, too.
UnlockFrees ==
    /\ Now("unlock")
    /\ no_preempt' = TRUE
    /\ m_owner' = [m_owner EXCEPT ![Arg] = None]
    /\ m_waiters' = [m_waiters EXCEPT ![Arg] = IF @ = <<>> THEN @ ELSE Tail(@)]
    /\ Then(IF m_waiters[Arg] = <<>> THEN <<>> ELSE <<<<"wake", Head(m_waiters[Arg])>>>>)
    /\ holders' = IF Arg = "mtx" THEN holders \ {Me} ELSE holders
    /\ UNCHANGED <<uc_waiters, aborted>>

\* A waiter is woken, and m_owner keeps the old owner until it runs.
uthread_mtx_unlock ==
    /\ Now("unlock")
    /\ no_preempt' = TRUE
    /\ IF m_waiters[Arg] = <<>>
       THEN Then(<<>>) /\ m_owner' = [m_owner EXCEPT ![Arg] = None] /\ UNCHANGED m_waiters
       ELSE /\ m_waiters' = [m_waiters EXCEPT ![Arg] = Tail(@)]
            /\ Then(<<<<"wake", Head(m_waiters[Arg])>>>>)
            /\ UNCHANGED m_owner
    /\ holders' = IF Arg = "mtx" THEN holders \ {Me} ELSE holders
    /\ UNCHANGED <<uc_waiters, aborted>>

uthread_cond_wait ==
    \/ /\ Now("cond_wait")
       /\ no_preempt' = TRUE
       /\ Then(<<<<"unlock", Arg>>, <<"cond_block", Arg>>, <<"lock", Arg>>>>)
       /\ UNCHANGED <<m_owner, m_waiters, uc_waiters, holders, aborted, astray>>
    \/ /\ Now("cond_block")
       /\ Fails(Me) \/ Fine(Me)
       /\ uc_waiters' = [uc_waiters EXCEPT ![Arg] = Enqueued(@, Me)]
       /\ Then(Block)
       /\ astray' = (astray \/ ~no_preempt)
       /\ UNCHANGED <<no_preempt, m_owner, m_waiters, holders>>

\* signal, and one turn of broadcast.
uthread_cond_signal ==
    /\ Now("signal") \/ Now("broadcast")
    /\ no_preempt' = TRUE
    /\ IF uc_waiters[Arg] = <<>> THEN Then(<<>>) /\ UNCHANGED uc_waiters
       ELSE /\ uc_waiters' = [uc_waiters EXCEPT ![Arg] = Tail(@)]
            /\ Then(<<<<"wake", Head(uc_waiters[Arg])>>>>
                    \o IF Now("broadcast") THEN <<<<"broadcast", Arg>>>> ELSE <<>>)
    /\ UNCHANGED <<m_owner, m_waiters, holders, aborted>>

SyncStep == /\ \/ uthread_cond_wait
               \/ (uthread_mtx_lock \/ uthread_mtx_unlock \/ uthread_cond_signal) /\ UNCHANGED astray
            /\ UNCHANGED <<ticks, ut_prio, ut_curthr, ut_state, ut_waiter, ut_detached, runq_table,
                           reap_queue>>

------------------------------------------------------------------------------
(* uthread.c *)

make_reapable(u) == <<<<"reapable", u>>, <<"lock", "reap">>, <<"insert", u>>,
                      <<"signal", "reap">>, <<"unlock", "reap">>>>

ReapSteps ==
    \/ /\ Now("reapable") /\ Then(<<>>)
       /\ aborted' = ~(ut_detached[Arg] /\ ut_state[Arg] = "UT_ZOMBIE")
       /\ UNCHANGED reap_queue
    \/ /\ Now("insert") /\ Then(<<>>)
       /\ reap_queue' = Append(reap_queue, Arg)
       /\ UNCHANGED aborted

\* The end of uthread_exit: PANIC("returned to a dead thread").
Panic == Now("panic") /\ aborted' = TRUE /\ UNCHANGED <<todo, reap_queue>>

\* uthread_destroy for everything in the queue; with no thread left, exit(0).
Destroyed(t) == \E i \in DOMAIN reap_queue : reap_queue[i] = t
Reaper ==
    /\ Now("reaper")
    /\ IF reap_queue = <<>>
       THEN /\ Then(<<<<"cond_wait", "reap">>, <<"reaper">>>>)
            /\ UNCHANGED <<ut_state, ut_waiter, ut_detached, reap_queue>>
       ELSE /\ ut_state' = [t \in All |-> IF Destroyed(t) THEN "UT_NO_STATE" ELSE ut_state[t]]
            /\ ut_waiter' = [t \in All |-> IF Destroyed(t) THEN None ELSE ut_waiter[t]]
            /\ ut_detached' = [t \in All |-> ~Destroyed(t) /\ ut_detached[t]]
            /\ reap_queue' = <<>>
            /\ Then(IF \A t \in Threads : ut_state'[t] = "UT_NO_STATE" THEN <<<<"exit(0)">>>>
                    ELSE <<<<"reaper">>>>)

\* Mutant of uthread_exit: the joiner is not woken.
ExitUnnoticed == /\ ut_state' = [ut_state EXCEPT ![Me] = "UT_ZOMBIE"]
                 /\ todo' = [todo EXCEPT ![Me] =
                       (IF ut_detached[Me] THEN make_reapable(Me) ELSE <<>>)
                       \o <<<<"switch">>, <<"panic">>>>]
                 /\ UNCHANGED <<no_preempt, runq_table, ut_waiter, ut_detached>>

uthread_exit == /\ ut_state' = [ut_state EXCEPT ![Me] = "UT_ZOMBIE"]
                /\ todo' = [todo EXCEPT ![Me] =
                      (IF ut_detached[Me] THEN make_reapable(Me)
                       ELSE IF ut_waiter[Me] # None THEN <<<<"wake", ut_waiter[Me]>>>> ELSE <<>>)
                      \o <<<<"switch">>, <<"panic">>>>]
                /\ UNCHANGED <<no_preempt, runq_table, ut_waiter, ut_detached>>

\* A client that joins knows the thread exists and joins once.
uthread_join(u) == /\ Joiner[u] = Me /\ u # Me /\ ut_state[u] # "UT_NO_STATE"
                   /\ ut_waiter[u] = None /\ ~ut_detached[u]
                   /\ IF ut_state[u] = "UT_ZOMBIE"
                      THEN /\ todo' = [todo EXCEPT ![Me] = <<<<"joined", u>>>>]
                           /\ UNCHANGED ut_waiter
                      ELSE /\ ut_waiter' = [ut_waiter EXCEPT ![u] = Me]
                           /\ todo' = [todo EXCEPT ![Me] = Append(Block, <<"joined", u>>)]
                   /\ UNCHANGED <<no_preempt, runq_table, ut_state, ut_detached>>

Joined == /\ Now("joined")
          /\ ut_detached' = [ut_detached EXCEPT ![Arg] = TRUE]
          /\ Then(make_reapable(Arg))
          /\ UNCHANGED <<no_preempt, runq_table, ut_state, ut_waiter>>

uthread_detach(u) == /\ Joiner[u] = u /\ ut_state[u] # "UT_NO_STATE" /\ ~ut_detached[u]
                     /\ ut_detached' = [ut_detached EXCEPT ![u] = TRUE]
                     /\ todo' = [todo EXCEPT ![Me] = IF ut_state[u] = "UT_ZOMBIE"
                                                     THEN make_reapable(u) ELSE <<>>]
                     /\ UNCHANGED <<no_preempt, runq_table, ut_state, ut_waiter>>

\* uthread_create, with the uthread_setprio that makes the thread runnable.
uthread_create(u) == /\ ut_state[u] = "UT_NO_STATE"
                     /\ ut_state' = [ut_state EXCEPT ![u] = "UT_RUNNABLE"]
                     /\ no_preempt' = TRUE
                     /\ runq_table' = [runq_table EXCEPT ![ut_prio[u]] = Enqueued(@, u)]
                     /\ todo' = [todo EXCEPT ![u] = <<<<"reset">>>>,
                                             ![Me] = IF ut_prio[u] > ut_prio[Me] THEN Yield ELSE <<>>]
                     /\ UNCHANGED <<ut_waiter, ut_detached>>

LifeStep == \/ /\ ReapSteps \/ Panic
               /\ UNCHANGED <<no_preempt, runq_table, ut_state, ut_waiter, ut_detached>>
            \/ Reaper /\ UNCHANGED <<no_preempt, runq_table, aborted>>
            \/ Joined /\ UNCHANGED <<reap_queue, aborted>>

\* What the running client calls next.
Idle == ~aborted /\ todo[Me] = <<>> /\ Me # reaper

LifeCall == /\ Idle /\ ~ticks
            /\ \/ Me \notin holders /\ uthread_exit
               \/ \E u \in Threads : uthread_join(u) \/ uthread_detach(u) \/ uthread_create(u)
            /\ UNCHANGED <<reap_queue, aborted>>

Call == /\ Idle
        /\ \E calls \in {Yield, <<<<"signal", "mtx">>>>, <<<<"broadcast", "mtx">>>>}
                        \cup IF Me \in holders
                             THEN {<<<<"unlock", "mtx">>>>, <<<<"cond_wait", "mtx">>>>}
                             ELSE {<<<<"lock", "mtx">>>>} :
              todo' = [todo EXCEPT ![Me] = calls]
        /\ UNCHANGED <<ticks, ut_prio, ut_curthr, no_preempt, ut_state, ut_waiter, ut_detached,
                       runq_table, m_owner, m_waiters, uc_waiters, reap_queue, holders,
                       aborted, astray>>

\* A trylock that fails leaves preemption masked, like every uthread_nopreempt_off.
uthread_mtx_trylock ==
    /\ Idle /\ Me \notin holders
    /\ no_preempt' = TRUE
    /\ IF m_owner["mtx"] = None
       THEN m_owner' = [m_owner EXCEPT !["mtx"] = Me] /\ holders' = holders \cup {Me}
       ELSE UNCHANGED <<m_owner, holders>>
    /\ UNCHANGED <<ticks, ut_prio, ut_curthr, ut_state, ut_waiter, ut_detached, runq_table, m_waiters,
                   uc_waiters, reap_queue, todo, aborted, astray>>

Next == \/ clock_interrupt \/ SchedStep \/ uthread_switch \/ SyncStep
        \/ LifeStep /\ UNCHANGED <<ticks, ut_prio, ut_curthr, m_owner, m_waiters, uc_waiters, holders, astray>>
        \/ LifeCall /\ UNCHANGED <<ticks, ut_prio, ut_curthr, m_owner, m_waiters, uc_waiters, holders, astray>>
        \/ Call \/ uthread_mtx_trylock

Spec == Init /\ [][Next]_utVars

------------------------------------------------------------------------------
\* As long as uthread_switch has always found a thread to run, at most one thread is
\* between a lock that has returned and its unlock, and m_owner names it: although
\* uthread_mtx_unlock passes no ownership on, and the clock may strike before the woken
\* thread stores its own.
MutualExclusion == ~astray => /\ Cardinality(holders) <= 1
                             /\ \A t \in holders : m_owner["mtx"] = t

BeingWoken(t) == \E o \in All : \E i \in DOMAIN todo[o] :
                    todo[o][i] \in {<<"wake", t>>, <<"wake2", t>>}
Joining(t)    == \E u \in Threads : ut_waiter[u] = t /\ ut_state[u] \notin {"UT_ZOMBIE", "UT_NO_STATE"}
Waits(t)      == \E m \in Mutexes : \E q \in {m_waiters[m], uc_waiters[m]} : Contains(q, t)

Homes(t) == UNION {{<<"run", p, i>> : i \in {j \in DOMAIN runq_table[p] : runq_table[p][j] = t}} : p \in Prios}
            \cup UNION {{<<"mtx", m, i>> : i \in {j \in DOMAIN m_waiters[m] : m_waiters[m][j] = t}} : m \in Mutexes}
            \cup UNION {{<<"cond", m, i>> : i \in {j \in DOMAIN uc_waiters[m] : uc_waiters[m][j] = t}} : m \in Mutexes}
            \cup {<<"dead", i>> : i \in {j \in DOMAIN reap_queue : reap_queue[j] = t}}

\* As long as uthread_switch has always found a thread to run, no assert fails and no
\* thread is lost: one that is neither running nor dead is in exactly one queue, or is
\* just being woken, or joins with a thread that is alive; and who waits in a queue of a
\* mutex or a condition is in the state in which uthread_wake wakes it.
NoThreadLost ==
    ~astray =>
        /\ ~aborted
        /\ \A t \in All \ {ut_curthr} :
              /\ ut_state[t] \notin {"UT_NO_STATE", "UT_ZOMBIE"} =>
                    Linked(t) \/ Joining(t) \/ BeingWoken(t)
              /\ Waits(t) => ut_state[t] = "UT_WAIT"
        /\ \A t \in All : Cardinality(Homes(t)) <= 1
=================================================================================
