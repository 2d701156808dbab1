---------------------------- MODULE UthreadMonitor ----------------------------
(***************************************************************************)
(* The mutexes and condition variables of mthreads_stencil implement the   *)
(* monitor of module Monitor.  A sleeper is a thread on uc_waiters, or one *)
(* that has released its mutex in uthread_cond_wait and has yet to be      *)
(* queued; a signal is performed when uc_waiters is looked at under pmut.  *)
(***************************************************************************)
EXTENDS UthreadSync

Sleepers(c) ==
    LET between == {t \in Threads : LeftMutexNotQueued(t, c)}
    IN  IF between = {} THEN waitq[c]
        ELSE Append(waitq[c], CHOOSE t \in between : TRUE)

\* The wake-up thread t has been called for and has not finished.
PendingWakeup(t) ==
    IF Contains(stack[t], "cond_signal")    THEN [cond |-> carg[t], all |-> FALSE]
    ELSE IF Contains(stack[t], "cond_broadcast") THEN [cond |-> carg[t], all |-> TRUE]
    ELSE [cond |-> NoObj, all |-> FALSE]

Abstract == INSTANCE Monitor WITH
    owner    <- m_owner,
    queue    <- [m \in Mutexes |-> waitq[m]],
    sleepers <- [c \in Conds |-> Sleepers(c)],
    wakeup   <- [t \in Threads |-> PendingWakeup(t)]

\* Every behaviour of the library is one of the monitor: mutexes are handed
\* over first come first served, a wait is atomic, and a signal that finds
\* somebody asleep wakes the oldest sleeper.
ImplementsMonitor == Abstract!MonitorSpec
=============================================================================
