------------------------------- MODULE Monitor -------------------------------
(***************************************************************************)
(* What uthread_mtx.h and uthread_cond.h promise to the programs of        *)
(* mthreads_stencil: mutexes passed on in the order they were asked for,   *)
(* and condition variables whose wait gives the mutex up and starts to     *)
(* sleep in one step.  Nothing here knows of processors, run queues or the *)
(* POSIX mutexes inside the objects.                                       *)
(***************************************************************************)
EXTENDS Sequences

CONSTANTS Threads, Mutexes, Conds, NoThread, NoObj

VARIABLES
    owner,      \* thread that holds each mutex
    queue,      \* threads asleep for each mutex, oldest first
    sleepers,   \* threads asleep on each condition variable, oldest first
    wakeup      \* the signal or broadcast a thread is about to perform

monVars == <<owner, queue, sleepers, wakeup>>

NoWakeup == [cond |-> NoObj, all |-> FALSE]
InSeq(s, t) == \E i \in DOMAIN s : s[i] = t
Asleep(t) == (\E m \in Mutexes : InSeq(queue[m], t)) \/ (\E c \in Conds : InSeq(sleepers[c], t))

MonitorInit ==
    /\ owner = [m \in Mutexes |-> NoThread]
    /\ queue = [m \in Mutexes |-> <<>>]
    /\ sleepers = [c \in Conds |-> <<>>]
    /\ wakeup = [t \in Threads |-> NoWakeup]

\* A free mutex goes to whoever asks; a held one is waited for in turn.
Acquire(t, m) ==
    /\ ~Asleep(t)
    /\ \/ /\ owner[m] = NoThread /\ queue[m] = <<>>
          /\ owner' = [owner EXCEPT ![m] = t]
          /\ UNCHANGED queue
       \/ /\ owner[m] # NoThread
          /\ queue' = [queue EXCEPT ![m] = Append(@, t)]
          /\ UNCHANGED owner
    /\ UNCHANGED <<sleepers, wakeup>>

PassOn(t, m) ==
    /\ owner[m] = t /\ ~Asleep(t)
    /\ \/ /\ queue[m] = <<>>
          /\ owner' = [owner EXCEPT ![m] = NoThread]
          /\ UNCHANGED queue
       \/ /\ queue[m] # <<>>
          /\ owner' = [owner EXCEPT ![m] = Head(queue[m])]
          /\ queue' = [queue EXCEPT ![m] = Tail(@)]

Release(t, m) == PassOn(t, m) /\ UNCHANGED <<sleepers, wakeup>>

\* Giving the mutex up and going to sleep are one step.
Wait(t, c, m) ==
    /\ PassOn(t, m)
    /\ sleepers' = [sleepers EXCEPT ![c] = Append(@, t)]
    /\ UNCHANGED wakeup

Request(t, c) ==
    /\ ~Asleep(t) /\ wakeup[t] = NoWakeup
    /\ \E all \in BOOLEAN : wakeup' = [wakeup EXCEPT ![t] = [cond |-> c, all |-> all]]
    /\ UNCHANGED <<owner, queue, sleepers>>

\* A signal wakes the oldest sleeper and is over; it may only come to nothing
\* when nobody sleeps.  A broadcast goes on until nobody sleeps.
Perform(t) ==
    LET c == wakeup[t].cond
    IN  /\ c # NoObj
        /\ \/ /\ sleepers[c] # <<>>
              /\ sleepers' = [sleepers EXCEPT ![c] = Tail(@)]
              /\ wakeup' = [wakeup EXCEPT ![t] = IF @.all THEN @ ELSE NoWakeup]
           \/ /\ sleepers[c] = <<>>
              /\ wakeup' = [wakeup EXCEPT ![t] = NoWakeup]
              /\ UNCHANGED sleepers
        /\ UNCHANGED <<owner, queue>>

MonitorNext ==
    \E t \in Threads :
        \/ Perform(t)
        \/ \E c \in Conds : Request(t, c)
        \/ \E m \in Mutexes :
              \/ Acquire(t, m) \/ Release(t, m)
              \/ \E c \in Conds : Wait(t, c, m)

MonitorSpec == MonitorInit /\ [][MonitorNext]_monVars
=============================================================================
