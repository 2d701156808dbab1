---------------------------- MODULE UthreadLifeInv ----------------------------
(***************************************************************************)
(* The inductive invariant of the life cycle of a thread (module           *)
(* UthreadLife) where one LWP runs every thread, for clients that join and *)
(* detach whatever they may.  It strengthens LifeTypeOK, BuriedOnce,       *)
(* NoAbort, NoJoinerStranded, DetachedOffStack and OnlyClientsGetStuck.    *)
(*                                                                         *)
(* What a thread is doing is a point, named after the label that it        *)
(* executes next, in a context, which says what its stack holds below.     *)
(* LifeInv says that some assignment of points and contexts explains the   *)
(* stacks and the preemption counts, and relates the rest of the state to  *)
(* it.                                                                     *)
(***************************************************************************)
EXTENDS UthreadLife, UthreadInv

-----------------------------------------------------------------------------
(* Points and contexts.                                                    *)

\* The contexts whose code the clock may interrupt, those that pass a dead
\* thread to the reaper, and those that lock reap_mtx.
Preemptible == {"client", "create_init", "join_reap", "reap_pmut", "make_reapable"}
Buriers     == {"exit", "join", "nopreempt_off"}
Lockers     == Buriers \cup {"reaper_loop", "relock"}
Contexts    == Preemptible \cup Lockers

Yields     == {"yield_lock", "yield_switch", "off"}
Sections   == {"cond_signal", "sig_wake", "sig_off", "reap_unlock"}
Unlocks    == {"mtx_unlock", "unl_wake", "unl_off"}
ReaperCode == {"reaper_loop", "reaper_lock", "reaper_destroy", "reaper_scan"}
CondWaits  == {"cond_wait", "cond_sleep", "cond_switch", "cond_relock"}
ExitCode   == {"exit_check", "exit_lock", "exit_wake", "exit_switch", "last_switch", "dead"}
JoinCode   == {"join_lock", "join_switch", "join_woken"}

Points ==
    {"rest", "free", "alloc_claim", "startonrunq", "detach_check",
     "mtx_lock", "mtx_switch", "mtx_locked", "reap_pmut", "make_reapable", "reap_release", "rl_off"}
    \cup Yields \cup Sections \cup Unlocks \cup ReaperCode \cup CondWaits \cup ExitCode \cup JoinCode

\* The preemption count and the stack of a context.  A context other than
\* these is named after the one label that is left.
Base(c) == IF c = "relock" THEN 2
           ELSE IF c \in {"exit", "nopreempt_off", "reaper_loop"} THEN 1 ELSE 0
Below(c) == IF c \in {"client", "exit", "join"} THEN <<>>
            ELSE IF c = "relock" THEN <<"nopreempt_off">> \o <<"reaper_loop">>
            ELSE <<c>>

\* What follows uthread_mtx_lock and uthread_mtx_unlock.
AfterLock(c)   == IF c \in Buriers THEN <<"reap_pmut">> \o Below(c) ELSE Below(c)
AfterUnlock(c) == IF c = "reaper_loop" THEN "cond_sleep" ELSE "reap_release"
\* A thread that has exited sleeps as a zombie.
Locked(c) == IF c = "exit" THEN "mtx_locked_zombie" ELSE "mtx_locked"

\* Point p in context c: the count n, the label h that runs next, the rest r.
ClientRow(p, c, n, h, r) ==
    \/ p = "rest" /\ c \in Preemptible \ {"client"} /\ n = 0 /\ h = c /\ r = <<>>
    \/ p = "yield_lock" /\ c \in Preemptible /\ n = 1 /\ h = p /\ r = <<"nopreempt_off">> \o Below(c)
    \/ p = "yield_switch" /\ c \in Preemptible /\ n = 1 /\ h = "switch" /\ r = <<"nopreempt_off">> \o Below(c)
    \/ p = "off" /\ c \in Preemptible /\ n = 1 /\ h = "nopreempt_off" /\ r = Below(c)
    \/ p \in {"alloc_claim", "startonrunq"} /\ c = "client" /\ n = 1 /\ h = p /\ r = <<>>
    \/ p = "detach_check" /\ c = "nopreempt_off" /\ n = 1 /\ h = p /\ r = <<>>
    \/ p \in {"join_lock", "join_woken"} /\ c = "join" /\ n = 1 /\ h = p /\ r = <<>>
    \/ p = "join_switch" /\ c = "join" /\ n = 1 /\ h = "switch" /\ r = <<"join_woken">>

ExitRow(p, c, n, h, r) ==
    /\ c = "exit"
    /\ \/ p \in {"exit_check", "exit_lock", "exit_switch"} /\ n = 1 /\ h = p /\ r = <<>>
       \/ p = "exit_wake" /\ n = 2 /\ h = "wake" /\ r = <<"exit_switch">>
       \/ p = "last_switch" /\ n \in {1, 2} /\ h = "switch" /\ r = <<"dead">>
       \/ p = "dead" /\ n \in {1, 2} /\ h = p /\ r = <<>>

LockRow(p, c, n, h, r) ==
    /\ c \in Lockers /\ n = Base(c) + 1
    /\ \/ p = "mtx_lock" /\ h = p /\ r = AfterLock(c)
       \/ p = "mtx_switch" /\ h = "switch" /\ r = <<Locked(c)>> \o AfterLock(c)
       \/ p = "mtx_locked" /\ h = Locked(c) /\ r = AfterLock(c)

UnlockRow(p, c, n, h, r) ==
    /\ c \in Buriers \cup {"reaper_loop"}
    /\ \/ p = "mtx_unlock" /\ n = Base(c) + 2 /\ h = p /\ r = <<AfterUnlock(c)>> \o Below(c)
       \/ p = "unl_off" /\ n = Base(c) + 2 /\ h = "nopreempt_off" /\ r = <<AfterUnlock(c)>> \o Below(c)
       \/ p = "unl_wake" /\ n = Base(c) + 3 /\ h = "wake"
             /\ r = <<"nopreempt_off">> \o (<<AfterUnlock(c)>> \o Below(c))

BurialRow(p, c, n, h, r) ==
    /\ c \in Buriers
    /\ \/ p \in {"reap_pmut", "make_reapable"} /\ c # "join" /\ n = Base(c) /\ h = p /\ r = Below(c)
       \/ p = "cond_signal" /\ n = Base(c) + 2 /\ h = p /\ r = <<"reap_unlock">> \o Below(c)
       \/ p = "sig_off" /\ n = Base(c) + 2 /\ h = "nopreempt_off" /\ r = <<"reap_unlock">> \o Below(c)
       \/ p = "sig_wake" /\ n = Base(c) + 3 /\ h = "wake"
             /\ r = <<"nopreempt_off">> \o (<<"reap_unlock">> \o Below(c))
       \/ p \in {"reap_unlock", "reap_release"} /\ n = Base(c) + 1 /\ h = p /\ r = Below(c)

ReaperRow(p, c, n, h, r) ==
    /\ c = "reaper_loop"
    /\ \/ p \in ReaperCode /\ n = 1 /\ h = p /\ r = <<>>
       \/ p \in {"cond_wait", "cond_sleep", "cond_relock"} /\ n = 2 /\ h = p /\ r = <<"reaper_loop">>
       \/ p = "cond_switch" /\ n = 2 /\ h = "switch" /\ r = <<"cond_relock">> \o <<"reaper_loop">>
       \/ p = "rl_off" /\ n = 2 /\ h = "nopreempt_off" /\ r = <<"reaper_loop">>

Row(p, c, n, h, r) ==
    \/ ClientRow(p, c, n, h, r) \/ ExitRow(p, c, n, h, r) \/ LockRow(p, c, n, h, r)
    \/ UnlockRow(p, c, n, h, r) \/ BurialRow(p, c, n, h, r) \/ ReaperRow(p, c, n, h, r)

\* A client in its own code has an empty stack, and so has a slot without a
\* thread, whatever count it was left with.
Is(p, c, n, s) ==
    \/ s = <<>> /\ n = 0 /\ p = "rest" /\ c = "client"
    \/ s = <<>> /\ p = "free" /\ c = "client"
    \/ s # <<>> /\ Row(p, c, n, Head(s), Tail(s))

-----------------------------------------------------------------------------
(* What a thread has at its point.                                         *)

\* The state of a thread on its LWP, and of one that no LWP runs.
StateOn(p, c) ==
    IF p \in {"yield_lock", "yield_switch"} THEN "UT_RUNNABLE"
    ELSE IF p \in {"mtx_switch", "join_switch", "cond_switch"} THEN "UT_WAIT"
    ELSE IF c = "exit" /\ p # "mtx_locked" THEN "UT_ZOMBIE"
    ELSE "UT_ON_CPU"

Woken == {"mtx_locked", "join_woken", "cond_relock"}
StateOff(p, c, s) ==
    \/ s \in {"UT_NO_STATE", "UT_TRANSITION"} /\ p \in {"free", "off"} /\ c = "client"
    \/ s = "UT_ZOMBIE" /\ p = "dead"
    \/ s = "UT_RUNNABLE" /\ p \in {"off"} \cup Woken
    \/ s = "UT_WAIT" /\ p \in Woken

ModeOf(p, c, o, s) ==
    \/ o /\ p \notin {"dead", "free"} /\ s = StateOn(p, c)
    \/ ~o /\ StateOff(p, c, s)

\* The thread has locked reap_mtx and believes so.
InSection(p, c) ==
    \/ c \in {"reap_pmut", "make_reapable"}
    \/ p \in {"reap_pmut", "make_reapable", "mtx_unlock", "cond_wait", "rl_off"}
    \/ p \in Sections \cup ReaperCode

\* Has: the thread that joins, or that passes a dead thread to the reaper, or
\* the reaper, has tgt to itself.  Frees: it has passed it on, and has still
\* to unlock its ut_pmut.
Has(p, c) ==
    \/ p \in JoinCode \cup {"detach_check", "reap_pmut", "make_reapable", "reaper_lock", "reaper_destroy"}
    \/ p \in {"mtx_lock", "mtx_switch", "mtx_locked"} /\ c \in Buriers
    \/ c \in {"join_reap", "reap_pmut", "make_reapable"}
Frees(p, c) ==
    p \in Sections \cup Unlocks \cup {"reap_release"} /\ c \in Buriers

\* A joiner; one whose target is known to be dead; a thread that no longer
\* looks for joiners; and where the threads in the reap queue are.
Joins(p, c)    == Has(p, c) /\ c \in {"join", "join_reap", "reap_pmut", "make_reapable"}
HasDead(p, c)  == Has(p, c) /\ c # "exit" /\ p \notin JoinCode \cup {"detach_check"}
Gone(p, c)     == c = "exit" /\ p \notin {"exit_check", "exit_lock"}
Passed(p, c)   == p \in {"dead", "last_switch"} \/ (c = "exit" /\ Frees(p, c))
\* Between the last look at an empty reap queue and the wait on reap_cond.
Settling(p, c) == c = "reaper_loop" /\ p \in Unlocks \cup {"cond_wait", "cond_sleep", "cond_switch"}

WakePoints == {"exit_wake", "sig_wake", "unl_wake"}
Allocates(p, c) == p \in {"alloc_claim", "startonrunq"} \/ c = "create_init"

\* The code finds its arguments.
SwitchArgs(t, p) ==
    /\ p = "yield_switch" => swarg[t] = [queue |-> NoObj, saveonrq |-> TRUE, pmut |-> t]
    /\ p = "mtx_switch" => swarg[t] = [queue |-> reap_mtx, saveonrq |-> FALSE, pmut |-> reap_mtx]
    /\ p = "cond_switch" => swarg[t] = [queue |-> reap_cond, saveonrq |-> FALSE, pmut |-> reap_cond]
    /\ p = "join_switch" => swarg[t] = [queue |-> tgt[t], saveonrq |-> FALSE, pmut |-> tgt[t]]
    /\ p = "last_switch" => swarg[t] = [queue |-> NoObj, saveonrq |-> FALSE, pmut |-> t]
LockArgs(t, p, c) ==
    /\ p \in {"mtx_lock", "mtx_switch", "mtx_locked", "mtx_unlock"} \cup CondWaits
          \/ Settling(p, c) => marg[t] = reap_mtx
    /\ p \in {"cond_signal"} \cup CondWaits \/ Settling(p, c) => carg[t] = reap_cond
    /\ crit[t] = IF InSection(p, c) THEN {reap_mtx} ELSE {}
CallArgs(t, p, c) ==
    /\ wakee[t] # NoThread <=> p \in WakePoints
    /\ newthr[t] # NoThread <=> Allocates(p, c)
    /\ Has(p, c) \/ Frees(p, c) =>
          /\ tgt[t] # NoThread
          /\ tgt[t] = t => c = "exit" \/ p = "detach_check"
    /\ c = "exit" => tgt[t] = t
\* The reaper runs its own code only, and nobody else runs that.
Roles(t, p, c) ==
    /\ c \in {"reaper_loop", "relock"} => t = Reaper
    /\ t = Reaper => c \in {"reaper_loop", "relock"} \/ (c = "client" /\ p \in {"rest"} \cup Yields)

Private(t, p, c) ==
    /\ Is(p, c, ut_no_preempt_count[t], stack[t])
    /\ ModeOf(p, c, OnLwp(t), ut_state[t])
    /\ SwitchArgs(t, p) /\ LockArgs(t, p, c) /\ CallArgs(t, p, c) /\ Roles(t, p, c)

-----------------------------------------------------------------------------
(* The invariant, for points pt and contexts cx.                           *)

\* The run queues hold the runnable threads that no LWP runs.
RunqRight ==
    /\ runq_mtx = NoLwp /\ LwpOK /\ QueueCountsAgree /\ RunqOK /\ PrioOK
    /\ \A t \in Threads : ut_state[t] = "UT_RUNNABLE" /\ ~OnLwp(t) => Queued(t)

\* A thread waits in the queue that its point says, or is about to be woken.
WaitsRight(pt) ==
    /\ WaitqOK
    /\ \A t \in Threads :
          /\ InQueue(reap_mtx, t) => pt[t] = "mtx_locked"
          /\ InQueue(reap_cond, t) => pt[t] = "cond_relock"
          /\ \A u \in Threads : InQueue(u, t) => pt[t] = "join_woken" /\ tgt[t] = u
    /\ \A t \in Threads : wakee[t] # NoThread =>
          /\ ut_state[wakee[t]] = "UT_WAIT" /\ ~OnLwp(wakee[t])
          /\ \A o \in Objs : ~InQueue(o, wakee[t])
    /\ \A t \in Threads : ut_state[t] = "UT_WAIT" /\ ~OnLwp(t) =>
          \/ \E o \in Objs : InQueue(o, t)
          \/ \E u \in Threads : wakee[u] = t

\* A thread that is being created is nobody else's, and new.
NewRight(pt) ==
    /\ \A t \in Threads : newthr[t] # NoThread =>
          /\ ut_state[newthr[t]] = IF pt[t] = "alloc_claim" THEN "UT_NO_STATE" ELSE "UT_TRANSITION"
          /\ pt[t] = "startonrunq" => pt[newthr[t]] = "off" /\ newthr[t] \notin claimed
          /\ \A u \in Threads : newthr[u] = newthr[t] => t = u
    /\ \A u \in Threads : ut_state[u] = "UT_TRANSITION" => \E t \in Threads : newthr[t] = u
    /\ \A u \in Threads : ut_state[u] = "UT_NO_STATE" => pt[u] = "free"

\* For whom the POSIX mutex of an object is locked.
Locks(t, p, c, o) ==
    \/ p \in {"yield_switch", "exit_wake", "exit_switch", "last_switch"} /\ o = t
    \/ p = "mtx_switch" /\ o = reap_mtx
    \/ (p = "cond_switch" \/ (c = "reaper_loop" /\ p \in Unlocks \cup {"cond_sleep"})) /\ o = reap_cond
    \/ p = "join_switch" /\ o = tgt[t]
    \/ (Frees(p, c) \/ p = "make_reapable" \/ c = "make_reapable") /\ o = tgt[t]
PmutsRight(pt, cx) ==
    \A o \in Objs : pmut[o] # NoLwp <=> \E t \in Threads : Locks(t, pt[t], cx[t], o)

\* Who has reap_mtx: the thread in its section, or one on its way there.
MutexRight(pt, cx) ==
    /\ \A t \in Threads : InSection(pt[t], cx[t]) => m_owner[reap_mtx] = t
    /\ \A t \in Threads : m_owner[reap_mtx] = t =>
          InSection(pt[t], cx[t]) \/ (pt[t] = "mtx_locked" /\ ~InQueue(reap_mtx, t))
    /\ waitq[reap_mtx] # <<>> => m_owner[reap_mtx] # NoThread
    /\ \A t \in Threads : pt[t] = "mtx_switch" => m_owner[reap_mtx] # NoThread
    /\ \A t \in Threads : pt[t] = "mtx_locked" => InQueue(reap_mtx, t) \/ m_owner[reap_mtx] = t

\* A thread that dies has one owner, or is in the reap queue.
InReapQueue(u) == \E i \in 1..Len(reap_queue) : reap_queue[i] = u
Custody(pt, cx) ==
    /\ \A t, u \in Threads :
          Has(pt[t], cx[t]) /\ Has(pt[u], cx[u]) /\ tgt[t] = tgt[u] => t = u
    /\ \A t \in Threads : Has(pt[t], cx[t]) =>
          /\ ~InReapQueue(tgt[t]) /\ tgt[t] \in claimed
          /\ ut_state[tgt[t]] \notin {"UT_NO_STATE", "UT_TRANSITION"}
    /\ \A i, j \in 1..Len(reap_queue) : reap_queue[i] = reap_queue[j] => i = j
    /\ \A u \in Threads : InReapQueue(u) => u \in claimed /\ Passed(pt[u], cx[u])
    /\ \A t \in Threads : Frees(pt[t], cx[t]) => InReapQueue(tgt[t])

\* Nobody but the thread itself passes on a thread that is not dead; a thread
\* that is joined is not detached.
Targets(pt, cx) ==
    /\ \A t \in Threads : Joins(pt[t], cx[t]) => ~ut_detached[tgt[t]]
    /\ \A t \in Threads : HasDead(pt[t], cx[t]) => pt[tgt[t]] = "dead"
    /\ \A t \in Threads : pt[t] = "detach_check" => ut_detached[tgt[t]]
    /\ \A t \in Threads : ut_detached[t] => t \in claimed

\* A thread that somebody has claimed is taken care of: it is detached and
\* will look at that when it exits, it is in the reap queue, or somebody has it.
CaredFor(pt, cx) ==
    \A u \in claimed :
        \/ ut_state[u] \in {"UT_NO_STATE", "UT_TRANSITION"} \/ InReapQueue(u)
        \/ ut_detached[u] /\ (cx[u] = "exit" => pt[u] = "exit_check")
        \/ \E t \in Threads : Has(pt[t], cx[t]) /\ tgt[t] = u

\* A joiner that sleeps is found, and one that is woken was found.
JoinsRight(pt, cx) ==
    /\ \A t, u \in Threads : InQueue(u, t) => ~Gone(pt[u], cx[u])
    /\ \A t \in Threads : pt[t] = "join_switch" =>
          ut_state[tgt[t]] # "UT_ZOMBIE" /\ ~Gone(pt[tgt[t]], cx[tgt[t]])
    /\ \A t \in Threads : pt[t] = "join_woken" => InQueue(tgt[t], t) \/ Gone(pt[tgt[t]], cx[tgt[t]])

\* The process does not abort, and the reaper has work, or a thread to wait for.
HaltRight ==
    /\ halted \in {"none", "exit", "lwp_park"}
    /\ halted = "lwp_park" => RunqEmpty(runq) /\ \A t \in Threads : ~OnLwp(t)
ReaperRight(pt, cx) ==
    /\ ut_state[Reaper] # "UT_NO_STATE"
    /\ \A t \in Threads : InQueue(reap_cond, t) =>
          reap_queue = <<>> \/ \E u \in Threads : pt[u] = "cond_signal"
    /\ \A t \in Threads : Settling(pt[t], cx[t]) => reap_queue = <<>>
    /\ \/ pt[Reaper] = "reaper_scan" \/ halted = "exit"
       \/ \E u \in Threads \ {Reaper} : ut_state[u] # "UT_NO_STATE"

LifeInvAt(pt, cx) ==
    /\ LifeTypeOK
    /\ \A t \in Threads : Private(t, pt[t], cx[t])
    /\ RunqRight /\ WaitsRight(pt) /\ NewRight(pt)
    /\ PmutsRight(pt, cx) /\ MutexRight(pt, cx)
    /\ Custody(pt, cx) /\ Targets(pt, cx) /\ CaredFor(pt, cx) /\ JoinsRight(pt, cx)
    /\ HaltRight /\ ReaperRight(pt, cx)

\* The reaper has a thread only until it has destroyed it.
ReaperIdle ==
    tgt[Reaper] # NoThread =>
        stack[Reaper] # <<>> /\ Head(stack[Reaper]) \in {"reaper_lock", "reaper_destroy"}

LifeInv == \E pt \in [Threads -> Points], cx \in [Threads -> Contexts] : LifeInvAt(pt, cx)
=============================================================================
