------------------------ MODULE UthreadLifeStepProofs ------------------------
(***************************************************************************)
(* Where one LWP runs every thread, LifeInv survives every step in which   *)
(* a thread of UthreadLife goes on in its own code: the steps of           *)
(* uthread_exit, uthread_join, uthread_detach, make_reapable, the reaper,  *)
(* reap_mtx and reap_cond that wake, create and destroy nobody and leave   *)
(* the LWP with its thread.                                                *)
(***************************************************************************)
EXTENDS UthreadLifeInv, UthreadPlaceProofs

LifeNames == Labels \cup SyncLabels \cup LifeLabels

-----------------------------------------------------------------------------
(* The code below a point.                                                 *)

LEMMA NamesKnown ==
    {"yield_lock", "switch", "nopreempt_off", "wake", "alloc_claim", "create_init", "startonrunq",
     "mtx_lock", "mtx_locked", "mtx_locked_zombie", "mtx_unlock", "cond_wait", "cond_sleep",
     "cond_relock", "cond_signal", "exit_check", "exit_lock", "exit_switch", "dead", "reap_pmut",
     "make_reapable", "reap_unlock", "reap_release", "join_lock", "join_woken", "join_reap",
     "detach_check", "reaper_loop", "reaper_lock", "reaper_destroy", "reaper_scan"} \subseteq LifeNames
  BY DEF LifeNames, Labels, SyncLabels, LifeLabels

LEMMA OneName ==
    ASSUME NEW f \in LifeNames
    PROVE  /\ <<f>> \in Seq(LifeNames) /\ <<f>> # <<>> /\ Head(<<f>>) = f /\ Tail(<<f>>) = <<>>
           /\ <<f>> \o <<>> = <<f>> /\ <<>> \in Seq(LifeNames)
  BY ConcatEmptySeq

LEMMA BelowType ==
    ASSUME NEW c \in Contexts
    PROVE  /\ Below(c) \in Seq(LifeNames) /\ AfterLock(c) \in Seq(LifeNames)
           /\ AfterUnlock(c) \in LifeNames /\ Locked(c) \in LifeNames
<1>1. Below(c) \in Seq(LifeNames)
  <2>1. CASE c \in {"client", "exit", "join"}
    BY <2>1 DEF Below
  <2>2. CASE c = "relock"
    BY <2>2, NamesKnown, OneName, ConsProperties DEF Below
  <2>3. CASE c \notin {"client", "exit", "join", "relock"}
    <3>1. c \in LifeNames
      BY <2>3, NamesKnown DEF Contexts, Preemptible, Lockers, Buriers
    <3> QED BY <2>3, <3>1 DEF Below
  <2> QED BY <2>1, <2>2, <2>3
<1>2. <<"reap_pmut">> \o Below(c) \in Seq(LifeNames)
  BY <1>1, NamesKnown, ConsProperties
<1> QED BY <1>1, <1>2, NamesKnown DEF AfterLock, AfterUnlock, Locked

\* A thread goes on with a label above the code s.
LEMMA AfterCons ==
    ASSUME NEW f \in LifeNames, NEW s \in Seq(LifeNames)
    PROVE  /\ <<f>> \o s \in Seq(LifeNames) /\ <<f>> \o s # <<>>
           /\ Head(<<f>> \o s) = f /\ Tail(<<f>> \o s) = s
  BY ConsProperties

\* The stack of a thread that has replaced its frame.
LEMMA LifeContinue ==
    ASSUME LifeTypeOK, NEW t \in Threads, stack[t] # <<>>
    PROVE  /\ Tail(stack[t]) \in Seq(LifeNames) /\ Head(stack[t]) \in LifeNames
           /\ Continue(t, <<>>) =>
                 /\ stack' \in [Threads -> Seq(LifeNames)] /\ stack'[t] = Tail(stack[t])
                 /\ \A u \in Threads \ {t} : stack'[u] = stack[u]
           /\ \A f \in LifeNames : Continue(t, <<f>>) =>
                 /\ stack' \in [Threads -> Seq(LifeNames)] /\ stack'[t] # <<>>
                 /\ Head(stack'[t]) = f /\ Tail(stack'[t]) = Tail(stack[t])
                 /\ \A u \in Threads \ {t} : stack'[u] = stack[u]
           /\ \A f, g \in LifeNames : Continue(t, <<f, g>>) =>
                 /\ stack' \in [Threads -> Seq(LifeNames)] /\ stack'[t] # <<>>
                 /\ Head(stack'[t]) = f /\ Tail(stack'[t]) = <<g>> \o Tail(stack[t])
                 /\ \A u \in Threads \ {t} : stack'[u] = stack[u]
<1>1. stack \in [Threads -> Seq(LifeNames)]
  BY DEF LifeTypeOK, SchedTypes, LifeNames
<1>2. /\ Tail(stack[t]) \in Seq(LifeNames) /\ Head(stack[t]) \in LifeNames
      /\ <<>> \o Tail(stack[t]) = Tail(stack[t])
  BY <1>1, PopProperties
<1>3. ASSUME NEW fs, Continue(t, fs), fs \o Tail(stack[t]) \in Seq(LifeNames)
      PROVE  /\ stack' \in [Threads -> Seq(LifeNames)] /\ stack'[t] = fs \o Tail(stack[t])
             /\ \A u \in Threads \ {t} : stack'[u] = stack[u]
  BY <1>1, <1>3 DEF Continue
<1>4. Continue(t, <<>>) => /\ stack' \in [Threads -> Seq(LifeNames)] /\ stack'[t] = Tail(stack[t])
                           /\ \A u \in Threads \ {t} : stack'[u] = stack[u]
  BY <1>2, <1>3
<1>5. ASSUME NEW f \in LifeNames, Continue(t, <<f>>)
      PROVE  /\ stack' \in [Threads -> Seq(LifeNames)] /\ stack'[t] # <<>>
             /\ Head(stack'[t]) = f /\ Tail(stack'[t]) = Tail(stack[t])
             /\ \A u \in Threads \ {t} : stack'[u] = stack[u]
  <2> DEFINE fs == <<f>>
  <2>1. /\ Continue(t, fs) /\ fs \o Tail(stack[t]) \in Seq(LifeNames) /\ fs \o Tail(stack[t]) # <<>>
        /\ Head(fs \o Tail(stack[t])) = f /\ Tail(fs \o Tail(stack[t])) = Tail(stack[t])
    BY <1>2, <1>5, AfterCons
  <2> HIDE DEF fs
  <2>2. /\ stack' \in [Threads -> Seq(LifeNames)] /\ stack'[t] = fs \o Tail(stack[t])
        /\ \A u \in Threads \ {t} : stack'[u] = stack[u]
    BY <1>3, <2>1
  <2> QED BY <2>1, <2>2
<1>6. ASSUME NEW f \in LifeNames, NEW g \in LifeNames, Continue(t, <<f, g>>)
      PROVE  /\ stack' \in [Threads -> Seq(LifeNames)] /\ stack'[t] # <<>>
             /\ Head(stack'[t]) = f /\ Tail(stack'[t]) = <<g>> \o Tail(stack[t])
             /\ \A u \in Threads \ {t} : stack'[u] = stack[u]
  <2> DEFINE fs == <<f, g>>
  <2>0. /\ fs \o Tail(stack[t]) \in Seq(LifeNames) /\ fs \o Tail(stack[t]) # <<>>
        /\ Head(fs \o Tail(stack[t])) = f /\ Tail(fs \o Tail(stack[t])) = <<g>> \o Tail(stack[t])
    BY <1>2, ConsTwoProperties
  <2>1. Continue(t, fs)
    BY <1>6
  <2> HIDE DEF fs
  <2>2. /\ stack' \in [Threads -> Seq(LifeNames)] /\ stack'[t] = fs \o Tail(stack[t])
        /\ \A u \in Threads \ {t} : stack'[u] = stack[u]
    BY <1>3, <2>0, <2>1
  <2> QED BY <2>0, <2>2
<1> QED BY <1>2, <1>4, <1>5, <1>6

\* The stack of a thread on which frames have been pushed.
LEMMA LifePush ==
    ASSUME LifeTypeOK, NEW t \in Threads
    PROVE  /\ \A f \in LifeNames : Push(t, <<f>>) =>
                 /\ stack' \in [Threads -> Seq(LifeNames)] /\ stack'[t] # <<>>
                 /\ Head(stack'[t]) = f /\ Tail(stack'[t]) = stack[t]
                 /\ \A u \in Threads \ {t} : stack'[u] = stack[u]
           /\ \A f, g \in LifeNames : Push(t, <<f, g>>) =>
                 /\ stack' \in [Threads -> Seq(LifeNames)] /\ stack'[t] # <<>>
                 /\ Head(stack'[t]) = f /\ Tail(stack'[t]) = <<g>> \o stack[t]
                 /\ \A u \in Threads \ {t} : stack'[u] = stack[u]
<1>1. stack \in [Threads -> Seq(LifeNames)]
  BY DEF LifeTypeOK, SchedTypes, LifeNames
<1>2. ASSUME NEW fs, Push(t, fs), fs \o stack[t] \in Seq(LifeNames)
      PROVE  /\ stack' \in [Threads -> Seq(LifeNames)] /\ stack'[t] = fs \o stack[t]
             /\ \A u \in Threads \ {t} : stack'[u] = stack[u]
  BY <1>1, <1>2 DEF Push
<1>3. ASSUME NEW f \in LifeNames, Push(t, <<f>>)
      PROVE  /\ stack' \in [Threads -> Seq(LifeNames)] /\ stack'[t] # <<>>
             /\ Head(stack'[t]) = f /\ Tail(stack'[t]) = stack[t]
             /\ \A u \in Threads \ {t} : stack'[u] = stack[u]
  <2>1. /\ <<f>> \o stack[t] \in Seq(LifeNames) /\ <<f>> \o stack[t] # <<>>
        /\ Head(<<f>> \o stack[t]) = f /\ Tail(<<f>> \o stack[t]) = stack[t]
    BY <1>1, AfterCons
  <2> QED BY <1>2, <1>3, <2>1
<1>4. ASSUME NEW f \in LifeNames, NEW g \in LifeNames, Push(t, <<f, g>>)
      PROVE  /\ stack' \in [Threads -> Seq(LifeNames)] /\ stack'[t] # <<>>
             /\ Head(stack'[t]) = f /\ Tail(stack'[t]) = <<g>> \o stack[t]
             /\ \A u \in Threads \ {t} : stack'[u] = stack[u]
  <2>1. /\ <<f, g>> \o stack[t] \in Seq(LifeNames) /\ <<f, g>> \o stack[t] # <<>>
        /\ Head(<<f, g>> \o stack[t]) = f /\ Tail(<<f, g>> \o stack[t]) = <<g>> \o stack[t]
    BY <1>1, ConsTwoProperties
  <2> QED BY <1>2, <1>4, <2>1
<1> QED BY <1>3, <1>4

-----------------------------------------------------------------------------
(* The rows by the label that runs next.                                   *)

LEMMA RowsOfClients ==
    ASSUME NEW p, NEW c, NEW n, NEW h, NEW r, Row(p, c, n, h, r)
    PROVE  /\ h = "yield_lock" =>
                 p = h /\ c \in Preemptible /\ n = 1 /\ r = <<"nopreempt_off">> \o Below(c)
           /\ h \in {"alloc_claim", "startonrunq"} => p = h /\ c = "client" /\ n = 1 /\ r = <<>>
<1>1. h = "yield_lock" =>
        p = h /\ c \in Preemptible /\ n = 1 /\ r = <<"nopreempt_off">> \o Below(c)
  BY DEF Row, ClientRow, ExitRow, LockRow, UnlockRow, BurialRow, ReaperRow, ReaperCode, Preemptible, Locked
<1>2. h \in {"alloc_claim", "startonrunq"} => p = h /\ c = "client" /\ n = 1 /\ r = <<>>
  BY DEF Row, ClientRow, ExitRow, LockRow, UnlockRow, BurialRow, ReaperRow, ReaperCode, Preemptible, Locked
<1> QED BY <1>1, <1>2

LEMMA RowsOfRests ==
    ASSUME NEW p, NEW c, NEW n, NEW h, NEW r, Row(p, c, n, h, r)
    PROVE  /\ h = "create_init" => p = "rest" /\ c = "create_init" /\ n = 0
           /\ h = "join_reap" => p = "rest" /\ c = "join_reap" /\ n = 0
  BY DEF Row, ClientRow, ExitRow, LockRow, UnlockRow, BurialRow, ReaperRow, ReaperCode, Preemptible, Locked

LEMMA BelowRests ==
    ASSUME NEW p, NEW c, NEW n, NEW h, NEW r, Row(p, c, n, h, r)
    PROVE  /\ h = "create_init" => r = <<>>
           /\ h = "join_reap" => r = <<>>
  BY DEF Row, ClientRow, ExitRow, LockRow, UnlockRow, BurialRow, ReaperRow, ReaperCode, Preemptible, Locked

LEMMA RowsOfJoins ==
    ASSUME NEW p, NEW c, NEW n, NEW h, NEW r, Row(p, c, n, h, r)
    PROVE  /\ h = "detach_check" => p = h /\ c = "nopreempt_off" /\ n = 1 /\ r = <<>>
           /\ h \in {"join_lock", "join_woken"} => p = h /\ c = "join" /\ n = 1 /\ r = <<>>
<1>1. h = "detach_check" => p = h /\ c = "nopreempt_off" /\ n = 1 /\ r = <<>>
  BY DEF Row, ClientRow, ExitRow, LockRow, UnlockRow, BurialRow, ReaperRow, ReaperCode, Preemptible, Locked
<1>2. h \in {"join_lock", "join_woken"} => p = h /\ c = "join" /\ n = 1 /\ r = <<>>
  BY DEF Row, ClientRow, ExitRow, LockRow, UnlockRow, BurialRow, ReaperRow, ReaperCode, Preemptible, Locked
<1> QED BY <1>1, <1>2

LEMMA RowsOfExits ==
    ASSUME NEW p, NEW c, NEW n, NEW h, NEW r, Row(p, c, n, h, r)
    PROVE  /\ h \in {"exit_check", "exit_lock", "exit_switch"} => p = h /\ c = "exit" /\ n = 1 /\ r = <<>>
           /\ h = "dead" => p = h /\ c = "exit" /\ n \in {1, 2} /\ r = <<>>
<1>1. h \in {"exit_check", "exit_lock", "exit_switch"} => p = h /\ c = "exit" /\ n = 1 /\ r = <<>>
  BY DEF Row, ClientRow, ExitRow, LockRow, UnlockRow, BurialRow, ReaperRow, ReaperCode, Preemptible, Locked
<1>2. h = "dead" => p = h /\ c = "exit" /\ n \in {1, 2} /\ r = <<>>
  BY DEF Row, ClientRow, ExitRow, LockRow, UnlockRow, BurialRow, ReaperRow, ReaperCode, Preemptible, Locked
<1> QED BY <1>1, <1>2

LEMMA RowsOfLocks ==
    ASSUME NEW p, NEW c, NEW n, NEW h, NEW r, Row(p, c, n, h, r)
    PROVE  /\ h = "mtx_lock" => p = h /\ c \in Lockers /\ n = Base(c) + 1 /\ r = AfterLock(c)
           /\ h \in {"mtx_locked", "mtx_locked_zombie"} =>
                 p = "mtx_locked" /\ c \in Lockers /\ h = Locked(c) /\ n = Base(c) + 1 /\ r = AfterLock(c)
<1>1. h = "mtx_lock" => p = h /\ c \in Lockers /\ n = Base(c) + 1 /\ r = AfterLock(c)
  BY DEF Row, ClientRow, ExitRow, LockRow, UnlockRow, BurialRow, ReaperRow, ReaperCode, Preemptible, Locked
<1>2. h \in {"mtx_locked", "mtx_locked_zombie"} =>
        p = "mtx_locked" /\ c \in Lockers /\ h = Locked(c) /\ n = Base(c) + 1 /\ r = AfterLock(c)
  BY DEF Row, ClientRow, ExitRow, LockRow, UnlockRow, BurialRow, ReaperRow, ReaperCode, Preemptible, Locked
<1> QED BY <1>1, <1>2

LEMMA RowsOfBurials ==
    ASSUME NEW p, NEW c, NEW n, NEW h, NEW r, Row(p, c, n, h, r)
    PROVE  /\ h = "mtx_unlock" =>
                 p = h /\ c \in Buriers \cup {"reaper_loop"} /\ n = Base(c) + 2 /\ r = <<AfterUnlock(c)>> \o Below(c)
           /\ h \in {"reap_pmut", "make_reapable"} =>
                 \/ p = h /\ c \in Buriers \ {"join"} /\ n = Base(c) /\ r = Below(c)
                 \/ p = "rest" /\ c = h /\ n = 0 /\ r = <<>>
<1>1. h = "mtx_unlock" =>
        p = h /\ c \in Buriers \cup {"reaper_loop"} /\ n = Base(c) + 2 /\ r = <<AfterUnlock(c)>> \o Below(c)
  BY DEF Row, ClientRow, ExitRow, LockRow, UnlockRow, BurialRow, ReaperRow, ReaperCode, Preemptible, Locked
<1>2. h \in {"reap_pmut", "make_reapable"} =>
        \/ p = h /\ c \in Buriers \ {"join"} /\ n = Base(c) /\ r = Below(c)
        \/ p = "rest" /\ c = h /\ n = 0 /\ r = <<>>
  BY DEF Row, ClientRow, ExitRow, LockRow, UnlockRow, BurialRow, ReaperRow, ReaperCode, Preemptible, Locked
<1> QED BY <1>1, <1>2

LEMMA RowsOfSignals ==
    ASSUME NEW p, NEW c, NEW n, NEW h, NEW r, Row(p, c, n, h, r)
    PROVE  /\ h = "cond_signal" => p = h /\ c \in Buriers /\ n = Base(c) + 2 /\ r = <<"reap_unlock">> \o Below(c)
           /\ h \in {"reap_unlock", "reap_release"} => p = h /\ c \in Buriers /\ n = Base(c) + 1 /\ r = Below(c)
<1>1. h = "cond_signal" => p = h /\ c \in Buriers /\ n = Base(c) + 2 /\ r = <<"reap_unlock">> \o Below(c)
  BY DEF Row, ClientRow, ExitRow, LockRow, UnlockRow, BurialRow, ReaperRow, ReaperCode, Preemptible, Locked
<1>2. h \in {"reap_unlock", "reap_release"} => p = h /\ c \in Buriers /\ n = Base(c) + 1 /\ r = Below(c)
  BY DEF Row, ClientRow, ExitRow, LockRow, UnlockRow, BurialRow, ReaperRow, ReaperCode, Preemptible, Locked
<1> QED BY <1>1, <1>2

LEMMA RowsOfReaper ==
    ASSUME NEW p, NEW c, NEW n, NEW h \in ReaperCode, NEW r, Row(p, c, n, h, r)
    PROVE  p = h /\ c = "reaper_loop" /\ n = 1 /\ r = <<>>
  BY DEF Row, ClientRow, ExitRow, LockRow, UnlockRow, BurialRow, ReaperRow, ReaperCode, Preemptible, Locked

LEMMA RowsOfCondWaits ==
    ASSUME NEW p, NEW c, NEW n, NEW h, NEW r, Row(p, c, n, h, r)
    PROVE  h \in {"cond_wait", "cond_sleep", "cond_relock"} => p = h /\ c = "reaper_loop" /\ n = 2 /\ r = <<"reaper_loop">>
  BY DEF Row, ClientRow, ExitRow, LockRow, UnlockRow, BurialRow, ReaperRow, ReaperCode, Preemptible, Locked

LEMMA RowsOfSwitches ==
    ASSUME NEW p, NEW c, NEW n, NEW h, NEW r, Row(p, c, n, h, r)
    PROVE  /\ h = "switch" =>
                \/ p = "yield_switch" /\ c \in Preemptible /\ n = 1 /\ r = <<"nopreempt_off">> \o Below(c)
                \/ p = "mtx_switch" /\ c \in Lockers /\ n = Base(c) + 1 /\ r = <<Locked(c)>> \o AfterLock(c)
                \/ p = "cond_switch" /\ c = "reaper_loop" /\ n = 2 /\ r = <<"cond_relock">> \o <<"reaper_loop">>
                \/ p = "join_switch" /\ c = "join" /\ n = 1 /\ r = <<"join_woken">>
                \/ p = "last_switch" /\ c = "exit" /\ n \in {1, 2} /\ r = <<"dead">>
           /\ h = "nopreempt_off" =>
                \/ p = "off" /\ c \in Preemptible /\ n = 1 /\ r = Below(c)
                \/ p = "unl_off" /\ c \in Buriers \cup {"reaper_loop"} /\ n = Base(c) + 2 /\ r = <<AfterUnlock(c)>> \o Below(c)
                \/ p = "sig_off" /\ c \in Buriers /\ n = Base(c) + 2 /\ r = <<"reap_unlock">> \o Below(c)
                \/ p = "rl_off" /\ c = "reaper_loop" /\ n = 2 /\ r = <<"reaper_loop">>
           /\ h = "wake" =>
                \/ p = "exit_wake" /\ c = "exit" /\ n = 2 /\ r = <<"exit_switch">>
                \/ p = "unl_wake" /\ c \in Buriers \cup {"reaper_loop"} /\ n = Base(c) + 3
                      /\ r = <<"nopreempt_off">> \o (<<AfterUnlock(c)>> \o Below(c))
                \/ p = "sig_wake" /\ c \in Buriers /\ n = Base(c) + 3 /\ r = <<"nopreempt_off">> \o (<<"reap_unlock">> \o Below(c))
           /\ h \notin {"wake_unlock", "setprio_write", "setprio_lock", "mtx_trylock", "cond_broadcast"} /\ c \in Contexts
<1>1. h = "switch" =>
        \/ p = "yield_switch" /\ c \in Preemptible /\ n = 1 /\ r = <<"nopreempt_off">> \o Below(c)
        \/ p = "mtx_switch" /\ c \in Lockers /\ n = Base(c) + 1 /\ r = <<Locked(c)>> \o AfterLock(c)
        \/ p = "cond_switch" /\ c = "reaper_loop" /\ n = 2 /\ r = <<"cond_relock">> \o <<"reaper_loop">>
        \/ p = "join_switch" /\ c = "join" /\ n = 1 /\ r = <<"join_woken">>
        \/ p = "last_switch" /\ c = "exit" /\ n \in {1, 2} /\ r = <<"dead">>
  BY DEF Row, ClientRow, ExitRow, LockRow, UnlockRow, BurialRow, ReaperRow, ReaperCode, Preemptible, Locked
<1>2. h = "nopreempt_off" =>
        \/ p = "off" /\ c \in Preemptible /\ n = 1 /\ r = Below(c)
        \/ p = "unl_off" /\ c \in Buriers \cup {"reaper_loop"} /\ n = Base(c) + 2 /\ r = <<AfterUnlock(c)>> \o Below(c)
        \/ p = "sig_off" /\ c \in Buriers /\ n = Base(c) + 2 /\ r = <<"reap_unlock">> \o Below(c)
        \/ p = "rl_off" /\ c = "reaper_loop" /\ n = 2 /\ r = <<"reaper_loop">>
  BY DEF Row, ClientRow, ExitRow, LockRow, UnlockRow, BurialRow, ReaperRow, ReaperCode, Preemptible, Locked
<1>3. h = "wake" =>
        \/ p = "exit_wake" /\ c = "exit" /\ n = 2 /\ r = <<"exit_switch">>
        \/ p = "unl_wake" /\ c \in Buriers \cup {"reaper_loop"} /\ n = Base(c) + 3
              /\ r = <<"nopreempt_off">> \o (<<AfterUnlock(c)>> \o Below(c))
        \/ p = "sig_wake" /\ c \in Buriers /\ n = Base(c) + 3 /\ r = <<"nopreempt_off">> \o (<<"reap_unlock">> \o Below(c))
  BY DEF Row, ClientRow, ExitRow, LockRow, UnlockRow, BurialRow, ReaperRow, ReaperCode, Preemptible, Locked
<1>4. h \notin {"wake_unlock", "setprio_write", "setprio_lock", "mtx_trylock", "cond_broadcast"} /\ c \in Contexts
  BY DEF Contexts, Lockers, Buriers, Row, ClientRow, ExitRow, LockRow, UnlockRow, BurialRow, ReaperRow, ReaperCode, Preemptible, Locked
<1> QED BY <1>1, <1>2, <1>3, <1>4

-----------------------------------------------------------------------------
(* One LWP: one thread executes, and the others rest.                      *)

\* The invariant holds for points pt and contexts cx, and one LWP runs.
Situation(pt, cx) ==
    /\ OneLwpOnly
    /\ pt \in [Threads -> Points] /\ cx \in [Threads -> Contexts]
    /\ LifeInvAt(pt, cx)

LEMMA LifeObjects ==
    /\ NoThread \notin Threads /\ NoLwp \notin LWPs /\ NoObj \notin Objs
    /\ reap_mtx \in Objs /\ reap_cond \in Objs /\ reap_mtx \notin Threads /\ reap_cond \notin Threads
    /\ reap_mtx # reap_cond /\ Objs = Threads \cup {reap_mtx, reap_cond}
    /\ Mutexes = {reap_mtx} /\ Conds = {reap_cond}
    /\ Reaper \in Threads /\ Reaper \notin Creators
<1>1. Mutexes = {reap_mtx} /\ Conds = {reap_cond} /\ Reaper \notin Creators
  BY LifeAssumption
<1>2. SyncObjs = {reap_mtx, reap_cond} /\ reap_mtx # reap_cond
  BY <1>1, SyncAssumption
<1>3. Reaper \in Threads
  <2>1. Contains(Boot, Reaper) /\ Boot \in Seq(Threads)
    BY LifeAssumption, SchedAssumption
  <2> QED BY <2>1 DEF Contains
<1> QED BY <1>1, <1>2, <1>3, SchedAssumption DEF Objs

Resting == {"free", "off", "mtx_locked", "join_woken", "cond_relock", "dead"}

LEMMA RestingRoles ==
    ASSUME NEW t, NEW p, NEW c, NEW n, NEW s, NEW st, Is(p, c, n, s), StateOff(p, c, st)
    PROVE  /\ p \in Resting
           /\ ~Frees(p, c) /\ ~Settling(p, c)
           /\ Has(p, c) => HasDead(p, c) \/ p = "join_woken" \/ (c = "exit" /\ p = "mtx_locked")
           /\ InSection(p, c) => p = "off" /\ st = "UT_RUNNABLE"
           /\ Passed(p, c) => p = "dead"
           /\ p = "dead" => c = "exit" /\ st = "UT_ZOMBIE" /\ ~Has(p, c)
           /\ Gone(p, c) => p = "dead" \/ (p = "mtx_locked" /\ Has(p, c))
           /\ \A o : Locks(t, p, c, o) => c = "make_reapable" /\ Has(p, c) /\ o = tgt[t]
<1>1. p \in Resting
  BY DEF StateOff, Resting, Woken
<1>2. ~Frees(p, c) /\ ~Settling(p, c) /\ (Passed(p, c) => p = "dead")
  BY <1>1 DEF Resting, Frees, Settling, Sections, Unlocks, Passed
<1>3. c = "exit" => p \in {"mtx_locked", "dead"}
  BY <1>1 DEF Resting, Is, Row, ClientRow, ExitRow, LockRow, UnlockRow, BurialRow, ReaperRow, Preemptible, ReaperCode
<1>4. p = "dead" => c = "exit"
  BY <1>1 DEF Resting, Is, Row, ClientRow, ExitRow, LockRow, UnlockRow, BurialRow, ReaperRow, Preemptible, ReaperCode
<1>5. Has(p, c) => HasDead(p, c) \/ p = "join_woken" \/ (c = "exit" /\ p = "mtx_locked")
  BY <1>1, <1>3 DEF Resting, Has, HasDead, JoinCode
<1>6. c \in {"reap_pmut", "make_reapable"} => p = "off"
  BY <1>1 DEF Resting, Is, Row, ClientRow, ExitRow, LockRow, UnlockRow, BurialRow, ReaperRow, Preemptible, ReaperCode, Lockers, Buriers
<1>7. InSection(p, c) => p = "off" /\ st = "UT_RUNNABLE"
  BY <1>1, <1>6 DEF Resting, InSection, Sections, ReaperCode, StateOff, Woken
<1>8. p = "dead" => c = "exit" /\ st = "UT_ZOMBIE" /\ ~Has(p, c)
  BY <1>4 DEF StateOff, Has, JoinCode, Woken
<1>9. Gone(p, c) => p = "dead" \/ (p = "mtx_locked" /\ Has(p, c))
  BY <1>3 DEF Gone, Has, Buriers
<1>10. ASSUME NEW o, Locks(t, p, c, o) PROVE c = "make_reapable" /\ Has(p, c) /\ o = tgt[t]
  BY <1>1, <1>2, <1>10 DEF Locks, Resting, Unlocks, Has
<1> QED BY <1>1, <1>2, <1>5, <1>7, <1>8, <1>9, <1>10

\* The thread that executes is the only one that does not rest.
LEMMA OneRuns ==
    ASSUME NEW pt, NEW cx, Situation(pt, cx), NEW l \in LWPs, NEW t \in Threads, Running(l, t)
    PROVE  /\ \A k \in LWPs : k = l
           /\ OnLwp(t) /\ \A u \in Threads \ {t} : ~OnLwp(u)
           /\ pt[t] \notin {"dead", "free"} /\ ut_state[t] = StateOn(pt[t], cx[t])
           /\ ut_state[t] \notin {"UT_NO_STATE", "UT_TRANSITION"}
           /\ \A o \in Objs : ~InQueue(o, t)
<1>1. \A k \in LWPs : k = l
  BY DEF Situation, OneLwpOnly
<1>2. OnLwp(t) /\ \A u \in Threads \ {t} : ~OnLwp(u)
  BY <1>1 DEF OnLwp, Running
<1>3. ModeOf(pt[t], cx[t], OnLwp(t), ut_state[t])
  BY DEF Situation, LifeInvAt, Private
<1>4. pt[t] \notin {"dead", "free"} /\ ut_state[t] = StateOn(pt[t], cx[t])
  BY <1>2, <1>3 DEF ModeOf
<1>5. \A o \in Objs : ~InQueue(o, t)
  BY DEF Situation, LifeInvAt, WaitsRight, WaitqOK, InQueue, OnNoLwp, Running
<1> QED BY <1>1, <1>2, <1>4, <1>5 DEF StateOn

LEMMA OffLwpRests ==
    ASSUME NEW pt, NEW cx, Situation(pt, cx), NEW u \in Threads, ~OnLwp(u)
    PROVE  /\ pt[u] \in Resting /\ StateOff(pt[u], cx[u], ut_state[u])
           /\ ~Frees(pt[u], cx[u]) /\ ~Settling(pt[u], cx[u])
           /\ Has(pt[u], cx[u]) =>
                 HasDead(pt[u], cx[u]) \/ pt[u] = "join_woken" \/ (cx[u] = "exit" /\ pt[u] = "mtx_locked")
           /\ InSection(pt[u], cx[u]) => pt[u] = "off" /\ ut_state[u] = "UT_RUNNABLE"
           /\ Passed(pt[u], cx[u]) => pt[u] = "dead"
           /\ pt[u] = "dead" => cx[u] = "exit" /\ ut_state[u] = "UT_ZOMBIE" /\ ~Has(pt[u], cx[u])
           /\ Gone(pt[u], cx[u]) => pt[u] = "dead" \/ (pt[u] = "mtx_locked" /\ Has(pt[u], cx[u]))
           /\ \A o : Locks(u, pt[u], cx[u], o) => cx[u] = "make_reapable" /\ Has(pt[u], cx[u]) /\ o = tgt[u]
<1>1. /\ Is(pt[u], cx[u], ut_no_preempt_count[u], stack[u])
      /\ ModeOf(pt[u], cx[u], OnLwp(u), ut_state[u])
  BY DEF Situation, LifeInvAt, Private
<1>2. StateOff(pt[u], cx[u], ut_state[u])
  BY <1>1 DEF ModeOf
<1> QED BY <1>1, <1>2, RestingRoles

LEMMA OffLwpLocks ==
    ASSUME NEW pt, NEW cx, Situation(pt, cx), NEW u \in Threads, ~OnLwp(u), NEW o, Locks(u, pt[u], cx[u], o)
    PROVE  cx[u] = "make_reapable" /\ Has(pt[u], cx[u]) /\ o = tgt[u]
<1>1. /\ Is(pt[u], cx[u], ut_no_preempt_count[u], stack[u])
      /\ ModeOf(pt[u], cx[u], OnLwp(u), ut_state[u])
  BY DEF Situation, LifeInvAt, Private
<1>2. StateOff(pt[u], cx[u], ut_state[u])
  BY <1>1 DEF ModeOf
<1> QED BY <1>1, <1>2, RestingRoles
-----------------------------------------------------------------------------
(* A step of one thread that leaves the processor and the queues alone.    *)

\* Of the points or contexts f only that of t changes, to x.
Moves(f, g, t, x) == g[t] = x /\ \A u \in Threads \ {t} : g[u] = f[u]

LEMMA MoveExists ==
    ASSUME NEW S, NEW f \in [Threads -> S], NEW t \in Threads, NEW x \in S
    PROVE  \E g \in [Threads -> S] : Moves(f, g, t, x)
<1> DEFINE g == [f EXCEPT ![t] = x]
<1>1. g \in [Threads -> S] /\ Moves(f, g, t, x)
  BY DEF Moves
<1> QED BY <1>1

LEMMA MovesExist ==
    ASSUME NEW pt \in [Threads -> Points], NEW cx \in [Threads -> Contexts], NEW t \in Threads,
           NEW q \in Points, NEW d \in Contexts
    PROVE  \E pq \in [Threads -> Points], cd \in [Threads -> Contexts] :
              Moves(pt, pq, t, q) /\ Moves(cx, cd, t, d)
<1>1. /\ \E pq \in [Threads -> Points] : Moves(pt, pq, t, q)
      /\ \E cd \in [Threads -> Contexts] : Moves(cx, cd, t, d)
  BY MoveExists
<1> QED BY <1>1

\* What a thread keeps to itself is not touched.
Kept(u) ==
    /\ ut_state'[u] = ut_state[u] /\ ut_no_preempt_count'[u] = ut_no_preempt_count[u]
    /\ stack'[u] = stack[u] /\ swarg'[u] = swarg[u] /\ wakee'[u] = wakee[u]
    /\ newthr'[u] = newthr[u] /\ tgt'[u] = tgt[u]
    /\ marg'[u] = marg[u] /\ carg'[u] = carg[u] /\ crit'[u] = crit[u]

LEMMA KeptPrivate ==
    ASSUME NEW u \in Threads, NEW p, NEW c, Private(u, p, c), Kept(u), OnLwp(u)' <=> OnLwp(u)
    PROVE  Private(u, p, c)'
<1>1. Is(p, c, ut_no_preempt_count[u], stack[u])' /\ ModeOf(p, c, OnLwp(u), ut_state[u])'
  BY DEF Private, Kept, ModeOf
<1>2. SwitchArgs(u, p)' /\ LockArgs(u, p, c)'
  BY DEF Private, Kept, SwitchArgs, LockArgs
<1>3. CallArgs(u, p, c)' /\ Roles(u, p, c)'
  BY DEF Private, Kept, CallArgs, Roles
<1> QED BY <1>1, <1>2, <1>3 DEF Private

\* The step of t that LocalStep is about.
Local(t) ==
    /\ UNCHANGED <<curthr, lwp, runqVars, ut_prio, waitq, wakee>>
    /\ \A u \in Threads \ {t} : Kept(u)
    /\ ut_state'[t] \notin {"UT_NO_STATE", "UT_TRANSITION"}

LEMMA LocalFrame ==
    ASSUME NEW t \in Threads, Local(t)
    PROVE  /\ \A u : OnLwp(u)' <=> OnLwp(u)
           /\ \A o, u : InQueue(o, u)' <=> InQueue(o, u)
           /\ \A u : Queued(u)' <=> Queued(u)
  BY DEF Local, OnLwp, Running, InQueue, Queued, runqVars

LEMMA LocalRunq ==
    ASSUME NEW pt, NEW cx, Situation(pt, cx), NEW l \in LWPs, NEW t \in Threads, Running(l, t), Local(t)
    PROVE  RunqRight'
<1>0. /\ ut_state[t] \notin {"UT_NO_STATE", "UT_TRANSITION"} /\ OnLwp(t)
      /\ \A u \in Threads \ {t} : ut_state'[u] = ut_state[u]
      /\ UNCHANGED <<curthr, lwp, runq, tq_size, runq_mtx, ut_prio>>
      /\ ut_state'[t] \notin {"UT_NO_STATE", "UT_TRANSITION"}
      /\ RunqRight
  BY OneRuns DEF Local, runqVars, Kept, Situation, LifeInvAt
<1>1. runq_mtx' = NoLwp /\ LwpOK' /\ QueueCountsAgree'
  BY <1>0 DEF RunqRight, LwpOK, QueueCountsAgree
<1>2. PrioOK'
  BY <1>0 DEF RunqRight, PrioOK
<1>3. RunqOK'
  <2>1. ASSUME NEW p \in Prios, NEW i \in 1..Len(runq[p]), runq[p][i] \in Threads PROVE runq[p][i] # t
    BY <1>0 DEF RunqRight, RunqOK, OnNoLwp, OnLwp, Running
  <2>2. \A p \in Prios : \A i \in 1..Len(runq[p]) : runq[p][i] \in Threads
    BY DEF Situation, LifeInvAt, LifeTypeOK, SchedTypes
  <2> QED BY <1>0, <2>1, <2>2 DEF RunqRight, RunqOK, OnNoLwp
<1>4. \A u \in Threads : ut_state'[u] = "UT_RUNNABLE" /\ ~OnLwp(u)' => Queued(u)'
  BY <1>0, LocalFrame DEF RunqRight
<1> QED BY <1>1, <1>2, <1>3, <1>4 DEF RunqRight

LEMMA LocalWaits ==
    ASSUME NEW pt, NEW cx, Situation(pt, cx), NEW l \in LWPs, NEW t \in Threads, Running(l, t), Local(t),
           NEW pq, \A u \in Threads \ {t} : pq[u] = pt[u]
    PROVE  WaitsRight(pq)'
<1>0. /\ OnLwp(t) /\ \A o \in Objs : ~InQueue(o, t)
      /\ \A u \in Threads \ {t} : ut_state'[u] = ut_state[u] /\ tgt'[u] = tgt[u]
      /\ UNCHANGED <<curthr, waitq, wakee>>
      /\ WaitsRight(pt)
  BY OneRuns DEF Local, Kept, Situation, LifeInvAt
<1>1. WaitqOK'
  <2>1. \A o \in Objs : \A i \in 1..Len(waitq[o]) : waitq[o][i] \in Threads /\ waitq[o][i] # t
    BY <1>0 DEF Situation, LifeInvAt, LifeTypeOK, SchedTypes, InQueue
  <2> QED BY <1>0, <2>1 DEF WaitsRight, WaitqOK, OnNoLwp
<1>2. \A u \in Threads :
          /\ InQueue(reap_mtx, u)' => pq[u] = "mtx_locked"
          /\ InQueue(reap_cond, u)' => pq[u] = "cond_relock"
          /\ \A v \in Threads : InQueue(v, u)' => pq[u] = "join_woken" /\ tgt'[u] = v
  BY <1>0, LocalFrame, LifeObjects DEF WaitsRight
<1>3. \A u \in Threads : wakee'[u] # NoThread =>
          /\ ut_state'[wakee'[u]] = "UT_WAIT" /\ ~OnLwp(wakee[u])'
          /\ \A o \in Objs : ~InQueue(o, wakee[u])'
  <2>1. \A u \in Threads : wakee[u] \in Threads \cup {NoThread}
    BY DEF Situation, LifeInvAt, LifeTypeOK, SchedTypes
  <2> QED BY <1>0, <2>1, LocalFrame DEF WaitsRight
<1>4. \A u \in Threads : ut_state'[u] = "UT_WAIT" /\ ~OnLwp(u)' =>
          \/ \E o \in Objs : InQueue(o, u)'
          \/ \E v \in Threads : wakee'[v] = u
  BY <1>0, LocalFrame DEF WaitsRight
<1> QED BY <1>1, <1>2, <1>3, <1>4 DEF WaitsRight

LEMMA LocalNew ==
    ASSUME NEW pt, NEW cx, Situation(pt, cx), NEW l \in LWPs, NEW t \in Threads, Running(l, t), Local(t),
           NEW pq, \A u \in Threads \ {t} : pq[u] = pt[u],
           newthr' = newthr, {pt[t], pq[t]} \cap {"alloc_claim", "startonrunq"} = {}
    PROVE  NewRight(pq)'
<1>0. /\ \A u \in Threads \ {t} : ut_state'[u] = ut_state[u] /\ pt[u] \in Resting
      /\ ut_state[t] \notin {"UT_NO_STATE", "UT_TRANSITION"}
      /\ ut_state'[t] \notin {"UT_NO_STATE", "UT_TRANSITION"}
      /\ NewRight(pt)
      /\ \A u \in Threads : newthr[u] \in Threads \cup {NoThread}
  BY OneRuns, OffLwpRests DEF Local, Kept, Situation, LifeInvAt, LifeTypeOK, SchedTypes
<1>1. \A u \in Threads : pt[u] \notin {"alloc_claim", "startonrunq"} /\ pq[u] \notin {"alloc_claim", "startonrunq"}
  BY <1>0 DEF Resting
<1>2. \A u \in Threads : newthr[u] # NoThread => newthr[u] # t /\ ut_state'[newthr[u]] = "UT_TRANSITION"
  BY <1>0, <1>1 DEF NewRight
<1> QED BY <1>0, <1>1, <1>2 DEF NewRight

-----------------------------------------------------------------------------
(* What such a step keeps when the part of t in it stays the same.         *)

\* Thread t, on LWP l, goes from its point in pt and cx to that in pq and cd.
Advance(pt, cx, pq, cd, l, t) ==
    /\ Situation(pt, cx) /\ Running(l, t) /\ Local(t)
    /\ \A u \in Threads \ {t} : pq[u] = pt[u] /\ cd[u] = cx[u]

LEMMA AdvanceParts ==
    ASSUME NEW pt, NEW cx, NEW pq, NEW cd, NEW l \in LWPs, NEW t \in Threads,
           Advance(pt, cx, pq, cd, l, t), Private(t, pq[t], cd[t])'
    PROVE  /\ \A u \in Threads : Private(u, pq[u], cd[u])'
           /\ RunqRight' /\ WaitsRight(pq)'
<1>1. ASSUME NEW u \in Threads \ {t} PROVE Private(u, pq[u], cd[u])'
  <2>1. Private(u, pt[u], cx[u]) /\ Kept(u) /\ (OnLwp(u)' <=> OnLwp(u)) /\ pq[u] = pt[u] /\ cd[u] = cx[u]
    BY LocalFrame DEF Advance, Situation, LifeInvAt, Local
  <2>2. Private(u, pt[u], cx[u])'
    BY <2>1, KeptPrivate
  <2>3. \A p, c : p = pt[u] /\ c = cx[u] /\ Private(u, pt[u], cx[u])' => Private(u, p, c)'
    OBVIOUS
  <2> QED BY <2>1, <2>2, <2>3
<1>2. RunqRight' /\ WaitsRight(pq)'
  BY LocalRunq, LocalWaits DEF Advance
<1> QED BY <1>1, <1>2

LEMMA KeepsPmuts ==
    ASSUME NEW pt, NEW cx, NEW pq, NEW cd, NEW l \in LWPs, NEW t \in Threads,
           Advance(pt, cx, pq, cd, l, t), UNCHANGED pmut,
           \A o \in Objs : Locks(t, pq[t], cd[t], o)' <=> Locks(t, pt[t], cx[t], o)
    PROVE  PmutsRight(pq, cd)'
<1>1. ASSUME NEW u \in Threads \ {t}, NEW o \in Objs
      PROVE  Locks(u, pq[u], cd[u], o)' <=> Locks(u, pt[u], cx[u], o)
  BY DEF Advance, Local, Kept, Locks
<1> QED BY <1>1 DEF Advance, Situation, LifeInvAt, PmutsRight

LEMMA KeepsMutex ==
    ASSUME NEW pt, NEW cx, NEW pq, NEW cd, NEW l \in LWPs, NEW t \in Threads,
           Advance(pt, cx, pq, cd, l, t), UNCHANGED m_owner,
           InSection(pq[t], cd[t]) <=> InSection(pt[t], cx[t]),
           {pt[t], pq[t]} \cap {"mtx_locked", "mtx_switch"} = {}
    PROVE  MutexRight(pq, cd)'
<1>1. /\ MutexRight(pt, cx) /\ waitq' = waitq
      /\ \A u \in Threads \ {t} : pq[u] = pt[u] /\ cd[u] = cx[u]
  BY DEF Advance, Situation, LifeInvAt, Local
<1>2. \A u : InQueue(reap_mtx, u)' <=> InQueue(reap_mtx, u)
  BY LocalFrame DEF Advance
<1> QED BY <1>1, <1>2 DEF MutexRight

LEMMA KeepsCustody ==
    ASSUME NEW pt, NEW cx, NEW pq, NEW cd, NEW l \in LWPs, NEW t \in Threads,
           Advance(pt, cx, pq, cd, l, t), UNCHANGED <<reap_queue, claimed>>,
           Has(pq[t], cd[t]) => Has(pt[t], cx[t]) /\ tgt'[t] = tgt[t],
           Frees(pq[t], cd[t]) => Frees(pt[t], cx[t]) /\ tgt'[t] = tgt[t],
           Passed(pt[t], cx[t]) => Passed(pq[t], cd[t])
    PROVE  Custody(pq, cd)'
<1>1. /\ Custody(pt, cx)
      /\ \A u \in Threads \ {t} :
            pq[u] = pt[u] /\ cd[u] = cx[u] /\ tgt'[u] = tgt[u] /\ ut_state'[u] = ut_state[u]
      /\ ut_state'[t] \notin {"UT_NO_STATE", "UT_TRANSITION"}
  BY DEF Advance, Situation, LifeInvAt, Local, Kept
<1>2. \A u : InReapQueue(u)' <=> InReapQueue(u)
  BY DEF InReapQueue
<1>3. /\ \A u \in Threads : Has(pq[u], cd[u]) => Has(pt[u], cx[u]) /\ tgt'[u] = tgt[u]
      /\ \A u \in Threads : Frees(pq[u], cd[u]) => Frees(pt[u], cx[u]) /\ tgt'[u] = tgt[u]
      /\ \A u \in Threads : Passed(pt[u], cx[u]) => Passed(pq[u], cd[u])
  BY <1>1
<1>4. \A u, v \in Threads : Has(pq[u], cd[u]) /\ Has(pq[v], cd[v]) /\ tgt'[u] = tgt'[v] => u = v
  BY <1>1, <1>3 DEF Custody
<1>5. ASSUME NEW u \in Threads, Has(pq[u], cd[u])
      PROVE  /\ ~InReapQueue(tgt[u])' /\ tgt'[u] \in claimed'
             /\ ut_state'[tgt'[u]] \notin {"UT_NO_STATE", "UT_TRANSITION"}
  <2>1. /\ tgt'[u] = tgt[u] /\ ~InReapQueue(tgt[u]) /\ tgt[u] \in claimed
        /\ ut_state[tgt[u]] \notin {"UT_NO_STATE", "UT_TRANSITION"} /\ tgt[u] \in Threads
    BY <1>1, <1>3, <1>5 DEF Custody, Advance, Situation, LifeInvAt, LifeTypeOK
  <2>2. \A x, y : x = y /\ ~InReapQueue(y)' => ~InReapQueue(x)'
    OBVIOUS
  <2> QED BY <1>1, <1>2, <2>1, <2>2
<1>6. /\ \A u \in Threads : InReapQueue(u)' => u \in claimed' /\ Passed(pq[u], cd[u])
      /\ \A u \in Threads : Frees(pq[u], cd[u]) => InReapQueue(tgt[u])'
  BY <1>1, <1>2, <1>3 DEF Custody, InReapQueue
<1>7. \A i, j \in 1..Len(reap_queue') : reap_queue'[i] = reap_queue'[j] => i = j
  BY <1>1 DEF Custody
<1> QED BY <1>4, <1>5, <1>6, <1>7 DEF Custody

LEMMA KeepsTargets ==
    ASSUME NEW pt, NEW cx, NEW pq, NEW cd, NEW l \in LWPs, NEW t \in Threads,
           Advance(pt, cx, pq, cd, l, t), UNCHANGED <<ut_detached, claimed>>,
           Joins(pq[t], cd[t]) => Joins(pt[t], cx[t]) /\ tgt'[t] = tgt[t],
           HasDead(pq[t], cd[t]) => tgt[t] \in Threads /\ pt[tgt[t]] = "dead" /\ tgt'[t] = tgt[t],
           pq[t] # "detach_check"
    PROVE  Targets(pq, cd)'
<1>1. /\ Targets(pt, cx) /\ pt[t] # "dead"
      /\ \A u \in Threads \ {t} : pq[u] = pt[u] /\ cd[u] = cx[u] /\ tgt'[u] = tgt[u]
      /\ \A u \in Threads : HasDead(pt[u], cx[u]) => tgt[u] \in Threads
  <2>1. \A u \in Threads : HasDead(pt[u], cx[u]) => tgt[u] \in Threads
    BY DEF Advance, Situation, LifeInvAt, LifeTypeOK, Private, CallArgs, HasDead
  <2> QED BY <2>1, OneRuns DEF Advance, Situation, LifeInvAt, Local, Kept
<1>2. \A u \in Threads : Joins(pq[u], cd[u]) => Joins(pt[u], cx[u]) /\ tgt'[u] = tgt[u]
  BY <1>1
<1>3. \A u \in Threads : pt[u] = "dead" => pq[u] = "dead"
  BY <1>1
<1>4. \A u \in Threads : HasDead(pq[u], cd[u]) => pt[tgt[u]] = "dead" /\ tgt'[u] = tgt[u] /\ tgt[u] \in Threads
  BY <1>1 DEF Targets
<1> QED BY <1>1, <1>2, <1>3, <1>4 DEF Targets

LEMMA KeepsCare ==
    ASSUME NEW pt, NEW cx, NEW pq, NEW cd, NEW l \in LWPs, NEW t \in Threads,
           Advance(pt, cx, pq, cd, l, t), UNCHANGED <<ut_detached, claimed, reap_queue>>,
           Has(pt[t], cx[t]) => Has(pq[t], cd[t]) /\ tgt'[t] = tgt[t],
           (cx[t] = "exit" => pt[t] = "exit_check") => (cd[t] = "exit" => pq[t] = "exit_check")
    PROVE  CaredFor(pq, cd)'
<1>1. /\ CaredFor(pt, cx) /\ claimed \subseteq Threads
      /\ \A u \in Threads \ {t} :
            pq[u] = pt[u] /\ cd[u] = cx[u] /\ tgt'[u] = tgt[u] /\ ut_state'[u] = ut_state[u]
      /\ ut_state[t] \notin {"UT_NO_STATE", "UT_TRANSITION"}
  BY OneRuns DEF Advance, Situation, LifeInvAt, LifeTypeOK, Local, Kept
<1>2. \A u \in Threads : Has(pt[u], cx[u]) => Has(pq[u], cd[u]) /\ tgt'[u] = tgt[u]
  BY <1>1
<1>3. \A u : InReapQueue(u)' <=> InReapQueue(u)
  BY DEF InReapQueue
<1> QED BY <1>1, <1>2, <1>3 DEF CaredFor

LEMMA KeepsJoins ==
    ASSUME NEW pt, NEW cx, NEW pq, NEW cd, NEW l \in LWPs, NEW t \in Threads,
           Advance(pt, cx, pq, cd, l, t),
           Gone(pq[t], cd[t]) <=> Gone(pt[t], cx[t]),
           pq[t] \notin {"join_switch", "join_woken"}
    PROVE  JoinsRight(pq, cd)'
<1>1. /\ JoinsRight(pt, cx)
      /\ \A u \in Threads \ {t} : pq[u] = pt[u] /\ cd[u] = cx[u] /\ tgt'[u] = tgt[u] /\ pt[u] \in Resting
      /\ \A u \in Threads : pt[u] = "join_woken" => tgt[u] \in Threads
  <2>1. \A u \in Threads : pt[u] = "join_woken" => tgt[u] \in Threads
    BY DEF Advance, Situation, LifeInvAt, LifeTypeOK, Private, CallArgs, Has, JoinCode
  <2> QED BY <2>1, OneRuns, OffLwpRests DEF Advance, Situation, LifeInvAt, Local, Kept
<1>2. \A u \in Threads : Gone(pq[u], cd[u]) <=> Gone(pt[u], cx[u])
  BY <1>1
<1>3. \A o, u : InQueue(o, u)' <=> InQueue(o, u)
  BY LocalFrame DEF Advance
<1>4. \A u \in Threads : pq[u] # "join_switch" /\ (pq[u] = "join_woken" => pt[u] = "join_woken" /\ tgt'[u] = tgt[u])
  BY <1>1 DEF Resting
<1>5. ASSUME NEW u \in Threads, pq[u] = "join_woken"
      PROVE  InQueue(tgt[u], u)' \/ Gone(pq[tgt'[u]], cd[tgt'[u]])
  <2>1. tgt'[u] = tgt[u] /\ tgt[u] \in Threads /\ (InQueue(tgt[u], u) \/ Gone(pt[tgt[u]], cx[tgt[u]]))
    BY <1>1, <1>4, <1>5 DEF JoinsRight
  <2>2. \A x, y : x = y /\ InQueue(y, u)' => InQueue(x, u)'
    OBVIOUS
  <2> QED BY <1>2, <1>3, <2>1, <2>2
<1>6. \A u, v \in Threads : InQueue(v, u)' => ~Gone(pq[v], cd[v])
  BY <1>1, <1>2, <1>3 DEF JoinsRight
<1> QED BY <1>4, <1>5, <1>6 DEF JoinsRight

LEMMA KeepsReaper ==
    ASSUME NEW pt, NEW cx, NEW pq, NEW cd, NEW l \in LWPs, NEW t \in Threads,
           Advance(pt, cx, pq, cd, l, t), UNCHANGED <<reap_queue, halted>>,
           pt[t] = "reaper_scan" => pq[t] = "reaper_scan", pt[t] = "cond_signal" => pq[t] = "cond_signal",
           Settling(pq[t], cd[t]) => Settling(pt[t], cx[t]) \/ reap_queue = <<>>
    PROVE  ReaperRight(pq, cd)'
<1>1. /\ ReaperRight(pt, cx)
      /\ \A u \in Threads \ {t} : pq[u] = pt[u] /\ cd[u] = cx[u] /\ ut_state'[u] = ut_state[u]
      /\ ut_state'[t] # "UT_NO_STATE" /\ Reaper \in Threads
  BY LifeObjects DEF Advance, Situation, LifeInvAt, Local, Kept
<1>2. \A u \in Threads : Settling(pq[u], cd[u]) => Settling(pt[u], cx[u]) \/ reap_queue = <<>>
  BY <1>1
<1>3. \A o, u : InQueue(o, u)' <=> InQueue(o, u)
  BY LocalFrame DEF Advance
<1> QED BY <1>1, <1>2, <1>3 DEF ReaperRight

-----------------------------------------------------------------------------
(* Where the thread that executes is, and how a step of it ends.           *)

LEMMA AtPoint ==
    ASSUME NEW pt, NEW cx, Situation(pt, cx), NEW l \in LWPs, NEW t \in Threads
    PROVE  /\ \A h : At(l, t, h) =>
                 /\ Row(pt[t], cx[t], ut_no_preempt_count[t], h, Tail(stack[t]))
                 /\ stack[t] # <<>> /\ Head(stack[t]) = h /\ Running(l, t)
           /\ InClient(l, t) =>
                 /\ pt[t] = "rest" /\ cx[t] = "client" /\ ut_no_preempt_count[t] = 0
                 /\ stack[t] = <<>> /\ Running(l, t) /\ ut_state[t] = "UT_ON_CPU"
<1>1. Private(t, pt[t], cx[t]) /\ Is(pt[t], cx[t], ut_no_preempt_count[t], stack[t])
  BY DEF Situation, LifeInvAt, Private
<1>2. ASSUME NEW h, At(l, t, h)
      PROVE  /\ Row(pt[t], cx[t], ut_no_preempt_count[t], h, Tail(stack[t]))
             /\ stack[t] # <<>> /\ Head(stack[t]) = h /\ Running(l, t)
  BY <1>1, <1>2 DEF At, Is
<1>3. ASSUME InClient(l, t)
      PROVE  /\ pt[t] = "rest" /\ cx[t] = "client" /\ ut_no_preempt_count[t] = 0
             /\ stack[t] = <<>> /\ Running(l, t) /\ ut_state[t] = "UT_ON_CPU"
  <2>1. Running(l, t) /\ stack[t] = <<>>
    BY <1>3 DEF InClient
  <2>2. pt[t] # "free" /\ ut_state[t] = StateOn(pt[t], cx[t])
    BY <2>1, OneRuns
  <2>3. pt[t] = "rest" /\ cx[t] = "client" /\ ut_no_preempt_count[t] = 0
    BY <1>1, <2>1, <2>2 DEF Is
  <2> QED BY <2>1, <2>2, <2>3 DEF StateOn
<1> QED BY <1>2, <1>3

LEMMA AdvanceExists ==
    ASSUME NEW pt, NEW cx, Situation(pt, cx), NEW l \in LWPs, NEW t \in Threads, Running(l, t), Local(t),
           NEW q \in Points, NEW d \in Contexts
    PROVE  \E pq \in [Threads -> Points], cd \in [Threads -> Contexts] :
              Advance(pt, cx, pq, cd, l, t) /\ pq[t] = q /\ cd[t] = d
<1>1. pt \in [Threads -> Points] /\ cx \in [Threads -> Contexts]
  BY DEF Situation
<1>2. PICK pq \in [Threads -> Points], cd \in [Threads -> Contexts] :
         Moves(pt, pq, t, q) /\ Moves(cx, cd, t, d)
  BY <1>1, MovesExist
<1>3. Advance(pt, cx, pq, cd, l, t) /\ pq[t] = q /\ cd[t] = d
  BY <1>2 DEF Moves, Advance
<1> QED BY <1>3

\* The parts that an advance does not keep by itself.
Rights(pq, cd) ==
    /\ PmutsRight(pq, cd) /\ MutexRight(pq, cd) /\ Custody(pq, cd) /\ Targets(pq, cd)
    /\ CaredFor(pq, cd) /\ JoinsRight(pq, cd) /\ ReaperRight(pq, cd)

LEMMA AdvanceEnds ==
    ASSUME NEW pt, NEW cx, NEW pq \in [Threads -> Points], NEW cd \in [Threads -> Contexts],
           NEW l \in LWPs, NEW t \in Threads,
           Advance(pt, cx, pq, cd, l, t), Private(t, pq[t], cd[t])', LifeTypeOK', NewRight(pq)',
           halted' \in {"none", "exit"}, Rights(pq, cd)'
    PROVE  LifeInv'
<1>1. /\ \A u \in Threads : Private(u, pq[u], cd[u])'
      /\ RunqRight' /\ WaitsRight(pq)'
  BY AdvanceParts
<1>2. HaltRight'
  BY DEF HaltRight
<1>3. LifeInvAt(pq, cd)'
  BY <1>1, <1>2 DEF LifeInvAt, Rights
<1> QED BY <1>3 DEF LifeInv

\* A step that changes nothing but what the thread executes.
LEMMA PlainStep ==
    ASSUME NEW pt, NEW cx, Situation(pt, cx), NEW l \in LWPs, NEW t \in Threads, Running(l, t), Local(t),
           NEW q \in Points, NEW d \in Contexts, Private(t, q, d)', LifeTypeOK',
           UNCHANGED <<pmut, m_owner, newthr, ut_detached, claimed, reap_queue, halted>>, halted = "none",
           {pt[t], q} \cap {"alloc_claim", "startonrunq"} = {},
           \A o \in Objs : Locks(t, q, d, o)' <=> Locks(t, pt[t], cx[t], o),
           InSection(q, d) <=> InSection(pt[t], cx[t]),
           {pt[t], q} \cap {"mtx_locked", "mtx_switch"} = {},
           Has(q, d) <=> Has(pt[t], cx[t]),
           Has(q, d) => tgt'[t] = tgt[t],
           Frees(q, d) => Frees(pt[t], cx[t]) /\ tgt'[t] = tgt[t],
           Passed(pt[t], cx[t]) => Passed(q, d),
           Joins(q, d) => Joins(pt[t], cx[t]),
           HasDead(q, d) => HasDead(pt[t], cx[t]),
           (cx[t] = "exit" => pt[t] = "exit_check") => (d = "exit" => q = "exit_check"),
           Gone(q, d) <=> Gone(pt[t], cx[t]),
           q \notin {"join_switch", "join_woken", "detach_check"},
           pt[t] \notin {"reaper_scan", "cond_signal"},
           Settling(q, d) => Settling(pt[t], cx[t]) \/ reap_queue = <<>>
    PROVE  LifeInv'
<1>1. PICK pq \in [Threads -> Points], cd \in [Threads -> Contexts] :
         Advance(pt, cx, pq, cd, l, t) /\ pq[t] = q /\ cd[t] = d
  BY AdvanceExists
<1>2. Private(t, pq[t], cd[t])'
  BY <1>1
<1>3. NewRight(pq)'
  BY <1>1, LocalNew DEF Advance
<1>4. PmutsRight(pq, cd)' /\ MutexRight(pq, cd)'
  <2>1. \A o \in Objs : Locks(t, pq[t], cd[t], o)' <=> Locks(t, pt[t], cx[t], o)
    BY <1>1
  <2> QED BY <1>1, <2>1, KeepsPmuts, KeepsMutex
<1>5. Custody(pq, cd)'
  BY <1>1, KeepsCustody
<1>6. Targets(pq, cd)'
  <2>1. Joins(pq[t], cd[t]) => Joins(pt[t], cx[t]) /\ tgt'[t] = tgt[t]
    BY <1>1 DEF Joins
  <2>2. HasDead(pq[t], cd[t]) => tgt[t] \in Threads /\ pt[tgt[t]] = "dead" /\ tgt'[t] = tgt[t]
    BY <1>1 DEF Situation, LifeInvAt, LifeTypeOK, Targets, HasDead, Private, CallArgs
  <2> QED BY <1>1, <2>1, <2>2, KeepsTargets
<1>7. CaredFor(pq, cd)'
  BY <1>1, KeepsCare
<1>8. JoinsRight(pq, cd)' /\ ReaperRight(pq, cd)'
  BY <1>1, KeepsJoins, KeepsReaper
<1> QED BY <1>1, <1>2, <1>3, <1>4, <1>5, <1>6, <1>7, <1>8, AdvanceEnds DEF Rights

-----------------------------------------------------------------------------
(* The steps that change nothing but what the thread executes.             *)

\* The end of nopreempt_off.
ReturnsTo(p, c) ==
    IF p = "off" THEN "rest" ELSE IF p = "sig_off" THEN "reap_unlock"
    ELSE IF p = "rl_off" THEN "reaper_loop" ELSE AfterUnlock(c)

LEMMA LifeReturn ==
    ASSUME NEW pt, NEW cx, Situation(pt, cx), NEW l \in LWPs, NEW t \in Threads, halted = "none",
           Return(l, t), UNCHANGED <<mtxVars, lifeVars>>
    PROVE  LifeInv'
<1> DEFINE p == pt[t]
           c == cx[t]
           n == ut_no_preempt_count[t]
           q == ReturnsTo(pt[t], cx[t])
<1>1. /\ Row(p, c, n, "nopreempt_off", Tail(stack[t])) /\ stack[t] # <<>> /\ Running(l, t)
      /\ c \in Contexts
  BY AtPoint DEF Return, Situation
<1>2. \/ p = "off" /\ c \in Preemptible /\ n = 1 /\ Tail(stack[t]) = Below(c)
      \/ p = "unl_off" /\ c \in Buriers \cup {"reaper_loop"} /\ n = Base(c) + 2 /\ Tail(stack[t]) = <<AfterUnlock(c)>> \o Below(c)
      \/ p = "sig_off" /\ c \in Buriers /\ n = Base(c) + 2 /\ Tail(stack[t]) = <<"reap_unlock">> \o Below(c)
      \/ p = "rl_off" /\ c = "reaper_loop" /\ n = 2 /\ Tail(stack[t]) = <<"reaper_loop">>
  BY <1>1, RowsOfSwitches
<1>3. /\ Private(t, p, c) /\ LifeTypeOK
      /\ n \in Nat
  BY DEF Situation, LifeInvAt, LifeTypeOK, SchedTypes
<1>4. /\ stack' \in [Threads -> Seq(LifeNames)] /\ stack'[t] = Tail(stack[t])
      /\ \A u \in Threads \ {t} : stack'[u] = stack[u]
  BY <1>1, <1>3, LifeContinue DEF Return
<1>5. /\ ut_no_preempt_count' \in [Threads -> Nat] /\ ut_no_preempt_count'[t] = n - 1
      /\ \A u \in Threads \ {t} : ut_no_preempt_count'[u] = ut_no_preempt_count[u]
  BY <1>2, <1>3 DEF Return, NopreemptOff, LifeTypeOK, SchedTypes, Base
<1>6. /\ UNCHANGED <<curthr, lwp, ut_state, ut_prio, runq, tq_size, runq_mtx, waitq, pmut, swarg, wakee,
                     sparg, newthr, halted, m_owner, marg, carg, crit, ut_detached, reap_queue, tgt, claimed>>
  BY DEF Return, cpuVars, runqVars, waitVars, argVars, mtxVars, lifeVars
<1>7. LifeTypeOK'
  BY <1>3, <1>4, <1>5, <1>6 DEF LifeTypeOK, SchedTypes, LifeNames
<1>8. Local(t)
  <2>1. ut_state[t] \notin {"UT_NO_STATE", "UT_TRANSITION"}
    BY <1>1, OneRuns
  <2> QED BY <1>4, <1>5, <1>6, <2>1 DEF Local, Kept, runqVars
<1>9. Private(t, q, c)'
  <2>1. Is(q, c, n - 1, stack'[t])
    <3>1. CASE p = "off" /\ c = "client"
      BY <1>2, <1>4, <3>1 DEF Is, ReturnsTo, Below
    <3>2. CASE p = "off" /\ c # "client"
      <4>1. c \in Preemptible \ {"client"} /\ c \in LifeNames /\ Below(c) = <<c>> /\ n = 1
        BY <1>2, <3>2, NamesKnown DEF Preemptible, Below
      <4>2. stack'[t] # <<>> /\ Head(stack'[t]) = c /\ Tail(stack'[t]) = <<>>
        BY <1>2, <1>4, <3>2, <4>1, OneName
      <4> QED BY <3>2, <4>1, <4>2 DEF Is, Row, ClientRow, ReturnsTo
    <3>3. CASE p = "unl_off"
      <4>1. stack'[t] = <<AfterUnlock(c)>> \o Below(c) /\ n - 1 = Base(c) + 1 /\ q = AfterUnlock(c)
        BY <1>2, <1>4, <3>3 DEF ReturnsTo, Base
      <4>2. stack'[t] # <<>> /\ Head(stack'[t]) = AfterUnlock(c) /\ Tail(stack'[t]) = Below(c)
        BY <1>1, <4>1, AfterCons, BelowType
      <4>3. CASE c = "reaper_loop"
        <5>1. ReaperRow("cond_sleep", c, 2, "cond_sleep", Below(c))
          BY <4>3 DEF ReaperRow, Below
        <5>2. n - 1 = 2 /\ q = "cond_sleep" /\ AfterUnlock(c) = "cond_sleep"
          BY <4>1, <4>3 DEF Base, AfterUnlock
        <5> QED BY <4>2, <5>1, <5>2 DEF Is, Row
      <4>4. CASE c \in Buriers
        <5>1. AfterUnlock(c) = "reap_release"
          BY <4>4 DEF Buriers, AfterUnlock
        <5>2. BurialRow("reap_release", c, Base(c) + 1, "reap_release", Below(c))
          BY <4>4 DEF BurialRow
        <5> QED BY <4>1, <4>2, <5>1, <5>2 DEF Is, Row
      <4> QED BY <1>2, <3>3, <4>3, <4>4
    <3>4. CASE p = "sig_off"
      <4>1. /\ stack'[t] = <<"reap_unlock">> \o Below(c) /\ n - 1 = Base(c) + 1 /\ q = "reap_unlock"
            /\ Below(c) \in Seq(LifeNames) /\ "reap_unlock" \in LifeNames /\ c \in Buriers
        BY <1>1, <1>2, <1>4, <3>4, BelowType, NamesKnown DEF ReturnsTo, Base
      <4>2. stack'[t] # <<>> /\ Head(stack'[t]) = "reap_unlock" /\ Tail(stack'[t]) = Below(c)
        BY <4>1, AfterCons
      <4>3. BurialRow("reap_unlock", c, Base(c) + 1, "reap_unlock", Below(c))
        BY <4>1 DEF BurialRow
      <4> QED BY <4>1, <4>2, <4>3 DEF Is, Row
    <3>5. CASE p = "rl_off"
      <4>1. stack'[t] = <<"reaper_loop">> /\ n - 1 = 1 /\ q = "reaper_loop" /\ c = "reaper_loop" /\ "reaper_loop" \in LifeNames
        BY <1>2, <1>4, <3>5, NamesKnown DEF ReturnsTo
      <4>2. ReaperRow("reaper_loop", c, 1, "reaper_loop", <<>>)
        BY <4>1 DEF ReaperRow, ReaperCode
      <4> QED BY <4>1, <4>2, OneName DEF Is, Row
    <3> QED BY <1>2, <3>1, <3>2, <3>3, <3>4, <3>5
  <2>2. ModeOf(q, c, OnLwp(t), ut_state[t])'
    <3>1. OnLwp(t)' /\ p \notin {"dead", "free"} /\ ut_state'[t] = StateOn(p, c)
      BY <1>1, <1>6, OneRuns DEF OnLwp, Running
    <3>2. StateOn(q, c) = StateOn(p, c) /\ q \notin {"dead", "free"}
      BY <1>2 DEF StateOn, ReturnsTo, AfterUnlock
    <3> QED BY <3>1, <3>2 DEF ModeOf
  <2>3. SwitchArgs(t, q)' /\ LockArgs(t, q, c)'
    BY <1>2, <1>3, <1>6 DEF Private, SwitchArgs, LockArgs, ReturnsTo, AfterUnlock, InSection, Settling, CondWaits, Sections, ReaperCode, Unlocks
  <2>4. CallArgs(t, q, c)' /\ Roles(t, q, c)'
    BY <1>2, <1>3, <1>6 DEF Private, CallArgs, Roles, ReturnsTo, AfterUnlock, Allocates, WakePoints, Has, Frees, Sections, Unlocks, JoinCode, Buriers, Preemptible
  <2> QED BY <1>4, <1>5, <2>1, <2>2, <2>3, <2>4 DEF Private
<1>10. /\ q \in Points /\ {p, q} \cap {"alloc_claim", "startonrunq"} = {}
       /\ \A o \in Objs : Locks(t, q, c, o)' <=> Locks(t, p, c, o)
       /\ InSection(q, c) <=> InSection(p, c)
       /\ {p, q} \cap {"mtx_locked", "mtx_switch"} = {}
  BY <1>2, <1>6 DEF ReturnsTo, AfterUnlock, Points, ReaperCode, Sections, CondWaits, Locks, Frees, Unlocks, InSection, Buriers
<1>11. /\ Has(q, c) <=> Has(p, c)
       /\ Frees(q, c) <=> Frees(p, c)
       /\ Passed(p, c) <=> Passed(q, c)
       /\ Joins(q, c) <=> Joins(p, c)
       /\ HasDead(q, c) <=> HasDead(p, c)
  BY <1>2 DEF ReturnsTo, AfterUnlock, Has, Frees, Passed, Joins, HasDead, JoinCode, Sections, Unlocks, Buriers
<1>12. /\ (c = "exit" => p = "exit_check") => (c = "exit" => q = "exit_check")
       /\ Gone(q, c) <=> Gone(p, c)
       /\ q \notin {"join_switch", "join_woken", "detach_check"}
       /\ p \notin {"reaper_scan", "cond_signal"}
       /\ Settling(q, c) => Settling(p, c) \/ reap_queue = <<>>
  BY <1>2 DEF ReturnsTo, AfterUnlock, Gone, Settling, Unlocks
<1> HIDE DEF p, c, n, q
<1>13. c \in Contexts /\ c = cx[t] /\ p = pt[t]
  BY <1>1 DEF c, p
<1> QED BY <1>1, <1>6, <1>7, <1>8, <1>9, <1>10, <1>11, <1>12, <1>13, PlainStep

\* A thread on its LWP stays in a state of its point.
LEMMA StaysOn ==
    ASSUME NEW pt, NEW cx, Situation(pt, cx), NEW l \in LWPs, NEW t \in Threads, Running(l, t), curthr' = curthr,
           NEW q, NEW d, ut_state'[t] = StateOn(q, d), q \notin {"dead", "free"}
    PROVE  ModeOf(q, d, OnLwp(t), ut_state[t])'
<1>1. OnLwp(t)'
  BY DEF OnLwp, Running
<1> QED BY <1>1 DEF ModeOf

LEMMA OneFrame ==
    ASSUME NEW s \in Seq(LifeNames), s # <<>>, Tail(s) = <<>>
    PROVE  s = <<Head(s)>>
<1>1. Len(Tail(s)) = Len(s) - 1 /\ Len(s) \in Nat
  OBVIOUS
<1>2. Len(s) = 1
  BY <1>1
<1>3. s[1] = Head(s) /\ Head(s) \in LifeNames /\ <<Head(s)>> \in Seq(LifeNames) /\ Len(<<Head(s)>>) = 1
  OBVIOUS
<1>4. \A i \in 1..Len(s) : s[i] = <<Head(s)>>[i]
  BY <1>2, <1>3
<1> QED BY <1>2, <1>3, <1>4, SeqEqual

\* uthread_yield, and the clock.
LEMMA LifeYield ==
    ASSUME NEW pt, NEW cx, Situation(pt, cx), NEW l \in LWPs, NEW t \in Threads, halted = "none",
           UthreadYield(l, t) \/ ClockInterrupt(l, t), UNCHANGED <<mtxVars, lifeVars>>
    PROVE  LifeInv'
<1> DEFINE c == cx[t]
<1>1. /\ Running(l, t) /\ pt[t] = "rest" /\ c \in Preemptible /\ ut_no_preempt_count[t] = 0
      /\ stack[t] = Below(c) /\ ut_state[t] = "UT_ON_CPU"
  <2>1. CASE UthreadYield(l, t)
    BY <2>1, AtPoint DEF UthreadYield, Below, Preemptible
  <2>2. CASE ClockInterrupt(l, t)
    <3>1. Running(l, t) /\ ut_no_preempt_count[t] = 0 /\ ut_state[t] = "UT_ON_CPU"
      BY <2>2 DEF ClockInterrupt
    <3>2. Is(pt[t], c, 0, stack[t]) /\ pt[t] # "free"
      BY <3>1, OneRuns DEF Situation, LifeInvAt, Private
    <3>3. CASE stack[t] = <<>>
      BY <3>1, <3>2, <3>3 DEF Is, Below, Preemptible
    <3>4. CASE stack[t] # <<>>
      <4>1. Row(pt[t], c, 0, Head(stack[t]), Tail(stack[t]))
        BY <3>2, <3>4 DEF Is
      <4>2. pt[t] = "rest" /\ c \in Preemptible \ {"client"} /\ Head(stack[t]) = c /\ Tail(stack[t]) = <<>>
        BY <4>1 DEF Row, ClientRow, ExitRow, LockRow, UnlockRow, BurialRow, ReaperRow, Base, Buriers, Lockers
      <4>3. stack[t] = <<Head(stack[t])>>
        <5>1. stack[t] \in Seq(LifeNames)
          BY DEF Situation, LifeInvAt, LifeTypeOK, SchedTypes, LifeNames
        <5> QED BY <3>4, <4>2, <5>1, OneFrame
      <4> QED BY <3>1, <4>2, <4>3 DEF Below, Preemptible
    <3> QED BY <3>3, <3>4
  <2> QED BY <2>1, <2>2
<1>2. /\ Private(t, "rest", c) /\ LifeTypeOK /\ ut_no_preempt_count[t] \in Nat /\ c \in Contexts
      /\ Below(c) \in Seq(LifeNames)
  BY <1>1, BelowType DEF Situation, LifeInvAt, LifeTypeOK, SchedTypes
<1>3. /\ stack' \in [Threads -> Seq(LifeNames)] /\ stack'[t] # <<>>
      /\ Head(stack'[t]) = "yield_lock" /\ Tail(stack'[t]) = <<"nopreempt_off">> \o Below(c)
      /\ \A u \in Threads \ {t} : stack'[u] = stack[u]
  <2>1. Push(t, <<"yield_lock", "nopreempt_off">>)
    BY DEF UthreadYield, ClockInterrupt, YieldFrames
  <2>2. "yield_lock" \in LifeNames /\ "nopreempt_off" \in LifeNames
    BY NamesKnown
  <2> QED BY <1>1, <1>2, <2>1, <2>2, LifePush
<1>4. /\ ut_no_preempt_count' \in [Threads -> Nat] /\ ut_no_preempt_count'[t] = 1
      /\ \A u \in Threads \ {t} : ut_no_preempt_count'[u] = ut_no_preempt_count[u]
  BY <1>1, <1>2 DEF UthreadYield, ClockInterrupt, YieldEnter, NopreemptOn, LifeTypeOK, SchedTypes
<1>5. /\ ut_state' \in [Threads -> UtStates] /\ ut_state'[t] = "UT_RUNNABLE"
      /\ \A u \in Threads \ {t} : ut_state'[u] = ut_state[u]
  BY <1>2 DEF UthreadYield, ClockInterrupt, YieldEnter, LifeTypeOK, SchedTypes, UtStates
<1>6. UNCHANGED <<curthr, lwp, ut_prio, runq, tq_size, runq_mtx, waitq, pmut, swarg, wakee, sparg, newthr,
                  halted, m_owner, marg, carg, crit, ut_detached, reap_queue, tgt, claimed>>
  BY DEF UthreadYield, ClockInterrupt, cpuVars, runqVars, waitVars, argVars, mtxVars, lifeVars
<1>7. LifeTypeOK'
  BY <1>2, <1>3, <1>4, <1>5, <1>6 DEF LifeTypeOK, SchedTypes, LifeNames
<1>8. Local(t)
  BY <1>3, <1>4, <1>5, <1>6 DEF Local, Kept, runqVars
<1>9. Private(t, "yield_lock", c)'
  <2>1. Is("yield_lock", c, 1, stack'[t])
    BY <1>1, <1>3 DEF Is, Row, ClientRow
  <2>2. ModeOf("yield_lock", c, OnLwp(t), ut_state[t])'
    BY <1>1, <1>5, <1>6, StaysOn DEF StateOn
  <2>3. SwitchArgs(t, "yield_lock")' /\ LockArgs(t, "yield_lock", c)'
    BY <1>1, <1>2, <1>6 DEF Private, SwitchArgs, LockArgs, InSection, Settling, CondWaits, Sections, ReaperCode, Unlocks, Preemptible
  <2>4. CallArgs(t, "yield_lock", c)' /\ Roles(t, "yield_lock", c)'
    BY <1>1, <1>2, <1>6 DEF Private, CallArgs, Roles, Allocates, WakePoints, Has, Frees, Sections, Unlocks, JoinCode, Buriers, Preemptible, Yields
  <2> QED BY <1>4, <2>1, <2>2, <2>3, <2>4 DEF Private
<1>10. /\ "yield_lock" \in Points
       /\ \A o \in Objs : Locks(t, "yield_lock", c, o)' <=> Locks(t, pt[t], c, o)
       /\ InSection("yield_lock", c) <=> InSection(pt[t], c)
  BY <1>1, <1>6 DEF Points, Yields, Locks, Frees, Unlocks, Sections, ReaperCode, InSection, Buriers
<1>11. /\ Has("yield_lock", c) <=> Has(pt[t], c)
       /\ ~Frees("yield_lock", c) /\ ~Passed(pt[t], c)
       /\ Joins("yield_lock", c) <=> Joins(pt[t], c)
       /\ HasDead("yield_lock", c) <=> HasDead(pt[t], c)
  BY <1>1 DEF Has, Frees, Passed, Joins, HasDead, JoinCode, Sections, Unlocks, Buriers, Preemptible
<1>12. c # "exit" /\ ~Gone("yield_lock", c) /\ ~Gone(pt[t], c) /\ ~Settling("yield_lock", c)
  BY <1>1 DEF Gone, Settling, Unlocks, Preemptible
<1> HIDE DEF c
<1>13. c \in Contexts /\ c = cx[t]
  BY <1>2 DEF c
<1> QED BY <1>1, <1>6, <1>7, <1>8, <1>9, <1>10, <1>11, <1>12, <1>13, PlainStep

\* uthread_cond_wait.
LEMMA LifeCondRelock ==
    ASSUME NEW pt, NEW cx, Situation(pt, cx), NEW l \in LWPs, NEW t \in Threads, halted = "none",
           CondRelock(l, t), UNCHANGED lifeVars
    PROVE  LifeInv'
<1>1. /\ Running(l, t) /\ stack[t] # <<>> /\ pt[t] = "cond_relock" /\ cx[t] = "reaper_loop"
      /\ ut_no_preempt_count[t] = 2 /\ Tail(stack[t]) = <<"reaper_loop">>
  <2>1. /\ Row(pt[t], cx[t], ut_no_preempt_count[t], "cond_relock", Tail(stack[t])) /\ stack[t] # <<>>
        /\ Running(l, t)
    BY AtPoint DEF CondRelock
  <2> QED BY <2>1, RowsOfCondWaits
<1>2. /\ Private(t, "cond_relock", "reaper_loop") /\ LifeTypeOK /\ ut_no_preempt_count[t] \in Nat
  BY <1>1 DEF Situation, LifeInvAt, LifeTypeOK, SchedTypes
<1>3. /\ stack' \in [Threads -> Seq(LifeNames)] /\ stack'[t] # <<>>
      /\ Head(stack'[t]) = "mtx_lock" /\ Tail(stack'[t]) = <<"nopreempt_off">> \o <<"reaper_loop">>
      /\ \A u \in Threads \ {t} : stack'[u] = stack[u]
  <2>1. Continue(t, <<"mtx_lock", "nopreempt_off">>)
    BY <1>1, <1>2 DEF CondRelock
  <2>2. "mtx_lock" \in LifeNames /\ "nopreempt_off" \in LifeNames
    BY <1>1, NamesKnown
  <2> QED BY <1>1, <1>2, <2>1, <2>2, LifeContinue
<1>4. /\ ut_no_preempt_count' \in [Threads -> Nat] /\ ut_no_preempt_count'[t] = 3
      /\ \A u \in Threads \ {t} : ut_no_preempt_count'[u] = ut_no_preempt_count[u]
  BY <1>1, <1>2 DEF CondRelock, NopreemptOn, NopreemptOff, LifeTypeOK, SchedTypes, Base
<1>5. /\ carg' \in [Threads -> Conds \cup {NoObj}] /\ \A u \in Threads \ {t} : carg'[u] = carg[u]
  BY <1>2 DEF CondRelock, LifeTypeOK
<1>6. UNCHANGED <<curthr, lwp, ut_state, ut_prio, runq, tq_size, runq_mtx, waitq, pmut, swarg, wakee,
                  sparg, newthr, halted, m_owner, marg, crit, ut_detached, reap_queue, tgt, claimed>>
  BY <1>1, <1>2 DEF CondRelock, cpuVars, thrVars, runqVars, waitVars, argVars, mtxVars, lifeVars, SyncRest
<1>7. LifeTypeOK'
  BY <1>1, <1>2, <1>3, <1>4, <1>5, <1>6 DEF LifeTypeOK, SchedTypes, LifeNames
<1>8. Local(t)
  <2>1. ut_state[t] \notin {"UT_NO_STATE", "UT_TRANSITION"}
    BY <1>1, OneRuns
  <2> QED BY <1>1, <1>2, <1>3, <1>4, <1>5, <1>6, <2>1 DEF Local, Kept, runqVars
<1>9. Private(t, "mtx_lock", "relock")'
  <2>1. Is("mtx_lock", "relock", ut_no_preempt_count[t], stack[t])'
    <3>1. LockRow("mtx_lock", "relock", 3, "mtx_lock", <<"nopreempt_off">> \o <<"reaper_loop">>)
      BY <1>1 DEF LockRow, AfterLock, Below, Base, Lockers, Buriers
    <3> QED BY <1>1, <1>3, <1>4, <3>1 DEF Is, Row
  <2>2. ModeOf("mtx_lock", "relock", OnLwp(t), ut_state[t])'
    <3>1. ut_state[t] = StateOn(pt[t], cx[t])
      BY <1>1, OneRuns
    <3>2. ut_state'[t] = StateOn("mtx_lock", "relock")
      BY <1>1, <1>2, <1>6, <3>1 DEF StateOn, Buriers, Lockers, Preemptible
    <3> QED BY <1>1, <1>6, <3>2, StaysOn
  <2>3. SwitchArgs(t, "mtx_lock")' /\ LockArgs(t, "mtx_lock", "relock")'
    BY <1>1, <1>2, <1>4, <1>5, <1>6 DEF Private, SwitchArgs, LockArgs, InSection, Settling, CondWaits,
                                        Sections, ReaperCode, Unlocks, Preemptible, Buriers
  <2>4. CallArgs(t, "mtx_lock", "relock")' /\ Roles(t, "mtx_lock", "relock")'
    BY <1>1, <1>2, <1>4, <1>5, <1>6 DEF Private, CallArgs, Roles, Allocates, WakePoints, Has, Frees,
                                        Sections, Unlocks, JoinCode, Buriers, Preemptible, Yields
  <2> QED BY <2>1, <2>2, <2>3, <2>4 DEF Private
<1>10. /\ "mtx_lock" \in Points /\ "relock" \in Contexts /\ {"cond_relock", "mtx_lock"} \cap {"alloc_claim", "startonrunq"} = {}
       /\ \A o \in Objs : Locks(t, "mtx_lock", "relock", o)' <=> Locks(t, "cond_relock", "reaper_loop", o)
       /\ InSection("mtx_lock", "relock") <=> InSection("cond_relock", "reaper_loop")
       /\ {"cond_relock", "mtx_lock"} \cap {"mtx_locked", "mtx_switch"} = {}
  BY <1>1, <1>2, <1>4, <1>5, <1>6 DEF Points, Yields, Sections, Unlocks, ReaperCode, CondWaits,
                                      ExitCode, JoinCode, Locks, Frees, InSection, Buriers,
                                      Preemptible, Contexts, Lockers
<1>11. /\ Has("mtx_lock", "relock") <=> Has("cond_relock", "reaper_loop")
       /\ Has("mtx_lock", "relock") => tgt'[t] = tgt[t]
       /\ Frees("mtx_lock", "relock") => Frees("cond_relock", "reaper_loop") /\ tgt'[t] = tgt[t]
       /\ Passed("cond_relock", "reaper_loop") => Passed("mtx_lock", "relock")
       /\ Joins("mtx_lock", "relock") => Joins("cond_relock", "reaper_loop")
       /\ HasDead("mtx_lock", "relock") => HasDead("cond_relock", "reaper_loop")
  BY <1>1, <1>4, <1>5, <1>6 DEF Has, Frees, Passed, Joins, HasDead, JoinCode, Sections, Unlocks,
                                Buriers, Preemptible, Lockers
<1>12. /\ ("reaper_loop" = "exit" => "cond_relock" = "exit_check") => ("relock" = "exit" => "mtx_lock" = "exit_check")
       /\ Gone("mtx_lock", "relock") <=> Gone("cond_relock", "reaper_loop")
       /\ "mtx_lock" \notin {"join_switch", "join_woken", "detach_check"}
       /\ "cond_relock" \notin {"reaper_scan", "cond_signal"}
       /\ Settling("mtx_lock", "relock") => Settling("cond_relock", "reaper_loop") \/ reap_queue = <<>>
  BY <1>1 DEF Gone, Settling, Unlocks, Preemptible, Buriers
<1> QED BY <1>1, <1>6, <1>7, <1>8, <1>9, <1>10, <1>11, <1>12, PlainStep

LEMMA LifeCondSleep ==
    ASSUME NEW pt, NEW cx, Situation(pt, cx), NEW l \in LWPs, NEW t \in Threads, halted = "none",
           CondSleep(l, t), UNCHANGED lifeVars
    PROVE  LifeInv'
<1>1. /\ Running(l, t) /\ stack[t] # <<>> /\ pt[t] = "cond_sleep" /\ cx[t] = "reaper_loop"
      /\ ut_no_preempt_count[t] = 2 /\ Tail(stack[t]) = <<"reaper_loop">>
  <2>1. /\ Row(pt[t], cx[t], ut_no_preempt_count[t], "cond_sleep", Tail(stack[t])) /\ stack[t] # <<>>
        /\ Running(l, t)
    BY AtPoint DEF CondSleep
  <2> QED BY <2>1, RowsOfCondWaits
<1>2. /\ Private(t, "cond_sleep", "reaper_loop") /\ LifeTypeOK /\ ut_no_preempt_count[t] \in Nat
  BY <1>1 DEF Situation, LifeInvAt, LifeTypeOK, SchedTypes
<1>3. /\ stack' \in [Threads -> Seq(LifeNames)] /\ stack'[t] # <<>>
      /\ Head(stack'[t]) = "switch" /\ Tail(stack'[t]) = <<"cond_relock">> \o <<"reaper_loop">>
      /\ \A u \in Threads \ {t} : stack'[u] = stack[u]
  <2>1. Continue(t, <<"switch", "cond_relock">>)
    BY <1>1, <1>2 DEF CondSleep
  <2>2. "switch" \in LifeNames /\ "cond_relock" \in LifeNames
    BY <1>1, NamesKnown
  <2> QED BY <1>1, <1>2, <2>1, <2>2, LifeContinue
<1>4. /\ ut_state' \in [Threads -> UtStates] /\ ut_state'[t] = "UT_WAIT"
      /\ \A u \in Threads \ {t} : ut_state'[u] = ut_state[u]
  BY <1>1, <1>2 DEF CondSleep, LifeTypeOK, SchedTypes, UtStates
<1>5. /\ swarg' \in [Threads -> [queue : Objs \cup {NoObj}, saveonrq : BOOLEAN, pmut : Objs \cup {NoObj}]]
      /\ swarg'[t] = [queue |-> reap_cond, saveonrq |-> FALSE, pmut |-> reap_cond]
      /\ \A u \in Threads \ {t} : swarg'[u] = swarg[u]
  <2>1. swarg' = [swarg EXCEPT ![t] = [queue |-> reap_cond, saveonrq |-> FALSE, pmut |-> reap_cond]]
    BY <1>1, <1>2 DEF CondSleep, Private, LockArgs, CondWaits
  <2>2. swarg \in [Threads -> [queue : Objs \cup {NoObj}, saveonrq : BOOLEAN, pmut : Objs \cup {NoObj}]]
    BY <1>2 DEF LifeTypeOK, SchedTypes
  <2>3. [queue |-> reap_cond, saveonrq |-> FALSE, pmut |-> reap_cond] \in [queue : Objs \cup {NoObj}, saveonrq : BOOLEAN, pmut : Objs \cup {NoObj}]
    BY LifeObjects DEF Objs
  <2> QED BY <2>1, <2>2, <2>3
<1>6. UNCHANGED <<curthr, lwp, ut_prio, ut_no_preempt_count, runq, tq_size, runq_mtx, waitq, pmut,
                  wakee, sparg, newthr, halted, m_owner, marg, carg, crit, ut_detached, reap_queue,
                  tgt, claimed>>
  BY <1>1, <1>2 DEF CondSleep, cpuVars, thrVars, runqVars, waitVars, argVars, mtxVars, lifeVars, SyncRest
<1>7. LifeTypeOK'
  BY <1>1, <1>2, <1>3, <1>4, <1>5, <1>6 DEF LifeTypeOK, SchedTypes, LifeNames
<1>8. Local(t)
  BY <1>1, <1>2, <1>3, <1>4, <1>5, <1>6 DEF Local, Kept, runqVars
<1>9. Private(t, "cond_switch", "reaper_loop")'
  <2>1. Is("cond_switch", "reaper_loop", ut_no_preempt_count[t], stack[t])'
    <3>1. ReaperRow("cond_switch", "reaper_loop", 2, "switch", <<"cond_relock">> \o <<"reaper_loop">>)
      BY <1>1 DEF ReaperRow
    <3> QED BY <1>1, <1>3, <1>6, <3>1 DEF Is, Row
  <2>2. ModeOf("cond_switch", "reaper_loop", OnLwp(t), ut_state[t])'
    <3>1. ut_state'[t] = StateOn("cond_switch", "reaper_loop")
      BY <1>1, <1>2, <1>4, <1>5, <1>6 DEF StateOn, Buriers, Lockers, Preemptible
    <3> QED BY <1>1, <1>6, <3>1, StaysOn
  <2>3. SwitchArgs(t, "cond_switch")' /\ LockArgs(t, "cond_switch", "reaper_loop")'
    BY <1>1, <1>2, <1>4, <1>5, <1>6 DEF Private, SwitchArgs, LockArgs, InSection, Settling, CondWaits,
                                        Sections, ReaperCode, Unlocks, Preemptible, Buriers
  <2>4. CallArgs(t, "cond_switch", "reaper_loop")' /\ Roles(t, "cond_switch", "reaper_loop")'
    BY <1>1, <1>2, <1>4, <1>5, <1>6 DEF Private, CallArgs, Roles, Allocates, WakePoints, Has, Frees,
                                        Sections, Unlocks, JoinCode, Buriers, Preemptible, Yields
  <2> QED BY <2>1, <2>2, <2>3, <2>4 DEF Private
<1>10. /\ "cond_switch" \in Points /\ "reaper_loop" \in Contexts /\ {"cond_sleep", "cond_switch"} \cap {"alloc_claim", "startonrunq"} = {}
       /\ \A o \in Objs : Locks(t, "cond_switch", "reaper_loop", o)' <=> Locks(t, "cond_sleep", "reaper_loop", o)
       /\ InSection("cond_switch", "reaper_loop") <=> InSection("cond_sleep", "reaper_loop")
       /\ {"cond_sleep", "cond_switch"} \cap {"mtx_locked", "mtx_switch"} = {}
  BY <1>1, <1>2, <1>4, <1>5, <1>6 DEF Points, Yields, Sections, Unlocks, ReaperCode, CondWaits,
                                      ExitCode, JoinCode, Locks, Frees, InSection, Buriers,
                                      Preemptible, Contexts, Lockers
<1>11. /\ Has("cond_switch", "reaper_loop") <=> Has("cond_sleep", "reaper_loop")
       /\ Has("cond_switch", "reaper_loop") => tgt'[t] = tgt[t]
       /\ Frees("cond_switch", "reaper_loop") => Frees("cond_sleep", "reaper_loop") /\ tgt'[t] = tgt[t]
       /\ Passed("cond_sleep", "reaper_loop") => Passed("cond_switch", "reaper_loop")
       /\ Joins("cond_switch", "reaper_loop") => Joins("cond_sleep", "reaper_loop")
       /\ HasDead("cond_switch", "reaper_loop") => HasDead("cond_sleep", "reaper_loop")
  BY <1>1, <1>4, <1>5, <1>6 DEF Has, Frees, Passed, Joins, HasDead, JoinCode, Sections, Unlocks,
                                Buriers, Preemptible, Lockers
<1>12. /\ ("reaper_loop" = "exit" => "cond_sleep" = "exit_check") => ("reaper_loop" = "exit" => "cond_switch" = "exit_check")
       /\ Gone("cond_switch", "reaper_loop") <=> Gone("cond_sleep", "reaper_loop")
       /\ "cond_switch" \notin {"join_switch", "join_woken", "detach_check"}
       /\ "cond_sleep" \notin {"reaper_scan", "cond_signal"}
       /\ Settling("cond_switch", "reaper_loop") => Settling("cond_sleep", "reaper_loop") \/ reap_queue = <<>>
  BY <1>1 DEF Gone, Settling, Unlocks, Preemptible, Buriers
<1> QED BY <1>1, <1>6, <1>7, <1>8, <1>9, <1>10, <1>11, <1>12, PlainStep

\* uthread_exit.
LEMMA LifeExit ==
    ASSUME NEW pt, NEW cx, Situation(pt, cx), NEW l \in LWPs, NEW t \in Threads, halted = "none",
           UthreadExit(l, t)
    PROVE  LifeInv'
<1>1. /\ Running(l, t) /\ stack[t] = <<>> /\ pt[t] = "rest" /\ cx[t] = "client"
      /\ ut_no_preempt_count[t] = 0 /\ ut_state[t] = "UT_ON_CPU" /\ t # Reaper
  <2>1. InClient(l, t)
    BY DEF UthreadExit
  <2> QED BY <2>1, AtPoint DEF UthreadExit
<1>2. /\ Private(t, "rest", "client") /\ LifeTypeOK /\ ut_no_preempt_count[t] \in Nat
  BY <1>1 DEF Situation, LifeInvAt, LifeTypeOK, SchedTypes
<1>3. /\ stack' \in [Threads -> Seq(LifeNames)] /\ stack'[t] # <<>>
      /\ Head(stack'[t]) = "exit_check" /\ Tail(stack'[t]) = <<>>
      /\ \A u \in Threads \ {t} : stack'[u] = stack[u]
  <2>1. Push(t, <<"exit_check">>)
    BY <1>1, <1>2 DEF UthreadExit
  <2>2. "exit_check" \in LifeNames
    BY <1>1, NamesKnown
  <2> QED BY <1>1, <1>2, <2>1, <2>2, LifePush
<1>4. /\ ut_no_preempt_count' \in [Threads -> Nat] /\ ut_no_preempt_count'[t] = 1
      /\ \A w \in Threads \ {t} : ut_no_preempt_count'[w] = ut_no_preempt_count[w]
  BY <1>1, <1>2 DEF UthreadExit, NopreemptOn, NopreemptOff, LifeTypeOK, SchedTypes, Base
<1>5. /\ ut_state' \in [Threads -> UtStates] /\ ut_state'[t] = "UT_ZOMBIE"
      /\ \A u \in Threads \ {t} : ut_state'[u] = ut_state[u]
  BY <1>1, <1>2 DEF UthreadExit, LifeTypeOK, SchedTypes, UtStates
<1>6. /\ tgt' \in [Threads -> Threads \cup {NoThread}] /\ tgt'[t] = t
      /\ \A u \in Threads \ {t} : tgt'[u] = tgt[u]
  BY <1>1, <1>2 DEF UthreadExit, LifeTypeOK
<1>7. UNCHANGED <<curthr, lwp, ut_prio, runq, tq_size, runq_mtx, waitq, pmut, swarg, wakee, sparg,
                  newthr, halted, m_owner, marg, carg, crit, ut_detached, reap_queue, claimed>>
  BY <1>1, <1>2 DEF UthreadExit, cpuVars, thrVars, runqVars, waitVars, argVars, mtxVars, lifeVars, SyncRest
<1>8. LifeTypeOK'
  BY <1>1, <1>2, <1>3, <1>4, <1>5, <1>6, <1>7 DEF LifeTypeOK, SchedTypes, LifeNames
<1>9. Local(t)
  BY <1>1, <1>2, <1>3, <1>4, <1>5, <1>6, <1>7 DEF Local, Kept, runqVars
<1>10. Private(t, "exit_check", "exit")'
  <2>1. Is("exit_check", "exit", ut_no_preempt_count[t], stack[t])'
    <3>1. ExitRow("exit_check", "exit", 1, "exit_check", <<>>)
      BY <1>1 DEF ExitRow
    <3> QED BY <1>1, <1>3, <1>4, <3>1 DEF Is, Row
  <2>2. ModeOf("exit_check", "exit", OnLwp(t), ut_state[t])'
    <3>1. ut_state'[t] = StateOn("exit_check", "exit")
      BY <1>1, <1>2, <1>4, <1>5, <1>6, <1>7 DEF StateOn, Buriers, Lockers, Preemptible
    <3> QED BY <1>1, <1>7, <3>1, StaysOn
  <2>3. SwitchArgs(t, "exit_check")' /\ LockArgs(t, "exit_check", "exit")'
    BY <1>1, <1>2, <1>4, <1>5, <1>6, <1>7, LifeObjects DEF Private, SwitchArgs, LockArgs, InSection,
                                                           Settling, CondWaits, Sections, ReaperCode,
                                                           Unlocks, Preemptible, Buriers
  <2>4. CallArgs(t, "exit_check", "exit")' /\ Roles(t, "exit_check", "exit")'
    BY <1>1, <1>2, <1>4, <1>5, <1>6, <1>7, LifeObjects DEF Private, CallArgs, Roles, Allocates,
                                                           WakePoints, Has, Frees, Sections, Unlocks,
                                                           JoinCode, Buriers, Preemptible, Yields
  <2> QED BY <2>1, <2>2, <2>3, <2>4 DEF Private
<1>11. /\ "exit_check" \in Points /\ "exit" \in Contexts /\ {"rest", "exit_check"} \cap {"alloc_claim", "startonrunq"} = {}
       /\ \A o \in Objs : Locks(t, "exit_check", "exit", o)' <=> Locks(t, "rest", "client", o)
       /\ InSection("exit_check", "exit") <=> InSection("rest", "client")
       /\ {"rest", "exit_check"} \cap {"mtx_locked", "mtx_switch"} = {}
  BY <1>1, <1>2, <1>4, <1>5, <1>6, <1>7 DEF Points, Yields, Sections, Unlocks, ReaperCode, CondWaits,
                                            ExitCode, JoinCode, Locks, Frees, InSection, Buriers,
                                            Preemptible, Contexts, Lockers
<1>12. /\ Has("exit_check", "exit") <=> Has("rest", "client")
       /\ Has("exit_check", "exit") => tgt'[t] = tgt[t]
       /\ Frees("exit_check", "exit") => Frees("rest", "client") /\ tgt'[t] = tgt[t]
       /\ Passed("rest", "client") => Passed("exit_check", "exit")
       /\ Joins("exit_check", "exit") => Joins("rest", "client")
       /\ HasDead("exit_check", "exit") => HasDead("rest", "client")
  BY <1>1, <1>4, <1>5, <1>6, <1>7 DEF Has, Frees, Passed, Joins, HasDead, JoinCode, Sections, Unlocks,
                                      Buriers, Preemptible, Lockers
<1>13. /\ ("client" = "exit" => "rest" = "exit_check") => ("exit" = "exit" => "exit_check" = "exit_check")
       /\ Gone("exit_check", "exit") <=> Gone("rest", "client")
       /\ "exit_check" \notin {"join_switch", "join_woken", "detach_check"}
       /\ "rest" \notin {"reaper_scan", "cond_signal"}
       /\ Settling("exit_check", "exit") => Settling("rest", "client") \/ reap_queue = <<>>
  BY <1>1 DEF Gone, Settling, Unlocks, Preemptible, Buriers
<1> QED BY <1>1, <1>7, <1>8, <1>9, <1>10, <1>11, <1>12, <1>13, PlainStep

LEMMA LifeExitSwitch ==
    ASSUME NEW pt, NEW cx, Situation(pt, cx), NEW l \in LWPs, NEW t \in Threads, halted = "none",
           ExitSwitch(l, t)
    PROVE  LifeInv'
<1>1. /\ Running(l, t) /\ stack[t] # <<>> /\ pt[t] = "exit_switch" /\ cx[t] = "exit"
      /\ ut_no_preempt_count[t] = 1 /\ Tail(stack[t]) = <<>>
  <2>1. /\ Row(pt[t], cx[t], ut_no_preempt_count[t], "exit_switch", Tail(stack[t])) /\ stack[t] # <<>>
        /\ Running(l, t)
    BY AtPoint DEF ExitSwitch
  <2> QED BY <2>1, RowsOfExits
<1>2. /\ Private(t, "exit_switch", "exit") /\ LifeTypeOK /\ ut_no_preempt_count[t] \in Nat
  BY <1>1 DEF Situation, LifeInvAt, LifeTypeOK, SchedTypes
<1>3. /\ stack' \in [Threads -> Seq(LifeNames)] /\ stack'[t] # <<>>
      /\ Head(stack'[t]) = "switch" /\ Tail(stack'[t]) = <<"dead">> \o <<>>
      /\ \A u \in Threads \ {t} : stack'[u] = stack[u]
  <2>1. Continue(t, <<"switch", "dead">>)
    BY <1>1, <1>2 DEF ExitSwitch, LastSwitch
  <2>2. "switch" \in LifeNames /\ "dead" \in LifeNames
    BY <1>1, NamesKnown
  <2> QED BY <1>1, <1>2, <2>1, <2>2, LifeContinue
<1>4. /\ swarg' \in [Threads -> [queue : Objs \cup {NoObj}, saveonrq : BOOLEAN, pmut : Objs \cup {NoObj}]]
      /\ swarg'[t] = [queue |-> NoObj, saveonrq |-> FALSE, pmut |-> t]
      /\ \A u \in Threads \ {t} : swarg'[u] = swarg[u]
  <2>1. swarg' = [swarg EXCEPT ![t] = [queue |-> NoObj, saveonrq |-> FALSE, pmut |-> t]]
    BY <1>1 DEF ExitSwitch, LastSwitch
  <2>2. swarg \in [Threads -> [queue : Objs \cup {NoObj}, saveonrq : BOOLEAN, pmut : Objs \cup {NoObj}]]
    BY <1>2 DEF LifeTypeOK, SchedTypes
  <2>3. [queue |-> NoObj, saveonrq |-> FALSE, pmut |-> t] \in [queue : Objs \cup {NoObj}, saveonrq : BOOLEAN, pmut : Objs \cup {NoObj}]
    BY LifeObjects DEF Objs
  <2> QED BY <2>1, <2>2, <2>3
<1>5. UNCHANGED <<curthr, lwp, ut_state, ut_prio, ut_no_preempt_count, runq, tq_size, runq_mtx, waitq,
                  pmut, wakee, sparg, newthr, halted, m_owner, marg, carg, crit, ut_detached,
                  reap_queue, tgt, claimed>>
  BY <1>1, <1>2 DEF ExitSwitch, LastSwitch, cpuVars, thrVars, runqVars, waitVars, argVars, mtxVars,
                    lifeVars, SyncRest
<1>6. LifeTypeOK'
  BY <1>1, <1>2, <1>3, <1>4, <1>5 DEF LifeTypeOK, SchedTypes, LifeNames
<1>7. Local(t)
  <2>1. ut_state[t] \notin {"UT_NO_STATE", "UT_TRANSITION"}
    BY <1>1, OneRuns
  <2> QED BY <1>1, <1>2, <1>3, <1>4, <1>5, <2>1 DEF Local, Kept, runqVars
<1>8. Private(t, "last_switch", "exit")'
  <2>1. Is("last_switch", "exit", ut_no_preempt_count[t], stack[t])'
    <3>1. ExitRow("last_switch", "exit", 1, "switch", <<"dead">>)
      BY DEF ExitRow
    <3>2. <<"dead">> \o <<>> = <<"dead">>
      BY NamesKnown, OneName
    <3> QED BY <1>1, <1>3, <1>5, <3>1, <3>2 DEF Is, Row
  <2>2. ModeOf("last_switch", "exit", OnLwp(t), ut_state[t])'
    <3>1. ut_state[t] = StateOn(pt[t], cx[t])
      BY <1>1, OneRuns
    <3>2. ut_state'[t] = StateOn("last_switch", "exit")
      BY <1>1, <1>2, <1>5, <3>1 DEF StateOn, Buriers, Lockers, Preemptible
    <3> QED BY <1>1, <1>5, <3>2, StaysOn
  <2>3. SwitchArgs(t, "last_switch")' /\ LockArgs(t, "last_switch", "exit")'
    BY <1>1, <1>2, <1>4, <1>5 DEF Private, SwitchArgs, LockArgs, InSection, Settling, CondWaits,
                                  Sections, ReaperCode, Unlocks, Preemptible, Buriers
  <2>4. CallArgs(t, "last_switch", "exit")' /\ Roles(t, "last_switch", "exit")'
    BY <1>1, <1>2, <1>4, <1>5 DEF Private, CallArgs, Roles, Allocates, WakePoints, Has, Frees,
                                  Sections, Unlocks, JoinCode, Buriers, Preemptible, Yields
  <2> QED BY <2>1, <2>2, <2>3, <2>4 DEF Private
<1>9. /\ "last_switch" \in Points /\ "exit" \in Contexts /\ {"exit_switch", "last_switch"} \cap {"alloc_claim", "startonrunq"} = {}
      /\ \A o \in Objs : Locks(t, "last_switch", "exit", o)' <=> Locks(t, "exit_switch", "exit", o)
      /\ InSection("last_switch", "exit") <=> InSection("exit_switch", "exit")
      /\ {"exit_switch", "last_switch"} \cap {"mtx_locked", "mtx_switch"} = {}
  BY <1>1, <1>2, <1>4, <1>5 DEF Points, Yields, Sections, Unlocks, ReaperCode, CondWaits, ExitCode,
                                JoinCode, Locks, Frees, InSection, Buriers, Preemptible, Contexts,
                                Lockers
<1>10. /\ Has("last_switch", "exit") <=> Has("exit_switch", "exit")
       /\ Has("last_switch", "exit") => tgt'[t] = tgt[t]
       /\ Frees("last_switch", "exit") => Frees("exit_switch", "exit") /\ tgt'[t] = tgt[t]
       /\ Passed("exit_switch", "exit") => Passed("last_switch", "exit")
       /\ Joins("last_switch", "exit") => Joins("exit_switch", "exit")
       /\ HasDead("last_switch", "exit") => HasDead("exit_switch", "exit")
  BY <1>1, <1>4, <1>5 DEF Has, Frees, Passed, Joins, HasDead, JoinCode, Sections, Unlocks, Buriers,
                          Preemptible, Lockers
<1>11. /\ ("exit" = "exit" => "exit_switch" = "exit_check") => ("exit" = "exit" => "last_switch" = "exit_check")
       /\ Gone("last_switch", "exit") <=> Gone("exit_switch", "exit")
       /\ "last_switch" \notin {"join_switch", "join_woken", "detach_check"}
       /\ "exit_switch" \notin {"reaper_scan", "cond_signal"}
       /\ Settling("last_switch", "exit") => Settling("exit_switch", "exit") \/ reap_queue = <<>>
  BY <1>1 DEF Gone, Settling, Unlocks, Preemptible, Buriers
<1> QED BY <1>1, <1>5, <1>6, <1>7, <1>8, <1>9, <1>10, <1>11, PlainStep

LEMMA LifeReapSwitch ==
    ASSUME NEW pt, NEW cx, Situation(pt, cx), NEW l \in LWPs, NEW t \in Threads, halted = "none",
           ReapSwitch(l, t)
    PROVE  LifeInv'
<1>1. /\ Running(l, t) /\ stack[t] # <<>> /\ pt[t] = "reap_release" /\ cx[t] = "exit"
      /\ ut_no_preempt_count[t] = 2 /\ Tail(stack[t]) = <<>> /\ tgt[t] = t
  <2>1. /\ Row(pt[t], cx[t], ut_no_preempt_count[t], "reap_release", Tail(stack[t])) /\ stack[t] # <<>>
        /\ Running(l, t) /\ tgt[t] = t
    BY AtPoint DEF ReapSwitch
  <2>2. /\ pt[t] = "reap_release" /\ cx[t] \in Buriers /\ ut_no_preempt_count[t] = Base(cx[t]) + 1
        /\ Tail(stack[t]) = Below(cx[t])
    BY <2>1, RowsOfSignals
  <2>3. Frees(pt[t], cx[t]) /\ CallArgs(t, pt[t], cx[t])
    BY <2>2 DEF Frees, Situation, LifeInvAt, Private
  <2>4. cx[t] = "exit"
    BY <2>1, <2>2, <2>3, LifeObjects DEF CallArgs
  <2> QED BY <2>1, <2>2, <2>4 DEF Base, Below
<1>2. /\ Private(t, "reap_release", "exit") /\ LifeTypeOK /\ ut_no_preempt_count[t] \in Nat
  BY <1>1 DEF Situation, LifeInvAt, LifeTypeOK, SchedTypes
<1>3. /\ stack' \in [Threads -> Seq(LifeNames)] /\ stack'[t] # <<>>
      /\ Head(stack'[t]) = "switch" /\ Tail(stack'[t]) = <<"dead">> \o <<>>
      /\ \A u \in Threads \ {t} : stack'[u] = stack[u]
  <2>1. Continue(t, <<"switch", "dead">>)
    BY <1>1, <1>2 DEF ReapSwitch, LastSwitch
  <2>2. "switch" \in LifeNames /\ "dead" \in LifeNames
    BY <1>1, NamesKnown
  <2> QED BY <1>1, <1>2, <2>1, <2>2, LifeContinue
<1>4. /\ swarg' \in [Threads -> [queue : Objs \cup {NoObj}, saveonrq : BOOLEAN, pmut : Objs \cup {NoObj}]]
      /\ swarg'[t] = [queue |-> NoObj, saveonrq |-> FALSE, pmut |-> t]
      /\ \A u \in Threads \ {t} : swarg'[u] = swarg[u]
  <2>1. swarg' = [swarg EXCEPT ![t] = [queue |-> NoObj, saveonrq |-> FALSE, pmut |-> t]]
    BY <1>1 DEF ReapSwitch, LastSwitch
  <2>2. swarg \in [Threads -> [queue : Objs \cup {NoObj}, saveonrq : BOOLEAN, pmut : Objs \cup {NoObj}]]
    BY <1>2 DEF LifeTypeOK, SchedTypes
  <2>3. [queue |-> NoObj, saveonrq |-> FALSE, pmut |-> t] \in [queue : Objs \cup {NoObj}, saveonrq : BOOLEAN, pmut : Objs \cup {NoObj}]
    BY LifeObjects DEF Objs
  <2> QED BY <2>1, <2>2, <2>3
<1>5. UNCHANGED <<curthr, lwp, ut_state, ut_prio, ut_no_preempt_count, runq, tq_size, runq_mtx, waitq,
                  pmut, wakee, sparg, newthr, halted, m_owner, marg, carg, crit, ut_detached,
                  reap_queue, tgt, claimed>>
  BY <1>1, <1>2 DEF ReapSwitch, LastSwitch, cpuVars, thrVars, runqVars, waitVars, argVars, mtxVars,
                    lifeVars, SyncRest
<1>6. LifeTypeOK'
  BY <1>1, <1>2, <1>3, <1>4, <1>5 DEF LifeTypeOK, SchedTypes, LifeNames
<1>7. Local(t)
  <2>1. ut_state[t] \notin {"UT_NO_STATE", "UT_TRANSITION"}
    BY <1>1, OneRuns
  <2> QED BY <1>1, <1>2, <1>3, <1>4, <1>5, <2>1 DEF Local, Kept, runqVars
<1>8. Private(t, "last_switch", "exit")'
  <2>1. Is("last_switch", "exit", ut_no_preempt_count[t], stack[t])'
    <3>1. ExitRow("last_switch", "exit", 2, "switch", <<"dead">>)
      BY DEF ExitRow
    <3>2. <<"dead">> \o <<>> = <<"dead">>
      BY NamesKnown, OneName
    <3> QED BY <1>1, <1>3, <1>5, <3>1, <3>2 DEF Is, Row
  <2>2. ModeOf("last_switch", "exit", OnLwp(t), ut_state[t])'
    <3>1. ut_state[t] = StateOn(pt[t], cx[t])
      BY <1>1, OneRuns
    <3>2. ut_state'[t] = StateOn("last_switch", "exit")
      BY <1>1, <1>2, <1>5, <3>1 DEF StateOn, Buriers, Lockers, Preemptible
    <3> QED BY <1>1, <1>5, <3>2, StaysOn
  <2>3. SwitchArgs(t, "last_switch")' /\ LockArgs(t, "last_switch", "exit")'
    BY <1>1, <1>2, <1>4, <1>5 DEF Private, SwitchArgs, LockArgs, InSection, Settling, CondWaits,
                                  Sections, ReaperCode, Unlocks, Preemptible, Buriers
  <2>4. CallArgs(t, "last_switch", "exit")' /\ Roles(t, "last_switch", "exit")'
    BY <1>1, <1>2, <1>4, <1>5 DEF Private, CallArgs, Roles, Allocates, WakePoints, Has, Frees,
                                  Sections, Unlocks, JoinCode, Buriers, Preemptible, Yields
  <2> QED BY <2>1, <2>2, <2>3, <2>4 DEF Private
<1>9. /\ "last_switch" \in Points /\ "exit" \in Contexts /\ {"reap_release", "last_switch"} \cap {"alloc_claim", "startonrunq"} = {}
      /\ \A o \in Objs : Locks(t, "last_switch", "exit", o)' <=> Locks(t, "reap_release", "exit", o)
      /\ InSection("last_switch", "exit") <=> InSection("reap_release", "exit")
      /\ {"reap_release", "last_switch"} \cap {"mtx_locked", "mtx_switch"} = {}
  BY <1>1, <1>2, <1>4, <1>5 DEF Points, Yields, Sections, Unlocks, ReaperCode, CondWaits, ExitCode,
                                JoinCode, Locks, Frees, InSection, Buriers, Preemptible, Contexts,
                                Lockers
<1>10. /\ Has("last_switch", "exit") <=> Has("reap_release", "exit")
       /\ Has("last_switch", "exit") => tgt'[t] = tgt[t]
       /\ Frees("last_switch", "exit") => Frees("reap_release", "exit") /\ tgt'[t] = tgt[t]
       /\ Passed("reap_release", "exit") => Passed("last_switch", "exit")
       /\ Joins("last_switch", "exit") => Joins("reap_release", "exit")
       /\ HasDead("last_switch", "exit") => HasDead("reap_release", "exit")
  BY <1>1, <1>4, <1>5 DEF Has, Frees, Passed, Joins, HasDead, JoinCode, Sections, Unlocks, Buriers,
                          Preemptible, Lockers
<1>11. /\ ("exit" = "exit" => "reap_release" = "exit_check") => ("exit" = "exit" => "last_switch" = "exit_check")
       /\ Gone("last_switch", "exit") <=> Gone("reap_release", "exit")
       /\ "last_switch" \notin {"join_switch", "join_woken", "detach_check"}
       /\ "reap_release" \notin {"reaper_scan", "cond_signal"}
       /\ Settling("last_switch", "exit") => Settling("reap_release", "exit") \/ reap_queue = <<>>
  BY <1>1 DEF Gone, Settling, Unlocks, Preemptible, Buriers
<1> QED BY <1>1, <1>5, <1>6, <1>7, <1>8, <1>9, <1>10, <1>11, PlainStep

\* make_reapable.
LEMMA LifeReapUnlock ==
    ASSUME NEW pt, NEW cx, Situation(pt, cx), NEW l \in LWPs, NEW t \in Threads, halted = "none",
           ReapUnlock(l, t)
    PROVE  LifeInv'
<1> DEFINE c == cx[t]
<1>1. /\ Running(l, t) /\ stack[t] # <<>> /\ pt[t] = "reap_unlock" /\ c \in Buriers
      /\ ut_no_preempt_count[t] = Base(c) + 1 /\ Tail(stack[t]) = Below(c)
  <2>1. /\ Row(pt[t], cx[t], ut_no_preempt_count[t], "reap_unlock", Tail(stack[t])) /\ stack[t] # <<>>
        /\ Running(l, t)
    BY AtPoint DEF ReapUnlock
  <2> QED BY <2>1, RowsOfSignals
<1>2. /\ Private(t, "reap_unlock", c) /\ LifeTypeOK /\ ut_no_preempt_count[t] \in Nat /\ c \in Contexts
  BY <1>1 DEF Situation, LifeInvAt, LifeTypeOK, SchedTypes
<1>3. /\ stack' \in [Threads -> Seq(LifeNames)] /\ stack'[t] # <<>>
      /\ Head(stack'[t]) = "mtx_unlock" /\ Tail(stack'[t]) = <<"reap_release">> \o Below(c)
      /\ \A u \in Threads \ {t} : stack'[u] = stack[u]
  <2>1. Continue(t, <<"mtx_unlock", "reap_release">>)
    BY <1>1, <1>2 DEF ReapUnlock
  <2>2. "mtx_unlock" \in LifeNames /\ "reap_release" \in LifeNames
    BY <1>1, NamesKnown
  <2> QED BY <1>1, <1>2, <2>1, <2>2, LifeContinue
<1>4. /\ ut_no_preempt_count' \in [Threads -> Nat] /\ ut_no_preempt_count'[t] = Base(c) + 2
      /\ \A u \in Threads \ {t} : ut_no_preempt_count'[u] = ut_no_preempt_count[u]
  BY <1>1, <1>2 DEF ReapUnlock, NopreemptOn, NopreemptOff, LifeTypeOK, SchedTypes, Base
<1>5. /\ marg' \in [Threads -> Mutexes \cup {NoObj}] /\ marg'[t] = reap_mtx
      /\ \A u \in Threads \ {t} : marg'[u] = marg[u]
  BY <1>1, <1>2, LifeObjects DEF ReapUnlock, LifeTypeOK
<1>6. UNCHANGED <<curthr, lwp, ut_state, ut_prio, runq, tq_size, runq_mtx, waitq, pmut, swarg, wakee,
                  sparg, newthr, halted, m_owner, carg, crit, ut_detached, reap_queue, tgt, claimed>>
  BY <1>1, <1>2 DEF ReapUnlock, cpuVars, thrVars, runqVars, waitVars, argVars, mtxVars, lifeVars, SyncRest
<1>7. LifeTypeOK'
  BY <1>1, <1>2, <1>3, <1>4, <1>5, <1>6 DEF LifeTypeOK, SchedTypes, LifeNames
<1>8. Local(t)
  <2>1. ut_state[t] \notin {"UT_NO_STATE", "UT_TRANSITION"}
    BY <1>1, OneRuns
  <2> QED BY <1>1, <1>2, <1>3, <1>4, <1>5, <1>6, <2>1 DEF Local, Kept, runqVars
<1>9. Private(t, "mtx_unlock", c)'
  <2>1. Is("mtx_unlock", c, ut_no_preempt_count[t], stack[t])'
    <3>1. UnlockRow("mtx_unlock", c, Base(c) + 2, "mtx_unlock", <<"reap_release">> \o Below(c))
      BY <1>1 DEF UnlockRow, AfterUnlock, Buriers
    <3> QED BY <1>1, <1>3, <1>4, <3>1 DEF Is, Row
  <2>2. ModeOf("mtx_unlock", c, OnLwp(t), ut_state[t])'
    <3>1. ut_state[t] = StateOn(pt[t], cx[t])
      BY <1>1, OneRuns
    <3>2. ut_state'[t] = StateOn("mtx_unlock", c)
      BY <1>1, <1>2, <1>6, <3>1 DEF StateOn, Buriers, Lockers, Preemptible
    <3> QED BY <1>1, <1>6, <3>2, StaysOn
  <2>3. SwitchArgs(t, "mtx_unlock")' /\ LockArgs(t, "mtx_unlock", c)'
    BY <1>1, <1>2, <1>4, <1>5, <1>6 DEF Private, SwitchArgs, LockArgs, InSection, Settling, CondWaits,
                                        Sections, ReaperCode, Unlocks, Preemptible, Buriers
  <2>4. CallArgs(t, "mtx_unlock", c)' /\ Roles(t, "mtx_unlock", c)'
    BY <1>1, <1>2, <1>4, <1>5, <1>6 DEF Private, CallArgs, Roles, Allocates, WakePoints, Has, Frees,
                                        Sections, Unlocks, JoinCode, Buriers, Preemptible, Yields
  <2> QED BY <2>1, <2>2, <2>3, <2>4 DEF Private
<1>10. /\ "mtx_unlock" \in Points /\ c \in Contexts /\ {"reap_unlock", "mtx_unlock"} \cap {"alloc_claim", "startonrunq"} = {}
       /\ \A o \in Objs : Locks(t, "mtx_unlock", c, o)' <=> Locks(t, "reap_unlock", c, o)
       /\ InSection("mtx_unlock", c) <=> InSection("reap_unlock", c)
       /\ {"reap_unlock", "mtx_unlock"} \cap {"mtx_locked", "mtx_switch"} = {}
  BY <1>1, <1>2, <1>4, <1>5, <1>6 DEF Points, Yields, Sections, Unlocks, ReaperCode, CondWaits,
                                      ExitCode, JoinCode, Locks, Frees, InSection, Buriers,
                                      Preemptible, Contexts, Lockers
<1>11. /\ Has("mtx_unlock", c) <=> Has("reap_unlock", c)
       /\ Has("mtx_unlock", c) => tgt'[t] = tgt[t]
       /\ Frees("mtx_unlock", c) => Frees("reap_unlock", c) /\ tgt'[t] = tgt[t]
       /\ Passed("reap_unlock", c) => Passed("mtx_unlock", c)
       /\ Joins("mtx_unlock", c) => Joins("reap_unlock", c)
       /\ HasDead("mtx_unlock", c) => HasDead("reap_unlock", c)
  BY <1>1, <1>4, <1>5, <1>6 DEF Has, Frees, Passed, Joins, HasDead, JoinCode, Sections, Unlocks,
                                Buriers, Preemptible, Lockers
<1>12. /\ (c = "exit" => "reap_unlock" = "exit_check") => (c = "exit" => "mtx_unlock" = "exit_check")
       /\ Gone("mtx_unlock", c) <=> Gone("reap_unlock", c)
       /\ "mtx_unlock" \notin {"join_switch", "join_woken", "detach_check"}
       /\ "reap_unlock" \notin {"reaper_scan", "cond_signal"}
       /\ Settling("mtx_unlock", c) => Settling("reap_unlock", c) \/ reap_queue = <<>>
  BY <1>1 DEF Gone, Settling, Unlocks, Preemptible, Buriers
<1> HIDE DEF c
<1>13. c \in Contexts /\ c = cx[t]
  BY <1>2 DEF c
<1> QED BY <1>1, <1>6, <1>7, <1>8, <1>9, <1>10, <1>11, <1>12, <1>13, PlainStep

\* uthread_join.
LEMMA LifeJoinReap ==
    ASSUME NEW pt, NEW cx, Situation(pt, cx), NEW l \in LWPs, NEW t \in Threads, halted = "none",
           JoinReap(l, t)
    PROVE  LifeInv'
<1>1. /\ Running(l, t) /\ stack[t] # <<>> /\ pt[t] = "rest" /\ cx[t] = "join_reap"
      /\ ut_no_preempt_count[t] = 0 /\ Tail(stack[t]) = <<>>
  <2>1. /\ Row(pt[t], cx[t], ut_no_preempt_count[t], "join_reap", Tail(stack[t])) /\ stack[t] # <<>>
        /\ Running(l, t)
    BY AtPoint DEF JoinReap
  <2>2. Tail(stack[t]) = <<>>
    BY <2>1, BelowRests
  <2>3. pt[t] = "rest" /\ cx[t] = "join_reap" /\ ut_no_preempt_count[t] = 0
    BY <2>1, RowsOfRests
  <2> QED BY <2>1, <2>2, <2>3
<1>2. /\ Private(t, "rest", "join_reap") /\ LifeTypeOK /\ ut_no_preempt_count[t] \in Nat
  BY <1>1 DEF Situation, LifeInvAt, LifeTypeOK, SchedTypes
<1>3. /\ stack' \in [Threads -> Seq(LifeNames)] /\ stack'[t] # <<>>
      /\ Head(stack'[t]) = "mtx_lock" /\ Tail(stack'[t]) = <<"reap_pmut">> \o <<>>
      /\ \A u \in Threads \ {t} : stack'[u] = stack[u]
  <2>1. Continue(t, <<"mtx_lock", "reap_pmut">>)
    BY ConcatLiterals DEF JoinReap, CallMtxLock
  <2>2. "mtx_lock" \in LifeNames /\ "reap_pmut" \in LifeNames
    BY <1>1, NamesKnown
  <2> QED BY <1>1, <1>2, <2>1, <2>2, LifeContinue
<1>4. /\ ut_no_preempt_count' \in [Threads -> Nat] /\ ut_no_preempt_count'[t] = 1
      /\ \A u \in Threads \ {t} : ut_no_preempt_count'[u] = ut_no_preempt_count[u]
  BY <1>1, <1>2 DEF JoinReap, CallMtxLock, NopreemptOn, NopreemptOff, LifeTypeOK, SchedTypes, Base
<1>5. /\ marg' \in [Threads -> Mutexes \cup {NoObj}] /\ marg'[t] = reap_mtx
      /\ \A u \in Threads \ {t} : marg'[u] = marg[u]
  BY <1>1, <1>2, LifeObjects DEF JoinReap, CallMtxLock, LifeTypeOK
<1>6. UNCHANGED <<curthr, lwp, ut_state, ut_prio, runq, tq_size, runq_mtx, waitq, pmut, swarg, wakee,
                  sparg, newthr, halted, m_owner, carg, crit, ut_detached, reap_queue, tgt, claimed>>
  BY <1>1, <1>2 DEF JoinReap, CallMtxLock, cpuVars, thrVars, runqVars, waitVars, argVars, mtxVars,
                    lifeVars, SyncRest
<1>7. LifeTypeOK'
  BY <1>1, <1>2, <1>3, <1>4, <1>5, <1>6 DEF LifeTypeOK, SchedTypes, LifeNames
<1>8. Local(t)
  <2>1. ut_state[t] \notin {"UT_NO_STATE", "UT_TRANSITION"}
    BY <1>1, OneRuns
  <2> QED BY <1>1, <1>2, <1>3, <1>4, <1>5, <1>6, <2>1 DEF Local, Kept, runqVars
<1>9. Private(t, "mtx_lock", "join")'
  <2>1. Is("mtx_lock", "join", ut_no_preempt_count[t], stack[t])'
    <3>1. LockRow("mtx_lock", "join", 1, "mtx_lock", <<"reap_pmut">> \o <<>>)
      BY <1>1 DEF LockRow, AfterLock, Below, Base, Lockers, Buriers
    <3> QED BY <1>1, <1>3, <1>4, <3>1 DEF Is, Row
  <2>2. ModeOf("mtx_lock", "join", OnLwp(t), ut_state[t])'
    <3>1. ut_state[t] = StateOn(pt[t], cx[t])
      BY <1>1, OneRuns
    <3>2. ut_state'[t] = StateOn("mtx_lock", "join")
      BY <1>1, <1>2, <1>6, <3>1 DEF StateOn, Buriers, Lockers, Preemptible
    <3> QED BY <1>1, <1>6, <3>2, StaysOn
  <2>3. SwitchArgs(t, "mtx_lock")' /\ LockArgs(t, "mtx_lock", "join")'
    BY <1>1, <1>2, <1>4, <1>5, <1>6 DEF Private, SwitchArgs, LockArgs, InSection, Settling, CondWaits,
                                        Sections, ReaperCode, Unlocks, Preemptible, Buriers
  <2>4. CallArgs(t, "mtx_lock", "join")' /\ Roles(t, "mtx_lock", "join")'
    BY <1>1, <1>2, <1>4, <1>5, <1>6 DEF Private, CallArgs, Roles, Allocates, WakePoints, Has, Frees,
                                        Sections, Unlocks, JoinCode, Buriers, Preemptible, Yields
  <2> QED BY <2>1, <2>2, <2>3, <2>4 DEF Private
<1>10. /\ "mtx_lock" \in Points /\ "join" \in Contexts /\ {"rest", "mtx_lock"} \cap {"alloc_claim", "startonrunq"} = {}
       /\ \A o \in Objs : Locks(t, "mtx_lock", "join", o)' <=> Locks(t, "rest", "join_reap", o)
       /\ InSection("mtx_lock", "join") <=> InSection("rest", "join_reap")
       /\ {"rest", "mtx_lock"} \cap {"mtx_locked", "mtx_switch"} = {}
  BY <1>1, <1>2, <1>4, <1>5, <1>6 DEF Points, Yields, Sections, Unlocks, ReaperCode, CondWaits,
                                      ExitCode, JoinCode, Locks, Frees, InSection, Buriers,
                                      Preemptible, Contexts, Lockers
<1>11. /\ Has("mtx_lock", "join") <=> Has("rest", "join_reap")
       /\ Has("mtx_lock", "join") => tgt'[t] = tgt[t]
       /\ Frees("mtx_lock", "join") => Frees("rest", "join_reap") /\ tgt'[t] = tgt[t]
       /\ Passed("rest", "join_reap") => Passed("mtx_lock", "join")
       /\ Joins("mtx_lock", "join") => Joins("rest", "join_reap")
       /\ HasDead("mtx_lock", "join") => HasDead("rest", "join_reap")
  BY <1>1, <1>4, <1>5, <1>6 DEF Has, Frees, Passed, Joins, HasDead, JoinCode, Sections, Unlocks,
                                Buriers, Preemptible, Lockers
<1>12. /\ ("join_reap" = "exit" => "rest" = "exit_check") => ("join" = "exit" => "mtx_lock" = "exit_check")
       /\ Gone("mtx_lock", "join") <=> Gone("rest", "join_reap")
       /\ "mtx_lock" \notin {"join_switch", "join_woken", "detach_check"}
       /\ "rest" \notin {"reaper_scan", "cond_signal"}
       /\ Settling("mtx_lock", "join") => Settling("rest", "join_reap") \/ reap_queue = <<>>
  BY <1>1 DEF Gone, Settling, Unlocks, Preemptible, Buriers
<1> QED BY <1>1, <1>6, <1>7, <1>8, <1>9, <1>10, <1>11, <1>12, PlainStep

\* The reaper.
LEMMA LifeReaperStart ==
    ASSUME NEW pt, NEW cx, Situation(pt, cx), NEW l \in LWPs, NEW t \in Threads, halted = "none",
           ReaperStart(l, t)
    PROVE  LifeInv'
<1>1. /\ Running(l, t) /\ stack[t] = <<>> /\ pt[t] = "rest" /\ cx[t] = "client"
      /\ ut_no_preempt_count[t] = 0 /\ ut_state[t] = "UT_ON_CPU" /\ t = Reaper
  <2>1. InClient(l, t)
    BY DEF ReaperStart
  <2> QED BY <2>1, AtPoint DEF ReaperStart
<1>2. /\ Private(t, "rest", "client") /\ LifeTypeOK /\ ut_no_preempt_count[t] \in Nat
  BY <1>1 DEF Situation, LifeInvAt, LifeTypeOK, SchedTypes
<1>3. /\ stack' \in [Threads -> Seq(LifeNames)] /\ stack'[t] # <<>>
      /\ Head(stack'[t]) = "mtx_lock" /\ Tail(stack'[t]) = <<"reaper_loop">> \o <<>>
      /\ \A u \in Threads \ {t} : stack'[u] = stack[u]
  <2>1. Push(t, <<"mtx_lock", "reaper_loop">>)
    BY <1>1, <1>2 DEF ReaperStart
  <2>2. "mtx_lock" \in LifeNames /\ "reaper_loop" \in LifeNames
    BY <1>1, NamesKnown
  <2> QED BY <1>1, <1>2, <2>1, <2>2, LifePush
<1>4. /\ ut_no_preempt_count' \in [Threads -> Nat] /\ ut_no_preempt_count'[t] = 2
      /\ \A u \in Threads \ {t} : ut_no_preempt_count'[u] = ut_no_preempt_count[u]
  BY <1>1, <1>2 DEF ReaperStart, NopreemptOn, NopreemptOff, LifeTypeOK, SchedTypes, Base
<1>5. /\ marg' \in [Threads -> Mutexes \cup {NoObj}] /\ marg'[t] = reap_mtx
      /\ \A u \in Threads \ {t} : marg'[u] = marg[u]
  BY <1>1, <1>2, LifeObjects DEF ReaperStart, LifeTypeOK
<1>6. UNCHANGED <<curthr, lwp, ut_state, ut_prio, runq, tq_size, runq_mtx, waitq, pmut, swarg, wakee,
                  sparg, newthr, halted, m_owner, carg, crit, ut_detached, reap_queue, tgt, claimed>>
  BY <1>1, <1>2 DEF ReaperStart, cpuVars, thrVars, runqVars, waitVars, argVars, mtxVars, lifeVars, SyncRest
<1>7. LifeTypeOK'
  BY <1>1, <1>2, <1>3, <1>4, <1>5, <1>6 DEF LifeTypeOK, SchedTypes, LifeNames
<1>8. Local(t)
  <2>1. ut_state[t] \notin {"UT_NO_STATE", "UT_TRANSITION"}
    BY <1>1, OneRuns
  <2> QED BY <1>1, <1>2, <1>3, <1>4, <1>5, <1>6, <2>1 DEF Local, Kept, runqVars
<1>9. Private(t, "mtx_lock", "reaper_loop")'
  <2>1. Is("mtx_lock", "reaper_loop", ut_no_preempt_count[t], stack[t])'
    <3>1. LockRow("mtx_lock", "reaper_loop", 2, "mtx_lock", <<"reaper_loop">>)
      BY DEF LockRow, AfterLock, Below, Base, Lockers, Buriers
    <3>2. <<"reaper_loop">> \o <<>> = <<"reaper_loop">>
      BY NamesKnown, OneName
    <3> QED BY <1>1, <1>3, <1>4, <3>1, <3>2 DEF Is, Row
  <2>2. ModeOf("mtx_lock", "reaper_loop", OnLwp(t), ut_state[t])'
    <3>1. ut_state[t] = StateOn(pt[t], cx[t])
      BY <1>1, OneRuns
    <3>2. ut_state'[t] = StateOn("mtx_lock", "reaper_loop")
      BY <1>1, <1>2, <1>6, <3>1 DEF StateOn, Buriers, Lockers, Preemptible
    <3> QED BY <1>1, <1>6, <3>2, StaysOn
  <2>3. SwitchArgs(t, "mtx_lock")' /\ LockArgs(t, "mtx_lock", "reaper_loop")'
    BY <1>1, <1>2, <1>4, <1>5, <1>6 DEF Private, SwitchArgs, LockArgs, InSection, Settling, CondWaits,
                                        Sections, ReaperCode, Unlocks, Preemptible, Buriers
  <2>4. CallArgs(t, "mtx_lock", "reaper_loop")' /\ Roles(t, "mtx_lock", "reaper_loop")'
    BY <1>1, <1>2, <1>4, <1>5, <1>6 DEF Private, CallArgs, Roles, Allocates, WakePoints, Has, Frees,
                                        Sections, Unlocks, JoinCode, Buriers, Preemptible, Yields
  <2> QED BY <2>1, <2>2, <2>3, <2>4 DEF Private
<1>10. /\ "mtx_lock" \in Points /\ "reaper_loop" \in Contexts /\ {"rest", "mtx_lock"} \cap {"alloc_claim", "startonrunq"} = {}
       /\ \A o \in Objs : Locks(t, "mtx_lock", "reaper_loop", o)' <=> Locks(t, "rest", "client", o)
       /\ InSection("mtx_lock", "reaper_loop") <=> InSection("rest", "client")
       /\ {"rest", "mtx_lock"} \cap {"mtx_locked", "mtx_switch"} = {}
  BY <1>1, <1>2, <1>4, <1>5, <1>6 DEF Points, Yields, Sections, Unlocks, ReaperCode, CondWaits,
                                      ExitCode, JoinCode, Locks, Frees, InSection, Buriers,
                                      Preemptible, Contexts, Lockers
<1>11. /\ Has("mtx_lock", "reaper_loop") <=> Has("rest", "client")
       /\ Has("mtx_lock", "reaper_loop") => tgt'[t] = tgt[t]
       /\ Frees("mtx_lock", "reaper_loop") => Frees("rest", "client") /\ tgt'[t] = tgt[t]
       /\ Passed("rest", "client") => Passed("mtx_lock", "reaper_loop")
       /\ Joins("mtx_lock", "reaper_loop") => Joins("rest", "client")
       /\ HasDead("mtx_lock", "reaper_loop") => HasDead("rest", "client")
  BY <1>1, <1>4, <1>5, <1>6 DEF Has, Frees, Passed, Joins, HasDead, JoinCode, Sections, Unlocks,
                                Buriers, Preemptible, Lockers
<1>12. /\ ("client" = "exit" => "rest" = "exit_check") => ("reaper_loop" = "exit" => "mtx_lock" = "exit_check")
       /\ Gone("mtx_lock", "reaper_loop") <=> Gone("rest", "client")
       /\ "mtx_lock" \notin {"join_switch", "join_woken", "detach_check"}
       /\ "rest" \notin {"reaper_scan", "cond_signal"}
       /\ Settling("mtx_lock", "reaper_loop") => Settling("rest", "client") \/ reap_queue = <<>>
  BY <1>1 DEF Gone, Settling, Unlocks, Preemptible, Buriers
<1> QED BY <1>1, <1>6, <1>7, <1>8, <1>9, <1>10, <1>11, <1>12, PlainStep

LEMMA LifeReaperWait ==
    ASSUME NEW pt, NEW cx, Situation(pt, cx), NEW l \in LWPs, NEW t \in Threads, halted = "none",
           ReaperWait(l, t)
    PROVE  LifeInv'
<1>1. /\ Running(l, t) /\ stack[t] # <<>> /\ pt[t] = "reaper_loop" /\ cx[t] = "reaper_loop"
      /\ ut_no_preempt_count[t] = 1 /\ Tail(stack[t]) = <<>> /\ reap_queue = <<>>
  <2>1. /\ Row(pt[t], cx[t], ut_no_preempt_count[t], "reaper_loop", Tail(stack[t])) /\ stack[t] # <<>>
        /\ Running(l, t) /\ reap_queue = <<>>
    BY AtPoint DEF ReaperWait
  <2> QED BY <2>1, RowsOfReaper DEF ReaperCode
<1>2. /\ Private(t, "reaper_loop", "reaper_loop") /\ LifeTypeOK /\ ut_no_preempt_count[t] \in Nat
  BY <1>1 DEF Situation, LifeInvAt, LifeTypeOK, SchedTypes
<1>3. /\ stack' \in [Threads -> Seq(LifeNames)] /\ stack'[t] # <<>>
      /\ Head(stack'[t]) = "cond_wait" /\ Tail(stack'[t]) = <<"reaper_loop">> \o <<>>
      /\ \A u \in Threads \ {t} : stack'[u] = stack[u]
  <2>1. Continue(t, <<"cond_wait", "reaper_loop">>)
    BY <1>1, <1>2 DEF ReaperWait
  <2>2. "cond_wait" \in LifeNames /\ "reaper_loop" \in LifeNames
    BY <1>1, NamesKnown
  <2> QED BY <1>1, <1>2, <2>1, <2>2, LifeContinue
<1>4. /\ ut_no_preempt_count' \in [Threads -> Nat] /\ ut_no_preempt_count'[t] = 2
      /\ \A u \in Threads \ {t} : ut_no_preempt_count'[u] = ut_no_preempt_count[u]
  BY <1>1, <1>2 DEF ReaperWait, NopreemptOn, NopreemptOff, LifeTypeOK, SchedTypes, Base
<1>5. /\ marg' \in [Threads -> Mutexes \cup {NoObj}] /\ marg'[t] = reap_mtx
      /\ \A u \in Threads \ {t} : marg'[u] = marg[u]
  BY <1>1, <1>2, LifeObjects DEF ReaperWait, LifeTypeOK
<1>6. /\ carg' \in [Threads -> Conds \cup {NoObj}] /\ carg'[t] = reap_cond
      /\ \A u \in Threads \ {t} : carg'[u] = carg[u]
  BY <1>1, <1>2, LifeObjects DEF ReaperWait, LifeTypeOK
<1>7. UNCHANGED <<curthr, lwp, ut_state, ut_prio, runq, tq_size, runq_mtx, waitq, pmut, swarg, wakee,
                  sparg, newthr, halted, m_owner, crit, ut_detached, reap_queue, tgt, claimed>>
  BY <1>1, <1>2 DEF ReaperWait, cpuVars, thrVars, runqVars, waitVars, argVars, mtxVars, lifeVars, SyncRest
<1>8. LifeTypeOK'
  BY <1>1, <1>2, <1>3, <1>4, <1>5, <1>6, <1>7 DEF LifeTypeOK, SchedTypes, LifeNames
<1>9. Local(t)
  <2>1. ut_state[t] \notin {"UT_NO_STATE", "UT_TRANSITION"}
    BY <1>1, OneRuns
  <2> QED BY <1>1, <1>2, <1>3, <1>4, <1>5, <1>6, <1>7, <2>1 DEF Local, Kept, runqVars
<1>10. Private(t, "cond_wait", "reaper_loop")'
  <2>1. Is("cond_wait", "reaper_loop", ut_no_preempt_count[t], stack[t])'
    <3>1. ReaperRow("cond_wait", "reaper_loop", 2, "cond_wait", <<"reaper_loop">>)
      BY DEF ReaperRow
    <3>2. <<"reaper_loop">> \o <<>> = <<"reaper_loop">>
      BY NamesKnown, OneName
    <3> QED BY <1>1, <1>3, <1>4, <3>1, <3>2 DEF Is, Row
  <2>2. ModeOf("cond_wait", "reaper_loop", OnLwp(t), ut_state[t])'
    <3>1. ut_state[t] = StateOn(pt[t], cx[t])
      BY <1>1, OneRuns
    <3>2. ut_state'[t] = StateOn("cond_wait", "reaper_loop")
      BY <1>1, <1>2, <1>7, <3>1 DEF StateOn, Buriers, Lockers, Preemptible
    <3> QED BY <1>1, <1>7, <3>2, StaysOn
  <2>3. SwitchArgs(t, "cond_wait")' /\ LockArgs(t, "cond_wait", "reaper_loop")'
    BY <1>1, <1>2, <1>4, <1>5, <1>6, <1>7 DEF Private, SwitchArgs, LockArgs, InSection, Settling,
                                              CondWaits, Sections, ReaperCode, Unlocks, Preemptible,
                                              Buriers
  <2>4. CallArgs(t, "cond_wait", "reaper_loop")' /\ Roles(t, "cond_wait", "reaper_loop")'
    BY <1>1, <1>2, <1>4, <1>5, <1>6, <1>7 DEF Private, CallArgs, Roles, Allocates, WakePoints, Has,
                                              Frees, Sections, Unlocks, JoinCode, Buriers, Preemptible,
                                              Yields
  <2> QED BY <2>1, <2>2, <2>3, <2>4 DEF Private
<1>11. /\ "cond_wait" \in Points /\ "reaper_loop" \in Contexts /\ {"reaper_loop", "cond_wait"} \cap {"alloc_claim", "startonrunq"} = {}
       /\ \A o \in Objs : Locks(t, "cond_wait", "reaper_loop", o)' <=> Locks(t, "reaper_loop", "reaper_loop", o)
       /\ InSection("cond_wait", "reaper_loop") <=> InSection("reaper_loop", "reaper_loop")
       /\ {"reaper_loop", "cond_wait"} \cap {"mtx_locked", "mtx_switch"} = {}
  BY <1>1, <1>2, <1>4, <1>5, <1>6, <1>7 DEF Points, Yields, Sections, Unlocks, ReaperCode, CondWaits,
                                            ExitCode, JoinCode, Locks, Frees, InSection, Buriers,
                                            Preemptible, Contexts, Lockers
<1>12. /\ Has("cond_wait", "reaper_loop") <=> Has("reaper_loop", "reaper_loop")
       /\ Has("cond_wait", "reaper_loop") => tgt'[t] = tgt[t]
       /\ Frees("cond_wait", "reaper_loop") => Frees("reaper_loop", "reaper_loop") /\ tgt'[t] = tgt[t]
       /\ Passed("reaper_loop", "reaper_loop") => Passed("cond_wait", "reaper_loop")
       /\ Joins("cond_wait", "reaper_loop") => Joins("reaper_loop", "reaper_loop")
       /\ HasDead("cond_wait", "reaper_loop") => HasDead("reaper_loop", "reaper_loop")
  BY <1>1, <1>4, <1>5, <1>6, <1>7 DEF Has, Frees, Passed, Joins, HasDead, JoinCode, Sections, Unlocks,
                                      Buriers, Preemptible, Lockers
<1>13. /\ ("reaper_loop" = "exit" => "reaper_loop" = "exit_check") => ("reaper_loop" = "exit" => "cond_wait" = "exit_check")
       /\ Gone("cond_wait", "reaper_loop") <=> Gone("reaper_loop", "reaper_loop")
       /\ "cond_wait" \notin {"join_switch", "join_woken", "detach_check"}
       /\ "reaper_loop" \notin {"reaper_scan", "cond_signal"}
       /\ Settling("cond_wait", "reaper_loop") => Settling("reaper_loop", "reaper_loop") \/ reap_queue = <<>>
  BY <1>1 DEF Gone, Settling, Unlocks, Preemptible, Buriers
<1> QED BY <1>1, <1>7, <1>8, <1>9, <1>10, <1>11, <1>12, <1>13, PlainStep

LEMMA LifeReaperLock ==
    ASSUME NEW pt, NEW cx, Situation(pt, cx), NEW l \in LWPs, NEW t \in Threads, halted = "none",
           ReaperLock(l, t)
    PROVE  LifeInv'
<1>1. /\ Running(l, t) /\ stack[t] # <<>> /\ pt[t] = "reaper_lock" /\ cx[t] = "reaper_loop"
      /\ ut_no_preempt_count[t] = 1 /\ Tail(stack[t]) = <<>>
  <2>1. /\ Row(pt[t], cx[t], ut_no_preempt_count[t], "reaper_lock", Tail(stack[t])) /\ stack[t] # <<>>
        /\ Running(l, t)
    BY AtPoint DEF ReaperLock
  <2> QED BY <2>1, RowsOfReaper DEF ReaperCode
<1>2. /\ Private(t, "reaper_lock", "reaper_loop") /\ LifeTypeOK /\ ut_no_preempt_count[t] \in Nat
  BY <1>1 DEF Situation, LifeInvAt, LifeTypeOK, SchedTypes
<1>3. /\ stack' \in [Threads -> Seq(LifeNames)] /\ stack'[t] # <<>>
      /\ Head(stack'[t]) = "reaper_destroy" /\ Tail(stack'[t]) = <<>>
      /\ \A u \in Threads \ {t} : stack'[u] = stack[u]
  <2>1. Continue(t, <<"reaper_destroy">>)
    BY <1>1, <1>2 DEF ReaperLock
  <2>2. "reaper_destroy" \in LifeNames
    BY <1>1, NamesKnown
  <2> QED BY <1>1, <1>2, <2>1, <2>2, LifeContinue
<1>4. UNCHANGED <<curthr, lwp, ut_state, ut_prio, ut_no_preempt_count, runq, tq_size, runq_mtx, waitq,
                  pmut, swarg, wakee, sparg, newthr, halted, m_owner, marg, carg, crit, ut_detached,
                  reap_queue, tgt, claimed>>
  BY <1>1, <1>2 DEF ReaperLock, cpuVars, thrVars, runqVars, waitVars, argVars, mtxVars, lifeVars, SyncRest
<1>5. LifeTypeOK'
  BY <1>1, <1>2, <1>3, <1>4 DEF LifeTypeOK, SchedTypes, LifeNames
<1>6. Local(t)
  <2>1. ut_state[t] \notin {"UT_NO_STATE", "UT_TRANSITION"}
    BY <1>1, OneRuns
  <2> QED BY <1>1, <1>2, <1>3, <1>4, <2>1 DEF Local, Kept, runqVars
<1>7. Private(t, "reaper_destroy", "reaper_loop")'
  <2>1. Is("reaper_destroy", "reaper_loop", ut_no_preempt_count[t], stack[t])'
    <3>1. ReaperRow("reaper_destroy", "reaper_loop", 1, "reaper_destroy", <<>>)
      BY <1>1 DEF ReaperRow, ReaperCode
    <3> QED BY <1>1, <1>3, <1>4, <3>1 DEF Is, Row
  <2>2. ModeOf("reaper_destroy", "reaper_loop", OnLwp(t), ut_state[t])'
    <3>1. ut_state[t] = StateOn(pt[t], cx[t])
      BY <1>1, OneRuns
    <3>2. ut_state'[t] = StateOn("reaper_destroy", "reaper_loop")
      BY <1>1, <1>2, <1>4, <3>1 DEF StateOn, Buriers, Lockers, Preemptible
    <3> QED BY <1>1, <1>4, <3>2, StaysOn
  <2>3. SwitchArgs(t, "reaper_destroy")' /\ LockArgs(t, "reaper_destroy", "reaper_loop")'
    BY <1>1, <1>2, <1>4 DEF Private, SwitchArgs, LockArgs, InSection, Settling, CondWaits, Sections,
                            ReaperCode, Unlocks, Preemptible, Buriers
  <2>4. CallArgs(t, "reaper_destroy", "reaper_loop")' /\ Roles(t, "reaper_destroy", "reaper_loop")'
    BY <1>1, <1>2, <1>4 DEF Private, CallArgs, Roles, Allocates, WakePoints, Has, Frees, Sections,
                            Unlocks, JoinCode, Buriers, Preemptible, Yields
  <2> QED BY <2>1, <2>2, <2>3, <2>4 DEF Private
<1>8. /\ "reaper_destroy" \in Points /\ "reaper_loop" \in Contexts /\ {"reaper_lock", "reaper_destroy"} \cap {"alloc_claim", "startonrunq"} = {}
      /\ \A o \in Objs : Locks(t, "reaper_destroy", "reaper_loop", o)' <=> Locks(t, "reaper_lock", "reaper_loop", o)
      /\ InSection("reaper_destroy", "reaper_loop") <=> InSection("reaper_lock", "reaper_loop")
      /\ {"reaper_lock", "reaper_destroy"} \cap {"mtx_locked", "mtx_switch"} = {}
  BY <1>1, <1>2, <1>4 DEF Points, Yields, Sections, Unlocks, ReaperCode, CondWaits, ExitCode, JoinCode,
                          Locks, Frees, InSection, Buriers, Preemptible, Contexts, Lockers
<1>9. /\ Has("reaper_destroy", "reaper_loop") <=> Has("reaper_lock", "reaper_loop")
      /\ Has("reaper_destroy", "reaper_loop") => tgt'[t] = tgt[t]
      /\ Frees("reaper_destroy", "reaper_loop") => Frees("reaper_lock", "reaper_loop") /\ tgt'[t] = tgt[t]
      /\ Passed("reaper_lock", "reaper_loop") => Passed("reaper_destroy", "reaper_loop")
      /\ Joins("reaper_destroy", "reaper_loop") => Joins("reaper_lock", "reaper_loop")
      /\ HasDead("reaper_destroy", "reaper_loop") => HasDead("reaper_lock", "reaper_loop")
  BY <1>1, <1>4 DEF Has, Frees, Passed, Joins, HasDead, JoinCode, Sections, Unlocks, Buriers,
                    Preemptible, Lockers
<1>10. /\ ("reaper_loop" = "exit" => "reaper_lock" = "exit_check") => ("reaper_loop" = "exit" => "reaper_destroy" = "exit_check")
       /\ Gone("reaper_destroy", "reaper_loop") <=> Gone("reaper_lock", "reaper_loop")
       /\ "reaper_destroy" \notin {"join_switch", "join_woken", "detach_check"}
       /\ "reaper_lock" \notin {"reaper_scan", "cond_signal"}
       /\ Settling("reaper_destroy", "reaper_loop") => Settling("reaper_lock", "reaper_loop") \/ reap_queue = <<>>
  BY <1>1 DEF Gone, Settling, Unlocks, Preemptible, Buriers
<1> QED BY <1>1, <1>4, <1>5, <1>6, <1>7, <1>8, <1>9, <1>10, PlainStep

-----------------------------------------------------------------------------
(* What the thread that executes knows of the others.                      *)

LEMMA WaitingContexts ==
    ASSUME NEW pt, NEW cx, Situation(pt, cx), NEW u \in Threads
    PROVE  /\ pt[u] = "join_woken" => cx[u] = "join"
           /\ pt[u] = "cond_relock" => cx[u] = "reaper_loop" /\ u = Reaper
<1>1. Is(pt[u], cx[u], ut_no_preempt_count[u], stack[u]) /\ Roles(u, pt[u], cx[u])
  BY DEF Situation, LifeInvAt, Private
<1>2. pt[u] = "join_woken" => cx[u] = "join"
  BY <1>1 DEF Is, Row, ClientRow, ExitRow, LockRow, UnlockRow, BurialRow, ReaperRow, Preemptible, ReaperCode
<1>3. pt[u] = "cond_relock" => cx[u] = "reaper_loop"
  BY <1>1 DEF Is, Row, ClientRow, ExitRow, LockRow, UnlockRow, BurialRow, ReaperRow, Preemptible, ReaperCode
<1> QED BY <1>1, <1>2, <1>3 DEF Roles

\* Another thread that has the one that executes waits for it.
LEMMA HasRunning ==
    ASSUME NEW pt, NEW cx, Situation(pt, cx), NEW l \in LWPs, NEW t \in Threads, Running(l, t),
           NEW u \in Threads \ {t}, Has(pt[u], cx[u]), tgt[u] = t
    PROVE  Joins(pt[u], cx[u]) /\ ~ut_detached[t]
<1>1. /\ HasDead(pt[u], cx[u]) \/ pt[u] = "join_woken" \/ (cx[u] = "exit" /\ pt[u] = "mtx_locked")
      /\ pt[t] # "dead"
  BY OneRuns, OffLwpRests
<1>2. Targets(pt, cx) /\ CallArgs(u, pt[u], cx[u])
  BY DEF Situation, LifeInvAt, Private
<1>3. pt[u] = "join_woken"
  BY <1>1, <1>2 DEF Targets, CallArgs
<1>4. Joins(pt[u], cx[u])
  BY <1>3, WaitingContexts DEF Joins
<1> QED BY <1>2, <1>4 DEF Targets

\* A dead thread that no LWP runs has nothing left to do.
LEMMA ZombieIsDead ==
    ASSUME NEW pt, NEW cx, Situation(pt, cx), NEW l \in LWPs, NEW t \in Threads, Running(l, t),
           NEW u \in Threads \ {t}
    PROVE  /\ ut_state[u] = "UT_ZOMBIE" <=> pt[u] = "dead"
           /\ pt[u] = "dead" => cx[u] = "exit" /\ Gone(pt[u], cx[u])
<1>1. /\ StateOff(pt[u], cx[u], ut_state[u])
      /\ pt[u] = "dead" => cx[u] = "exit" /\ ut_state[u] = "UT_ZOMBIE"
  BY OneRuns, OffLwpRests
<1> QED BY <1>1 DEF StateOff, Gone, Woken

\* Nor does one that is gone and that another thread has.
LEMMA GoneIsDead ==
    ASSUME NEW pt, NEW cx, Situation(pt, cx), NEW l \in LWPs, NEW t \in Threads, Running(l, t),
           Has(pt[t], cx[t]), tgt[t] # t
    PROVE  Gone(pt[tgt[t]], cx[tgt[t]]) => pt[tgt[t]] = "dead" /\ ut_state[tgt[t]] = "UT_ZOMBIE"
<1>1. tgt[t] \in Threads
  BY DEF Situation, LifeInvAt, LifeTypeOK, Private, CallArgs
<1> DEFINE u == tgt[t]
<1>2. ASSUME Gone(pt[u], cx[u]) PROVE pt[u] = "dead"
  <2>1. pt[u] = "dead" \/ Has(pt[u], cx[u])
    BY <1>1, <1>2, OneRuns, OffLwpRests
  <2>2. tgt[u] = u
    BY <1>1, <1>2 DEF Gone, Situation, LifeInvAt, Private, CallArgs
  <2> QED BY <1>1, <2>1, <2>2 DEF Situation, LifeInvAt, Custody
<1> QED BY <1>1, <1>2, ZombieIsDead

-----------------------------------------------------------------------------
(* What an advance does to the POSIX mutexes, to reap_mtx and to tgt.      *)

LEMMA LockTaken ==
    ASSUME NEW pt, NEW cx, NEW pq, NEW cd, NEW l \in LWPs, NEW t \in Threads,
           Advance(pt, cx, pq, cd, l, t), NEW o \in Objs, pmut' = [pmut EXCEPT ![o] = l],
           \A x \in Objs : Locks(t, pq[t], cd[t], x)' <=> Locks(t, pt[t], cx[t], x) \/ x = o
    PROVE  PmutsRight(pq, cd)'
<1>1. ASSUME NEW u \in Threads \ {t}, NEW x \in Objs
      PROVE  Locks(u, pq[u], cd[u], x)' <=> Locks(u, pt[u], cx[u], x)
  BY DEF Advance, Local, Kept, Locks
<1>2. PmutsRight(pt, cx) /\ pmut \in [Objs -> LWPs \cup {NoLwp}] /\ l # NoLwp
  BY LifeObjects DEF Advance, Situation, LifeInvAt, LifeTypeOK, SchedTypes
<1>3. pmut'[o] # NoLwp /\ \A x \in Objs \ {o} : pmut'[x] = pmut[x]
  BY <1>2
<1> QED BY <1>1, <1>2, <1>3 DEF PmutsRight

LEMMA LockFreed ==
    ASSUME NEW pt, NEW cx, NEW pq, NEW cd, NEW l \in LWPs, NEW t \in Threads,
           Advance(pt, cx, pq, cd, l, t), Frees(pt[t], cx[t]), pmut' = [pmut EXCEPT ![tgt[t]] = NoLwp],
           \A x \in Objs : Locks(t, pt[t], cx[t], x) => x = tgt[t],
           \A x \in Objs : ~Locks(t, pq[t], cd[t], x)'
    PROVE  PmutsRight(pq, cd)'
<1>1. ASSUME NEW u \in Threads \ {t}, NEW x \in Objs
      PROVE  Locks(u, pq[u], cd[u], x)' <=> Locks(u, pt[u], cx[u], x)
  BY DEF Advance, Local, Kept, Locks
<1>2. /\ PmutsRight(pt, cx) /\ pmut \in [Objs -> LWPs \cup {NoLwp}] /\ tgt[t] \in Objs
  BY DEF Advance, Situation, LifeInvAt, LifeTypeOK, SchedTypes, Private, CallArgs, Objs
<1>3. ASSUME NEW u \in Threads \ {t} PROVE ~Locks(u, pt[u], cx[u], tgt[t])
  <2>1. ~OnLwp(u)
    BY OneRuns DEF Advance
  <2>2. \A o : Locks(u, pt[u], cx[u], o) => Has(pt[u], cx[u]) /\ o = tgt[u]
    BY <2>1, OffLwpLocks DEF Advance
  <2>3. InReapQueue(tgt[t])
    BY DEF Advance, Situation, LifeInvAt, Custody
  <2>4. Has(pt[u], cx[u]) => ~InReapQueue(tgt[u])
    BY DEF Advance, Situation, LifeInvAt, Custody
  <2> HIDE DEF InReapQueue
  <2> QED BY <2>2, <2>3, <2>4
<1>4. pmut'[tgt[t]] = NoLwp /\ \A x \in Objs \ {tgt[t]} : pmut'[x] = pmut[x]
  BY <1>2
<1> QED BY <1>1, <1>2, <1>3, <1>4 DEF PmutsRight

LEMMA MutexTaken ==
    ASSUME NEW pt, NEW cx, NEW pq, NEW cd, NEW l \in LWPs, NEW t \in Threads,
           Advance(pt, cx, pq, cd, l, t), m_owner[reap_mtx] = NoThread, m_owner'[reap_mtx] = t,
           InSection(pq[t], cd[t]), pq[t] \notin {"mtx_locked", "mtx_switch"}
    PROVE  MutexRight(pq, cd)'
<1>1. /\ MutexRight(pt, cx) /\ waitq' = waitq /\ NoThread \notin Threads
      /\ \A u \in Threads \ {t} : pq[u] = pt[u] /\ cd[u] = cx[u]
  BY LifeObjects DEF Advance, Situation, LifeInvAt, Local
<1>2. \A u : InQueue(reap_mtx, u)' <=> InQueue(reap_mtx, u)
  BY LocalFrame DEF Advance
<1>3. \A u \in Threads : ~InSection(pt[u], cx[u]) /\ pt[u] # "mtx_switch"
  BY <1>1 DEF MutexRight
<1>4. \A u \in Threads : pt[u] = "mtx_locked" => InQueue(reap_mtx, u)
  BY <1>1 DEF MutexRight
<1> QED BY <1>1, <1>2, <1>3, <1>4 DEF MutexRight

LEMMA MutexKept ==
    ASSUME NEW pt, NEW cx, NEW pq, NEW cd, NEW l \in LWPs, NEW t \in Threads,
           Advance(pt, cx, pq, cd, l, t), pt[t] = "mtx_locked", m_owner' = m_owner,
           InSection(pq[t], cd[t]), pq[t] \notin {"mtx_locked", "mtx_switch"}
    PROVE  MutexRight(pq, cd)'
<1>1. /\ MutexRight(pt, cx) /\ waitq' = waitq /\ ~InQueue(reap_mtx, t)
      /\ \A u \in Threads \ {t} : pq[u] = pt[u] /\ cd[u] = cx[u]
  BY OneRuns, LifeObjects DEF Advance, Situation, LifeInvAt, Local
<1>2. \A u : InQueue(reap_mtx, u)' <=> InQueue(reap_mtx, u)
  BY LocalFrame DEF Advance
<1>3. m_owner[reap_mtx] = t
  BY <1>1 DEF MutexRight
<1> QED BY <1>1, <1>2, <1>3 DEF MutexRight

LEMMA MutexFreed ==
    ASSUME NEW pt, NEW cx, NEW pq, NEW cd, NEW l \in LWPs, NEW t \in Threads,
           Advance(pt, cx, pq, cd, l, t), waitq[reap_mtx] = <<>>, m_owner'[reap_mtx] = NoThread,
           InSection(pt[t], cx[t]), ~InSection(pq[t], cd[t]), pq[t] \notin {"mtx_locked", "mtx_switch"}
    PROVE  MutexRight(pq, cd)'
<1>1. /\ MutexRight(pt, cx) /\ waitq' = waitq /\ NoThread \notin Threads
      /\ \A u \in Threads \ {t} : pq[u] = pt[u] /\ cd[u] = cx[u] /\ pt[u] \in Resting
  BY OneRuns, OffLwpRests, LifeObjects DEF Advance, Situation, LifeInvAt, Local
<1>2. \A u : ~InQueue(reap_mtx, u)
  BY DEF InQueue
<1>3. m_owner[reap_mtx] = t
  BY <1>1 DEF MutexRight
<1>4. \A u \in Threads \ {t} : ~InSection(pt[u], cx[u]) /\ pt[u] \notin {"mtx_switch", "mtx_locked"}
  BY <1>1, <1>2, <1>3 DEF MutexRight, Resting
<1> QED BY <1>1, <1>4 DEF MutexRight

\* A thread gets u to itself.
LEMMA TargetTaken ==
    ASSUME NEW pt, NEW cx, NEW pq, NEW cd, NEW l \in LWPs, NEW t \in Threads,
           Advance(pt, cx, pq, cd, l, t), reap_queue' = reap_queue, claimed \subseteq claimed',
           NEW u \in Threads, tgt'[t] = u, u \in claimed', ut_state[u] \notin {"UT_NO_STATE", "UT_TRANSITION"},
           ~InReapQueue(u), \A v \in Threads \ {t} : ~(Has(pt[v], cx[v]) /\ tgt[v] = u),
           ~Frees(pq[t], cd[t]), ~Passed(pt[t], cx[t])
    PROVE  Custody(pq, cd)'
<1>1. /\ Custody(pt, cx)
      /\ \A v \in Threads \ {t} :
            pq[v] = pt[v] /\ cd[v] = cx[v] /\ tgt'[v] = tgt[v] /\ ut_state'[v] = ut_state[v]
      /\ ut_state'[t] \notin {"UT_NO_STATE", "UT_TRANSITION"}
      /\ \A v \in Threads : Has(pt[v], cx[v]) => tgt[v] \in Threads
  BY DEF Advance, Situation, LifeInvAt, Local, Kept, LifeTypeOK, Private, CallArgs
<1>2. \A v : InReapQueue(v)' <=> InReapQueue(v)
  BY DEF InReapQueue
<1>3. \A v, w \in Threads : Has(pq[v], cd[v]) /\ Has(pq[w], cd[w]) /\ tgt'[v] = tgt'[w] => v = w
  BY <1>1 DEF Custody
<1>4. ASSUME NEW v \in Threads, Has(pq[v], cd[v])
      PROVE  /\ ~InReapQueue(tgt[v])' /\ tgt'[v] \in claimed'
             /\ ut_state'[tgt'[v]] \notin {"UT_NO_STATE", "UT_TRANSITION"}
  <2>1. CASE v = t
    <3>1. \A x, y : x = y /\ ~InReapQueue(y)' => ~InReapQueue(x)'
      OBVIOUS
    <3> QED BY <1>1, <1>2, <2>1, <3>1
  <2>2. CASE v # t
    <3>1. \A x, y : x = y /\ ~InReapQueue(y)' => ~InReapQueue(x)'
      OBVIOUS
    <3>2. /\ tgt'[v] = tgt[v] /\ ~InReapQueue(tgt[v]) /\ tgt[v] \in claimed
          /\ ut_state[tgt[v]] \notin {"UT_NO_STATE", "UT_TRANSITION"} /\ tgt[v] \in Threads
      BY <1>1, <1>4, <2>2 DEF Custody
    <3> QED BY <1>1, <1>2, <3>1, <3>2
  <2> QED BY <2>1, <2>2
<1>5. \A v \in Threads : InReapQueue(v)' => v \in claimed' /\ Passed(pq[v], cd[v])
  BY <1>1, <1>2 DEF Custody
<1>6. \A v \in Threads : Frees(pq[v], cd[v]) => InReapQueue(tgt[v])'
  <2> TAKE v \in Threads
  <2> HAVE Frees(pq[v], cd[v])
  <2>1. tgt'[v] = tgt[v] /\ InReapQueue(tgt[v])
    BY <1>1 DEF Custody
  <2>2. \A x, y : x = y /\ InReapQueue(y)' => InReapQueue(x)'
    OBVIOUS
  <2> QED BY <1>2, <2>1, <2>2
<1>7. \A i, j \in 1..Len(reap_queue') : reap_queue'[i] = reap_queue'[j] => i = j
  BY <1>1 DEF Custody
<1> QED BY <1>3, <1>4, <1>5, <1>6, <1>7 DEF Custody

\* Nobody has a thread that no client has claimed.
LEMMA UnclaimedIsFree ==
    ASSUME NEW pt, NEW cx, Situation(pt, cx), NEW u \in Threads, u \notin claimed
    PROVE  /\ ~InReapQueue(u) /\ ~ut_detached[u]
           /\ \A v \in Threads : ~(Has(pt[v], cx[v]) /\ tgt[v] = u)
  BY DEF Situation, LifeInvAt, Custody, Targets

LEMMA CareTaken ==
    ASSUME NEW pt, NEW cx, NEW pq, NEW cd, NEW l \in LWPs, NEW t \in Threads,
           Advance(pt, cx, pq, cd, l, t), reap_queue' = reap_queue,
           NEW u \in Threads, tgt'[t] = u, Has(pq[t], cd[t]), ~Has(pt[t], cx[t]),
           claimed' = claimed \cup {u}, \A v \in Threads : ut_detached[v] => ut_detached'[v],
           u = t \/ cd[t] # "exit"
    PROVE  CaredFor(pq, cd)'
<1>1. /\ CaredFor(pt, cx) /\ claimed \subseteq Threads
      /\ \A v \in Threads \ {t} :
            pq[v] = pt[v] /\ cd[v] = cx[v] /\ tgt'[v] = tgt[v] /\ ut_state'[v] = ut_state[v]
      /\ ut_state[t] \notin {"UT_NO_STATE", "UT_TRANSITION"}
  BY OneRuns DEF Advance, Situation, LifeInvAt, LifeTypeOK, Local, Kept
<1>2. \A v \in Threads : Has(pt[v], cx[v]) => Has(pq[v], cd[v]) /\ tgt'[v] = tgt[v]
  BY <1>1
<1>3. \A v : InReapQueue(v)' <=> InReapQueue(v)
  BY DEF InReapQueue
<1>4. ASSUME NEW v \in claimed, v # u
      PROVE  \/ ut_state'[v] \in {"UT_NO_STATE", "UT_TRANSITION"} \/ InReapQueue(v)'
             \/ ut_detached'[v] /\ (cd[v] = "exit" => pq[v] = "exit_check")
             \/ \E w \in Threads : Has(pq[w], cd[w]) /\ tgt'[w] = v
  BY <1>1, <1>2, <1>3, <1>4 DEF CaredFor
<1> QED BY <1>4 DEF CaredFor

\* A thread that looks for joiners no more has none.
LEMMA JoinsGone ==
    ASSUME NEW pt, NEW cx, NEW pq, NEW cd, NEW l \in LWPs, NEW t \in Threads,
           Advance(pt, cx, pq, cd, l, t), Gone(pq[t], cd[t]), \A v \in Threads : ~InQueue(t, v),
           pq[t] \notin {"join_switch", "join_woken"}
    PROVE  JoinsRight(pq, cd)'
<1>1. /\ JoinsRight(pt, cx)
      /\ \A u \in Threads \ {t} : pq[u] = pt[u] /\ cd[u] = cx[u] /\ tgt'[u] = tgt[u] /\ pt[u] \in Resting
      /\ \A u \in Threads : pt[u] = "join_woken" => tgt[u] \in Threads
  <2>1. \A u \in Threads : pt[u] = "join_woken" => tgt[u] \in Threads
    BY DEF Advance, Situation, LifeInvAt, LifeTypeOK, Private, CallArgs, Has, JoinCode
  <2> QED BY <2>1, OneRuns, OffLwpRests DEF Advance, Situation, LifeInvAt, Local, Kept
<1>2. \A u \in Threads : Gone(pt[u], cx[u]) => Gone(pq[u], cd[u])
  BY <1>1
<1>3. \A o, u : InQueue(o, u)' <=> InQueue(o, u)
  BY LocalFrame DEF Advance
<1>4. \A u \in Threads : pq[u] # "join_switch" /\ (pq[u] = "join_woken" => pt[u] = "join_woken" /\ tgt'[u] = tgt[u])
  BY <1>1 DEF Resting
<1>5. ASSUME NEW u \in Threads, pq[u] = "join_woken"
      PROVE  InQueue(tgt[u], u)' \/ Gone(pq[tgt'[u]], cd[tgt'[u]])
  <2>1. tgt'[u] = tgt[u] /\ tgt[u] \in Threads /\ (InQueue(tgt[u], u) \/ Gone(pt[tgt[u]], cx[tgt[u]]))
    BY <1>1, <1>4, <1>5 DEF JoinsRight
  <2>2. \A x, y : x = y /\ InQueue(y, u)' => InQueue(x, u)'
    OBVIOUS
  <2> QED BY <1>2, <1>3, <2>1, <2>2
<1>6. \A u, v \in Threads : InQueue(v, u)' => v # t /\ ~Gone(pt[v], cx[v])
  BY <1>1, <1>3 DEF JoinsRight
<1>7. \A u, v \in Threads : InQueue(v, u)' => ~Gone(pq[v], cd[v])
  BY <1>1, <1>6
<1> QED BY <1>4, <1>5, <1>7 DEF JoinsRight

-----------------------------------------------------------------------------
(* uthread_mtx_lock and uthread_mtx_unlock of reap_mtx.                    *)

\* Where a caller of uthread_mtx_lock is when it returns.
LockPoint(c) ==
    IF c = "join" THEN "rest" ELSE IF c = "relock" THEN "rl_off"
    ELSE IF c = "reaper_loop" THEN "reaper_loop" ELSE "reap_pmut"
LockContext(c) ==
    IF c = "join" THEN "reap_pmut" ELSE IF c = "relock" THEN "reaper_loop" ELSE c

LEMMA LockReturns ==
    ASSUME NEW c \in Lockers
    PROVE  /\ LockPoint(c) \in Points /\ LockContext(c) \in Contexts /\ c \in Contexts
           /\ Is(LockPoint(c), LockContext(c), Base(c), AfterLock(c))
<1>0. /\ LockPoint(c) \in Points /\ LockContext(c) \in Contexts /\ c \in Contexts
  <2>1. c \in {"exit", "nopreempt_off", "join", "reaper_loop", "relock"}
    BY DEF Lockers, Buriers
  <2>2. LockPoint(c) \in Points
    BY <2>1 DEF LockPoint, Points, ReaperCode
  <2>3. LockContext(c) \in Contexts /\ c \in Contexts
    BY <2>1 DEF LockContext, Contexts, Preemptible, Lockers, Buriers
  <2> QED BY <2>2, <2>3
<1>1. CASE c = "exit"
  <2>1. AfterLock(c) = <<"reap_pmut">> \o <<>> /\ Base(c) = 1 /\ LockPoint(c) = "reap_pmut" /\ LockContext(c) = "exit"
    BY <1>1 DEF AfterLock, Below, Base, LockPoint, LockContext, Buriers
  <2>2. BurialRow("reap_pmut", "exit", 1, "reap_pmut", <<>>)
    BY DEF BurialRow, Buriers, Base, Below
  <2>3. "reap_pmut" \in LifeNames
    BY NamesKnown
  <2>4. AfterLock(c) # <<>> /\ Head(AfterLock(c)) = "reap_pmut" /\ Tail(AfterLock(c)) = <<>>
    BY <2>1, <2>3, OneName
  <2> QED BY <2>1, <2>2, <2>4, <1>0 DEF Is, Row
<1>2. CASE c = "nopreempt_off"
  <2>1. AfterLock(c) = <<"reap_pmut">> \o <<"nopreempt_off">> /\ Base(c) = 1 /\ LockPoint(c) = "reap_pmut" /\ LockContext(c) = "nopreempt_off"
    BY <1>2 DEF AfterLock, Below, Base, LockPoint, LockContext, Buriers
  <2>2. BurialRow("reap_pmut", "nopreempt_off", 1, "reap_pmut", <<"nopreempt_off">>)
    BY DEF BurialRow, Buriers, Base, Below
  <2>3. "reap_pmut" \in LifeNames /\ <<"nopreempt_off">> \in Seq(LifeNames)
    BY NamesKnown, OneName
  <2> QED BY <2>1, <2>2, <2>3, <1>0, AfterCons DEF Is, Row
<1>3. CASE c = "join"
  <2>1. AfterLock(c) = <<"reap_pmut">> \o <<>> /\ Base(c) = 0 /\ LockPoint(c) = "rest" /\ LockContext(c) = "reap_pmut"
    BY <1>3 DEF AfterLock, Below, Base, LockPoint, LockContext, Buriers
  <2>2. ClientRow("rest", "reap_pmut", 0, "reap_pmut", <<>>)
    BY DEF ClientRow, Preemptible
  <2>3. "reap_pmut" \in LifeNames
    BY NamesKnown
  <2> QED BY <2>1, <2>2, <2>3, <1>0, OneName DEF Is, Row
<1>4. CASE c = "reaper_loop"
  <2>1. AfterLock(c) = <<"reaper_loop">> /\ Base(c) = 1 /\ LockPoint(c) = "reaper_loop" /\ LockContext(c) = "reaper_loop"
    BY <1>4 DEF AfterLock, Below, Base, LockPoint, LockContext, Buriers
  <2>2. ReaperRow("reaper_loop", "reaper_loop", 1, "reaper_loop", <<>>)
    BY DEF ReaperRow, ReaperCode
  <2>3. "reaper_loop" \in LifeNames
    BY NamesKnown
  <2> QED BY <2>1, <2>2, <2>3, <1>0, OneName DEF Is, Row
<1>5. CASE c = "relock"
  <2>1. /\ AfterLock(c) = <<"nopreempt_off">> \o <<"reaper_loop">> /\ Base(c) = 2
        /\ LockPoint(c) = "rl_off" /\ LockContext(c) = "reaper_loop"
    BY <1>5 DEF AfterLock, Below, Base, LockPoint, LockContext, Buriers
  <2>2. ReaperRow("rl_off", "reaper_loop", 2, "nopreempt_off", <<"reaper_loop">>)
    BY DEF ReaperRow
  <2>3. "nopreempt_off" \in LifeNames /\ <<"reaper_loop">> \in Seq(LifeNames)
    BY NamesKnown, OneName
  <2> QED BY <2>1, <2>2, <2>3, <1>0, AfterCons DEF Is, Row
<1> QED BY <1>0, <1>1, <1>2, <1>3, <1>4, <1>5 DEF Lockers, Buriers

\* And where a caller of uthread_mtx_unlock is.
LEMMA UnlockReturns ==
    ASSUME NEW c \in Buriers \cup {"reaper_loop"}
    PROVE  /\ AfterUnlock(c) \in Points /\ c \in Contexts
           /\ Is(AfterUnlock(c), c, Base(c) + 1, <<AfterUnlock(c)>> \o Below(c))
<1>0. c \in Contexts /\ AfterUnlock(c) \in Points
  BY DEF AfterUnlock, Points, Contexts, Lockers, Buriers, CondWaits
<1>1. /\ <<AfterUnlock(c)>> \o Below(c) # <<>> /\ Head(<<AfterUnlock(c)>> \o Below(c)) = AfterUnlock(c)
      /\ Tail(<<AfterUnlock(c)>> \o Below(c)) = Below(c)
  BY <1>0, AfterCons, BelowType
<1>2. CASE c = "reaper_loop"
  <2>1. ReaperRow("cond_sleep", c, 2, "cond_sleep", Below(c)) /\ Base(c) + 1 = 2 /\ AfterUnlock(c) = "cond_sleep"
    BY <1>2 DEF ReaperRow, Below, Base, AfterUnlock
  <2> QED BY <1>0, <1>1, <2>1 DEF Is, Row
<1>3. CASE c \in Buriers
  <2>1. AfterUnlock(c) = "reap_release"
    BY <1>3 DEF Buriers, AfterUnlock
  <2>2. BurialRow("reap_release", c, Base(c) + 1, "reap_release", Below(c))
    BY <1>3 DEF BurialRow
  <2> QED BY <1>0, <1>1, <2>1, <2>2 DEF Is, Row
<1> QED BY <1>2, <1>3

\* What the code around reap_mtx does to the state and to the count.
LEMMA BaseNat == \A c : Base(c) \in Nat
  BY DEF Base

LEMMA LockStates ==
    ASSUME NEW c \in Lockers
    PROVE  /\ StateOn("mtx_lock", c) = IF c = "exit" THEN "UT_ZOMBIE" ELSE "UT_ON_CPU"
           /\ StateOn("mtx_locked", c) = "UT_ON_CPU"
           /\ StateOn(LockPoint(c), LockContext(c)) = StateOn("mtx_lock", c)
           /\ LockPoint(c) \notin {"dead", "free"}
<1>1. c \in {"exit", "nopreempt_off", "join", "reaper_loop", "relock"}
  BY DEF Lockers, Buriers
<1>2. /\ StateOn("mtx_lock", c) = IF c = "exit" THEN "UT_ZOMBIE" ELSE "UT_ON_CPU"
      /\ StateOn("mtx_locked", c) = "UT_ON_CPU"
  BY <1>1 DEF StateOn
<1>3. CASE c = "exit"
  <2>1. LockPoint(c) = "reap_pmut" /\ LockContext(c) = "exit"
    BY <1>3 DEF LockPoint, LockContext
  <2> QED BY <1>2, <1>3, <2>1 DEF StateOn
<1>4. CASE c # "exit"
  <2>1. LockPoint(c) \in {"rest", "rl_off", "reaper_loop", "reap_pmut"} /\ LockContext(c) # "exit"
    BY <1>1, <1>4 DEF LockPoint, LockContext
  <2> QED BY <1>2, <1>4, <2>1 DEF StateOn
<1> QED BY <1>3, <1>4

LEMMA UnlockStates ==
    ASSUME NEW c \in Buriers \cup {"reaper_loop"}
    PROVE  /\ StateOn(AfterUnlock(c), c) = StateOn("mtx_unlock", c)
           /\ AfterUnlock(c) \in {"cond_sleep", "reap_release"}
  BY DEF StateOn, AfterUnlock, Buriers

LEMMA RowsOfUnlocks ==
    ASSUME NEW p, NEW c, NEW n, NEW r, Row(p, c, n, "mtx_unlock", r)
    PROVE  /\ p = "mtx_unlock" /\ c \in Buriers \cup {"reaper_loop"} /\ n = Base(c) + 2
           /\ r = <<AfterUnlock(c)>> \o Below(c)
<1> DEFINE h == "mtx_unlock"
<1>1. Row(p, c, n, h, r) /\ h = "mtx_unlock"
  OBVIOUS
<1> HIDE DEF h
<1> QED BY <1>1, RowsOfBurials

-----------------------------------------------------------------------------
\* The thread that executes may go on to point q in context d.
CanAdvance(pt, cx, l, t) ==
    Situation(pt, cx) /\ l \in LWPs /\ t \in Threads /\ Running(l, t) /\ Local(t)
MayReach(pt, cx, l, t, q, d) ==
    \E pq \in [Threads -> Points], cd \in [Threads -> Contexts] :
       Advance(pt, cx, pq, cd, l, t) /\ pq[t] = q /\ cd[t] = d

LEMMA AdvanceTo ==
    ASSUME NEW pt, NEW cx, NEW l, NEW t, CanAdvance(pt, cx, l, t), NEW q \in Points, NEW d \in Contexts
    PROVE  MayReach(pt, cx, l, t, q, d)
  BY AdvanceExists DEF CanAdvance, MayReach

LEMMA RowsOfReapables ==
    ASSUME NEW p, NEW c, NEW n, NEW r, NEW h, h \in {"reap_pmut", "make_reapable"}, Row(p, c, n, h, r)
    PROVE  /\ p # "rest" => p = h /\ c \in Buriers \ {"join"} /\ n = Base(c) /\ r = Below(c)
           /\ p = "rest" => c = h /\ n = 0
<1>1. \/ p = h /\ c \in Buriers \ {"join"} /\ n = Base(c) /\ r = Below(c)
      \/ p = "rest" /\ c = h /\ n = 0 /\ r = <<>>
  BY RowsOfBurials
<1> QED BY <1>1

LEMMA BelowReapables ==
    ASSUME NEW p, NEW c, NEW n, NEW r, NEW h, h \in {"reap_pmut", "make_reapable"}, Row(p, c, n, h, r), p = "rest"
    PROVE  r = <<>>
<1>1. \/ p = h /\ c \in Buriers \ {"join"} /\ n = Base(c) /\ r = Below(c)
      \/ p = "rest" /\ c = h /\ n = 0 /\ r = <<>>
  BY RowsOfBurials
<1> QED BY <1>1

-----------------------------------------------------------------------------
(* The steps that lock and unlock.                                         *)

\* uthread_yield.
LEMMA LifeYieldLock ==
    ASSUME NEW pt, NEW cx, Situation(pt, cx), NEW l \in LWPs, NEW t \in Threads, halted = "none",
           YieldLock(l, t), UNCHANGED <<mtxVars, lifeVars>>
    PROVE  LifeInv'
<1> DEFINE c == cx[t]
<1>1. /\ Running(l, t) /\ stack[t] # <<>> /\ pt[t] = "yield_lock" /\ c \in Preemptible
      /\ ut_no_preempt_count[t] = 1 /\ Tail(stack[t]) = <<"nopreempt_off">> \o Below(c)
  <2>1. /\ Row(pt[t], cx[t], ut_no_preempt_count[t], "yield_lock", Tail(stack[t])) /\ stack[t] # <<>>
        /\ Running(l, t)
    BY AtPoint DEF YieldLock
  <2> QED BY <2>1, RowsOfClients
<1>2. /\ Private(t, "yield_lock", c) /\ LifeTypeOK /\ ut_no_preempt_count[t] \in Nat /\ c \in Contexts
  BY <1>1 DEF Situation, LifeInvAt, LifeTypeOK, SchedTypes
<1>3. /\ stack' \in [Threads -> Seq(LifeNames)] /\ stack'[t] # <<>>
      /\ Head(stack'[t]) = "switch" /\ Tail(stack'[t]) = <<"nopreempt_off">> \o Below(c)
      /\ \A u \in Threads \ {t} : stack'[u] = stack[u]
  <2>1. Continue(t, <<"switch">>)
    BY <1>1, <1>2 DEF YieldLock
  <2>2. "switch" \in LifeNames
    BY <1>1, NamesKnown
  <2> QED BY <1>1, <1>2, <2>1, <2>2, LifeContinue
<1>4. /\ pmut' \in [Objs -> LWPs \cup {NoLwp}] /\ pmut' = [pmut EXCEPT ![t] = l]
      /\ t \in Objs /\ pmut[t] = NoLwp
  <2>1. pmut' = [pmut EXCEPT ![t] = l] /\ pmut[t] = NoLwp
    BY <1>1, <1>2 DEF YieldLock, Takes
  <2>2. t \in Objs
    BY <1>1, <1>2, LifeObjects DEF LifeTypeOK, Objs
  <2> QED BY <1>2, <2>1, <2>2 DEF LifeTypeOK, SchedTypes
<1>5. /\ swarg' \in [Threads -> [queue : Objs \cup {NoObj}, saveonrq : BOOLEAN, pmut : Objs \cup {NoObj}]]
      /\ swarg'[t] = [queue |-> NoObj, saveonrq |-> TRUE, pmut |-> t]
      /\ \A u \in Threads \ {t} : swarg'[u] = swarg[u]
  <2>1. swarg' = [swarg EXCEPT ![t] = [queue |-> NoObj, saveonrq |-> TRUE, pmut |-> t]]
    BY <1>1 DEF YieldLock
  <2>2. swarg \in [Threads -> [queue : Objs \cup {NoObj}, saveonrq : BOOLEAN, pmut : Objs \cup {NoObj}]]
    BY <1>2 DEF LifeTypeOK, SchedTypes
  <2>3. [queue |-> NoObj, saveonrq |-> TRUE, pmut |-> t] \in [queue : Objs \cup {NoObj}, saveonrq : BOOLEAN, pmut : Objs \cup {NoObj}]
    BY LifeObjects DEF Objs
  <2> QED BY <2>1, <2>2, <2>3
<1>6. UNCHANGED <<curthr, lwp, ut_state, ut_prio, ut_no_preempt_count, runq, tq_size, runq_mtx, waitq,
                  wakee, sparg, newthr, halted, m_owner, marg, carg, crit, ut_detached, reap_queue,
                  tgt, claimed>>
  BY <1>1, <1>2 DEF YieldLock, cpuVars, thrVars, runqVars, waitVars, argVars, mtxVars, lifeVars, SyncRest
<1>7. LifeTypeOK'
  BY <1>1, <1>2, <1>3, <1>4, <1>5, <1>6 DEF LifeTypeOK, SchedTypes, LifeNames
<1>8. Local(t)
  <2>1. ut_state[t] \notin {"UT_NO_STATE", "UT_TRANSITION"}
    BY <1>1, OneRuns
  <2> QED BY <1>1, <1>2, <1>3, <1>4, <1>5, <1>6, <2>1 DEF Local, Kept, runqVars
<1>9. Private(t, "yield_switch", c)'
  <2>1. Is("yield_switch", c, ut_no_preempt_count[t], stack[t])'
    <3>1. ClientRow("yield_switch", c, 1, "switch", <<"nopreempt_off">> \o Below(c))
      BY <1>1 DEF ClientRow
    <3> QED BY <1>1, <1>3, <1>6, <3>1 DEF Is, Row
  <2>2. ModeOf("yield_switch", c, OnLwp(t), ut_state[t])'
    <3>1. ut_state[t] = StateOn(pt[t], cx[t])
      BY <1>1, OneRuns
    <3>2. ut_state'[t] = StateOn("yield_switch", c)
      BY <1>1, <1>2, <1>6, <3>1 DEF StateOn, Buriers, Lockers, Preemptible
    <3> QED BY <1>1, <1>6, <3>2, StaysOn
  <2>3. SwitchArgs(t, "yield_switch")' /\ LockArgs(t, "yield_switch", c)'
    BY <1>1, <1>2, <1>4, <1>5, <1>6, LifeObjects DEF Private, SwitchArgs, LockArgs, InSection,
                                                     Settling, CondWaits, Sections, ReaperCode,
                                                     Unlocks, Preemptible, Buriers
  <2>4. CallArgs(t, "yield_switch", c)' /\ Roles(t, "yield_switch", c)'
    BY <1>1, <1>2, <1>4, <1>5, <1>6, LifeObjects DEF Private, CallArgs, Roles, Allocates, WakePoints,
                                                     Has, Frees, Sections, Unlocks, JoinCode, Buriers,
                                                     Preemptible, Yields
  <2> QED BY <2>1, <2>2, <2>3, <2>4 DEF Private
<1>10. PICK pq \in [Threads -> Points], cd \in [Threads -> Contexts] :
          Advance(pt, cx, pq, cd, l, t) /\ pq[t] = "yield_switch" /\ cd[t] = c
  <2>1. "yield_switch" \in Points /\ c \in Contexts
    BY <1>1, <1>2 DEF Points, Yields, Sections, Unlocks, ReaperCode, CondWaits, ExitCode, JoinCode,
                      Locks, Frees, InSection, Buriers, Preemptible, Contexts, Lockers
  <2>2. CanAdvance(pt, cx, l, t)
    BY <1>1, <1>8 DEF CanAdvance
  <2>3. MayReach(pt, cx, l, t, "yield_switch", c)
    BY <2>1, <2>2, AdvanceTo
  <2> QED BY <2>3 DEF MayReach
<1>11. Private(t, pq[t], cd[t])'
  BY <1>9, <1>10
<1>12. NewRight(pq)'
  <2>1. newthr' = newthr /\ {pt[t], pq[t]} \cap {"alloc_claim", "startonrunq"} = {}
    BY <1>1, <1>2, <1>4, <1>5, <1>6, <1>10
  <2> QED BY <1>1, <1>10, <2>1, LocalNew DEF Advance
<1>13. PmutsRight(pq, cd)'
  <2>1. \A o \in Objs : Locks(t, pq[t], cd[t], o)' <=> Locks(t, pt[t], cx[t], o) \/ o = t
    BY <1>1, <1>2, <1>4, <1>5, <1>6, <1>10 DEF Locks, Frees, Sections, Unlocks, Buriers, Preemptible
  <2>2. t \in Objs /\ pmut' = [pmut EXCEPT ![t] = l]
    BY <1>1, <1>2, <1>4, <1>5, <1>6, <1>10
  <2> QED BY <1>10, <2>1, <2>2, LockTaken
<1>14. MutexRight(pq, cd)'
  <2>1. /\ InSection(pq[t], cd[t]) <=> InSection(pt[t], cx[t])
        /\ {pt[t], pq[t]} \cap {"mtx_locked", "mtx_switch"} = {}
    BY <1>1, <1>2, <1>4, <1>5, <1>6, <1>10 DEF InSection, Sections, ReaperCode, Buriers
  <2> QED BY <1>10, <1>6, <2>1, KeepsMutex
<1>15. Custody(pq, cd)'
  <2>1. /\ Has(pq[t], cd[t]) => Has(pt[t], cx[t]) /\ tgt'[t] = tgt[t]
        /\ Frees(pq[t], cd[t]) => Frees(pt[t], cx[t]) /\ tgt'[t] = tgt[t]
        /\ Passed(pt[t], cx[t]) => Passed(pq[t], cd[t])
    BY <1>1, <1>2, <1>4, <1>5, <1>6, <1>10 DEF Has, Frees, Passed, JoinCode, Sections, Unlocks, Buriers
  <2> QED BY <1>10, <1>6, <2>1, KeepsCustody
<1>16. Targets(pq, cd)'
  <2>1. /\ Joins(pq[t], cd[t]) => Joins(pt[t], cx[t]) /\ tgt'[t] = tgt[t]
        /\ HasDead(pq[t], cd[t]) => HasDead(pt[t], cx[t]) /\ tgt'[t] = tgt[t]
        /\ pq[t] # "detach_check"
    BY <1>1, <1>2, <1>4, <1>5, <1>6, <1>10 DEF Joins, HasDead, Has, JoinCode, Buriers
  <2>2. HasDead(pt[t], cx[t]) => tgt[t] \in Threads /\ pt[tgt[t]] = "dead"
    BY DEF Situation, LifeInvAt, LifeTypeOK, Targets, HasDead, Private, CallArgs
  <2> QED BY <1>10, <1>6, <2>1, <2>2, KeepsTargets
<1>17. CaredFor(pq, cd)'
  <2>1. /\ Has(pt[t], cx[t]) => Has(pq[t], cd[t]) /\ tgt'[t] = tgt[t]
        /\ (cx[t] = "exit" => pt[t] = "exit_check") => (cd[t] = "exit" => pq[t] = "exit_check")
    BY <1>1, <1>2, <1>4, <1>5, <1>6, <1>10 DEF Has, JoinCode, Buriers, Preemptible
  <2> QED BY <1>10, <1>6, <2>1, KeepsCare
<1>18. JoinsRight(pq, cd)'
  <2>1. /\ Gone(pq[t], cd[t]) <=> Gone(pt[t], cx[t])
        /\ pq[t] \notin {"join_switch", "join_woken"}
    BY <1>1, <1>2, <1>4, <1>5, <1>6, <1>10 DEF Gone, Preemptible, Buriers
  <2> QED BY <1>10, <1>6, <2>1, KeepsJoins
<1>19. ReaperRight(pq, cd)'
  <2>1. /\ pt[t] = "reaper_scan" => pq[t] = "reaper_scan"
        /\ pt[t] = "cond_signal" => pq[t] = "cond_signal"
        /\ Settling(pq[t], cd[t]) => Settling(pt[t], cx[t]) \/ reap_queue = <<>>
    BY <1>1, <1>2, <1>4, <1>5, <1>6, <1>10 DEF Settling, Unlocks, Preemptible, Buriers
  <2> QED BY <1>10, <1>6, <2>1, KeepsReaper
<1> QED BY <1>6, <1>7, <1>10, <1>11, <1>12, <1>13, <1>14, <1>15, <1>16, <1>17, <1>18, <1>19, AdvanceEnds DEF Rights

\* uthread_create.
LEMMA LifeAllocScan ==
    ASSUME NEW pt, NEW cx, Situation(pt, cx), NEW l \in LWPs, NEW t \in Threads, halted = "none",
           NEW u \in Threads, AllocScan(l, t, u), UNCHANGED <<mtxVars, lifeVars>>
    PROVE  LifeInv'
<1>1. /\ Running(l, t) /\ stack[t] = <<>> /\ pt[t] = "rest" /\ cx[t] = "client"
      /\ ut_no_preempt_count[t] = 0 /\ ut_state[t] = "UT_ON_CPU" /\ t # Reaper /\ ut_state[u] = "UT_NO_STATE"
  <2>1. InClient(l, t) /\ ut_state[u] = "UT_NO_STATE"
    BY DEF AllocScan, AllocFound
  <2>2. t # Reaper
    BY LifeObjects DEF AllocScan, AllocFound
  <2> QED BY <2>1, <2>2, AtPoint
<1>2. /\ Private(t, "rest", "client") /\ LifeTypeOK /\ ut_no_preempt_count[t] \in Nat
  BY <1>1 DEF Situation, LifeInvAt, LifeTypeOK, SchedTypes
<1>3. /\ stack' \in [Threads -> Seq(LifeNames)] /\ stack'[t] # <<>>
      /\ Head(stack'[t]) = "alloc_claim" /\ Tail(stack'[t]) = <<>>
      /\ \A w \in Threads \ {t} : stack'[w] = stack[w]
  <2>1. Push(t, <<"alloc_claim">>)
    BY <1>1, <1>2 DEF AllocScan, AllocFound
  <2>2. "alloc_claim" \in LifeNames
    BY <1>1, NamesKnown
  <2> QED BY <1>1, <1>2, <2>1, <2>2, LifePush
<1>4. /\ ut_no_preempt_count' \in [Threads -> Nat] /\ ut_no_preempt_count'[t] = 1
      /\ \A w \in Threads \ {t} : ut_no_preempt_count'[w] = ut_no_preempt_count[w]
  BY <1>1, <1>2 DEF AllocScan, AllocFound, NopreemptOn, NopreemptOff, LifeTypeOK, SchedTypes, Base
<1>5. /\ newthr' \in [Threads -> Threads \cup {NoThread}] /\ newthr'[t] = u
      /\ \A v \in Threads \ {t} : newthr'[v] = newthr[v]
  BY <1>1, <1>2 DEF AllocScan, AllocFound, LifeTypeOK, SchedTypes
<1>6. UNCHANGED <<curthr, lwp, ut_state, ut_prio, runq, tq_size, runq_mtx, waitq, pmut, swarg, wakee,
                  sparg, halted, m_owner, marg, carg, crit, ut_detached, reap_queue, tgt, claimed>>
  BY <1>1, <1>2 DEF AllocScan, AllocFound, cpuVars, thrVars, runqVars, waitVars, argVars, mtxVars,
                    lifeVars, SyncRest
<1>7. LifeTypeOK'
  BY <1>1, <1>2, <1>3, <1>4, <1>5, <1>6 DEF LifeTypeOK, SchedTypes, LifeNames
<1>8. Local(t)
  <2>1. ut_state[t] \notin {"UT_NO_STATE", "UT_TRANSITION"}
    BY <1>1, OneRuns
  <2> QED BY <1>1, <1>2, <1>3, <1>4, <1>5, <1>6, <2>1 DEF Local, Kept, runqVars
<1>9. Private(t, "alloc_claim", "client")'
  <2>1. Is("alloc_claim", "client", ut_no_preempt_count[t], stack[t])'
    <3>1. ClientRow("alloc_claim", "client", 1, "alloc_claim", <<>>)
      BY <1>1 DEF ClientRow
    <3> QED BY <1>1, <1>3, <1>4, <3>1 DEF Is, Row
  <2>2. ModeOf("alloc_claim", "client", OnLwp(t), ut_state[t])'
    <3>1. ut_state[t] = StateOn(pt[t], cx[t])
      BY <1>1, OneRuns
    <3>2. ut_state'[t] = StateOn("alloc_claim", "client")
      BY <1>1, <1>2, <1>6, <3>1 DEF StateOn, Buriers, Lockers, Preemptible
    <3> QED BY <1>1, <1>6, <3>2, StaysOn
  <2>3. SwitchArgs(t, "alloc_claim")' /\ LockArgs(t, "alloc_claim", "client")'
    BY <1>1, <1>2, <1>4, <1>5, <1>6, LifeObjects DEF Private, SwitchArgs, LockArgs, InSection,
                                                     Settling, CondWaits, Sections, ReaperCode,
                                                     Unlocks, Preemptible, Buriers
  <2>4. CallArgs(t, "alloc_claim", "client")' /\ Roles(t, "alloc_claim", "client")'
    BY <1>1, <1>2, <1>4, <1>5, <1>6, LifeObjects DEF Private, CallArgs, Roles, Allocates, WakePoints,
                                                     Has, Frees, Sections, Unlocks, JoinCode, Buriers,
                                                     Preemptible, Yields
  <2> QED BY <2>1, <2>2, <2>3, <2>4 DEF Private
<1>10. PICK pq \in [Threads -> Points], cd \in [Threads -> Contexts] :
          Advance(pt, cx, pq, cd, l, t) /\ pq[t] = "alloc_claim" /\ cd[t] = "client"
  <2>1. "alloc_claim" \in Points /\ "client" \in Contexts
    BY <1>1, <1>2 DEF Points, Yields, Sections, Unlocks, ReaperCode, CondWaits, ExitCode, JoinCode,
                      Locks, Frees, InSection, Buriers, Preemptible, Contexts, Lockers
  <2>2. CanAdvance(pt, cx, l, t)
    BY <1>1, <1>8 DEF CanAdvance
  <2>3. MayReach(pt, cx, l, t, "alloc_claim", "client")
    BY <2>1, <2>2, AdvanceTo
  <2> QED BY <2>3 DEF MayReach
<1>11. Private(t, pq[t], cd[t])'
  BY <1>9, <1>10
<1>12. NewRight(pq)'
  <2>1. /\ NewRight(pt) /\ newthr[t] = NoThread /\ NoThread \notin Threads /\ pq[t] = "alloc_claim"
        /\ \A v \in Threads \ {t} : pq[v] = pt[v] /\ pt[v] \in Resting
        /\ ut_state[t] # "UT_NO_STATE"
    BY <1>1, <1>2, <1>10, OneRuns, OffLwpRests, LifeObjects
       DEF Situation, LifeInvAt, Private, CallArgs, Allocates, Advance
  <2>2. \A v \in Threads \ {t} : pq[v] # "alloc_claim" /\ pq[v] # "startonrunq"
    BY <2>1 DEF Resting
  <2>3. \A v \in Threads \ {t} : newthr[v] # NoThread => ut_state[newthr[v]] = "UT_TRANSITION"
    BY <2>1, <2>2 DEF NewRight
  <2>4. newthr'[t] = u /\ \A v \in Threads \ {t} : newthr'[v] = newthr[v]
    BY <1>1, <1>2, <1>4, <1>5, <1>6, <1>10
  <2> QED BY <1>1, <1>6, <2>1, <2>2, <2>3, <2>4 DEF NewRight
<1>13. PmutsRight(pq, cd)'
  <2>1. \A o \in Objs : Locks(t, pq[t], cd[t], o)' <=> Locks(t, pt[t], cx[t], o)
    BY <1>1, <1>2, <1>4, <1>5, <1>6, <1>10 DEF Locks, Frees, Sections, Unlocks, Buriers
  <2> QED BY <1>10, <1>6, <2>1, KeepsPmuts
<1>14. MutexRight(pq, cd)'
  <2>1. /\ InSection(pq[t], cd[t]) <=> InSection(pt[t], cx[t])
        /\ {pt[t], pq[t]} \cap {"mtx_locked", "mtx_switch"} = {}
    BY <1>1, <1>2, <1>4, <1>5, <1>6, <1>10 DEF InSection, Sections, ReaperCode, Buriers
  <2> QED BY <1>10, <1>6, <2>1, KeepsMutex
<1>15. Custody(pq, cd)'
  <2>1. /\ Has(pq[t], cd[t]) => Has(pt[t], cx[t]) /\ tgt'[t] = tgt[t]
        /\ Frees(pq[t], cd[t]) => Frees(pt[t], cx[t]) /\ tgt'[t] = tgt[t]
        /\ Passed(pt[t], cx[t]) => Passed(pq[t], cd[t])
    BY <1>1, <1>2, <1>4, <1>5, <1>6, <1>10 DEF Has, Frees, Passed, JoinCode, Sections, Unlocks, Buriers
  <2> QED BY <1>10, <1>6, <2>1, KeepsCustody
<1>16. Targets(pq, cd)'
  <2>1. /\ Joins(pq[t], cd[t]) => Joins(pt[t], cx[t]) /\ tgt'[t] = tgt[t]
        /\ HasDead(pq[t], cd[t]) => HasDead(pt[t], cx[t]) /\ tgt'[t] = tgt[t]
        /\ pq[t] # "detach_check"
    BY <1>1, <1>2, <1>4, <1>5, <1>6, <1>10 DEF Joins, HasDead, Has, JoinCode, Buriers
  <2>2. HasDead(pt[t], cx[t]) => tgt[t] \in Threads /\ pt[tgt[t]] = "dead"
    BY DEF Situation, LifeInvAt, LifeTypeOK, Targets, HasDead, Private, CallArgs
  <2> QED BY <1>10, <1>6, <2>1, <2>2, KeepsTargets
<1>17. CaredFor(pq, cd)'
  <2>1. /\ Has(pt[t], cx[t]) => Has(pq[t], cd[t]) /\ tgt'[t] = tgt[t]
        /\ (cx[t] = "exit" => pt[t] = "exit_check") => (cd[t] = "exit" => pq[t] = "exit_check")
    BY <1>1, <1>2, <1>4, <1>5, <1>6, <1>10 DEF Has, JoinCode, Buriers, Preemptible
  <2> QED BY <1>10, <1>6, <2>1, KeepsCare
<1>18. JoinsRight(pq, cd)'
  <2>1. /\ Gone(pq[t], cd[t]) <=> Gone(pt[t], cx[t])
        /\ pq[t] \notin {"join_switch", "join_woken"}
    BY <1>1, <1>2, <1>4, <1>5, <1>6, <1>10 DEF Gone, Preemptible, Buriers
  <2> QED BY <1>10, <1>6, <2>1, KeepsJoins
<1>19. ReaperRight(pq, cd)'
  <2>1. /\ pt[t] = "reaper_scan" => pq[t] = "reaper_scan"
        /\ pt[t] = "cond_signal" => pq[t] = "cond_signal"
        /\ Settling(pq[t], cd[t]) => Settling(pt[t], cx[t]) \/ reap_queue = <<>>
    BY <1>1, <1>2, <1>4, <1>5, <1>6, <1>10 DEF Settling, Unlocks, Preemptible, Buriers
  <2> QED BY <1>10, <1>6, <2>1, KeepsReaper
<1> QED BY <1>6, <1>7, <1>10, <1>11, <1>12, <1>13, <1>14, <1>15, <1>16, <1>17, <1>18, <1>19, AdvanceEnds DEF Rights

\* uthread_mtx_lock.
LEMMA LifeMtxLockFree ==
    ASSUME NEW pt, NEW cx, Situation(pt, cx), NEW l \in LWPs, NEW t \in Threads, halted = "none",
           MtxLock(l, t), m_owner[reap_mtx] = NoThread, UNCHANGED lifeVars
    PROVE  LifeInv'
<1> DEFINE c == cx[t]
<1>1. /\ Running(l, t) /\ stack[t] # <<>> /\ pt[t] = "mtx_lock" /\ c \in Lockers
      /\ ut_no_preempt_count[t] = Base(c) + 1 /\ Tail(stack[t]) = AfterLock(c) /\ marg[t] = reap_mtx
  <2>1. /\ Row(pt[t], cx[t], ut_no_preempt_count[t], "mtx_lock", Tail(stack[t])) /\ stack[t] # <<>>
        /\ Running(l, t)
    BY AtPoint DEF MtxLock
  <2>2. /\ pt[t] = "mtx_lock" /\ c \in Lockers
      /\ ut_no_preempt_count[t] = Base(c) + 1 /\ Tail(stack[t]) = AfterLock(c)
    BY <2>1, RowsOfLocks
  <2>3. marg[t] = reap_mtx
    BY <2>2 DEF Situation, LifeInvAt, Private, LockArgs, CondWaits
  <2> QED BY <2>1, <2>2, <2>3
<1>2. /\ Private(t, "mtx_lock", c) /\ LifeTypeOK /\ ut_no_preempt_count[t] \in Nat /\ c \in Contexts
  BY <1>1 DEF Situation, LifeInvAt, LifeTypeOK, SchedTypes
<1>3. /\ stack' \in [Threads -> Seq(LifeNames)] /\ stack'[t] = AfterLock(c)
      /\ \A u \in Threads \ {t} : stack'[u] = stack[u]
  <2>1. Continue(t, <<>>)
    BY <1>1, <1>2 DEF MtxLock
  <2> QED BY <1>1, <1>2, <2>1, LifeContinue
<1>4. /\ ut_no_preempt_count' \in [Threads -> Nat] /\ ut_no_preempt_count'[t] = Base(c)
      /\ \A u \in Threads \ {t} : ut_no_preempt_count'[u] = ut_no_preempt_count[u]
  <2>1. NopreemptOff(t)
    BY <1>1, <1>2 DEF MtxLock
  <2>2. Base(c) \in Nat
    BY <1>2, BaseNat
  <2> QED BY <1>1, <1>2, <2>1, <2>2 DEF NopreemptOff, LifeTypeOK, SchedTypes
<1>5. /\ m_owner' \in [Mutexes -> Threads \cup {NoThread}] /\ m_owner'[reap_mtx] = t
  <2>1. marg[t] = reap_mtx
    BY <1>1, <1>2 DEF Private, LockArgs
  <2> QED BY <1>1, <1>2, <2>1, LifeObjects DEF MtxLock, LifeTypeOK
<1>6. /\ crit' \in [Threads -> SUBSET Mutexes] /\ crit'[t] = {reap_mtx}
      /\ \A u \in Threads \ {t} : crit'[u] = crit[u]
  <2>1. marg[t] = reap_mtx /\ (crit[t] = {} \/ crit[t] = {reap_mtx})
    BY <1>1, <1>2 DEF Private, LockArgs
  <2> QED BY <1>1, <1>2, <2>1, LifeObjects DEF MtxLock, LifeTypeOK
<1>7. /\ marg' \in [Threads -> Mutexes \cup {NoObj}]
      /\ \A u \in Threads \ {t} : marg'[u] = marg[u]
  BY <1>1, <1>2 DEF MtxLock, LifeTypeOK
<1>8. UNCHANGED <<curthr, lwp, ut_state, ut_prio, runq, tq_size, runq_mtx, waitq, pmut, swarg, wakee,
                  sparg, newthr, halted, carg, ut_detached, reap_queue, tgt, claimed>>
  BY <1>1, <1>2 DEF MtxLock, cpuVars, thrVars, runqVars, waitVars, argVars, mtxVars, lifeVars, SyncRest
<1>9. LifeTypeOK'
  BY <1>1, <1>2, <1>3, <1>4, <1>5, <1>6, <1>7, <1>8 DEF LifeTypeOK, SchedTypes, LifeNames
<1>10. Local(t)
  <2>1. ut_state[t] \notin {"UT_NO_STATE", "UT_TRANSITION"}
    BY <1>1, OneRuns
  <2> QED BY <1>1, <1>2, <1>3, <1>4, <1>5, <1>6, <1>7, <1>8, <2>1 DEF Local, Kept, runqVars
<1>11. Private(t, LockPoint(c), LockContext(c))'
  <2>1. Is(LockPoint(c), LockContext(c), ut_no_preempt_count[t], stack[t])'
    <3>1. Is(LockPoint(c), LockContext(c), Base(c), AfterLock(c))
      BY <1>1, LockReturns
    <3> QED BY <1>3, <1>4, <3>1
  <2>2. ModeOf(LockPoint(c), LockContext(c), OnLwp(t), ut_state[t])'
    <3>1. ut_state[t] = StateOn(pt[t], cx[t])
      BY <1>1, OneRuns
    <3>2. ut_state'[t] = StateOn(LockPoint(c), LockContext(c))
      BY <1>1, <1>2, <1>8, <3>1, LockStates
    <3> QED BY <1>1, <1>8, <3>2, StaysOn, LockStates
  <2>3. SwitchArgs(t, LockPoint(c))' /\ LockArgs(t, LockPoint(c), LockContext(c))'
    BY <1>1, <1>2, <1>4, <1>5, <1>6, <1>7, <1>8 DEF Private, SwitchArgs, LockArgs, InSection, Settling,
                                                    CondWaits, Sections, ReaperCode, Unlocks,
                                                    Preemptible, Buriers, LockPoint, LockContext,
                                                    Lockers, Buriers
  <2>4. CallArgs(t, LockPoint(c), LockContext(c))' /\ Roles(t, LockPoint(c), LockContext(c))'
    BY <1>1, <1>2, <1>4, <1>5, <1>6, <1>7, <1>8 DEF Private, CallArgs, Roles, Allocates, WakePoints,
                                                    Has, Frees, Sections, Unlocks, JoinCode, Buriers,
                                                    Preemptible, Yields, LockPoint, LockContext,
                                                    Lockers, Buriers
  <2> QED BY <2>1, <2>2, <2>3, <2>4 DEF Private
<1>12. PICK pq \in [Threads -> Points], cd \in [Threads -> Contexts] :
          Advance(pt, cx, pq, cd, l, t) /\ pq[t] = LockPoint(c) /\ cd[t] = LockContext(c)
  <2>1. LockPoint(c) \in Points /\ LockContext(c) \in Contexts
    BY <1>1, <1>2, LockReturns
  <2>2. CanAdvance(pt, cx, l, t)
    BY <1>1, <1>10 DEF CanAdvance
  <2>3. MayReach(pt, cx, l, t, LockPoint(c), LockContext(c))
    BY <2>1, <2>2, AdvanceTo
  <2> QED BY <2>3 DEF MayReach
<1>13. Private(t, pq[t], cd[t])'
  BY <1>11, <1>12
<1>14. NewRight(pq)'
  <2>1. newthr' = newthr /\ {pt[t], pq[t]} \cap {"alloc_claim", "startonrunq"} = {}
    BY <1>1, <1>2, <1>4, <1>5, <1>6, <1>7, <1>8, <1>12
  <2> QED BY <1>1, <1>12, <2>1, LocalNew DEF Advance
<1>15. PmutsRight(pq, cd)'
  <2>1. \A o \in Objs : Locks(t, pq[t], cd[t], o)' <=> Locks(t, pt[t], cx[t], o)
    BY <1>1, <1>2, <1>4, <1>5, <1>6, <1>7, <1>8, <1>12 DEF Locks, Frees, Sections, Unlocks, Buriers,
                                                           LockPoint, LockContext, Lockers, Buriers
  <2> QED BY <1>12, <1>8, <2>1, KeepsPmuts
<1>16. MutexRight(pq, cd)'
  <2>1. m_owner'[reap_mtx] = t /\ InSection(pq[t], cd[t]) /\ pq[t] \notin {"mtx_locked", "mtx_switch"}
    BY <1>1, <1>2, <1>4, <1>5, <1>6, <1>7, <1>8, <1>12 DEF InSection, ReaperCode, LockPoint, LockContext, Lockers, Buriers
  <2> QED BY <1>12, <2>1, MutexTaken
<1>17. Custody(pq, cd)'
  <2>1. /\ Has(pq[t], cd[t]) => Has(pt[t], cx[t]) /\ tgt'[t] = tgt[t]
        /\ Frees(pq[t], cd[t]) => Frees(pt[t], cx[t]) /\ tgt'[t] = tgt[t]
        /\ Passed(pt[t], cx[t]) => Passed(pq[t], cd[t])
    BY <1>1, <1>2, <1>4, <1>5, <1>6, <1>7, <1>8, <1>12 DEF Has, Frees, Passed, JoinCode, Sections,
                                                           Unlocks, Buriers, LockPoint, LockContext,
                                                           Lockers, Buriers
  <2> QED BY <1>12, <1>8, <2>1, KeepsCustody
<1>18. Targets(pq, cd)'
  <2>1. /\ Joins(pq[t], cd[t]) => Joins(pt[t], cx[t]) /\ tgt'[t] = tgt[t]
        /\ HasDead(pq[t], cd[t]) => HasDead(pt[t], cx[t]) /\ tgt'[t] = tgt[t]
        /\ pq[t] # "detach_check"
    BY <1>1, <1>2, <1>4, <1>5, <1>6, <1>7, <1>8, <1>12 DEF Joins, HasDead, Has, JoinCode, Buriers,
                                                           LockPoint, LockContext, Lockers, Buriers
  <2>2. HasDead(pt[t], cx[t]) => tgt[t] \in Threads /\ pt[tgt[t]] = "dead"
    BY DEF Situation, LifeInvAt, LifeTypeOK, Targets, HasDead, Private, CallArgs
  <2> QED BY <1>12, <1>8, <2>1, <2>2, KeepsTargets
<1>19. CaredFor(pq, cd)'
  <2>1. /\ Has(pt[t], cx[t]) => Has(pq[t], cd[t]) /\ tgt'[t] = tgt[t]
        /\ (cx[t] = "exit" => pt[t] = "exit_check") => (cd[t] = "exit" => pq[t] = "exit_check")
    BY <1>1, <1>2, <1>4, <1>5, <1>6, <1>7, <1>8, <1>12 DEF Has, JoinCode, Buriers, Preemptible,
                                                           LockPoint, LockContext, Lockers, Buriers
  <2> QED BY <1>12, <1>8, <2>1, KeepsCare
<1>20. JoinsRight(pq, cd)'
  <2>1. /\ Gone(pq[t], cd[t]) <=> Gone(pt[t], cx[t])
        /\ pq[t] \notin {"join_switch", "join_woken"}
    BY <1>1, <1>2, <1>4, <1>5, <1>6, <1>7, <1>8, <1>12 DEF Gone, Preemptible, Buriers, LockPoint,
                                                           LockContext, Lockers, Buriers
  <2> QED BY <1>12, <1>8, <2>1, KeepsJoins
<1>21. ReaperRight(pq, cd)'
  <2>1. /\ pt[t] = "reaper_scan" => pq[t] = "reaper_scan"
        /\ pt[t] = "cond_signal" => pq[t] = "cond_signal"
        /\ Settling(pq[t], cd[t]) => Settling(pt[t], cx[t]) \/ reap_queue = <<>>
    BY <1>1, <1>2, <1>4, <1>5, <1>6, <1>7, <1>8, <1>12 DEF Settling, Unlocks, Preemptible, Buriers,
                                                           LockPoint, LockContext, Lockers, Buriers
  <2> QED BY <1>12, <1>8, <2>1, KeepsReaper
<1> QED BY <1>8, <1>9, <1>12, <1>13, <1>14, <1>15, <1>16, <1>17, <1>18, <1>19, <1>20, <1>21, AdvanceEnds DEF Rights

LEMMA LifeMtxSleep ==
    ASSUME NEW pt, NEW cx, Situation(pt, cx), NEW l \in LWPs, NEW t \in Threads, halted = "none",
           MtxLock(l, t), m_owner[reap_mtx] # NoThread, UNCHANGED lifeVars
    PROVE  LifeInv'
<1> DEFINE c == cx[t]
<1>1. /\ Running(l, t) /\ stack[t] # <<>> /\ pt[t] = "mtx_lock" /\ c \in Lockers
      /\ ut_no_preempt_count[t] = Base(c) + 1 /\ Tail(stack[t]) = AfterLock(c) /\ marg[t] = reap_mtx
  <2>1. /\ Row(pt[t], cx[t], ut_no_preempt_count[t], "mtx_lock", Tail(stack[t])) /\ stack[t] # <<>>
        /\ Running(l, t)
    BY AtPoint DEF MtxLock
  <2>2. /\ pt[t] = "mtx_lock" /\ c \in Lockers
      /\ ut_no_preempt_count[t] = Base(c) + 1 /\ Tail(stack[t]) = AfterLock(c)
    BY <2>1, RowsOfLocks
  <2>3. marg[t] = reap_mtx
    BY <2>2 DEF Situation, LifeInvAt, Private, LockArgs, CondWaits
  <2> QED BY <2>1, <2>2, <2>3
<1>2. /\ Private(t, "mtx_lock", c) /\ LifeTypeOK /\ ut_no_preempt_count[t] \in Nat /\ c \in Contexts
  BY <1>1 DEF Situation, LifeInvAt, LifeTypeOK, SchedTypes
<1>3. /\ stack' \in [Threads -> Seq(LifeNames)] /\ stack'[t] # <<>>
      /\ Head(stack'[t]) = "switch" /\ Tail(stack'[t]) = <<Locked(c)>> \o AfterLock(c)
      /\ \A u \in Threads \ {t} : stack'[u] = stack[u]
  <2>1. ut_state[t] = "UT_ZOMBIE" <=> c = "exit"
    BY <1>1, OneRuns, LockStates
  <2>2. SleepFrames(t) = <<"switch", Locked(c)>>
    BY <2>1 DEF SleepFrames, Locked
  <2>3. Continue(t, SleepFrames(t))
    BY <1>1 DEF MtxLock
  <2>4. Continue(t, <<"switch", Locked(c)>>)
    BY <2>2, <2>3
  <2>5. "switch" \in LifeNames /\ Locked(c) \in LifeNames
    BY NamesKnown DEF Locked
  <2> QED BY <1>1, <1>2, <2>4, <2>5, LifeContinue
<1>4. /\ ut_state' \in [Threads -> UtStates] /\ ut_state'[t] = "UT_WAIT"
      /\ \A u \in Threads \ {t} : ut_state'[u] = ut_state[u]
  BY <1>1, <1>2 DEF MtxLock, MtxSleep, LifeTypeOK, SchedTypes, UtStates
<1>5. /\ pmut' \in [Objs -> LWPs \cup {NoLwp}] /\ pmut' = [pmut EXCEPT ![reap_mtx] = l]
      /\ reap_mtx \in Objs /\ pmut[reap_mtx] = NoLwp
  <2>1. pmut' = [pmut EXCEPT ![reap_mtx] = l] /\ pmut[reap_mtx] = NoLwp
    BY <1>1, <1>2 DEF MtxLock, MtxSleep, Takes
  <2>2. reap_mtx \in Objs
    BY <1>1, <1>2, LifeObjects DEF LifeTypeOK, Objs
  <2> QED BY <1>2, <2>1, <2>2 DEF LifeTypeOK, SchedTypes
<1>6. /\ swarg' \in [Threads -> [queue : Objs \cup {NoObj}, saveonrq : BOOLEAN, pmut : Objs \cup {NoObj}]]
      /\ swarg'[t] = [queue |-> reap_mtx, saveonrq |-> FALSE, pmut |-> reap_mtx]
      /\ \A u \in Threads \ {t} : swarg'[u] = swarg[u]
  <2>1. swarg' = [swarg EXCEPT ![t] = [queue |-> reap_mtx, saveonrq |-> FALSE, pmut |-> reap_mtx]]
    BY <1>1, <1>2 DEF MtxLock, MtxSleep
  <2>2. swarg \in [Threads -> [queue : Objs \cup {NoObj}, saveonrq : BOOLEAN, pmut : Objs \cup {NoObj}]]
    BY <1>2 DEF LifeTypeOK, SchedTypes
  <2>3. [queue |-> reap_mtx, saveonrq |-> FALSE, pmut |-> reap_mtx] \in [queue : Objs \cup {NoObj}, saveonrq : BOOLEAN, pmut : Objs \cup {NoObj}]
    BY LifeObjects DEF Objs
  <2> QED BY <2>1, <2>2, <2>3
<1>7. UNCHANGED <<curthr, lwp, ut_prio, ut_no_preempt_count, runq, tq_size, runq_mtx, waitq, wakee,
                  sparg, newthr, halted, m_owner, marg, carg, crit, ut_detached, reap_queue, tgt,
                  claimed>>
  BY <1>1, <1>2 DEF MtxLock, MtxSleep, cpuVars, thrVars, runqVars, waitVars, argVars, mtxVars,
                    lifeVars, SyncRest
<1>8. LifeTypeOK'
  BY <1>1, <1>2, <1>3, <1>4, <1>5, <1>6, <1>7 DEF LifeTypeOK, SchedTypes, LifeNames
<1>9. Local(t)
  BY <1>1, <1>2, <1>3, <1>4, <1>5, <1>6, <1>7 DEF Local, Kept, runqVars
<1>10. Private(t, "mtx_switch", c)'
  <2>1. Is("mtx_switch", c, ut_no_preempt_count[t], stack[t])'
    <3>1. LockRow("mtx_switch", c, Base(c) + 1, "switch", <<Locked(c)>> \o AfterLock(c))
      BY <1>1 DEF LockRow
    <3> QED BY <1>1, <1>3, <1>7, <3>1 DEF Is, Row
  <2>2. ModeOf("mtx_switch", c, OnLwp(t), ut_state[t])'
    <3>1. ut_state'[t] = StateOn("mtx_switch", c)
      BY <1>1, <1>2, <1>4, <1>5, <1>6, <1>7 DEF StateOn, Buriers, Lockers, Preemptible
    <3> QED BY <1>1, <1>7, <3>1, StaysOn
  <2>3. SwitchArgs(t, "mtx_switch")' /\ LockArgs(t, "mtx_switch", c)'
    BY <1>1, <1>2, <1>4, <1>5, <1>6, <1>7 DEF Private, SwitchArgs, LockArgs, InSection, Settling,
                                              CondWaits, Sections, ReaperCode, Unlocks, Preemptible,
                                              Buriers
  <2>4. CallArgs(t, "mtx_switch", c)' /\ Roles(t, "mtx_switch", c)'
    BY <1>1, <1>2, <1>4, <1>5, <1>6, <1>7 DEF Private, CallArgs, Roles, Allocates, WakePoints, Has,
                                              Frees, Sections, Unlocks, JoinCode, Buriers, Preemptible,
                                              Yields
  <2> QED BY <2>1, <2>2, <2>3, <2>4 DEF Private
<1>11. PICK pq \in [Threads -> Points], cd \in [Threads -> Contexts] :
          Advance(pt, cx, pq, cd, l, t) /\ pq[t] = "mtx_switch" /\ cd[t] = c
  <2>1. "mtx_switch" \in Points /\ c \in Contexts
    BY <1>1, <1>2 DEF Points, Yields, Sections, Unlocks, ReaperCode, CondWaits, ExitCode, JoinCode,
                      Locks, Frees, InSection, Buriers, Preemptible, Contexts, Lockers
  <2>2. CanAdvance(pt, cx, l, t)
    BY <1>1, <1>9 DEF CanAdvance
  <2>3. MayReach(pt, cx, l, t, "mtx_switch", c)
    BY <2>1, <2>2, AdvanceTo
  <2> QED BY <2>3 DEF MayReach
<1>12. Private(t, pq[t], cd[t])'
  BY <1>10, <1>11
<1>13. NewRight(pq)'
  <2>1. newthr' = newthr /\ {pt[t], pq[t]} \cap {"alloc_claim", "startonrunq"} = {}
    BY <1>1, <1>2, <1>4, <1>5, <1>6, <1>7, <1>11
  <2> QED BY <1>1, <1>11, <2>1, LocalNew DEF Advance
<1>14. PmutsRight(pq, cd)'
  <2>1. \A o \in Objs : Locks(t, pq[t], cd[t], o)' <=> Locks(t, pt[t], cx[t], o) \/ o = reap_mtx
    BY <1>1, <1>2, <1>4, <1>5, <1>6, <1>7, <1>11 DEF Locks, Frees, Sections, Unlocks, Buriers, Preemptible
  <2>2. reap_mtx \in Objs /\ pmut' = [pmut EXCEPT ![reap_mtx] = l]
    BY <1>1, <1>2, <1>4, <1>5, <1>6, <1>7, <1>11
  <2> QED BY <1>11, <2>1, <2>2, LockTaken
<1>15. MutexRight(pq, cd)'
  <2>1. /\ MutexRight(pt, cx) /\ waitq' = waitq /\ m_owner' = m_owner
        /\ pq[t] = "mtx_switch" /\ m_owner[reap_mtx] # NoThread
        /\ \A u \in Threads \ {t} : pq[u] = pt[u] /\ cd[u] = cx[u]
    BY <1>11, <1>7 DEF Advance, Situation, LifeInvAt
  <2>2. \A u : InQueue(reap_mtx, u)' <=> InQueue(reap_mtx, u)
    BY <1>9, LocalFrame
  <2>3. ~InSection(pt[t], cx[t]) /\ ~InSection(pq[t], cd[t])
    BY <1>1, <1>2, <1>4, <1>5, <1>6, <1>7, <1>11 DEF InSection, Sections, ReaperCode, Lockers, Buriers
  <2>4. m_owner[reap_mtx] # t
    BY <1>1, <2>1, <2>3 DEF MutexRight
  <2> QED BY <2>1, <2>2, <2>3, <2>4 DEF MutexRight
<1>16. Custody(pq, cd)'
  <2>1. /\ Has(pq[t], cd[t]) => Has(pt[t], cx[t]) /\ tgt'[t] = tgt[t]
        /\ Frees(pq[t], cd[t]) => Frees(pt[t], cx[t]) /\ tgt'[t] = tgt[t]
        /\ Passed(pt[t], cx[t]) => Passed(pq[t], cd[t])
    BY <1>1, <1>2, <1>4, <1>5, <1>6, <1>7, <1>11 DEF Has, Frees, Passed, JoinCode, Sections, Unlocks, Buriers
  <2> QED BY <1>11, <1>7, <2>1, KeepsCustody
<1>17. Targets(pq, cd)'
  <2>1. /\ Joins(pq[t], cd[t]) => Joins(pt[t], cx[t]) /\ tgt'[t] = tgt[t]
        /\ HasDead(pq[t], cd[t]) => HasDead(pt[t], cx[t]) /\ tgt'[t] = tgt[t]
        /\ pq[t] # "detach_check"
    BY <1>1, <1>2, <1>4, <1>5, <1>6, <1>7, <1>11 DEF Joins, HasDead, Has, JoinCode, Buriers
  <2>2. HasDead(pt[t], cx[t]) => tgt[t] \in Threads /\ pt[tgt[t]] = "dead"
    BY DEF Situation, LifeInvAt, LifeTypeOK, Targets, HasDead, Private, CallArgs
  <2> QED BY <1>11, <1>7, <2>1, <2>2, KeepsTargets
<1>18. CaredFor(pq, cd)'
  <2>1. /\ Has(pt[t], cx[t]) => Has(pq[t], cd[t]) /\ tgt'[t] = tgt[t]
        /\ (cx[t] = "exit" => pt[t] = "exit_check") => (cd[t] = "exit" => pq[t] = "exit_check")
    BY <1>1, <1>2, <1>4, <1>5, <1>6, <1>7, <1>11 DEF Has, JoinCode, Buriers, Preemptible
  <2> QED BY <1>11, <1>7, <2>1, KeepsCare
<1>19. JoinsRight(pq, cd)'
  <2>1. /\ Gone(pq[t], cd[t]) <=> Gone(pt[t], cx[t])
        /\ pq[t] \notin {"join_switch", "join_woken"}
    BY <1>1, <1>2, <1>4, <1>5, <1>6, <1>7, <1>11 DEF Gone, Preemptible, Buriers
  <2> QED BY <1>11, <1>7, <2>1, KeepsJoins
<1>20. ReaperRight(pq, cd)'
  <2>1. /\ pt[t] = "reaper_scan" => pq[t] = "reaper_scan"
        /\ pt[t] = "cond_signal" => pq[t] = "cond_signal"
        /\ Settling(pq[t], cd[t]) => Settling(pt[t], cx[t]) \/ reap_queue = <<>>
    BY <1>1, <1>2, <1>4, <1>5, <1>6, <1>7, <1>11 DEF Settling, Unlocks, Preemptible, Buriers
  <2> QED BY <1>11, <1>7, <2>1, KeepsReaper
<1> QED BY <1>7, <1>8, <1>11, <1>12, <1>13, <1>14, <1>15, <1>16, <1>17, <1>18, <1>19, <1>20, AdvanceEnds DEF Rights

LEMMA LifeMtxLocked ==
    ASSUME NEW pt, NEW cx, Situation(pt, cx), NEW l \in LWPs, NEW t \in Threads, halted = "none",
           MtxLocked(l, t), UNCHANGED lifeVars
    PROVE  LifeInv'
<1> DEFINE c == cx[t]
<1>1. /\ Running(l, t) /\ stack[t] # <<>> /\ pt[t] = "mtx_locked" /\ c \in Lockers /\ c # "exit"
      /\ ut_no_preempt_count[t] = Base(c) + 1 /\ Tail(stack[t]) = AfterLock(c) /\ marg[t] = reap_mtx
  <2>1. /\ Row(pt[t], cx[t], ut_no_preempt_count[t], "mtx_locked", Tail(stack[t])) /\ stack[t] # <<>>
        /\ Running(l, t)
    BY AtPoint DEF MtxLocked
  <2>2. /\ pt[t] = "mtx_locked" /\ c \in Lockers /\ Locked(c) = "mtx_locked"
        /\ ut_no_preempt_count[t] = Base(c) + 1 /\ Tail(stack[t]) = AfterLock(c)
    BY <2>1, RowsOfLocks
  <2>3. c # "exit"
    BY <2>2 DEF Locked
  <2>4. marg[t] = reap_mtx
    BY <2>2 DEF Situation, LifeInvAt, Private, LockArgs
  <2> QED BY <2>1, <2>2, <2>3, <2>4
<1>2. /\ Private(t, "mtx_locked", c) /\ LifeTypeOK /\ ut_no_preempt_count[t] \in Nat /\ c \in Contexts
  BY <1>1 DEF Situation, LifeInvAt, LifeTypeOK, SchedTypes
<1>3. /\ stack' \in [Threads -> Seq(LifeNames)] /\ stack'[t] = AfterLock(c)
      /\ \A u \in Threads \ {t} : stack'[u] = stack[u]
  <2>1. Continue(t, <<>>)
    BY <1>1, <1>2 DEF MtxLocked
  <2> QED BY <1>1, <1>2, <2>1, LifeContinue
<1>4. /\ ut_no_preempt_count' \in [Threads -> Nat] /\ ut_no_preempt_count'[t] = Base(c)
      /\ \A u \in Threads \ {t} : ut_no_preempt_count'[u] = ut_no_preempt_count[u]
  <2>1. NopreemptOff(t)
    BY <1>1, <1>2 DEF MtxLocked
  <2>2. Base(c) \in Nat
    BY <1>2, BaseNat
  <2> QED BY <1>1, <1>2, <2>1, <2>2 DEF NopreemptOff, LifeTypeOK, SchedTypes
<1>5. /\ crit' \in [Threads -> SUBSET Mutexes] /\ crit'[t] = {reap_mtx}
      /\ \A u \in Threads \ {t} : crit'[u] = crit[u]
  <2>1. marg[t] = reap_mtx /\ (crit[t] = {} \/ crit[t] = {reap_mtx})
    BY <1>1, <1>2 DEF Private, LockArgs
  <2> QED BY <1>1, <1>2, <2>1, LifeObjects DEF MtxLocked, LifeTypeOK
<1>6. /\ marg' \in [Threads -> Mutexes \cup {NoObj}]
      /\ \A u \in Threads \ {t} : marg'[u] = marg[u]
  BY <1>1, <1>2 DEF MtxLocked, LifeTypeOK
<1>7. UNCHANGED <<curthr, lwp, ut_state, ut_prio, runq, tq_size, runq_mtx, waitq, pmut, swarg, wakee,
                  sparg, newthr, halted, m_owner, carg, ut_detached, reap_queue, tgt, claimed>>
  BY <1>1, <1>2 DEF MtxLocked, cpuVars, thrVars, runqVars, waitVars, argVars, mtxVars, lifeVars, SyncRest
<1>8. LifeTypeOK'
  BY <1>1, <1>2, <1>3, <1>4, <1>5, <1>6, <1>7 DEF LifeTypeOK, SchedTypes, LifeNames
<1>9. Local(t)
  <2>1. ut_state[t] \notin {"UT_NO_STATE", "UT_TRANSITION"}
    BY <1>1, OneRuns
  <2> QED BY <1>1, <1>2, <1>3, <1>4, <1>5, <1>6, <1>7, <2>1 DEF Local, Kept, runqVars
<1>10. Private(t, LockPoint(c), LockContext(c))'
  <2>1. Is(LockPoint(c), LockContext(c), ut_no_preempt_count[t], stack[t])'
    <3>1. Is(LockPoint(c), LockContext(c), Base(c), AfterLock(c))
      BY <1>1, LockReturns
    <3> QED BY <1>3, <1>4, <3>1
  <2>2. ModeOf(LockPoint(c), LockContext(c), OnLwp(t), ut_state[t])'
    <3>1. ut_state[t] = StateOn(pt[t], cx[t])
      BY <1>1, OneRuns
    <3>2. ut_state'[t] = StateOn(LockPoint(c), LockContext(c))
      BY <1>1, <1>2, <1>7, <3>1, LockStates
    <3> QED BY <1>1, <1>7, <3>2, StaysOn, LockStates
  <2>3. SwitchArgs(t, LockPoint(c))' /\ LockArgs(t, LockPoint(c), LockContext(c))'
    BY <1>1, <1>2, <1>4, <1>5, <1>6, <1>7 DEF Private, SwitchArgs, LockArgs, InSection, Settling,
                                              CondWaits, Sections, ReaperCode, Unlocks, Preemptible,
                                              Buriers, LockPoint, LockContext, Lockers, Buriers
  <2>4. CallArgs(t, LockPoint(c), LockContext(c))' /\ Roles(t, LockPoint(c), LockContext(c))'
    BY <1>1, <1>2, <1>4, <1>5, <1>6, <1>7 DEF Private, CallArgs, Roles, Allocates, WakePoints, Has,
                                              Frees, Sections, Unlocks, JoinCode, Buriers, Preemptible,
                                              Yields, LockPoint, LockContext, Lockers, Buriers
  <2> QED BY <2>1, <2>2, <2>3, <2>4 DEF Private
<1>11. PICK pq \in [Threads -> Points], cd \in [Threads -> Contexts] :
          Advance(pt, cx, pq, cd, l, t) /\ pq[t] = LockPoint(c) /\ cd[t] = LockContext(c)
  <2>1. LockPoint(c) \in Points /\ LockContext(c) \in Contexts
    BY <1>1, <1>2, LockReturns
  <2>2. CanAdvance(pt, cx, l, t)
    BY <1>1, <1>9 DEF CanAdvance
  <2>3. MayReach(pt, cx, l, t, LockPoint(c), LockContext(c))
    BY <2>1, <2>2, AdvanceTo
  <2> QED BY <2>3 DEF MayReach
<1>12. Private(t, pq[t], cd[t])'
  BY <1>10, <1>11
<1>13. NewRight(pq)'
  <2>1. newthr' = newthr /\ {pt[t], pq[t]} \cap {"alloc_claim", "startonrunq"} = {}
    BY <1>1, <1>2, <1>4, <1>5, <1>6, <1>7, <1>11
  <2> QED BY <1>1, <1>11, <2>1, LocalNew DEF Advance
<1>14. PmutsRight(pq, cd)'
  <2>1. \A o \in Objs : Locks(t, pq[t], cd[t], o)' <=> Locks(t, pt[t], cx[t], o)
    BY <1>1, <1>2, <1>4, <1>5, <1>6, <1>7, <1>11 DEF Locks, Frees, Sections, Unlocks, Buriers,
                                                     LockPoint, LockContext, Lockers, Buriers
  <2> QED BY <1>11, <1>7, <2>1, KeepsPmuts
<1>15. MutexRight(pq, cd)'
  <2>1. InSection(pq[t], cd[t]) /\ pq[t] \notin {"mtx_locked", "mtx_switch"}
    BY <1>1, <1>2, <1>4, <1>5, <1>6, <1>7, <1>11 DEF InSection, ReaperCode, LockPoint, LockContext, Lockers, Buriers
  <2> QED BY <1>1, <1>11, <1>7, <2>1, MutexKept
<1>16. Custody(pq, cd)'
  <2>1. /\ Has(pq[t], cd[t]) => Has(pt[t], cx[t]) /\ tgt'[t] = tgt[t]
        /\ Frees(pq[t], cd[t]) => Frees(pt[t], cx[t]) /\ tgt'[t] = tgt[t]
        /\ Passed(pt[t], cx[t]) => Passed(pq[t], cd[t])
    BY <1>1, <1>2, <1>4, <1>5, <1>6, <1>7, <1>11 DEF Has, Frees, Passed, JoinCode, Sections, Unlocks,
                                                     Buriers, LockPoint, LockContext, Lockers, Buriers
  <2> QED BY <1>11, <1>7, <2>1, KeepsCustody
<1>17. Targets(pq, cd)'
  <2>1. /\ Joins(pq[t], cd[t]) => Joins(pt[t], cx[t]) /\ tgt'[t] = tgt[t]
        /\ HasDead(pq[t], cd[t]) => HasDead(pt[t], cx[t]) /\ tgt'[t] = tgt[t]
        /\ pq[t] # "detach_check"
    BY <1>1, <1>2, <1>4, <1>5, <1>6, <1>7, <1>11 DEF Joins, HasDead, Has, JoinCode, Buriers, LockPoint,
                                                     LockContext, Lockers, Buriers
  <2>2. HasDead(pt[t], cx[t]) => tgt[t] \in Threads /\ pt[tgt[t]] = "dead"
    BY DEF Situation, LifeInvAt, LifeTypeOK, Targets, HasDead, Private, CallArgs
  <2> QED BY <1>11, <1>7, <2>1, <2>2, KeepsTargets
<1>18. CaredFor(pq, cd)'
  <2>1. /\ Has(pt[t], cx[t]) => Has(pq[t], cd[t]) /\ tgt'[t] = tgt[t]
        /\ (cx[t] = "exit" => pt[t] = "exit_check") => (cd[t] = "exit" => pq[t] = "exit_check")
    BY <1>1, <1>2, <1>4, <1>5, <1>6, <1>7, <1>11 DEF Has, JoinCode, Buriers, Preemptible, LockPoint,
                                                     LockContext, Lockers, Buriers
  <2> QED BY <1>11, <1>7, <2>1, KeepsCare
<1>19. JoinsRight(pq, cd)'
  <2>1. /\ Gone(pq[t], cd[t]) <=> Gone(pt[t], cx[t])
        /\ pq[t] \notin {"join_switch", "join_woken"}
    BY <1>1, <1>2, <1>4, <1>5, <1>6, <1>7, <1>11 DEF Gone, Preemptible, Buriers, LockPoint,
                                                     LockContext, Lockers, Buriers
  <2> QED BY <1>11, <1>7, <2>1, KeepsJoins
<1>20. ReaperRight(pq, cd)'
  <2>1. /\ pt[t] = "reaper_scan" => pq[t] = "reaper_scan"
        /\ pt[t] = "cond_signal" => pq[t] = "cond_signal"
        /\ Settling(pq[t], cd[t]) => Settling(pt[t], cx[t]) \/ reap_queue = <<>>
    BY <1>1, <1>2, <1>4, <1>5, <1>6, <1>7, <1>11 DEF Settling, Unlocks, Preemptible, Buriers,
                                                     LockPoint, LockContext, Lockers, Buriers
  <2> QED BY <1>11, <1>7, <2>1, KeepsReaper
<1> QED BY <1>7, <1>8, <1>11, <1>12, <1>13, <1>14, <1>15, <1>16, <1>17, <1>18, <1>19, <1>20, AdvanceEnds DEF Rights

LEMMA LifeMtxLockedZombie ==
    ASSUME NEW pt, NEW cx, Situation(pt, cx), NEW l \in LWPs, NEW t \in Threads, halted = "none",
           MtxLockedZombie(l, t)
    PROVE  LifeInv'
<1> DEFINE c == cx[t]
<1>1. /\ Running(l, t) /\ stack[t] # <<>> /\ pt[t] = "mtx_locked" /\ c \in Lockers /\ c = "exit"
      /\ ut_no_preempt_count[t] = Base(c) + 1 /\ Tail(stack[t]) = AfterLock(c) /\ marg[t] = reap_mtx
  <2>1. /\ Row(pt[t], cx[t], ut_no_preempt_count[t], "mtx_locked_zombie", Tail(stack[t])) /\ stack[t] # <<>>
        /\ Running(l, t)
    BY AtPoint DEF MtxLockedZombie
  <2>2. /\ pt[t] = "mtx_locked" /\ c \in Lockers /\ Locked(c) = "mtx_locked_zombie"
        /\ ut_no_preempt_count[t] = Base(c) + 1 /\ Tail(stack[t]) = AfterLock(c)
    BY <2>1, RowsOfLocks
  <2>3. c = "exit"
    BY <2>2 DEF Locked
  <2>4. marg[t] = reap_mtx
    BY <2>2 DEF Situation, LifeInvAt, Private, LockArgs
  <2> QED BY <2>1, <2>2, <2>3, <2>4
<1>2. /\ Private(t, "mtx_locked", c) /\ LifeTypeOK /\ ut_no_preempt_count[t] \in Nat /\ c \in Contexts
  BY <1>1 DEF Situation, LifeInvAt, LifeTypeOK, SchedTypes
<1>3. /\ stack' \in [Threads -> Seq(LifeNames)] /\ stack'[t] = AfterLock(c)
      /\ \A u \in Threads \ {t} : stack'[u] = stack[u]
  <2>1. Continue(t, <<>>)
    BY <1>1, <1>2 DEF MtxLockedZombie
  <2> QED BY <1>1, <1>2, <2>1, LifeContinue
<1>4. /\ ut_no_preempt_count' \in [Threads -> Nat] /\ ut_no_preempt_count'[t] = Base(c)
      /\ \A u \in Threads \ {t} : ut_no_preempt_count'[u] = ut_no_preempt_count[u]
  <2>1. NopreemptOff(t)
    BY <1>1, <1>2 DEF MtxLockedZombie
  <2>2. Base(c) \in Nat
    BY <1>2, BaseNat
  <2> QED BY <1>1, <1>2, <2>1, <2>2 DEF NopreemptOff, LifeTypeOK, SchedTypes
<1>5. /\ ut_state' \in [Threads -> UtStates] /\ ut_state'[t] = "UT_ZOMBIE"
      /\ \A u \in Threads \ {t} : ut_state'[u] = ut_state[u]
  BY <1>1, <1>2 DEF MtxLockedZombie, LifeTypeOK, SchedTypes, UtStates
<1>6. /\ crit' \in [Threads -> SUBSET Mutexes] /\ crit'[t] = {reap_mtx}
      /\ \A u \in Threads \ {t} : crit'[u] = crit[u]
  <2>1. marg[t] = reap_mtx /\ (crit[t] = {} \/ crit[t] = {reap_mtx})
    BY <1>1, <1>2 DEF Private, LockArgs
  <2> QED BY <1>1, <1>2, <2>1, LifeObjects DEF MtxLockedZombie, LifeTypeOK
<1>7. /\ marg' \in [Threads -> Mutexes \cup {NoObj}]
      /\ \A u \in Threads \ {t} : marg'[u] = marg[u]
  BY <1>1, <1>2 DEF MtxLockedZombie, LifeTypeOK
<1>8. UNCHANGED <<curthr, lwp, ut_prio, runq, tq_size, runq_mtx, waitq, pmut, swarg, wakee, sparg,
                  newthr, halted, m_owner, carg, ut_detached, reap_queue, tgt, claimed>>
  BY <1>1, <1>2 DEF MtxLockedZombie, cpuVars, thrVars, runqVars, waitVars, argVars, mtxVars, lifeVars,
                    SyncRest
<1>9. LifeTypeOK'
  BY <1>1, <1>2, <1>3, <1>4, <1>5, <1>6, <1>7, <1>8 DEF LifeTypeOK, SchedTypes, LifeNames
<1>10. Local(t)
  BY <1>1, <1>2, <1>3, <1>4, <1>5, <1>6, <1>7, <1>8 DEF Local, Kept, runqVars
<1>11. Private(t, LockPoint(c), LockContext(c))'
  <2>1. Is(LockPoint(c), LockContext(c), ut_no_preempt_count[t], stack[t])'
    <3>1. Is(LockPoint(c), LockContext(c), Base(c), AfterLock(c))
      BY <1>1, LockReturns
    <3> QED BY <1>3, <1>4, <3>1
  <2>2. ModeOf(LockPoint(c), LockContext(c), OnLwp(t), ut_state[t])'
    <3>1. ut_state'[t] = StateOn(LockPoint(c), LockContext(c))
      BY <1>1, <1>2, <1>4, <1>5, <1>6, <1>7, <1>8, LockStates
    <3> QED BY <1>1, <1>8, <3>1, StaysOn, LockStates
  <2>3. SwitchArgs(t, LockPoint(c))' /\ LockArgs(t, LockPoint(c), LockContext(c))'
    BY <1>1, <1>2, <1>4, <1>5, <1>6, <1>7, <1>8 DEF Private, SwitchArgs, LockArgs, InSection, Settling,
                                                    CondWaits, Sections, ReaperCode, Unlocks,
                                                    Preemptible, Buriers, LockPoint, LockContext,
                                                    Lockers, Buriers
  <2>4. CallArgs(t, LockPoint(c), LockContext(c))' /\ Roles(t, LockPoint(c), LockContext(c))'
    BY <1>1, <1>2, <1>4, <1>5, <1>6, <1>7, <1>8 DEF Private, CallArgs, Roles, Allocates, WakePoints,
                                                    Has, Frees, Sections, Unlocks, JoinCode, Buriers,
                                                    Preemptible, Yields, LockPoint, LockContext,
                                                    Lockers, Buriers
  <2> QED BY <2>1, <2>2, <2>3, <2>4 DEF Private
<1>12. PICK pq \in [Threads -> Points], cd \in [Threads -> Contexts] :
          Advance(pt, cx, pq, cd, l, t) /\ pq[t] = LockPoint(c) /\ cd[t] = LockContext(c)
  <2>1. LockPoint(c) \in Points /\ LockContext(c) \in Contexts
    BY <1>1, <1>2, LockReturns
  <2>2. CanAdvance(pt, cx, l, t)
    BY <1>1, <1>10 DEF CanAdvance
  <2>3. MayReach(pt, cx, l, t, LockPoint(c), LockContext(c))
    BY <2>1, <2>2, AdvanceTo
  <2> QED BY <2>3 DEF MayReach
<1>13. Private(t, pq[t], cd[t])'
  BY <1>11, <1>12
<1>14. NewRight(pq)'
  <2>1. newthr' = newthr /\ {pt[t], pq[t]} \cap {"alloc_claim", "startonrunq"} = {}
    BY <1>1, <1>2, <1>4, <1>5, <1>6, <1>7, <1>8, <1>12
  <2> QED BY <1>1, <1>12, <2>1, LocalNew DEF Advance
<1>15. PmutsRight(pq, cd)'
  <2>1. \A o \in Objs : Locks(t, pq[t], cd[t], o)' <=> Locks(t, pt[t], cx[t], o)
    BY <1>1, <1>2, <1>4, <1>5, <1>6, <1>7, <1>8, <1>12 DEF Locks, Frees, Sections, Unlocks, Buriers,
                                                           LockPoint, LockContext, Lockers, Buriers
  <2> QED BY <1>12, <1>8, <2>1, KeepsPmuts
<1>16. MutexRight(pq, cd)'
  <2>1. InSection(pq[t], cd[t]) /\ pq[t] \notin {"mtx_locked", "mtx_switch"}
    BY <1>1, <1>2, <1>4, <1>5, <1>6, <1>7, <1>8, <1>12 DEF InSection, ReaperCode, LockPoint, LockContext, Lockers, Buriers
  <2> QED BY <1>1, <1>12, <1>8, <2>1, MutexKept
<1>17. Custody(pq, cd)'
  <2>1. /\ Has(pq[t], cd[t]) => Has(pt[t], cx[t]) /\ tgt'[t] = tgt[t]
        /\ Frees(pq[t], cd[t]) => Frees(pt[t], cx[t]) /\ tgt'[t] = tgt[t]
        /\ Passed(pt[t], cx[t]) => Passed(pq[t], cd[t])
    BY <1>1, <1>2, <1>4, <1>5, <1>6, <1>7, <1>8, <1>12 DEF Has, Frees, Passed, JoinCode, Sections,
                                                           Unlocks, Buriers, LockPoint, LockContext,
                                                           Lockers, Buriers
  <2> QED BY <1>12, <1>8, <2>1, KeepsCustody
<1>18. Targets(pq, cd)'
  <2>1. /\ Joins(pq[t], cd[t]) => Joins(pt[t], cx[t]) /\ tgt'[t] = tgt[t]
        /\ HasDead(pq[t], cd[t]) => HasDead(pt[t], cx[t]) /\ tgt'[t] = tgt[t]
        /\ pq[t] # "detach_check"
    BY <1>1, <1>2, <1>4, <1>5, <1>6, <1>7, <1>8, <1>12 DEF Joins, HasDead, Has, JoinCode, Buriers,
                                                           LockPoint, LockContext, Lockers, Buriers
  <2>2. HasDead(pt[t], cx[t]) => tgt[t] \in Threads /\ pt[tgt[t]] = "dead"
    BY DEF Situation, LifeInvAt, LifeTypeOK, Targets, HasDead, Private, CallArgs
  <2> QED BY <1>12, <1>8, <2>1, <2>2, KeepsTargets
<1>19. CaredFor(pq, cd)'
  <2>1. /\ Has(pt[t], cx[t]) => Has(pq[t], cd[t]) /\ tgt'[t] = tgt[t]
        /\ (cx[t] = "exit" => pt[t] = "exit_check") => (cd[t] = "exit" => pq[t] = "exit_check")
    BY <1>1, <1>2, <1>4, <1>5, <1>6, <1>7, <1>8, <1>12 DEF Has, JoinCode, Buriers, Preemptible,
                                                           LockPoint, LockContext, Lockers, Buriers
  <2> QED BY <1>12, <1>8, <2>1, KeepsCare
<1>20. JoinsRight(pq, cd)'
  <2>1. /\ Gone(pq[t], cd[t]) <=> Gone(pt[t], cx[t])
        /\ pq[t] \notin {"join_switch", "join_woken"}
    BY <1>1, <1>2, <1>4, <1>5, <1>6, <1>7, <1>8, <1>12 DEF Gone, Preemptible, Buriers, LockPoint,
                                                           LockContext, Lockers, Buriers
  <2> QED BY <1>12, <1>8, <2>1, KeepsJoins
<1>21. ReaperRight(pq, cd)'
  <2>1. /\ pt[t] = "reaper_scan" => pq[t] = "reaper_scan"
        /\ pt[t] = "cond_signal" => pq[t] = "cond_signal"
        /\ Settling(pq[t], cd[t]) => Settling(pt[t], cx[t]) \/ reap_queue = <<>>
    BY <1>1, <1>2, <1>4, <1>5, <1>6, <1>7, <1>8, <1>12 DEF Settling, Unlocks, Preemptible, Buriers,
                                                           LockPoint, LockContext, Lockers, Buriers
  <2> QED BY <1>12, <1>8, <2>1, KeepsReaper
<1> QED BY <1>8, <1>9, <1>12, <1>13, <1>14, <1>15, <1>16, <1>17, <1>18, <1>19, <1>20, <1>21, AdvanceEnds DEF Rights

\* uthread_mtx_unlock.
LEMMA LifeMtxUnlockFree ==
    ASSUME NEW pt, NEW cx, Situation(pt, cx), NEW l \in LWPs, NEW t \in Threads, halted = "none",
           MtxUnlock(l, t), waitq[reap_mtx] = <<>>, UNCHANGED lifeVars
    PROVE  LifeInv'
<1> DEFINE c == cx[t]
<1>1. /\ Running(l, t) /\ stack[t] # <<>> /\ pt[t] = "mtx_unlock" /\ c \in Buriers \cup {"reaper_loop"}
      /\ ut_no_preempt_count[t] = Base(c) + 2 /\ Tail(stack[t]) = <<AfterUnlock(c)>> \o Below(c) /\ marg[t] = reap_mtx
  <2>1. /\ Row(pt[t], cx[t], ut_no_preempt_count[t], "mtx_unlock", Tail(stack[t])) /\ stack[t] # <<>>
        /\ Running(l, t)
    BY AtPoint DEF MtxUnlock
  <2>2. /\ pt[t] = "mtx_unlock" /\ c \in Buriers \cup {"reaper_loop"}
      /\ ut_no_preempt_count[t] = Base(c) + 2 /\ Tail(stack[t]) = <<AfterUnlock(c)>> \o Below(c)
    BY <2>1, RowsOfUnlocks
  <2>3. marg[t] = reap_mtx
    BY <2>2 DEF Situation, LifeInvAt, Private, LockArgs, CondWaits
  <2> QED BY <2>1, <2>2, <2>3
<1>2. /\ Private(t, "mtx_unlock", c) /\ LifeTypeOK /\ ut_no_preempt_count[t] \in Nat /\ c \in Contexts
  BY <1>1 DEF Situation, LifeInvAt, LifeTypeOK, SchedTypes
<1>3. /\ stack' \in [Threads -> Seq(LifeNames)] /\ stack'[t] = <<AfterUnlock(c)>> \o Below(c)
      /\ \A u \in Threads \ {t} : stack'[u] = stack[u]
  <2>1. Continue(t, <<>>)
    BY <1>1, <1>2 DEF MtxUnlock
  <2> QED BY <1>1, <1>2, <2>1, LifeContinue
<1>4. /\ ut_no_preempt_count' \in [Threads -> Nat] /\ ut_no_preempt_count'[t] = Base(c) + 1
      /\ \A u \in Threads \ {t} : ut_no_preempt_count'[u] = ut_no_preempt_count[u]
  <2>1. NopreemptOff(t)
    BY <1>1, <1>2 DEF MtxUnlock
  <2>2. Base(c) \in Nat
    BY <1>2, BaseNat
  <2> QED BY <1>1, <1>2, <2>1, <2>2 DEF NopreemptOff, LifeTypeOK, SchedTypes
<1>5. /\ m_owner' \in [Mutexes -> Threads \cup {NoThread}] /\ m_owner'[reap_mtx] = NoThread
  <2>1. marg[t] = reap_mtx
    BY <1>1, <1>2 DEF Private, LockArgs
  <2> QED BY <1>1, <1>2, <2>1, LifeObjects DEF MtxUnlock, LifeTypeOK
<1>6. /\ crit' \in [Threads -> SUBSET Mutexes] /\ crit'[t] = {}
      /\ \A u \in Threads \ {t} : crit'[u] = crit[u]
  <2>1. marg[t] = reap_mtx /\ (crit[t] = {} \/ crit[t] = {reap_mtx})
    BY <1>1, <1>2 DEF Private, LockArgs
  <2> QED BY <1>1, <1>2, <2>1, LifeObjects DEF MtxUnlock, LifeTypeOK
<1>7. /\ marg' \in [Threads -> Mutexes \cup {NoObj}] /\ (carg[t] = reap_cond => marg'[t] = reap_mtx)
      /\ \A u \in Threads \ {t} : marg'[u] = marg[u]
  BY <1>1, <1>2, LifeObjects DEF MtxUnlock, LifeTypeOK
<1>8. UNCHANGED <<curthr, lwp, ut_state, ut_prio, runq, tq_size, runq_mtx, waitq, pmut, swarg, wakee,
                  sparg, newthr, halted, carg, ut_detached, reap_queue, tgt, claimed>>
  BY <1>1, <1>2 DEF MtxUnlock, cpuVars, thrVars, runqVars, waitVars, argVars, mtxVars, lifeVars, SyncRest
<1>9. LifeTypeOK'
  BY <1>1, <1>2, <1>3, <1>4, <1>5, <1>6, <1>7, <1>8 DEF LifeTypeOK, SchedTypes, LifeNames
<1>10. Local(t)
  <2>1. ut_state[t] \notin {"UT_NO_STATE", "UT_TRANSITION"}
    BY <1>1, OneRuns
  <2> QED BY <1>1, <1>2, <1>3, <1>4, <1>5, <1>6, <1>7, <1>8, <2>1 DEF Local, Kept, runqVars
<1>11. Private(t, AfterUnlock(c), c)'
  <2>1. Is(AfterUnlock(c), c, ut_no_preempt_count[t], stack[t])'
    <3>1. Is(AfterUnlock(c), c, Base(c) + 1, <<AfterUnlock(c)>> \o Below(c))
      BY <1>1, UnlockReturns
    <3> QED BY <1>3, <1>4, <3>1
  <2>2. ModeOf(AfterUnlock(c), c, OnLwp(t), ut_state[t])'
    <3>1. ut_state[t] = StateOn(pt[t], cx[t])
      BY <1>1, OneRuns
    <3>2. ut_state'[t] = StateOn(AfterUnlock(c), c)
      BY <1>1, <1>2, <1>8, <3>1, UnlockStates
    <3> QED BY <1>1, <1>8, <3>2, StaysOn, UnlockStates
  <2>3. SwitchArgs(t, AfterUnlock(c))' /\ LockArgs(t, AfterUnlock(c), c)'
    BY <1>1, <1>2, <1>4, <1>5, <1>6, <1>7, <1>8 DEF Private, SwitchArgs, LockArgs, InSection, Settling,
                                                    CondWaits, Sections, ReaperCode, Unlocks,
                                                    Preemptible, Buriers, AfterUnlock
  <2>4. CallArgs(t, AfterUnlock(c), c)' /\ Roles(t, AfterUnlock(c), c)'
    BY <1>1, <1>2, <1>4, <1>5, <1>6, <1>7, <1>8 DEF Private, CallArgs, Roles, Allocates, WakePoints,
                                                    Has, Frees, Sections, Unlocks, JoinCode, Buriers,
                                                    Preemptible, Yields, AfterUnlock
  <2> QED BY <2>1, <2>2, <2>3, <2>4 DEF Private
<1>12. PICK pq \in [Threads -> Points], cd \in [Threads -> Contexts] :
          Advance(pt, cx, pq, cd, l, t) /\ pq[t] = AfterUnlock(c) /\ cd[t] = c
  <2>1. AfterUnlock(c) \in Points /\ c \in Contexts
    BY <1>1, <1>2, UnlockReturns
  <2>2. CanAdvance(pt, cx, l, t)
    BY <1>1, <1>10 DEF CanAdvance
  <2>3. MayReach(pt, cx, l, t, AfterUnlock(c), c)
    BY <2>1, <2>2, AdvanceTo
  <2> QED BY <2>3 DEF MayReach
<1>13. Private(t, pq[t], cd[t])'
  BY <1>11, <1>12
<1>14. NewRight(pq)'
  <2>1. newthr' = newthr /\ {pt[t], pq[t]} \cap {"alloc_claim", "startonrunq"} = {}
    BY <1>1, <1>2, <1>4, <1>5, <1>6, <1>7, <1>8, <1>12
  <2> QED BY <1>1, <1>12, <2>1, LocalNew DEF Advance
<1>15. PmutsRight(pq, cd)'
  <2>1. \A o \in Objs : Locks(t, pq[t], cd[t], o)' <=> Locks(t, pt[t], cx[t], o)
    BY <1>1, <1>2, <1>4, <1>5, <1>6, <1>7, <1>8, <1>12 DEF Locks, Frees, Sections, Unlocks, Buriers,
                                                           AfterUnlock
  <2> QED BY <1>12, <1>8, <2>1, KeepsPmuts
<1>16. MutexRight(pq, cd)'
  <2>1. /\ InSection(pt[t], cx[t]) /\ ~InSection(pq[t], cd[t])
        /\ pq[t] \notin {"mtx_locked", "mtx_switch"} /\ m_owner'[reap_mtx] = NoThread
    BY <1>1, <1>2, <1>4, <1>5, <1>6, <1>7, <1>8, <1>12 DEF InSection, Sections, ReaperCode, AfterUnlock, Buriers
  <2> QED BY <1>12, <2>1, MutexFreed
<1>17. Custody(pq, cd)'
  <2>1. /\ Has(pq[t], cd[t]) => Has(pt[t], cx[t]) /\ tgt'[t] = tgt[t]
        /\ Frees(pq[t], cd[t]) => Frees(pt[t], cx[t]) /\ tgt'[t] = tgt[t]
        /\ Passed(pt[t], cx[t]) => Passed(pq[t], cd[t])
    BY <1>1, <1>2, <1>4, <1>5, <1>6, <1>7, <1>8, <1>12 DEF Has, Frees, Passed, JoinCode, Sections,
                                                           Unlocks, Buriers, AfterUnlock
  <2> QED BY <1>12, <1>8, <2>1, KeepsCustody
<1>18. Targets(pq, cd)'
  <2>1. /\ Joins(pq[t], cd[t]) => Joins(pt[t], cx[t]) /\ tgt'[t] = tgt[t]
        /\ HasDead(pq[t], cd[t]) => HasDead(pt[t], cx[t]) /\ tgt'[t] = tgt[t]
        /\ pq[t] # "detach_check"
    BY <1>1, <1>2, <1>4, <1>5, <1>6, <1>7, <1>8, <1>12 DEF Joins, HasDead, Has, JoinCode, Buriers, AfterUnlock
  <2>2. HasDead(pt[t], cx[t]) => tgt[t] \in Threads /\ pt[tgt[t]] = "dead"
    BY DEF Situation, LifeInvAt, LifeTypeOK, Targets, HasDead, Private, CallArgs
  <2> QED BY <1>12, <1>8, <2>1, <2>2, KeepsTargets
<1>19. CaredFor(pq, cd)'
  <2>1. /\ Has(pt[t], cx[t]) => Has(pq[t], cd[t]) /\ tgt'[t] = tgt[t]
        /\ (cx[t] = "exit" => pt[t] = "exit_check") => (cd[t] = "exit" => pq[t] = "exit_check")
    BY <1>1, <1>2, <1>4, <1>5, <1>6, <1>7, <1>8, <1>12 DEF Has, JoinCode, Buriers, Preemptible, AfterUnlock
  <2> QED BY <1>12, <1>8, <2>1, KeepsCare
<1>20. JoinsRight(pq, cd)'
  <2>1. /\ Gone(pq[t], cd[t]) <=> Gone(pt[t], cx[t])
        /\ pq[t] \notin {"join_switch", "join_woken"}
    BY <1>1, <1>2, <1>4, <1>5, <1>6, <1>7, <1>8, <1>12 DEF Gone, Preemptible, Buriers, AfterUnlock
  <2> QED BY <1>12, <1>8, <2>1, KeepsJoins
<1>21. ReaperRight(pq, cd)'
  <2>1. /\ pt[t] = "reaper_scan" => pq[t] = "reaper_scan"
        /\ pt[t] = "cond_signal" => pq[t] = "cond_signal"
        /\ Settling(pq[t], cd[t]) => Settling(pt[t], cx[t]) \/ reap_queue = <<>>
    BY <1>1, <1>2, <1>4, <1>5, <1>6, <1>7, <1>8, <1>12 DEF Settling, Unlocks, Preemptible, Buriers,
                                                           AfterUnlock
  <2> QED BY <1>12, <1>8, <2>1, KeepsReaper
<1> QED BY <1>8, <1>9, <1>12, <1>13, <1>14, <1>15, <1>16, <1>17, <1>18, <1>19, <1>20, <1>21, AdvanceEnds DEF Rights

\* uthread_cond_wait and uthread_cond_signal.
LEMMA LifeCondWait ==
    ASSUME NEW pt, NEW cx, Situation(pt, cx), NEW l \in LWPs, NEW t \in Threads, halted = "none",
           CondWait(l, t), UNCHANGED lifeVars
    PROVE  LifeInv'
<1>1. /\ Running(l, t) /\ stack[t] # <<>> /\ pt[t] = "cond_wait" /\ cx[t] = "reaper_loop"
      /\ ut_no_preempt_count[t] = 2 /\ Tail(stack[t]) = <<"reaper_loop">> /\ carg[t] = reap_cond
  <2>1. /\ Row(pt[t], cx[t], ut_no_preempt_count[t], "cond_wait", Tail(stack[t])) /\ stack[t] # <<>>
        /\ Running(l, t)
    BY AtPoint DEF CondWait
  <2>2. /\ pt[t] = "cond_wait" /\ cx[t] = "reaper_loop"
      /\ ut_no_preempt_count[t] = 2 /\ Tail(stack[t]) = <<"reaper_loop">>
    BY <2>1, RowsOfCondWaits
  <2>3. carg[t] = reap_cond
    BY <2>2 DEF Situation, LifeInvAt, Private, LockArgs, CondWaits
  <2> QED BY <2>1, <2>2, <2>3
<1>2. /\ Private(t, "cond_wait", "reaper_loop") /\ LifeTypeOK /\ ut_no_preempt_count[t] \in Nat
  BY <1>1 DEF Situation, LifeInvAt, LifeTypeOK, SchedTypes
<1>3. /\ stack' \in [Threads -> Seq(LifeNames)] /\ stack'[t] # <<>>
      /\ Head(stack'[t]) = "mtx_unlock" /\ Tail(stack'[t]) = <<"cond_sleep">> \o <<"reaper_loop">>
      /\ \A u \in Threads \ {t} : stack'[u] = stack[u]
  <2>1. Continue(t, <<"mtx_unlock", "cond_sleep">>)
    BY <1>1, <1>2 DEF CondWait
  <2>2. "mtx_unlock" \in LifeNames /\ "cond_sleep" \in LifeNames
    BY <1>1, NamesKnown
  <2> QED BY <1>1, <1>2, <2>1, <2>2, LifeContinue
<1>4. /\ ut_no_preempt_count' \in [Threads -> Nat] /\ ut_no_preempt_count'[t] = 3
      /\ \A u \in Threads \ {t} : ut_no_preempt_count'[u] = ut_no_preempt_count[u]
  BY <1>1, <1>2 DEF CondWait, NopreemptOn, NopreemptOff, LifeTypeOK, SchedTypes, Base
<1>5. /\ pmut' \in [Objs -> LWPs \cup {NoLwp}] /\ pmut' = [pmut EXCEPT ![reap_cond] = l]
      /\ reap_cond \in Objs /\ pmut[reap_cond] = NoLwp
  <2>1. pmut' = [pmut EXCEPT ![reap_cond] = l] /\ pmut[reap_cond] = NoLwp
    BY <1>1, <1>2 DEF CondWait, Takes
  <2>2. reap_cond \in Objs
    BY <1>1, <1>2, LifeObjects DEF LifeTypeOK, Objs
  <2> QED BY <1>2, <2>1, <2>2 DEF LifeTypeOK, SchedTypes
<1>6. UNCHANGED <<curthr, lwp, ut_state, ut_prio, runq, tq_size, runq_mtx, waitq, swarg, wakee, sparg,
                  newthr, halted, m_owner, marg, carg, crit, ut_detached, reap_queue, tgt, claimed>>
  BY <1>1, <1>2 DEF CondWait, cpuVars, thrVars, runqVars, waitVars, argVars, mtxVars, lifeVars, SyncRest
<1>7. LifeTypeOK'
  BY <1>1, <1>2, <1>3, <1>4, <1>5, <1>6 DEF LifeTypeOK, SchedTypes, LifeNames
<1>8. Local(t)
  <2>1. ut_state[t] \notin {"UT_NO_STATE", "UT_TRANSITION"}
    BY <1>1, OneRuns
  <2> QED BY <1>1, <1>2, <1>3, <1>4, <1>5, <1>6, <2>1 DEF Local, Kept, runqVars
<1>9. Private(t, "mtx_unlock", "reaper_loop")'
  <2>1. Is("mtx_unlock", "reaper_loop", ut_no_preempt_count[t], stack[t])'
    <3>1. UnlockRow("mtx_unlock", "reaper_loop", 3, "mtx_unlock", <<"cond_sleep">> \o <<"reaper_loop">>)
      BY <1>1 DEF UnlockRow, Base, Below, AfterUnlock
    <3> QED BY <1>1, <1>3, <1>4, <3>1 DEF Is, Row
  <2>2. ModeOf("mtx_unlock", "reaper_loop", OnLwp(t), ut_state[t])'
    <3>1. ut_state[t] = StateOn(pt[t], cx[t])
      BY <1>1, OneRuns
    <3>2. ut_state'[t] = StateOn("mtx_unlock", "reaper_loop")
      BY <1>1, <1>2, <1>6, <3>1 DEF StateOn, Buriers, Lockers, Preemptible
    <3> QED BY <1>1, <1>6, <3>2, StaysOn
  <2>3. SwitchArgs(t, "mtx_unlock")' /\ LockArgs(t, "mtx_unlock", "reaper_loop")'
    BY <1>1, <1>2, <1>4, <1>5, <1>6 DEF Private, SwitchArgs, LockArgs, InSection, Settling, CondWaits,
                                        Sections, ReaperCode, Unlocks, Preemptible, Buriers
  <2>4. CallArgs(t, "mtx_unlock", "reaper_loop")' /\ Roles(t, "mtx_unlock", "reaper_loop")'
    BY <1>1, <1>2, <1>4, <1>5, <1>6 DEF Private, CallArgs, Roles, Allocates, WakePoints, Has, Frees,
                                        Sections, Unlocks, JoinCode, Buriers, Preemptible, Yields
  <2> QED BY <2>1, <2>2, <2>3, <2>4 DEF Private
<1>10. PICK pq \in [Threads -> Points], cd \in [Threads -> Contexts] :
          Advance(pt, cx, pq, cd, l, t) /\ pq[t] = "mtx_unlock" /\ cd[t] = "reaper_loop"
  <2>1. "mtx_unlock" \in Points /\ "reaper_loop" \in Contexts
    BY <1>1, <1>2 DEF Points, Yields, Sections, Unlocks, ReaperCode, CondWaits, ExitCode, JoinCode,
                      Locks, Frees, InSection, Buriers, Preemptible, Contexts, Lockers
  <2>2. CanAdvance(pt, cx, l, t)
    BY <1>1, <1>8 DEF CanAdvance
  <2>3. MayReach(pt, cx, l, t, "mtx_unlock", "reaper_loop")
    BY <2>1, <2>2, AdvanceTo
  <2> QED BY <2>3 DEF MayReach
<1>11. Private(t, pq[t], cd[t])'
  BY <1>9, <1>10
<1>12. NewRight(pq)'
  <2>1. newthr' = newthr /\ {pt[t], pq[t]} \cap {"alloc_claim", "startonrunq"} = {}
    BY <1>1, <1>2, <1>4, <1>5, <1>6, <1>10
  <2> QED BY <1>1, <1>10, <2>1, LocalNew DEF Advance
<1>13. PmutsRight(pq, cd)'
  <2>1. \A o \in Objs : Locks(t, pq[t], cd[t], o)' <=> Locks(t, pt[t], cx[t], o) \/ o = reap_cond
    BY <1>1, <1>2, <1>4, <1>5, <1>6, <1>10 DEF Locks, Frees, Sections, Unlocks, Buriers, Preemptible
  <2>2. reap_cond \in Objs /\ pmut' = [pmut EXCEPT ![reap_cond] = l]
    BY <1>1, <1>2, <1>4, <1>5, <1>6, <1>10
  <2> QED BY <1>10, <2>1, <2>2, LockTaken
<1>14. MutexRight(pq, cd)'
  <2>1. /\ InSection(pq[t], cd[t]) <=> InSection(pt[t], cx[t])
        /\ {pt[t], pq[t]} \cap {"mtx_locked", "mtx_switch"} = {}
    BY <1>1, <1>2, <1>4, <1>5, <1>6, <1>10 DEF InSection, Sections, ReaperCode, Buriers
  <2> QED BY <1>10, <1>6, <2>1, KeepsMutex
<1>15. Custody(pq, cd)'
  <2>1. /\ Has(pq[t], cd[t]) => Has(pt[t], cx[t]) /\ tgt'[t] = tgt[t]
        /\ Frees(pq[t], cd[t]) => Frees(pt[t], cx[t]) /\ tgt'[t] = tgt[t]
        /\ Passed(pt[t], cx[t]) => Passed(pq[t], cd[t])
    BY <1>1, <1>2, <1>4, <1>5, <1>6, <1>10 DEF Has, Frees, Passed, JoinCode, Sections, Unlocks, Buriers
  <2> QED BY <1>10, <1>6, <2>1, KeepsCustody
<1>16. Targets(pq, cd)'
  <2>1. /\ Joins(pq[t], cd[t]) => Joins(pt[t], cx[t]) /\ tgt'[t] = tgt[t]
        /\ HasDead(pq[t], cd[t]) => HasDead(pt[t], cx[t]) /\ tgt'[t] = tgt[t]
        /\ pq[t] # "detach_check"
    BY <1>1, <1>2, <1>4, <1>5, <1>6, <1>10 DEF Joins, HasDead, Has, JoinCode, Buriers
  <2>2. HasDead(pt[t], cx[t]) => tgt[t] \in Threads /\ pt[tgt[t]] = "dead"
    BY DEF Situation, LifeInvAt, LifeTypeOK, Targets, HasDead, Private, CallArgs
  <2> QED BY <1>10, <1>6, <2>1, <2>2, KeepsTargets
<1>17. CaredFor(pq, cd)'
  <2>1. /\ Has(pt[t], cx[t]) => Has(pq[t], cd[t]) /\ tgt'[t] = tgt[t]
        /\ (cx[t] = "exit" => pt[t] = "exit_check") => (cd[t] = "exit" => pq[t] = "exit_check")
    BY <1>1, <1>2, <1>4, <1>5, <1>6, <1>10 DEF Has, JoinCode, Buriers, Preemptible
  <2> QED BY <1>10, <1>6, <2>1, KeepsCare
<1>18. JoinsRight(pq, cd)'
  <2>1. /\ Gone(pq[t], cd[t]) <=> Gone(pt[t], cx[t])
        /\ pq[t] \notin {"join_switch", "join_woken"}
    BY <1>1, <1>2, <1>4, <1>5, <1>6, <1>10 DEF Gone, Preemptible, Buriers
  <2> QED BY <1>10, <1>6, <2>1, KeepsJoins
<1>19. ReaperRight(pq, cd)'
  <2>1. /\ pt[t] = "reaper_scan" => pq[t] = "reaper_scan"
        /\ pt[t] = "cond_signal" => pq[t] = "cond_signal"
        /\ Settling(pq[t], cd[t]) => Settling(pt[t], cx[t]) \/ reap_queue = <<>>
    BY <1>1, <1>2, <1>4, <1>5, <1>6, <1>10 DEF Settling, Unlocks, Preemptible, Buriers
  <2> QED BY <1>10, <1>6, <2>1, KeepsReaper
<1> QED BY <1>6, <1>7, <1>10, <1>11, <1>12, <1>13, <1>14, <1>15, <1>16, <1>17, <1>18, <1>19, AdvanceEnds DEF Rights

LEMMA LifeCondSignalNone ==
    ASSUME NEW pt, NEW cx, Situation(pt, cx), NEW l \in LWPs, NEW t \in Threads, halted = "none",
           CondSignal(l, t), waitq[reap_cond] = <<>>, UNCHANGED lifeVars
    PROVE  LifeInv'
<1> DEFINE c == cx[t]
<1>1. /\ Running(l, t) /\ stack[t] # <<>> /\ pt[t] = "cond_signal" /\ c \in Buriers
      /\ ut_no_preempt_count[t] = Base(c) + 2 /\ Tail(stack[t]) = <<"reap_unlock">> \o Below(c) /\ carg[t] = reap_cond
  <2>1. /\ Row(pt[t], cx[t], ut_no_preempt_count[t], "cond_signal", Tail(stack[t])) /\ stack[t] # <<>>
        /\ Running(l, t)
    BY AtPoint DEF CondSignal
  <2>2. /\ pt[t] = "cond_signal" /\ c \in Buriers
      /\ ut_no_preempt_count[t] = Base(c) + 2 /\ Tail(stack[t]) = <<"reap_unlock">> \o Below(c)
    BY <2>1, RowsOfSignals
  <2>3. carg[t] = reap_cond
    BY <2>2 DEF Situation, LifeInvAt, Private, LockArgs, CondWaits
  <2> QED BY <2>1, <2>2, <2>3
<1>2. /\ Private(t, "cond_signal", c) /\ LifeTypeOK /\ ut_no_preempt_count[t] \in Nat /\ c \in Contexts
  BY <1>1 DEF Situation, LifeInvAt, LifeTypeOK, SchedTypes
<1>3. /\ stack' \in [Threads -> Seq(LifeNames)] /\ stack'[t] = <<"reap_unlock">> \o Below(c)
      /\ \A u \in Threads \ {t} : stack'[u] = stack[u]
  <2>1. Continue(t, <<>>)
    BY <1>1, <1>2 DEF CondSignal, WakeOldest
  <2> QED BY <1>1, <1>2, <2>1, LifeContinue
<1>4. /\ ut_no_preempt_count' \in [Threads -> Nat] /\ ut_no_preempt_count'[t] = Base(c) + 1
      /\ \A u \in Threads \ {t} : ut_no_preempt_count'[u] = ut_no_preempt_count[u]
  <2>1. NopreemptOff(t)
    BY <1>1, <1>2 DEF CondSignal, WakeOldest
  <2>2. Base(c) \in Nat
    BY <1>2, BaseNat
  <2> QED BY <1>1, <1>2, <2>1, <2>2 DEF NopreemptOff, LifeTypeOK, SchedTypes
<1>5. /\ carg' \in [Threads -> Conds \cup {NoObj}] /\ \A u \in Threads \ {t} : carg'[u] = carg[u]
  BY <1>1, <1>2 DEF CondSignal, WakeOldest, LifeTypeOK
<1>6. UNCHANGED <<curthr, lwp, ut_state, ut_prio, runq, tq_size, runq_mtx, waitq, pmut, swarg, wakee,
                  sparg, newthr, halted, m_owner, marg, crit, ut_detached, reap_queue, tgt, claimed>>
  BY <1>1, <1>2 DEF CondSignal, WakeOldest, cpuVars, thrVars, runqVars, waitVars, argVars, mtxVars,
                    lifeVars, SyncRest
<1>7. LifeTypeOK'
  BY <1>1, <1>2, <1>3, <1>4, <1>5, <1>6 DEF LifeTypeOK, SchedTypes, LifeNames
<1>8. Local(t)
  <2>1. ut_state[t] \notin {"UT_NO_STATE", "UT_TRANSITION"}
    BY <1>1, OneRuns
  <2> QED BY <1>1, <1>2, <1>3, <1>4, <1>5, <1>6, <2>1 DEF Local, Kept, runqVars
<1>9. Private(t, "reap_unlock", c)'
  <2>1. Is("reap_unlock", c, ut_no_preempt_count[t], stack[t])'
    <3>1. BurialRow("reap_unlock", c, Base(c) + 1, "reap_unlock", Below(c))
      BY <1>1 DEF BurialRow
    <3>2. stack'[t] # <<>> /\ Head(stack'[t]) = "reap_unlock" /\ Tail(stack'[t]) = Below(c)
      BY <1>2, <1>3, NamesKnown, BelowType, AfterCons
    <3> QED BY <1>4, <3>1, <3>2 DEF Is, Row
  <2>2. ModeOf("reap_unlock", c, OnLwp(t), ut_state[t])'
    <3>1. ut_state[t] = StateOn(pt[t], cx[t])
      BY <1>1, OneRuns
    <3>2. ut_state'[t] = StateOn("reap_unlock", c)
      BY <1>1, <1>2, <1>6, <3>1 DEF StateOn, Buriers, Lockers, Preemptible
    <3> QED BY <1>1, <1>6, <3>2, StaysOn
  <2>3. SwitchArgs(t, "reap_unlock")' /\ LockArgs(t, "reap_unlock", c)'
    BY <1>1, <1>2, <1>4, <1>5, <1>6 DEF Private, SwitchArgs, LockArgs, InSection, Settling, CondWaits,
                                        Sections, ReaperCode, Unlocks, Preemptible, Buriers
  <2>4. CallArgs(t, "reap_unlock", c)' /\ Roles(t, "reap_unlock", c)'
    BY <1>1, <1>2, <1>4, <1>5, <1>6 DEF Private, CallArgs, Roles, Allocates, WakePoints, Has, Frees,
                                        Sections, Unlocks, JoinCode, Buriers, Preemptible, Yields
  <2> QED BY <2>1, <2>2, <2>3, <2>4 DEF Private
<1>10. PICK pq \in [Threads -> Points], cd \in [Threads -> Contexts] :
          Advance(pt, cx, pq, cd, l, t) /\ pq[t] = "reap_unlock" /\ cd[t] = c
  <2>1. "reap_unlock" \in Points /\ c \in Contexts
    BY <1>1, <1>2 DEF Points, Yields, Sections, Unlocks, ReaperCode, CondWaits, ExitCode, JoinCode,
                      Locks, Frees, InSection, Buriers, Preemptible, Contexts, Lockers
  <2>2. CanAdvance(pt, cx, l, t)
    BY <1>1, <1>8 DEF CanAdvance
  <2>3. MayReach(pt, cx, l, t, "reap_unlock", c)
    BY <2>1, <2>2, AdvanceTo
  <2> QED BY <2>3 DEF MayReach
<1>11. Private(t, pq[t], cd[t])'
  BY <1>9, <1>10
<1>12. NewRight(pq)'
  <2>1. newthr' = newthr /\ {pt[t], pq[t]} \cap {"alloc_claim", "startonrunq"} = {}
    BY <1>1, <1>2, <1>4, <1>5, <1>6, <1>10
  <2> QED BY <1>1, <1>10, <2>1, LocalNew DEF Advance
<1>13. PmutsRight(pq, cd)'
  <2>1. \A o \in Objs : Locks(t, pq[t], cd[t], o)' <=> Locks(t, pt[t], cx[t], o)
    BY <1>1, <1>2, <1>4, <1>5, <1>6, <1>10 DEF Locks, Frees, Sections, Unlocks, Buriers
  <2> QED BY <1>10, <1>6, <2>1, KeepsPmuts
<1>14. MutexRight(pq, cd)'
  <2>1. /\ InSection(pq[t], cd[t]) <=> InSection(pt[t], cx[t])
        /\ {pt[t], pq[t]} \cap {"mtx_locked", "mtx_switch"} = {}
    BY <1>1, <1>2, <1>4, <1>5, <1>6, <1>10 DEF InSection, Sections, ReaperCode, Buriers
  <2> QED BY <1>10, <1>6, <2>1, KeepsMutex
<1>15. Custody(pq, cd)'
  <2>1. /\ Has(pq[t], cd[t]) => Has(pt[t], cx[t]) /\ tgt'[t] = tgt[t]
        /\ Frees(pq[t], cd[t]) => Frees(pt[t], cx[t]) /\ tgt'[t] = tgt[t]
        /\ Passed(pt[t], cx[t]) => Passed(pq[t], cd[t])
    BY <1>1, <1>2, <1>4, <1>5, <1>6, <1>10 DEF Has, Frees, Passed, JoinCode, Sections, Unlocks, Buriers
  <2> QED BY <1>10, <1>6, <2>1, KeepsCustody
<1>16. Targets(pq, cd)'
  <2>1. /\ Joins(pq[t], cd[t]) => Joins(pt[t], cx[t]) /\ tgt'[t] = tgt[t]
        /\ HasDead(pq[t], cd[t]) => HasDead(pt[t], cx[t]) /\ tgt'[t] = tgt[t]
        /\ pq[t] # "detach_check"
    BY <1>1, <1>2, <1>4, <1>5, <1>6, <1>10 DEF Joins, HasDead, Has, JoinCode, Buriers
  <2>2. HasDead(pt[t], cx[t]) => tgt[t] \in Threads /\ pt[tgt[t]] = "dead"
    BY DEF Situation, LifeInvAt, LifeTypeOK, Targets, HasDead, Private, CallArgs
  <2> QED BY <1>10, <1>6, <2>1, <2>2, KeepsTargets
<1>17. CaredFor(pq, cd)'
  <2>1. /\ Has(pt[t], cx[t]) => Has(pq[t], cd[t]) /\ tgt'[t] = tgt[t]
        /\ (cx[t] = "exit" => pt[t] = "exit_check") => (cd[t] = "exit" => pq[t] = "exit_check")
    BY <1>1, <1>2, <1>4, <1>5, <1>6, <1>10 DEF Has, JoinCode, Buriers, Preemptible
  <2> QED BY <1>10, <1>6, <2>1, KeepsCare
<1>18. JoinsRight(pq, cd)'
  <2>1. /\ Gone(pq[t], cd[t]) <=> Gone(pt[t], cx[t])
        /\ pq[t] \notin {"join_switch", "join_woken"}
    BY <1>1, <1>2, <1>4, <1>5, <1>6, <1>10 DEF Gone, Preemptible, Buriers
  <2> QED BY <1>10, <1>6, <2>1, KeepsJoins
<1>19. ReaperRight(pq, cd)'
  <2>1. /\ ReaperRight(pt, cx) /\ reap_queue' = reap_queue /\ halted' = halted
        /\ \A u \in Threads \ {t} : pq[u] = pt[u] /\ cd[u] = cx[u]
        /\ pt[t] # "reaper_scan" /\ ut_state' = ut_state
    BY <1>1, <1>10, <1>6 DEF Advance, Situation, LifeInvAt
  <2>2. \A u : ~InQueue(reap_cond, u)'
    BY <1>6 DEF InQueue
  <2>3. ~Settling(pq[t], cd[t]) /\ (pq[Reaper] = "reaper_scan" <=> pt[Reaper] = "reaper_scan")
    BY <1>1, <1>2, <1>4, <1>5, <1>6, <1>10, <2>1, LifeObjects DEF Settling, Unlocks, Buriers
  <2> QED BY <2>1, <2>2, <2>3 DEF ReaperRight
<1> QED BY <1>6, <1>7, <1>10, <1>11, <1>12, <1>13, <1>14, <1>15, <1>16, <1>17, <1>18, <1>19, AdvanceEnds DEF Rights

-----------------------------------------------------------------------------
(* The steps of an exit.                                                   *)

\* uthread_exit.
LEMMA LifeExitDetached ==
    ASSUME NEW pt, NEW cx, Situation(pt, cx), NEW l \in LWPs, NEW t \in Threads, halted = "none",
           ExitCheck(l, t), ut_detached[t]
    PROVE  LifeInv'
<1>1. /\ Running(l, t) /\ stack[t] # <<>> /\ pt[t] = "exit_check" /\ cx[t] = "exit"
      /\ ut_no_preempt_count[t] = 1 /\ Tail(stack[t]) = <<>> /\ tgt[t] = t
  <2>1. /\ Row(pt[t], cx[t], ut_no_preempt_count[t], "exit_check", Tail(stack[t])) /\ stack[t] # <<>>
        /\ Running(l, t)
    BY AtPoint DEF ExitCheck
  <2>2. /\ pt[t] = "exit_check" /\ cx[t] = "exit" /\ ut_no_preempt_count[t] = 1 /\ Tail(stack[t]) = <<>>
    BY <2>1, RowsOfExits
  <2>3. tgt[t] = t
    BY <2>2 DEF Situation, LifeInvAt, Private, CallArgs
  <2> QED BY <2>1, <2>2, <2>3
<1>2. /\ Private(t, "exit_check", "exit") /\ LifeTypeOK /\ ut_no_preempt_count[t] \in Nat
  BY <1>1 DEF Situation, LifeInvAt, LifeTypeOK, SchedTypes
<1>3. /\ stack' \in [Threads -> Seq(LifeNames)] /\ stack'[t] # <<>>
      /\ Head(stack'[t]) = "mtx_lock" /\ Tail(stack'[t]) = <<"reap_pmut">> \o <<>>
      /\ \A u \in Threads \ {t} : stack'[u] = stack[u]
  <2>1. Continue(t, <<"mtx_lock", "reap_pmut">>)
    BY ConcatLiterals DEF ExitCheck, CallMtxLock
  <2>2. "mtx_lock" \in LifeNames /\ "reap_pmut" \in LifeNames
    BY <1>1, NamesKnown
  <2> QED BY <1>1, <1>2, <2>1, <2>2, LifeContinue
<1>4. /\ ut_no_preempt_count' \in [Threads -> Nat] /\ ut_no_preempt_count'[t] = 2
      /\ \A u \in Threads \ {t} : ut_no_preempt_count'[u] = ut_no_preempt_count[u]
  <2>1. NopreemptOn(t)
    BY <1>1, <1>2 DEF ExitCheck, CallMtxLock
  <2>2. ut_no_preempt_count[t] \in Nat
    BY <1>2, BaseNat
  <2> QED BY <1>1, <1>2, <2>1, <2>2 DEF NopreemptOn, LifeTypeOK, SchedTypes
<1>5. /\ marg' \in [Threads -> Mutexes \cup {NoObj}] /\ marg'[t] = reap_mtx
      /\ \A u \in Threads \ {t} : marg'[u] = marg[u]
  BY <1>1, <1>2, LifeObjects DEF ExitCheck, CallMtxLock, LifeTypeOK
<1>6. UNCHANGED <<curthr, lwp, ut_state, ut_prio, runq, tq_size, runq_mtx, waitq, pmut, swarg, wakee,
                  sparg, newthr, halted, m_owner, carg, crit, ut_detached, reap_queue, tgt, claimed>>
  BY <1>1, <1>2 DEF ExitCheck, CallMtxLock, cpuVars, thrVars, runqVars, waitVars, argVars, mtxVars,
                    lifeVars, SyncRest
<1>7. LifeTypeOK'
  BY <1>1, <1>2, <1>3, <1>4, <1>5, <1>6 DEF LifeTypeOK, SchedTypes, LifeNames
<1>8. Local(t)
  <2>1. ut_state[t] \notin {"UT_NO_STATE", "UT_TRANSITION"}
    BY <1>1, OneRuns
  <2> QED BY <1>1, <1>2, <1>3, <1>4, <1>5, <1>6, <2>1 DEF Local, Kept, runqVars
<1>9. Private(t, "mtx_lock", "exit")'
  <2>1. Is("mtx_lock", "exit", ut_no_preempt_count[t], stack[t])'
    <3>1. LockRow("mtx_lock", "exit", 2, "mtx_lock", <<"reap_pmut">> \o <<>>)
      BY <1>1 DEF LockRow, AfterLock, Below, Base, Lockers, Buriers
    <3> QED BY <1>1, <1>3, <1>4, <3>1 DEF Is, Row
  <2>2. ModeOf("mtx_lock", "exit", OnLwp(t), ut_state[t])'
    <3>1. ut_state[t] = StateOn(pt[t], cx[t])
      BY <1>1, OneRuns
    <3>2. ut_state'[t] = StateOn("mtx_lock", "exit")
      BY <1>1, <1>2, <1>6, <3>1 DEF StateOn, Buriers, Lockers, Preemptible
    <3> QED BY <1>1, <1>6, <3>2, StaysOn
  <2>3. SwitchArgs(t, "mtx_lock")' /\ LockArgs(t, "mtx_lock", "exit")'
    BY <1>1, <1>2, <1>4, <1>5, <1>6, LifeObjects DEF Private, SwitchArgs, LockArgs, InSection,
                                                     Settling, CondWaits, Sections, ReaperCode,
                                                     Unlocks, Preemptible, Buriers
  <2>4. CallArgs(t, "mtx_lock", "exit")' /\ Roles(t, "mtx_lock", "exit")'
    BY <1>1, <1>2, <1>4, <1>5, <1>6, LifeObjects DEF Private, CallArgs, Roles, Allocates, WakePoints,
                                                     Has, Frees, Sections, Unlocks, JoinCode, Buriers,
                                                     Preemptible, Yields
  <2> QED BY <2>1, <2>2, <2>3, <2>4 DEF Private
<1>10. PICK pq \in [Threads -> Points], cd \in [Threads -> Contexts] :
          Advance(pt, cx, pq, cd, l, t) /\ pq[t] = "mtx_lock" /\ cd[t] = "exit"
  <2>1. "mtx_lock" \in Points /\ "exit" \in Contexts
    BY <1>1, <1>2 DEF Points, Yields, Sections, Unlocks, ReaperCode, CondWaits, ExitCode, JoinCode,
                      Locks, Frees, InSection, Buriers, Preemptible, Contexts, Lockers
  <2>2. CanAdvance(pt, cx, l, t)
    BY <1>1, <1>8 DEF CanAdvance
  <2>3. MayReach(pt, cx, l, t, "mtx_lock", "exit")
    BY <2>1, <2>2, AdvanceTo
  <2> QED BY <2>3 DEF MayReach
<1>11. Private(t, pq[t], cd[t])'
  BY <1>9, <1>10
<1>12. NewRight(pq)'
  <2>1. newthr' = newthr /\ {pt[t], pq[t]} \cap {"alloc_claim", "startonrunq"} = {}
    BY <1>1, <1>2, <1>4, <1>5, <1>6, <1>10
  <2> QED BY <1>1, <1>10, <2>1, LocalNew DEF Advance
<1>13. PmutsRight(pq, cd)'
  <2>1. \A o \in Objs : Locks(t, pq[t], cd[t], o)' <=> Locks(t, pt[t], cx[t], o)
    BY <1>1, <1>2, <1>4, <1>5, <1>6, <1>10 DEF Locks, Frees, Sections, Unlocks, Buriers
  <2> QED BY <1>10, <1>6, <2>1, KeepsPmuts
<1>14. MutexRight(pq, cd)'
  <2>1. /\ InSection(pq[t], cd[t]) <=> InSection(pt[t], cx[t])
        /\ {pt[t], pq[t]} \cap {"mtx_locked", "mtx_switch"} = {}
    BY <1>1, <1>2, <1>4, <1>5, <1>6, <1>10 DEF InSection, Sections, ReaperCode, Buriers
  <2> QED BY <1>10, <1>6, <2>1, KeepsMutex
<1>15. Custody(pq, cd)'
  <2>1. ~Frees(pq[t], cd[t]) /\ ~Passed(pt[t], cx[t])
    BY <1>1, <1>10 DEF Frees, Passed, Sections, Unlocks
  <2>2. t \in claimed /\ ~InReapQueue(t)
    BY <2>1 DEF Situation, LifeInvAt, Custody, Targets
  <2>3. \A v \in Threads \ {t} : ~(Has(pt[v], cx[v]) /\ tgt[v] = t)
    BY <1>1, HasRunning
  <2> QED BY <1>1, <1>10, <1>6, <2>1, <2>2, <2>3, OneRuns, TargetTaken
<1>16. Targets(pq, cd)'
  <2>1. /\ Joins(pq[t], cd[t]) => Joins(pt[t], cx[t]) /\ tgt'[t] = tgt[t]
        /\ HasDead(pq[t], cd[t]) => HasDead(pt[t], cx[t]) /\ tgt'[t] = tgt[t]
        /\ pq[t] # "detach_check"
    BY <1>1, <1>2, <1>4, <1>5, <1>6, <1>10 DEF Joins, HasDead, Has, JoinCode, Buriers
  <2>2. HasDead(pt[t], cx[t]) => tgt[t] \in Threads /\ pt[tgt[t]] = "dead"
    BY DEF Situation, LifeInvAt, LifeTypeOK, Targets, HasDead, Private, CallArgs
  <2> QED BY <1>10, <1>6, <2>1, <2>2, KeepsTargets
<1>17. CaredFor(pq, cd)'
  <2>1. Has(pq[t], cd[t]) /\ ~Has(pt[t], cx[t])
    BY <1>1, <1>10 DEF Has, JoinCode, Buriers
  <2>2. claimed' = claimed \cup {t}
    BY <1>6 DEF Situation, LifeInvAt, Targets
  <2>3. tgt'[t] = t /\ reap_queue' = reap_queue /\ \A v \in Threads : ut_detached[v] => ut_detached'[v]
    BY <1>1, <1>6
  <2> QED BY <1>10, <2>1, <2>2, <2>3, CareTaken
<1>18. JoinsRight(pq, cd)'
  <2>1. Gone(pq[t], cd[t])
    BY <1>10 DEF Gone
  <2>2. \A v \in Threads : ~InQueue(t, v)
    <3>1. \A v \in Threads : InQueue(t, v) => pt[v] = "join_woken" /\ tgt[v] = t
      BY DEF Situation, LifeInvAt, WaitsRight
    <3>2. \A v \in Threads : pt[v] = "join_woken" => Has(pt[v], cx[v])
      BY DEF Has, JoinCode
    <3>3. \A v \in Threads \ {t} : ~(Has(pt[v], cx[v]) /\ tgt[v] = t)
      BY <1>1, HasRunning
    <3> QED BY <1>1, <3>1, <3>2, <3>3
  <2> QED BY <1>10, <2>1, <2>2, JoinsGone
<1>19. ReaperRight(pq, cd)'
  <2>1. /\ pt[t] = "reaper_scan" => pq[t] = "reaper_scan"
        /\ pt[t] = "cond_signal" => pq[t] = "cond_signal"
        /\ Settling(pq[t], cd[t]) => Settling(pt[t], cx[t]) \/ reap_queue = <<>>
    BY <1>1, <1>2, <1>4, <1>5, <1>6, <1>10 DEF Settling, Unlocks, Preemptible, Buriers
  <2> QED BY <1>10, <1>6, <2>1, KeepsReaper
<1> QED BY <1>6, <1>7, <1>10, <1>11, <1>12, <1>13, <1>14, <1>15, <1>16, <1>17, <1>18, <1>19, AdvanceEnds DEF Rights

LEMMA LifeExitJoinable ==
    ASSUME NEW pt, NEW cx, Situation(pt, cx), NEW l \in LWPs, NEW t \in Threads, halted = "none",
           ExitCheck(l, t), ~ut_detached[t]
    PROVE  LifeInv'
<1>1. /\ Running(l, t) /\ stack[t] # <<>> /\ pt[t] = "exit_check" /\ cx[t] = "exit"
      /\ ut_no_preempt_count[t] = 1 /\ Tail(stack[t]) = <<>> /\ tgt[t] = t
  <2>1. /\ Row(pt[t], cx[t], ut_no_preempt_count[t], "exit_check", Tail(stack[t])) /\ stack[t] # <<>>
        /\ Running(l, t)
    BY AtPoint DEF ExitCheck
  <2>2. /\ pt[t] = "exit_check" /\ cx[t] = "exit" /\ ut_no_preempt_count[t] = 1 /\ Tail(stack[t]) = <<>>
    BY <2>1, RowsOfExits
  <2>3. tgt[t] = t
    BY <2>2 DEF Situation, LifeInvAt, Private, CallArgs
  <2> QED BY <2>1, <2>2, <2>3
<1>2. /\ Private(t, "exit_check", "exit") /\ LifeTypeOK /\ ut_no_preempt_count[t] \in Nat
  BY <1>1 DEF Situation, LifeInvAt, LifeTypeOK, SchedTypes
<1>3. /\ stack' \in [Threads -> Seq(LifeNames)] /\ stack'[t] # <<>>
      /\ Head(stack'[t]) = "exit_lock" /\ Tail(stack'[t]) = <<>>
      /\ \A u \in Threads \ {t} : stack'[u] = stack[u]
  <2>1. Continue(t, <<"exit_lock">>)
    BY <1>1, <1>2 DEF ExitCheck
  <2>2. "exit_lock" \in LifeNames
    BY <1>1, NamesKnown
  <2> QED BY <1>1, <1>2, <2>1, <2>2, LifeContinue
<1>4. UNCHANGED <<curthr, lwp, ut_state, ut_prio, ut_no_preempt_count, runq, tq_size, runq_mtx, waitq,
                  pmut, swarg, wakee, sparg, newthr, halted, m_owner, marg, carg, crit, ut_detached,
                  reap_queue, tgt, claimed>>
  BY <1>1, <1>2 DEF ExitCheck, cpuVars, thrVars, runqVars, waitVars, argVars, mtxVars, lifeVars, SyncRest
<1>5. LifeTypeOK'
  BY <1>1, <1>2, <1>3, <1>4 DEF LifeTypeOK, SchedTypes, LifeNames
<1>6. Local(t)
  <2>1. ut_state[t] \notin {"UT_NO_STATE", "UT_TRANSITION"}
    BY <1>1, OneRuns
  <2> QED BY <1>1, <1>2, <1>3, <1>4, <2>1 DEF Local, Kept, runqVars
<1>7. Private(t, "exit_lock", "exit")'
  <2>1. Is("exit_lock", "exit", ut_no_preempt_count[t], stack[t])'
    <3>1. ExitRow("exit_lock", "exit", 1, "exit_lock", <<>>)
      BY <1>1 DEF ExitRow
    <3> QED BY <1>1, <1>3, <1>4, <3>1 DEF Is, Row
  <2>2. ModeOf("exit_lock", "exit", OnLwp(t), ut_state[t])'
    <3>1. ut_state[t] = StateOn(pt[t], cx[t])
      BY <1>1, OneRuns
    <3>2. ut_state'[t] = StateOn("exit_lock", "exit")
      BY <1>1, <1>2, <1>4, <3>1 DEF StateOn, Buriers, Lockers, Preemptible
    <3> QED BY <1>1, <1>4, <3>2, StaysOn
  <2>3. SwitchArgs(t, "exit_lock")' /\ LockArgs(t, "exit_lock", "exit")'
    BY <1>1, <1>2, <1>4 DEF Private, SwitchArgs, LockArgs, InSection, Settling, CondWaits, Sections,
                            ReaperCode, Unlocks, Preemptible, Buriers
  <2>4. CallArgs(t, "exit_lock", "exit")' /\ Roles(t, "exit_lock", "exit")'
    BY <1>1, <1>2, <1>4 DEF Private, CallArgs, Roles, Allocates, WakePoints, Has, Frees, Sections,
                            Unlocks, JoinCode, Buriers, Preemptible, Yields
  <2> QED BY <2>1, <2>2, <2>3, <2>4 DEF Private
<1>8. PICK pq \in [Threads -> Points], cd \in [Threads -> Contexts] :
          Advance(pt, cx, pq, cd, l, t) /\ pq[t] = "exit_lock" /\ cd[t] = "exit"
  <2>1. "exit_lock" \in Points /\ "exit" \in Contexts
    BY <1>1, <1>2 DEF Points, Yields, Sections, Unlocks, ReaperCode, CondWaits, ExitCode, JoinCode,
                      Locks, Frees, InSection, Buriers, Preemptible, Contexts, Lockers
  <2>2. CanAdvance(pt, cx, l, t)
    BY <1>1, <1>6 DEF CanAdvance
  <2>3. MayReach(pt, cx, l, t, "exit_lock", "exit")
    BY <2>1, <2>2, AdvanceTo
  <2> QED BY <2>3 DEF MayReach
<1>9. Private(t, pq[t], cd[t])'
  BY <1>7, <1>8
<1>10. NewRight(pq)'
  <2>1. newthr' = newthr /\ {pt[t], pq[t]} \cap {"alloc_claim", "startonrunq"} = {}
    BY <1>1, <1>2, <1>4, <1>8
  <2> QED BY <1>1, <1>8, <2>1, LocalNew DEF Advance
<1>11. PmutsRight(pq, cd)'
  <2>1. \A o \in Objs : Locks(t, pq[t], cd[t], o)' <=> Locks(t, pt[t], cx[t], o)
    BY <1>1, <1>2, <1>4, <1>8 DEF Locks, Frees, Sections, Unlocks, Buriers
  <2> QED BY <1>8, <1>4, <2>1, KeepsPmuts
<1>12. MutexRight(pq, cd)'
  <2>1. /\ InSection(pq[t], cd[t]) <=> InSection(pt[t], cx[t])
        /\ {pt[t], pq[t]} \cap {"mtx_locked", "mtx_switch"} = {}
    BY <1>1, <1>2, <1>4, <1>8 DEF InSection, Sections, ReaperCode, Buriers
  <2> QED BY <1>8, <1>4, <2>1, KeepsMutex
<1>13. Custody(pq, cd)'
  <2>1. /\ Has(pq[t], cd[t]) => Has(pt[t], cx[t]) /\ tgt'[t] = tgt[t]
        /\ Frees(pq[t], cd[t]) => Frees(pt[t], cx[t]) /\ tgt'[t] = tgt[t]
        /\ Passed(pt[t], cx[t]) => Passed(pq[t], cd[t])
    BY <1>1, <1>2, <1>4, <1>8 DEF Has, Frees, Passed, JoinCode, Sections, Unlocks, Buriers
  <2> QED BY <1>8, <1>4, <2>1, KeepsCustody
<1>14. Targets(pq, cd)'
  <2>1. /\ Joins(pq[t], cd[t]) => Joins(pt[t], cx[t]) /\ tgt'[t] = tgt[t]
        /\ HasDead(pq[t], cd[t]) => HasDead(pt[t], cx[t]) /\ tgt'[t] = tgt[t]
        /\ pq[t] # "detach_check"
    BY <1>1, <1>2, <1>4, <1>8 DEF Joins, HasDead, Has, JoinCode, Buriers
  <2>2. HasDead(pt[t], cx[t]) => tgt[t] \in Threads /\ pt[tgt[t]] = "dead"
    BY DEF Situation, LifeInvAt, LifeTypeOK, Targets, HasDead, Private, CallArgs
  <2> QED BY <1>8, <1>4, <2>1, <2>2, KeepsTargets
<1>15. CaredFor(pq, cd)'
  <2>1. /\ CaredFor(pt, cx) /\ ~ut_detached[t] /\ claimed' = claimed /\ ut_detached' = ut_detached /\ claimed \subseteq Threads
        /\ \A u \in Threads \ {t} : pq[u] = pt[u] /\ cd[u] = cx[u]
        /\ tgt' = tgt /\ ut_state' = ut_state
    BY <1>2, <1>8, <1>4 DEF Advance, Situation, LifeInvAt, LifeTypeOK
  <2>2. \A u : InReapQueue(u)' <=> InReapQueue(u)
    BY <1>4 DEF InReapQueue
  <2>3. ~Has(pt[t], cx[t])
    BY <1>1 DEF Has, JoinCode, Buriers
  <2>4. \A u \in Threads : Has(pt[u], cx[u]) => Has(pq[u], cd[u])
    BY <2>1, <2>3
  <2> QED BY <2>1, <2>2, <2>4 DEF CaredFor
<1>16. JoinsRight(pq, cd)'
  <2>1. /\ Gone(pq[t], cd[t]) <=> Gone(pt[t], cx[t])
        /\ pq[t] \notin {"join_switch", "join_woken"}
    BY <1>1, <1>2, <1>4, <1>8 DEF Gone, Preemptible, Buriers
  <2> QED BY <1>8, <1>4, <2>1, KeepsJoins
<1>17. ReaperRight(pq, cd)'
  <2>1. /\ pt[t] = "reaper_scan" => pq[t] = "reaper_scan"
        /\ pt[t] = "cond_signal" => pq[t] = "cond_signal"
        /\ Settling(pq[t], cd[t]) => Settling(pt[t], cx[t]) \/ reap_queue = <<>>
    BY <1>1, <1>2, <1>4, <1>8 DEF Settling, Unlocks, Preemptible, Buriers
  <2> QED BY <1>8, <1>4, <2>1, KeepsReaper
<1> QED BY <1>4, <1>5, <1>8, <1>9, <1>10, <1>11, <1>12, <1>13, <1>14, <1>15, <1>16, <1>17, AdvanceEnds DEF Rights

LEMMA LifeExitAlone ==
    ASSUME NEW pt, NEW cx, Situation(pt, cx), NEW l \in LWPs, NEW t \in Threads, halted = "none",
           ExitLock(l, t), waitq[t] = <<>>
    PROVE  LifeInv'
<1>1. /\ Running(l, t) /\ stack[t] # <<>> /\ pt[t] = "exit_lock" /\ cx[t] = "exit"
      /\ ut_no_preempt_count[t] = 1 /\ Tail(stack[t]) = <<>> /\ tgt[t] = t
  <2>1. /\ Row(pt[t], cx[t], ut_no_preempt_count[t], "exit_lock", Tail(stack[t])) /\ stack[t] # <<>>
        /\ Running(l, t)
    BY AtPoint DEF ExitLock
  <2>2. /\ pt[t] = "exit_lock" /\ cx[t] = "exit" /\ ut_no_preempt_count[t] = 1 /\ Tail(stack[t]) = <<>>
    BY <2>1, RowsOfExits
  <2>3. tgt[t] = t
    BY <2>2 DEF Situation, LifeInvAt, Private, CallArgs
  <2> QED BY <2>1, <2>2, <2>3
<1>2. /\ Private(t, "exit_lock", "exit") /\ LifeTypeOK /\ ut_no_preempt_count[t] \in Nat
  BY <1>1 DEF Situation, LifeInvAt, LifeTypeOK, SchedTypes
<1>3. /\ stack' \in [Threads -> Seq(LifeNames)] /\ stack'[t] # <<>>
      /\ Head(stack'[t]) = "exit_switch" /\ Tail(stack'[t]) = <<>>
      /\ \A u \in Threads \ {t} : stack'[u] = stack[u]
  <2>1. Continue(t, <<"exit_switch">>)
    BY <1>1, <1>2 DEF ExitLock, WakeJoiner
  <2>2. "exit_switch" \in LifeNames
    BY <1>1, NamesKnown
  <2> QED BY <1>1, <1>2, <2>1, <2>2, LifeContinue
<1>4. /\ pmut' \in [Objs -> LWPs \cup {NoLwp}] /\ pmut' = [pmut EXCEPT ![t] = l]
      /\ t \in Objs /\ pmut[t] = NoLwp
  <2>1. pmut' = [pmut EXCEPT ![t] = l] /\ pmut[t] = NoLwp
    BY <1>1, <1>2 DEF ExitLock, Takes
  <2>2. t \in Objs
    BY <1>1, <1>2, LifeObjects DEF LifeTypeOK, Objs
  <2> QED BY <1>2, <2>1, <2>2 DEF LifeTypeOK, SchedTypes
<1>5. UNCHANGED <<curthr, lwp, ut_state, ut_prio, ut_no_preempt_count, runq, tq_size, runq_mtx, waitq,
                  swarg, wakee, sparg, newthr, halted, m_owner, marg, carg, crit, ut_detached,
                  reap_queue, tgt, claimed>>
  BY <1>1, <1>2 DEF ExitLock, WakeJoiner, cpuVars, thrVars, runqVars, waitVars, argVars, mtxVars,
                    lifeVars, SyncRest
<1>6. LifeTypeOK'
  BY <1>1, <1>2, <1>3, <1>4, <1>5 DEF LifeTypeOK, SchedTypes, LifeNames
<1>7. Local(t)
  <2>1. ut_state[t] \notin {"UT_NO_STATE", "UT_TRANSITION"}
    BY <1>1, OneRuns
  <2> QED BY <1>1, <1>2, <1>3, <1>4, <1>5, <2>1 DEF Local, Kept, runqVars
<1>8. Private(t, "exit_switch", "exit")'
  <2>1. Is("exit_switch", "exit", ut_no_preempt_count[t], stack[t])'
    <3>1. ExitRow("exit_switch", "exit", 1, "exit_switch", <<>>)
      BY <1>1 DEF ExitRow
    <3> QED BY <1>1, <1>3, <1>5, <3>1 DEF Is, Row
  <2>2. ModeOf("exit_switch", "exit", OnLwp(t), ut_state[t])'
    <3>1. ut_state[t] = StateOn(pt[t], cx[t])
      BY <1>1, OneRuns
    <3>2. ut_state'[t] = StateOn("exit_switch", "exit")
      BY <1>1, <1>2, <1>5, <3>1 DEF StateOn, Buriers, Lockers, Preemptible
    <3> QED BY <1>1, <1>5, <3>2, StaysOn
  <2>3. SwitchArgs(t, "exit_switch")' /\ LockArgs(t, "exit_switch", "exit")'
    BY <1>1, <1>2, <1>4, <1>5 DEF Private, SwitchArgs, LockArgs, InSection, Settling, CondWaits,
                                  Sections, ReaperCode, Unlocks, Preemptible, Buriers
  <2>4. CallArgs(t, "exit_switch", "exit")' /\ Roles(t, "exit_switch", "exit")'
    BY <1>1, <1>2, <1>4, <1>5 DEF Private, CallArgs, Roles, Allocates, WakePoints, Has, Frees,
                                  Sections, Unlocks, JoinCode, Buriers, Preemptible, Yields
  <2> QED BY <2>1, <2>2, <2>3, <2>4 DEF Private
<1>9. PICK pq \in [Threads -> Points], cd \in [Threads -> Contexts] :
          Advance(pt, cx, pq, cd, l, t) /\ pq[t] = "exit_switch" /\ cd[t] = "exit"
  <2>1. "exit_switch" \in Points /\ "exit" \in Contexts
    BY <1>1, <1>2 DEF Points, Yields, Sections, Unlocks, ReaperCode, CondWaits, ExitCode, JoinCode,
                      Locks, Frees, InSection, Buriers, Preemptible, Contexts, Lockers
  <2>2. CanAdvance(pt, cx, l, t)
    BY <1>1, <1>7 DEF CanAdvance
  <2>3. MayReach(pt, cx, l, t, "exit_switch", "exit")
    BY <2>1, <2>2, AdvanceTo
  <2> QED BY <2>3 DEF MayReach
<1>10. Private(t, pq[t], cd[t])'
  BY <1>8, <1>9
<1>11. NewRight(pq)'
  <2>1. newthr' = newthr /\ {pt[t], pq[t]} \cap {"alloc_claim", "startonrunq"} = {}
    BY <1>1, <1>2, <1>4, <1>5, <1>9
  <2> QED BY <1>1, <1>9, <2>1, LocalNew DEF Advance
<1>12. PmutsRight(pq, cd)'
  <2>1. \A o \in Objs : Locks(t, pq[t], cd[t], o)' <=> Locks(t, pt[t], cx[t], o) \/ o = t
    BY <1>1, <1>2, <1>4, <1>5, <1>9 DEF Locks, Frees, Sections, Unlocks, Buriers, Preemptible
  <2>2. t \in Objs /\ pmut' = [pmut EXCEPT ![t] = l]
    BY <1>1, <1>2, <1>4, <1>5, <1>9
  <2> QED BY <1>9, <2>1, <2>2, LockTaken
<1>13. MutexRight(pq, cd)'
  <2>1. /\ InSection(pq[t], cd[t]) <=> InSection(pt[t], cx[t])
        /\ {pt[t], pq[t]} \cap {"mtx_locked", "mtx_switch"} = {}
    BY <1>1, <1>2, <1>4, <1>5, <1>9 DEF InSection, Sections, ReaperCode, Buriers
  <2> QED BY <1>9, <1>5, <2>1, KeepsMutex
<1>14. Custody(pq, cd)'
  <2>1. /\ Has(pq[t], cd[t]) => Has(pt[t], cx[t]) /\ tgt'[t] = tgt[t]
        /\ Frees(pq[t], cd[t]) => Frees(pt[t], cx[t]) /\ tgt'[t] = tgt[t]
        /\ Passed(pt[t], cx[t]) => Passed(pq[t], cd[t])
    BY <1>1, <1>2, <1>4, <1>5, <1>9 DEF Has, Frees, Passed, JoinCode, Sections, Unlocks, Buriers
  <2> QED BY <1>9, <1>5, <2>1, KeepsCustody
<1>15. Targets(pq, cd)'
  <2>1. /\ Joins(pq[t], cd[t]) => Joins(pt[t], cx[t]) /\ tgt'[t] = tgt[t]
        /\ HasDead(pq[t], cd[t]) => HasDead(pt[t], cx[t]) /\ tgt'[t] = tgt[t]
        /\ pq[t] # "detach_check"
    BY <1>1, <1>2, <1>4, <1>5, <1>9 DEF Joins, HasDead, Has, JoinCode, Buriers
  <2>2. HasDead(pt[t], cx[t]) => tgt[t] \in Threads /\ pt[tgt[t]] = "dead"
    BY DEF Situation, LifeInvAt, LifeTypeOK, Targets, HasDead, Private, CallArgs
  <2> QED BY <1>9, <1>5, <2>1, <2>2, KeepsTargets
<1>16. CaredFor(pq, cd)'
  <2>1. /\ Has(pt[t], cx[t]) => Has(pq[t], cd[t]) /\ tgt'[t] = tgt[t]
        /\ (cx[t] = "exit" => pt[t] = "exit_check") => (cd[t] = "exit" => pq[t] = "exit_check")
    BY <1>1, <1>2, <1>4, <1>5, <1>9 DEF Has, JoinCode, Buriers, Preemptible
  <2> QED BY <1>9, <1>5, <2>1, KeepsCare
<1>17. JoinsRight(pq, cd)'
  <2>1. Gone(pq[t], cd[t])
    BY <1>9 DEF Gone
  <2>2. \A v \in Threads : ~InQueue(t, v)
    BY DEF InQueue
  <2> QED BY <1>9, <2>1, <2>2, JoinsGone
<1>18. ReaperRight(pq, cd)'
  <2>1. /\ pt[t] = "reaper_scan" => pq[t] = "reaper_scan"
        /\ pt[t] = "cond_signal" => pq[t] = "cond_signal"
        /\ Settling(pq[t], cd[t]) => Settling(pt[t], cx[t]) \/ reap_queue = <<>>
    BY <1>1, <1>2, <1>4, <1>5, <1>9 DEF Settling, Unlocks, Preemptible, Buriers
  <2> QED BY <1>9, <1>5, <2>1, KeepsReaper
<1> QED BY <1>5, <1>6, <1>9, <1>10, <1>11, <1>12, <1>13, <1>14, <1>15, <1>16, <1>17, <1>18, AdvanceEnds DEF Rights

\* make_reapable.
LEMMA LifeReapPmut ==
    ASSUME NEW pt, NEW cx, Situation(pt, cx), NEW l \in LWPs, NEW t \in Threads, halted = "none",
           ReapPmut(l, t), pt[t] # "rest"
    PROVE  LifeInv'
<1> DEFINE c == cx[t]
<1>1. /\ Running(l, t) /\ stack[t] # <<>> /\ tgt[t] \in Threads
      /\ pt[t] = "reap_pmut" /\ c \in Buriers \ {"join"}
      /\ ut_no_preempt_count[t] = Base(c) /\ Tail(stack[t]) = Below(c)
  <2>1. /\ Row(pt[t], cx[t], ut_no_preempt_count[t], "reap_pmut", Tail(stack[t])) /\ stack[t] # <<>>
        /\ Running(l, t)
    BY AtPoint DEF ReapPmut, LockReaped
  <2>2. /\ pt[t] = "reap_pmut" /\ c \in Buriers \ {"join"}
        /\ ut_no_preempt_count[t] = Base(c) /\ Tail(stack[t]) = Below(c)
    <3>1. Tail(stack[t]) = Below(c)
      BY <2>1, RowsOfReapables, BelowReapables
    <3> QED BY <2>1, <3>1, RowsOfReapables
  <2>3. Has(pt[t], cx[t])
    BY <2>2 DEF Has
  <2>4. tgt[t] \in Threads
    BY <2>3 DEF Situation, LifeInvAt, LifeTypeOK, Private, CallArgs
  <2> QED BY <2>1, <2>2, <2>4
<1>2. /\ Private(t, "reap_pmut", c) /\ LifeTypeOK /\ ut_no_preempt_count[t] \in Nat /\ c \in Contexts
  BY <1>1 DEF Situation, LifeInvAt, LifeTypeOK, SchedTypes
<1>3. /\ stack' \in [Threads -> Seq(LifeNames)] /\ stack'[t] # <<>>
      /\ Head(stack'[t]) = "make_reapable" /\ Tail(stack'[t]) = Below(c)
      /\ \A u \in Threads \ {t} : stack'[u] = stack[u]
  <2>1. Continue(t, <<"make_reapable">>)
    BY <1>1, <1>2 DEF ReapPmut
  <2>2. "make_reapable" \in LifeNames
    BY <1>1, NamesKnown
  <2> QED BY <1>1, <1>2, <2>1, <2>2, LifeContinue
<1>4. /\ pmut' \in [Objs -> LWPs \cup {NoLwp}] /\ pmut' = [pmut EXCEPT ![tgt[t]] = l]
      /\ tgt[t] \in Objs /\ pmut[tgt[t]] = NoLwp
  <2>1. pmut' = [pmut EXCEPT ![tgt[t]] = l] /\ pmut[tgt[t]] = NoLwp
    BY <1>1, <1>2 DEF ReapPmut, LockReaped, Takes
  <2>2. tgt[t] \in Objs
    BY <1>1, <1>2, LifeObjects DEF LifeTypeOK, Objs
  <2> QED BY <1>2, <2>1, <2>2 DEF LifeTypeOK, SchedTypes
<1>5. UNCHANGED <<curthr, lwp, ut_state, ut_prio, ut_no_preempt_count, runq, tq_size, runq_mtx, waitq,
                  swarg, wakee, sparg, newthr, halted, m_owner, marg, carg, crit, ut_detached,
                  reap_queue, tgt, claimed>>
  BY <1>1, <1>2 DEF ReapPmut, LockReaped, cpuVars, thrVars, runqVars, waitVars, argVars, mtxVars,
                    lifeVars, SyncRest
<1>6. LifeTypeOK'
  BY <1>1, <1>2, <1>3, <1>4, <1>5 DEF LifeTypeOK, SchedTypes, LifeNames
<1>7. Local(t)
  <2>1. ut_state[t] \notin {"UT_NO_STATE", "UT_TRANSITION"}
    BY <1>1, OneRuns
  <2> QED BY <1>1, <1>2, <1>3, <1>4, <1>5, <2>1 DEF Local, Kept, runqVars
<1>8. Private(t, "make_reapable", c)'
  <2>1. Is("make_reapable", c, ut_no_preempt_count[t], stack[t])'
    <3>1. BurialRow("make_reapable", c, Base(c), "make_reapable", Below(c))
      BY <1>1 DEF BurialRow
    <3> QED BY <1>1, <1>3, <1>5, <3>1 DEF Is, Row
  <2>2. ModeOf("make_reapable", c, OnLwp(t), ut_state[t])'
    <3>1. ut_state[t] = StateOn(pt[t], cx[t])
      BY <1>1, OneRuns
    <3>2. ut_state'[t] = StateOn("make_reapable", c)
      BY <1>1, <1>2, <1>5, <3>1 DEF StateOn, Buriers, Lockers, Preemptible
    <3> QED BY <1>1, <1>5, <3>2, StaysOn
  <2>3. SwitchArgs(t, "make_reapable")' /\ LockArgs(t, "make_reapable", c)'
    BY <1>1, <1>2, <1>4, <1>5 DEF Private, SwitchArgs, LockArgs, InSection, Settling, CondWaits,
                                  Sections, ReaperCode, Unlocks, Preemptible, Buriers
  <2>4. CallArgs(t, "make_reapable", c)' /\ Roles(t, "make_reapable", c)'
    BY <1>1, <1>2, <1>4, <1>5 DEF Private, CallArgs, Roles, Allocates, WakePoints, Has, Frees,
                                  Sections, Unlocks, JoinCode, Buriers, Preemptible, Yields
  <2> QED BY <2>1, <2>2, <2>3, <2>4 DEF Private
<1>9. PICK pq \in [Threads -> Points], cd \in [Threads -> Contexts] :
          Advance(pt, cx, pq, cd, l, t) /\ pq[t] = "make_reapable" /\ cd[t] = c
  <2>1. "make_reapable" \in Points /\ c \in Contexts
    BY <1>1, <1>2 DEF Points, Yields, Sections, Unlocks, ReaperCode, CondWaits, ExitCode, JoinCode,
                      Locks, Frees, InSection, Buriers, Preemptible, Contexts, Lockers
  <2>2. CanAdvance(pt, cx, l, t)
    BY <1>1, <1>7 DEF CanAdvance
  <2>3. MayReach(pt, cx, l, t, "make_reapable", c)
    BY <2>1, <2>2, AdvanceTo
  <2> QED BY <2>3 DEF MayReach
<1>10. Private(t, pq[t], cd[t])'
  BY <1>8, <1>9
<1>11. NewRight(pq)'
  <2>1. newthr' = newthr /\ {pt[t], pq[t]} \cap {"alloc_claim", "startonrunq"} = {}
    BY <1>1, <1>2, <1>4, <1>5, <1>9
  <2> QED BY <1>1, <1>9, <2>1, LocalNew DEF Advance
<1>12. PmutsRight(pq, cd)'
  <2>1. \A o \in Objs : Locks(t, pq[t], cd[t], o)' <=> Locks(t, pt[t], cx[t], o) \/ o = tgt[t]
    BY <1>1, <1>2, <1>4, <1>5, <1>9 DEF Locks, Frees, Sections, Unlocks, Buriers, Preemptible
  <2>2. tgt[t] \in Objs /\ pmut' = [pmut EXCEPT ![tgt[t]] = l]
    BY <1>1, <1>2, <1>4, <1>5, <1>9
  <2> QED BY <1>9, <2>1, <2>2, LockTaken
<1>13. MutexRight(pq, cd)'
  <2>1. /\ InSection(pq[t], cd[t]) <=> InSection(pt[t], cx[t])
        /\ {pt[t], pq[t]} \cap {"mtx_locked", "mtx_switch"} = {}
    BY <1>1, <1>2, <1>4, <1>5, <1>9 DEF InSection, Sections, ReaperCode, Buriers
  <2> QED BY <1>9, <1>5, <2>1, KeepsMutex
<1>14. Custody(pq, cd)'
  <2>1. /\ Has(pq[t], cd[t]) => Has(pt[t], cx[t]) /\ tgt'[t] = tgt[t]
        /\ Frees(pq[t], cd[t]) => Frees(pt[t], cx[t]) /\ tgt'[t] = tgt[t]
        /\ Passed(pt[t], cx[t]) => Passed(pq[t], cd[t])
    BY <1>1, <1>2, <1>4, <1>5, <1>9 DEF Has, Frees, Passed, JoinCode, Sections, Unlocks, Buriers
  <2> QED BY <1>9, <1>5, <2>1, KeepsCustody
<1>15. Targets(pq, cd)'
  <2>1. /\ Joins(pq[t], cd[t]) => Joins(pt[t], cx[t]) /\ tgt'[t] = tgt[t]
        /\ HasDead(pq[t], cd[t]) => HasDead(pt[t], cx[t]) /\ tgt'[t] = tgt[t]
        /\ pq[t] # "detach_check"
    BY <1>1, <1>2, <1>4, <1>5, <1>9 DEF Joins, HasDead, Has, JoinCode, Buriers
  <2>2. HasDead(pt[t], cx[t]) => tgt[t] \in Threads /\ pt[tgt[t]] = "dead"
    BY DEF Situation, LifeInvAt, LifeTypeOK, Targets, HasDead, Private, CallArgs
  <2> QED BY <1>9, <1>5, <2>1, <2>2, KeepsTargets
<1>16. CaredFor(pq, cd)'
  <2>1. /\ Has(pt[t], cx[t]) => Has(pq[t], cd[t]) /\ tgt'[t] = tgt[t]
        /\ (cx[t] = "exit" => pt[t] = "exit_check") => (cd[t] = "exit" => pq[t] = "exit_check")
    BY <1>1, <1>2, <1>4, <1>5, <1>9 DEF Has, JoinCode, Buriers, Preemptible
  <2> QED BY <1>9, <1>5, <2>1, KeepsCare
<1>17. JoinsRight(pq, cd)'
  <2>1. /\ Gone(pq[t], cd[t]) <=> Gone(pt[t], cx[t])
        /\ pq[t] \notin {"join_switch", "join_woken"}
    BY <1>1, <1>2, <1>4, <1>5, <1>9 DEF Gone, Preemptible, Buriers
  <2> QED BY <1>9, <1>5, <2>1, KeepsJoins
<1>18. ReaperRight(pq, cd)'
  <2>1. /\ pt[t] = "reaper_scan" => pq[t] = "reaper_scan"
        /\ pt[t] = "cond_signal" => pq[t] = "cond_signal"
        /\ Settling(pq[t], cd[t]) => Settling(pt[t], cx[t]) \/ reap_queue = <<>>
    BY <1>1, <1>2, <1>4, <1>5, <1>9 DEF Settling, Unlocks, Preemptible, Buriers
  <2> QED BY <1>9, <1>5, <2>1, KeepsReaper
<1> QED BY <1>5, <1>6, <1>9, <1>10, <1>11, <1>12, <1>13, <1>14, <1>15, <1>16, <1>17, <1>18, AdvanceEnds DEF Rights

LEMMA LifeReapPmutRest ==
    ASSUME NEW pt, NEW cx, Situation(pt, cx), NEW l \in LWPs, NEW t \in Threads, halted = "none",
           ReapPmut(l, t), pt[t] = "rest"
    PROVE  LifeInv'
<1>1. /\ Running(l, t) /\ stack[t] # <<>> /\ tgt[t] \in Threads /\ pt[t] = "rest"
      /\ cx[t] = "reap_pmut" /\ ut_no_preempt_count[t] = 0 /\ Tail(stack[t]) = <<>>
  <2>1. /\ Row(pt[t], cx[t], ut_no_preempt_count[t], "reap_pmut", Tail(stack[t])) /\ stack[t] # <<>>
        /\ Running(l, t)
    BY AtPoint DEF ReapPmut, LockReaped
  <2>2. /\ cx[t] = "reap_pmut" /\ ut_no_preempt_count[t] = 0 /\ Tail(stack[t]) = <<>>
    <3>1. Tail(stack[t]) = <<>>
      BY <2>1, RowsOfReapables, BelowReapables
    <3> QED BY <2>1, <3>1, RowsOfReapables
  <2>3. Has(pt[t], cx[t])
    BY <2>2 DEF Has
  <2>4. tgt[t] \in Threads
    BY <2>3 DEF Situation, LifeInvAt, LifeTypeOK, Private, CallArgs
  <2> QED BY <2>1, <2>2, <2>4
<1>2. /\ Private(t, "rest", "reap_pmut") /\ LifeTypeOK /\ ut_no_preempt_count[t] \in Nat
  BY <1>1 DEF Situation, LifeInvAt, LifeTypeOK, SchedTypes
<1>3. /\ stack' \in [Threads -> Seq(LifeNames)] /\ stack'[t] # <<>>
      /\ Head(stack'[t]) = "make_reapable" /\ Tail(stack'[t]) = <<>>
      /\ \A u \in Threads \ {t} : stack'[u] = stack[u]
  <2>1. Continue(t, <<"make_reapable">>)
    BY <1>1, <1>2 DEF ReapPmut
  <2>2. "make_reapable" \in LifeNames
    BY <1>1, NamesKnown
  <2> QED BY <1>1, <1>2, <2>1, <2>2, LifeContinue
<1>4. /\ pmut' \in [Objs -> LWPs \cup {NoLwp}] /\ pmut' = [pmut EXCEPT ![tgt[t]] = l]
      /\ tgt[t] \in Objs /\ pmut[tgt[t]] = NoLwp
  <2>1. pmut' = [pmut EXCEPT ![tgt[t]] = l] /\ pmut[tgt[t]] = NoLwp
    BY <1>1, <1>2 DEF ReapPmut, LockReaped, Takes
  <2>2. tgt[t] \in Objs
    BY <1>1, <1>2, LifeObjects DEF LifeTypeOK, Objs
  <2> QED BY <1>2, <2>1, <2>2 DEF LifeTypeOK, SchedTypes
<1>5. UNCHANGED <<curthr, lwp, ut_state, ut_prio, ut_no_preempt_count, runq, tq_size, runq_mtx, waitq,
                  swarg, wakee, sparg, newthr, halted, m_owner, marg, carg, crit, ut_detached,
                  reap_queue, tgt, claimed>>
  BY <1>1, <1>2 DEF ReapPmut, LockReaped, cpuVars, thrVars, runqVars, waitVars, argVars, mtxVars,
                    lifeVars, SyncRest
<1>6. LifeTypeOK'
  BY <1>1, <1>2, <1>3, <1>4, <1>5 DEF LifeTypeOK, SchedTypes, LifeNames
<1>7. Local(t)
  <2>1. ut_state[t] \notin {"UT_NO_STATE", "UT_TRANSITION"}
    BY <1>1, OneRuns
  <2> QED BY <1>1, <1>2, <1>3, <1>4, <1>5, <2>1 DEF Local, Kept, runqVars
<1>8. Private(t, "rest", "make_reapable")'
  <2>1. Is("rest", "make_reapable", ut_no_preempt_count[t], stack[t])'
    <3>1. ClientRow("rest", "make_reapable", 0, "make_reapable", <<>>)
      BY <1>1 DEF ClientRow, Preemptible
    <3> QED BY <1>1, <1>3, <1>5, <3>1 DEF Is, Row
  <2>2. ModeOf("rest", "make_reapable", OnLwp(t), ut_state[t])'
    <3>1. ut_state[t] = StateOn(pt[t], cx[t])
      BY <1>1, OneRuns
    <3>2. ut_state'[t] = StateOn("rest", "make_reapable")
      BY <1>1, <1>2, <1>5, <3>1 DEF StateOn, Buriers, Lockers, Preemptible
    <3> QED BY <1>1, <1>5, <3>2, StaysOn
  <2>3. SwitchArgs(t, "rest")' /\ LockArgs(t, "rest", "make_reapable")'
    BY <1>1, <1>2, <1>4, <1>5 DEF Private, SwitchArgs, LockArgs, InSection, Settling, CondWaits,
                                  Sections, ReaperCode, Unlocks, Preemptible, Buriers
  <2>4. CallArgs(t, "rest", "make_reapable")' /\ Roles(t, "rest", "make_reapable")'
    BY <1>1, <1>2, <1>4, <1>5 DEF Private, CallArgs, Roles, Allocates, WakePoints, Has, Frees,
                                  Sections, Unlocks, JoinCode, Buriers, Preemptible, Yields
  <2> QED BY <2>1, <2>2, <2>3, <2>4 DEF Private
<1>9. PICK pq \in [Threads -> Points], cd \in [Threads -> Contexts] :
          Advance(pt, cx, pq, cd, l, t) /\ pq[t] = "rest" /\ cd[t] = "make_reapable"
  <2>1. "rest" \in Points /\ "make_reapable" \in Contexts
    BY <1>1, <1>2 DEF Points, Yields, Sections, Unlocks, ReaperCode, CondWaits, ExitCode, JoinCode,
                      Locks, Frees, InSection, Buriers, Preemptible, Contexts, Lockers
  <2>2. CanAdvance(pt, cx, l, t)
    BY <1>1, <1>7 DEF CanAdvance
  <2>3. MayReach(pt, cx, l, t, "rest", "make_reapable")
    BY <2>1, <2>2, AdvanceTo
  <2> QED BY <2>3 DEF MayReach
<1>10. Private(t, pq[t], cd[t])'
  BY <1>8, <1>9
<1>11. NewRight(pq)'
  <2>1. newthr' = newthr /\ {pt[t], pq[t]} \cap {"alloc_claim", "startonrunq"} = {}
    BY <1>1, <1>2, <1>4, <1>5, <1>9
  <2> QED BY <1>1, <1>9, <2>1, LocalNew DEF Advance
<1>12. PmutsRight(pq, cd)'
  <2>1. \A o \in Objs : Locks(t, pq[t], cd[t], o)' <=> Locks(t, pt[t], cx[t], o) \/ o = tgt[t]
    BY <1>1, <1>2, <1>4, <1>5, <1>9 DEF Locks, Frees, Sections, Unlocks, Buriers, Preemptible
  <2>2. tgt[t] \in Objs /\ pmut' = [pmut EXCEPT ![tgt[t]] = l]
    BY <1>1, <1>2, <1>4, <1>5, <1>9
  <2> QED BY <1>9, <2>1, <2>2, LockTaken
<1>13. MutexRight(pq, cd)'
  <2>1. /\ InSection(pq[t], cd[t]) <=> InSection(pt[t], cx[t])
        /\ {pt[t], pq[t]} \cap {"mtx_locked", "mtx_switch"} = {}
    BY <1>1, <1>2, <1>4, <1>5, <1>9 DEF InSection, Sections, ReaperCode, Buriers
  <2> QED BY <1>9, <1>5, <2>1, KeepsMutex
<1>14. Custody(pq, cd)'
  <2>1. /\ Has(pq[t], cd[t]) => Has(pt[t], cx[t]) /\ tgt'[t] = tgt[t]
        /\ Frees(pq[t], cd[t]) => Frees(pt[t], cx[t]) /\ tgt'[t] = tgt[t]
        /\ Passed(pt[t], cx[t]) => Passed(pq[t], cd[t])
    BY <1>1, <1>2, <1>4, <1>5, <1>9 DEF Has, Frees, Passed, JoinCode, Sections, Unlocks, Buriers
  <2> QED BY <1>9, <1>5, <2>1, KeepsCustody
<1>15. Targets(pq, cd)'
  <2>1. /\ Joins(pq[t], cd[t]) => Joins(pt[t], cx[t]) /\ tgt'[t] = tgt[t]
        /\ HasDead(pq[t], cd[t]) => HasDead(pt[t], cx[t]) /\ tgt'[t] = tgt[t]
        /\ pq[t] # "detach_check"
    BY <1>1, <1>2, <1>4, <1>5, <1>9 DEF Joins, HasDead, Has, JoinCode, Buriers
  <2>2. HasDead(pt[t], cx[t]) => tgt[t] \in Threads /\ pt[tgt[t]] = "dead"
    BY DEF Situation, LifeInvAt, LifeTypeOK, Targets, HasDead, Private, CallArgs
  <2> QED BY <1>9, <1>5, <2>1, <2>2, KeepsTargets
<1>16. CaredFor(pq, cd)'
  <2>1. /\ Has(pt[t], cx[t]) => Has(pq[t], cd[t]) /\ tgt'[t] = tgt[t]
        /\ (cx[t] = "exit" => pt[t] = "exit_check") => (cd[t] = "exit" => pq[t] = "exit_check")
    BY <1>1, <1>2, <1>4, <1>5, <1>9 DEF Has, JoinCode, Buriers, Preemptible
  <2> QED BY <1>9, <1>5, <2>1, KeepsCare
<1>17. JoinsRight(pq, cd)'
  <2>1. /\ Gone(pq[t], cd[t]) <=> Gone(pt[t], cx[t])
        /\ pq[t] \notin {"join_switch", "join_woken"}
    BY <1>1, <1>2, <1>4, <1>5, <1>9 DEF Gone, Preemptible, Buriers
  <2> QED BY <1>9, <1>5, <2>1, KeepsJoins
<1>18. ReaperRight(pq, cd)'
  <2>1. /\ pt[t] = "reaper_scan" => pq[t] = "reaper_scan"
        /\ pt[t] = "cond_signal" => pq[t] = "cond_signal"
        /\ Settling(pq[t], cd[t]) => Settling(pt[t], cx[t]) \/ reap_queue = <<>>
    BY <1>1, <1>2, <1>4, <1>5, <1>9 DEF Settling, Unlocks, Preemptible, Buriers
  <2> QED BY <1>9, <1>5, <2>1, KeepsReaper
<1> QED BY <1>5, <1>6, <1>9, <1>10, <1>11, <1>12, <1>13, <1>14, <1>15, <1>16, <1>17, <1>18, AdvanceEnds DEF Rights

-----------------------------------------------------------------------------
(* The reap queue.                                                         *)

LEMMA QueueAppends ==
    ASSUME NEW s \in Seq(Threads), NEW u \in Threads
    PROVE  /\ Append(s, u) \in Seq(Threads)
           /\ Len(Append(s, u)) = Len(s) + 1 /\ Append(s, u)[Len(s) + 1] = u
           /\ \A i \in 1..Len(s) : Append(s, u)[i] = s[i]
  OBVIOUS

LEMMA QueueTails ==
    ASSUME NEW s \in Seq(Threads), s # <<>>
    PROVE  /\ Tail(s) \in Seq(Threads) /\ Head(s) \in Threads /\ Head(s) = s[1] /\ 1 \in 1..Len(s)
           /\ Len(Tail(s)) = Len(s) - 1 /\ Len(s) \in Nat
           /\ \A i \in 1..Len(s) - 1 : Tail(s)[i] = s[i + 1]
  OBVIOUS

LEMMA ReapAppended ==
    ASSUME NEW u \in Threads, reap_queue \in Seq(Threads), reap_queue' = Append(reap_queue, u)
    PROVE  /\ \A v : InReapQueue(v)' <=> InReapQueue(v) \/ v = u
           /\ ~InReapQueue(u) /\ (\A i, j \in 1..Len(reap_queue) : reap_queue[i] = reap_queue[j] => i = j)
                => \A i, j \in 1..Len(reap_queue') : reap_queue'[i] = reap_queue'[j] => i = j
<1> DEFINE s == reap_queue
<1>1. /\ Len(s) \in Nat /\ Len(s') = Len(s) + 1 /\ s'[Len(s) + 1] = u
      /\ \A i \in 1..Len(s) : s'[i] = s[i]
  BY QueueAppends
<1>2. \A i \in 1..Len(s') : i \in 1..Len(s) \/ i = Len(s) + 1
  BY <1>1
<1>3. \A i \in 1..Len(s) : i \in 1..Len(s')
  BY <1>1
<1>4. Len(s) + 1 \in 1..Len(s')
  BY <1>1
<1> HIDE DEF s
<1>5. \A v : (\E i \in 1..Len(s') : s'[i] = v) <=> (\E i \in 1..Len(s) : s[i] = v) \/ v = u
  BY <1>1, <1>2, <1>3, <1>4
<1>6. (\A i \in 1..Len(s) : s[i] # u) /\ (\A i, j \in 1..Len(s) : s[i] = s[j] => i = j)
         => \A i, j \in 1..Len(s') : s'[i] = s'[j] => i = j
  BY <1>1, <1>2
<1> QED BY <1>5, <1>6 DEF InReapQueue, s

LEMMA ReapTaken ==
    ASSUME reap_queue \in Seq(Threads), reap_queue # <<>>, reap_queue' = Tail(reap_queue),
           \A i, j \in 1..Len(reap_queue) : reap_queue[i] = reap_queue[j] => i = j
    PROVE  /\ \A v : InReapQueue(v)' <=> InReapQueue(v) /\ v # Head(reap_queue)
           /\ InReapQueue(Head(reap_queue)) /\ Head(reap_queue) \in Threads
           /\ reap_queue' \in Seq(Threads)
           /\ \A i, j \in 1..Len(reap_queue') : reap_queue'[i] = reap_queue'[j] => i = j
<1> DEFINE s == reap_queue
           h == Head(reap_queue)
<1>1. /\ s' \in Seq(Threads) /\ h \in Threads /\ h = s[1] /\ 1 \in 1..Len(s)
      /\ Len(s') = Len(s) - 1 /\ Len(s) \in Nat
      /\ \A i \in 1..Len(s) - 1 : s'[i] = s[i + 1]
  BY QueueTails
<1>2. \A i \in 1..Len(s') : i + 1 \in 1..Len(s) /\ i + 1 # 1 /\ i \in 1..Len(s) - 1 /\ i \in Int
  BY <1>1
<1>3. \A i \in 1..Len(s) : i = 1 \/ (i - 1 \in 1..Len(s') /\ i - 1 + 1 = i)
  BY <1>1
<1>4. \A i, j \in 1..Len(s) : s[i] = s[j] => i = j
  OBVIOUS
<1> HIDE DEF s, h
<1>5. \A i \in 1..Len(s') : s'[i] = s[i + 1]
  BY <1>1, <1>2
<1>6. \A i \in 1..Len(s') : s'[i] # h
  BY <1>1, <1>2, <1>4, <1>5
<1>7. ASSUME NEW i \in 1..Len(s), s[i] # h PROVE \E j \in 1..Len(s') : s'[j] = s[i]
  <2>1. i - 1 \in 1..Len(s') /\ i - 1 + 1 = i
    BY <1>1, <1>3, <1>7
  <2>2. s'[i - 1] = s[i]
    BY <1>5, <2>1
  <2> QED BY <2>1, <2>2
<1>8. \A v : (\E i \in 1..Len(s') : s'[i] = v) <=> (\E i \in 1..Len(s) : s[i] = v) /\ v # h
  <2>1. ASSUME NEW v, NEW i \in 1..Len(s'), s'[i] = v PROVE \E j \in 1..Len(s) : s[j] = v
    BY <1>2, <1>5, <2>1
  <2> QED BY <1>6, <1>7, <2>1
<1>9. ASSUME NEW i \in 1..Len(s'), NEW j \in 1..Len(s'), s'[i] = s'[j] PROVE i = j
  <2>1. i + 1 = j + 1
    BY <1>2, <1>4, <1>5, <1>9
  <2> QED BY <1>2, <2>1
<1>10. \E i \in 1..Len(s) : s[i] = h
  BY <1>1
<1> QED BY <1>1, <1>8, <1>9, <1>10 DEF InReapQueue, s, h

\* The thread that make_reapable is about.
LEMMA BurialTarget ==
    ASSUME NEW pt, NEW cx, Situation(pt, cx), NEW l \in LWPs, NEW t \in Threads, Running(l, t),
           \/ pt[t] = "make_reapable" /\ cx[t] \in Buriers \ {"join"}
           \/ pt[t] = "rest" /\ cx[t] = "make_reapable"
    PROVE  /\ tgt[t] \in Threads /\ ut_state[tgt[t]] = "UT_ZOMBIE" /\ ~InReapQueue(tgt[t])
           /\ tgt[t] = t => cx[t] = "exit"
           /\ tgt[t] # t => pt[tgt[t]] = "dead"
           /\ Has(pt[t], cx[t])
<1>1. Has(pt[t], cx[t])
  BY DEF Has
<1>2. tgt[t] \in Threads /\ ~InReapQueue(tgt[t]) /\ CallArgs(t, pt[t], cx[t])
  BY <1>1 DEF Situation, LifeInvAt, LifeTypeOK, Private, CallArgs, Custody
<1>3. /\ tgt[t] = t => cx[t] = "exit"
      /\ cx[t] = "exit" => tgt[t] = t
  BY <1>1, <1>2 DEF CallArgs
<1>4. CASE tgt[t] = t
  <2>1. cx[t] = "exit" /\ pt[t] = "make_reapable"
    BY <1>3, <1>4
  <2>2. ut_state[t] = StateOn(pt[t], cx[t])
    BY OneRuns
  <2> QED BY <1>1, <1>2, <1>3, <1>4, <2>1, <2>2 DEF StateOn
<1>5. CASE tgt[t] # t
  <2>1. HasDead(pt[t], cx[t])
    BY <1>1, <1>3, <1>5 DEF HasDead, JoinCode
  <2>2. pt[tgt[t]] = "dead"
    BY <2>1 DEF Situation, LifeInvAt, Targets
  <2> QED BY <1>1, <1>2, <1>3, <1>5, <2>2, ZombieIsDead
<1> QED BY <1>4, <1>5

\* A thread passes the one it has to the reaper.
LEMMA TargetPassed ==
    ASSUME NEW pt, NEW cx, NEW pq, NEW cd, NEW l \in LWPs, NEW t \in Threads,
           Advance(pt, cx, pq, cd, l, t), claimed' = claimed, tgt[t] \in Threads,
           reap_queue' = Append(reap_queue, tgt[t]), tgt'[t] = tgt[t],
           Has(pt[t], cx[t]), ~Has(pq[t], cd[t]), Passed(pq[tgt[t]], cd[tgt[t]]),
           Passed(pt[t], cx[t]) => Passed(pq[t], cd[t]),
           (cx[t] = "exit" => pt[t] = "exit_check") => (cd[t] = "exit" => pq[t] = "exit_check"),
           UNCHANGED ut_detached
    PROVE  Custody(pq, cd)' /\ CaredFor(pq, cd)'
<1>1. /\ Custody(pt, cx) /\ CaredFor(pt, cx) /\ reap_queue \in Seq(Threads) /\ claimed \subseteq Threads
      /\ \A v \in Threads \ {t} :
            pq[v] = pt[v] /\ cd[v] = cx[v] /\ tgt'[v] = tgt[v] /\ ut_state'[v] = ut_state[v]
      /\ ut_state'[t] \notin {"UT_NO_STATE", "UT_TRANSITION"}
      /\ \A v \in Threads : Has(pt[v], cx[v]) => tgt[v] \in Threads
  BY DEF Advance, Situation, LifeInvAt, Local, Kept, LifeTypeOK, Private, CallArgs
<1>2. ut_state[t] \notin {"UT_NO_STATE", "UT_TRANSITION"}
  BY OneRuns DEF Advance
<1>3. ~InReapQueue(tgt[t]) /\ tgt[t] \in claimed
  BY <1>1 DEF Custody
<1>4. /\ \A v : InReapQueue(v)' <=> InReapQueue(v) \/ v = tgt[t]
      /\ \A i, j \in 1..Len(reap_queue') : reap_queue'[i] = reap_queue'[j] => i = j
  BY <1>1, <1>3, ReapAppended DEF Custody
<1>5. \A v \in Threads : Has(pq[v], cd[v]) => v # t /\ Has(pt[v], cx[v]) /\ tgt'[v] = tgt[v] /\ tgt[v] # tgt[t]
  BY <1>1 DEF Custody
<1>6. \A v, w \in Threads : Has(pq[v], cd[v]) /\ Has(pq[w], cd[w]) /\ tgt'[v] = tgt'[w] => v = w
  BY <1>1, <1>5 DEF Custody
<1>7. ASSUME NEW v \in Threads, Has(pq[v], cd[v])
      PROVE  /\ ~InReapQueue(tgt[v])' /\ tgt'[v] \in claimed'
             /\ ut_state'[tgt'[v]] \notin {"UT_NO_STATE", "UT_TRANSITION"}
  <2>1. \A x, y : x = y /\ ~InReapQueue(y)' => ~InReapQueue(x)'
    OBVIOUS
  <2>2. /\ tgt'[v] = tgt[v] /\ ~InReapQueue(tgt[v]) /\ tgt[v] \in claimed /\ tgt[v] # tgt[t]
        /\ ut_state[tgt[v]] \notin {"UT_NO_STATE", "UT_TRANSITION"} /\ tgt[v] \in Threads
    BY <1>1, <1>5, <1>7 DEF Custody
  <2> QED BY <1>1, <1>4, <2>1, <2>2
<1>8. \A v \in Threads : InReapQueue(v)' => v \in claimed' /\ Passed(pq[v], cd[v])
  BY <1>1, <1>3, <1>4 DEF Custody
<1>9. \A v \in Threads : Frees(pq[v], cd[v]) => InReapQueue(tgt[v])'
  <2> TAKE v \in Threads
  <2> HAVE Frees(pq[v], cd[v])
  <2>1. tgt'[v] = tgt[v] /\ (InReapQueue(tgt[v]) \/ tgt[v] = tgt[t])
    BY <1>1 DEF Custody
  <2>2. \A x, y : x = y /\ InReapQueue(y)' => InReapQueue(x)'
    OBVIOUS
  <2> QED BY <1>4, <2>1, <2>2
<1>10. ASSUME NEW v \in claimed'
       PROVE  \/ ut_state'[v] \in {"UT_NO_STATE", "UT_TRANSITION"} \/ InReapQueue(v)'
              \/ ut_detached'[v] /\ (cd[v] = "exit" => pq[v] = "exit_check")
              \/ \E w \in Threads : Has(pq[w], cd[w]) /\ tgt'[w] = v
  <2>1. CASE v = tgt[t]
    BY <1>4, <2>1
  <2>2. CASE v # tgt[t]
    <3>1. \/ ut_state[v] \in {"UT_NO_STATE", "UT_TRANSITION"} \/ InReapQueue(v)
          \/ ut_detached[v] /\ (cx[v] = "exit" => pt[v] = "exit_check")
          \/ \E w \in Threads : Has(pt[w], cx[w]) /\ tgt[w] = v
      BY <1>1 DEF CaredFor
    <3>2. \A w \in Threads : Has(pt[w], cx[w]) /\ tgt[w] = v => Has(pq[w], cd[w]) /\ tgt'[w] = v
      BY <1>1, <2>2
    <3> QED BY <1>1, <1>2, <1>4, <3>1, <3>2
  <2> QED BY <2>1, <2>2
<1> QED BY <1>4, <1>6, <1>7, <1>8, <1>9, <1>10 DEF Custody, CaredFor

-----------------------------------------------------------------------------
(* make_reapable, from the reap queue on.                                  *)

\* The assertions of make_reapable hold.
LEMMA LifeMakeReapable ==
    ASSUME NEW pt, NEW cx, Situation(pt, cx), NEW l \in LWPs, NEW t \in Threads, halted = "none",
           MakeReapable(l, t), pt[t] # "rest"
    PROVE  LifeInv'
<1> DEFINE c == cx[t]
<1>1. /\ Running(l, t) /\ stack[t] # <<>> /\ tgt[t] \in Threads /\ ut_state[tgt[t]] = "UT_ZOMBIE"
      /\ ~InReapQueue(tgt[t]) /\ ~Contains(reap_queue, tgt[t])
      /\ tgt[t] = t => cx[t] = "exit"
      /\ tgt[t] # t => pt[tgt[t]] = "dead"
      /\ pt[t] = "make_reapable" /\ c \in Buriers \ {"join"}
      /\ ut_no_preempt_count[t] = Base(c) /\ Tail(stack[t]) = Below(c)
  <2>1. /\ Row(pt[t], cx[t], ut_no_preempt_count[t], "make_reapable", Tail(stack[t])) /\ stack[t] # <<>>
        /\ Running(l, t)
    BY AtPoint DEF MakeReapable
  <2>2. /\ pt[t] = "make_reapable" /\ c \in Buriers \ {"join"}
        /\ ut_no_preempt_count[t] = Base(c) /\ Tail(stack[t]) = Below(c)
    <3>1. Tail(stack[t]) = Below(c)
      BY <2>1, RowsOfReapables, BelowReapables
    <3> QED BY <2>1, <3>1, RowsOfReapables
  <2>3. /\ tgt[t] \in Threads /\ ut_state[tgt[t]] = "UT_ZOMBIE" /\ ~InReapQueue(tgt[t])
        /\ tgt[t] = t => cx[t] = "exit"
        /\ tgt[t] # t => pt[tgt[t]] = "dead"
    BY <2>1, <2>2, BurialTarget
  <2>4. ~Contains(reap_queue, tgt[t])
    BY <2>3 DEF Contains, InReapQueue
  <2> QED BY <2>1, <2>2, <2>3, <2>4
<1>2. /\ Private(t, "make_reapable", c) /\ LifeTypeOK /\ ut_no_preempt_count[t] \in Nat /\ c \in Contexts
  BY <1>1 DEF Situation, LifeInvAt, LifeTypeOK, SchedTypes
<1>3. /\ stack' \in [Threads -> Seq(LifeNames)] /\ stack'[t] # <<>>
      /\ Head(stack'[t]) = "cond_signal" /\ Tail(stack'[t]) = <<"reap_unlock">> \o Below(c)
      /\ \A u \in Threads \ {t} : stack'[u] = stack[u]
  <2>1. Continue(t, <<"cond_signal", "reap_unlock">>)
    BY <1>1, <1>2 DEF MakeReapable
  <2>2. "cond_signal" \in LifeNames /\ "reap_unlock" \in LifeNames
    BY NamesKnown
  <2>3. Tail(stack[t]) = Below(c)
    BY <1>1
  <2> QED BY <1>1, <1>2, <2>1, <2>2, <2>3, LifeContinue
<1>4. /\ ut_no_preempt_count' \in [Threads -> Nat] /\ ut_no_preempt_count'[t] = Base(c) + 2
      /\ \A u \in Threads \ {t} : ut_no_preempt_count'[u] = ut_no_preempt_count[u]
  <2>1. ut_no_preempt_count' = [ut_no_preempt_count EXCEPT ![t] = @ + 2]
    BY <1>1, <1>2 DEF MakeReapable
  <2>2. Base(c) \in Nat
    BY <1>2, BaseNat
  <2> QED BY <1>1, <1>2, <2>1, <2>2 DEF LifeTypeOK, SchedTypes
<1>5. /\ carg' \in [Threads -> Conds \cup {NoObj}] /\ carg'[t] = reap_cond
      /\ \A u \in Threads \ {t} : carg'[u] = carg[u]
  <2>1. carg' = [carg EXCEPT ![t] = reap_cond]
    BY <1>1 DEF MakeReapable
  <2> QED BY <1>2, <2>1, LifeObjects DEF LifeTypeOK
<1>6. reap_queue' \in Seq(Threads) /\ reap_queue' = Append(reap_queue, tgt[t])
  <2>1. reap_queue' = Append(reap_queue, tgt[t]) /\ reap_queue \in Seq(Threads)
    BY <1>1, <1>2 DEF MakeReapable, LifeTypeOK
  <2> QED BY <1>1, <2>1, QueueAppends
<1>7. UNCHANGED <<curthr, lwp, ut_state, ut_prio, runq, tq_size, runq_mtx, waitq, pmut, swarg, wakee,
                  sparg, newthr, halted, m_owner, marg, crit, ut_detached, tgt, claimed>>
  BY <1>1, <1>2 DEF MakeReapable, cpuVars, thrVars, runqVars, waitVars, argVars, mtxVars, lifeVars, SyncRest
<1>8. LifeTypeOK'
  BY <1>1, <1>2, <1>3, <1>4, <1>5, <1>6, <1>7 DEF LifeTypeOK, SchedTypes, LifeNames
<1>9. Local(t)
  <2>1. ut_state[t] \notin {"UT_NO_STATE", "UT_TRANSITION"}
    BY <1>1, OneRuns
  <2> QED BY <1>1, <1>2, <1>3, <1>4, <1>5, <1>6, <1>7, <2>1 DEF Local, Kept, runqVars
<1>10. Private(t, "cond_signal", c)'
  <2>1. Is("cond_signal", c, ut_no_preempt_count[t], stack[t])'
    <3>1. BurialRow("cond_signal", c, Base(c) + 2, "cond_signal", <<"reap_unlock">> \o Below(c))
      BY <1>1 DEF BurialRow
    <3> QED BY <1>1, <1>3, <1>4, <3>1 DEF Is, Row
  <2>2. ModeOf("cond_signal", c, OnLwp(t), ut_state[t])'
    <3>1. ut_state[t] = StateOn(pt[t], cx[t])
      BY <1>1, OneRuns
    <3>2. ut_state'[t] = StateOn("cond_signal", c)
      BY <1>1, <1>2, <1>7, <3>1 DEF StateOn, Buriers, Lockers, Preemptible
    <3> QED BY <1>1, <1>7, <3>2, StaysOn
  <2>3. SwitchArgs(t, "cond_signal")' /\ LockArgs(t, "cond_signal", c)'
    BY <1>1, <1>2, <1>4, <1>5, <1>6, <1>7 DEF Private, SwitchArgs, LockArgs, InSection, Settling,
                                              CondWaits, Sections, ReaperCode, Unlocks, Preemptible,
                                              Buriers
  <2>4. CallArgs(t, "cond_signal", c)' /\ Roles(t, "cond_signal", c)'
    BY <1>1, <1>2, <1>4, <1>5, <1>6, <1>7 DEF Private, CallArgs, Roles, Allocates, WakePoints, Has,
                                              Frees, Sections, Unlocks, JoinCode, Buriers, Preemptible,
                                              Yields
  <2> QED BY <2>1, <2>2, <2>3, <2>4 DEF Private
<1>11. PICK pq \in [Threads -> Points], cd \in [Threads -> Contexts] :
          Advance(pt, cx, pq, cd, l, t) /\ pq[t] = "cond_signal" /\ cd[t] = c
  <2>1. "cond_signal" \in Points /\ c \in Contexts
    BY <1>1, <1>2 DEF Points, Yields, Sections, Unlocks, ReaperCode, CondWaits, ExitCode, JoinCode,
                      Locks, Frees, InSection, Buriers, Preemptible, Contexts, Lockers
  <2>2. CanAdvance(pt, cx, l, t)
    BY <1>1, <1>9 DEF CanAdvance
  <2>3. MayReach(pt, cx, l, t, "cond_signal", c)
    BY <2>1, <2>2, AdvanceTo
  <2> QED BY <2>3 DEF MayReach
<1>12. Private(t, pq[t], cd[t])'
  BY <1>10, <1>11
<1>13. NewRight(pq)'
  <2>1. newthr' = newthr /\ {pt[t], pq[t]} \cap {"alloc_claim", "startonrunq"} = {}
    BY <1>1, <1>2, <1>4, <1>5, <1>6, <1>7, <1>11
  <2> QED BY <1>1, <1>11, <2>1, LocalNew DEF Advance
<1>14. PmutsRight(pq, cd)'
  <2>1. \A o \in Objs : Locks(t, pq[t], cd[t], o)' <=> Locks(t, pt[t], cx[t], o)
    BY <1>1, <1>2, <1>4, <1>5, <1>6, <1>7, <1>11 DEF Locks, Frees, Sections, Unlocks, Buriers
  <2> QED BY <1>11, <1>7, <2>1, KeepsPmuts
<1>15. MutexRight(pq, cd)'
  <2>1. /\ InSection(pq[t], cd[t]) <=> InSection(pt[t], cx[t])
        /\ {pt[t], pq[t]} \cap {"mtx_locked", "mtx_switch"} = {}
    BY <1>1, <1>2, <1>4, <1>5, <1>6, <1>7, <1>11 DEF InSection, Sections, ReaperCode, Buriers
  <2> QED BY <1>11, <1>7, <2>1, KeepsMutex
<1>16. Custody(pq, cd)'
  <2>1. Has(pt[t], cx[t]) /\ ~Has(pq[t], cd[t]) /\ ~Passed(pt[t], cx[t])
    BY <1>1, <1>11 DEF Has, Passed, Frees, JoinCode, Sections, Unlocks, Buriers, Preemptible
  <2>2. Passed(pq[tgt[t]], cd[tgt[t]])
    <3>1. CASE tgt[t] = t
      BY <1>1, <3>1, <1>11 DEF Passed, Frees, Sections, Buriers
    <3>2. CASE tgt[t] # t
      <4>1. pq[tgt[t]] = "dead"
        BY <1>1, <3>2, <1>11 DEF Advance
      <4> QED BY <4>1 DEF Passed
    <3> QED BY <3>1, <3>2
  <2>3. (cx[t] = "exit" => pt[t] = "exit_check") => (cd[t] = "exit" => pq[t] = "exit_check")
    BY <1>1, <1>11 DEF Preemptible
  <2>4. claimed' = claimed /\ tgt'[t] = tgt[t] /\ reap_queue' = Append(reap_queue, tgt[t]) /\ UNCHANGED ut_detached
    BY <1>1, <1>2, <1>4, <1>5, <1>6, <1>7, <1>11
  <2> QED BY <1>1, <1>11, <2>1, <2>2, <2>3, <2>4, TargetPassed
<1>17. Targets(pq, cd)'
  <2>1. /\ Joins(pq[t], cd[t]) => Joins(pt[t], cx[t]) /\ tgt'[t] = tgt[t]
        /\ HasDead(pq[t], cd[t]) => HasDead(pt[t], cx[t]) /\ tgt'[t] = tgt[t]
        /\ pq[t] # "detach_check"
    BY <1>1, <1>2, <1>4, <1>5, <1>6, <1>7, <1>11 DEF Joins, HasDead, Has, JoinCode, Buriers
  <2>2. HasDead(pt[t], cx[t]) => tgt[t] \in Threads /\ pt[tgt[t]] = "dead"
    BY DEF Situation, LifeInvAt, LifeTypeOK, Targets, HasDead, Private, CallArgs
  <2> QED BY <1>11, <1>7, <2>1, <2>2, KeepsTargets
<1>18. CaredFor(pq, cd)'
  <2>1. Has(pt[t], cx[t]) /\ ~Has(pq[t], cd[t]) /\ ~Passed(pt[t], cx[t])
    BY <1>1, <1>11 DEF Has, Passed, Frees, JoinCode, Sections, Unlocks, Buriers, Preemptible
  <2>2. Passed(pq[tgt[t]], cd[tgt[t]])
    <3>1. CASE tgt[t] = t
      BY <1>1, <3>1, <1>11 DEF Passed, Frees, Sections, Buriers
    <3>2. CASE tgt[t] # t
      <4>1. pq[tgt[t]] = "dead"
        BY <1>1, <3>2, <1>11 DEF Advance
      <4> QED BY <4>1 DEF Passed
    <3> QED BY <3>1, <3>2
  <2>3. (cx[t] = "exit" => pt[t] = "exit_check") => (cd[t] = "exit" => pq[t] = "exit_check")
    BY <1>1, <1>11 DEF Preemptible
  <2>4. claimed' = claimed /\ tgt'[t] = tgt[t] /\ reap_queue' = Append(reap_queue, tgt[t]) /\ UNCHANGED ut_detached
    BY <1>1, <1>2, <1>4, <1>5, <1>6, <1>7, <1>11
  <2> QED BY <1>1, <1>11, <2>1, <2>2, <2>3, <2>4, TargetPassed
<1>19. JoinsRight(pq, cd)'
  <2>1. /\ Gone(pq[t], cd[t]) <=> Gone(pt[t], cx[t])
        /\ pq[t] \notin {"join_switch", "join_woken"}
    BY <1>1, <1>2, <1>4, <1>5, <1>6, <1>7, <1>11 DEF Gone, Preemptible, Buriers
  <2> QED BY <1>11, <1>7, <2>1, KeepsJoins
<1>20. ReaperRight(pq, cd)'
  <2>1. /\ ReaperRight(pt, cx) /\ halted' = halted /\ ut_state' = ut_state
        /\ \A u \in Threads \ {t} : pq[u] = pt[u] /\ cd[u] = cx[u]
        /\ pt[t] # "reaper_scan" /\ pq[t] = "cond_signal" /\ ~Settling(pq[t], cd[t])
    BY <1>1, <1>11, <1>7 DEF Advance, Situation, LifeInvAt, Settling, Unlocks
  <2>2. \A u \in Threads \ {t} : ~Settling(pt[u], cx[u])
    BY <1>1, OneRuns, OffLwpRests
  <2>3. \A o, u : InQueue(o, u)' <=> InQueue(o, u)
    BY <1>9, LocalFrame
  <2> QED BY <2>1, <2>2, <2>3, LifeObjects DEF ReaperRight
<1> QED BY <1>7, <1>8, <1>11, <1>12, <1>13, <1>14, <1>15, <1>16, <1>17, <1>18, <1>19, <1>20, AdvanceEnds DEF Rights

LEMMA LifeMakeReapableRest ==
    ASSUME NEW pt, NEW cx, Situation(pt, cx), NEW l \in LWPs, NEW t \in Threads, halted = "none",
           MakeReapable(l, t), pt[t] = "rest"
    PROVE  LifeInv'
<1>1. /\ Running(l, t) /\ stack[t] # <<>> /\ tgt[t] \in Threads /\ ut_state[tgt[t]] = "UT_ZOMBIE"
      /\ ~InReapQueue(tgt[t]) /\ ~Contains(reap_queue, tgt[t])
      /\ tgt[t] = t => cx[t] = "exit"
      /\ tgt[t] # t => pt[tgt[t]] = "dead"
      /\ pt[t] = "rest" /\ cx[t] = "make_reapable" /\ ut_no_preempt_count[t] = 0 /\ Tail(stack[t]) = <<>>
  <2>1. /\ Row(pt[t], cx[t], ut_no_preempt_count[t], "make_reapable", Tail(stack[t])) /\ stack[t] # <<>>
        /\ Running(l, t)
    BY AtPoint DEF MakeReapable
  <2>2. /\ pt[t] = "rest" /\ cx[t] = "make_reapable" /\ ut_no_preempt_count[t] = 0 /\ Tail(stack[t]) = <<>>
    <3>1. Tail(stack[t]) = <<>>
      BY <2>1, RowsOfReapables, BelowReapables
    <3> QED BY <2>1, <3>1, RowsOfReapables
  <2>3. /\ tgt[t] \in Threads /\ ut_state[tgt[t]] = "UT_ZOMBIE" /\ ~InReapQueue(tgt[t])
        /\ tgt[t] = t => cx[t] = "exit"
        /\ tgt[t] # t => pt[tgt[t]] = "dead"
    BY <2>1, <2>2, BurialTarget
  <2>4. ~Contains(reap_queue, tgt[t])
    BY <2>3 DEF Contains, InReapQueue
  <2> QED BY <2>1, <2>2, <2>3, <2>4
<1>2. /\ Private(t, "rest", "make_reapable") /\ LifeTypeOK /\ ut_no_preempt_count[t] \in Nat
  BY <1>1 DEF Situation, LifeInvAt, LifeTypeOK, SchedTypes
<1>3. /\ stack' \in [Threads -> Seq(LifeNames)] /\ stack'[t] # <<>>
      /\ Head(stack'[t]) = "cond_signal" /\ Tail(stack'[t]) = <<"reap_unlock">> \o <<>>
      /\ \A u \in Threads \ {t} : stack'[u] = stack[u]
  <2>1. Continue(t, <<"cond_signal", "reap_unlock">>)
    BY <1>1, <1>2 DEF MakeReapable
  <2>2. "cond_signal" \in LifeNames /\ "reap_unlock" \in LifeNames
    BY NamesKnown
  <2>3. Tail(stack[t]) = <<>>
    BY <1>1
  <2> QED BY <1>1, <1>2, <2>1, <2>2, <2>3, LifeContinue
<1>4. /\ ut_no_preempt_count' \in [Threads -> Nat] /\ ut_no_preempt_count'[t] = 2
      /\ \A u \in Threads \ {t} : ut_no_preempt_count'[u] = ut_no_preempt_count[u]
  <2>1. ut_no_preempt_count' = [ut_no_preempt_count EXCEPT ![t] = @ + 2]
    BY <1>1, <1>2 DEF MakeReapable
  <2>2. ut_no_preempt_count[t] \in Nat
    BY <1>2, BaseNat
  <2> QED BY <1>1, <1>2, <2>1, <2>2 DEF LifeTypeOK, SchedTypes
<1>5. /\ carg' \in [Threads -> Conds \cup {NoObj}] /\ carg'[t] = reap_cond
      /\ \A u \in Threads \ {t} : carg'[u] = carg[u]
  <2>1. carg' = [carg EXCEPT ![t] = reap_cond]
    BY <1>1 DEF MakeReapable
  <2> QED BY <1>2, <2>1, LifeObjects DEF LifeTypeOK
<1>6. reap_queue' \in Seq(Threads) /\ reap_queue' = Append(reap_queue, tgt[t])
  <2>1. reap_queue' = Append(reap_queue, tgt[t]) /\ reap_queue \in Seq(Threads)
    BY <1>1, <1>2 DEF MakeReapable, LifeTypeOK
  <2> QED BY <1>1, <2>1, QueueAppends
<1>7. UNCHANGED <<curthr, lwp, ut_state, ut_prio, runq, tq_size, runq_mtx, waitq, pmut, swarg, wakee,
                  sparg, newthr, halted, m_owner, marg, crit, ut_detached, tgt, claimed>>
  BY <1>1, <1>2 DEF MakeReapable, cpuVars, thrVars, runqVars, waitVars, argVars, mtxVars, lifeVars, SyncRest
<1>8. LifeTypeOK'
  BY <1>1, <1>2, <1>3, <1>4, <1>5, <1>6, <1>7 DEF LifeTypeOK, SchedTypes, LifeNames
<1>9. Local(t)
  <2>1. ut_state[t] \notin {"UT_NO_STATE", "UT_TRANSITION"}
    BY <1>1, OneRuns
  <2> QED BY <1>1, <1>2, <1>3, <1>4, <1>5, <1>6, <1>7, <2>1 DEF Local, Kept, runqVars
<1>10. Private(t, "cond_signal", "join")'
  <2>1. Is("cond_signal", "join", ut_no_preempt_count[t], stack[t])'
    <3>1. BurialRow("cond_signal", "join", 2, "cond_signal", <<"reap_unlock">> \o <<>>)
      BY <1>1 DEF BurialRow, Buriers, Base, Below
    <3> QED BY <1>1, <1>3, <1>4, <3>1 DEF Is, Row
  <2>2. ModeOf("cond_signal", "join", OnLwp(t), ut_state[t])'
    <3>1. ut_state[t] = StateOn(pt[t], cx[t])
      BY <1>1, OneRuns
    <3>2. ut_state'[t] = StateOn("cond_signal", "join")
      BY <1>1, <1>2, <1>7, <3>1 DEF StateOn, Buriers, Lockers, Preemptible
    <3> QED BY <1>1, <1>7, <3>2, StaysOn
  <2>3. SwitchArgs(t, "cond_signal")' /\ LockArgs(t, "cond_signal", "join")'
    BY <1>1, <1>2, <1>4, <1>5, <1>6, <1>7 DEF Private, SwitchArgs, LockArgs, InSection, Settling,
                                              CondWaits, Sections, ReaperCode, Unlocks, Preemptible,
                                              Buriers
  <2>4. CallArgs(t, "cond_signal", "join")' /\ Roles(t, "cond_signal", "join")'
    BY <1>1, <1>2, <1>4, <1>5, <1>6, <1>7 DEF Private, CallArgs, Roles, Allocates, WakePoints, Has,
                                              Frees, Sections, Unlocks, JoinCode, Buriers, Preemptible,
                                              Yields
  <2> QED BY <2>1, <2>2, <2>3, <2>4 DEF Private
<1>11. PICK pq \in [Threads -> Points], cd \in [Threads -> Contexts] :
          Advance(pt, cx, pq, cd, l, t) /\ pq[t] = "cond_signal" /\ cd[t] = "join"
  <2>1. "cond_signal" \in Points /\ "join" \in Contexts
    BY <1>1, <1>2 DEF Points, Yields, Sections, Unlocks, ReaperCode, CondWaits, ExitCode, JoinCode,
                      Locks, Frees, InSection, Buriers, Preemptible, Contexts, Lockers
  <2>2. CanAdvance(pt, cx, l, t)
    BY <1>1, <1>9 DEF CanAdvance
  <2>3. MayReach(pt, cx, l, t, "cond_signal", "join")
    BY <2>1, <2>2, AdvanceTo
  <2> QED BY <2>3 DEF MayReach
<1>12. Private(t, pq[t], cd[t])'
  BY <1>10, <1>11
<1>13. NewRight(pq)'
  <2>1. newthr' = newthr /\ {pt[t], pq[t]} \cap {"alloc_claim", "startonrunq"} = {}
    BY <1>1, <1>2, <1>4, <1>5, <1>6, <1>7, <1>11
  <2> QED BY <1>1, <1>11, <2>1, LocalNew DEF Advance
<1>14. PmutsRight(pq, cd)'
  <2>1. \A o \in Objs : Locks(t, pq[t], cd[t], o)' <=> Locks(t, pt[t], cx[t], o)
    BY <1>1, <1>2, <1>4, <1>5, <1>6, <1>7, <1>11 DEF Locks, Frees, Sections, Unlocks, Buriers
  <2> QED BY <1>11, <1>7, <2>1, KeepsPmuts
<1>15. MutexRight(pq, cd)'
  <2>1. /\ InSection(pq[t], cd[t]) <=> InSection(pt[t], cx[t])
        /\ {pt[t], pq[t]} \cap {"mtx_locked", "mtx_switch"} = {}
    BY <1>1, <1>2, <1>4, <1>5, <1>6, <1>7, <1>11 DEF InSection, Sections, ReaperCode, Buriers
  <2> QED BY <1>11, <1>7, <2>1, KeepsMutex
<1>16. Custody(pq, cd)'
  <2>1. Has(pt[t], cx[t]) /\ ~Has(pq[t], cd[t]) /\ ~Passed(pt[t], cx[t])
    BY <1>1, <1>11 DEF Has, Passed, Frees, JoinCode, Sections, Unlocks, Buriers, Preemptible
  <2>2. Passed(pq[tgt[t]], cd[tgt[t]])
    <3>1. CASE tgt[t] = t
      BY <1>1, <3>1, <1>11 DEF Passed, Frees, Sections, Buriers
    <3>2. CASE tgt[t] # t
      <4>1. pq[tgt[t]] = "dead"
        BY <1>1, <3>2, <1>11 DEF Advance
      <4> QED BY <4>1 DEF Passed
    <3> QED BY <3>1, <3>2
  <2>3. (cx[t] = "exit" => pt[t] = "exit_check") => (cd[t] = "exit" => pq[t] = "exit_check")
    BY <1>1, <1>11 DEF Preemptible
  <2>4. claimed' = claimed /\ tgt'[t] = tgt[t] /\ reap_queue' = Append(reap_queue, tgt[t]) /\ UNCHANGED ut_detached
    BY <1>1, <1>2, <1>4, <1>5, <1>6, <1>7, <1>11
  <2> QED BY <1>1, <1>11, <2>1, <2>2, <2>3, <2>4, TargetPassed
<1>17. Targets(pq, cd)'
  <2>1. /\ Joins(pq[t], cd[t]) => Joins(pt[t], cx[t]) /\ tgt'[t] = tgt[t]
        /\ HasDead(pq[t], cd[t]) => HasDead(pt[t], cx[t]) /\ tgt'[t] = tgt[t]
        /\ pq[t] # "detach_check"
    BY <1>1, <1>2, <1>4, <1>5, <1>6, <1>7, <1>11 DEF Joins, HasDead, Has, JoinCode, Buriers
  <2>2. HasDead(pt[t], cx[t]) => tgt[t] \in Threads /\ pt[tgt[t]] = "dead"
    BY DEF Situation, LifeInvAt, LifeTypeOK, Targets, HasDead, Private, CallArgs
  <2> QED BY <1>11, <1>7, <2>1, <2>2, KeepsTargets
<1>18. CaredFor(pq, cd)'
  <2>1. Has(pt[t], cx[t]) /\ ~Has(pq[t], cd[t]) /\ ~Passed(pt[t], cx[t])
    BY <1>1, <1>11 DEF Has, Passed, Frees, JoinCode, Sections, Unlocks, Buriers, Preemptible
  <2>2. Passed(pq[tgt[t]], cd[tgt[t]])
    <3>1. CASE tgt[t] = t
      BY <1>1, <3>1, <1>11 DEF Passed, Frees, Sections, Buriers
    <3>2. CASE tgt[t] # t
      <4>1. pq[tgt[t]] = "dead"
        BY <1>1, <3>2, <1>11 DEF Advance
      <4> QED BY <4>1 DEF Passed
    <3> QED BY <3>1, <3>2
  <2>3. (cx[t] = "exit" => pt[t] = "exit_check") => (cd[t] = "exit" => pq[t] = "exit_check")
    BY <1>1, <1>11 DEF Preemptible
  <2>4. claimed' = claimed /\ tgt'[t] = tgt[t] /\ reap_queue' = Append(reap_queue, tgt[t]) /\ UNCHANGED ut_detached
    BY <1>1, <1>2, <1>4, <1>5, <1>6, <1>7, <1>11
  <2> QED BY <1>1, <1>11, <2>1, <2>2, <2>3, <2>4, TargetPassed
<1>19. JoinsRight(pq, cd)'
  <2>1. /\ Gone(pq[t], cd[t]) <=> Gone(pt[t], cx[t])
        /\ pq[t] \notin {"join_switch", "join_woken"}
    BY <1>1, <1>2, <1>4, <1>5, <1>6, <1>7, <1>11 DEF Gone, Preemptible, Buriers
  <2> QED BY <1>11, <1>7, <2>1, KeepsJoins
<1>20. ReaperRight(pq, cd)'
  <2>1. /\ ReaperRight(pt, cx) /\ halted' = halted /\ ut_state' = ut_state
        /\ \A u \in Threads \ {t} : pq[u] = pt[u] /\ cd[u] = cx[u]
        /\ pt[t] # "reaper_scan" /\ pq[t] = "cond_signal" /\ ~Settling(pq[t], cd[t])
    BY <1>1, <1>11, <1>7 DEF Advance, Situation, LifeInvAt, Settling, Unlocks
  <2>2. \A u \in Threads \ {t} : ~Settling(pt[u], cx[u])
    BY <1>1, OneRuns, OffLwpRests
  <2>3. \A o, u : InQueue(o, u)' <=> InQueue(o, u)
    BY <1>9, LocalFrame
  <2> QED BY <2>1, <2>2, <2>3, LifeObjects DEF ReaperRight
<1> QED BY <1>7, <1>8, <1>11, <1>12, <1>13, <1>14, <1>15, <1>16, <1>17, <1>18, <1>19, <1>20, AdvanceEnds DEF Rights

\* Whose ut_pmut a thread unlocks after make_reapable.
LEMMA ReleaseTarget ==
    ASSUME NEW pt, NEW cx, Situation(pt, cx), NEW l \in LWPs, NEW t \in Threads,
           ReapRelease(l, t)
    PROVE  /\ Running(l, t) /\ stack[t] # <<>> /\ pt[t] = "reap_release" /\ cx[t] \in {"join", "nopreempt_off"}
           /\ ut_no_preempt_count[t] = Base(cx[t]) + 1
           /\ tgt[t] \in Threads /\ tgt[t] # t /\ pmut[tgt[t]] = l
           /\ Frees(pt[t], cx[t])
<1>1. /\ Row(pt[t], cx[t], ut_no_preempt_count[t], "reap_release", Tail(stack[t])) /\ stack[t] # <<>>
      /\ Running(l, t) /\ tgt[t] # t
  BY AtPoint DEF ReapRelease
<1>2. /\ pt[t] = "reap_release" /\ cx[t] \in Buriers /\ ut_no_preempt_count[t] = Base(cx[t]) + 1
      /\ Tail(stack[t]) = Below(cx[t])
  BY <1>1, RowsOfSignals
<1>3. Frees(pt[t], cx[t]) /\ CallArgs(t, pt[t], cx[t]) /\ tgt \in [Threads -> Threads \cup {NoThread}]
  BY <1>2 DEF Frees, Situation, LifeInvAt, LifeTypeOK, Private
<1>4. tgt[t] \in Threads /\ cx[t] # "exit"
  BY <1>1, <1>3, LifeObjects DEF CallArgs
<1>5. pmut[tgt[t]] = l
  <2>1. tgt[t] \in Objs /\ pmut \in [Objs -> LWPs \cup {NoLwp}]
    BY <1>4, LifeObjects DEF Situation, LifeInvAt, LifeTypeOK, SchedTypes
  <2>2. Locks(t, pt[t], cx[t], tgt[t])
    BY <1>3 DEF Locks
  <2>3. pmut[tgt[t]] # NoLwp
    BY <2>1, <2>2 DEF Situation, LifeInvAt, PmutsRight
  <2> QED BY <1>1, <2>1, <2>3, OneRuns
<1> QED BY <1>1, <1>2, <1>3, <1>4, <1>5 DEF Buriers

LEMMA ReleaseTail ==
    ASSUME NEW pt, NEW cx, Situation(pt, cx), NEW l \in LWPs, NEW t \in Threads,
           ReapRelease(l, t), NEW c, cx[t] = c
    PROVE  Tail(stack[t]) = Below(c)
<1>1. Row(pt[t], cx[t], ut_no_preempt_count[t], "reap_release", Tail(stack[t]))
  BY AtPoint DEF ReapRelease
<1> QED BY <1>1, RowsOfSignals

LEMMA LifeReapReleaseJoin ==
    ASSUME NEW pt, NEW cx, Situation(pt, cx), NEW l \in LWPs, NEW t \in Threads, halted = "none",
           ReapRelease(l, t), cx[t] = "join"
    PROVE  LifeInv'
<1>1. /\ Running(l, t) /\ stack[t] # <<>> /\ pt[t] = "reap_release" /\ cx[t] = "join"
      /\ ut_no_preempt_count[t] = 1 /\ Tail(stack[t]) = <<>>
      /\ tgt[t] \in Threads /\ tgt[t] # t /\ pmut[tgt[t]] = l /\ Frees(pt[t], cx[t])
  <2>1. /\ Running(l, t) /\ stack[t] # <<>> /\ pt[t] = "reap_release"
        /\ ut_no_preempt_count[t] = Base(cx[t]) + 1 /\ Tail(stack[t]) = Below(cx[t])
        /\ tgt[t] \in Threads /\ tgt[t] # t /\ pmut[tgt[t]] = l /\ Frees(pt[t], cx[t])
    <3>1. ut_no_preempt_count[t] = Base(cx[t]) + 1
      BY ReleaseTarget
    <3>2. Tail(stack[t]) = Below(cx[t])
      BY ReleaseTail
    <3>3. /\ Running(l, t) /\ stack[t] # <<>> /\ pt[t] = "reap_release"
          /\ tgt[t] \in Threads /\ tgt[t] # t /\ pmut[tgt[t]] = l
      BY ReleaseTarget
    <3>4. Frees(pt[t], cx[t])
      BY <3>3 DEF Frees, Buriers
    <3> QED BY <3>1, <3>2, <3>3, <3>4
  <2>2. Base("join") + 1 = 1
    <3>1. Base("join") = 0
      BY Zenon DEF Base
    <3> QED BY <3>1
  <2>3. Below("join") = <<>>
    BY DEF Below
  <2> QED BY <2>1, <2>2, <2>3
<1>2. /\ Private(t, "reap_release", "join") /\ LifeTypeOK /\ ut_no_preempt_count[t] \in Nat
  BY <1>1 DEF Situation, LifeInvAt, LifeTypeOK, SchedTypes
<1>3. /\ stack' \in [Threads -> Seq(LifeNames)] /\ stack'[t] = <<>>
      /\ \A u \in Threads \ {t} : stack'[u] = stack[u]
  <2>1. Continue(t, <<>>)
    BY <1>1, <1>2 DEF ReapRelease, LeaveWithout
  <2> QED BY <1>1, <1>2, <2>1, LifeContinue
<1>4. /\ ut_no_preempt_count' \in [Threads -> Nat] /\ ut_no_preempt_count'[t] = 0
      /\ \A u \in Threads \ {t} : ut_no_preempt_count'[u] = ut_no_preempt_count[u]
  <2>1. NopreemptOff(t)
    BY <1>1, <1>2 DEF ReapRelease, LeaveWithout
  <2>2. ut_no_preempt_count[t] \in Nat
    BY <1>2, BaseNat
  <2> QED BY <1>1, <1>2, <2>1, <2>2 DEF NopreemptOff, LifeTypeOK, SchedTypes
<1>5. /\ pmut' \in [Objs -> LWPs \cup {NoLwp}] /\ pmut' = [pmut EXCEPT ![tgt[t]] = NoLwp]
  <2>1. pmut' = [pmut EXCEPT ![tgt[t]] = NoLwp]
    BY <1>1 DEF ReapRelease
  <2> QED BY <1>2, <2>1 DEF LifeTypeOK, SchedTypes
<1>6. /\ tgt' \in [Threads -> Threads \cup {NoThread}] /\ tgt'[t] = NoThread
      /\ \A u \in Threads \ {t} : tgt'[u] = tgt[u]
  BY <1>1, <1>2 DEF ReapRelease, LeaveWithout, LifeTypeOK
<1>7. UNCHANGED <<curthr, lwp, ut_state, ut_prio, runq, tq_size, runq_mtx, waitq, swarg, wakee, sparg,
                  newthr, halted, m_owner, marg, carg, crit, ut_detached, reap_queue, claimed>>
  BY <1>1, <1>2 DEF ReapRelease, LeaveWithout, cpuVars, thrVars, runqVars, waitVars, argVars, mtxVars,
                    lifeVars, SyncRest
<1>8. LifeTypeOK'
  BY <1>1, <1>2, <1>3, <1>4, <1>5, <1>6, <1>7 DEF LifeTypeOK, SchedTypes, LifeNames
<1>9. Local(t)
  <2>1. ut_state[t] \notin {"UT_NO_STATE", "UT_TRANSITION"}
    BY <1>1, OneRuns
  <2> QED BY <1>1, <1>2, <1>3, <1>4, <1>5, <1>6, <1>7, <2>1 DEF Local, Kept, runqVars
<1>10. Private(t, "rest", "client")'
  <2>1. Is("rest", "client", ut_no_preempt_count[t], stack[t])'
    <3>1. stack'[t] = <<>> /\ ut_no_preempt_count'[t] = 0
      BY <1>1, <1>3, <1>4
    <3> QED BY <3>1 DEF Is
  <2>2. ModeOf("rest", "client", OnLwp(t), ut_state[t])'
    <3>1. ut_state[t] = StateOn(pt[t], cx[t])
      BY <1>1, OneRuns
    <3>2. ut_state'[t] = StateOn("rest", "client")
      BY <1>1, <1>2, <1>7, <3>1 DEF StateOn, Buriers, Lockers, Preemptible
    <3> QED BY <1>1, <1>7, <3>2, StaysOn
  <2>3. SwitchArgs(t, "rest")' /\ LockArgs(t, "rest", "client")'
    BY <1>1, <1>2, <1>4, <1>5, <1>6, <1>7 DEF Private, SwitchArgs, LockArgs, InSection, Settling,
                                              CondWaits, Sections, ReaperCode, Unlocks, Preemptible,
                                              Buriers
  <2>4. CallArgs(t, "rest", "client")' /\ Roles(t, "rest", "client")'
    BY <1>1, <1>2, <1>4, <1>5, <1>6, <1>7 DEF Private, CallArgs, Roles, Allocates, WakePoints, Has,
                                              Frees, Sections, Unlocks, JoinCode, Buriers, Preemptible,
                                              Yields
  <2> QED BY <2>1, <2>2, <2>3, <2>4 DEF Private
<1>11. PICK pq \in [Threads -> Points], cd \in [Threads -> Contexts] :
          Advance(pt, cx, pq, cd, l, t) /\ pq[t] = "rest" /\ cd[t] = "client"
  <2>1. "rest" \in Points /\ "client" \in Contexts
    BY <1>1, <1>2 DEF Points, Yields, Sections, Unlocks, ReaperCode, CondWaits, ExitCode, JoinCode,
                      Locks, Frees, InSection, Buriers, Preemptible, Contexts, Lockers
  <2>2. CanAdvance(pt, cx, l, t)
    BY <1>1, <1>9 DEF CanAdvance
  <2>3. MayReach(pt, cx, l, t, "rest", "client")
    BY <2>1, <2>2, AdvanceTo
  <2> QED BY <2>3 DEF MayReach
<1>12. Private(t, pq[t], cd[t])'
  BY <1>10, <1>11
<1>13. NewRight(pq)'
  <2>1. newthr' = newthr /\ {pt[t], pq[t]} \cap {"alloc_claim", "startonrunq"} = {}
    BY <1>1, <1>2, <1>4, <1>5, <1>6, <1>7, <1>11
  <2> QED BY <1>1, <1>11, <2>1, LocalNew DEF Advance
<1>14. PmutsRight(pq, cd)'
  <2>1. \A x \in Objs : Locks(t, pt[t], cx[t], x) => x = tgt[t]
    BY <1>1 DEF Locks, Unlocks
  <2>2. \A x \in Objs : ~Locks(t, pq[t], cd[t], x)'
    BY <1>11 DEF Locks, Frees, Buriers, Unlocks
  <2>3. pmut' = [pmut EXCEPT ![tgt[t]] = NoLwp]
    BY <1>1, <1>2, <1>4, <1>5, <1>6, <1>7, <1>11
  <2> QED BY <1>1, <1>11, <2>1, <2>2, <2>3, LockFreed
<1>15. MutexRight(pq, cd)'
  <2>1. /\ InSection(pq[t], cd[t]) <=> InSection(pt[t], cx[t])
        /\ {pt[t], pq[t]} \cap {"mtx_locked", "mtx_switch"} = {}
    BY <1>1, <1>2, <1>4, <1>5, <1>6, <1>7, <1>11 DEF InSection, Sections, ReaperCode, Buriers
  <2> QED BY <1>11, <1>7, <2>1, KeepsMutex
<1>16. Custody(pq, cd)'
  <2>1. /\ Has(pq[t], cd[t]) => Has(pt[t], cx[t]) /\ tgt'[t] = tgt[t]
        /\ Frees(pq[t], cd[t]) => Frees(pt[t], cx[t]) /\ tgt'[t] = tgt[t]
        /\ Passed(pt[t], cx[t]) => Passed(pq[t], cd[t])
    BY <1>1, <1>2, <1>4, <1>5, <1>6, <1>7, <1>11 DEF Has, Frees, Passed, JoinCode, Sections, Unlocks, Buriers
  <2> QED BY <1>11, <1>7, <2>1, KeepsCustody
<1>17. Targets(pq, cd)'
  <2>1. /\ Joins(pq[t], cd[t]) => Joins(pt[t], cx[t]) /\ tgt'[t] = tgt[t]
        /\ HasDead(pq[t], cd[t]) => HasDead(pt[t], cx[t]) /\ tgt'[t] = tgt[t]
        /\ pq[t] # "detach_check"
    BY <1>1, <1>2, <1>4, <1>5, <1>6, <1>7, <1>11 DEF Joins, HasDead, Has, JoinCode, Buriers
  <2>2. HasDead(pt[t], cx[t]) => tgt[t] \in Threads /\ pt[tgt[t]] = "dead"
    BY DEF Situation, LifeInvAt, LifeTypeOK, Targets, HasDead, Private, CallArgs
  <2> QED BY <1>11, <1>7, <2>1, <2>2, KeepsTargets
<1>18. CaredFor(pq, cd)'
  <2>1. /\ Has(pt[t], cx[t]) => Has(pq[t], cd[t]) /\ tgt'[t] = tgt[t]
        /\ (cx[t] = "exit" => pt[t] = "exit_check") => (cd[t] = "exit" => pq[t] = "exit_check")
    BY <1>1, <1>2, <1>4, <1>5, <1>6, <1>7, <1>11 DEF Has, JoinCode, Buriers, Preemptible
  <2> QED BY <1>11, <1>7, <2>1, KeepsCare
<1>19. JoinsRight(pq, cd)'
  <2>1. /\ Gone(pq[t], cd[t]) <=> Gone(pt[t], cx[t])
        /\ pq[t] \notin {"join_switch", "join_woken"}
    BY <1>1, <1>2, <1>4, <1>5, <1>6, <1>7, <1>11 DEF Gone, Preemptible, Buriers
  <2> QED BY <1>11, <1>7, <2>1, KeepsJoins
<1>20. ReaperRight(pq, cd)'
  <2>1. /\ pt[t] = "reaper_scan" => pq[t] = "reaper_scan"
        /\ pt[t] = "cond_signal" => pq[t] = "cond_signal"
        /\ Settling(pq[t], cd[t]) => Settling(pt[t], cx[t]) \/ reap_queue = <<>>
    BY <1>1, <1>2, <1>4, <1>5, <1>6, <1>7, <1>11 DEF Settling, Unlocks, Preemptible, Buriers
  <2> QED BY <1>11, <1>7, <2>1, KeepsReaper
<1> QED BY <1>7, <1>8, <1>11, <1>12, <1>13, <1>14, <1>15, <1>16, <1>17, <1>18, <1>19, <1>20, AdvanceEnds DEF Rights

LEMMA LifeReapReleaseDetach ==
    ASSUME NEW pt, NEW cx, Situation(pt, cx), NEW l \in LWPs, NEW t \in Threads, halted = "none",
           ReapRelease(l, t), cx[t] = "nopreempt_off"
    PROVE  LifeInv'
<1>1. /\ Running(l, t) /\ stack[t] # <<>> /\ pt[t] = "reap_release" /\ cx[t] = "nopreempt_off"
      /\ ut_no_preempt_count[t] = 2 /\ Tail(stack[t]) = <<"nopreempt_off">>
      /\ tgt[t] \in Threads /\ tgt[t] # t /\ pmut[tgt[t]] = l /\ Frees(pt[t], cx[t])
  <2>1. /\ Running(l, t) /\ stack[t] # <<>> /\ pt[t] = "reap_release"
        /\ ut_no_preempt_count[t] = Base(cx[t]) + 1 /\ Tail(stack[t]) = Below(cx[t])
        /\ tgt[t] \in Threads /\ tgt[t] # t /\ pmut[tgt[t]] = l /\ Frees(pt[t], cx[t])
    <3>1. ut_no_preempt_count[t] = Base(cx[t]) + 1
      BY ReleaseTarget
    <3>2. Tail(stack[t]) = Below(cx[t])
      BY ReleaseTail
    <3>3. /\ Running(l, t) /\ stack[t] # <<>> /\ pt[t] = "reap_release"
          /\ tgt[t] \in Threads /\ tgt[t] # t /\ pmut[tgt[t]] = l
      BY ReleaseTarget
    <3>4. Frees(pt[t], cx[t])
      BY <3>3 DEF Frees, Buriers
    <3> QED BY <3>1, <3>2, <3>3, <3>4
  <2>2. Base("nopreempt_off") + 1 = 2
    <3>1. Base("nopreempt_off") = 1
      BY Zenon DEF Base
    <3> QED BY <3>1
  <2>3. Below("nopreempt_off") = <<"nopreempt_off">>
    BY DEF Below
  <2> QED BY <2>1, <2>2, <2>3
<1>2. /\ Private(t, "reap_release", "nopreempt_off") /\ LifeTypeOK /\ ut_no_preempt_count[t] \in Nat
  BY <1>1 DEF Situation, LifeInvAt, LifeTypeOK, SchedTypes
<1>3. /\ stack' \in [Threads -> Seq(LifeNames)] /\ stack'[t] = <<"nopreempt_off">>
      /\ \A u \in Threads \ {t} : stack'[u] = stack[u]
  <2>1. Continue(t, <<>>)
    BY <1>1, <1>2 DEF ReapRelease, LeaveWithout
  <2> QED BY <1>1, <1>2, <2>1, LifeContinue
<1>4. /\ ut_no_preempt_count' \in [Threads -> Nat] /\ ut_no_preempt_count'[t] = 1
      /\ \A u \in Threads \ {t} : ut_no_preempt_count'[u] = ut_no_preempt_count[u]
  <2>1. NopreemptOff(t)
    BY <1>1, <1>2 DEF ReapRelease, LeaveWithout
  <2>2. ut_no_preempt_count[t] \in Nat
    BY <1>2, BaseNat
  <2> QED BY <1>1, <1>2, <2>1, <2>2 DEF NopreemptOff, LifeTypeOK, SchedTypes
<1>5. /\ pmut' \in [Objs -> LWPs \cup {NoLwp}] /\ pmut' = [pmut EXCEPT ![tgt[t]] = NoLwp]
  <2>1. pmut' = [pmut EXCEPT ![tgt[t]] = NoLwp]
    BY <1>1 DEF ReapRelease
  <2> QED BY <1>2, <2>1 DEF LifeTypeOK, SchedTypes
<1>6. /\ tgt' \in [Threads -> Threads \cup {NoThread}] /\ tgt'[t] = NoThread
      /\ \A u \in Threads \ {t} : tgt'[u] = tgt[u]
  BY <1>1, <1>2 DEF ReapRelease, LeaveWithout, LifeTypeOK
<1>7. UNCHANGED <<curthr, lwp, ut_state, ut_prio, runq, tq_size, runq_mtx, waitq, swarg, wakee, sparg,
                  newthr, halted, m_owner, marg, carg, crit, ut_detached, reap_queue, claimed>>
  BY <1>1, <1>2 DEF ReapRelease, LeaveWithout, cpuVars, thrVars, runqVars, waitVars, argVars, mtxVars,
                    lifeVars, SyncRest
<1>8. LifeTypeOK'
  BY <1>1, <1>2, <1>3, <1>4, <1>5, <1>6, <1>7 DEF LifeTypeOK, SchedTypes, LifeNames
<1>9. Local(t)
  <2>1. ut_state[t] \notin {"UT_NO_STATE", "UT_TRANSITION"}
    BY <1>1, OneRuns
  <2> QED BY <1>1, <1>2, <1>3, <1>4, <1>5, <1>6, <1>7, <2>1 DEF Local, Kept, runqVars
<1>10. Private(t, "off", "client")'
  <2>1. Is("off", "client", ut_no_preempt_count[t], stack[t])'
    <3>1. ClientRow("off", "client", 1, "nopreempt_off", <<>>)
      BY DEF ClientRow, Preemptible, Below
    <3>2. stack'[t] # <<>> /\ Head(stack'[t]) = "nopreempt_off" /\ Tail(stack'[t]) = <<>>
      BY <1>3, NamesKnown, OneName
    <3> QED BY <1>4, <3>1, <3>2 DEF Is, Row
  <2>2. ModeOf("off", "client", OnLwp(t), ut_state[t])'
    <3>1. ut_state[t] = StateOn(pt[t], cx[t])
      BY <1>1, OneRuns
    <3>2. ut_state'[t] = StateOn("off", "client")
      BY <1>1, <1>2, <1>7, <3>1 DEF StateOn, Buriers, Lockers, Preemptible
    <3> QED BY <1>1, <1>7, <3>2, StaysOn
  <2>3. SwitchArgs(t, "off")' /\ LockArgs(t, "off", "client")'
    BY <1>1, <1>2, <1>4, <1>5, <1>6, <1>7 DEF Private, SwitchArgs, LockArgs, InSection, Settling,
                                              CondWaits, Sections, ReaperCode, Unlocks, Preemptible,
                                              Buriers
  <2>4. CallArgs(t, "off", "client")' /\ Roles(t, "off", "client")'
    BY <1>1, <1>2, <1>4, <1>5, <1>6, <1>7 DEF Private, CallArgs, Roles, Allocates, WakePoints, Has,
                                              Frees, Sections, Unlocks, JoinCode, Buriers, Preemptible,
                                              Yields
  <2> QED BY <2>1, <2>2, <2>3, <2>4 DEF Private
<1>11. PICK pq \in [Threads -> Points], cd \in [Threads -> Contexts] :
          Advance(pt, cx, pq, cd, l, t) /\ pq[t] = "off" /\ cd[t] = "client"
  <2>1. "off" \in Points /\ "client" \in Contexts
    BY <1>1, <1>2 DEF Points, Yields, Sections, Unlocks, ReaperCode, CondWaits, ExitCode, JoinCode,
                      Locks, Frees, InSection, Buriers, Preemptible, Contexts, Lockers
  <2>2. CanAdvance(pt, cx, l, t)
    BY <1>1, <1>9 DEF CanAdvance
  <2>3. MayReach(pt, cx, l, t, "off", "client")
    BY <2>1, <2>2, AdvanceTo
  <2> QED BY <2>3 DEF MayReach
<1>12. Private(t, pq[t], cd[t])'
  BY <1>10, <1>11
<1>13. NewRight(pq)'
  <2>1. newthr' = newthr /\ {pt[t], pq[t]} \cap {"alloc_claim", "startonrunq"} = {}
    BY <1>1, <1>2, <1>4, <1>5, <1>6, <1>7, <1>11
  <2> QED BY <1>1, <1>11, <2>1, LocalNew DEF Advance
<1>14. PmutsRight(pq, cd)'
  <2>1. \A x \in Objs : Locks(t, pt[t], cx[t], x) => x = tgt[t]
    BY <1>1 DEF Locks, Unlocks
  <2>2. \A x \in Objs : ~Locks(t, pq[t], cd[t], x)'
    BY <1>11 DEF Locks, Frees, Buriers, Unlocks
  <2>3. pmut' = [pmut EXCEPT ![tgt[t]] = NoLwp]
    BY <1>1, <1>2, <1>4, <1>5, <1>6, <1>7, <1>11
  <2> QED BY <1>1, <1>11, <2>1, <2>2, <2>3, LockFreed
<1>15. MutexRight(pq, cd)'
  <2>1. /\ InSection(pq[t], cd[t]) <=> InSection(pt[t], cx[t])
        /\ {pt[t], pq[t]} \cap {"mtx_locked", "mtx_switch"} = {}
    BY <1>1, <1>2, <1>4, <1>5, <1>6, <1>7, <1>11 DEF InSection, Sections, ReaperCode, Buriers
  <2> QED BY <1>11, <1>7, <2>1, KeepsMutex
<1>16. Custody(pq, cd)'
  <2>1. /\ Has(pq[t], cd[t]) => Has(pt[t], cx[t]) /\ tgt'[t] = tgt[t]
        /\ Frees(pq[t], cd[t]) => Frees(pt[t], cx[t]) /\ tgt'[t] = tgt[t]
        /\ Passed(pt[t], cx[t]) => Passed(pq[t], cd[t])
    BY <1>1, <1>2, <1>4, <1>5, <1>6, <1>7, <1>11 DEF Has, Frees, Passed, JoinCode, Sections, Unlocks, Buriers
  <2> QED BY <1>11, <1>7, <2>1, KeepsCustody
<1>17. Targets(pq, cd)'
  <2>1. /\ Joins(pq[t], cd[t]) => Joins(pt[t], cx[t]) /\ tgt'[t] = tgt[t]
        /\ HasDead(pq[t], cd[t]) => HasDead(pt[t], cx[t]) /\ tgt'[t] = tgt[t]
        /\ pq[t] # "detach_check"
    BY <1>1, <1>2, <1>4, <1>5, <1>6, <1>7, <1>11 DEF Joins, HasDead, Has, JoinCode, Buriers
  <2>2. HasDead(pt[t], cx[t]) => tgt[t] \in Threads /\ pt[tgt[t]] = "dead"
    BY DEF Situation, LifeInvAt, LifeTypeOK, Targets, HasDead, Private, CallArgs
  <2> QED BY <1>11, <1>7, <2>1, <2>2, KeepsTargets
<1>18. CaredFor(pq, cd)'
  <2>1. /\ Has(pt[t], cx[t]) => Has(pq[t], cd[t]) /\ tgt'[t] = tgt[t]
        /\ (cx[t] = "exit" => pt[t] = "exit_check") => (cd[t] = "exit" => pq[t] = "exit_check")
    BY <1>1, <1>2, <1>4, <1>5, <1>6, <1>7, <1>11 DEF Has, JoinCode, Buriers, Preemptible
  <2> QED BY <1>11, <1>7, <2>1, KeepsCare
<1>19. JoinsRight(pq, cd)'
  <2>1. /\ Gone(pq[t], cd[t]) <=> Gone(pt[t], cx[t])
        /\ pq[t] \notin {"join_switch", "join_woken"}
    BY <1>1, <1>2, <1>4, <1>5, <1>6, <1>7, <1>11 DEF Gone, Preemptible, Buriers
  <2> QED BY <1>11, <1>7, <2>1, KeepsJoins
<1>20. ReaperRight(pq, cd)'
  <2>1. /\ pt[t] = "reaper_scan" => pq[t] = "reaper_scan"
        /\ pt[t] = "cond_signal" => pq[t] = "cond_signal"
        /\ Settling(pq[t], cd[t]) => Settling(pt[t], cx[t]) \/ reap_queue = <<>>
    BY <1>1, <1>2, <1>4, <1>5, <1>6, <1>7, <1>11 DEF Settling, Unlocks, Preemptible, Buriers
  <2> QED BY <1>11, <1>7, <2>1, KeepsReaper
<1> QED BY <1>7, <1>8, <1>11, <1>12, <1>13, <1>14, <1>15, <1>16, <1>17, <1>18, <1>19, <1>20, AdvanceEnds DEF Rights

-----------------------------------------------------------------------------
(* uthread_join and uthread_detach.                                        *)

\* What is known of the threads to be passed on after a step about one of them.
LEMMA TargetsKept ==
    ASSUME NEW pt, NEW cx, NEW pq, NEW cd, NEW l \in LWPs, NEW t \in Threads,
           Advance(pt, cx, pq, cd, l, t), claimed \subseteq claimed',
           \A v \in Threads : ut_detached'[v] => ut_detached[v] \/ v \in claimed',
           \A v \in Threads : ut_detached[v] => ut_detached'[v],
           \A v \in Threads \ {t} : Joins(pt[v], cx[v]) => ~ut_detached'[tgt[v]],
           Joins(pq[t], cd[t]) => ~ut_detached'[tgt'[t]],
           HasDead(pq[t], cd[t]) => pq[tgt'[t]] = "dead",
           pq[t] = "detach_check" => ut_detached'[tgt'[t]]
    PROVE  Targets(pq, cd)'
<1>1. /\ Targets(pt, cx) /\ pt[t] # "dead"
      /\ \A v \in Threads \ {t} : pq[v] = pt[v] /\ cd[v] = cx[v] /\ tgt'[v] = tgt[v]
      /\ \A v \in Threads \ {t} : pt[v] \in Resting
  BY OneRuns, OffLwpRests DEF Advance, Situation, LifeInvAt, Local, Kept
<1>2. \A v \in Threads : HasDead(pt[v], cx[v]) => tgt[v] \in Threads
  BY DEF Advance, Situation, LifeInvAt, LifeTypeOK, HasDead, Private, CallArgs
<1>3. \A v \in Threads : Joins(pq[v], cd[v]) => ~ut_detached'[tgt'[v]]
  BY <1>1
<1>4. ASSUME NEW v \in Threads \ {t}, HasDead(pq[v], cd[v]) PROVE pq[tgt'[v]] = "dead"
  <2>1. HasDead(pt[v], cx[v]) /\ tgt'[v] = tgt[v] /\ tgt[v] \in Threads
    BY <1>1, <1>2, <1>4
  <2>2. pt[tgt[v]] = "dead"
    BY <1>1, <2>1 DEF Targets
  <2> QED BY <1>1, <2>1, <2>2
<1>5. \A v \in Threads \ {t} : pq[v] # "detach_check"
  BY <1>1 DEF Resting
<1>6. \A v \in Threads : ut_detached'[v] => v \in claimed'
  BY <1>1 DEF Targets
<1> QED BY <1>3, <1>4, <1>5, <1>6 DEF Targets

\* What is known of the joiners after a step of one of them.
LEMMA JoinsKept ==
    ASSUME NEW pt, NEW cx, NEW pq, NEW cd, NEW l \in LWPs, NEW t \in Threads,
           Advance(pt, cx, pq, cd, l, t),
           Gone(pq[t], cd[t]) <=> Gone(pt[t], cx[t]),
           pq[t] = "join_switch" => ut_state'[tgt'[t]] # "UT_ZOMBIE" /\ ~Gone(pq[tgt'[t]], cd[tgt'[t]]),
           pq[t] = "join_woken" => Gone(pq[tgt'[t]], cd[tgt'[t]])
    PROVE  JoinsRight(pq, cd)'
<1>1. /\ JoinsRight(pt, cx)
      /\ \A u \in Threads \ {t} : pq[u] = pt[u] /\ cd[u] = cx[u] /\ tgt'[u] = tgt[u] /\ pt[u] \in Resting
  BY OneRuns, OffLwpRests DEF Advance, Situation, LifeInvAt, Local, Kept
<1>2. \A u \in Threads : pt[u] = "join_woken" => tgt[u] \in Threads
  BY DEF Advance, Situation, LifeInvAt, LifeTypeOK, Private, CallArgs, Has, JoinCode
<1>3. \A u \in Threads : Gone(pq[u], cd[u]) <=> Gone(pt[u], cx[u])
  BY <1>1
<1>4. \A x, u : InQueue(x, u)' <=> InQueue(x, u)
  BY LocalFrame DEF Advance
<1>5. \A u \in Threads \ {t} : pq[u] # "join_switch"
  BY <1>1 DEF Resting
<1>6. ASSUME NEW u \in Threads \ {t}, pq[u] = "join_woken"
      PROVE  InQueue(tgt[u], u)' \/ Gone(pq[tgt'[u]], cd[tgt'[u]])
  <2>1. pt[u] = "join_woken" /\ tgt'[u] = tgt[u] /\ tgt[u] \in Threads
    BY <1>1, <1>2, <1>6
  <2>2. InQueue(tgt[u], u) \/ Gone(pt[tgt[u]], cx[tgt[u]])
    BY <1>1, <2>1 DEF JoinsRight
  <2>3. \A x, y : x = y /\ InQueue(y, u)' => InQueue(x, u)'
    OBVIOUS
  <2> QED BY <1>3, <1>4, <2>1, <2>2, <2>3
<1>7. \A u, v \in Threads : InQueue(v, u)' => ~Gone(pq[v], cd[v])
  BY <1>1, <1>3, <1>4 DEF JoinsRight
<1> QED BY <1>5, <1>6, <1>7 DEF JoinsRight

\* uthread_join.
LEMMA LifeJoin ==
    ASSUME NEW pt, NEW cx, Situation(pt, cx), NEW l \in LWPs, NEW t \in Threads, halted = "none",
           NEW u \in Threads, UthreadJoin(l, t, u)
    PROVE  LifeInv'
<1>1. /\ Running(l, t) /\ stack[t] = <<>> /\ pt[t] = "rest" /\ cx[t] = "client"
      /\ ut_no_preempt_count[t] = 0 /\ ut_state[t] = "UT_ON_CPU"
      /\ u \notin claimed /\ ut_state[u] \notin {"UT_NO_STATE", "UT_TRANSITION"} /\ t # Reaper /\ u # t
  <2>1. InClient(l, t) /\ u \notin claimed /\ Exists(u)
    BY DEF UthreadJoin
  <2>2. t # Reaper /\ u # t
    BY LifeAssumption DEF UthreadJoin
  <2> QED BY <2>1, <2>2, AtPoint DEF Exists
<1>2. /\ Private(t, "rest", "client") /\ LifeTypeOK /\ ut_no_preempt_count[t] \in Nat
  BY <1>1 DEF Situation, LifeInvAt, LifeTypeOK, SchedTypes
<1>3. /\ stack' \in [Threads -> Seq(LifeNames)] /\ stack'[t] # <<>>
      /\ Head(stack'[t]) = "join_lock" /\ Tail(stack'[t]) = <<>>
      /\ \A w \in Threads \ {t} : stack'[w] = stack[w]
  <2>1. Push(t, <<"join_lock">>)
    BY <1>1, <1>2 DEF UthreadJoin
  <2>2. "join_lock" \in LifeNames
    BY <1>1, NamesKnown
  <2> QED BY <1>1, <1>2, <2>1, <2>2, LifePush
<1>4. /\ ut_no_preempt_count' \in [Threads -> Nat] /\ ut_no_preempt_count'[t] = 1
      /\ \A w \in Threads \ {t} : ut_no_preempt_count'[w] = ut_no_preempt_count[w]
  BY <1>1, <1>2 DEF UthreadJoin, NopreemptOn, NopreemptOff, LifeTypeOK, SchedTypes, Base
<1>5. /\ tgt' \in [Threads -> Threads \cup {NoThread}] /\ tgt'[t] = u
      /\ \A w \in Threads \ {t} : tgt'[w] = tgt[w]
  BY <1>1, <1>2 DEF UthreadJoin, LifeTypeOK
<1>6. claimed' = claimed \cup {u} /\ claimed' \subseteq Threads
  BY <1>2 DEF UthreadJoin, LifeTypeOK
<1>7. UNCHANGED <<curthr, lwp, ut_state, ut_prio, runq, tq_size, runq_mtx, waitq, pmut, swarg, wakee,
                  sparg, newthr, halted, m_owner, marg, carg, crit, ut_detached, reap_queue>>
  BY <1>1, <1>2 DEF UthreadJoin, cpuVars, thrVars, runqVars, waitVars, argVars, mtxVars, lifeVars, SyncRest
<1>8. LifeTypeOK'
  BY <1>1, <1>2, <1>3, <1>4, <1>5, <1>6, <1>7 DEF LifeTypeOK, SchedTypes, LifeNames
<1>9. Local(t)
  <2>1. ut_state[t] \notin {"UT_NO_STATE", "UT_TRANSITION"}
    BY <1>1, OneRuns
  <2> QED BY <1>1, <1>2, <1>3, <1>4, <1>5, <1>6, <1>7, <2>1 DEF Local, Kept, runqVars
<1>10. Private(t, "join_lock", "join")'
  <2>1. Is("join_lock", "join", ut_no_preempt_count[t], stack[t])'
    <3>1. ClientRow("join_lock", "join", 1, "join_lock", <<>>)
      BY <1>1 DEF ClientRow
    <3> QED BY <1>1, <1>3, <1>4, <3>1 DEF Is, Row
  <2>2. ModeOf("join_lock", "join", OnLwp(t), ut_state[t])'
    <3>1. ut_state[t] = StateOn(pt[t], cx[t])
      BY <1>1, OneRuns
    <3>2. ut_state'[t] = StateOn("join_lock", "join")
      BY <1>1, <1>2, <1>7, <3>1 DEF StateOn, Buriers, Lockers, Preemptible
    <3> QED BY <1>1, <1>7, <3>2, StaysOn
  <2>3. SwitchArgs(t, "join_lock")' /\ LockArgs(t, "join_lock", "join")'
    BY <1>1, <1>2, <1>4, <1>5, <1>6, <1>7, LifeObjects DEF Private, SwitchArgs, LockArgs, InSection,
                                                           Settling, CondWaits, Sections, ReaperCode,
                                                           Unlocks, Preemptible, Buriers
  <2>4. CallArgs(t, "join_lock", "join")' /\ Roles(t, "join_lock", "join")'
    BY <1>1, <1>2, <1>4, <1>5, <1>6, <1>7, LifeObjects DEF Private, CallArgs, Roles, Allocates,
                                                           WakePoints, Has, Frees, Sections, Unlocks,
                                                           JoinCode, Buriers, Preemptible, Yields
  <2> QED BY <2>1, <2>2, <2>3, <2>4 DEF Private
<1>11. PICK pq \in [Threads -> Points], cd \in [Threads -> Contexts] :
          Advance(pt, cx, pq, cd, l, t) /\ pq[t] = "join_lock" /\ cd[t] = "join"
  <2>1. "join_lock" \in Points /\ "join" \in Contexts
    BY <1>1, <1>2 DEF Points, Yields, Sections, Unlocks, ReaperCode, CondWaits, ExitCode, JoinCode,
                      Locks, Frees, InSection, Buriers, Preemptible, Contexts, Lockers
  <2>2. CanAdvance(pt, cx, l, t)
    BY <1>1, <1>9 DEF CanAdvance
  <2>3. MayReach(pt, cx, l, t, "join_lock", "join")
    BY <2>1, <2>2, AdvanceTo
  <2> QED BY <2>3 DEF MayReach
<1>12. Private(t, pq[t], cd[t])'
  BY <1>10, <1>11
<1>13. NewRight(pq)'
  <2>1. newthr' = newthr /\ {pt[t], pq[t]} \cap {"alloc_claim", "startonrunq"} = {}
    BY <1>1, <1>2, <1>4, <1>5, <1>6, <1>7, <1>11
  <2> QED BY <1>1, <1>11, <2>1, LocalNew DEF Advance
<1>14. PmutsRight(pq, cd)'
  <2>1. \A o \in Objs : Locks(t, pq[t], cd[t], o)' <=> Locks(t, pt[t], cx[t], o)
    BY <1>1, <1>2, <1>4, <1>5, <1>6, <1>7, <1>11 DEF Locks, Frees, Sections, Unlocks, Buriers
  <2> QED BY <1>11, <1>7, <2>1, KeepsPmuts
<1>15. MutexRight(pq, cd)'
  <2>1. /\ InSection(pq[t], cd[t]) <=> InSection(pt[t], cx[t])
        /\ {pt[t], pq[t]} \cap {"mtx_locked", "mtx_switch"} = {}
    BY <1>1, <1>2, <1>4, <1>5, <1>6, <1>7, <1>11 DEF InSection, Sections, ReaperCode, Buriers
  <2> QED BY <1>11, <1>7, <2>1, KeepsMutex
<1>16. Custody(pq, cd)'
  <2>1. ~Frees(pq[t], cd[t]) /\ ~Passed(pt[t], cx[t])
    BY <1>1, <1>11 DEF Frees, Passed, Sections, Unlocks
  <2>2. ~InReapQueue(u) /\ \A v \in Threads : ~(Has(pt[v], cx[v]) /\ tgt[v] = u)
    BY <1>1, UnclaimedIsFree
  <2>3. tgt'[t] = u /\ u \in claimed' /\ claimed \subseteq claimed' /\ reap_queue' = reap_queue
    BY <1>1, <1>2, <1>4, <1>5, <1>6, <1>7, <1>11
  <2> QED BY <1>1, <1>11, <2>1, <2>2, <2>3, TargetTaken
<1>17. Targets(pq, cd)'
  <2>1. ~ut_detached[u] /\ Targets(pt, cx)
    BY <1>1, UnclaimedIsFree DEF Situation, LifeInvAt
  <2>2. /\ claimed \subseteq claimed' /\ ut_detached' = ut_detached /\ tgt'[t] = u
        /\ pq[t] = "join_lock" /\ cd[t] = "join"
    BY <1>1, <1>2, <1>4, <1>5, <1>6, <1>7, <1>11
  <2>3. ~HasDead(pq[t], cd[t])
    BY <2>2 DEF HasDead, JoinCode
  <2>4. \A v \in Threads \ {t} : Joins(pt[v], cx[v]) => ~ut_detached'[tgt[v]]
    BY <2>1, <2>2 DEF Targets
  <2> QED BY <1>11, <2>1, <2>2, <2>3, <2>4, TargetsKept
<1>18. CaredFor(pq, cd)'
  <2>1. Has(pq[t], cd[t]) /\ ~Has(pt[t], cx[t]) /\ cd[t] # "exit"
    BY <1>1, <1>11 DEF Has, JoinCode, Buriers
  <2>2. claimed' = claimed \cup {u} /\ tgt'[t] = u /\ reap_queue' = reap_queue
    BY <1>1, <1>2, <1>4, <1>5, <1>6, <1>7, <1>11
  <2>3. \A v \in Threads : ut_detached[v] => ut_detached'[v]
    BY <1>1, <1>2, <1>4, <1>5, <1>6, <1>7, <1>11
  <2> QED BY <1>11, <2>1, <2>2, <2>3, CareTaken
<1>19. JoinsRight(pq, cd)'
  <2>1. /\ Gone(pq[t], cd[t]) <=> Gone(pt[t], cx[t])
        /\ pq[t] \notin {"join_switch", "join_woken"}
    BY <1>1, <1>2, <1>4, <1>5, <1>6, <1>7, <1>11 DEF Gone, Preemptible, Buriers
  <2> QED BY <1>11, <1>7, <2>1, KeepsJoins
<1>20. ReaperRight(pq, cd)'
  <2>1. /\ pt[t] = "reaper_scan" => pq[t] = "reaper_scan"
        /\ pt[t] = "cond_signal" => pq[t] = "cond_signal"
        /\ Settling(pq[t], cd[t]) => Settling(pt[t], cx[t]) \/ reap_queue = <<>>
    BY <1>1, <1>2, <1>4, <1>5, <1>6, <1>7, <1>11 DEF Settling, Unlocks, Preemptible, Buriers
  <2> QED BY <1>11, <1>7, <2>1, KeepsReaper
<1> QED BY <1>7, <1>8, <1>11, <1>12, <1>13, <1>14, <1>15, <1>16, <1>17, <1>18, <1>19, <1>20, AdvanceEnds DEF Rights

\* Where a joiner finds the thread it joins.
LEMMA JoinTarget ==
    ASSUME NEW pt, NEW cx, Situation(pt, cx), NEW l \in LWPs, NEW t \in Threads, Running(l, t),
           pt[t] \in {"join_lock", "join_woken"}, cx[t] = "join"
    PROVE  /\ tgt[t] \in Threads /\ tgt[t] # t /\ ~ut_detached[tgt[t]] /\ Has(pt[t], cx[t])
           /\ pt[t] = "join_lock" => waitq[tgt[t]] = <<>>
<1>1. Has(pt[t], cx[t]) /\ Joins(pt[t], cx[t])
  BY DEF Has, Joins, JoinCode
<1>2. tgt[t] \in Threads /\ tgt[t] # t
  BY <1>1 DEF Situation, LifeInvAt, LifeTypeOK, Private, CallArgs
<1>3. ~ut_detached[tgt[t]]
  BY <1>1 DEF Situation, LifeInvAt, Targets
<1>4. ASSUME pt[t] = "join_lock", waitq[tgt[t]] # <<>> PROVE FALSE
  <2>1. waitq[tgt[t]] \in Seq(Threads)
    BY <1>2, LifeObjects DEF Situation, LifeInvAt, LifeTypeOK, SchedTypes
  <2> DEFINE s == waitq[tgt[t]]
             v == waitq[tgt[t]][1]
  <2>2. v \in Threads /\ InQueue(tgt[t], v)
    <3>1. s \in Seq(Threads) /\ s # <<>>
      BY <1>4, <2>1
    <3>2. 1 \in 1..Len(s) /\ s[1] \in Threads
      BY <3>1, QueueTails
    <3> QED BY <3>2 DEF InQueue
  <2>3. pt[v] = "join_woken" /\ tgt[v] = tgt[t]
    BY <1>2, <2>2 DEF Situation, LifeInvAt, WaitsRight
  <2>4. Has(pt[v], cx[v])
    BY <2>3 DEF Has, JoinCode
  <2>5. v = t
    BY <1>1, <2>2, <2>3, <2>4 DEF Situation, LifeInvAt, Custody
  <2> QED BY <1>4, <2>3, <2>5
<1> QED BY <1>1, <1>2, <1>3, <1>4

LEMMA LifeJoinSleep ==
    ASSUME NEW pt, NEW cx, Situation(pt, cx), NEW l \in LWPs, NEW t \in Threads, halted = "none",
           JoinLock(l, t), ut_state[tgt[t]] # "UT_ZOMBIE"
    PROVE  LifeInv'
<1>1. /\ Running(l, t) /\ stack[t] # <<>> /\ pt[t] = "join_lock" /\ cx[t] = "join"
      /\ ut_no_preempt_count[t] = 1 /\ Tail(stack[t]) = <<>>
      /\ tgt[t] \in Threads /\ tgt[t] # t /\ ~ut_detached[tgt[t]] /\ Has(pt[t], cx[t])
      /\ waitq[tgt[t]] = <<>> /\ ut_state[tgt[t]] # "UT_ZOMBIE" /\ JoinSleep(l, t, tgt[t]) /\ pmut[tgt[t]] = NoLwp
  <2>1. /\ Row(pt[t], cx[t], ut_no_preempt_count[t], "join_lock", Tail(stack[t])) /\ stack[t] # <<>>
        /\ Running(l, t)
    BY AtPoint DEF JoinLock
  <2>2. pt[t] = "join_lock" /\ cx[t] = "join" /\ ut_no_preempt_count[t] = 1 /\ Tail(stack[t]) = <<>>
    BY <2>1, RowsOfJoins
  <2>3. /\ tgt[t] \in Threads /\ tgt[t] # t /\ ~ut_detached[tgt[t]] /\ Has(pt[t], cx[t])
        /\ pt[t] = "join_lock" => waitq[tgt[t]] = <<>>
    BY <2>1, <2>2, JoinTarget
  <2>4. waitq[tgt[t]] = <<>> /\ ut_state[tgt[t]] # "UT_ZOMBIE" /\ JoinSleep(l, t, tgt[t]) /\ pmut[tgt[t]] = NoLwp
    BY <2>2, <2>3 DEF JoinLock
  <2> QED BY <2>1, <2>2, <2>3, <2>4
<1>2. /\ Private(t, "join_lock", "join") /\ LifeTypeOK /\ ut_no_preempt_count[t] \in Nat
  BY <1>1 DEF Situation, LifeInvAt, LifeTypeOK, SchedTypes
<1>3. /\ stack' \in [Threads -> Seq(LifeNames)] /\ stack'[t] # <<>>
      /\ Head(stack'[t]) = "switch" /\ Tail(stack'[t]) = <<"join_woken">> \o <<>>
      /\ \A u \in Threads \ {t} : stack'[u] = stack[u]
  <2>1. Continue(t, <<"switch", "join_woken">>)
    BY <1>1, <1>2 DEF JoinSleep
  <2>2. "switch" \in LifeNames /\ "join_woken" \in LifeNames
    BY <1>1, NamesKnown
  <2> QED BY <1>1, <1>2, <2>1, <2>2, LifeContinue
<1>4. /\ ut_state' \in [Threads -> UtStates] /\ ut_state'[t] = "UT_WAIT"
      /\ \A u \in Threads \ {t} : ut_state'[u] = ut_state[u]
  BY <1>1, <1>2 DEF JoinLock, JoinSleep, LifeTypeOK, SchedTypes, UtStates
<1>5. /\ pmut' \in [Objs -> LWPs \cup {NoLwp}] /\ pmut' = [pmut EXCEPT ![tgt[t]] = l]
      /\ tgt[t] \in Objs /\ pmut[tgt[t]] = NoLwp
  <2>1. pmut' = [pmut EXCEPT ![tgt[t]] = l] /\ pmut[tgt[t]] = NoLwp
    BY <1>1 DEF JoinSleep
  <2>2. tgt[t] \in Objs
    BY <1>1, LifeObjects
  <2> QED BY <1>2, <2>1, <2>2 DEF LifeTypeOK, SchedTypes
<1>6. /\ swarg' \in [Threads -> [queue : Objs \cup {NoObj}, saveonrq : BOOLEAN, pmut : Objs \cup {NoObj}]]
      /\ swarg'[t] = [queue |-> tgt[t], saveonrq |-> FALSE, pmut |-> tgt[t]]
      /\ \A u \in Threads \ {t} : swarg'[u] = swarg[u]
  <2>1. swarg' = [swarg EXCEPT ![t] = [queue |-> tgt[t], saveonrq |-> FALSE, pmut |-> tgt[t]]]
    BY <1>1 DEF JoinSleep
  <2>2. swarg \in [Threads -> [queue : Objs \cup {NoObj}, saveonrq : BOOLEAN, pmut : Objs \cup {NoObj}]]
    BY <1>2 DEF LifeTypeOK, SchedTypes
  <2>3. [queue |-> tgt[t], saveonrq |-> FALSE, pmut |-> tgt[t]] \in [queue : Objs \cup {NoObj}, saveonrq : BOOLEAN, pmut : Objs \cup {NoObj}]
    BY <1>1, LifeObjects
  <2> QED BY <2>1, <2>2, <2>3
<1>7. UNCHANGED <<curthr, lwp, ut_prio, ut_no_preempt_count, runq, tq_size, runq_mtx, waitq, wakee,
                  sparg, newthr, halted, m_owner, marg, carg, crit, ut_detached, reap_queue, tgt,
                  claimed>>
  BY <1>1, <1>2 DEF JoinLock, JoinSleep, cpuVars, thrVars, runqVars, waitVars, argVars, mtxVars,
                    lifeVars, SyncRest
<1>8. LifeTypeOK'
  BY <1>1, <1>2, <1>3, <1>4, <1>5, <1>6, <1>7 DEF LifeTypeOK, SchedTypes, LifeNames
<1>9. Local(t)
  BY <1>1, <1>2, <1>3, <1>4, <1>5, <1>6, <1>7 DEF Local, Kept, runqVars
<1>10. Private(t, "join_switch", "join")'
  <2>1. Is("join_switch", "join", ut_no_preempt_count[t], stack[t])'
    <3>1. ClientRow("join_switch", "join", 1, "switch", <<"join_woken">>)
      BY DEF ClientRow
    <3>2. <<"join_woken">> \o <<>> = <<"join_woken">>
      BY NamesKnown, OneName
    <3> QED BY <1>1, <1>3, <1>7, <3>1, <3>2 DEF Is, Row
  <2>2. ModeOf("join_switch", "join", OnLwp(t), ut_state[t])'
    <3>1. ut_state'[t] = StateOn("join_switch", "join")
      BY <1>1, <1>2, <1>4, <1>5, <1>6, <1>7 DEF StateOn, Buriers, Lockers, Preemptible
    <3> QED BY <1>1, <1>7, <3>1, StaysOn
  <2>3. SwitchArgs(t, "join_switch")' /\ LockArgs(t, "join_switch", "join")'
    BY <1>1, <1>2, <1>4, <1>5, <1>6, <1>7 DEF Private, SwitchArgs, LockArgs, InSection, Settling,
                                              CondWaits, Sections, ReaperCode, Unlocks, Preemptible,
                                              Buriers
  <2>4. CallArgs(t, "join_switch", "join")' /\ Roles(t, "join_switch", "join")'
    BY <1>1, <1>2, <1>4, <1>5, <1>6, <1>7 DEF Private, CallArgs, Roles, Allocates, WakePoints, Has,
                                              Frees, Sections, Unlocks, JoinCode, Buriers, Preemptible,
                                              Yields
  <2> QED BY <2>1, <2>2, <2>3, <2>4 DEF Private
<1>11. PICK pq \in [Threads -> Points], cd \in [Threads -> Contexts] :
          Advance(pt, cx, pq, cd, l, t) /\ pq[t] = "join_switch" /\ cd[t] = "join"
  <2>1. "join_switch" \in Points /\ "join" \in Contexts
    BY <1>1, <1>2 DEF Points, Yields, Sections, Unlocks, ReaperCode, CondWaits, ExitCode, JoinCode,
                      Locks, Frees, InSection, Buriers, Preemptible, Contexts, Lockers
  <2>2. CanAdvance(pt, cx, l, t)
    BY <1>1, <1>9 DEF CanAdvance
  <2>3. MayReach(pt, cx, l, t, "join_switch", "join")
    BY <2>1, <2>2, AdvanceTo
  <2> QED BY <2>3 DEF MayReach
<1>12. Private(t, pq[t], cd[t])'
  BY <1>10, <1>11
<1>13. NewRight(pq)'
  <2>1. newthr' = newthr /\ {pt[t], pq[t]} \cap {"alloc_claim", "startonrunq"} = {}
    BY <1>1, <1>2, <1>4, <1>5, <1>6, <1>7, <1>11
  <2> QED BY <1>1, <1>11, <2>1, LocalNew DEF Advance
<1>14. PmutsRight(pq, cd)'
  <2>1. \A o \in Objs : Locks(t, pq[t], cd[t], o)' <=> Locks(t, pt[t], cx[t], o) \/ o = tgt[t]
    BY <1>1, <1>2, <1>4, <1>5, <1>6, <1>7, <1>11 DEF Locks, Frees, Sections, Unlocks, Buriers, Preemptible
  <2>2. tgt[t] \in Objs /\ pmut' = [pmut EXCEPT ![tgt[t]] = l]
    BY <1>1, <1>2, <1>4, <1>5, <1>6, <1>7, <1>11
  <2> QED BY <1>11, <2>1, <2>2, LockTaken
<1>15. MutexRight(pq, cd)'
  <2>1. /\ InSection(pq[t], cd[t]) <=> InSection(pt[t], cx[t])
        /\ {pt[t], pq[t]} \cap {"mtx_locked", "mtx_switch"} = {}
    BY <1>1, <1>2, <1>4, <1>5, <1>6, <1>7, <1>11 DEF InSection, Sections, ReaperCode, Buriers
  <2> QED BY <1>11, <1>7, <2>1, KeepsMutex
<1>16. Custody(pq, cd)'
  <2>1. /\ Has(pq[t], cd[t]) => Has(pt[t], cx[t]) /\ tgt'[t] = tgt[t]
        /\ Frees(pq[t], cd[t]) => Frees(pt[t], cx[t]) /\ tgt'[t] = tgt[t]
        /\ Passed(pt[t], cx[t]) => Passed(pq[t], cd[t])
    BY <1>1, <1>2, <1>4, <1>5, <1>6, <1>7, <1>11 DEF Has, Frees, Passed, JoinCode, Sections, Unlocks, Buriers
  <2> QED BY <1>11, <1>7, <2>1, KeepsCustody
<1>17. Targets(pq, cd)'
  <2>1. /\ Joins(pq[t], cd[t]) => Joins(pt[t], cx[t]) /\ tgt'[t] = tgt[t]
        /\ HasDead(pq[t], cd[t]) => HasDead(pt[t], cx[t]) /\ tgt'[t] = tgt[t]
        /\ pq[t] # "detach_check"
    BY <1>1, <1>2, <1>4, <1>5, <1>6, <1>7, <1>11 DEF Joins, HasDead, Has, JoinCode, Buriers
  <2>2. HasDead(pt[t], cx[t]) => tgt[t] \in Threads /\ pt[tgt[t]] = "dead"
    BY DEF Situation, LifeInvAt, LifeTypeOK, Targets, HasDead, Private, CallArgs
  <2> QED BY <1>11, <1>7, <2>1, <2>2, KeepsTargets
<1>18. CaredFor(pq, cd)'
  <2>1. /\ Has(pt[t], cx[t]) => Has(pq[t], cd[t]) /\ tgt'[t] = tgt[t]
        /\ (cx[t] = "exit" => pt[t] = "exit_check") => (cd[t] = "exit" => pq[t] = "exit_check")
    BY <1>1, <1>2, <1>4, <1>5, <1>6, <1>7, <1>11 DEF Has, JoinCode, Buriers, Preemptible
  <2> QED BY <1>11, <1>7, <2>1, KeepsCare
<1>19. JoinsRight(pq, cd)'
  <2>1. ~Gone(pt[tgt[t]], cx[tgt[t]])
    BY <1>1, GoneIsDead
  <2>2. /\ tgt'[t] = tgt[t] /\ ut_state'[tgt[t]] = ut_state[tgt[t]]
        /\ pq[tgt[t]] = pt[tgt[t]] /\ cd[tgt[t]] = cx[tgt[t]]
    BY <1>1, <1>2, <1>4, <1>5, <1>6, <1>7, <1>11 DEF Advance
  <2>3. ~Gone(pt[t], cx[t]) /\ ~Gone(pq[t], cd[t]) /\ pq[t] = "join_switch"
    BY <1>1, <1>2, <1>4, <1>5, <1>6, <1>7, <1>11 DEF Gone
  <2>4. ut_state'[tgt'[t]] # "UT_ZOMBIE" /\ ~Gone(pq[tgt'[t]], cd[tgt'[t]])
    BY <1>1, <2>1, <2>2
  <2> QED BY <1>11, <2>3, <2>4, JoinsKept
<1>20. ReaperRight(pq, cd)'
  <2>1. /\ pt[t] = "reaper_scan" => pq[t] = "reaper_scan"
        /\ pt[t] = "cond_signal" => pq[t] = "cond_signal"
        /\ Settling(pq[t], cd[t]) => Settling(pt[t], cx[t]) \/ reap_queue = <<>>
    BY <1>1, <1>2, <1>4, <1>5, <1>6, <1>7, <1>11 DEF Settling, Unlocks, Preemptible, Buriers
  <2> QED BY <1>11, <1>7, <2>1, KeepsReaper
<1> QED BY <1>7, <1>8, <1>11, <1>12, <1>13, <1>14, <1>15, <1>16, <1>17, <1>18, <1>19, <1>20, AdvanceEnds DEF Rights

LEMMA LifeJoinZombie ==
    ASSUME NEW pt, NEW cx, Situation(pt, cx), NEW l \in LWPs, NEW t \in Threads, halted = "none",
           JoinLock(l, t), ut_state[tgt[t]] = "UT_ZOMBIE"
    PROVE  LifeInv'
<1>1. /\ Running(l, t) /\ stack[t] # <<>> /\ pt[t] = "join_lock" /\ cx[t] = "join"
      /\ ut_no_preempt_count[t] = 1 /\ Tail(stack[t]) = <<>>
      /\ tgt[t] \in Threads /\ tgt[t] # t /\ ~ut_detached[tgt[t]] /\ Has(pt[t], cx[t])
      /\ ut_state[tgt[t]] = "UT_ZOMBIE" /\ Continue(t, <<"join_woken">>)
      /\ UNCHANGED <<ut_state, pmut, swarg, ut_no_preempt_count, tgt>>
  <2>1. /\ Row(pt[t], cx[t], ut_no_preempt_count[t], "join_lock", Tail(stack[t])) /\ stack[t] # <<>>
        /\ Running(l, t)
    BY AtPoint DEF JoinLock
  <2>2. pt[t] = "join_lock" /\ cx[t] = "join" /\ ut_no_preempt_count[t] = 1 /\ Tail(stack[t]) = <<>>
    BY <2>1, RowsOfJoins
  <2>3. /\ tgt[t] \in Threads /\ tgt[t] # t /\ ~ut_detached[tgt[t]] /\ Has(pt[t], cx[t])
        /\ pt[t] = "join_lock" => waitq[tgt[t]] = <<>>
    BY <2>1, <2>2, JoinTarget
  <2>4. /\ ut_state[tgt[t]] = "UT_ZOMBIE" /\ Continue(t, <<"join_woken">>)
        /\ UNCHANGED <<ut_state, pmut, swarg, ut_no_preempt_count, tgt>>
    BY <2>2, <2>3 DEF JoinLock
  <2> QED BY <2>1, <2>2, <2>3, <2>4
<1>2. /\ Private(t, "join_lock", "join") /\ LifeTypeOK /\ ut_no_preempt_count[t] \in Nat
  BY <1>1 DEF Situation, LifeInvAt, LifeTypeOK, SchedTypes
<1>3. /\ stack' \in [Threads -> Seq(LifeNames)] /\ stack'[t] # <<>>
      /\ Head(stack'[t]) = "join_woken" /\ Tail(stack'[t]) = <<>>
      /\ \A u \in Threads \ {t} : stack'[u] = stack[u]
  <2>1. Continue(t, <<"join_woken">>)
    BY <1>1, <1>2 DEF JoinLock
  <2>2. "join_woken" \in LifeNames
    BY <1>1, NamesKnown
  <2> QED BY <1>1, <1>2, <2>1, <2>2, LifeContinue
<1>4. UNCHANGED <<curthr, lwp, ut_state, ut_prio, ut_no_preempt_count, runq, tq_size, runq_mtx, waitq,
                  pmut, swarg, wakee, sparg, newthr, halted, m_owner, marg, carg, crit, ut_detached,
                  reap_queue, tgt, claimed>>
  BY <1>1, <1>2 DEF JoinLock, cpuVars, thrVars, runqVars, waitVars, argVars, mtxVars, lifeVars, SyncRest
<1>5. LifeTypeOK'
  BY <1>1, <1>2, <1>3, <1>4 DEF LifeTypeOK, SchedTypes, LifeNames
<1>6. Local(t)
  <2>1. ut_state[t] \notin {"UT_NO_STATE", "UT_TRANSITION"}
    BY <1>1, OneRuns
  <2> QED BY <1>1, <1>2, <1>3, <1>4, <2>1 DEF Local, Kept, runqVars
<1>7. Private(t, "join_woken", "join")'
  <2>1. Is("join_woken", "join", ut_no_preempt_count[t], stack[t])'
    <3>1. ClientRow("join_woken", "join", 1, "join_woken", <<>>)
      BY <1>1 DEF ClientRow
    <3> QED BY <1>1, <1>3, <1>4, <3>1 DEF Is, Row
  <2>2. ModeOf("join_woken", "join", OnLwp(t), ut_state[t])'
    <3>1. ut_state[t] = StateOn(pt[t], cx[t])
      BY <1>1, OneRuns
    <3>2. ut_state'[t] = StateOn("join_woken", "join")
      BY <1>1, <1>2, <1>4, <3>1 DEF StateOn, Buriers, Lockers, Preemptible
    <3> QED BY <1>1, <1>4, <3>2, StaysOn
  <2>3. SwitchArgs(t, "join_woken")' /\ LockArgs(t, "join_woken", "join")'
    BY <1>1, <1>2, <1>4 DEF Private, SwitchArgs, LockArgs, InSection, Settling, CondWaits, Sections,
                            ReaperCode, Unlocks, Preemptible, Buriers
  <2>4. CallArgs(t, "join_woken", "join")' /\ Roles(t, "join_woken", "join")'
    BY <1>1, <1>2, <1>4 DEF Private, CallArgs, Roles, Allocates, WakePoints, Has, Frees, Sections,
                            Unlocks, JoinCode, Buriers, Preemptible, Yields
  <2> QED BY <2>1, <2>2, <2>3, <2>4 DEF Private
<1>8. PICK pq \in [Threads -> Points], cd \in [Threads -> Contexts] :
          Advance(pt, cx, pq, cd, l, t) /\ pq[t] = "join_woken" /\ cd[t] = "join"
  <2>1. "join_woken" \in Points /\ "join" \in Contexts
    BY <1>1, <1>2 DEF Points, Yields, Sections, Unlocks, ReaperCode, CondWaits, ExitCode, JoinCode,
                      Locks, Frees, InSection, Buriers, Preemptible, Contexts, Lockers
  <2>2. CanAdvance(pt, cx, l, t)
    BY <1>1, <1>6 DEF CanAdvance
  <2>3. MayReach(pt, cx, l, t, "join_woken", "join")
    BY <2>1, <2>2, AdvanceTo
  <2> QED BY <2>3 DEF MayReach
<1>9. Private(t, pq[t], cd[t])'
  BY <1>7, <1>8
<1>10. NewRight(pq)'
  <2>1. newthr' = newthr /\ {pt[t], pq[t]} \cap {"alloc_claim", "startonrunq"} = {}
    BY <1>1, <1>2, <1>4, <1>8
  <2> QED BY <1>1, <1>8, <2>1, LocalNew DEF Advance
<1>11. PmutsRight(pq, cd)'
  <2>1. \A o \in Objs : Locks(t, pq[t], cd[t], o)' <=> Locks(t, pt[t], cx[t], o)
    BY <1>1, <1>2, <1>4, <1>8 DEF Locks, Frees, Sections, Unlocks, Buriers
  <2> QED BY <1>8, <1>4, <2>1, KeepsPmuts
<1>12. MutexRight(pq, cd)'
  <2>1. /\ InSection(pq[t], cd[t]) <=> InSection(pt[t], cx[t])
        /\ {pt[t], pq[t]} \cap {"mtx_locked", "mtx_switch"} = {}
    BY <1>1, <1>2, <1>4, <1>8 DEF InSection, Sections, ReaperCode, Buriers
  <2> QED BY <1>8, <1>4, <2>1, KeepsMutex
<1>13. Custody(pq, cd)'
  <2>1. /\ Has(pq[t], cd[t]) => Has(pt[t], cx[t]) /\ tgt'[t] = tgt[t]
        /\ Frees(pq[t], cd[t]) => Frees(pt[t], cx[t]) /\ tgt'[t] = tgt[t]
        /\ Passed(pt[t], cx[t]) => Passed(pq[t], cd[t])
    BY <1>1, <1>2, <1>4, <1>8 DEF Has, Frees, Passed, JoinCode, Sections, Unlocks, Buriers
  <2> QED BY <1>8, <1>4, <2>1, KeepsCustody
<1>14. Targets(pq, cd)'
  <2>1. /\ Joins(pq[t], cd[t]) => Joins(pt[t], cx[t]) /\ tgt'[t] = tgt[t]
        /\ HasDead(pq[t], cd[t]) => HasDead(pt[t], cx[t]) /\ tgt'[t] = tgt[t]
        /\ pq[t] # "detach_check"
    BY <1>1, <1>2, <1>4, <1>8 DEF Joins, HasDead, Has, JoinCode, Buriers
  <2>2. HasDead(pt[t], cx[t]) => tgt[t] \in Threads /\ pt[tgt[t]] = "dead"
    BY DEF Situation, LifeInvAt, LifeTypeOK, Targets, HasDead, Private, CallArgs
  <2> QED BY <1>8, <1>4, <2>1, <2>2, KeepsTargets
<1>15. CaredFor(pq, cd)'
  <2>1. /\ Has(pt[t], cx[t]) => Has(pq[t], cd[t]) /\ tgt'[t] = tgt[t]
        /\ (cx[t] = "exit" => pt[t] = "exit_check") => (cd[t] = "exit" => pq[t] = "exit_check")
    BY <1>1, <1>2, <1>4, <1>8 DEF Has, JoinCode, Buriers, Preemptible
  <2> QED BY <1>8, <1>4, <2>1, KeepsCare
<1>16. JoinsRight(pq, cd)'
  <2>1. Gone(pt[tgt[t]], cx[tgt[t]])
    BY <1>1, ZombieIsDead
  <2>2. tgt'[t] = tgt[t] /\ pq[tgt[t]] = pt[tgt[t]] /\ cd[tgt[t]] = cx[tgt[t]]
    BY <1>1, <1>2, <1>4, <1>8 DEF Advance
  <2>3. ~Gone(pt[t], cx[t]) /\ ~Gone(pq[t], cd[t]) /\ pq[t] = "join_woken"
    BY <1>1, <1>2, <1>4, <1>8 DEF Gone
  <2>4. Gone(pq[tgt'[t]], cd[tgt'[t]])
    BY <2>1, <2>2
  <2> QED BY <1>8, <2>3, <2>4, JoinsKept
<1>17. ReaperRight(pq, cd)'
  <2>1. /\ pt[t] = "reaper_scan" => pq[t] = "reaper_scan"
        /\ pt[t] = "cond_signal" => pq[t] = "cond_signal"
        /\ Settling(pq[t], cd[t]) => Settling(pt[t], cx[t]) \/ reap_queue = <<>>
    BY <1>1, <1>2, <1>4, <1>8 DEF Settling, Unlocks, Preemptible, Buriers
  <2> QED BY <1>8, <1>4, <2>1, KeepsReaper
<1> QED BY <1>4, <1>5, <1>8, <1>9, <1>10, <1>11, <1>12, <1>13, <1>14, <1>15, <1>16, <1>17, AdvanceEnds DEF Rights

\* The assertion of uthread_join holds.
LEMMA LifeJoinWoken ==
    ASSUME NEW pt, NEW cx, Situation(pt, cx), NEW l \in LWPs, NEW t \in Threads, halted = "none",
           JoinWoken(l, t)
    PROVE  LifeInv'
<1>1. /\ Running(l, t) /\ stack[t] # <<>> /\ pt[t] = "join_woken" /\ cx[t] = "join"
      /\ ut_no_preempt_count[t] = 1 /\ Tail(stack[t]) = <<>>
      /\ tgt[t] \in Threads /\ tgt[t] # t /\ ~ut_detached[tgt[t]] /\ Has(pt[t], cx[t])
      /\ ut_state[tgt[t]] = "UT_ZOMBIE" /\ pt[tgt[t]] = "dead"
  <2>1. /\ Row(pt[t], cx[t], ut_no_preempt_count[t], "join_woken", Tail(stack[t])) /\ stack[t] # <<>>
        /\ Running(l, t)
    BY AtPoint DEF JoinWoken
  <2>2. pt[t] = "join_woken" /\ cx[t] = "join" /\ ut_no_preempt_count[t] = 1 /\ Tail(stack[t]) = <<>>
    BY <2>1, RowsOfJoins
  <2>3. /\ tgt[t] \in Threads /\ tgt[t] # t /\ ~ut_detached[tgt[t]] /\ Has(pt[t], cx[t])
        /\ pt[t] = "join_lock" => waitq[tgt[t]] = <<>>
    BY <2>1, <2>2, JoinTarget
  <2>4. ut_state[tgt[t]] = "UT_ZOMBIE" /\ pt[tgt[t]] = "dead"
    <3>1. ~InQueue(tgt[t], t)
      BY <2>1, <2>3, OneRuns, LifeObjects
    <3>2. Gone(pt[tgt[t]], cx[tgt[t]])
      BY <2>2, <3>1 DEF Situation, LifeInvAt, JoinsRight
    <3> QED BY <2>1, <2>3, <3>2, GoneIsDead
  <2> QED BY <2>1, <2>2, <2>3, <2>4
<1>2. /\ Private(t, "join_woken", "join") /\ LifeTypeOK /\ ut_no_preempt_count[t] \in Nat
  BY <1>1 DEF Situation, LifeInvAt, LifeTypeOK, SchedTypes
<1>3. /\ stack' \in [Threads -> Seq(LifeNames)] /\ stack'[t] # <<>>
      /\ Head(stack'[t]) = "join_reap" /\ Tail(stack'[t]) = <<>>
      /\ \A u \in Threads \ {t} : stack'[u] = stack[u]
  <2>1. Continue(t, <<"join_reap">>)
    BY <1>1, <1>2 DEF JoinWoken
  <2>2. "join_reap" \in LifeNames
    BY <1>1, NamesKnown
  <2> QED BY <1>1, <1>2, <2>1, <2>2, LifeContinue
<1>4. /\ ut_no_preempt_count' \in [Threads -> Nat] /\ ut_no_preempt_count'[t] = 0
      /\ \A u \in Threads \ {t} : ut_no_preempt_count'[u] = ut_no_preempt_count[u]
  BY <1>1, <1>2 DEF JoinWoken, NopreemptOn, NopreemptOff, LifeTypeOK, SchedTypes, Base
<1>5. UNCHANGED <<curthr, lwp, ut_state, ut_prio, runq, tq_size, runq_mtx, waitq, pmut, swarg, wakee,
                  sparg, newthr, halted, m_owner, marg, carg, crit, ut_detached, reap_queue, tgt,
                  claimed>>
  BY <1>1, <1>2 DEF JoinWoken, cpuVars, thrVars, runqVars, waitVars, argVars, mtxVars, lifeVars, SyncRest
<1>6. LifeTypeOK'
  BY <1>1, <1>2, <1>3, <1>4, <1>5 DEF LifeTypeOK, SchedTypes, LifeNames
<1>7. Local(t)
  <2>1. ut_state[t] \notin {"UT_NO_STATE", "UT_TRANSITION"}
    BY <1>1, OneRuns
  <2> QED BY <1>1, <1>2, <1>3, <1>4, <1>5, <2>1 DEF Local, Kept, runqVars
<1>8. Private(t, "rest", "join_reap")'
  <2>1. Is("rest", "join_reap", ut_no_preempt_count[t], stack[t])'
    <3>1. ClientRow("rest", "join_reap", 0, "join_reap", <<>>)
      BY <1>1 DEF ClientRow, Preemptible
    <3> QED BY <1>1, <1>3, <1>4, <3>1 DEF Is, Row
  <2>2. ModeOf("rest", "join_reap", OnLwp(t), ut_state[t])'
    <3>1. ut_state[t] = StateOn(pt[t], cx[t])
      BY <1>1, OneRuns
    <3>2. ut_state'[t] = StateOn("rest", "join_reap")
      BY <1>1, <1>2, <1>5, <3>1 DEF StateOn, Buriers, Lockers, Preemptible
    <3> QED BY <1>1, <1>5, <3>2, StaysOn
  <2>3. SwitchArgs(t, "rest")' /\ LockArgs(t, "rest", "join_reap")'
    BY <1>1, <1>2, <1>4, <1>5 DEF Private, SwitchArgs, LockArgs, InSection, Settling, CondWaits,
                                  Sections, ReaperCode, Unlocks, Preemptible, Buriers
  <2>4. CallArgs(t, "rest", "join_reap")' /\ Roles(t, "rest", "join_reap")'
    BY <1>1, <1>2, <1>4, <1>5 DEF Private, CallArgs, Roles, Allocates, WakePoints, Has, Frees,
                                  Sections, Unlocks, JoinCode, Buriers, Preemptible, Yields
  <2> QED BY <2>1, <2>2, <2>3, <2>4 DEF Private
<1>9. PICK pq \in [Threads -> Points], cd \in [Threads -> Contexts] :
          Advance(pt, cx, pq, cd, l, t) /\ pq[t] = "rest" /\ cd[t] = "join_reap"
  <2>1. "rest" \in Points /\ "join_reap" \in Contexts
    BY <1>1, <1>2 DEF Points, Yields, Sections, Unlocks, ReaperCode, CondWaits, ExitCode, JoinCode,
                      Locks, Frees, InSection, Buriers, Preemptible, Contexts, Lockers
  <2>2. CanAdvance(pt, cx, l, t)
    BY <1>1, <1>7 DEF CanAdvance
  <2>3. MayReach(pt, cx, l, t, "rest", "join_reap")
    BY <2>1, <2>2, AdvanceTo
  <2> QED BY <2>3 DEF MayReach
<1>10. Private(t, pq[t], cd[t])'
  BY <1>8, <1>9
<1>11. NewRight(pq)'
  <2>1. newthr' = newthr /\ {pt[t], pq[t]} \cap {"alloc_claim", "startonrunq"} = {}
    BY <1>1, <1>2, <1>4, <1>5, <1>9
  <2> QED BY <1>1, <1>9, <2>1, LocalNew DEF Advance
<1>12. PmutsRight(pq, cd)'
  <2>1. \A o \in Objs : Locks(t, pq[t], cd[t], o)' <=> Locks(t, pt[t], cx[t], o)
    BY <1>1, <1>2, <1>4, <1>5, <1>9 DEF Locks, Frees, Sections, Unlocks, Buriers
  <2> QED BY <1>9, <1>5, <2>1, KeepsPmuts
<1>13. MutexRight(pq, cd)'
  <2>1. /\ InSection(pq[t], cd[t]) <=> InSection(pt[t], cx[t])
        /\ {pt[t], pq[t]} \cap {"mtx_locked", "mtx_switch"} = {}
    BY <1>1, <1>2, <1>4, <1>5, <1>9 DEF InSection, Sections, ReaperCode, Buriers
  <2> QED BY <1>9, <1>5, <2>1, KeepsMutex
<1>14. Custody(pq, cd)'
  <2>1. /\ Has(pq[t], cd[t]) => Has(pt[t], cx[t]) /\ tgt'[t] = tgt[t]
        /\ Frees(pq[t], cd[t]) => Frees(pt[t], cx[t]) /\ tgt'[t] = tgt[t]
        /\ Passed(pt[t], cx[t]) => Passed(pq[t], cd[t])
    BY <1>1, <1>2, <1>4, <1>5, <1>9 DEF Has, Frees, Passed, JoinCode, Sections, Unlocks, Buriers
  <2> QED BY <1>9, <1>5, <2>1, KeepsCustody
<1>15. Targets(pq, cd)'
  <2>1. Targets(pt, cx) /\ Joins(pt[t], cx[t])
    BY <1>1 DEF Situation, LifeInvAt, Joins
  <2>2. tgt' = tgt /\ pq[tgt[t]] = pt[tgt[t]] /\ pq[t] = "rest" /\ ut_detached' = ut_detached /\ claimed' = claimed
    BY <1>1, <1>2, <1>4, <1>5, <1>9 DEF Advance
  <2>3. ~ut_detached'[tgt'[t]] /\ pq[tgt'[t]] = "dead"
    BY <1>1, <2>2
  <2>4. \A v \in Threads \ {t} : Joins(pt[v], cx[v]) => ~ut_detached'[tgt[v]]
    BY <2>1, <2>2 DEF Targets
  <2> QED BY <1>9, <2>2, <2>3, <2>4, TargetsKept
<1>16. CaredFor(pq, cd)'
  <2>1. /\ Has(pt[t], cx[t]) => Has(pq[t], cd[t]) /\ tgt'[t] = tgt[t]
        /\ (cx[t] = "exit" => pt[t] = "exit_check") => (cd[t] = "exit" => pq[t] = "exit_check")
    BY <1>1, <1>2, <1>4, <1>5, <1>9 DEF Has, JoinCode, Buriers, Preemptible
  <2> QED BY <1>9, <1>5, <2>1, KeepsCare
<1>17. JoinsRight(pq, cd)'
  <2>1. /\ Gone(pq[t], cd[t]) <=> Gone(pt[t], cx[t])
        /\ pq[t] \notin {"join_switch", "join_woken"}
    BY <1>1, <1>2, <1>4, <1>5, <1>9 DEF Gone, Preemptible, Buriers
  <2> QED BY <1>9, <1>5, <2>1, KeepsJoins
<1>18. ReaperRight(pq, cd)'
  <2>1. /\ pt[t] = "reaper_scan" => pq[t] = "reaper_scan"
        /\ pt[t] = "cond_signal" => pq[t] = "cond_signal"
        /\ Settling(pq[t], cd[t]) => Settling(pt[t], cx[t]) \/ reap_queue = <<>>
    BY <1>1, <1>2, <1>4, <1>5, <1>9 DEF Settling, Unlocks, Preemptible, Buriers
  <2> QED BY <1>9, <1>5, <2>1, KeepsReaper
<1> QED BY <1>5, <1>6, <1>9, <1>10, <1>11, <1>12, <1>13, <1>14, <1>15, <1>16, <1>17, <1>18, AdvanceEnds DEF Rights

\* uthread_detach.
LEMMA LifeDetach ==
    ASSUME NEW pt, NEW cx, Situation(pt, cx), NEW l \in LWPs, NEW t \in Threads, halted = "none",
           NEW u \in Threads, UthreadDetach(l, t, u)
    PROVE  LifeInv'
<1>1. /\ Running(l, t) /\ stack[t] = <<>> /\ pt[t] = "rest" /\ cx[t] = "client"
      /\ ut_no_preempt_count[t] = 0 /\ ut_state[t] = "UT_ON_CPU"
      /\ u \notin claimed /\ ut_state[u] \notin {"UT_NO_STATE", "UT_TRANSITION"} /\ t # Reaper
  <2>1. InClient(l, t) /\ u \notin claimed /\ Exists(u)
    BY DEF UthreadDetach
  <2>2. t # Reaper
    BY LifeAssumption DEF UthreadDetach
  <2> QED BY <2>1, <2>2, AtPoint DEF Exists
<1>2. /\ Private(t, "rest", "client") /\ LifeTypeOK /\ ut_no_preempt_count[t] \in Nat
  BY <1>1 DEF Situation, LifeInvAt, LifeTypeOK, SchedTypes
<1>3. /\ stack' \in [Threads -> Seq(LifeNames)] /\ stack'[t] # <<>>
      /\ Head(stack'[t]) = "detach_check" /\ Tail(stack'[t]) = <<>>
      /\ \A w \in Threads \ {t} : stack'[w] = stack[w]
  <2>1. Push(t, <<"detach_check">>)
    BY <1>1, <1>2 DEF UthreadDetach
  <2>2. "detach_check" \in LifeNames
    BY <1>1, NamesKnown
  <2> QED BY <1>1, <1>2, <2>1, <2>2, LifePush
<1>4. /\ ut_no_preempt_count' \in [Threads -> Nat] /\ ut_no_preempt_count'[t] = 1
      /\ \A w \in Threads \ {t} : ut_no_preempt_count'[w] = ut_no_preempt_count[w]
  BY <1>1, <1>2 DEF UthreadDetach, NopreemptOn, NopreemptOff, LifeTypeOK, SchedTypes, Base
<1>5. /\ tgt' \in [Threads -> Threads \cup {NoThread}] /\ tgt'[t] = u
      /\ \A w \in Threads \ {t} : tgt'[w] = tgt[w]
  BY <1>1, <1>2 DEF UthreadDetach, LifeTypeOK
<1>6. claimed' = claimed \cup {u} /\ claimed' \subseteq Threads
  BY <1>2 DEF UthreadDetach, LifeTypeOK
<1>7. ut_detached' \in [Threads -> BOOLEAN] /\ ut_detached' = [ut_detached EXCEPT ![u] = TRUE]
  BY <1>2 DEF UthreadDetach, LifeTypeOK
<1>8. UNCHANGED <<curthr, lwp, ut_state, ut_prio, runq, tq_size, runq_mtx, waitq, pmut, swarg, wakee,
                  sparg, newthr, halted, m_owner, marg, carg, crit, reap_queue>>
  BY <1>1, <1>2 DEF UthreadDetach, cpuVars, thrVars, runqVars, waitVars, argVars, mtxVars, lifeVars, SyncRest
<1>9. LifeTypeOK'
  BY <1>1, <1>2, <1>3, <1>4, <1>5, <1>6, <1>7, <1>8 DEF LifeTypeOK, SchedTypes, LifeNames
<1>10. Local(t)
  <2>1. ut_state[t] \notin {"UT_NO_STATE", "UT_TRANSITION"}
    BY <1>1, OneRuns
  <2> QED BY <1>1, <1>2, <1>3, <1>4, <1>5, <1>6, <1>7, <1>8, <2>1 DEF Local, Kept, runqVars
<1>11. Private(t, "detach_check", "nopreempt_off")'
  <2>1. Is("detach_check", "nopreempt_off", ut_no_preempt_count[t], stack[t])'
    <3>1. ClientRow("detach_check", "nopreempt_off", 1, "detach_check", <<>>)
      BY <1>1 DEF ClientRow
    <3> QED BY <1>1, <1>3, <1>4, <3>1 DEF Is, Row
  <2>2. ModeOf("detach_check", "nopreempt_off", OnLwp(t), ut_state[t])'
    <3>1. ut_state[t] = StateOn(pt[t], cx[t])
      BY <1>1, OneRuns
    <3>2. ut_state'[t] = StateOn("detach_check", "nopreempt_off")
      BY <1>1, <1>2, <1>8, <3>1 DEF StateOn, Buriers, Lockers, Preemptible
    <3> QED BY <1>1, <1>8, <3>2, StaysOn
  <2>3. SwitchArgs(t, "detach_check")' /\ LockArgs(t, "detach_check", "nopreempt_off")'
    BY <1>1, <1>2, <1>4, <1>5, <1>6, <1>7, <1>8, LifeObjects
       DEF Private, SwitchArgs, LockArgs,
                                                                        InSection, Settling, CondWaits,
                                                                        Sections, ReaperCode, Unlocks,
                                                                        Preemptible, Buriers
  <2>4. CallArgs(t, "detach_check", "nopreempt_off")' /\ Roles(t, "detach_check", "nopreempt_off")'
    BY <1>1, <1>2, <1>4, <1>5, <1>6, <1>7, <1>8, LifeObjects
       DEF Private, CallArgs, Roles,
                                                                        Allocates, WakePoints, Has,
                                                                        Frees, Sections, Unlocks,
                                                                        JoinCode, Buriers, Preemptible,
                                                                        Yields
  <2> QED BY <2>1, <2>2, <2>3, <2>4 DEF Private
<1>12. PICK pq \in [Threads -> Points], cd \in [Threads -> Contexts] :
          Advance(pt, cx, pq, cd, l, t) /\ pq[t] = "detach_check" /\ cd[t] = "nopreempt_off"
  <2>1. "detach_check" \in Points /\ "nopreempt_off" \in Contexts
    BY <1>1, <1>2 DEF Points, Yields, Sections, Unlocks, ReaperCode, CondWaits, ExitCode, JoinCode,
                      Locks, Frees, InSection, Buriers, Preemptible, Contexts, Lockers
  <2>2. CanAdvance(pt, cx, l, t)
    BY <1>1, <1>10 DEF CanAdvance
  <2>3. MayReach(pt, cx, l, t, "detach_check", "nopreempt_off")
    BY <2>1, <2>2, AdvanceTo
  <2> QED BY <2>3 DEF MayReach
<1>13. Private(t, pq[t], cd[t])'
  BY <1>11, <1>12
<1>14. NewRight(pq)'
  <2>1. newthr' = newthr /\ {pt[t], pq[t]} \cap {"alloc_claim", "startonrunq"} = {}
    BY <1>1, <1>2, <1>4, <1>5, <1>6, <1>7, <1>8, <1>12
  <2> QED BY <1>1, <1>12, <2>1, LocalNew DEF Advance
<1>15. PmutsRight(pq, cd)'
  <2>1. \A o \in Objs : Locks(t, pq[t], cd[t], o)' <=> Locks(t, pt[t], cx[t], o)
    BY <1>1, <1>2, <1>4, <1>5, <1>6, <1>7, <1>8, <1>12 DEF Locks, Frees, Sections, Unlocks, Buriers
  <2> QED BY <1>12, <1>8, <2>1, KeepsPmuts
<1>16. MutexRight(pq, cd)'
  <2>1. /\ InSection(pq[t], cd[t]) <=> InSection(pt[t], cx[t])
        /\ {pt[t], pq[t]} \cap {"mtx_locked", "mtx_switch"} = {}
    BY <1>1, <1>2, <1>4, <1>5, <1>6, <1>7, <1>8, <1>12 DEF InSection, Sections, ReaperCode, Buriers
  <2> QED BY <1>12, <1>8, <2>1, KeepsMutex
<1>17. Custody(pq, cd)'
  <2>1. ~Frees(pq[t], cd[t]) /\ ~Passed(pt[t], cx[t])
    BY <1>1, <1>12 DEF Frees, Passed, Sections, Unlocks
  <2>2. ~InReapQueue(u) /\ \A v \in Threads : ~(Has(pt[v], cx[v]) /\ tgt[v] = u)
    BY <1>1, UnclaimedIsFree
  <2>3. tgt'[t] = u /\ u \in claimed' /\ claimed \subseteq claimed' /\ reap_queue' = reap_queue
    BY <1>1, <1>2, <1>4, <1>5, <1>6, <1>7, <1>8, <1>12
  <2> QED BY <1>1, <1>12, <2>1, <2>2, <2>3, TargetTaken
<1>18. Targets(pq, cd)'
  <2>1. /\ Targets(pt, cx) /\ \A v \in Threads : ~(Has(pt[v], cx[v]) /\ tgt[v] = u)
    BY <1>1, UnclaimedIsFree DEF Situation, LifeInvAt
  <2>2. /\ claimed \subseteq claimed' /\ tgt'[t] = u /\ u \in claimed'
        /\ ut_detached'[u] /\ \A v \in Threads \ {u} : ut_detached'[v] = ut_detached[v]
        /\ pq[t] = "detach_check" /\ cd[t] = "nopreempt_off"
    BY <1>2, <1>1, <1>2, <1>4, <1>5, <1>6, <1>7, <1>8, <1>12 DEF LifeTypeOK
  <2>3. ~HasDead(pq[t], cd[t]) /\ ~Joins(pq[t], cd[t])
    BY <2>2 DEF HasDead, Joins
  <2>4. ASSUME NEW v \in Threads \ {t}, Joins(pt[v], cx[v]) PROVE ~ut_detached'[tgt[v]]
    <3>1. Has(pt[v], cx[v]) /\ ~ut_detached[tgt[v]]
      BY <2>1, <2>4 DEF Joins, Targets
    <3>2. tgt[v] \in Threads
      BY <3>1 DEF Situation, LifeInvAt, LifeTypeOK, Private, CallArgs
    <3> QED BY <2>1, <2>2, <3>1, <3>2
  <2>5. \A v \in Threads : (ut_detached'[v] => ut_detached[v] \/ v \in claimed') /\ (ut_detached[v] => ut_detached'[v])
    BY <2>2
  <2> QED BY <1>12, <2>2, <2>3, <2>4, <2>5, TargetsKept
<1>19. CaredFor(pq, cd)'
  <2>1. Has(pq[t], cd[t]) /\ ~Has(pt[t], cx[t]) /\ cd[t] # "exit"
    BY <1>1, <1>12 DEF Has, JoinCode, Buriers
  <2>2. claimed' = claimed \cup {u} /\ tgt'[t] = u /\ reap_queue' = reap_queue
    BY <1>1, <1>2, <1>4, <1>5, <1>6, <1>7, <1>8, <1>12
  <2>3. \A v \in Threads : ut_detached[v] => ut_detached'[v]
    BY <1>2, <1>1, <1>2, <1>4, <1>5, <1>6, <1>7, <1>8, <1>12 DEF LifeTypeOK
  <2> QED BY <1>12, <2>1, <2>2, <2>3, CareTaken
<1>20. JoinsRight(pq, cd)'
  <2>1. /\ Gone(pq[t], cd[t]) <=> Gone(pt[t], cx[t])
        /\ pq[t] \notin {"join_switch", "join_woken"}
    BY <1>1, <1>2, <1>4, <1>5, <1>6, <1>7, <1>8, <1>12 DEF Gone, Preemptible, Buriers
  <2> QED BY <1>12, <1>8, <2>1, KeepsJoins
<1>21. ReaperRight(pq, cd)'
  <2>1. /\ pt[t] = "reaper_scan" => pq[t] = "reaper_scan"
        /\ pt[t] = "cond_signal" => pq[t] = "cond_signal"
        /\ Settling(pq[t], cd[t]) => Settling(pt[t], cx[t]) \/ reap_queue = <<>>
    BY <1>1, <1>2, <1>4, <1>5, <1>6, <1>7, <1>8, <1>12 DEF Settling, Unlocks, Preemptible, Buriers
  <2> QED BY <1>12, <1>8, <2>1, KeepsReaper
<1> QED BY <1>8, <1>9, <1>12, <1>13, <1>14, <1>15, <1>16, <1>17, <1>18, <1>19, <1>20, <1>21, AdvanceEnds DEF Rights

\* The thread has exited already.
LEMMA LifeDetachDead ==
    ASSUME NEW pt, NEW cx, Situation(pt, cx), NEW l \in LWPs, NEW t \in Threads, halted = "none",
           DetachCheck(l, t), ut_state[tgt[t]] = "UT_ZOMBIE"
    PROVE  LifeInv'
<1>1. /\ Running(l, t) /\ stack[t] # <<>> /\ pt[t] = "detach_check" /\ cx[t] = "nopreempt_off"
      /\ ut_no_preempt_count[t] = 1 /\ Tail(stack[t]) = <<>>
      /\ tgt[t] \in Threads /\ Has(pt[t], cx[t]) /\ ut_detached[tgt[t]]
      /\ tgt[t] # t /\ pt[tgt[t]] = "dead" /\ UNCHANGED tgt
      /\ CallMtxLock(t, <<"reap_pmut", "nopreempt_off">>)
  <2>1. /\ Row(pt[t], cx[t], ut_no_preempt_count[t], "detach_check", Tail(stack[t])) /\ stack[t] # <<>>
        /\ Running(l, t)
    BY AtPoint DEF DetachCheck
  <2>2. pt[t] = "detach_check" /\ cx[t] = "nopreempt_off" /\ ut_no_preempt_count[t] = 1 /\ Tail(stack[t]) = <<>>
    BY <2>1, RowsOfJoins
  <2>3. Has(pt[t], cx[t])
    BY <2>2 DEF Has
  <2>4. tgt[t] \in Threads /\ ut_detached[tgt[t]]
    BY <2>2, <2>3 DEF Situation, LifeInvAt, LifeTypeOK, Private, CallArgs, Targets
  <2>5. /\ tgt[t] # t /\ pt[tgt[t]] = "dead" /\ UNCHANGED tgt
        /\ CallMtxLock(t, <<"reap_pmut", "nopreempt_off">>)
    <3>1. ut_state[t] = "UT_ON_CPU"
      BY <2>1, <2>2, OneRuns DEF StateOn
    <3>2. tgt[t] # t
      BY <3>1
    <3>3. pt[tgt[t]] = "dead"
      BY <2>1, <2>4, <3>2, ZombieIsDead
    <3> QED BY <3>2, <3>3 DEF DetachCheck
  <2> QED BY <2>1, <2>2, <2>3, <2>4, <2>5
<1>2. /\ Private(t, "detach_check", "nopreempt_off") /\ LifeTypeOK /\ ut_no_preempt_count[t] \in Nat
  BY <1>1 DEF Situation, LifeInvAt, LifeTypeOK, SchedTypes
<1>3. /\ stack' \in [Threads -> Seq(LifeNames)] /\ stack'[t] # <<>>
      /\ Head(stack'[t]) = "mtx_lock" /\ Tail(stack'[t]) = <<"reap_pmut">> \o <<"nopreempt_off">>
      /\ \A u \in Threads \ {t} : stack'[u] = stack[u]
  <2>1. Continue(t, <<"mtx_lock">> \o (<<"reap_pmut">> \o <<"nopreempt_off">>))
    BY <1>1, ConcatLiterals DEF CallMtxLock
  <2>2. "mtx_lock" \in LifeNames /\ "reap_pmut" \in LifeNames /\ "nopreempt_off" \in LifeNames
    BY NamesKnown
  <2> DEFINE s == <<"reap_pmut">> \o <<"nopreempt_off">>
  <2>3. s \in Seq(LifeNames)
    BY <2>2, OneName, AfterCons
  <2>4. stack' = [stack EXCEPT ![t] = (<<"mtx_lock">> \o s) \o <<>>]
    BY <1>1, <2>1 DEF Continue
  <2> HIDE DEF s
  <2>5. <<"mtx_lock">> \o s \in Seq(LifeNames) /\ <<"mtx_lock">> \o s # <<>>
        /\ Head(<<"mtx_lock">> \o s) = "mtx_lock" /\ Tail(<<"mtx_lock">> \o s) = s
    BY <2>2, <2>3, AfterCons
  <2>6. (<<"mtx_lock">> \o s) \o <<>> = <<"mtx_lock">> \o s
    BY <2>5, ConcatEmptySeq
  <2>7. stack \in [Threads -> Seq(LifeNames)]
    BY <1>2 DEF LifeTypeOK, SchedTypes, LifeNames
  <2>8. /\ stack' \in [Threads -> Seq(LifeNames)] /\ stack'[t] # <<>>
        /\ Head(stack'[t]) = "mtx_lock" /\ Tail(stack'[t]) = s
        /\ \A u \in Threads \ {t} : stack'[u] = stack[u]
    BY <2>4, <2>5, <2>6, <2>7
  <2> QED BY <2>8 DEF s
<1>4. /\ ut_no_preempt_count' \in [Threads -> Nat] /\ ut_no_preempt_count'[t] = 2
      /\ \A u \in Threads \ {t} : ut_no_preempt_count'[u] = ut_no_preempt_count[u]
  <2>1. NopreemptOn(t)
    BY <1>1, <1>2 DEF DetachCheck, CallMtxLock
  <2>2. ut_no_preempt_count[t] \in Nat
    BY <1>2, BaseNat
  <2> QED BY <1>1, <1>2, <2>1, <2>2 DEF NopreemptOn, LifeTypeOK, SchedTypes
<1>5. /\ marg' \in [Threads -> Mutexes \cup {NoObj}] /\ marg'[t] = reap_mtx
      /\ \A u \in Threads \ {t} : marg'[u] = marg[u]
  <2>1. marg' = [marg EXCEPT ![t] = reap_mtx]
    BY <1>1 DEF CallMtxLock
  <2> QED BY <1>2, <2>1, LifeObjects DEF LifeTypeOK
<1>6. UNCHANGED <<curthr, lwp, ut_state, ut_prio, runq, tq_size, runq_mtx, waitq, pmut, swarg, wakee,
                  sparg, newthr, halted, m_owner, carg, crit, ut_detached, reap_queue, tgt, claimed>>
  BY <1>1, <1>2 DEF DetachCheck, CallMtxLock, cpuVars, thrVars, runqVars, waitVars, argVars, mtxVars,
                    lifeVars, SyncRest
<1>7. LifeTypeOK'
  BY <1>1, <1>2, <1>3, <1>4, <1>5, <1>6 DEF LifeTypeOK, SchedTypes, LifeNames
<1>8. Local(t)
  <2>1. ut_state[t] \notin {"UT_NO_STATE", "UT_TRANSITION"}
    BY <1>1, OneRuns
  <2> QED BY <1>1, <1>2, <1>3, <1>4, <1>5, <1>6, <2>1 DEF Local, Kept, runqVars
<1>9. Private(t, "mtx_lock", "nopreempt_off")'
  <2>1. Is("mtx_lock", "nopreempt_off", ut_no_preempt_count[t], stack[t])'
    <3>1. LockRow("mtx_lock", "nopreempt_off", 2, "mtx_lock", <<"reap_pmut">> \o <<"nopreempt_off">>)
      BY <1>1 DEF LockRow, AfterLock, Below, Base, Lockers, Buriers
    <3> QED BY <1>1, <1>3, <1>4, <3>1 DEF Is, Row
  <2>2. ModeOf("mtx_lock", "nopreempt_off", OnLwp(t), ut_state[t])'
    <3>1. ut_state[t] = StateOn(pt[t], cx[t])
      BY <1>1, OneRuns
    <3>2. ut_state'[t] = StateOn("mtx_lock", "nopreempt_off")
      BY <1>1, <1>2, <1>6, <3>1 DEF StateOn, Buriers, Lockers, Preemptible
    <3> QED BY <1>1, <1>6, <3>2, StaysOn
  <2>3. SwitchArgs(t, "mtx_lock")' /\ LockArgs(t, "mtx_lock", "nopreempt_off")'
    BY <1>1, <1>2, <1>4, <1>5, <1>6, LifeObjects DEF Private, SwitchArgs, LockArgs, InSection,
                                                     Settling, CondWaits, Sections, ReaperCode,
                                                     Unlocks, Preemptible, Buriers
  <2>4. CallArgs(t, "mtx_lock", "nopreempt_off")' /\ Roles(t, "mtx_lock", "nopreempt_off")'
    BY <1>1, <1>2, <1>4, <1>5, <1>6, LifeObjects DEF Private, CallArgs, Roles, Allocates, WakePoints,
                                                     Has, Frees, Sections, Unlocks, JoinCode, Buriers,
                                                     Preemptible, Yields
  <2> QED BY <2>1, <2>2, <2>3, <2>4 DEF Private
<1>10. PICK pq \in [Threads -> Points], cd \in [Threads -> Contexts] :
          Advance(pt, cx, pq, cd, l, t) /\ pq[t] = "mtx_lock" /\ cd[t] = "nopreempt_off"
  <2>1. "mtx_lock" \in Points /\ "nopreempt_off" \in Contexts
    BY <1>1, <1>2 DEF Points, Yields, Sections, Unlocks, ReaperCode, CondWaits, ExitCode, JoinCode,
                      Locks, Frees, InSection, Buriers, Preemptible, Contexts, Lockers
  <2>2. CanAdvance(pt, cx, l, t)
    BY <1>1, <1>8 DEF CanAdvance
  <2>3. MayReach(pt, cx, l, t, "mtx_lock", "nopreempt_off")
    BY <2>1, <2>2, AdvanceTo
  <2> QED BY <2>3 DEF MayReach
<1>11. Private(t, pq[t], cd[t])'
  BY <1>9, <1>10
<1>12. NewRight(pq)'
  <2>1. newthr' = newthr /\ {pt[t], pq[t]} \cap {"alloc_claim", "startonrunq"} = {}
    BY <1>1, <1>2, <1>4, <1>5, <1>6, <1>10
  <2> QED BY <1>1, <1>10, <2>1, LocalNew DEF Advance
<1>13. PmutsRight(pq, cd)'
  <2>1. \A o \in Objs : Locks(t, pq[t], cd[t], o)' <=> Locks(t, pt[t], cx[t], o)
    BY <1>1, <1>2, <1>4, <1>5, <1>6, <1>10 DEF Locks, Frees, Sections, Unlocks, Buriers
  <2> QED BY <1>10, <1>6, <2>1, KeepsPmuts
<1>14. MutexRight(pq, cd)'
  <2>1. /\ InSection(pq[t], cd[t]) <=> InSection(pt[t], cx[t])
        /\ {pt[t], pq[t]} \cap {"mtx_locked", "mtx_switch"} = {}
    BY <1>1, <1>2, <1>4, <1>5, <1>6, <1>10 DEF InSection, Sections, ReaperCode, Buriers
  <2> QED BY <1>10, <1>6, <2>1, KeepsMutex
<1>15. Custody(pq, cd)'
  <2>1. /\ Has(pq[t], cd[t]) => Has(pt[t], cx[t]) /\ tgt'[t] = tgt[t]
        /\ Frees(pq[t], cd[t]) => Frees(pt[t], cx[t]) /\ tgt'[t] = tgt[t]
        /\ Passed(pt[t], cx[t]) => Passed(pq[t], cd[t])
    BY <1>1, <1>2, <1>4, <1>5, <1>6, <1>10 DEF Has, Frees, Passed, JoinCode, Sections, Unlocks, Buriers
  <2> QED BY <1>10, <1>6, <2>1, KeepsCustody
<1>16. Targets(pq, cd)'
  <2>1. Targets(pt, cx)
    BY DEF Situation, LifeInvAt
  <2>2. /\ tgt' = tgt /\ pq[tgt[t]] = pt[tgt[t]] /\ pq[t] = "mtx_lock" /\ cd[t] = "nopreempt_off"
        /\ ut_detached' = ut_detached /\ claimed' = claimed
    BY <1>1, <1>2, <1>4, <1>5, <1>6, <1>10 DEF Advance
  <2>3. pq[tgt'[t]] = "dead" /\ ~Joins(pq[t], cd[t])
    BY <1>1, <2>2 DEF Joins
  <2>4. \A v \in Threads \ {t} : Joins(pt[v], cx[v]) => ~ut_detached'[tgt[v]]
    BY <2>1, <2>2 DEF Targets
  <2> QED BY <1>10, <2>2, <2>3, <2>4, TargetsKept
<1>17. CaredFor(pq, cd)'
  <2>1. /\ Has(pt[t], cx[t]) => Has(pq[t], cd[t]) /\ tgt'[t] = tgt[t]
        /\ (cx[t] = "exit" => pt[t] = "exit_check") => (cd[t] = "exit" => pq[t] = "exit_check")
    BY <1>1, <1>2, <1>4, <1>5, <1>6, <1>10 DEF Has, JoinCode, Buriers, Preemptible
  <2> QED BY <1>10, <1>6, <2>1, KeepsCare
<1>18. JoinsRight(pq, cd)'
  <2>1. /\ Gone(pq[t], cd[t]) <=> Gone(pt[t], cx[t])
        /\ pq[t] \notin {"join_switch", "join_woken"}
    BY <1>1, <1>2, <1>4, <1>5, <1>6, <1>10 DEF Gone, Preemptible, Buriers
  <2> QED BY <1>10, <1>6, <2>1, KeepsJoins
<1>19. ReaperRight(pq, cd)'
  <2>1. /\ pt[t] = "reaper_scan" => pq[t] = "reaper_scan"
        /\ pt[t] = "cond_signal" => pq[t] = "cond_signal"
        /\ Settling(pq[t], cd[t]) => Settling(pt[t], cx[t]) \/ reap_queue = <<>>
    BY <1>1, <1>2, <1>4, <1>5, <1>6, <1>10 DEF Settling, Unlocks, Preemptible, Buriers
  <2> QED BY <1>10, <1>6, <2>1, KeepsReaper
<1> QED BY <1>6, <1>7, <1>10, <1>11, <1>12, <1>13, <1>14, <1>15, <1>16, <1>17, <1>18, <1>19, AdvanceEnds DEF Rights

LEMMA LifeDetachLive ==
    ASSUME NEW pt, NEW cx, Situation(pt, cx), NEW l \in LWPs, NEW t \in Threads, halted = "none",
           DetachCheck(l, t), ut_state[tgt[t]] # "UT_ZOMBIE"
    PROVE  LifeInv'
<1>1. /\ Running(l, t) /\ stack[t] # <<>> /\ pt[t] = "detach_check" /\ cx[t] = "nopreempt_off"
      /\ ut_no_preempt_count[t] = 1 /\ Tail(stack[t]) = <<>>
      /\ tgt[t] \in Threads /\ Has(pt[t], cx[t]) /\ ut_detached[tgt[t]]
      /\ LeaveWithout(t) /\ UNCHANGED marg /\ (tgt[t] # t /\ cx[tgt[t]] = "exit" => pt[tgt[t]] = "exit_check")
  <2>1. /\ Row(pt[t], cx[t], ut_no_preempt_count[t], "detach_check", Tail(stack[t])) /\ stack[t] # <<>>
        /\ Running(l, t)
    BY AtPoint DEF DetachCheck
  <2>2. pt[t] = "detach_check" /\ cx[t] = "nopreempt_off" /\ ut_no_preempt_count[t] = 1 /\ Tail(stack[t]) = <<>>
    BY <2>1, RowsOfJoins
  <2>3. Has(pt[t], cx[t])
    BY <2>2 DEF Has
  <2>4. tgt[t] \in Threads /\ ut_detached[tgt[t]]
    BY <2>2, <2>3 DEF Situation, LifeInvAt, LifeTypeOK, Private, CallArgs, Targets
  <2>5. LeaveWithout(t) /\ UNCHANGED marg /\ (tgt[t] # t /\ cx[tgt[t]] = "exit" => pt[tgt[t]] = "exit_check")
    <3>1. ASSUME tgt[t] # t, cx[tgt[t]] = "exit" PROVE FALSE
      <4>1. ~Gone(pt[tgt[t]], cx[tgt[t]])
        BY <2>1, <2>3, <3>1, GoneIsDead
      <4>2. ~OnLwp(tgt[t])
        BY <2>1, <2>4, <3>1, OneRuns
      <4>3. pt[tgt[t]] \in Resting
        BY <2>4, <4>2, OffLwpRests
      <4> QED BY <3>1, <4>1, <4>3 DEF Gone, Resting
    <3>2. LeaveWithout(t) /\ UNCHANGED marg
      BY DEF DetachCheck
    <3> QED BY <3>1, <3>2
  <2> QED BY <2>1, <2>2, <2>3, <2>4, <2>5
<1>2. /\ Private(t, "detach_check", "nopreempt_off") /\ LifeTypeOK /\ ut_no_preempt_count[t] \in Nat
  BY <1>1 DEF Situation, LifeInvAt, LifeTypeOK, SchedTypes
<1>3. /\ stack' \in [Threads -> Seq(LifeNames)] /\ stack'[t] = <<>>
      /\ \A u \in Threads \ {t} : stack'[u] = stack[u]
  <2>1. Continue(t, <<>>)
    BY <1>1, <1>2 DEF LeaveWithout
  <2> QED BY <1>1, <1>2, <2>1, LifeContinue
<1>4. /\ ut_no_preempt_count' \in [Threads -> Nat] /\ ut_no_preempt_count'[t] = 0
      /\ \A u \in Threads \ {t} : ut_no_preempt_count'[u] = ut_no_preempt_count[u]
  <2>1. NopreemptOff(t)
    BY <1>1, <1>2 DEF DetachCheck, LeaveWithout
  <2>2. ut_no_preempt_count[t] \in Nat
    BY <1>2, BaseNat
  <2> QED BY <1>1, <1>2, <2>1, <2>2 DEF NopreemptOff, LifeTypeOK, SchedTypes
<1>5. /\ tgt' \in [Threads -> Threads \cup {NoThread}] /\ tgt'[t] = NoThread
      /\ \A u \in Threads \ {t} : tgt'[u] = tgt[u]
  <2>1. tgt' = [tgt EXCEPT ![t] = NoThread]
    BY <1>1 DEF LeaveWithout
  <2> QED BY <1>2, <2>1 DEF LifeTypeOK
<1>6. UNCHANGED <<curthr, lwp, ut_state, ut_prio, runq, tq_size, runq_mtx, waitq, pmut, swarg, wakee,
                  sparg, newthr, halted, m_owner, marg, carg, crit, ut_detached, reap_queue, claimed>>
  BY <1>1, <1>2 DEF DetachCheck, LeaveWithout, cpuVars, thrVars, runqVars, waitVars, argVars, mtxVars,
                    lifeVars, SyncRest
<1>7. LifeTypeOK'
  BY <1>1, <1>2, <1>3, <1>4, <1>5, <1>6 DEF LifeTypeOK, SchedTypes, LifeNames
<1>8. Local(t)
  <2>1. ut_state[t] \notin {"UT_NO_STATE", "UT_TRANSITION"}
    BY <1>1, OneRuns
  <2> QED BY <1>1, <1>2, <1>3, <1>4, <1>5, <1>6, <2>1 DEF Local, Kept, runqVars
<1>9. Private(t, "rest", "client")'
  <2>1. Is("rest", "client", ut_no_preempt_count[t], stack[t])'
    <3>1. stack'[t] = <<>> /\ ut_no_preempt_count'[t] = 0
      BY <1>1, <1>3, <1>4
    <3> QED BY <3>1 DEF Is
  <2>2. ModeOf("rest", "client", OnLwp(t), ut_state[t])'
    <3>1. ut_state[t] = StateOn(pt[t], cx[t])
      BY <1>1, OneRuns
    <3>2. ut_state'[t] = StateOn("rest", "client")
      BY <1>1, <1>2, <1>6, <3>1 DEF StateOn, Buriers, Lockers, Preemptible
    <3> QED BY <1>1, <1>6, <3>2, StaysOn
  <2>3. SwitchArgs(t, "rest")' /\ LockArgs(t, "rest", "client")'
    BY <1>1, <1>2, <1>4, <1>5, <1>6 DEF Private, SwitchArgs, LockArgs, InSection, Settling, CondWaits,
                                        Sections, ReaperCode, Unlocks, Preemptible, Buriers
  <2>4. CallArgs(t, "rest", "client")' /\ Roles(t, "rest", "client")'
    BY <1>1, <1>2, <1>4, <1>5, <1>6 DEF Private, CallArgs, Roles, Allocates, WakePoints, Has, Frees,
                                        Sections, Unlocks, JoinCode, Buriers, Preemptible, Yields
  <2> QED BY <2>1, <2>2, <2>3, <2>4 DEF Private
<1>10. PICK pq \in [Threads -> Points], cd \in [Threads -> Contexts] :
          Advance(pt, cx, pq, cd, l, t) /\ pq[t] = "rest" /\ cd[t] = "client"
  <2>1. "rest" \in Points /\ "client" \in Contexts
    BY <1>1, <1>2 DEF Points, Yields, Sections, Unlocks, ReaperCode, CondWaits, ExitCode, JoinCode,
                      Locks, Frees, InSection, Buriers, Preemptible, Contexts, Lockers
  <2>2. CanAdvance(pt, cx, l, t)
    BY <1>1, <1>8 DEF CanAdvance
  <2>3. MayReach(pt, cx, l, t, "rest", "client")
    BY <2>1, <2>2, AdvanceTo
  <2> QED BY <2>3 DEF MayReach
<1>11. Private(t, pq[t], cd[t])'
  BY <1>9, <1>10
<1>12. NewRight(pq)'
  <2>1. newthr' = newthr /\ {pt[t], pq[t]} \cap {"alloc_claim", "startonrunq"} = {}
    BY <1>1, <1>2, <1>4, <1>5, <1>6, <1>10
  <2> QED BY <1>1, <1>10, <2>1, LocalNew DEF Advance
<1>13. PmutsRight(pq, cd)'
  <2>1. \A o \in Objs : Locks(t, pq[t], cd[t], o)' <=> Locks(t, pt[t], cx[t], o)
    BY <1>1, <1>2, <1>4, <1>5, <1>6, <1>10 DEF Locks, Frees, Sections, Unlocks, Buriers
  <2> QED BY <1>10, <1>6, <2>1, KeepsPmuts
<1>14. MutexRight(pq, cd)'
  <2>1. /\ InSection(pq[t], cd[t]) <=> InSection(pt[t], cx[t])
        /\ {pt[t], pq[t]} \cap {"mtx_locked", "mtx_switch"} = {}
    BY <1>1, <1>2, <1>4, <1>5, <1>6, <1>10 DEF InSection, Sections, ReaperCode, Buriers
  <2> QED BY <1>10, <1>6, <2>1, KeepsMutex
<1>15. Custody(pq, cd)'
  <2>1. /\ Has(pq[t], cd[t]) => Has(pt[t], cx[t]) /\ tgt'[t] = tgt[t]
        /\ Frees(pq[t], cd[t]) => Frees(pt[t], cx[t]) /\ tgt'[t] = tgt[t]
        /\ Passed(pt[t], cx[t]) => Passed(pq[t], cd[t])
    BY <1>1, <1>2, <1>4, <1>5, <1>6, <1>10 DEF Has, Frees, Passed, JoinCode, Sections, Unlocks, Buriers
  <2> QED BY <1>10, <1>6, <2>1, KeepsCustody
<1>16. Targets(pq, cd)'
  <2>1. /\ Joins(pq[t], cd[t]) => Joins(pt[t], cx[t]) /\ tgt'[t] = tgt[t]
        /\ HasDead(pq[t], cd[t]) => HasDead(pt[t], cx[t]) /\ tgt'[t] = tgt[t]
        /\ pq[t] # "detach_check"
    BY <1>1, <1>2, <1>4, <1>5, <1>6, <1>10 DEF Joins, HasDead, Has, JoinCode, Buriers
  <2>2. HasDead(pt[t], cx[t]) => tgt[t] \in Threads /\ pt[tgt[t]] = "dead"
    BY DEF Situation, LifeInvAt, LifeTypeOK, Targets, HasDead, Private, CallArgs
  <2> QED BY <1>10, <1>6, <2>1, <2>2, KeepsTargets
<1>17. CaredFor(pq, cd)'
  <2>1. /\ CaredFor(pt, cx) /\ claimed \subseteq Threads /\ claimed' = claimed /\ ut_detached' = ut_detached
        /\ \A v \in Threads \ {t} :
              pq[v] = pt[v] /\ cd[v] = cx[v] /\ tgt'[v] = tgt[v] /\ ut_state'[v] = ut_state[v]
        /\ ut_state' = ut_state /\ cd[t] = "client"
    BY <1>2, <1>10, <1>6 DEF Advance, Situation, LifeInvAt, LifeTypeOK, Local, Kept
  <2>2. \A v : InReapQueue(v)' <=> InReapQueue(v)
    BY <1>6 DEF InReapQueue
  <2>3. ut_detached'[tgt[t]] /\ (cd[tgt[t]] = "exit" => pq[tgt[t]] = "exit_check")
    BY <1>1, <2>1
  <2>4. ASSUME NEW v \in claimed, v # tgt[t]
        PROVE  \/ ut_state'[v] \in {"UT_NO_STATE", "UT_TRANSITION"} \/ InReapQueue(v)'
               \/ ut_detached'[v] /\ (cd[v] = "exit" => pq[v] = "exit_check")
               \/ \E w \in Threads : Has(pq[w], cd[w]) /\ tgt'[w] = v
    <3>1. \A w \in Threads : Has(pt[w], cx[w]) /\ tgt[w] = v => Has(pq[w], cd[w]) /\ tgt'[w] = v
      BY <2>1, <2>4
    <3>2. ut_detached[v] /\ (cx[v] = "exit" => pt[v] = "exit_check") => ut_detached'[v] /\ (cd[v] = "exit" => pq[v] = "exit_check")
      BY <2>1
    <3> QED BY <2>1, <2>2, <3>1, <3>2 DEF CaredFor
  <2> QED BY <2>1, <2>3, <2>4 DEF CaredFor
<1>18. JoinsRight(pq, cd)'
  <2>1. /\ Gone(pq[t], cd[t]) <=> Gone(pt[t], cx[t])
        /\ pq[t] \notin {"join_switch", "join_woken"}
    BY <1>1, <1>2, <1>4, <1>5, <1>6, <1>10 DEF Gone, Preemptible, Buriers
  <2> QED BY <1>10, <1>6, <2>1, KeepsJoins
<1>19. ReaperRight(pq, cd)'
  <2>1. /\ pt[t] = "reaper_scan" => pq[t] = "reaper_scan"
        /\ pt[t] = "cond_signal" => pq[t] = "cond_signal"
        /\ Settling(pq[t], cd[t]) => Settling(pt[t], cx[t]) \/ reap_queue = <<>>
    BY <1>1, <1>2, <1>4, <1>5, <1>6, <1>10 DEF Settling, Unlocks, Preemptible, Buriers
  <2> QED BY <1>10, <1>6, <2>1, KeepsReaper
<1> QED BY <1>6, <1>7, <1>10, <1>11, <1>12, <1>13, <1>14, <1>15, <1>16, <1>17, <1>18, <1>19, AdvanceEnds DEF Rights

-----------------------------------------------------------------------------
(* The reaper at its queue.                                                *)

\* The oldest thread of the reap queue.
LEMMA ReapHead ==
    ASSUME NEW pt, NEW cx, Situation(pt, cx), NEW l \in LWPs, NEW t \in Threads, Running(l, t),
           pt[t] \in ReaperCode, reap_queue # <<>>
    PROVE  /\ Head(reap_queue) \in Threads /\ Head(reap_queue) # t /\ InReapQueue(Head(reap_queue))
           /\ pt[Head(reap_queue)] = "dead" /\ ut_state[Head(reap_queue)] = "UT_ZOMBIE"
           /\ Head(reap_queue) \in claimed
<1> DEFINE h == Head(reap_queue)
<1>1. /\ reap_queue \in Seq(Threads)
      /\ \A i, j \in 1..Len(reap_queue) : reap_queue[i] = reap_queue[j] => i = j
      /\ \A u \in Threads : InReapQueue(u) => u \in claimed /\ Passed(pt[u], cx[u])
  BY DEF Situation, LifeInvAt, LifeTypeOK, Custody
<1>2. /\ h \in Threads /\ h = reap_queue[1] /\ 1 \in 1..Len(reap_queue)
  BY <1>1, QueueTails
<1>3. InReapQueue(h)
  BY <1>2 DEF InReapQueue
<1>4. h \in claimed /\ Passed(pt[h], cx[h])
  BY <1>1, <1>2, <1>3
<1>5. ~Passed(pt[t], cx[t])
  BY DEF Passed, Frees, ReaperCode, Sections, Unlocks
<1>6. h # t
  BY <1>4, <1>5
<1>7. ~OnLwp(h)
  BY <1>2, <1>6, OneRuns
<1>8. pt[h] = "dead" /\ ut_state[h] = "UT_ZOMBIE"
  BY <1>2, <1>4, <1>7, OffLwpRests
<1> QED BY <1>2, <1>3, <1>4, <1>6, <1>8

\* The reaper takes it to itself.
LEMMA HeadTaken ==
    ASSUME NEW pt, NEW cx, NEW pq, NEW cd, NEW l \in LWPs, NEW t \in Threads,
           Advance(pt, cx, pq, cd, l, t), claimed' = claimed, UNCHANGED ut_detached,
           pt[t] \in ReaperCode, reap_queue # <<>>, ~Has(pt[t], cx[t]), ~Frees(pq[t], cd[t]),
           Has(pq[t], cd[t]), tgt'[t] = Head(reap_queue), reap_queue' = Tail(reap_queue),
           cx[t] # "exit", cd[t] # "exit"
    PROVE  Custody(pq, cd)' /\ CaredFor(pq, cd)'
<1> DEFINE h == Head(reap_queue)
<1>1. /\ Custody(pt, cx) /\ CaredFor(pt, cx) /\ reap_queue \in Seq(Threads) /\ claimed \subseteq Threads
      /\ \A v \in Threads \ {t} :
            pq[v] = pt[v] /\ cd[v] = cx[v] /\ tgt'[v] = tgt[v] /\ ut_state'[v] = ut_state[v]
      /\ ut_state'[t] \notin {"UT_NO_STATE", "UT_TRANSITION"}
      /\ \A v \in Threads : Has(pt[v], cx[v]) => tgt[v] \in Threads
  BY DEF Advance, Situation, LifeInvAt, LifeTypeOK, Local, Kept, Private, CallArgs
<1>2. /\ h \in Threads /\ h # t /\ InReapQueue(h) /\ ut_state[h] = "UT_ZOMBIE" /\ h \in claimed
      /\ ut_state[t] \notin {"UT_NO_STATE", "UT_TRANSITION"}
  BY ReapHead, OneRuns DEF Advance
<1>3. /\ \A v : InReapQueue(v)' <=> InReapQueue(v) /\ v # h
      /\ \A i, j \in 1..Len(reap_queue') : reap_queue'[i] = reap_queue'[j] => i = j
  BY <1>1, ReapTaken DEF Custody
<1>4. ~Passed(pt[t], cx[t])
  BY DEF Passed, Frees, ReaperCode, Sections, Unlocks
<1> HIDE DEF h
<1>5. \A v \in Threads \ {t} : Has(pq[v], cd[v]) => Has(pt[v], cx[v]) /\ tgt'[v] = tgt[v] /\ tgt[v] # h
  BY <1>1, <1>2 DEF Custody
<1>6. tgt'[t] = h
  BY DEF h
<1>7. \A v, w \in Threads : Has(pq[v], cd[v]) /\ Has(pq[w], cd[w]) /\ tgt'[v] = tgt'[w] => v = w
  BY <1>1, <1>5, <1>6 DEF Custody
<1>8. ASSUME NEW v \in Threads, Has(pq[v], cd[v])
      PROVE  /\ ~InReapQueue(tgt[v])' /\ tgt'[v] \in claimed'
             /\ ut_state'[tgt'[v]] \notin {"UT_NO_STATE", "UT_TRANSITION"}
  <2>1. \A x, y : x = y /\ ~InReapQueue(y)' => ~InReapQueue(x)'
    OBVIOUS
  <2>2. CASE v = t
    BY <1>1, <1>2, <1>3, <1>6, <2>1, <2>2
  <2>3. CASE v # t
    <3>1. /\ tgt'[v] = tgt[v] /\ ~InReapQueue(tgt[v]) /\ tgt[v] \in claimed
          /\ ut_state[tgt[v]] \notin {"UT_NO_STATE", "UT_TRANSITION"} /\ tgt[v] \in Threads
      BY <1>1, <1>5, <1>8, <2>3 DEF Custody
    <3> QED BY <1>1, <1>3, <2>1, <3>1
  <2> QED BY <2>2, <2>3
<1>9. \A v \in Threads : InReapQueue(v)' => v \in claimed' /\ Passed(pq[v], cd[v])
  BY <1>1, <1>3, <1>4 DEF Custody
<1>10. \A v \in Threads : ~Frees(pq[v], cd[v])
  BY <1>1, OneRuns, OffLwpRests DEF Advance
<1>11. ASSUME NEW v \in claimed'
       PROVE  \/ ut_state'[v] \in {"UT_NO_STATE", "UT_TRANSITION"} \/ InReapQueue(v)'
              \/ ut_detached'[v] /\ (cd[v] = "exit" => pq[v] = "exit_check")
              \/ \E w \in Threads : Has(pq[w], cd[w]) /\ tgt'[w] = v
  <2>1. CASE v = h
    BY <1>6, <2>1
  <2>2. CASE v # h
    <3>1. \/ ut_state[v] \in {"UT_NO_STATE", "UT_TRANSITION"} \/ InReapQueue(v)
          \/ ut_detached[v] /\ (cx[v] = "exit" => pt[v] = "exit_check")
          \/ \E w \in Threads : Has(pt[w], cx[w]) /\ tgt[w] = v
      BY <1>1, <1>11 DEF CaredFor
    <3>2. \A w \in Threads : Has(pt[w], cx[w]) /\ tgt[w] = v => Has(pq[w], cd[w]) /\ tgt'[w] = v
      BY <1>1
    <3>3. v \in Threads
      BY <1>1, <1>11
    <3> QED BY <1>1, <1>2, <1>3, <2>2, <3>1, <3>2, <3>3
  <2> QED BY <2>1, <2>2
<1> QED BY <1>3, <1>7, <1>8, <1>9, <1>10, <1>11 DEF Custody, CaredFor

\* The assertion of reap_thr_func holds.
LEMMA LifeReaperTake ==
    ASSUME NEW pt, NEW cx, Situation(pt, cx), NEW l \in LWPs, NEW t \in Threads, halted = "none",
           ReaperTake(l, t), At(l, t, "reaper_loop")
    PROVE  LifeInv'
<1>1. /\ Running(l, t) /\ stack[t] # <<>> /\ pt[t] = "reaper_loop" /\ cx[t] = "reaper_loop"
      /\ ut_no_preempt_count[t] = 1 /\ Tail(stack[t]) = <<>> /\ t = Reaper
      /\ reap_queue # <<>> /\ Head(reap_queue) \in Threads /\ Head(reap_queue) # t
      /\ pt[Head(reap_queue)] = "dead" /\ ut_state[Head(reap_queue)] = "UT_ZOMBIE"
  <2>1. /\ Row(pt[t], cx[t], ut_no_preempt_count[t], "reaper_loop", Tail(stack[t])) /\ stack[t] # <<>>
        /\ Running(l, t)
    BY AtPoint DEF ReaperTake
  <2>2. pt[t] = "reaper_loop" /\ cx[t] = "reaper_loop" /\ ut_no_preempt_count[t] = 1 /\ Tail(stack[t]) = <<>>
    BY <2>1, RowsOfReaper DEF ReaperCode
  <2>3. t = Reaper
    BY <2>2 DEF Situation, LifeInvAt, Private, Roles
  <2>4. pt[t] \in ReaperCode /\ reap_queue # <<>>
    BY <2>2 DEF ReaperCode, ReaperTake
  <2>5. /\ Head(reap_queue) \in Threads /\ Head(reap_queue) # t
        /\ pt[Head(reap_queue)] = "dead" /\ ut_state[Head(reap_queue)] = "UT_ZOMBIE"
    BY <2>1, <2>4, ReapHead
  <2> QED BY <2>1, <2>2, <2>3, <2>4, <2>5
<1>2. /\ Private(t, "reaper_loop", "reaper_loop") /\ LifeTypeOK /\ ut_no_preempt_count[t] \in Nat
  BY <1>1 DEF Situation, LifeInvAt, LifeTypeOK, SchedTypes
<1>3. /\ stack' \in [Threads -> Seq(LifeNames)] /\ stack'[t] # <<>>
      /\ Head(stack'[t]) = "reaper_lock" /\ Tail(stack'[t]) = <<>>
      /\ \A u \in Threads \ {t} : stack'[u] = stack[u]
  <2>1. Continue(t, <<"reaper_lock">>)
    BY <1>1, <1>2 DEF ReaperTake
  <2>2. "reaper_lock" \in LifeNames
    BY <1>1, NamesKnown
  <2> QED BY <1>1, <1>2, <2>1, <2>2, LifeContinue
<1>4. /\ tgt' \in [Threads -> Threads \cup {NoThread}] /\ tgt'[t] = Head(reap_queue)
      /\ \A u \in Threads \ {t} : tgt'[u] = tgt[u]
  BY <1>1, <1>2 DEF ReaperTake, LifeTypeOK
<1>5. reap_queue' \in Seq(Threads) /\ reap_queue' = Tail(reap_queue)
  <2>1. reap_queue' = Tail(reap_queue) /\ reap_queue \in Seq(Threads)
    BY <1>1, <1>2 DEF ReaperTake, LifeTypeOK
  <2> QED BY <1>1, <2>1, QueueTails
<1>6. UNCHANGED <<curthr, lwp, ut_state, ut_prio, ut_no_preempt_count, runq, tq_size, runq_mtx, waitq,
                  pmut, swarg, wakee, sparg, newthr, halted, m_owner, marg, carg, crit, ut_detached,
                  claimed>>
  BY <1>1, <1>2 DEF ReaperTake, cpuVars, thrVars, runqVars, waitVars, argVars, mtxVars, lifeVars, SyncRest
<1>7. LifeTypeOK'
  BY <1>1, <1>2, <1>3, <1>4, <1>5, <1>6 DEF LifeTypeOK, SchedTypes, LifeNames
<1>8. Local(t)
  <2>1. ut_state[t] \notin {"UT_NO_STATE", "UT_TRANSITION"}
    BY <1>1, OneRuns
  <2> QED BY <1>1, <1>2, <1>3, <1>4, <1>5, <1>6, <2>1 DEF Local, Kept, runqVars
<1>9. Private(t, "reaper_lock", "reaper_loop")'
  <2>1. Is("reaper_lock", "reaper_loop", ut_no_preempt_count[t], stack[t])'
    <3>1. ReaperRow("reaper_lock", "reaper_loop", 1, "reaper_lock", <<>>)
      BY <1>1 DEF ReaperRow, ReaperCode
    <3> QED BY <1>1, <1>3, <1>6, <3>1 DEF Is, Row
  <2>2. ModeOf("reaper_lock", "reaper_loop", OnLwp(t), ut_state[t])'
    <3>1. ut_state[t] = StateOn(pt[t], cx[t])
      BY <1>1, OneRuns
    <3>2. ut_state'[t] = StateOn("reaper_lock", "reaper_loop")
      BY <1>1, <1>2, <1>6, <3>1 DEF StateOn, Buriers, Lockers, Preemptible
    <3> QED BY <1>1, <1>6, <3>2, StaysOn
  <2>3. SwitchArgs(t, "reaper_lock")' /\ LockArgs(t, "reaper_lock", "reaper_loop")'
    BY <1>1, <1>2, <1>4, <1>5, <1>6, LifeObjects DEF Private, SwitchArgs, LockArgs, InSection,
                                                     Settling, CondWaits, Sections, ReaperCode,
                                                     Unlocks, Preemptible, Buriers
  <2>4. CallArgs(t, "reaper_lock", "reaper_loop")' /\ Roles(t, "reaper_lock", "reaper_loop")'
    BY <1>1, <1>2, <1>4, <1>5, <1>6, LifeObjects DEF Private, CallArgs, Roles, Allocates, WakePoints,
                                                     Has, Frees, Sections, Unlocks, JoinCode, Buriers,
                                                     Preemptible, Yields
  <2> QED BY <2>1, <2>2, <2>3, <2>4 DEF Private
<1>10. PICK pq \in [Threads -> Points], cd \in [Threads -> Contexts] :
          Advance(pt, cx, pq, cd, l, t) /\ pq[t] = "reaper_lock" /\ cd[t] = "reaper_loop"
  <2>1. "reaper_lock" \in Points /\ "reaper_loop" \in Contexts
    BY <1>1, <1>2 DEF Points, Yields, Sections, Unlocks, ReaperCode, CondWaits, ExitCode, JoinCode,
                      Locks, Frees, InSection, Buriers, Preemptible, Contexts, Lockers
  <2>2. CanAdvance(pt, cx, l, t)
    BY <1>1, <1>8 DEF CanAdvance
  <2>3. MayReach(pt, cx, l, t, "reaper_lock", "reaper_loop")
    BY <2>1, <2>2, AdvanceTo
  <2> QED BY <2>3 DEF MayReach
<1>11. Private(t, pq[t], cd[t])'
  BY <1>9, <1>10
<1>12. NewRight(pq)'
  <2>1. newthr' = newthr /\ {pt[t], pq[t]} \cap {"alloc_claim", "startonrunq"} = {}
    BY <1>1, <1>2, <1>4, <1>5, <1>6, <1>10
  <2> QED BY <1>1, <1>10, <2>1, LocalNew DEF Advance
<1>13. PmutsRight(pq, cd)'
  <2>1. \A o \in Objs : Locks(t, pq[t], cd[t], o)' <=> Locks(t, pt[t], cx[t], o)
    BY <1>1, <1>2, <1>4, <1>5, <1>6, <1>10 DEF Locks, Frees, Sections, Unlocks, Buriers
  <2> QED BY <1>10, <1>6, <2>1, KeepsPmuts
<1>14. MutexRight(pq, cd)'
  <2>1. /\ InSection(pq[t], cd[t]) <=> InSection(pt[t], cx[t])
        /\ {pt[t], pq[t]} \cap {"mtx_locked", "mtx_switch"} = {}
    BY <1>1, <1>2, <1>4, <1>5, <1>6, <1>10 DEF InSection, Sections, ReaperCode, Buriers
  <2> QED BY <1>10, <1>6, <2>1, KeepsMutex
<1>15. Custody(pq, cd)'
  <2>1. Has(pq[t], cd[t]) /\ ~Has(pt[t], cx[t]) /\ ~Frees(pq[t], cd[t]) /\ pt[t] \in ReaperCode
    BY <1>1, <1>10 DEF Has, Frees, JoinCode, Buriers, ReaperCode
  <2>2. /\ tgt'[t] = Head(reap_queue) /\ reap_queue' = Tail(reap_queue) /\ claimed' = claimed /\ UNCHANGED ut_detached
        /\ reap_queue # <<>> /\ cx[t] # "exit" /\ cd[t] # "exit"
    BY <1>1, <1>2, <1>4, <1>5, <1>6, <1>10
  <2> QED BY <1>10, <2>1, <2>2, HeadTaken
<1>16. Targets(pq, cd)'
  <2>1. Targets(pt, cx)
    BY DEF Situation, LifeInvAt
  <2>2. /\ pq[tgt'[t]] = "dead" /\ pq[t] = "reaper_lock" /\ cd[t] = "reaper_loop"
        /\ ut_detached' = ut_detached /\ claimed' = claimed
    BY <1>1, <1>2, <1>4, <1>5, <1>6, <1>10 DEF Advance
  <2>3. ~Joins(pq[t], cd[t])
    BY <1>1, <2>2 DEF Joins
  <2>4. \A v \in Threads \ {t} : Joins(pt[v], cx[v]) => ~ut_detached'[tgt[v]]
    BY <2>1, <2>2 DEF Targets
  <2> QED BY <1>10, <2>2, <2>3, <2>4, TargetsKept
<1>17. CaredFor(pq, cd)'
  <2>1. Has(pq[t], cd[t]) /\ ~Has(pt[t], cx[t]) /\ ~Frees(pq[t], cd[t]) /\ pt[t] \in ReaperCode
    BY <1>1, <1>10 DEF Has, Frees, JoinCode, Buriers, ReaperCode
  <2>2. /\ tgt'[t] = Head(reap_queue) /\ reap_queue' = Tail(reap_queue) /\ claimed' = claimed /\ UNCHANGED ut_detached
        /\ reap_queue # <<>> /\ cx[t] # "exit" /\ cd[t] # "exit"
    BY <1>1, <1>2, <1>4, <1>5, <1>6, <1>10
  <2> QED BY <1>10, <2>1, <2>2, HeadTaken
<1>18. JoinsRight(pq, cd)'
  <2>1. /\ Gone(pq[t], cd[t]) <=> Gone(pt[t], cx[t])
        /\ pq[t] \notin {"join_switch", "join_woken"}
    BY <1>1, <1>2, <1>4, <1>5, <1>6, <1>10 DEF Gone, Preemptible, Buriers
  <2> QED BY <1>10, <1>6, <2>1, KeepsJoins
<1>19. ReaperRight(pq, cd)'
  <2>1. /\ ReaperRight(pt, cx) /\ ut_state' = ut_state /\ halted' = halted
        /\ \A u \in Threads \ {t} : pq[u] = pt[u] /\ cd[u] = cx[u]
        /\ ~Settling(pq[t], cd[t])
    BY <1>1, <1>10, <1>6 DEF Advance, Situation, LifeInvAt, Settling, Unlocks
  <2>2. \A u \in Threads \ {t} : ~Settling(pt[u], cx[u])
    BY <1>1, OneRuns, OffLwpRests
  <2>3. ASSUME NEW u \in Threads PROVE ~InQueue(reap_cond, u)'
    <3>1. InQueue(reap_cond, u) => pt[u] = "cond_relock"
      BY DEF Situation, LifeInvAt, WaitsRight
    <3>2. pt[u] = "cond_relock" => u = t
      BY <1>1, WaitingContexts
    <3> QED BY <1>1, <1>8, <3>1, <3>2, LocalFrame
  <2>4. \E u \in Threads \ {Reaper} : ut_state'[u] # "UT_NO_STATE"
    BY <1>1, <2>1
  <2> QED BY <2>1, <2>2, <2>3, <2>4 DEF ReaperRight
<1> QED BY <1>6, <1>7, <1>10, <1>11, <1>12, <1>13, <1>14, <1>15, <1>16, <1>17, <1>18, <1>19, AdvanceEnds DEF Rights

LEMMA LifeReaperTakeScanning ==
    ASSUME NEW pt, NEW cx, Situation(pt, cx), NEW l \in LWPs, NEW t \in Threads, halted = "none",
           ReaperTake(l, t), At(l, t, "reaper_scan")
    PROVE  LifeInv'
<1>1. /\ Running(l, t) /\ stack[t] # <<>> /\ pt[t] = "reaper_scan" /\ cx[t] = "reaper_loop"
      /\ ut_no_preempt_count[t] = 1 /\ Tail(stack[t]) = <<>> /\ t = Reaper
      /\ reap_queue # <<>> /\ Head(reap_queue) \in Threads /\ Head(reap_queue) # t
      /\ pt[Head(reap_queue)] = "dead" /\ ut_state[Head(reap_queue)] = "UT_ZOMBIE"
  <2>1. /\ Row(pt[t], cx[t], ut_no_preempt_count[t], "reaper_scan", Tail(stack[t])) /\ stack[t] # <<>>
        /\ Running(l, t)
    BY AtPoint DEF ReaperTake
  <2>2. pt[t] = "reaper_scan" /\ cx[t] = "reaper_loop" /\ ut_no_preempt_count[t] = 1 /\ Tail(stack[t]) = <<>>
    BY <2>1, RowsOfReaper DEF ReaperCode
  <2>3. t = Reaper
    BY <2>2 DEF Situation, LifeInvAt, Private, Roles
  <2>4. pt[t] \in ReaperCode /\ reap_queue # <<>>
    BY <2>2 DEF ReaperCode, ReaperTake
  <2>5. /\ Head(reap_queue) \in Threads /\ Head(reap_queue) # t
        /\ pt[Head(reap_queue)] = "dead" /\ ut_state[Head(reap_queue)] = "UT_ZOMBIE"
    BY <2>1, <2>4, ReapHead
  <2> QED BY <2>1, <2>2, <2>3, <2>4, <2>5
<1>2. /\ Private(t, "reaper_scan", "reaper_loop") /\ LifeTypeOK /\ ut_no_preempt_count[t] \in Nat
  BY <1>1 DEF Situation, LifeInvAt, LifeTypeOK, SchedTypes
<1>3. /\ stack' \in [Threads -> Seq(LifeNames)] /\ stack'[t] # <<>>
      /\ Head(stack'[t]) = "reaper_lock" /\ Tail(stack'[t]) = <<>>
      /\ \A u \in Threads \ {t} : stack'[u] = stack[u]
  <2>1. Continue(t, <<"reaper_lock">>)
    BY <1>1, <1>2 DEF ReaperTake
  <2>2. "reaper_lock" \in LifeNames
    BY <1>1, NamesKnown
  <2> QED BY <1>1, <1>2, <2>1, <2>2, LifeContinue
<1>4. /\ tgt' \in [Threads -> Threads \cup {NoThread}] /\ tgt'[t] = Head(reap_queue)
      /\ \A u \in Threads \ {t} : tgt'[u] = tgt[u]
  BY <1>1, <1>2 DEF ReaperTake, LifeTypeOK
<1>5. reap_queue' \in Seq(Threads) /\ reap_queue' = Tail(reap_queue)
  <2>1. reap_queue' = Tail(reap_queue) /\ reap_queue \in Seq(Threads)
    BY <1>1, <1>2 DEF ReaperTake, LifeTypeOK
  <2> QED BY <1>1, <2>1, QueueTails
<1>6. UNCHANGED <<curthr, lwp, ut_state, ut_prio, ut_no_preempt_count, runq, tq_size, runq_mtx, waitq,
                  pmut, swarg, wakee, sparg, newthr, halted, m_owner, marg, carg, crit, ut_detached,
                  claimed>>
  BY <1>1, <1>2 DEF ReaperTake, cpuVars, thrVars, runqVars, waitVars, argVars, mtxVars, lifeVars, SyncRest
<1>7. LifeTypeOK'
  BY <1>1, <1>2, <1>3, <1>4, <1>5, <1>6 DEF LifeTypeOK, SchedTypes, LifeNames
<1>8. Local(t)
  <2>1. ut_state[t] \notin {"UT_NO_STATE", "UT_TRANSITION"}
    BY <1>1, OneRuns
  <2> QED BY <1>1, <1>2, <1>3, <1>4, <1>5, <1>6, <2>1 DEF Local, Kept, runqVars
<1>9. Private(t, "reaper_lock", "reaper_loop")'
  <2>1. Is("reaper_lock", "reaper_loop", ut_no_preempt_count[t], stack[t])'
    <3>1. ReaperRow("reaper_lock", "reaper_loop", 1, "reaper_lock", <<>>)
      BY <1>1 DEF ReaperRow, ReaperCode
    <3> QED BY <1>1, <1>3, <1>6, <3>1 DEF Is, Row
  <2>2. ModeOf("reaper_lock", "reaper_loop", OnLwp(t), ut_state[t])'
    <3>1. ut_state[t] = StateOn(pt[t], cx[t])
      BY <1>1, OneRuns
    <3>2. ut_state'[t] = StateOn("reaper_lock", "reaper_loop")
      BY <1>1, <1>2, <1>6, <3>1 DEF StateOn, Buriers, Lockers, Preemptible
    <3> QED BY <1>1, <1>6, <3>2, StaysOn
  <2>3. SwitchArgs(t, "reaper_lock")' /\ LockArgs(t, "reaper_lock", "reaper_loop")'
    BY <1>1, <1>2, <1>4, <1>5, <1>6, LifeObjects DEF Private, SwitchArgs, LockArgs, InSection,
                                                     Settling, CondWaits, Sections, ReaperCode,
                                                     Unlocks, Preemptible, Buriers
  <2>4. CallArgs(t, "reaper_lock", "reaper_loop")' /\ Roles(t, "reaper_lock", "reaper_loop")'
    BY <1>1, <1>2, <1>4, <1>5, <1>6, LifeObjects DEF Private, CallArgs, Roles, Allocates, WakePoints,
                                                     Has, Frees, Sections, Unlocks, JoinCode, Buriers,
                                                     Preemptible, Yields
  <2> QED BY <2>1, <2>2, <2>3, <2>4 DEF Private
<1>10. PICK pq \in [Threads -> Points], cd \in [Threads -> Contexts] :
          Advance(pt, cx, pq, cd, l, t) /\ pq[t] = "reaper_lock" /\ cd[t] = "reaper_loop"
  <2>1. "reaper_lock" \in Points /\ "reaper_loop" \in Contexts
    BY <1>1, <1>2 DEF Points, Yields, Sections, Unlocks, ReaperCode, CondWaits, ExitCode, JoinCode,
                      Locks, Frees, InSection, Buriers, Preemptible, Contexts, Lockers
  <2>2. CanAdvance(pt, cx, l, t)
    BY <1>1, <1>8 DEF CanAdvance
  <2>3. MayReach(pt, cx, l, t, "reaper_lock", "reaper_loop")
    BY <2>1, <2>2, AdvanceTo
  <2> QED BY <2>3 DEF MayReach
<1>11. Private(t, pq[t], cd[t])'
  BY <1>9, <1>10
<1>12. NewRight(pq)'
  <2>1. newthr' = newthr /\ {pt[t], pq[t]} \cap {"alloc_claim", "startonrunq"} = {}
    BY <1>1, <1>2, <1>4, <1>5, <1>6, <1>10
  <2> QED BY <1>1, <1>10, <2>1, LocalNew DEF Advance
<1>13. PmutsRight(pq, cd)'
  <2>1. \A o \in Objs : Locks(t, pq[t], cd[t], o)' <=> Locks(t, pt[t], cx[t], o)
    BY <1>1, <1>2, <1>4, <1>5, <1>6, <1>10 DEF Locks, Frees, Sections, Unlocks, Buriers
  <2> QED BY <1>10, <1>6, <2>1, KeepsPmuts
<1>14. MutexRight(pq, cd)'
  <2>1. /\ InSection(pq[t], cd[t]) <=> InSection(pt[t], cx[t])
        /\ {pt[t], pq[t]} \cap {"mtx_locked", "mtx_switch"} = {}
    BY <1>1, <1>2, <1>4, <1>5, <1>6, <1>10 DEF InSection, Sections, ReaperCode, Buriers
  <2> QED BY <1>10, <1>6, <2>1, KeepsMutex
<1>15. Custody(pq, cd)'
  <2>1. Has(pq[t], cd[t]) /\ ~Has(pt[t], cx[t]) /\ ~Frees(pq[t], cd[t]) /\ pt[t] \in ReaperCode
    BY <1>1, <1>10 DEF Has, Frees, JoinCode, Buriers, ReaperCode
  <2>2. /\ tgt'[t] = Head(reap_queue) /\ reap_queue' = Tail(reap_queue) /\ claimed' = claimed /\ UNCHANGED ut_detached
        /\ reap_queue # <<>> /\ cx[t] # "exit" /\ cd[t] # "exit"
    BY <1>1, <1>2, <1>4, <1>5, <1>6, <1>10
  <2> QED BY <1>10, <2>1, <2>2, HeadTaken
<1>16. Targets(pq, cd)'
  <2>1. Targets(pt, cx)
    BY DEF Situation, LifeInvAt
  <2>2. /\ pq[tgt'[t]] = "dead" /\ pq[t] = "reaper_lock" /\ cd[t] = "reaper_loop"
        /\ ut_detached' = ut_detached /\ claimed' = claimed
    BY <1>1, <1>2, <1>4, <1>5, <1>6, <1>10 DEF Advance
  <2>3. ~Joins(pq[t], cd[t])
    BY <1>1, <2>2 DEF Joins
  <2>4. \A v \in Threads \ {t} : Joins(pt[v], cx[v]) => ~ut_detached'[tgt[v]]
    BY <2>1, <2>2 DEF Targets
  <2> QED BY <1>10, <2>2, <2>3, <2>4, TargetsKept
<1>17. CaredFor(pq, cd)'
  <2>1. Has(pq[t], cd[t]) /\ ~Has(pt[t], cx[t]) /\ ~Frees(pq[t], cd[t]) /\ pt[t] \in ReaperCode
    BY <1>1, <1>10 DEF Has, Frees, JoinCode, Buriers, ReaperCode
  <2>2. /\ tgt'[t] = Head(reap_queue) /\ reap_queue' = Tail(reap_queue) /\ claimed' = claimed /\ UNCHANGED ut_detached
        /\ reap_queue # <<>> /\ cx[t] # "exit" /\ cd[t] # "exit"
    BY <1>1, <1>2, <1>4, <1>5, <1>6, <1>10
  <2> QED BY <1>10, <2>1, <2>2, HeadTaken
<1>18. JoinsRight(pq, cd)'
  <2>1. /\ Gone(pq[t], cd[t]) <=> Gone(pt[t], cx[t])
        /\ pq[t] \notin {"join_switch", "join_woken"}
    BY <1>1, <1>2, <1>4, <1>5, <1>6, <1>10 DEF Gone, Preemptible, Buriers
  <2> QED BY <1>10, <1>6, <2>1, KeepsJoins
<1>19. ReaperRight(pq, cd)'
  <2>1. /\ ReaperRight(pt, cx) /\ ut_state' = ut_state /\ halted' = halted
        /\ \A u \in Threads \ {t} : pq[u] = pt[u] /\ cd[u] = cx[u]
        /\ ~Settling(pq[t], cd[t])
    BY <1>1, <1>10, <1>6 DEF Advance, Situation, LifeInvAt, Settling, Unlocks
  <2>2. \A u \in Threads \ {t} : ~Settling(pt[u], cx[u])
    BY <1>1, OneRuns, OffLwpRests
  <2>3. ASSUME NEW u \in Threads PROVE ~InQueue(reap_cond, u)'
    <3>1. InQueue(reap_cond, u) => pt[u] = "cond_relock"
      BY DEF Situation, LifeInvAt, WaitsRight
    <3>2. pt[u] = "cond_relock" => u = t
      BY <1>1, WaitingContexts
    <3> QED BY <1>1, <1>8, <3>1, <3>2, LocalFrame
  <2>4. \E u \in Threads \ {Reaper} : ut_state'[u] # "UT_NO_STATE"
    BY <1>1, <2>1
  <2> QED BY <2>1, <2>2, <2>3, <2>4 DEF ReaperRight
<1> QED BY <1>6, <1>7, <1>10, <1>11, <1>12, <1>13, <1>14, <1>15, <1>16, <1>17, <1>18, <1>19, AdvanceEnds DEF Rights

\* The reaper waits for the threads that are left, or ends the process.
LEMMA LifeReaperScan ==
    ASSUME NEW pt, NEW cx, Situation(pt, cx), NEW l \in LWPs, NEW t \in Threads, halted = "none",
           ReaperScan(l, t)
    PROVE  LifeInv'
<1>1. /\ Running(l, t) /\ stack[t] # <<>> /\ pt[t] = "reaper_scan" /\ cx[t] = "reaper_loop"
      /\ ut_no_preempt_count[t] = 1 /\ Tail(stack[t]) = <<>> /\ t = Reaper /\ reap_queue = <<>>
  <2>1. /\ Row(pt[t], cx[t], ut_no_preempt_count[t], "reaper_scan", Tail(stack[t])) /\ stack[t] # <<>>
        /\ Running(l, t)
    BY AtPoint DEF ReaperScan
  <2>2. pt[t] = "reaper_scan" /\ cx[t] = "reaper_loop" /\ ut_no_preempt_count[t] = 1 /\ Tail(stack[t]) = <<>>
    BY <2>1, RowsOfReaper DEF ReaperCode
  <2>3. t = Reaper
    BY <2>2 DEF Situation, LifeInvAt, Private, Roles
  <2> QED BY <2>1, <2>2, <2>3 DEF ReaperScan
<1>2. /\ Private(t, "reaper_scan", "reaper_loop") /\ LifeTypeOK /\ ut_no_preempt_count[t] \in Nat
  BY <1>1 DEF Situation, LifeInvAt, LifeTypeOK, SchedTypes
<1>3. /\ stack' \in [Threads -> Seq(LifeNames)] /\ stack'[t] # <<>>
      /\ Head(stack'[t]) = "reaper_loop" /\ Tail(stack'[t]) = <<>>
      /\ \A u \in Threads \ {t} : stack'[u] = stack[u]
  <2>1. Continue(t, <<"reaper_loop">>)
    BY <1>1, <1>2 DEF ReaperScan
  <2>2. "reaper_loop" \in LifeNames
    BY <1>1, NamesKnown
  <2> QED BY <1>1, <1>2, <2>1, <2>2, LifeContinue
<1>4. /\ halted' \in {"none", "exit"}
      /\ halted' = "exit" \/ \E u \in Threads \ {Reaper} : ut_state[u] # "UT_NO_STATE"
  BY DEF ReaperScan
<1>5. UNCHANGED <<curthr, lwp, ut_state, ut_prio, ut_no_preempt_count, runq, tq_size, runq_mtx, waitq,
                  pmut, swarg, wakee, sparg, newthr, m_owner, marg, carg, crit, ut_detached,
                  reap_queue, tgt, claimed>>
  BY <1>1, <1>2 DEF ReaperScan, cpuVars, thrVars, runqVars, waitVars, argVars, mtxVars, lifeVars, SyncRest
<1>6. LifeTypeOK'
  BY <1>1, <1>2, <1>3, <1>4, <1>5 DEF LifeTypeOK, SchedTypes, LifeNames
<1>7. Local(t)
  <2>1. ut_state[t] \notin {"UT_NO_STATE", "UT_TRANSITION"}
    BY <1>1, OneRuns
  <2> QED BY <1>1, <1>2, <1>3, <1>4, <1>5, <2>1 DEF Local, Kept, runqVars
<1>8. Private(t, "reaper_loop", "reaper_loop")'
  <2>1. Is("reaper_loop", "reaper_loop", ut_no_preempt_count[t], stack[t])'
    <3>1. ReaperRow("reaper_loop", "reaper_loop", 1, "reaper_loop", <<>>)
      BY <1>1 DEF ReaperRow, ReaperCode
    <3> QED BY <1>1, <1>3, <1>5, <3>1 DEF Is, Row
  <2>2. ModeOf("reaper_loop", "reaper_loop", OnLwp(t), ut_state[t])'
    <3>1. ut_state[t] = StateOn(pt[t], cx[t])
      BY <1>1, OneRuns
    <3>2. ut_state'[t] = StateOn("reaper_loop", "reaper_loop")
      BY <1>1, <1>2, <1>5, <3>1 DEF StateOn, Buriers, Lockers, Preemptible
    <3> QED BY <1>1, <1>5, <3>2, StaysOn
  <2>3. SwitchArgs(t, "reaper_loop")' /\ LockArgs(t, "reaper_loop", "reaper_loop")'
    BY <1>1, <1>2, <1>4, <1>5 DEF Private, SwitchArgs, LockArgs, InSection, Settling, CondWaits,
                                  Sections, ReaperCode, Unlocks, Preemptible, Buriers
  <2>4. CallArgs(t, "reaper_loop", "reaper_loop")' /\ Roles(t, "reaper_loop", "reaper_loop")'
    BY <1>1, <1>2, <1>4, <1>5 DEF Private, CallArgs, Roles, Allocates, WakePoints, Has, Frees,
                                  Sections, Unlocks, JoinCode, Buriers, Preemptible, Yields
  <2> QED BY <2>1, <2>2, <2>3, <2>4 DEF Private
<1>9. PICK pq \in [Threads -> Points], cd \in [Threads -> Contexts] :
          Advance(pt, cx, pq, cd, l, t) /\ pq[t] = "reaper_loop" /\ cd[t] = "reaper_loop"
  <2>1. "reaper_loop" \in Points /\ "reaper_loop" \in Contexts
    BY <1>1, <1>2 DEF Points, Yields, Sections, Unlocks, ReaperCode, CondWaits, ExitCode, JoinCode,
                      Locks, Frees, InSection, Buriers, Preemptible, Contexts, Lockers
  <2>2. CanAdvance(pt, cx, l, t)
    BY <1>1, <1>7 DEF CanAdvance
  <2>3. MayReach(pt, cx, l, t, "reaper_loop", "reaper_loop")
    BY <2>1, <2>2, AdvanceTo
  <2> QED BY <2>3 DEF MayReach
<1>10. Private(t, pq[t], cd[t])'
  BY <1>8, <1>9
<1>11. NewRight(pq)'
  <2>1. newthr' = newthr /\ {pt[t], pq[t]} \cap {"alloc_claim", "startonrunq"} = {}
    BY <1>1, <1>2, <1>4, <1>5, <1>9
  <2> QED BY <1>1, <1>9, <2>1, LocalNew DEF Advance
<1>12. PmutsRight(pq, cd)'
  <2>1. \A o \in Objs : Locks(t, pq[t], cd[t], o)' <=> Locks(t, pt[t], cx[t], o)
    BY <1>1, <1>2, <1>4, <1>5, <1>9 DEF Locks, Frees, Sections, Unlocks, Buriers
  <2> QED BY <1>9, <1>5, <2>1, KeepsPmuts
<1>13. MutexRight(pq, cd)'
  <2>1. /\ InSection(pq[t], cd[t]) <=> InSection(pt[t], cx[t])
        /\ {pt[t], pq[t]} \cap {"mtx_locked", "mtx_switch"} = {}
    BY <1>1, <1>2, <1>4, <1>5, <1>9 DEF InSection, Sections, ReaperCode, Buriers
  <2> QED BY <1>9, <1>5, <2>1, KeepsMutex
<1>14. Custody(pq, cd)'
  <2>1. /\ Has(pq[t], cd[t]) => Has(pt[t], cx[t]) /\ tgt'[t] = tgt[t]
        /\ Frees(pq[t], cd[t]) => Frees(pt[t], cx[t]) /\ tgt'[t] = tgt[t]
        /\ Passed(pt[t], cx[t]) => Passed(pq[t], cd[t])
    BY <1>1, <1>2, <1>4, <1>5, <1>9 DEF Has, Frees, Passed, JoinCode, Sections, Unlocks, Buriers
  <2> QED BY <1>9, <1>5, <2>1, KeepsCustody
<1>15. Targets(pq, cd)'
  <2>1. /\ Joins(pq[t], cd[t]) => Joins(pt[t], cx[t]) /\ tgt'[t] = tgt[t]
        /\ HasDead(pq[t], cd[t]) => HasDead(pt[t], cx[t]) /\ tgt'[t] = tgt[t]
        /\ pq[t] # "detach_check"
    BY <1>1, <1>2, <1>4, <1>5, <1>9 DEF Joins, HasDead, Has, JoinCode, Buriers
  <2>2. HasDead(pt[t], cx[t]) => tgt[t] \in Threads /\ pt[tgt[t]] = "dead"
    BY DEF Situation, LifeInvAt, LifeTypeOK, Targets, HasDead, Private, CallArgs
  <2> QED BY <1>9, <1>5, <2>1, <2>2, KeepsTargets
<1>16. CaredFor(pq, cd)'
  <2>1. /\ Has(pt[t], cx[t]) => Has(pq[t], cd[t]) /\ tgt'[t] = tgt[t]
        /\ (cx[t] = "exit" => pt[t] = "exit_check") => (cd[t] = "exit" => pq[t] = "exit_check")
    BY <1>1, <1>2, <1>4, <1>5, <1>9 DEF Has, JoinCode, Buriers, Preemptible
  <2> QED BY <1>9, <1>5, <2>1, KeepsCare
<1>17. JoinsRight(pq, cd)'
  <2>1. /\ Gone(pq[t], cd[t]) <=> Gone(pt[t], cx[t])
        /\ pq[t] \notin {"join_switch", "join_woken"}
    BY <1>1, <1>2, <1>4, <1>5, <1>9 DEF Gone, Preemptible, Buriers
  <2> QED BY <1>9, <1>5, <2>1, KeepsJoins
<1>18. ReaperRight(pq, cd)'
  <2>1. /\ ReaperRight(pt, cx) /\ ut_state' = ut_state /\ reap_queue' = reap_queue /\ reap_queue = <<>>
        /\ halted' = "exit" \/ \E u \in Threads \ {Reaper} : ut_state[u] # "UT_NO_STATE"
    BY <1>1, <1>1, <1>2, <1>4, <1>5, <1>9 DEF Situation, LifeInvAt
  <2> QED BY <2>1 DEF ReaperRight
<1> QED BY <1>4, <1>5, <1>6, <1>9, <1>10, <1>11, <1>12, <1>13, <1>14, <1>15, <1>16, <1>17, <1>18, AdvanceEnds DEF Rights
=============================================================================
